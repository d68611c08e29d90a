----------------------------- MODULE TsanSignals -----------------------------
(***************************************************************************)
(* Signals of one thread (lib/tsan/rtl/tsan_interceptors.cc).  The kernel  *)
(* runs the run-time's handler, which calls the program's only for a       *)
(* synchronous signal: a fault, or one that the thread sends to itself.    *)
(* Any other is put down and the program's handler runs when the thread    *)
(* next leaves a wrapper.  running is what the thread is in the middle of, *)
(* outermost first.  The kernel's part (pending, masked) is external.      *)
(***************************************************************************)
EXTENDS Integers, Sequences

CONSTANTS
  Signals,       \* numbers of signals the program may send to itself
  Faults,        \* SIGSEGV and the others that are always synchronous
  MaxDepth,      \* bound on running
  MaxSent        \* bound on the signals sent

VARIABLES
  sigactions,               \* signal -> "dfl", "ign" or "fn"
  armed,                    \* pending_signals[sig].armed
  pending_signal_count,
  int_signal_send,          \* the signal that is being sent, or 0
  in_rtl, in_signal_handler,
  running,
  masked, pending,          \* of the kernel: all are blocked, those that wait
  check_failed,             \* a CHECK failed, and the process died
  sent

vars == <<sigactions, armed, pending_signal_count, int_signal_send, in_rtl,
          in_signal_handler, running, masked, pending, check_failed, sent>>
sigVars == <<armed, pending_signal_count, int_signal_send>>

All == Signals \cup Faults
Top == running[Len(running)]
Pop == SubSeq(running, 1, Len(running) - 1)
Push(frame) == running' = Append(running, frame)
Replace(frame) == running' = Append(Pop, frame)

-----------------------------------------------------------------------------
(* Wrappers.  The program's code is at the top when it runs.               *)

InProgram == Top.in \in {"program", "handler"}

\* ScopedInterceptor and the wrapper of any function.
Enter ==
  /\ InProgram /\ Len(running) < MaxDepth
  /\ in_rtl' = in_rtl + 1 /\ Push([in |-> "wrapper"])
  /\ UNCHANGED <<sigactions, sigVars, in_signal_handler, masked, pending, check_failed, sent>>

\* raise, kill and pthread_kill, to the thread itself.
Raise ==
  /\ InProgram /\ Len(running) < MaxDepth /\ sent < MaxSent /\ sent' = sent + 1
  /\ \E sig \in Signals :
       /\ in_rtl' = in_rtl + 1
       /\ Push([in |-> "raise", sig |-> sig, prev |-> int_signal_send])
       /\ int_signal_send' = sig
       /\ pending' = pending \cup {sig}
  /\ UNCHANGED <<sigactions, armed, pending_signal_count, in_signal_handler, masked, check_failed>>

\* The handler is changed; with act = 0 it is only asked for.
sigaction ==
  /\ Top.in = "wrapper"
  /\ \E sig \in All, act \in {"dfl", "ign", "fn"} : sigactions' = [sigactions EXCEPT ![sig] = act]
  /\ UNCHANGED <<sigVars, in_rtl, in_signal_handler, running, masked, pending, check_failed, sent>>

\* process_pending_signals, up to the mask; the CHECK is in_rtl = 0.
Processes == pending_signal_count # 0 /\ ~in_signal_handler
LeaveTo(stack) ==
  IF in_rtl = 1 /\ Processes
  THEN /\ in_signal_handler' = TRUE /\ pending_signal_count' = 0
       /\ running' = Append(stack, [in |-> "mask"])
  ELSE running' = stack /\ UNCHANGED <<in_signal_handler, pending_signal_count>>

Leave ==
  /\ Top.in = "wrapper" /\ in_rtl' = in_rtl - 1 /\ LeaveTo(Pop)
  /\ UNCHANGED <<sigactions, armed, int_signal_send, masked, pending, check_failed, sent>>
\* What was sent is delivered before raise returns, unless it is blocked.
LeaveRaise ==
  /\ Top.in = "raise" /\ (masked \/ Top.sig \notin pending)
  /\ check_failed' = (int_signal_send # Top.sig)
  /\ int_signal_send' = Top.prev /\ in_rtl' = in_rtl - 1 /\ LeaveTo(Pop)
  /\ UNCHANGED <<sigactions, armed, masked, pending, sent>>

-----------------------------------------------------------------------------
(* process_pending_signals, the rest.                                      *)

Mask ==
  /\ Top.in = "mask" /\ masked' = TRUE /\ Replace([in |-> "loop", before |-> masked])
  /\ UNCHANGED <<sigactions, sigVars, in_rtl, in_signal_handler, pending, check_failed, sent>>
NextSignal ==
  /\ Top.in = "loop"
  /\ \E sig \in armed :
       /\ \A other \in armed : sig <= other
       /\ armed' = armed \ {sig}
       /\ IF sigactions[sig] = "fn" THEN Push([in |-> "handler", sync |-> FALSE]) ELSE UNCHANGED running
  /\ UNCHANGED <<sigactions, pending_signal_count, int_signal_send, in_rtl, in_signal_handler,
                 masked, pending, check_failed, sent>>
Unmask ==
  /\ Top.in = "loop" /\ armed = {} /\ masked' = Top.before /\ Replace([in |-> "end"])
  /\ UNCHANGED <<sigactions, sigVars, in_rtl, in_signal_handler, pending, check_failed, sent>>
BugEndProcess ==
  /\ Top.in = "end" /\ running' = Pop /\ in_signal_handler' = FALSE
  /\ pending_signal_count' = 0 /\ check_failed' = ~in_signal_handler
  /\ UNCHANGED <<sigactions, armed, int_signal_send, in_rtl, masked, pending, sent>>
EndProcess ==
  /\ Top.in = "end" /\ running' = Pop /\ in_signal_handler' = FALSE
  /\ check_failed' = ~in_signal_handler
  /\ UNCHANGED <<sigactions, sigVars, in_rtl, masked, pending, sent>>

-----------------------------------------------------------------------------
(* Delivery by the kernel.                                                 *)

Arrive ==
  /\ sent < MaxSent /\ sent' = sent + 1
  /\ \E sig \in Signals : pending' = pending \cup {sig}
  /\ UNCHANGED <<sigactions, sigVars, in_rtl, in_signal_handler, running, masked, check_failed>>
\* A default action ends the process; an ignored signal is gone.
Ignored ==
  /\ ~masked
  /\ \E sig \in pending : sigactions[sig] # "fn" /\ pending' = pending \ {sig}
  /\ UNCHANGED <<sigactions, sigVars, in_rtl, in_signal_handler, running, masked, check_failed, sent>>

\* rtl_generic_sighandler: the CHECKs and the program's handler at once, or the
\* signal is put down.
RunHandler ==
  /\ check_failed' = (in_rtl \notin {0, 1} \/ in_signal_handler)
  /\ Push([in |-> "handler", sync |-> TRUE, in_rtl |-> in_rtl])
  /\ in_rtl' = 0 /\ in_signal_handler' = TRUE /\ masked' = TRUE
  /\ UNCHANGED sigVars
Deliver ==
  /\ ~masked
  /\ \E sig \in pending :
       /\ sigactions[sig] = "fn" /\ pending' = pending \ {sig}
       /\ IF sig = int_signal_send THEN RunHandler
          ELSE /\ armed' = armed \cup {sig}
               /\ pending_signal_count' = pending_signal_count + (IF sig \in armed THEN 0 ELSE 1)
               /\ UNCHANGED <<int_signal_send, in_rtl, in_signal_handler, running, masked, check_failed>>
  /\ UNCHANGED <<sigactions, sent>>
\* The program's own fault; one while all signals are blocked ends the process.
Fault ==
  /\ (InProgram \/ Top.in = "wrapper") /\ ~masked /\ sent < MaxSent /\ sent' = sent + 1
  /\ \E sig \in Faults : sigactions[sig] = "fn"
  /\ RunHandler
  /\ UNCHANGED <<sigactions, pending>>

\* The program's handler returns.
HandlerReturns ==
  /\ Top.in = "handler" /\ running' = Pop
  /\ IF Top.sync THEN /\ check_failed' = ~in_signal_handler
                      /\ in_signal_handler' = FALSE /\ in_rtl' = Top.in_rtl /\ masked' = FALSE
     ELSE UNCHANGED <<check_failed, in_signal_handler, in_rtl, masked>>
  /\ UNCHANGED <<sigactions, sigVars, pending, sent>>

-----------------------------------------------------------------------------
SignalsInit ==
  /\ sigactions = [sig \in All |-> "fn"]
  /\ armed = {} /\ pending_signal_count = 0 /\ int_signal_send = 0
  /\ in_rtl = 0 /\ in_signal_handler = FALSE
  /\ running = <<[in |-> "program"]>> /\ masked = FALSE /\ pending = {}
  /\ check_failed = FALSE /\ sent = 0

SignalsNext ==
  /\ ~check_failed
  /\ \/ Enter \/ Raise \/ sigaction \/ Leave \/ LeaveRaise
     \/ Mask \/ NextSignal \/ Unmask \/ EndProcess
     \/ Arrive \/ Fault \/ Ignored \/ Deliver \/ HandlerReturns

\* No CHECK fails, and a signal that was put down is not forgotten: the thread is
\* at work on the pending ones, or will be when it next leaves a wrapper.
SignalsAreKept ==
  /\ ~check_failed
  /\ armed # {} => \/ pending_signal_count > 0
                   \/ \E i \in DOMAIN running : running[i].in \in {"mask", "loop"}
  /\ Len(running) = 1 => in_rtl = 0 /\ ~in_signal_handler /\ ~masked
=============================================================================
