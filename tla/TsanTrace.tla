----------------------------- MODULE TsanTrace -----------------------------
(***************************************************************************)
(* The events of a thread and the stacks restored from them                *)
(* (lib/tsan/rtl/tsan_trace.h, tsan_rtl.cc, tsan_rtl_report.cc).  Every    *)
(* event of a thread is a new epoch and goes into a ring of kTraceParts    *)
(* parts; when a part is entered its header takes the epoch and the stack  *)
(* of the moment.  A report replays a part to tell where the thread was at *)
(* an epoch.  A thread's own trace is never read while a header changes:   *)
(* both hold the trace's mutex.                                            *)
(***************************************************************************)
EXTENDS Integers, Sequences, FiniteSets, SequencesExt, TLC

CONSTANTS
  kTracePartSize, kTraceParts,
  kTraceStackSize,     \* frames a header keeps
  PCs,                 \* positive
  FirstEpochs,         \* epochs a thread starts after: a slot is used again
  MaxEpoch             \* bound on events

VARIABLES
  epoch0, epoch,       \* of the thread: first and current
  shadow_stack,
  trace,               \* [events, headers]
  status,              \* "running" or "finished"
  truth                \* history: epoch -> the stack then, for memory accesses

vars == <<epoch0, epoch, shadow_stack, trace, status, truth>>

kTraceSize == kTracePartSize * kTraceParts
PartOf(e) == (e \div kTracePartSize) % kTraceParts

\* StackTrace::ObtainCurrent with a buffer of its own: the innermost frames.
ObtainCurrent(stack, room) ==
  IF Len(stack) > room THEN SubSeq(stack, Len(stack) - room + 1, Len(stack)) ELSE stack

\* TraceAddEvent, and TraceSwitch at the start of a part.
TraceAddEvent(e, typ, pc) ==
  [events |-> [trace.events EXCEPT ![e % kTraceSize] = [typ |-> typ, pc |-> pc]],
   headers |-> IF e % kTracePartSize = 0
               THEN [trace.headers EXCEPT ![PartOf(e)] =
                       [epoch0 |-> e, stack0 |-> ObtainCurrent(shadow_stack, kTraceStackSize)]]
               ELSE trace.headers]

Event(typ, pc) ==
  /\ status = "running" /\ epoch < MaxEpoch
  /\ epoch' = epoch + 1
  /\ trace' = TraceAddEvent(epoch + 1, typ, pc)
  /\ UNCHANGED <<epoch0, status>>

MemoryAccess(pc) ==
  /\ Event("mop", pc)
  /\ truth' = truth @@ (epoch + 1 :> Append(shadow_stack, pc))
  /\ UNCHANGED shadow_stack

FuncEntry(pc) ==
  Event("enter", pc) /\ shadow_stack' = Append(shadow_stack, pc) /\ UNCHANGED truth

FuncExit ==
  /\ shadow_stack # << >>
  /\ Event("exit", 0) /\ shadow_stack' = Front(shadow_stack) /\ UNCHANGED truth

\* The mutex handlers.
LockEvent == Event("lock", 0) /\ UNCHANGED <<shadow_stack, truth>>

\* ThreadFinish of a thread that is not detached: a last event, and a copy that
\* takes the events and the stacks of the headers, not their epochs.
ThreadFinish ==
  /\ status = "running" /\ epoch < MaxEpoch
  /\ epoch' = epoch + 1 /\ status' = "finished"
  /\ LET last == TraceAddEvent(epoch + 1, "mop", 0)
     IN trace' = [last EXCEPT !.headers =
          [p \in DOMAIN last.headers |-> [epoch0 |-> 0, stack0 |-> last.headers[p].stack0]]]
  /\ UNCHANGED <<epoch0, shadow_stack, truth>>

TraceInit ==
  /\ epoch0 \in FirstEpochs /\ epoch = epoch0
  /\ shadow_stack = << >> /\ status = "running" /\ truth = << >>
  /\ trace = [events |-> [i \in 0 .. kTraceSize - 1 |-> [typ |-> "mop", pc |-> 0]],
              headers |-> [p \in 0 .. kTraceParts - 1 |-> [epoch0 |-> 0, stack0 |-> << >>]]]

TraceNext ==
  \/ \E pc \in PCs : MemoryAccess(pc) \/ FuncEntry(pc)
  \/ FuncExit \/ LockEvent \/ ThreadFinish

-----------------------------------------------------------------------------
\* RestoreStack.  stack is the buffer it replays into, top what is above pos.
Replay(r, ev) ==
  CASE ev.typ = "mop" -> [r EXCEPT !.top = ev.pc]
    [] ev.typ = "enter" -> [stack |-> Append(r.stack, ev.pc), top |-> -1]
    [] ev.typ = "exit" /\ r.stack # << >> -> [stack |-> Front(r.stack), top |-> Last(r.stack)]
    [] OTHER -> r
BugRestoreStack(e) ==
  LET begin == ((e % kTraceSize) \div kTracePartSize) * kTracePartSize
      hdr == trace.headers[PartOf(e)]
      r == FoldLeft(Replay, [stack |-> hdr.stack0, top |-> -1],
                    SubSeq([i \in 1 .. kTraceSize |-> trace.events[i - 1]], begin + 1, (e % kTraceSize) + 1))
  IN IF r.stack = << >> /\ r.top = 0 THEN << >> ELSE Append(r.stack, r.top)
RestoreStack(e) ==
  LET begin == ((e % kTraceSize) \div kTracePartSize) * kTracePartSize
      hdr == trace.headers[PartOf(e)]
      r == FoldLeft(Replay, [stack |-> hdr.stack0, top |-> -1],
                    SubSeq([i \in 1 .. kTraceSize |-> trace.events[i - 1]],
                           begin + 1, (e % kTraceSize) + 1))
  IN IF e < hdr.epoch0 \/ (r.stack = << >> /\ r.top = 0) THEN << >> ELSE Append(r.stack, r.top)

-----------------------------------------------------------------------------
InRing(e) == e > epoch0 /\ e \div kTracePartSize > epoch \div kTracePartSize - kTraceParts
IsEnd(s, whole) == Len(s) <= Len(whole) /\ s = SubSeq(whole, Len(whole) - Len(s) + 1, Len(whole))

\* What is restored for a memory access is the inner end of the stack the
\* thread had, and nothing is restored for one that was overwritten or is of the
\* slot's former thread; what the ring still holds is restored.
Right(e) ==
  IF e \in DOMAIN truth
  THEN /\ IsEnd(RestoreStack(e), truth[e])
       /\ InRing(e) => RestoreStack(e) # << >>
  ELSE e <= epoch0 => RestoreStack(e) = << >>

StackIsRestored == \A e \in 1 .. epoch : status = "running" \/ InRing(e) => Right(e)
=============================================================================
