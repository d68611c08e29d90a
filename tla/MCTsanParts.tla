---------------------------- MODULE MCTsanParts ----------------------------
(***************************************************************************)
(* The parts of ThreadSanitizer around its happens-before core, each on a  *)
(* small instance.  "part" says which one a behaviour is about; the        *)
(* variables of the others keep their initial values.  The SyncVars and    *)
(* the lock order are TsanSync and TsanLocks themselves, so that their     *)
(* properties have their own names in the run.                             *)
(***************************************************************************)
EXTENDS TsanSync, TsanLocks, TLC

VARIABLES part, input,
  epoch0, epoch, shadow_stack, trace, trace_status, stack_truth,
  racy_stacks, racy_addresses, fired_suppressions, expect, benign, nmissed_expected,
  printed, seen, fired_drops, events,
  value, sync, carried, overlapped, clock, op,
  family, wrapper_clock, wrapper_truth, wrapper_sync, wrapper_carried, holder, readers,
  state, group, leaving, atexit_stack, call, calls,
  sigactions, armed, pending_signal_count, int_signal_send, in_rtl, in_signal_handler,
  running, masked, pending, check_failed, sent

Sym == Permutations(Threads)

\* Two addresses share a part of the table, the third is in a heap block.
MCListOf == <<"p", "p", "b">>

Trace == INSTANCE TsanTrace WITH
  kTracePartSize <- 3, kTraceParts <- 2, kTraceStackSize <- 2, PCs <- {1, 2},
  FirstEpochs <- {0, 4}, MaxEpoch <- 7, status <- trace_status,
  truth <- stack_truth

\* main calls f, which calls the wrapper of g, or a thread's function does.
File == <<"c">>
Frame(func) == <<[func |-> func, file |-> File]>>
CodeFrames == << Frame(<<"__tsan_thread_start_func">>), Frame(<<"__tsan_thread_start_func">>),
                 Frame(<<"main">>), Frame(<<"main">>), Frame(<<"a", "b">>), Frame(<<"a", "b">>),
                 Frame(<<"__interceptor_", "g">>) \o Frame(<<"a", "x", "c">>),
                 Frame(<<"__interceptor_", "g">>) \o Frame(<<"a", "x", "c">>) >>
A == <<2, 4, 6>>  B == <<4, 8>>  C == <<4, 6>>
Ranges == {[min |-> 1, max |-> 2], [min |-> 1, max |-> 3], [min |-> 2, max |-> 4]}
SomeRaces ==
  {[traces |-> p, range |-> r, freed |-> FALSE] : p \in {<<A, C>>, <<C, A>>, <<C, B>>, <<B, A>>}, r \in Ranges}
  \cup {[traces |-> <<A, B>>, range |-> [min |-> 1, max |-> 2], freed |-> TRUE]}
Reports == INSTANCE TsanReports WITH
  Frames <- CodeFrames,
  Suppressions <- <<[type |-> "race:", templ |-> <<"a", "*", "c">>],
                    [type |-> "mutex:", templ |-> <<"b">>],
                    [type |-> "signal:", templ |-> <<"*", "b">>]>>,
  Stacks <- {A, B}, Races <- SomeRaces, Cells <- {1, 2}, MaxEvents <- 4

Atomics == INSTANCE TsanAtomics WITH
  Atomics <- {"a"}, Width <- 1, ForceSeqCst <- FALSE, MaxOps <- 1

Wrappers == INSTANCE TsanInterceptors WITH
  BarrierCount <- 2, kMaxAtExit <- 2, MaxCalls <- 2, clock <- wrapper_clock,
  truth <- wrapper_truth, sync <- wrapper_sync, carried <- wrapper_carried

Signals == INSTANCE TsanSignals WITH
  Signals <- {1, 2}, Faults <- {3}, MaxDepth <- 5, MaxSent <- 4

syncVars == vars
traceVars == <<epoch0, epoch, shadow_stack, trace, trace_status, stack_truth>>
reportVars == <<racy_stacks, racy_addresses, fired_suppressions, expect, benign,
                nmissed_expected, printed, seen, fired_drops, events>>
atomicVars == <<value, sync, carried, overlapped, clock, op>>
wrapperVars == <<family, wrapper_clock, wrapper_truth, wrapper_sync, wrapper_carried, holder,
                 readers, state, group, leaving, atexit_stack, call, calls>>
signalVars == <<sigactions, armed, pending_signal_count, int_signal_send, in_rtl,
                in_signal_handler, running, masked, pending, check_failed, sent>>

-----------------------------------------------------------------------------
(* Inputs of the parts without state.                                      *)

AtMost(S, n) == UNION {[1 .. k -> S] : k \in 0 .. n}
\* A line of a suppression file: an entry between blanks, a comment, or nothing.
Entries == {<<"race:", "f">>, <<"mutex:", "f", " ", "g">>}
Padded(entry, before, after) ==
  [i \in 1 .. before |-> " "] \o entry \o [i \in 1 .. after |-> " "]
Lines == {Padded(e, b, a) : e \in Entries, b \in 0 .. 1, a \in 0 .. 2}
         \cup {<< >>, <<" ">>, <<" ", "#", "race:">>}

Inputs(p) ==
  CASE p = "match" -> {[templ |-> t, str |-> s] : t \in AtMost({"a", "b", "*"}, 4), s \in AtMost({"a", "b"}, 4)}
    [] p = "file" -> {[lines |-> l] : l \in AtMost(Lines, 2)}
Pure == {"match", "file"}

Init ==
  /\ part \in {"sync", "trace", "reports", "atomics", "wrappers", "signals", "locks"} \cup Pure
  /\ input = << >>
  /\ SyncInit /\ Reports!ReportsInit /\ Atomics!AtomicsInit /\ Signals!SignalsInit
  /\ LocksInit
  /\ Trace!TraceInit /\ (part = "trace" \/ epoch0 = 0)
  /\ Wrappers!InterceptorsInit /\ (part = "wrappers" \/ family = "mutex")

PickInput ==
  /\ part \in Pure /\ input = << >>
  /\ input' \in {<<i>> : i \in Inputs(part)}
  /\ UNCHANGED <<part, syncVars, traceVars, reportVars, atomicVars, wrapperVars, signalVars, lockVars>>

Next ==
  \/ /\ part = "sync" /\ SyncNext
     /\ UNCHANGED <<part, input, traceVars, reportVars, atomicVars, wrapperVars, signalVars, lockVars>>
  \/ /\ part = "trace" /\ Trace!TraceNext
     /\ UNCHANGED <<part, input, syncVars, reportVars, atomicVars, wrapperVars, signalVars, lockVars>>
  \/ /\ part = "reports" /\ Reports!ReportsNext
     /\ UNCHANGED <<part, input, syncVars, traceVars, atomicVars, wrapperVars, signalVars, lockVars>>
  \/ /\ part = "atomics" /\ Atomics!AtomicsNext({"load", "store", "cas"}, {0, 2, 3, 4})
     /\ UNCHANGED <<part, input, syncVars, traceVars, reportVars, wrapperVars, signalVars, lockVars>>
  \/ /\ part = "wrappers" /\ Wrappers!InterceptorsNext
     /\ UNCHANGED <<part, input, syncVars, traceVars, reportVars, atomicVars, signalVars, lockVars>>
  \/ /\ part = "signals" /\ Signals!SignalsNext
     /\ UNCHANGED <<part, input, syncVars, traceVars, reportVars, atomicVars, wrapperVars, lockVars>>
  \/ /\ part = "locks" /\ LocksNext
     /\ UNCHANGED <<part, input, syncVars, traceVars, reportVars, atomicVars, wrapperVars, signalVars>>
  \/ PickInput

Spec == Init /\ [][Next]_<<part, input, syncVars, traceVars, reportVars, atomicVars,
                           wrapperVars, signalVars, lockVars>>

-----------------------------------------------------------------------------
\* The stack a report shows for an access is the inner end of the stack the
\* thread had at its epoch (tsan_rtl_report.cc:249, tsan_rtl.cc:277).
StackIsRestored == Trace!StackIsRestored

\* Every line of the file is a suppression, the last one first, whatever blanks
\* surround it.
FileIsParsed(lines) ==
  LET entries == SelectSeq([i \in DOMAIN lines |->
                    LET is == {e \in Entries : \E b \in 0 .. 1, a \in 0 .. 2 : lines[i] = Padded(e, b, a)}
                    IN IF is = {} THEN << >> ELSE CHOOSE e \in is : TRUE], LAMBDA e : e # << >>)
  IN Reports!SuppressionParse(lines) =
       Reverse([i \in DOMAIN entries |-> [type |-> entries[i][1], templ |-> Tail(entries[i])]])

\* No two printed races are alike, one that was dropped as doubled leads to one
\* that was printed, one dropped for a suppression is suppressed, and suppressions
\* are read and matched as they are written (tsan_rtl_report.cc:302-457,
\* tsan_suppressions.cc:57).
ReportsAreFiltered ==
  /\ part = "reports" => /\ Reports!PrintedRacesDiffer /\ Reports!EveryRaceHasAReport
                         /\ Reports!FiredMeansSuppressed
  /\ part = "match" /\ input # << >> => Reports!MatchIsAnEmbedding(input[1].templ, input[1].str)
  /\ part = "file" /\ input # << >> => FileIsParsed(input[1].lines)

\* What the program's own operations order before a thread's next step, its clock
\* knows: the wrapped functions (tsan_interceptors.cc:571-1198) and atomics, where
\* who acquired a value knows what its release ordered before, unless a releasing
\* store overlapped; both numberings of the orders mean the same
\* (tsan_interface_atomic.cc:82-218).
OrderIsSeen ==
  /\ Wrappers!OrderIsSeen
  /\ Atomics!AcquiresAreComplete /\ Atomics!OrdersConvert

\* No CHECK fails, and a signal that was put down is handled or still counted
\* (tsan_interceptors.cc:1200-1366).
SignalsAreKept == Signals!SignalsAreKept
=============================================================================
