---------------------------- MODULE TsanReports ----------------------------
(***************************************************************************)
(* Which reports ThreadSanitizer prints (lib/tsan/rtl/tsan_rtl_report.cc,  *)
(* tsan_suppressions.cc, tsan_interface_ann.cc).  A race is dropped when   *)
(* its memory was annotated, when its first stack has a pc that was        *)
(* suppressed before, when its stacks or its addresses are those of an     *)
(* earlier one, or when a suppression matches.  A report is made under     *)
(* Context::report_mtx and is one action.                                  *)
(***************************************************************************)
EXTENDS Integers, Sequences, FiniteSets, SequencesExt

CONSTANTS
  Frames,        \* code address -> its inlined frames [func, file], inner first
  Suppressions,  \* sequence of [type, templ], as parsed
  Stacks,        \* return addresses, outermost first: stacks of other reports
  Races,         \* [traces, range, freed]; a range [min, max] excludes max
  Cells,         \* addresses that are annotated
  MaxEvents      \* bound on actions

VARIABLES
  racy_stacks, racy_addresses,   \* of races that were printed or doubled
  fired_suppressions,            \* set of [type, pc]
  expect, benign,                \* annotated memory, latest first
  nmissed_expected,
  printed,                       \* sequence of reports
  seen,          \* history: races that no annotation and no suppression dropped
  fired_drops,   \* history: [typ, stack] of reports that IsFiredSuppression dropped
  events

vars == <<racy_stacks, racy_addresses, fired_suppressions, expect, benign,
          nmissed_expected, printed, seen, fired_drops, events>>

GreaterOf(x, y) == IF x > y THEN x ELSE y
LesserOf(x, y) == IF x < y THEN x ELSE y
Prefix == "__interceptor_"

-----------------------------------------------------------------------------
(* Stacks of frames.                                                       *)

\* All but the top pc are of the instruction after a call.
SymbolizeCode(pc, is_top) ==
  LET at == Frames[IF is_top THEN pc ELSE pc - 1]
  IN [i \in DOMAIN at |-> [func |-> at[i].func, file |-> at[i].file, pc |-> pc]]

WithoutPrefix(frame) ==
  IF frame.func # << >> /\ frame.func[1] = Prefix THEN [frame EXCEPT !.func = Tail(@)] ELSE frame

\* The frame outside of main, or outside of the thread's first function, goes.
StackStripMain(stack) ==
  LET n == Len(stack)
      frames == [i \in 1 .. n |-> WithoutPrefix(stack[i])]
  IN IF n >= 2 /\ (frames[n - 1].func = <<"main">>
                   \/ frames[n].func \in {<<"__tsan_thread_start_func">>, <<"__do_global_ctors_aux">>})
     THEN Front(frames) ELSE frames

SymbolizeStack(trace) ==
  StackStripMain(FlattenSeq([i \in 1 .. Len(trace) |->
    LET j == Len(trace) + 1 - i IN SymbolizeCode(trace[j], j = Len(trace))]))

-----------------------------------------------------------------------------
(* Suppressions.                                                           *)

\* The parts of a template between its stars are found one after the other.
Star == "*"
Occurs(part, str, from) == {p \in from .. Len(str) - Len(part) : SubSeq(str, p + 1, p + Len(part)) = part}
First(S) == CHOOSE p \in S : \A q \in S : p <= q

SuppressionMatch(templ, str) ==
  LET match[t \in 0 .. Len(templ), s \in 0 .. Len(str)] ==
        IF t = Len(templ) THEN TRUE
        ELSE IF templ[t + 1] = Star THEN match[t + 1, s]
        ELSE LET end == First({e \in t + 1 .. Len(templ) : e = Len(templ) \/ templ[e + 1] = Star})
                 part == SubSeq(templ, t + 1, end)
                 found == Occurs(part, str, s)
             IN s # Len(str) /\ found # {} /\ match[end, First(found) + Len(part)]
  IN str # << >> /\ match[0, 0]

Types == {"race:", "thread:", "mutex:", "signal:"}
Blank == " "
TrimLeft(line) == LET n == First({i \in 0 .. Len(line) : i = Len(line) \/ line[i + 1] # Blank})
                  IN SubSeq(line, n + 1, Len(line))
TrimRight(line) == Reverse(TrimLeft(Reverse(line)))

\* The last line of the file is the first suppression.
SuppressionParse(lines) ==
  LET kept == SelectSeq([i \in DOMAIN lines |-> TrimRight(TrimLeft(lines[i]))],
                        LAMBDA l : l # << >> /\ l[1] # "#")
  IN IF \E i \in DOMAIN kept : kept[i][1] \notin Types THEN "Die"
     ELSE Reverse([i \in DOMAIN kept |-> [type |-> kept[i][1], templ |-> Tail(kept[i])]])

TypeOf == [race |-> "race:", leak |-> "thread:", mutex |-> "mutex:", signal |-> "signal:"]
MatchesFrame(s, frame) == SuppressionMatch(s.templ, frame.func) \/ SuppressionMatch(s.templ, frame.file)

\* The pc of the innermost frame that is suppressed, or 0.
IsSuppressed(typ, stack) ==
  LET hits == {i \in DOMAIN stack : \E s \in ToSet(Suppressions) :
                 typ \in DOMAIN TypeOf /\ s.type = TypeOf[typ] /\ MatchesFrame(s, stack[i])}
  IN IF hits = {} THEN 0 ELSE stack[First(hits)].pc

IsFiredSuppression(typ, trace) ==
  \E f \in fired_suppressions : f.type = typ /\ \E i \in DOMAIN trace : trace[i] = f.pc

\* OutputReport, with the stack a suppression is looked up for.
OutputReport(report, suppress_stack) ==
  LET pc == IsSuppressed(report.typ, suppress_stack) IN
  /\ fired_suppressions' = fired_suppressions \cup
       (IF pc # 0 THEN {[type |-> report.typ, pc |-> pc]} ELSE {})
  /\ printed' = IF pc # 0 THEN printed ELSE Append(printed, report)

-----------------------------------------------------------------------------
(* Races.                                                                  *)

Overlap(a, b) == GreaterOf(a.min, b.min) < LesserOf(a.max, b.max)

\* FindRace: the latest annotation that overlaps.
FindRace(list, range) ==
  LET hits == {i \in DOMAIN list : Overlap([min |-> list[i].addr, max |-> list[i].addr + list[i].size], range)}
  IN IF hits = {} THEN 0 ELSE First(hits)

IsExpectedReport(range) == FindRace(expect, range) # 0 \/ FindRace(benign, range) # 0
Hit(list, i) == [list EXCEPT ![i].hitcount = @ + 1]
CheckExpected(range) ==
  LET e == FindRace(expect, range) b == FindRace(benign, range) IN
  /\ expect' = IF e # 0 THEN Hit(expect, e) ELSE expect
  /\ benign' = IF e = 0 /\ b # 0 THEN Hit(benign, b) ELSE benign

EqualStack(traces) == \E i \in DOMAIN racy_stacks : racy_stacks[i] = traces
EqualAddress(range) == \E i \in DOMAIN racy_addresses : Overlap(range, racy_addresses[i])
HandleRacyStacks(traces, range) ==
  /\ racy_stacks' = IF EqualStack(traces) THEN racy_stacks ELSE Append(racy_stacks, traces)
  /\ racy_addresses' = IF EqualAddress(range) THEN racy_addresses ELSE Append(racy_addresses, range)

BugAddRacyStacks(traces, range, output) ==
  /\ racy_stacks' = Append(racy_stacks, traces)
  /\ racy_addresses' = Append(racy_addresses, range)
AddRacyStacks(traces, range, output) ==
  IF output THEN /\ racy_stacks' = Append(racy_stacks, traces)
                 /\ racy_addresses' = Append(racy_addresses, range)
  ELSE UNCHANGED <<racy_stacks, racy_addresses>>

Race(traces, range) == [traces |-> traces, range |-> range]
\* The order of the tests is the code's.
ReportRace(traces, range, freed) ==
  LET typ == IF freed THEN "free" ELSE "race" IN
  /\ CheckExpected(range)
  /\ IF IsExpectedReport(range)
     THEN UNCHANGED <<racy_stacks, racy_addresses, fired_suppressions, printed, seen, fired_drops>>
     ELSE IF IsFiredSuppression(typ, traces[1])
     THEN /\ fired_drops' = fired_drops \cup {[typ |-> typ, stack |-> traces[1]]}
          /\ UNCHANGED <<racy_stacks, racy_addresses, fired_suppressions, printed, seen>>
     ELSE IF EqualStack(traces) \/ EqualAddress(range)
     THEN /\ HandleRacyStacks(traces, range)
          /\ seen' = seen \cup {Race(traces, range)}
          /\ UNCHANGED <<fired_suppressions, printed, fired_drops>>
     ELSE LET stack == SymbolizeStack(traces[1])
              output == IsSuppressed(typ, stack) = 0
          IN /\ OutputReport([typ |-> typ, traces |-> traces, range |-> range], stack)
             /\ AddRacyStacks(traces, range, output)
             /\ seen' = IF output THEN seen \cup {Race(traces, range)} ELSE seen
             /\ UNCHANGED fired_drops
  /\ UNCHANGED nmissed_expected

-----------------------------------------------------------------------------
(* Other reports, and annotations.                                         *)

\* A call that is not safe in a signal handler, and an errno a handler spoils.
SignalUnsafeCall(trace, typ) ==
  /\ IF IsFiredSuppression(typ, trace)
     THEN fired_drops' = fired_drops \cup {[typ |-> typ, stack |-> trace]}
          /\ UNCHANGED <<fired_suppressions, printed>>
     ELSE OutputReport([typ |-> typ, traces |-> <<trace>>], SymbolizeStack(trace))
          /\ UNCHANGED fired_drops
  /\ UNCHANGED <<racy_stacks, racy_addresses, expect, benign, nmissed_expected, seen>>

\* MutexDestroy and MaybeReportThreadLeak give OutputReport no stack.
ReportWithoutStack(trace, typ) ==
  /\ OutputReport([typ |-> typ, traces |-> <<trace>>], << >>)
  /\ UNCHANGED <<racy_stacks, racy_addresses, expect, benign, nmissed_expected, seen,
                 fired_drops>>

AddExpectRace(list, addr, size) ==
  IF \E i \in DOMAIN list : list[i].addr = addr /\ list[i].size = size THEN list
  ELSE <<[addr |-> addr, size |-> size, hitcount |-> 0]>> \o list

AnnotateExpectRace(addr) ==
  /\ expect' = AddExpectRace(expect, addr, 1)
  /\ UNCHANGED <<racy_stacks, racy_addresses, fired_suppressions, benign, nmissed_expected,
                 printed, seen, fired_drops>>
AnnotateBenignRaceSized(addr, size) ==
  /\ benign' = AddExpectRace(benign, addr, size)
  /\ UNCHANGED <<racy_stacks, racy_addresses, fired_suppressions, expect, nmissed_expected,
                 printed, seen, fired_drops>>
AnnotateFlushExpectedRaces ==
  LET unmet == SelectSeq(expect, LAMBDA race : race.hitcount = 0) IN
  /\ nmissed_expected' = nmissed_expected + Len(unmet)
  /\ expect' = << >>
  /\ UNCHANGED <<racy_stacks, racy_addresses, fired_suppressions, benign, printed, seen, fired_drops>>

ReportsInit ==
  /\ racy_stacks = << >> /\ racy_addresses = << >> /\ fired_suppressions = {}
  /\ expect = << >> /\ benign = << >> /\ nmissed_expected = 0 /\ printed = << >>
  /\ seen = {} /\ fired_drops = {} /\ events = 0

ReportsNext ==
  /\ events < MaxEvents /\ events' = events + 1
  /\ \/ \E r \in Races : ReportRace(r.traces, r.range, r.freed)
     \/ \E trace \in Stacks : SignalUnsafeCall(trace, "signal")
     \/ \E trace \in Stacks : ReportWithoutStack(trace, "mutex")
     \/ \E a \in Cells : AnnotateExpectRace(a) \/ AnnotateBenignRaceSized(a, 2)
     \/ AnnotateFlushExpectedRaces

-----------------------------------------------------------------------------
\* No two printed races have the same pair of stacks or touch common memory.
PrintedRacesDiffer ==
  \A i, j \in DOMAIN printed :
    i < j /\ {printed[i].typ, printed[j].typ} \subseteq {"race", "free"} =>
      printed[i].traces # printed[j].traces /\ ~Overlap(printed[i].range, printed[j].range)

\* A race that is dropped as doubled leads, over stacks or addresses in common,
\* to one that was printed.
Linked(r, q) == r.traces = q.traces \/ Overlap(r.range, q.range)
EveryRaceHasAReport ==
  LET reported == {r \in seen : \E i \in DOMAIN printed :
                     printed[i].typ \in {"race", "free"} /\ Race(printed[i].traces, printed[i].range) = r}
      reach[n \in 0 .. Cardinality(seen)] ==
        IF n = 0 THEN reported
        ELSE reach[n - 1] \cup {r \in seen : \E q \in reach[n - 1] : Linked(r, q)}
  IN seen = reach[Cardinality(seen)]

\* A report dropped for a suppression that fired before would match one itself.
FiredMeansSuppressed ==
  \A d \in fired_drops :
    \E f \in {SymbolizeCode(d.stack[i], i = Len(d.stack)) : i \in DOMAIN d.stack} :
      \E i \in DOMAIN f : \E s \in ToSet(Suppressions) :
        s.type = TypeOf[d.typ] /\ MatchesFrame(s, WithoutPrefix(f[i]))

\* A template matches a name when the name can be cut so that the template's
\* parts stand in it in their order.
MatchIsAnEmbedding(templ, str) ==
  SuppressionMatch(templ, str) <=>
    /\ str # << >>
    /\ LET fits[t \in 0 .. Len(templ), s \in 0 .. Len(str)] ==
             CASE t = Len(templ) -> TRUE
               [] templ[t + 1] = Star -> \E s2 \in s .. Len(str) : fits[t + 1, s2]
               [] OTHER -> s < Len(str) /\ str[s + 1] = templ[t + 1] /\ fits[t + 1, s + 1]
       IN \E s \in 0 .. Len(str) : fits[0, s]
=============================================================================
