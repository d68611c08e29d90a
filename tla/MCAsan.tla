------------------------------- MODULE MCAsan -------------------------------
(***************************************************************************)
(* AddressSanitizer's parts, each on a small instance.  "part" says which  *)
(* one a behaviour is about; the variables of the others keep their        *)
(* initial values.  The constants of the .cfg are those of AsanAllocator.   *)
(***************************************************************************)
EXTENDS AsanAllocator, TLC

VARIABLES part, input,
  alive, mapped, fifo, call_stack, frame, active, exhausted,
  stage, tsd, summary, num_calls, reporting_thread_tid, report, announced, dead,
  gshadow, all_globals, dynamic_init, registered, initializing, stale

Frames == INSTANCE AsanFakeStack WITH StackSize <- 4, MinFrame <- 1, FrameSizes <- {2, 3}

Thr == INSTANCE AsanThreads WITH
  OSThreads <- {"a", "b", "c"}, MainThread <- "a", InvalidTid <- -1, FullHistory <- TRUE

Global(beg, size) == [beg |-> beg, size |-> size, size_with_redzone |->
                        ((size + 3) \div 4) * 4 + 4]
Glob == INSTANCE AsanGlobals WITH
  ShadowGranularity <- 2, GlobalRedzone <- 4,
  Units <- {"a", "b", "c"},
  Globals <- [a |-> <<Global(0, 3), Global(8, 4)>>, b |-> <<Global(16, 1)>>,
              c |-> <<Global(24, 5)>>]

Sh == INSTANCE AsanShadow WITH ShadowGranularity <- 4, GlobalRedzone <- 8
Str == INSTANCE AsanInterceptors

frameVars == <<alive, mapped, fifo, call_stack, frame, active, exhausted>>
threadVars == <<stage, tsd, summary, num_calls, reporting_thread_tid, report,
                announced, dead>>
globalVars == <<gshadow, all_globals, dynamic_init, registered, initializing, stale>>

-----------------------------------------------------------------------------
(* Inputs of the parts without state.                                      *)

Regions == [sh : [{0, 4, 8} -> {0, 1, 3, Sh!UserPoisoned}], left : 0 .. 11, right : 0 .. 11]
\* kShadowOffset is (kHighMemEnd + 1) / 2^scale, as on both supported word sizes.
Layouts == {[scale |-> 2, offset |-> 32, high_end |-> 127],
            [scale |-> 3, offset |-> 32, high_end |-> 255]}
Strings == {<<a, b, c, 0>> : a, b, c \in {0, 65, 97}}
Numbers == {<<a, b, c, d, 0>> : a, b, c, d \in {32, 43, 49, 120}}
Letters(n) == [i \in 1 .. n + 1 |-> IF i <= n THEN 65 ELSE 0]

Inputs(p) ==
  CASE p = "regions" -> {r \in Regions : r.left <= r.right}
    [] p = "layout" -> {[layout |-> l, a |-> a] : l \in Layouts, a \in 0 .. 255}
    [] p = "redzones" -> {[size |-> size, a |-> a] : size \in 1 .. 17, a \in 0 .. 47}
    [] p = "compare" -> {[s1 |-> s, s2 |-> t, n |-> n] : s \in Strings, t \in Strings, n \in 0 .. 4}
    [] p = "numbers" -> {[s |-> s] : s \in Numbers}
    [] p = "copy" -> {[to |-> m, from |-> n, size |-> size, d |-> d] :
                        m \in 0 .. 2, n \in 0 .. 3, size \in 0 .. 4, d \in -8 .. 8}

Pure == {"regions", "layout", "redzones", "compare", "numbers", "copy"}

PartsInit ==
  /\ part \in {"heap", "frames", "threads", "globals"} \cup Pure
  /\ input = << >>
  /\ Init /\ Frames!FakeStackInit /\ Thr!ThreadsInit /\ Glob!GlobalsInit

PickInput ==
  /\ part \in Pure /\ input = << >>
  /\ input' \in {<<i>> : i \in Inputs(part)}
  /\ UNCHANGED <<part, vars, frameVars, threadVars, globalVars>>

PartsNext ==
  \/ part = "heap" /\ Next /\ UNCHANGED <<part, input, frameVars, threadVars, globalVars>>
  \/ part = "frames" /\ Frames!FakeStackNext
     /\ UNCHANGED <<part, input, vars, threadVars, globalVars>>
  \/ part = "threads" /\ Thr!ThreadsNext
     /\ UNCHANGED <<part, input, vars, frameVars, globalVars>>
  \/ part = "globals" /\ Glob!GlobalsNext
     /\ UNCHANGED <<part, input, vars, frameVars, threadVars>>
  \/ PickInput

mcVars == <<part, input, vars, frameVars, threadVars, globalVars>>
PartsSpec == PartsInit /\ [][PartsNext]_mcVars

\* The states after a heap report are alike: the process is gone.
View == IF died # "no" THEN <<died>> ELSE mcVars
Sym == Permutations(Threads)

-----------------------------------------------------------------------------
\* Ownership queries and reports find the block of an address
\* (asan_allocator.cc, FindChunkByAddr); a tid names one thread for good, and a
\* report announces a thread once and its creators with it
\* (asan_thread_registry.cc, asan_report.cc).
AddressesAreNamed ==
  LookupIsRight /\ Thr!ThreadsTypeOK /\ Thr!TidNamesThread /\ Thr!AnnouncedOnce

\* The fake frame of a running function is never given to another one
\* (asan_allocator.cc, FakeStack).
RunningFramesAreKept == Frames!FakeStackTypeOK /\ Frames!RunningFramesAreKept

\* A report in progress ends the process, and nobody else does once its thread
\* is known (asan_report.cc, ScopedInErrorReport).
ReportIsPrinted == Thr!ReportIsPrinted

Poisoned(sh) == {a \in 0 .. 11 : Sh!AddressIsPoisoned(sh, a)}
Interval(a, b) == a .. b - 1

\* Poisoning covers at least [left, AlignDown(right)) and touches nothing outside
\* the region; unpoisoning opens all of it and nothing outside
\* [AlignDown(left), right) (asan_poisoning.cc:67).
RegionsAreExact(sh, left, right) ==
  LET before == Poisoned(sh)
      poisoned == Poisoned(Sh!PoisonRegion(sh, left, right))
      opened == Poisoned(Sh!UnpoisonRegion(sh, left, right))
  IN
  /\ Interval(left, Sh!GranuleOf(right)) \subseteq poisoned
  /\ before \subseteq poisoned /\ poisoned \ before \subseteq Interval(left, right)
  /\ opened \cap Interval(left, right) = {}
  /\ opened \subseteq before
  /\ left < right => before \ opened \subseteq Interval(Sh!GranuleOf(left), right)

\* An address belongs to one area and has its shadow in a shadow area; the last
\* byte of low memory, which AddrIsInLowMem leaves out, is not looked at.
LayoutIsDescribed(L, a) ==
  a <= L.high_end /\ a # Sh!LowMemEnd(L) =>
    /\ Sh!DescribeAddressIfShadow(L, a) =
         CASE a < L.offset \/ a >= Sh!HighMemBeg(L) -> "memory"
           [] a \in Sh!LowShadow(L) -> "low shadow area"
           [] a \in Sh!ShadowGap(L) -> "shadow gap area"
           [] OTHER -> "high shadow area"
    /\ Sh!AddrIsInMem(L, a) =>
         Sh!DescribeAddressIfShadow(L, Sh!MemToShadow(L, a)) \in
           {"low shadow area", "high shadow area"}

\* The redzone of a global is what a report says it is.
RedzoneIsReported(size, a) ==
  LET g == [beg |-> 8, size |-> size, size_with_redzone |-> Sh!AlignUp(size) + 8]
      open == [x \in {4 * i : i \in 0 .. 12} |-> 0]
      sh == Sh!PoisonRedZones(open, g)
      last == g.beg + g.size_with_redzone - 1
  IN
  /\ Sh!AddressIsPoisoned(sh, a) <=> (g.beg + size <= a /\ a <= last)
  /\ Sh!AddressIsPoisoned(sh, a) =>
       /\ Sh!DescribedByte(sh, a, 1) = "global-buffer-overflow"
       /\ Sh!DescribeAddressRelativeToGlobal(a, g) = "right"

RegionsAndReports ==
  input # << >> =>
    CASE part = "regions" -> RegionsAreExact(input[1].sh, input[1].left, input[1].right)
      [] part = "layout" -> LayoutIsDescribed(input[1].layout, input[1].a)
      [] part = "redzones" -> RedzoneIsReported(input[1].size, input[1].a)
      [] OTHER -> TRUE

-----------------------------------------------------------------------------
(* The C library: the bytes a left-to-right scan reads.                    *)

ScanPair(s1, s2, n, zero) ==
  LET read[i \in 0 .. n] ==
        IF i = n THEN {}
        ELSE {i} \cup IF s1[i + 1] # s2[i + 1] \/ (zero /\ s1[i + 1] = 0) THEN {} ELSE read[i + 1]
  IN read[0]
Scan(s, n) == ScanPair(s, s, n, TRUE)

\* What a check covers is what the function reads, so a correct program gets no
\* report and the end of an overrun is looked at.
ComparisonsAreChecked(s1, s2, n) ==
  /\ Str!CheckedByMemcmp(s1, s2, n) = ScanPair(s1, s2, n, FALSE)
  /\ Str!CheckedByStrncmp(s1, s2, n) = ScanPair(s1, s2, n, TRUE)
  /\ Str!CheckedByStrcmp(s1, s2) = ScanPair(s1, s2, 4, TRUE)
  /\ Str!CheckedByStrncasecmp(s1, s2, n) = ScanPair(Str!Lower(s1), Str!Lower(s2), n, TRUE)
  /\ Str!CheckedByStrcasecmp(s1, s2) = ScanPair(Str!Lower(s1), Str!Lower(s2), 4, TRUE)
  /\ Str!CheckedByStrlen(s1) = Scan(s1, 4)
  /\ Str!CheckedByStrnlen(s1, n) = Scan(s1, n)
  /\ Str!CheckedByStrchr(s1, 97) \subseteq Scan(s1, 4)

\* The first character that ends the number is read and nothing behind it.
NumberIsChecked(s) ==
  LET read[i \in 1 .. Len(s), phase \in 0 .. 2] ==
        CASE phase = 0 /\ s[i] = 32 -> {i - 1} \cup read[i + 1, 0]
          [] phase = 0 /\ s[i] = 43 -> {i - 1} \cup read[i + 1, 1]
          [] s[i] = 49 -> {i - 1} \cup read[i + 1, 2]
          [] OTHER -> {i - 1}
  IN Str!CheckedByStrtol(s) = read[1, 0]

At(d, S) == {d + x : x \in S}
CopyIsChecked(to, from, size, d) ==
  LET f == Letters(from)
      Exact(c) == c.overlap <=> (c.to \cup c.write) \cap At(d, c.read) # {}
      cpy == Str!CheckedByStrcpy(f, d)
      ncpy == Str!CheckedByStrncpy(f, size, d)
      cat == Str!CheckedByStrcat(Letters(to), f, d)
      ncat == Str!CheckedByStrncat(Letters(to), f, size, d)
  IN
  /\ Exact(cpy) /\ cpy.read = Scan(f, from + 1) /\ cpy.write = cpy.read
  /\ d # 0 => Exact(Str!CheckedByMemcpy(size, d))
  /\ ncpy.read = Scan(f, size) /\ ncpy.write = 0 .. size - 1
  /\ cat.read = Scan(f, from + 1) /\ from > 0 => Exact(cat)
  \* strncat reports an overlap one byte early
  /\ ncat.read = Scan(f, size)
  /\ ncat.overlap \/ Exact(ncat) \/ from = 0 \/ size = 0

StringChecks ==
  input # << >> =>
    CASE part = "compare" -> ComparisonsAreChecked(input[1].s1, input[1].s2, input[1].n)
      [] part = "numbers" -> NumberIsChecked(input[1].s)
      [] part = "copy" -> CopyIsChecked(input[1].to, input[1].from, input[1].size, input[1].d)
      [] OTHER -> TRUE

-----------------------------------------------------------------------------
\* Globals can be touched, their redzones cannot, and during the initialization
\* of one unit those of the others cannot (asan_globals.cc); regions are poisoned
\* and reports worded exactly (asan_poisoning.cc:67, asan_report.cc:73); and an
\* interceptor looks at the bytes the function it wraps reads and writes
\* (asan_interceptors.cc).
GlobalsAreGuarded == Glob!GlobalsAreGuarded /\ RegionsAndReports /\ StringChecks
=============================================================================
