---------------------------- MODULE MCSanitizer ----------------------------
(***************************************************************************)
(* The parts of sanitizer_common, each on a small instance.  "part" says   *)
(* which one a behaviour is about; the variables of the others keep their  *)
(* initial values.  The constants of the .cfg are those of DepotRegion:    *)
(* superblocks of two units, a small descriptor and one larger than a      *)
(* superblock, and room for a handful of superblocks.                      *)
(***************************************************************************)
EXTENDS DepotRegion, Sequences, FiniteSets, SequencesExt, FiniteSetsExt, TLC

VARIABLES part, input,
  free_list, allocated_user, allocated_meta, cache, list, pending, alloc_mapped, alloc_blocks,
  step, addr, symbolizer, times_restarted, sigpipe, child, buffer, returned

Alloc == INSTANCE SizeClassAllocator WITH
  mapped <- alloc_mapped, blocks <- alloc_blocks, Threads <- Thread,
  Spline <- <<[l |-> 8, s |-> 8, c |-> 1, u |-> 0],
              [l |-> 16, s |-> 16, c |-> 1, u |-> 1], [l |-> 32, u |-> 2]>>,
  SpaceBeg <- 512, RegionSize <- 128, PopulateSize <- 16, MetadataSize <- 4,
  PageSize <- 16, MapSlots <- {1024, 1072},
  Requests <- {<<9, 1>>, <<17, 16>>, <<40, 32>>}, MaxLive <- 2

\* Only large blocks, three at a time: one is unlinked between two others while
\* another thread maps or unmaps.
Large == INSTANCE SizeClassAllocator WITH
  mapped <- alloc_mapped, blocks <- alloc_blocks, Threads <- Thread,
  Spline <- <<[l |-> 8, s |-> 8, c |-> 1, u |-> 0],
              [l |-> 16, s |-> 16, c |-> 1, u |-> 1], [l |-> 32, u |-> 2]>>,
  SpaceBeg <- 512, RegionSize <- 128, PopulateSize <- 16, MetadataSize <- 4,
  PageSize <- 16, MapSlots <- {1024, 1136, 1248},
  Requests <- {<<33, 1>>, <<40, 32>>}, MaxLive <- 3

\* DefaultSizeClassMap as it is (sanitizer_allocator64.h:41).
Real == INSTANCE SizeClassAllocator WITH
  mapped <- alloc_mapped, blocks <- alloc_blocks, Threads <- Thread,
  Spline <- << [l |-> 2 ^ 4, s |-> 2 ^ 4, c |-> 256, u |-> 0], [l |-> 2 ^ 9, s |-> 2 ^ 6, c |-> 64, u |-> 31],
               [l |-> 2 ^ 12, s |-> 2 ^ 9, c |-> 16, u |-> 87], [l |-> 2 ^ 15, s |-> 2 ^ 12, c |-> 4, u |-> 143],
               [l |-> 2 ^ 18, s |-> 2 ^ 15, c |-> 1, u |-> 199],
               [l |-> 2 ^ 21, u |-> 255]>>,
  SpaceBeg <- 0, RegionSize <- 2 ^ 22, PopulateSize <- 2 ^ 15, MetadataSize <- 16,
  PageSize <- 4096, MapSlots <- {0}, Requests <- {}, MaxLive <- 0

Lib == INSTANCE SanitizerLibrary WITH Bits <- 8

\* The second answer fills the buffer, the third does not fit, the fourth
\* address is in no module.
Symb == INSTANCE ExternalSymbolizer WITH
  Addresses <- 1 .. 4, Module <- <<"exe", "exe", "exe", "">>,
  Answer <- << <<"main", "nl", "a.c", ":", "1", ":", "2", "nl", "nl">>,
               <<"??", "nl", "??", ":", "0", ":", "0", "nl",
                 "g", "nl", "b.c", ":", "7", ":", "1", "nl", "nl">>,
               <<"f", "nl", "a.c", ":", "1", ":", "2", "nl", "g", "nl", "b.c", ":", "7", ":",
                 "1", "nl", "h", "nl", "c.c", "nl", "nl">>, << >> >>,
  MaxFrames <- 2, kMaxBufferSize <- 17, kMaxTimesRestarted <- 2, MaxCalls <- 2

symbVars == <<step, addr, symbolizer, times_restarted, sigpipe, child, buffer, returned>>
allocVars == <<free_list, allocated_user, allocated_meta, cache, list, pending, alloc_mapped, alloc_blocks>>

-----------------------------------------------------------------------------
(* Inputs of the parts without state.                                      *)

AtMost(S, n) == UNION {[1 .. k -> S] : k \in 0 .. n}
Strings(n) == {s \o <<0>> : s \in AtMost({65, 66, 200}, n)}
Digits == {s \o <<0>> : s \in AtMost({32, 43, 45, 49, 53, 57}, 4)}
Pcs == {0, 2, 3, 4, 17, 19, 64, 127, 130}
Directives == {[conv |-> "text", arg |-> 65], [conv |-> "d", arg |-> -128],
               [conv |-> "d", arg |-> 7], [conv |-> "u", arg |-> 255],
               [conv |-> "x", arg |-> 26], [conv |-> "p", arg |-> 10],
               [conv |-> "s", arg |-> << >>], [conv |-> "s", arg |-> <<66, 67, 0>>]}
\* 1  02  "1"  yes  'no 7'
Values == {<<49>>, <<48, 50>>, <<34, 49, 34>>, <<121, 101, 115>>, <<39, 110, 111, 32, 55, 39>>}

Inputs(p) ==
  CASE p = "classes" -> {[id |-> id] : id \in Real!Classes}
    [] p = "strings" -> {[s |-> s, t |-> t, n |-> n] : s \in Strings(3), t \in Strings(2), n \in 0 .. 3}
    [] p = "moves" -> {[d |-> d, s |-> s, n |-> n] : d \in 0 .. 4, s \in 0 .. 4, n \in 0 .. 4}
    [] p = "numbers" -> {[s |-> s] : s \in Digits}
    [] p = "printf" -> {[format |-> f, room |-> room] : f \in AtMost(Directives, 3), room \in {1, 2, 5, 9, 12}}
    [] p = "flags" -> {[v |-> v, w |-> w, gap |-> g] : v \in Values, w \in Values, g \in 1 .. 2}
    [] p = "compress" -> {[trace |-> t, size |-> size] : t \in AtMost(Pcs, 3), size \in 0 .. 6}
    [] p = "pipes" -> {[open |-> o] : o \in SUBSET {0, 1, 2, 3, 6}}
    [] p = "stacks" -> {[trace |-> t, found |-> f] : t \in [1 .. 3 -> {0, 8, 9}],
                         f \in [1 .. 3 -> [callback : BOOLEAN, frames : 0 .. 2]]}
    [] p = "arena" -> {[sizes |-> s] : s \in AtMost({1, 8, 9, 20}, 4)}
    [] p = "lists" -> {[ops |-> o] : o \in AtMost({"pb", "pf", "pop", "af", "ab", "fb"}, 4)}

Pure == {"classes", "strings", "moves", "numbers", "printf", "flags", "compress", "lists",
         "pipes", "stacks", "arena"}

PartsInit ==
  /\ part \in {"chunks", "large", "symbolizer", "region"} \cup Pure /\ input = << >>
  /\ Init /\ Alloc!Init /\ Symb!SymbolizerInit
  /\ (addr = 1 /\ sigpipe = "default") \/ part = "symbolizer"

PickInput ==
  /\ part \in Pure /\ input = << >>
  /\ input' \in {<<i>> : i \in Inputs(part)}
  /\ UNCHANGED <<part, vars, allocVars, symbVars>>

Symbolize(A) == part = "symbolizer" /\ A /\ UNCHANGED <<part, input, vars, allocVars>>
PartsNext ==
  \/ part = "chunks" /\ Alloc!Next /\ UNCHANGED <<part, input, vars, symbVars>>
  \/ part = "large" /\ Large!Next /\ UNCHANGED <<part, input, vars, symbVars>>
  \/ part = "region" /\ Next /\ UNCHANGED <<part, input, allocVars, symbVars>>
  \/ Symbolize(Symb!SymbolizerNext)
  \/ PickInput

mcVars == <<part, input, vars, allocVars, symbVars>>
PartsSpec ==
  /\ PartsInit /\ [][PartsNext]_mcVars
  /\ WF_mcVars(Symbolize(Symb!Parent)) /\ WF_mcVars(Symbolize(Symb!ChildAnswers))

-----------------------------------------------------------------------------
\* No chunk of a size class is lost or given out twice
\* (sanitizer_allocator64.h, SizeClassAllocator64 and its local cache).
ChunksAreConserved == Alloc!ChunksAreConserved

\* Blocks are aligned, apart from each other and from metadata, and found from
\* all of their bytes; the list of large ones has those in use and can be followed both
\* ways, whatever threads map and unmap around it (sanitizer_allocator64.h,
\* CombinedAllocator and LargeMmapAllocator).
BlocksAreSound == Alloc!BlocksAreSound

\* Although the symbolizer may end at any time, a call for a symbol returns, and its
\* answer is for its own address; only a program that leaves SIGPIPE alone does not
\* get so far: it is killed when it writes to a symbolizer that has ended
\* (sanitizer_symbolizer.cc:103, 194, 240).
CallsAreAnswered == Symb!CallReturns /\ []Symb!AnswersBelong /\ []Symb!KilledOnlyBySigpipe

\* A request gets the smallest class that holds it, and one with an alignment
\* gets chunks that are all aligned.
ClassFits(id) ==
  LET size == Real!Size(id)
      below == IF id = 0 THEN 0 ELSE Real!Size(id - 1)
      asked == {x \in {below + 1, below + 2, below + 8, size - 1, size} : below < x /\ x <= size}
      aligned == {<<x, 2 ^ k>> : x \in asked, k \in 4 .. 21}
  IN
  /\ Real!SplineIsContinuous /\ Real!Size(0) = Real!kMinSize
  /\ below < size /\ \A x \in asked : Real!ClassID(x) = id
  /\ \A r \in aligned : Real!Rounded(r[1], r[2]) <= Real!kMaxSize =>
       Real!Size(Real!ClassID(Real!Rounded(r[1], r[2]))) % r[2] = 0

\* Without calls at once, the low-level allocator gives out memory that is mapped,
\* aligned and nobody else's, wherever mmap places it (places are 32 apart).
ArenaGivesOwnMemory(sizes) ==
  LET last == Len(sizes)
      a[k \in 0 .. last] == IF k = 0 THEN [current |-> 0, end |-> 0, given |-> 0]
                            ELSE Lib!LowLevelAllocate(a[k - 1], sizes[k], 16, 64 + 32 * (9 - 2 * k))
      Block(k) == a[k].given .. a[k].given + sizes[k] - 1
  IN \A k \in 1 .. last :
       /\ a[k].given % 8 = 0 /\ a[k].current <= a[k].end /\ a[k].given + sizes[k] <= a[k].current
       /\ \A j \in 1 .. k - 1 : Block(j) \cap Block(k) = {}

-----------------------------------------------------------------------------
\* The value C says: the digits' value, held within the range of the type.
NumberIsRead(s) ==
  LET r == Lib!internal_simple_strtoll(s)
      v[p \in 0 .. Len(s)] == IF p = 0 THEN 0
                              ELSE IF Lib!IsDigit(s[p]) THEN v[p - 1] * 10 + s[p] - 48 ELSE 0
      exact == IF r.end > 0 /\ Lib!IsDigit(s[r.end]) THEN v[r.end] ELSE 0
      signed == IF \E p \in 1 .. r.end : s[p] = 45 THEN -exact ELSE exact
  IN r.value = CASE signed > 127 -> 127 [] signed < -128 -> -128 [] OTHER -> signed

StringsAgree(s, t, n) ==
  LET body(x) == SubSeq(x, 1, Lib!internal_strlen(x))
      room == s \o [i \in 1 .. 8 |-> 7]
      cat == Lib!internal_strncat(room, t, n)
      head == SubSeq(body(t), 1, Lib!SmallerOf(n, Len(body(t))))
  IN
  /\ (Lib!internal_strcmp(s, t) = 0) <=> (body(s) = body(t))
  /\ Lib!internal_strcmp(s, t) = -Lib!internal_strcmp(t, s)
  /\ (Lib!internal_strstr(s, t) # Lib!Null) <=> (\E i \in 0 .. Len(s) - 1 :
        \E k \in i .. Len(s) - 1 : SubSeq(s, i + 1, k) = body(t))
  /\ body(cat) = body(s) \o head
  /\ LET i == Lib!internal_memchr(s, 65, Len(s))
         j == Lib!internal_strrchr(s, 65)
         k == Lib!internal_strcspn(s, t)
     IN /\ (i = Lib!Null) <=> (65 \notin ToSet(s))
        /\ j # Lib!Null => i <= j /\ 65 \notin ToSet(SubSeq(s, j + 2, Len(s)))
        /\ j = Lib!Null <=> i = Lib!Null
        /\ ToSet(SubSeq(s, 1, k)) \cap ToSet(body(t)) = {}
        /\ k < Lib!internal_strlen(s) => s[k + 1] \in ToSet(body(t))
  /\ Len(body(Lib!internal_strncpy([i \in 1 .. 8 |-> 7] \o <<0>>, t, n))) =
       IF n > Len(body(t)) THEN Len(body(t)) ELSE 8

\* What was there before is what is moved, however the two ranges overlap.
MoveIsExact(d, s, n) ==
  LET mem == [i \in 1 .. 8 |-> i]
      moved == Lib!internal_memmove(mem, d, s, n)
      Within(i, at) == at < i /\ i <= at + n
  IN
  /\ moved = [i \in 1 .. 8 |-> IF Within(i, d) THEN s + i - d ELSE i]
  /\ d <= s \/ s + n <= d => Lib!internal_memcpy(mem, d, s, n) = moved
  /\ Lib!internal_memmove(Lib!internal_memset(mem, s, 0, n), d, s, n) =
       [i \in 1 .. 8 |-> IF Within(i, d) \/ Within(i, s) THEN 0 ELSE i]

\* Output that does not fit is cut and counted: the result is the length of the
\* whole text, the buffer holds its longest prefix and is terminated.
OutputIsCut(format, room) ==
  LET full == FlattenSeq([i \in DOMAIN format |-> Lib!Directive(format[i])])
      got == Lib!VSNPrintf(room, format)
  IN
  /\ got.result = Len(full)
  /\ got.out = SubSeq(full, 1, Lib!SmallerOf(Len(full), room - 1)) \o <<0>>

\* A stored stack comes back as the prefix that was stored, and is cut only at
\* a null pc or a pc that does not fit.
StackComesBack(trace, size) ==
  LET stale == [i \in 1 .. size |-> 9]
      c == Lib!CompressStack(trace, stale, size)
  IN
  /\ Lib!UncompressStack(c.compressed, size, 4) = SubSeq(trace, 1, c.res)
  /\ c.res < Len(trace) /\ 2 * (c.res + 1) <= size =>
       trace[c.res + 1] = 0 \/ trace[c.res + 1] > 127

\* A flag has the value it is given, quoted or not, next to another flag.
FlagIsParsed(v, w, gap) ==
  LET bare(x) == IF x[1] \in {34, 39} THEN SubSeq(x, 2, Len(x) - 1) ELSE x
      env == <<97, 61>> \o v \o [i \in 1 .. gap |-> 32] \o <<99, 61>> \o w \o <<0>>
      yes(x) == bare(x)[1] \in {49, 121}
      no(x) == bare(x)[1] \in {48, 110}
      int(x) == CASE bare(x) = <<49>> -> 1 [] bare(x) = <<48, 50>> -> 2 [] OTHER -> 0
      noes == {<<48>>, <<110, 111>>}
      yeses == {<<49>>, <<121, 101, 115>>}
  IN \A f \in {<< <<97, 0>>, v>>, << <<99, 0>>, w>>} : \A default \in BOOLEAN :
       /\ Lib!ParseFlagString(env, f[1], << >>) = bare(f[2])
       /\ Lib!ParseFlagInt(env, f[1], 9) = int(f[2])
       /\ Lib!ParseFlagBool(env, f[1], default, noes, yeses) = yes(f[2])
       /\ ~Lib!ParseFlagBool(env, f[1], default, noes, yeses) = no(f[2])
       /\ Lib!ParseFlagInt(env, <<100, 0>>, 9) = 9

\* The items of a list, by following it.
ItemsOf(l, next) ==
  LET items[i \in 0 .. l.size] == CASE i = 0 -> << >>
                                    [] i = 1 -> <<l.first>>
                                    [] OTHER -> Append(items[i - 1], next[Last(items[i - 1])])
  IN items[l.size]

\* Two lists and the sequences they stand for.
ListStep(st, op) ==
  LET l == st.l
      free == Min({x \in 1 .. 9 : x > st.used})
      Apply(r, a) == [st EXCEPT !.l = r.l, !.next = r.next, !.a = a,
                                !.used = IF op \in {"pb", "pf"} THEN @ + 1 ELSE @]
      Join(r, a) == [st EXCEPT !.l = r.l, !.from = r.from, !.next = r.next, !.a = a, !.b = << >>]
  IN CASE op = "pb" -> Apply(Lib!push_back(l, st.next, free), Append(st.a, free))
       [] op = "pf" -> Apply(Lib!push_front(l, st.next, free), <<free>> \o st.a)
       [] op = "fb" -> LET r == Lib!push_back(st.from, st.next, free)
                       IN [st EXCEPT !.from = r.l, !.next = r.next, !.b = Append(@, free), !.used = @ + 1]
       [] op = "pop" /\ l.size > 0 -> Apply(Lib!pop_front(l, st.next), Tail(st.a))
       [] op = "af" -> Join(Lib!append_front(l, st.from, st.next), st.b \o st.a)
       [] op = "ab" /\ (l.size = 0 \/ st.from.size > 0) ->
            Join(Lib!append_back(l, st.from, st.next), st.a \o st.b)
       [] OTHER -> st

\* The intrusive list is the sequence of its items and stays consistent, appending
\* an empty list to the back of another one excepted.
ListIsASequence(ops) ==
  LET st == FoldLeft(ListStep, [l |-> Lib!EmptyList, from |-> Lib!EmptyList, used |-> 0,
                                next |-> [x \in 1 .. 9 |-> 9], a |-> << >>, b |-> << >>], ops)
  IN /\ ItemsOf(st.l, st.next) = st.a /\ Lib!CheckConsistency(st.l, st.next)
     /\ ItemsOf(st.from, st.next) = st.b /\ Lib!CheckConsistency(st.from, st.next)

\* Both kept pipes are clear of the standard descriptors and the others closed,
\* whichever of those the program has closed.
PipesAreHigh(open) ==
  LET p == Symb!Pipes(open)
      kept == ToSet(p.infd) \cup ToSet(p.outfd)
  IN /\ Cardinality(kept) = 4 /\ \A fd \in kept : fd > 2
     /\ p.closed = p.opened \ kept /\ p.opened \cap open = {}

\* Every address up to a null one is on a line, and lines are numbered in order.
StackIsPrinted(trace, found) ==
  LET lines == Symb!PrintStack(trace, found)
      n == Min({i \in 1 .. 3 : trace[i] = 0} \cup {4}) - 1
  IN /\ \A k \in DOMAIN lines : lines[k].number = k - 1
     /\ FoldLeft(LAMBDA seen, x : IF seen # << >> /\ Last(seen) = x.pc THEN seen
                                  ELSE Append(seen, x.pc), << >>, lines) =
        FoldLeft(LAMBDA seen, a : IF seen # << >> /\ Last(seen) = a - 1 THEN seen
                                  ELSE Append(seen, a - 1), << >>, SubSeq(trace, 1, n))

\* What the sanitizers' own C library, printf, flags, lists and size classes
\* promise, and that a report has all of a stack (sanitizer_libc.cc,
\* sanitizer_printf.cc, sanitizer_flags.cc, sanitizer_stacktrace.cc,
\* sanitizer_list.h, sanitizer_allocator64.h).
LibraryIsRight ==
  input # << >> => LET i == input[1] IN
    CASE part = "classes" -> ClassFits(i.id)
      [] part = "strings" -> StringsAgree(i.s, i.t, i.n)
      [] part = "moves" -> MoveIsExact(i.d, i.s, i.n)
      [] part = "numbers" -> NumberIsRead(i.s)
      [] part = "flags" -> FlagIsParsed(i.v, i.w, i.gap)
      [] part = "arena" -> ArenaGivesOwnMemory(i.sizes)
      [] part = "lists" -> ListIsASequence(i.ops)
      [] part = "pipes" -> PipesAreHigh(i.open)
      [] part = "printf" -> OutputIsCut(i.format, i.room)
      [] part = "compress" -> StackComesBack(i.trace, i.size)
      [] part = "stacks" -> StackIsPrinted(i.trace, i.found)
=============================================================================
