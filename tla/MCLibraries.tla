---------------------------- MODULE MCLibraries ----------------------------
(***************************************************************************)
(* The smaller run times, each on a small instance: the __atomic_* library *)
(* (whose constants the .cfg gives), blocks, gcov counters, the type cache *)
(* of ubsan, and, on enumerated inputs, the unwinder's personality, the    *)
(* operands and messages of ubsan and the file names of gcov.  "part" says *)
(* which one a behaviour is about; the variables of the others keep their  *)
(* initial values.                                                         *)
(***************************************************************************)
EXTENDS AtomicLib, Sequences, FiniteSets, SequencesExt, TLC

CONSTANTS x, y, z, Ops, Apis, Size

VARIABLES part, input,
  alive, of, count, fields, forwarding, in_scope, retained, held, todo, calls,
  dirs, file, output_file, pos, build, counters, next, named, credited, torn, runs,
  hash_set, type_cache, check, checks, wild

\* x and y, of Size bytes, hash to one lock; z is one byte and hashes to another.
\* All bytes equal: enough to see a torn value and a lost update.
Fill(o, b) == [i \in 1 .. (IF o = z THEN 1 ELSE Size) |-> b]

MCSizeOf == [o \in Object |-> IF o = z THEN 1 ELSE Size]
MCLockFor == [o \in Object |-> IF o = z THEN "lock2" ELSE "lock1"]

CallOf(op, api, o, val, exp) ==
  [op |-> op, api |-> api, obj |-> o, val |-> Fill(o, val), exp |-> Fill(o, exp)]

\* fetch_<op> exists in sized form only.  y is there to compete for the lock of x.
CallsOn(api, o) ==
  {CallOf("load", api, o, 0, 0)}
  \cup {CallOf(op, api, o, val, 0) : op \in {"store", "exchange"}, val \in Byte}
  \cup {CallOf("cas", api, o, 1 - exp, exp) : exp \in Byte}
  \cup {CallOf("fetch", "sized", o, 1, 0)}
MCCalls ==
  {c \in UNION {CallsOn(api, o) : api \in Apis, o \in Object \ {y}}
         \cup {CallOf("store", api, o, 1, 0) : api \in Apis, o \in Object \cap {y}} : c.op \in Ops}

\* Two blocks share a __block variable; one of them captures an object and the
\* other the first block.
Caller == CHOOSE t \in Thread : TRUE
CapturesOf == [b1 |-> <<[kind |-> "byref", to |-> "v"], [kind |-> "object", to |-> "o"]>>,
               b2 |-> <<[kind |-> "block", to |-> "b1"], [kind |-> "byref", to |-> "v"]>>]
Blocks == INSTANCE BlocksRuntime WITH
  Threads <- Thread, Owner <- Caller, StackBlocks <- {"b1", "b2"}, Captures <- CapturesOf,
  Heap <- 1 .. 6, RefcountMask <- 3, MaxCalls <- 3

\* Two builds differ in a function more, a third counts otherwise.
F(ident, n) == [ident |-> ident, counters |-> n]
SomeBuilds == {<<F(1, 1)>>, <<F(1, 1), F(2, 2)>>, <<F(1, 2)>>}
Gcda == INSTANCE GCDAProfiling WITH
  Builds <- SomeBuilds, WordBits <- 1, MaxCount <- 1, MaxRuns <- 3

\* b derives from a, c from b and from a once more, d virtually from a.
Base(type, offset, virtual) == [type |-> type, offset |-> offset, virtual |-> virtual]
Classes == [a |-> << >>, b |-> <<Base("a", 0, FALSE)>>,
            c |-> <<Base("b", 0, FALSE), Base("a", 2, FALSE)>>, d |-> <<Base("a", 1, TRUE)>>]
Vtables == [va |-> [type |-> "a", offset |-> 0], vc |-> [type |-> "c", offset |-> 0],
            vc2 |-> [type |-> "c", offset |-> -2], vd |-> [type |-> "d", offset |-> 0],
            no |-> [type |-> "junk", offset |-> 3]]
Hashes == <<"va", "b">> :> 7 @@ <<"vc", "a">> :> 2 @@ <<"vc", "b">> :> 5 @@ <<"vc2", "a">> :> 6
          @@ <<"vc2", "b">> :> 3 @@ <<"vd", "b">> :> 8 @@ <<"no", "a">> :> 4
Ubsan == INSTANCE UbsanRuntime WITH
  Threads <- Thread, Class <- Classes, Simple <- {"b"}, Vtable <- Vtables, Hash <- Hashes,
  HashMask <- 7, Tries <- 2, VptrTypeCacheSize <- 2, MaxChecks <- 2

Unwind == INSTANCE GccPersonality

blocksVars == <<alive, of, count, fields, forwarding, in_scope, retained, held, todo, calls>>
gcdaVars == <<dirs, file, output_file, pos, build, counters, next, named, credited, torn, runs>>
ubsanVars == <<hash_set, type_cache, check, checks, wild>>

-----------------------------------------------------------------------------
(* Inputs of the parts without state.                                      *)

AtMost(S, n) == UNION {[1 .. k -> S] : k \in 0 .. n}

Sites == {[start |-> 0, length |-> 2, pad |-> 0], [start |-> 0, length |-> 2, pad |-> 9],
          [start |-> 1, length |-> 200, pad |-> 300], [start |-> 150, length |-> 60, pad |-> 5]}
\* Every format, absolute, relative where a distance may be negative, and indirect.
Encodings == {0, 1, 2, 3, 4, 10, 11, 12, 16, 20, 26, 27, 28, 128, 130, 144, 154}

Types == [signed : BOOLEAN, bits : {1, 2, 4, 8}]
ValueOf(type, n) == IF type.bits <= Ubsan!HandleBits
                    THEN [type |-> type, val |-> n, memory |-> -1, number |-> n]
                    ELSE [type |-> type, val |-> -1, memory |-> n, number |-> n]
SomeBits(bits) == IF bits < 8 THEN 0 .. 2 ^ bits - 1 ELSE {0, 1, 5, 64, 127, 128, 129, 255}
OperandValues == UNION {{ValueOf(type, n) : n \in SomeBits(type.bits)} : type \in Types}
Small(v) == v.type.bits \in {2, 8} /\ v.number \in {0, 1, 2, 3, 5, 64, 128, 255}

Names == {"a", "b", "/"}
Paths == {p \in AtMost(Names, 4) : p # << >>}

Inputs(p) ==
  CASE p = "unwind" -> {[encoding |-> c, sites |-> s, offset |-> o, header |-> h] :
                          c \in Encodings, s \in AtMost(Sites, 2), o \in {0, 1, 2, 160, 205}, h \in BOOLEAN}
    [] p = "shift" -> {[lhs |-> l, rhs |-> r] : l \in OperandValues, r \in {v \in OperandValues : Small(v)}}
    [] p = "divide" -> {[lhs |-> v, rhs |-> w] : v \in {v \in OperandValues : Small(v)}, w \in OperandValues}
    [] p = "pointer" -> {[pointer |-> q, alignment |-> g] : q \in 0 .. 9, g \in {0, 1, 2, 4, 8}}
    [] p = "path" -> {[orig |-> o, prefix |-> q, strip |-> s] :
                        o \in Paths, q \in AtMost({"r", "/"}, 2), s \in 0 .. 3}
Pure == {"unwind", "shift", "divide", "pointer", "path"}

PartsInit ==
  /\ part \in {"atomic", "blocks", "gcda", "ubsan"} \cup Pure /\ input = << >>
  /\ Init /\ Blocks!BlocksInit /\ Ubsan!UbsanInit
  /\ Gcda!GCDAInit /\ (part = "gcda" \/ dirs = TRUE)

PickInput ==
  /\ part \in Pure /\ input = << >>
  /\ input' \in {<<i>> : i \in Inputs(part)}
  /\ UNCHANGED <<part, vars, blocksVars, gcdaVars, ubsanVars>>

Atomically(A) == part = "atomic" /\ A /\ UNCHANGED <<part, input, blocksVars, gcdaVars, ubsanVars>>

PartsNext ==
  \/ Atomically(Next)
  \/ part = "blocks" /\ Blocks!BlocksNext /\ UNCHANGED <<part, input, vars, gcdaVars, ubsanVars>>
  \/ part = "gcda" /\ Gcda!GCDANext /\ UNCHANGED <<part, input, vars, blocksVars, ubsanVars>>
  \/ part = "ubsan" /\ Ubsan!UbsanNext /\ UNCHANGED <<part, input, vars, blocksVars, gcdaVars>>
  \/ PickInput

mcVars == <<part, input, vars, blocksVars, gcdaVars, ubsanVars>>
\* A thread inside an atomic call is eventually scheduled.
PartsSpec == /\ PartsInit /\ [][PartsNext]_mcVars
             /\ \A t \in Thread : WF_mcVars(Atomically(Continue(t)))

-----------------------------------------------------------------------------
\* What is held is accounted for: a lock is taken exactly while one call is between
\* lock and unlock (atomic.c:83), and a copy of a block or a __block variable is
\* allocated exactly while something refers to it, with all blocks of a function
\* sharing one variable (BlocksRuntime/runtime.c:118-430).
HoldersAreExact ==
  /\ part = "atomic" => TypeOK /\ LocksHeldOnce
  /\ part = "blocks" => Blocks!CountsAreExact /\ Blocks!VariableIsShared

\* A store that runs alone leaves its argument in the object: "An atomic store
\* operation" (atomic.c:158, __atomic_store_c).
StoreTakesEffect ==
  \A t \in Thread :
    /\ pc[t] = "done" /\ Op(t) = "store"
    /\ \A u \in Thread \ {t} : pc[u] = "idle"
    => memory[Obj(t)] = reg[t].call.val

-----------------------------------------------------------------------------
\* A table of call sites as a compiler writes it: cells that indirect pointers
\* lead to, then the header, then the sites.
Uleb(n) == IF n < 128 THEN <<n>> ELSE <<(n % 128) + 128, n \div 128>>
LittleEndian(n, bytes) ==
  [i \in 1 .. bytes |-> IF i <= Unwind!PointerBytes THEN (n \div 256 ^ (i - 1)) % 256 ELSE 0]
Encoded(v, at, encoding, cell) ==
  LET n == Unwind!Address((IF encoding >= 128 THEN cell ELSE v)
                          - (IF (encoding \div 16) % 8 = 1 THEN at ELSE 0))
  IN IF encoding % 16 = 1 THEN Uleb(n) ELSE LittleEndian(n, Unwind!Fixed[encoding % 16])
SiteFields(sites) == FlattenSeq([i \in DOMAIN sites |-> <<sites[i].start, sites[i].length, sites[i].pad>>])
Table(sites, encoding, start) ==
  LET values == SiteFields(sites)
      bytes[k \in 0 .. Len(values)] ==
        IF k = 0 THEN << >>
        ELSE bytes[k - 1] \o Encoded(values[k], start + Len(bytes[k - 1]), encoding, 3 * k - 2)
                          \o (IF k % 3 = 0 THEN Uleb(200) ELSE << >>)
  IN bytes[Len(values)]
Memory(i) ==
  LET cells == FlattenSeq([k \in DOMAIN SiteFields(i.sites) |-> LittleEndian(SiteFields(i.sites)[k], 3)])
      header == IF i.header THEN <<0, 1, 2, 3, 0>> \o Uleb(300) ELSE <<Unwind!Omit, Unwind!Omit>>
      start == Len(cells) + Len(header) + 3
      table == Table(i.sites, i.encoding, start)
  IN cells \o header \o <<i.encoding>> \o Uleb(Len(table)) \o table \o [k \in 1 .. 9 |-> 0]

\* The routine goes to the landing pad of the first site that has one and covers
\* the call, in every encoding a table may have, and only in the cleanup phase
\* (gcc_personality_v0.c:176).
LandingPadIsFound(i) ==
  LET covering == {k \in DOMAIN i.sites : /\ i.sites[k].pad # 0 /\ i.sites[k].start <= i.offset
                                          /\ i.offset < i.sites[k].start + i.sites[k].length}
      first == CHOOSE k \in covering : \A m \in covering : k <= m
      lsda == 9 * Len(i.sites) + 1
      ip == 5000 + i.offset + 1
  IN \A search \in BOOLEAN :
       Unwind!gcc_personality_v0(search, Memory(i), lsda, ip, 5000) =
         IF search \/ covering = {} THEN [reason |-> "continue", ip |-> ip]
         ELSE [reason |-> "install", ip |-> 5000 + i.sites[first].pad]

\* An operand shows the number its bits stand for in its own type.
Number(v) == IF v.type.signed THEN Ubsan!AsSigned(v.number, v.type.bits) ELSE v.number
ValueIsRead(v) == Ubsan!Shown(v)[2] = Number(v)
\* Every place of a message has an argument, and there is room for all of them.
IsWhole(d) == (\A k \in d.places : k < Len(d.args)) /\ Len(d.args) <= Ubsan!MaxArgs

\* The message of a shift that is undefined gives a reason that is true.
ShiftIsExplained(lhs, rhs) ==
  LET bits == lhs.type.bits
      d == Ubsan!handle_shift_out_of_bounds(lhs, rhs)
      large == Number(rhs) < 0 \/ Number(rhs) >= bits
      lost == ~large /\ Number(lhs) * 2 ^ Number(rhs) >= 2 ^ (bits - 1)
      undefined == large \/ (lhs.type.signed /\ (Number(lhs) < 0 \/ lost))
  IN undefined =>
       /\ IsWhole(d)
       /\ CASE d.message = "exponent negative" -> Number(rhs) < 0
            [] d.message = "exponent too large" -> Number(rhs) >= bits
            [] d.message = "negative" -> Number(lhs) < 0 /\ ~large
            [] d.message = "not representable" -> lost

DivisionIsExplained(lhs, rhs) ==
  LET d == Ubsan!handle_divrem_overflow(lhs, rhs)
  IN /\ Number(rhs) \in {0, -1} => IsWhole(d) /\ (d.message = "by zero" <=> Number(rhs) = 0)
     /\ IsWhole(Ubsan!HandleSignedOverflow(lhs, "+", rhs)) /\ IsWhole(Ubsan!handle_negate_overflow(lhs))
     /\ IsWhole(Ubsan!handle_float_cast_overflow(lhs)) /\ IsWhole(Ubsan!handle_vla_bound_not_positive(rhs))

PointerIsExplained(pointer, alignment) ==
  LET d == Ubsan!handle_type_mismatch(pointer, alignment)
  IN IsWhole(d) /\ (d.message = "null" <=> pointer = 0)
                /\ (d.message = "misaligned" <=> pointer # 0 /\ alignment # 0 /\ pointer % alignment # 0)

\* Types are checked through both caches as they are without them, and messages
\* are true and whole (ubsan_type_hash.cc:165, ubsan_value.cc:41,
\* ubsan_handlers.cc:28).
ChecksAreRight ==
  /\ part = "ubsan" => Ubsan!TypesAreChecked
  /\ part = "shift" /\ input # << >> => /\ ValueIsRead(input[1].lhs) /\ ValueIsRead(input[1].rhs)
                                        /\ ShiftIsExplained(input[1].lhs, input[1].rhs)
  /\ part = "divide" /\ input # << >> => DivisionIsExplained(input[1].lhs, input[1].rhs)
  /\ part = "pointer" /\ input # << >> => PointerIsExplained(input[1].pointer, input[1].alignment)

\* The unwinder finds every landing pad (gcc_personality_v0.c:176).
LandingPadsAreFound == part = "unwind" /\ input # << >> => LandingPadIsFound(input[1])

-----------------------------------------------------------------------------
\* A file of counters moves to the prefix, without as many levels as are
\* stripped, and every directory on its way is made.
PathIsMangled(i) ==
  LET path == Gcda!mangle_filename(i.orig, i.prefix, i.strip)
      Levels(p) == Cardinality({k \in DOMAIN p : p[k] = "/"})
      inner == Levels(Tail(i.orig))
      root == IF Last(i.prefix) = "/" THEN i.prefix ELSE Append(i.prefix, "/")
      kept == SubSeq(path, Len(root) + 1, Len(path))
      start == Len(i.orig) - Len(kept) + 1
  IN /\ IF i.prefix = << >> THEN path = i.orig
        ELSE /\ IsPrefix(root, path) /\ IsSuffix(kept, i.orig)
             /\ start = 1 \/ i.orig[start] = "/"
             /\ Levels(SubSeq(i.orig, 2, start)) = IF i.strip < inner THEN i.strip ELSE inner
     /\ \A k \in 2 .. Len(path) : path[k] = "/" => SubSeq(path, 1, k - 1) \in Gcda!recursive_mkdir(path)

\* The file holds, between runs, the sums of what complete runs counted, whatever
\* builds ran and wherever others crashed, and is where it is asked for
\* (GCDAProfiling.c:168, 227).
CountersAreSums ==
  /\ part = "gcda" => Gcda!CountersAreSums
  /\ part = "path" /\ input # << >> => PathIsMangled(input[1])
=============================================================================
