------------------------ MODULE AsanAllocator_proofs ------------------------
(***************************************************************************)
(* Proofs, for any threads, sizes, alignments and places of page groups,   *)
(* that a chunk of the asan heap is in one place and that a free is judged *)
(* by what the application owns.                                           *)
(***************************************************************************)
EXTENDS AsanAllocator, SequenceTheorems, WellFoundedInduction, TLAPS

-----------------------------------------------------------------------------
(* The inductive invariant.                                                *)

States == {"available", "allocated", "quarantine"}
Tids == Threads \cup {MainTid}
ChunkBase == [state : States, cls : Classes, alignment : Nat, used : Nat,
              alloc : Tids, free : Tids \cup {InvalidTid}]
PageGroups == [beg : Nat, end : Nat, size : Classes, last : Nat, at : Nat]
Storages == [quarantine : Seq(Nat), free : [Classes -> Seq(Nat)]]
Registers == [size : Nat, alignment : Nat, old : Nat, chunk : Nat, ptr : Nat]
Places == {"idle", "header", "unpoison", "exchange", "poison", "push", "swallow"}
Reports == {"no", "double-free", "free of memory not malloc()-ed"}
ShadowBytes == Magic \cup 0 .. Granularity - 1

HeapTyped ==
  /\ groups \in Seq(PageGroups) /\ sorted \in 0 .. Len(groups)
  /\ header \in [DOMAIN header -> ChunkBase] /\ DOMAIN header \subseteq Nat
  /\ marks \in [DOMAIN marks -> Nat] /\ DOMAIN marks \subseteq Nat
  /\ free_lists \in [Classes -> Seq(Nat)] /\ quarantine \in Seq(Nat)
  /\ shadow \in [DOMAIN shadow -> ShadowBytes] /\ DOMAIN shadow \subseteq Nat
ThreadsTyped ==
  /\ local \in [Threads -> Storages] /\ attached \subseteq Threads
  /\ pc \in [Threads -> Places] /\ regs \in [Threads -> Registers]
  /\ died \in Reports /\ live \in [DOMAIN live -> Nat]
  /\ DOMAIN live \subseteq returned /\ returned \subseteq Nat \ {0}

\* The chunks of a list, and of all lists of a class.
Free(x, cls) == ToSet(FreeOf(x, cls))
Quar(x) == ToSet(QuarantineOf(x))

\* A listed chunk has a header, with the class of its list.
ListsHaveHeaders ==
  /\ \A x \in Owners, cls \in Classes : \A m \in Free(x, cls) :
       m \in DOMAIN header /\ header[m].cls = cls
  /\ \A x \in Owners : Quar(x) \subseteq DOMAIN header

\* Chunks are disjoint pieces of the page groups.
ChunksAreApart ==
  /\ \A m, n \in DOMAIN header : m < n => m + header[m].cls <= n
  /\ \A m \in DOMAIN header : \E i \in DOMAIN groups :
       groups[i].beg <= m /\ m + header[m].cls <= groups[i].end

\* A mark leads back to the beginning of the chunk around it.
MarksLeadBack == \A x \in DOMAIN marks :
  LET m == x - marks[x] IN m \in DOMAIN header /\ m < x /\ x < m + header[m].cls
PointersHaveChunks == \A p \in returned : PtrToChunk(p) \in DOMAIN header

HasState(m, state) == m \in DOMAIN header /\ header[m].state = state
IsOpen(p) == p \in DOMAIN live \/ \E t \in Threads : p \in Owned(t)

\* What a state of a chunk says.
StatesAreRight ==
  /\ \A x \in Owners, cls \in Classes : \A m \in Free(x, cls) : HasState(m, "available")
  /\ \A x \in Owners : \A m \in Quar(x) : HasState(m, "quarantine")
  /\ \A m \in lost : m \in DOMAIN header /\ header[m].state # "allocated"
  /\ \A p : IsOpen(p) => p \in returned /\ HasState(PtrToChunk(p), "allocated")
  /\ \A m \in DOMAIN header : header[m].state = "allocated" => header[m].free = InvalidTid

HandIsRight(t) ==
  LET r == regs[t] IN
  /\ pc[t] = "header" =>
       /\ HasState(r.chunk, "available") /\ r.size > 0
       /\ header[r.chunk].cls = SizeToSizeClass(NeededSize(r.size, r.alignment))
       /\ NeededSize(r.size, r.alignment) <= header[r.chunk].cls
  /\ pc[t] = "unpoison" =>
       r.ptr > 0 /\ PtrToChunk(r.ptr) = r.chunk /\ HasState(r.chunk, "allocated")
  /\ pc[t] = "exchange" => r.ptr \in returned \ DOMAIN live /\ r.old = 0
  /\ pc[t] \in {"poison", "push"} => HasState(r.chunk, "quarantine")
  /\ pc[t] = "poison" => header[r.chunk].free = InvalidTid
  /\ r.old # 0 => pc[t] \in {"header", "unpoison"} /\ r.old \in returned \ DOMAIN live
HandsAreRight ==
  /\ \A t \in Threads : HandIsRight(t)
  /\ \A t, u \in Threads : t # u => Owned(t) \cap Owned(u) = {}

ListsAreApart ==
  /\ \A x \in Owners : IsInjective(QuarantineOf(x)) /\ \A cls \in Classes : IsInjective(FreeOf(x, cls))
  /\ \A x, y \in Owners : x # y =>
       Quar(x) \cap Quar(y) = {} /\ \A cls \in Classes : Free(x, cls) \cap Free(y, cls) = {}
Holding == {"header", "unpoison", "poison", "push"}
HandsAreApart ==
  /\ \A t, u \in Threads : t # u /\ pc[t] \in Holding /\ pc[u] \in Holding =>
       regs[t].chunk # regs[u].chunk
  /\ \A p, q : IsOpen(p) /\ IsOpen(q) /\ PtrToChunk(p) = PtrToChunk(q) => p = q
  /\ \A t \in Threads :
       /\ pc[t] = "header" => \A x \in Owners, cls \in Classes : regs[t].chunk \notin Free(x, cls)
       /\ pc[t] \in {"poison", "push"} => \A x \in Owners : regs[t].chunk \notin Quar(x)
       /\ pc[t] = "unpoison" => \A p : IsOpen(p) => regs[t].chunk # PtrToChunk(p)
       /\ pc[t] \in Holding => regs[t].chunk \notin lost
  /\ \A x \in Owners : lost \cap Quar(x) = {} /\ \A cls \in Classes : lost \cap Free(x, cls) = {}

\* Somebody has each chunk.
InSomeHand(m, at) == \E t \in Threads : pc[t] \in at /\ regs[t].chunk = m
IsSomewhere(m) ==
  \/ m \in lost
  \/ header[m].state = "available" /\ \E x \in Owners : m \in Free(x, header[m].cls)
  \/ header[m].state = "available" /\ InSomeHand(m, {"header"})
  \/ header[m].state = "quarantine" /\ \E x \in Owners : m \in Quar(x)
  \/ header[m].state = "quarantine" /\ InSomeHand(m, {"poison", "push"})
  \/ header[m].state = "allocated" /\ InSomeHand(m, {"unpoison"})
  \/ header[m].state = "allocated" /\ \E p : IsOpen(p) /\ PtrToChunk(p) = m
AllAreSomewhere == \A m \in DOMAIN header : IsSomewhere(m)

HeapIsSound ==
  /\ ChunksAreApart /\ MarksLeadBack /\ PointersHaveChunks
  /\ StatesAreRight /\ HandsAreRight /\ ListsAreApart /\ HandsAreApart /\ AllAreSomewhere
HeapInv == HeapTyped /\ ThreadsTyped /\ ListsHaveHeaders /\ (died = "no" => HeapIsSound)


-----------------------------------------------------------------------------
(* Numbers.                                                                *)

\* A set of naturals that is not empty has a least element.
LEMMA LeastNatural ==
  ASSUME NEW T \in SUBSET Nat, T # {}
  PROVE  \E x \in T : \A y \in T : x <= y
<1> DEFINE R == {ss \in Nat \X Nat : ss[1] < ss[2]}
<1>1. IsWellFoundedOn(R, Nat)
  BY NatLessThanWellFounded DEF OpToRel
<1>2. PICK x \in T : \A y \in T : ~ (<<y, x>> \in R)
  <2> HIDE DEF R
  <2> QED BY <1>1, WFMin
<1>3. ASSUME NEW y \in T PROVE x <= y
  <2>1. <<y, x>> \in Nat \X Nat /\ x \in Nat /\ y \in Nat
    OBVIOUS
  <2>2. <<y, x>>[1] = y /\ <<y, x>>[2] = x
    OBVIOUS
  <2>3. ~(<<y, x>>[1] < <<y, x>>[2])
    BY <2>1, <1>2
  <2> QED BY <2>1, <2>2, <2>3
<1> QED BY <1>3

\* Min of the community modules is that element.
LEMMA MinIsLeast ==
  ASSUME NEW T \in SUBSET Nat, T # {}
  PROVE  Min(T) \in T /\ \A y \in T : Min(T) <= y
BY LeastNatural DEF Min

\* Max of two naturals.
LEMMA MaxOfTwo ==
  ASSUME NEW a \in Nat, NEW b \in Nat
  PROVE  Max({a, b}) \in {a, b} /\ a <= Max({a, b}) /\ b <= Max({a, b})
<1>1. \E x \in {a, b} : \A y \in {a, b} : x >= y
  <2>1. CASE a >= b BY <2>1
  <2>2. CASE ~(a >= b) BY <2>2
  <2> QED BY <2>1, <2>2
<1> QED BY <1>1 DEF Max

\* Quotient and remainder.
LEMMA Division ==
  ASSUME NEW n \in Nat, NEW d \in Nat \ {0}
  PROVE  n % d \in 0 .. d - 1 /\ n \div d \in Nat /\ n = d * (n \div d) + (n % d)
OBVIOUS

LEMMA Recomposition ==
  ASSUME NEW n \in Nat, NEW d \in Nat \ {0}, NEW r \in 0 .. d - 1
  PROVE  (n * d + r) % d = r
OBVIOUS

\* Rounding up reaches the next multiple.
LEMMA RoundUpBounds ==
  ASSUME NEW x \in Nat, NEW b \in Nat \ {0}
  PROVE  /\ RoundUpTo(x, b) \in Nat /\ x <= RoundUpTo(x, b) /\ RoundUpTo(x, b) < x + b
         /\ RoundUpTo(x, b) % b = 0
         /\ x % b # 0 => x < RoundUpTo(x, b)
<1> DEFINE n == x + b - 1
           q == n \div b
           r == n % b
<1>1. q \in Nat /\ r \in 0 .. b - 1 /\ n = b * q + r
  <2> n \in Nat
    OBVIOUS
  <2> HIDE DEF n
  <2> QED BY Division, Zenon
<1>2. RoundUpTo(x, b) = q * b
  BY DEF RoundUpTo
<1> HIDE DEF q, r
<1>3. q * b = b * q /\ b * q \in Nat
  BY <1>1
<1>4. (q * b + 0) % b = 0
  <2>1. 0 \in 0 .. b - 1
    OBVIOUS
  <2> QED BY <1>1, <2>1, Recomposition, Zenon
<1>5. q * b + 0 = q * b
  BY <1>3
<1> QED BY <1>1, <1>2, <1>3, <1>4, <1>5


-----------------------------------------------------------------------------
(* Sequences as lists of chunks.                                           *)

\* Joined lists have the elements of both.
LEMMA JoinedLists ==
  ASSUME NEW S, NEW a \in Seq(S), NEW b \in Seq(S)
  PROVE  /\ a \o b \in Seq(S) /\ ToSet(a \o b) = ToSet(a) \cup ToSet(b)
         /\ IsInjective(a) /\ IsInjective(b) /\ ToSet(a) \cap ToSet(b) = {} => IsInjective(a \o b)
<1>1. a \o b \in Seq(S) /\ Len(a \o b) = Len(a) + Len(b)
  OBVIOUS
<1>2. \A i \in 1 .. Len(a) : (a \o b)[i] = a[i]
  OBVIOUS
<1>3. \A i \in 1 .. Len(b) : (a \o b)[i + Len(a)] = b[i]
  OBVIOUS
<1>4. \A i \in 1 .. Len(a) + Len(b) :
        \/ i \in 1 .. Len(a) /\ (a \o b)[i] = a[i]
        \/ i - Len(a) \in 1 .. Len(b) /\ (a \o b)[i] = b[i - Len(a)]
  BY <1>2, <1>3
<1>5. DOMAIN a = 1 .. Len(a) /\ DOMAIN b = 1 .. Len(b) /\ DOMAIN (a \o b) = 1 .. Len(a) + Len(b)
      /\ Len(a) \in Nat /\ Len(b) \in Nat
  BY <1>1
<1>6. ToSet(a \o b) = ToSet(a) \cup ToSet(b)
  <2>1. ASSUME NEW m \in ToSet(a \o b) PROVE m \in ToSet(a) \cup ToSet(b)
    BY <2>1, <1>4, <1>5 DEF ToSet
  <2>2. ASSUME NEW m \in ToSet(a) PROVE m \in ToSet(a \o b)
    BY <2>2, <1>2, <1>5 DEF ToSet
  <2>3. ASSUME NEW m \in ToSet(b) PROVE m \in ToSet(a \o b)
    <3>1. PICK i \in 1 .. Len(b) : m = b[i]
      BY <2>3, <1>5 DEF ToSet
    <3>2. i + Len(a) \in 1 .. Len(a) + Len(b)
      BY <1>5
    <3> QED BY <3>1, <3>2, <1>3, <1>5 DEF ToSet
  <2> QED BY <2>1, <2>2, <2>3
<1>7. ASSUME IsInjective(a), IsInjective(b), ToSet(a) \cap ToSet(b) = {}
      PROVE  IsInjective(a \o b)
  <2> SUFFICES ASSUME NEW i \in 1 .. Len(a) + Len(b), NEW j \in 1 .. Len(a) + Len(b), (a \o b)[i] = (a \o b)[j]
               PROVE  i = j
    BY <1>5 DEF IsInjective
  <2>1. \A k \in 1 .. Len(a), l \in 1 .. Len(b) : a[k] # b[l]
    BY <1>7, <1>5 DEF ToSet
  <2>2. \A k, l \in 1 .. Len(a) : a[k] = a[l] => k = l
    BY <1>7, <1>5 DEF IsInjective
  <2>3. \A k, l \in 1 .. Len(b) : b[k] = b[l] => k = l
    BY <1>7, <1>5 DEF IsInjective
  <2> QED BY <2>1, <2>2, <2>3, <1>4, <1>5
<1> QED BY <1>1, <1>6, <1>7

\* A reversed list has the same elements.
LEMMA ReversedList ==
  ASSUME NEW S, NEW s \in Seq(S)
  PROVE  /\ Reverse(s) \in Seq(S) /\ Len(Reverse(s)) = Len(s) /\ ToSet(Reverse(s)) = ToSet(s)
         /\ IsInjective(s) => IsInjective(Reverse(s))
<1> DEFINE n == Len(s)
<1>1. n \in Nat /\ DOMAIN s = 1 .. n
  OBVIOUS
<1>2. Reverse(s) = [i \in 1 .. n |-> s[(n - i) + 1]]
  BY DEF Reverse
<1>3. \A i \in 1 .. n : (n - i) + 1 \in 1 .. n
  BY <1>1
<1>4. Reverse(s) \in Seq(S) /\ Len(Reverse(s)) = n
  BY <1>1, <1>2, <1>3
<1>5. ToSet(Reverse(s)) = ToSet(s)
  <2>1. ASSUME NEW m \in ToSet(Reverse(s)) PROVE m \in ToSet(s)
    BY <2>1, <1>1, <1>2, <1>3 DEF ToSet
  <2>2. ASSUME NEW m \in ToSet(s) PROVE m \in ToSet(Reverse(s))
    <3>1. PICK i \in 1 .. n : m = s[i]
      BY <2>2, <1>1 DEF ToSet
    <3>2. (n - i) + 1 \in 1 .. n /\ (n - ((n - i) + 1)) + 1 = i
      BY <1>1
    <3>3. Reverse(s)[(n - i) + 1] = m
      BY <1>2, <3>1, <3>2
    <3> QED BY <1>2, <3>2, <3>3 DEF ToSet
  <2> QED BY <2>1, <2>2
<1>6. ASSUME IsInjective(s) PROVE IsInjective(Reverse(s))
  <2> SUFFICES ASSUME NEW i \in 1 .. n, NEW j \in 1 .. n, Reverse(s)[i] = Reverse(s)[j]
               PROVE  i = j
    BY <1>2 DEF IsInjective
  <2>1. s[(n - i) + 1] = s[(n - j) + 1]
    BY <1>2
  <2>2. (n - i) + 1 = (n - j) + 1
    BY <2>1, <1>1, <1>3, <1>6 DEF IsInjective
  <2> QED BY <2>2, <1>1
<1> QED BY <1>4, <1>5, <1>6

\* A list cut in two.
LEMMA CutList ==
  ASSUME NEW S, NEW s \in Seq(S), NEW k \in 0 .. Len(s)
  PROVE  LET a == SubSeq(s, 1, k)
             b == SubSeq(s, k + 1, Len(s))
         IN  /\ a \in Seq(S) /\ b \in Seq(S) /\ Len(a) = k
             /\ ToSet(a) \cup ToSet(b) = ToSet(s)
             /\ IsInjective(s) => IsInjective(a) /\ IsInjective(b) /\ ToSet(a) \cap ToSet(b) = {}
<1> DEFINE n == Len(s)
           a == SubSeq(s, 1, k)
           b == SubSeq(s, k + 1, n)
<1>1. n \in Nat /\ DOMAIN s = 1 .. n /\ k \in Nat /\ k <= n
  OBVIOUS
<1>2. a \in Seq(S) /\ Len(a) = k /\ \A i \in 1 .. k : a[i] = s[i]
  BY <1>1
<1>3. b \in Seq(S) /\ Len(b) = n - k /\ \A i \in 1 .. n - k : b[i] = s[k + i]
  <2> HIDE DEF n
  <2>1. k + 1 \in Int /\ n \in Int /\ \A j \in k + 1 .. n : s[j] \in S
    BY <1>1
  <2>2. /\ b \in Seq(S) /\ Len(b) = IF k + 1 <= n THEN n - (k + 1) + 1 ELSE 0
        /\ \A i \in 1 .. n - (k + 1) + 1 : b[i] = s[(k + 1) + i - 1]
    BY <2>1, SubSeqProperties
  <2> HIDE DEF b
  <2>3. Len(b) = n - k
    BY <1>1, <2>2
  <2>4. ASSUME NEW i \in 1 .. n - k PROVE b[i] = s[k + i]
    <3>1. i \in 1 .. n - (k + 1) + 1 /\ (k + 1) + i - 1 = k + i
      BY <1>1
    <3> QED BY <2>2, <3>1
  <2> QED BY <2>2, <2>3, <2>4
<1>4. DOMAIN a = 1 .. k /\ DOMAIN b = 1 .. n - k
  BY <1>2, <1>3
<1> HIDE DEF a, b, n
<1>5. ToSet(a) \cup ToSet(b) = ToSet(s)
  <2>1. ASSUME NEW m \in ToSet(a) PROVE m \in ToSet(s)
    BY <2>1, <1>1, <1>2, <1>4 DEF ToSet
  <2>2. ASSUME NEW m \in ToSet(b) PROVE m \in ToSet(s)
    <3>1. PICK i \in 1 .. n - k : m = b[i]
      BY <2>2, <1>4 DEF ToSet
    <3>2. k + i \in 1 .. n /\ m = s[k + i]
      BY <1>1, <1>3, <3>1
    <3> QED BY <3>2, <1>1 DEF ToSet
  <2>3. ASSUME NEW m \in ToSet(s) PROVE m \in ToSet(a) \cup ToSet(b)
    <3>1. PICK i \in 1 .. n : m = s[i]
      BY <2>3, <1>1 DEF ToSet
    <3>2. CASE i <= k
      BY <3>1, <3>2, <1>1, <1>2, <1>4 DEF ToSet
    <3>3. CASE i > k
      <4>1. i - k \in 1 .. n - k /\ k + (i - k) = i
        BY <3>3, <1>1
      <4>2. b[i - k] = m
        BY <4>1, <3>1, <1>3
      <4> QED BY <4>1, <4>2, <1>4 DEF ToSet
    <3> QED BY <3>2, <3>3, <1>1
  <2> QED BY <2>1, <2>2, <2>3
<1>6. ASSUME IsInjective(s)
      PROVE  IsInjective(a) /\ IsInjective(b) /\ ToSet(a) \cap ToSet(b) = {}
  <2>1. \A i, j \in 1 .. n : s[i] = s[j] => i = j
    BY <1>6, <1>1 DEF IsInjective
  <2>2. IsInjective(a)
    BY <2>1, <1>1, <1>2, <1>4 DEF IsInjective
  <2>3. IsInjective(b)
    <3> SUFFICES ASSUME NEW i \in 1 .. n - k, NEW j \in 1 .. n - k, b[i] = b[j]
                 PROVE  i = j
      BY <1>4 DEF IsInjective
    <3>1. k + i \in 1 .. n /\ k + j \in 1 .. n /\ s[k + i] = s[k + j]
      BY <1>1, <1>3
    <3>2. k + i = k + j
      BY <3>1, <2>1
    <3> QED BY <3>2, <1>1
  <2>4. ASSUME NEW m \in ToSet(a), m \in ToSet(b) PROVE FALSE
    <3>1. PICK i \in 1 .. k : m = s[i]
      BY <2>4, <1>2, <1>4 DEF ToSet
    <3>2. PICK j \in 1 .. n - k : m = s[k + j]
      BY <2>4, <1>3, <1>4 DEF ToSet
    <3>3. i \in 1 .. n /\ k + j \in 1 .. n /\ i # k + j
      BY <1>1
    <3> QED BY <3>1, <3>2, <3>3, <2>1
  <2> QED BY <2>2, <2>3, <2>4
<1> QED BY <1>2, <1>3, <1>5, <1>6 DEF a, b, n


\* The head of a list, and the rest.
LEMMA HeadAndTail ==
  ASSUME NEW S, NEW s \in Seq(S), s # << >>
  PROVE  /\ s[1] \in ToSet(s) /\ s[1] \in S /\ Tail(s) \in Seq(S) /\ Len(s) >= 1
         /\ ToSet(s) = ToSet(Tail(s)) \cup {s[1]}
         /\ IsInjective(s) => IsInjective(Tail(s)) /\ s[1] \notin ToSet(Tail(s))
<1>1. Len(s) \in Nat /\ Len(s) >= 1 /\ DOMAIN s = 1 .. Len(s) /\ s[1] \in S
  BY EmptySeq
<1>2. Tail(s) \in Seq(S) /\ Tail(s) = SubSeq(s, 2, Len(s))
  BY HeadTailProperties, TailIsSubSeq
<1>3. 1 \in 0 .. Len(s) /\ 1 + 1 = 2
  BY <1>1
<1>4. LET a == SubSeq(s, 1, 1)
          b == SubSeq(s, 2, Len(s))
      IN  /\ a \in Seq(S) /\ Len(a) = 1
          /\ ToSet(a) \cup ToSet(b) = ToSet(s)
          /\ IsInjective(s) => IsInjective(b) /\ ToSet(a) \cap ToSet(b) = {}
  BY <1>3, CutList
<1>5. SubSeq(s, 1, 1)[1] = s[1]
  BY <1>1
<1>6. ToSet(SubSeq(s, 1, 1)) = {s[1]} /\ s[1] \in ToSet(s)
  BY <1>1, <1>4, <1>5 DEF ToSet
<1> QED BY <1>1, <1>2, <1>4, <1>6

\* A list that got one more element.
LEMMA AppendedList ==
  ASSUME NEW S, NEW s \in Seq(S), NEW m \in S
  PROVE  /\ Append(s, m) \in Seq(S) /\ ToSet(Append(s, m)) = ToSet(s) \cup {m}
         /\ IsInjective(s) /\ m \notin ToSet(s) => IsInjective(Append(s, m))
<1>1. <<m>> \in Seq(S) /\ Append(s, m) = s \o <<m>>
  OBVIOUS
<1>2. ToSet(<<m>>) = {m} /\ IsInjective(<<m>>)
  BY DEF ToSet, IsInjective
<1>3. m \notin ToSet(s) => ToSet(s) \cap ToSet(<<m>>) = {}
  BY <1>2
<1>4. /\ s \o <<m>> \in Seq(S) /\ ToSet(s \o <<m>>) = ToSet(s) \cup ToSet(<<m>>)
      /\ IsInjective(s) /\ IsInjective(<<m>>) /\ ToSet(s) \cap ToSet(<<m>>) = {} => IsInjective(s \o <<m>>)
  BY <1>1, JoinedLists
<1> QED BY <1>1, <1>2, <1>3, <1>4

\* The empty list.
LEMMA EmptyList ==
  /\ \A S : << >> \in Seq(S)
  /\ ToSet(<< >>) = {} /\ IsInjective(<< >>)
BY DEF ToSet, IsInjective


\* Induction, for a set of naturals: it has what follows each of its elements.
LEMMA AllNaturals ==
  ASSUME NEW G, 0 \in G, \A k \in Nat : k \in G => k + 1 \in G
  PROVE  Nat \subseteq G
<1> SUFFICES ASSUME Nat \ G # {} PROVE FALSE
  OBVIOUS
<1>1. PICK x \in Nat \ G : \A y \in Nat \ G : x <= y
  BY LeastNatural
<1>2. x # 0 /\ x - 1 \in Nat
  BY <1>1
<1>3. x - 1 \in G
  BY <1>1, <1>2
<1>4. (x - 1) + 1 = x
  BY <1>1
<1> QED BY <1>2, <1>3, <1>4

\* What leaves the quarantine is pushed onto the list of its class, once.
LEMMA PoppedChunks ==
  ASSUME NEW S, NEW popped \in Seq(S), NEW cls
  PROVE  LET r == QuarantinePop(popped, cls) IN
         /\ r \in Seq(S) /\ ToSet(r) = {m \in ToSet(popped) : header[m].cls = cls}
         /\ IsInjective(popped) => IsInjective(r)
<1> DEFINE n == Len(popped)
           Of(i) == header[popped[i]].cls = cls
           Push(i, v) == IF Of(i) THEN <<popped[i]>> \o v ELSE v
           Fits(f, k) == f = [i \in 0 .. k |-> IF i = 0 THEN << >> ELSE Push(i, f[i - 1])]
<1>1. n \in Nat /\ DOMAIN popped = 1 .. n /\ \A i \in 1 .. n : popped[i] \in S
  OBVIOUS
<1>2. \E f : Fits(f, n)
  <2> DEFINE G == {k \in Nat : \E f : Fits(f, k)}
  <2> HIDE DEF Push
  <2>1. 0 \in G
    <3>1. Fits([i \in 0 .. 0 |-> << >>], 0)
      OBVIOUS
    <3> QED BY <3>1
  <2>2. ASSUME NEW k \in Nat, k \in G PROVE k + 1 \in G
    <3>1. PICK f : Fits(f, k)
      BY <2>2
    <3> DEFINE g == [i \in 0 .. k + 1 |-> IF i = k + 1 THEN Push(k + 1, f[k]) ELSE f[i]]
    <3>2. ASSUME NEW i \in 0 .. k + 1
          PROVE  g[i] = IF i = 0 THEN << >> ELSE Push(i, g[i - 1])
      <4>1. CASE i = k + 1
        <5>1. i # 0 /\ i - 1 = k /\ k # k + 1 /\ k \in 0 .. k + 1
          BY <4>1
        <5>2. g[i - 1] = f[k] /\ g[i] = Push(k + 1, f[k])
          BY <4>1, <5>1
        <5> QED BY <4>1, <5>1, <5>2
      <4>2. CASE i # k + 1
        <5>1. i \in 0 .. k
          BY <4>2
        <5>2. g[i] = f[i] /\ (i # 0 => i - 1 \in 0 .. k + 1 /\ i - 1 # k + 1 /\ g[i - 1] = f[i - 1])
          BY <5>1, <4>2
        <5>3. f[i] = IF i = 0 THEN << >> ELSE Push(i, f[i - 1])
          BY <3>1, <5>1
        <5> QED BY <5>2, <5>3
      <4> QED BY <4>1, <4>2
    <3>3. Fits(g, k + 1)
      BY <3>2
    <3> HIDE DEF g, Fits
    <3> QED BY <3>3
  <2> HIDE DEF G
  <2>3. Nat \subseteq G
    BY <2>1, <2>2, AllNaturals
  <2> QED BY <1>1, <2>3 DEF G
<1> DEFINE pushed == CHOOSE f : Fits(f, n)
<1>3. QuarantinePop(popped, cls) = pushed[n]
  BY DEF QuarantinePop
<1>4. Fits(pushed, n)
  <2> HIDE DEF Fits
  <2> QED BY <1>2
<1> HIDE DEF pushed
<1>5. pushed[0] = << >> /\ \A i \in 1 .. n : pushed[i] = Push(i, pushed[i - 1])
  <2> HIDE DEF Push
  <2>1. \A i \in 0 .. n : pushed[i] = IF i = 0 THEN << >> ELSE Push(i, pushed[i - 1])
    BY <1>4
  <2> QED BY <2>1, <1>1
<1> DEFINE Chosen(k) == {popped[j] : j \in {l \in 1 .. k : Of(l)}}
           Good(k) == /\ pushed[k] \in Seq(S) /\ ToSet(pushed[k]) = Chosen(k)
                      /\ IsInjective(popped) => IsInjective(pushed[k])
           G == {k \in Nat : k <= n => Good(k)}
<1>6. 0 \in G
  <2>1. Chosen(0) = {}
    OBVIOUS
  <2> HIDE DEF Chosen
  <2> QED BY <2>1, <1>5, EmptyList
<1>7. ASSUME NEW k \in Nat, k \in G PROVE k + 1 \in G
  <2> SUFFICES ASSUME k + 1 <= n PROVE Good(k + 1)
    OBVIOUS
  <2>1. k + 1 \in 1 .. n /\ k + 1 \notin 1 .. k /\ popped[k + 1] \in S
    BY <1>1
  <2>2. Good(k)
    BY <1>1, <1>7
  <2>3. pushed[k + 1] = IF Of(k + 1) THEN <<popped[k + 1]>> \o pushed[k] ELSE pushed[k]
    <3>1. (k + 1) - 1 = k
      OBVIOUS
    <3> QED BY <1>5, <2>1, <3>1
  <2>4. CASE Of(k + 1)
    <3>1. Chosen(k + 1) = {popped[k + 1]} \cup Chosen(k)
      <4>1. \A l : l \in 1 .. k + 1 <=> l \in 1 .. k \/ l = k + 1
        OBVIOUS
      <4> QED BY <4>1, <2>4
    <3>2. <<popped[k + 1]>> \in Seq(S) /\ ToSet(<<popped[k + 1]>>) = {popped[k + 1]}
          /\ IsInjective(<<popped[k + 1]>>)
      BY <2>1 DEF ToSet, IsInjective
    <3>3. IsInjective(popped) => popped[k + 1] \notin Chosen(k)
      <4>1. \A j \in 1 .. k : j \in 1 .. n /\ j # k + 1
        BY <2>1, <1>1
      <4> QED BY <4>1, <2>1, <1>1 DEF IsInjective
    <3> HIDE DEF Chosen
    <3>4. /\ <<popped[k + 1]>> \o pushed[k] \in Seq(S)
          /\ ToSet(<<popped[k + 1]>> \o pushed[k]) = {popped[k + 1]} \cup Chosen(k)
          /\ IsInjective(popped) => IsInjective(<<popped[k + 1]>> \o pushed[k])
      <4>1. IsInjective(popped) => ToSet(<<popped[k + 1]>>) \cap ToSet(pushed[k]) = {}
        BY <2>2, <3>2, <3>3
      <4>2. /\ <<popped[k + 1]>> \o pushed[k] \in Seq(S)
            /\ ToSet(<<popped[k + 1]>> \o pushed[k]) = ToSet(<<popped[k + 1]>>) \cup ToSet(pushed[k])
            /\ /\ IsInjective(<<popped[k + 1]>>) /\ IsInjective(pushed[k])
               /\ ToSet(<<popped[k + 1]>>) \cap ToSet(pushed[k]) = {}
               => IsInjective(<<popped[k + 1]>> \o pushed[k])
        <5>1. pushed[k] \in Seq(S) /\ <<popped[k + 1]>> \in Seq(S)
          BY <2>2, <3>2
        <5> QED BY <5>1, JoinedLists, Zenon
      <4> QED BY <2>2, <3>2, <4>1, <4>2
    <3> QED BY <2>3, <2>4, <3>1, <3>4
  <2>5. CASE ~Of(k + 1)
    <3>1. Chosen(k + 1) = Chosen(k)
      <4>1. \A l : l \in 1 .. k + 1 <=> l \in 1 .. k \/ l = k + 1
        OBVIOUS
      <4> QED BY <4>1, <2>5
    <3> HIDE DEF Chosen
    <3> QED BY <2>2, <2>3, <2>5, <3>1
  <2> QED BY <2>4, <2>5
<1>8. Good(n)
  <2> HIDE DEF Good
  <2>1. Nat \subseteq G
    <3> HIDE DEF G
    <3> QED BY <1>6, <1>7, AllNaturals
  <2> QED BY <2>1, <1>1
<1>9. Chosen(n) = {m \in ToSet(popped) : header[m].cls = cls}
  BY <1>1 DEF ToSet
<1> QED BY <1>3, <1>8, <1>9


\* The quarantine gives up some of its oldest chunks.
LEMMA PopCountInList ==
  ASSUME NEW S, NEW q \in Seq(S)
  PROVE  PopCount(q) \in 0 .. Len(q)
<1> DEFINE T == {k \in 0 .. Len(q) :
                   k = Len(q) \/ FifoSize(SubSeq(q, k + 1, Len(q))) <= QuarantineSize}
<1>1. Len(q) \in T /\ T \subseteq 0 .. Len(q) /\ T \in SUBSET Nat
  OBVIOUS
<1>2. PopCount(q) = Min(T)
  BY DEF PopCount
<1> HIDE DEF T
<1> QED BY <1>1, <1>2, MinIsLeast

-----------------------------------------------------------------------------
(* Sizes and page groups.                                                  *)

LEMMA ClassesArePositive == \A cls \in Classes : cls \in Nat /\ cls > 0
BY DEF Classes, PowersOfTwo

LEMMA SizesAreNaturals ==
  /\ Redzone \in Nat /\ Redzone > 0 /\ Granularity \in Nat /\ Granularity > 0
  /\ Sizes \subseteq Nat /\ Alignments \cup {0} \subseteq Nat
BY AllocatorAssumption DEF PowersOfTwo

\* What a request needs holds the block, a redzone and the alignment.
LEMMA NeededSizeFits ==
  ASSUME NEW size \in Nat \ {0}, NEW alignment \in Nat
  PROVE  /\ NeededSize(size, alignment) \in Nat /\ NeededSize(size, alignment) >= 2 * Redzone
         /\ NeededSize(size, alignment) >=
              RoundUpTo(size, Redzone) + Redzone + (IF alignment > Redzone THEN alignment ELSE 0)
         /\ RoundUpTo(size, Redzone) \in Nat /\ RoundUpTo(size, Redzone) >= Redzone
         /\ RoundUpTo(size, Redzone) >= size
<1>1. RoundUpTo(size, Redzone) \in Nat /\ RoundUpTo(size, Redzone) >= size
      /\ RoundUpTo(size, Redzone) % Redzone = 0
  BY RoundUpBounds, SizesAreNaturals
<1> DEFINE x == RoundUpTo(size, Redzone)
<1>2. x >= Redzone
  <2>1. x \in Nat /\ Redzone \in Nat \ {0} /\ x > 0 /\ x % Redzone = 0
    BY <1>1, SizesAreNaturals
  <2> HIDE DEF x
  <2>2. SUFFICES ASSUME x < Redzone PROVE FALSE
    BY <2>1
  <2>3. x % Redzone = x
    BY <2>1, <2>2
  <2> QED BY <2>1, <2>3
<1> HIDE DEF x
<1>3. NeededSize(size, alignment) = x + Redzone + (IF alignment > Redzone THEN alignment ELSE 0)
  BY DEF NeededSize, x
<1>4. x \in Nat /\ x >= size
  BY <1>1 DEF x
<1> QED BY <1>2, <1>3, <1>4, SizesAreNaturals DEF x

\* The chunk of an allowed request is large enough.
LEMMA SizeClassFits ==
  ASSUME NEW size \in Nat \ {0}, NEW alignment \in Alignments \cup {0},
         \E s \in Sizes : size = Max({s, 1}),
         NeededSize(size, alignment) <= MaxAllowed
  PROVE  LET cls == SizeToSizeClass(NeededSize(size, alignment))
         IN  cls \in Classes /\ NeededSize(size, alignment) <= cls
<1> DEFINE needed == NeededSize(size, alignment)
           T == {y \in PowersOfTwo : y >= needed}
<1>1. alignment \in Nat /\ needed \in Nat /\ needed >= 2 * Redzone
  BY NeededSizeFits, SizesAreNaturals
<1>2. PICK cls \in PowersOfTwo : needed <= cls /\ cls <= MaxAllowed
  BY AllocatorAssumption DEF SizesHaveClasses
<1>3. SizeToSizeClass(needed) = Min(T)
  BY DEF SizeToSizeClass, RoundUpToPowerOfTwo
<1> HIDE DEF needed
<1>4. PowersOfTwo \subseteq Nat
  BY DEF PowersOfTwo
<1>5. cls \in T /\ T \in SUBSET Nat
  BY <1>1, <1>2, <1>4
<1>6. Min(T) \in T /\ Min(T) <= cls
  BY <1>5, MinIsLeast
<1>7. Min(T) \in Nat /\ Min(T) \in PowersOfTwo /\ needed <= Min(T) /\ Min(T) <= MaxAllowed
  <2>1. MaxAllowed \in Nat /\ cls \in Nat
    BY <1>2, <1>4, AllocatorAssumption
  <2>2. Min(T) \in PowersOfTwo /\ Min(T) >= needed /\ Min(T) \in Nat
    BY <1>4, <1>6
  <2> HIDE DEF T
  <2> QED BY <2>1, <2>2, <1>1, <1>2, <1>6
<1>8. Min(T) \in Classes
  BY <1>1, <1>7, SizesAreNaturals DEF Classes
<1> QED BY <1>3, <1>7, <1>8 DEF needed

\* A page group has room for its chunks, has one, and has as many as a refill of
\* a thread's list asks for.
LEMMA GroupHoldsChunks ==
  ASSUME NEW cls \in Classes
  PROVE  /\ ChunkCount(cls) \in Nat \ {0} /\ GroupSize(cls) \in Nat
         /\ ChunkCount(cls) * cls <= GroupSize(cls)
         /\ cls < LocalMax => LocalMax \div cls \in 1 .. ChunkCount(cls)
<1> DEFINE x == Max({cls, MinMmap})
           q == x \div cls
<1>1. cls \in Nat \ {0} /\ MinMmap \in Nat /\ PageSize \in Nat \ {0} /\ LocalMax \in Nat
      /\ 2 * PageSize <= MinMmap /\ 2 * LocalMax <= MinMmap
  BY ClassesArePositive, AllocatorAssumption
<1>2. x \in Nat /\ x >= cls /\ x >= MinMmap
  BY <1>1, MaxOfTwo
<1> HIDE DEF x
<1>3. q \in Nat /\ x % cls \in 0 .. cls - 1 /\ x = cls * q + (x % cls)
  BY <1>1, <1>2, Division, Zenon
<1>4. ChunkCount(cls) = q - IF cls < PageSize THEN 1 ELSE 0
  BY DEF ChunkCount, x
<1>5. GroupSize(cls) = x + IF cls < PageSize THEN 0 ELSE PageSize
  BY DEF GroupSize, x
<1> HIDE DEF q
<1>6. q >= 1
  BY <1>1, <1>2, <1>3
<1>7. cls < PageSize => q >= 2
  <2> SUFFICES ASSUME cls < PageSize, q <= 1 PROVE FALSE
    BY <1>3
  <2>1. q = 1 BY <1>6, <1>3
  <2>2. x = cls + (x % cls) BY <2>1, <1>3, <1>1
  <2> QED BY <2>2, <1>1, <1>2, <1>3
<1>8. ChunkCount(cls) \in Nat \ {0} /\ ChunkCount(cls) <= q
  BY <1>3, <1>4, <1>6, <1>7
<1>9. ChunkCount(cls) * cls <= x
  <2> DEFINE c == ChunkCount(cls)
  <2>1. c \in Nat /\ c <= q BY <1>8
  <2> HIDE DEF c
  <2>2. cls * c <= cls * q
    BY <2>1, <1>1, <1>3
  <2>3. c * cls <= x
    BY <2>1, <2>2, <1>1, <1>2, <1>3
  <2> QED BY <2>3 DEF c
<1>10. ASSUME cls < LocalMax PROVE LocalMax \div cls \in 1 .. ChunkCount(cls)
  <2> DEFINE l == LocalMax \div cls
  <2>1. l \in Nat /\ LocalMax % cls \in 0 .. cls - 1 /\ LocalMax = cls * l + (LocalMax % cls)
    BY <1>1, Division, Zenon
  <2> HIDE DEF l
  <2>2. l >= 1
    BY <1>1, <1>10, <2>1
  <2>3. cls * (2 * l) <= x
    BY <1>1, <1>2, <2>1
  <2>4. 2 * l <= q
    <3> SUFFICES ASSUME q + 1 <= 2 * l PROVE FALSE
      BY <1>3, <2>1
    <3>1. cls * (q + 1) <= cls * (2 * l)
      BY <1>1, <1>3, <2>1
    <3>2. cls * (q + 1) = cls * q + cls
      BY <1>1, <1>3
    <3> DEFINE a == cls * q
               b == cls * (2 * l)
               r == x % cls
    <3>3. a \in Nat /\ b \in Nat /\ r \in 0 .. cls - 1 /\ x = a + r /\ a + cls <= b /\ b <= x
      BY <3>1, <3>2, <2>1, <2>3, <1>1, <1>3
    <3> HIDE DEF a, b, r
    <3> QED BY <3>3, <1>1
  <2>5. l <= q - 1
    BY <2>1, <2>2, <2>4, <1>3
  <2> QED BY <1>3, <1>4, <2>1, <2>2, <2>5 DEF l
<1> QED BY <1>1, <1>2, <1>5, <1>8, <1>9, <1>10


\* The chunks of a new group lie in it, side by side.
LEMMA NewChunksAreApart ==
  ASSUME NEW base \in Nat, NEW cls \in Classes
  PROVE  LET new == NewChunks(base, cls) IN
         /\ new \in Seq(Nat) /\ Len(new) = ChunkCount(cls) /\ IsInjective(new)
         /\ \A m \in ToSet(new) : base <= m /\ m + cls <= base + GroupSize(cls)
         /\ \A m, n \in ToSet(new) : m < n => m + cls <= n
<1> DEFINE k == ChunkCount(cls)
           new == NewChunks(base, cls)
<1>1. cls \in Nat \ {0} /\ k \in Nat \ {0} /\ k * cls <= GroupSize(cls) /\ GroupSize(cls) \in Nat
  BY ClassesArePositive, GroupHoldsChunks
<1>2. new = [i \in 1 .. k |-> base + (k - i) * cls]
  BY DEF NewChunks
<1> HIDE DEF k, new
<1>3. \A i \in 1 .. k : (k - i) * cls \in Nat /\ (k - i) * cls + cls <= k * cls
  <2> TAKE i \in 1 .. k
  <2>1. k - i \in Nat /\ (k - i) + 1 <= k
    BY <1>1
  <2>2. (k - i) * cls + cls = ((k - i) + 1) * cls
    BY <2>1, <1>1
  <2>3. ((k - i) + 1) * cls <= k * cls
    BY <2>1, <1>1
  <2> QED BY <2>1, <2>2, <2>3, <1>1
<1>4. \A i, j \in 1 .. k : i < j => (k - j) * cls + cls <= (k - i) * cls
  <2> SUFFICES ASSUME NEW i \in 1 .. k, NEW j \in 1 .. k, i < j
               PROVE  (k - j) * cls + cls <= (k - i) * cls
    OBVIOUS
  <2>1. k - j \in Nat /\ k - i \in Nat /\ (k - j) + 1 <= k - i
    BY <1>1
  <2>2. (k - j) * cls + cls = ((k - j) + 1) * cls
    BY <2>1, <1>1
  <2>3. ((k - j) + 1) * cls <= (k - i) * cls
    BY <2>1, <1>1
  <2> QED BY <2>2, <2>3
<1> DEFINE at(i) == (k - i) * cls
<1>5. \A i \in 1 .. k : at(i) \in Nat /\ at(i) + cls <= k * cls /\ new[i] = base + at(i)
  BY <1>2, <1>3
<1>6. \A i, j \in 1 .. k : i < j => at(j) + cls <= at(i)
  BY <1>4
<1>7. DOMAIN new = 1 .. k
  BY <1>2
<1> HIDE DEF at
<1>8. \A i, j \in 1 .. k : i # j => at(i) # at(j)
  BY <1>1, <1>5, <1>6
<1>9. new \in Seq(Nat) /\ Len(new) = k
  <2>1. new \in [1 .. k -> Nat]
    BY <1>2, <1>3
  <2> QED BY <2>1, <1>1
<1>10. IsInjective(new)
  BY <1>5, <1>7, <1>8 DEF IsInjective
<1>11. \A m \in ToSet(new) : \E i \in 1 .. k : m = base + at(i)
  BY <1>5, <1>7 DEF ToSet
<1>12. ASSUME NEW m \in ToSet(new) PROVE base <= m /\ m + cls <= base + GroupSize(cls)
  BY <1>1, <1>5, <1>11
<1>13. ASSUME NEW m \in ToSet(new), NEW n \in ToSet(new), m < n PROVE m + cls <= n
  <2>1. PICK i \in 1 .. k : m = base + at(i)
    BY <1>11
  <2>2. PICK j \in 1 .. k : n = base + at(j)
    BY <1>11
  <2>3. j < i
    BY <1>1, <1>5, <1>6, <1>13, <2>1, <2>2
  <2> QED BY <1>1, <1>5, <1>6, <2>1, <2>2, <2>3
<1> QED BY <1>9, <1>10, <1>12, <1>13 DEF k, new


-----------------------------------------------------------------------------
(* Chunks and pointers.                                                    *)

\* The header of a chunk is no mark, and a place inside a chunk is in no other.
LEMMA ChunksShareNothing ==
  ASSUME HeapTyped, ChunksAreApart, MarksLeadBack
  PROVE  /\ \A m \in DOMAIN header : m \notin DOMAIN marks
         /\ \A m, n \in DOMAIN header, x \in Nat :
              m < x /\ x < m + header[m].cls /\ n <= x /\ x < n + header[n].cls => m = n
<1>1. \A m \in DOMAIN header : m \in Nat /\ header[m].cls \in Nat
  BY ClassesArePositive DEF HeapTyped, ChunkBase
<1>2. ASSUME NEW m \in DOMAIN header, NEW n \in DOMAIN header, NEW x \in Nat,
             m <= x, x < m + header[m].cls, n <= x, x < n + header[n].cls
      PROVE  m = n
  <2>1. m < n => m + header[m].cls <= n BY DEF ChunksAreApart
  <2>2. n < m => n + header[n].cls <= m BY DEF ChunksAreApart
  <2> QED BY <1>1, <1>2, <2>1, <2>2
<1>3. ASSUME NEW m \in DOMAIN header, m \in DOMAIN marks PROVE FALSE
  <2> DEFINE n == m - marks[m]
  <2>1. n \in DOMAIN header /\ n < m /\ m < n + header[n].cls
    BY <1>3 DEF MarksLeadBack
  <2> HIDE DEF n
  <2>2. n + header[n].cls <= m
    BY <2>1 DEF ChunksAreApart
  <2> QED BY <1>1, <2>1, <2>2
<1>4. ASSUME NEW m \in DOMAIN header, NEW n \in DOMAIN header, NEW x \in Nat,
             m < x, x < m + header[m].cls, n <= x, x < n + header[n].cls
      PROVE  m = n
  BY <1>1, <1>2, <1>4
<1> QED BY <1>3, <1>4

\* A new mark inside chunk m changes the chunk of no pointer that has one.
LEMMA MarkKeepsPointers ==
  ASSUME HeapTyped, ChunksAreApart, MarksLeadBack,
         NEW m \in DOMAIN header, NEW x \in Nat, m < x, x < m + header[m].cls,
         marks' = Over([y \in {x} |-> y - m], marks), DOMAIN header' = DOMAIN header,
         \A n \in DOMAIN header : header'[n].cls = header[n].cls
  PROVE  /\ marks' \in [DOMAIN marks' -> Nat] /\ DOMAIN marks' \subseteq Nat
         /\ MarksLeadBack'
         /\ \A p \in Nat : PtrToChunk(p) \in DOMAIN header => PtrToChunk(p)' = PtrToChunk(p)
         /\ PtrToChunk(x + Redzone)' = m
<1>0. Redzone \in Nat /\ (x + Redzone) - Redzone = x /\ x - (x - m) = m
      /\ \A n \in DOMAIN header : n \in Nat /\ header[n].cls \in Nat
  <2>1. \A n \in DOMAIN header : n \in Nat /\ header[n].cls \in Nat
    BY ClassesArePositive DEF HeapTyped, ChunkBase
  <2>2. Redzone \in Nat /\ m \in Nat /\ x \in Nat
    BY <2>1, SizesAreNaturals
  <2> QED BY <2>1, <2>2
<1>1. marks' = [y \in {x} \cup DOMAIN marks |-> IF y = x THEN x - m ELSE marks[y]]
  BY DEF Over
<1>2. x - m \in Nat
  BY <1>0
<1>3. marks' \in [DOMAIN marks' -> Nat] /\ DOMAIN marks' \subseteq Nat
  BY <1>1, <1>2 DEF HeapTyped
<1>4. MarksLeadBack'
  BY <1>0, <1>1 DEF MarksLeadBack
<1>5. PtrToChunk(x + Redzone)' = m
  BY <1>0, <1>1 DEF PtrToChunk
<1>6. ASSUME NEW p \in Nat, PtrToChunk(p) \in DOMAIN header
      PROVE  PtrToChunk(p)' = PtrToChunk(p)
  <2>1. CASE p - Redzone # x
    BY <1>1, <2>1 DEF PtrToChunk
  <2>2. CASE p - Redzone = x
    <3>1. PtrToChunk(p)' = m
      BY <1>0, <1>1, <2>2 DEF PtrToChunk
    <3>2. CASE x \in DOMAIN marks
      <4>1. PtrToChunk(p) = x - marks[x]
        BY <2>2, <3>2 DEF PtrToChunk
      <4>2. /\ x - marks[x] \in DOMAIN header /\ x - marks[x] \in Nat
            /\ x - marks[x] <= x /\ x < (x - marks[x]) + header[x - marks[x]].cls
        <5> DEFINE n == x - marks[x]
        <5>1. n \in DOMAIN header /\ n < x /\ x < n + header[n].cls
          BY <3>2 DEF MarksLeadBack
        <5> HIDE DEF n
        <5>2. n \in Nat /\ n <= x
          BY <5>1, <1>0
        <5> QED BY <5>1, <5>2 DEF n
      <4>3. m = x - marks[x]
        BY <1>6, <4>1, <4>2, ChunksShareNothing
      <4> QED BY <3>1, <4>1, <4>3
    <3>3. CASE x \notin DOMAIN marks
      <4>1. PtrToChunk(p) = x
        BY <2>2, <3>3 DEF PtrToChunk
      <4>2. m + header[m].cls <= x
        BY <1>6, <4>1 DEF ChunksAreApart
      <4> QED BY <1>0, <4>2
    <3> QED BY <3>2, <3>3
  <2> QED BY <2>1, <2>2
<1> QED BY <1>3, <1>4, <1>5, <1>6

-----------------------------------------------------------------------------
(* Steps.                                                                  *)

\* The lists, the open blocks and the chunks of pointers, when what they are
\* made of does not change.
LEMMA SameLists ==
  ASSUME UNCHANGED <<free_lists, quarantine, local>>
  PROVE  /\ \A x, cls : FreeOf(x, cls)' = FreeOf(x, cls) /\ Free(x, cls)' = Free(x, cls)
         /\ \A x : QuarantineOf(x)' = QuarantineOf(x) /\ Quar(x)' = Quar(x)
BY DEF FreeOf, Free, QuarantineOf, Quar

LEMMA SamePointers ==
  ASSUME UNCHANGED marks
  PROVE  \A p : PtrToChunk(p)' = PtrToChunk(p)
BY DEF PtrToChunk

LEMMA SameOpenBlocks ==
  ASSUME UNCHANGED live, \A t \in Threads : Owned(t)' = Owned(t)
  PROVE  \A p : IsOpen(p)' <=> IsOpen(p)
BY DEF IsOpen

\* Page groups may move in page_groups_.
LEMMA SameHeap ==
  ASSUME HeapInv, UNCHANGED <<header, marks, free_lists, quarantine, local,
                              attached, shadow, pc, regs, died, live, returned, lost>>,
         groups' \in Seq(PageGroups), sorted' \in 0 .. Len(groups'),
         \A i \in DOMAIN groups : \E j \in DOMAIN groups' : groups'[j] = groups[i]
  PROVE  HeapInv'
<1>1. /\ \A x, cls : FreeOf(x, cls)' = FreeOf(x, cls) /\ Free(x, cls)' = Free(x, cls)
      /\ \A x : QuarantineOf(x)' = QuarantineOf(x) /\ Quar(x)' = Quar(x)
  BY SameLists
<1>2. \A p : PtrToChunk(p)' = PtrToChunk(p)
  BY SamePointers
<1>3. \A t \in Threads : Owned(t)' = Owned(t)
  BY DEF Owned
<1>4. \A p : IsOpen(p)' <=> IsOpen(p)
  BY <1>3, SameOpenBlocks
<1>0. HeapTyped /\ ThreadsTyped /\ ListsHaveHeaders /\ (died = "no" => HeapIsSound)
  BY DEF HeapInv
<1>5. HeapTyped'
  BY <1>0 DEF HeapTyped
<1>6. ThreadsTyped'
  BY <1>0 DEF ThreadsTyped
<1>7. ListsHaveHeaders'
  BY <1>0, <1>1 DEF ListsHaveHeaders
<1>8. ASSUME HeapIsSound PROVE HeapIsSound'
  <2> USE <1>8 DEF HeapIsSound
  <2>1. ChunksAreApart'
    BY DEF ChunksAreApart
  <2>9. MarksLeadBack' /\ PointersHaveChunks'
    BY <1>2 DEF MarksLeadBack, PointersHaveChunks
  <2>2. \A m, state : HasState(m, state)' <=> HasState(m, state)
    BY DEF HasState
  <2>3. StatesAreRight'
    BY <1>1, <1>2, <1>4, <2>2 DEF StatesAreRight
  <2>4. HandsAreRight'
    BY <1>2, <1>3, <2>2 DEF HandsAreRight, HandIsRight
  <2>5. ListsAreApart'
    BY <1>1 DEF ListsAreApart
  <2>6. HandsAreApart'
    BY <1>1, <1>2, <1>4 DEF HandsAreApart
  <2>7. \A m, at : InSomeHand(m, at)' <=> InSomeHand(m, at)
    BY DEF InSomeHand
  <2>8. AllAreSomewhere'
    BY <1>1, <1>2, <1>4, <2>7 DEF AllAreSomewhere, IsSomewhere
  <2> QED BY <2>1, <2>3, <2>4, <2>5, <2>6, <2>8, <2>9
<1> QED BY <1>0, <1>5, <1>6, <1>7, <1>8 DEF HeapInv


\* Sorting the page groups loses none.
LEMMA LookUpStep ==
  ASSUME HeapInv, LookUp
  PROVE  HeapInv'
<1> USE DEF LookUp
<1>0. HeapTyped /\ ThreadsTyped /\ ListsHaveHeaders /\ HeapIsSound /\ died = "no"
  BY DEF HeapInv
<1>1. groups' = groups \/ \E p \in Bijection(DOMAIN groups, DOMAIN groups) :
                            groups' = [i \in DOMAIN groups |-> groups[p[i]]]
  BY DEF SortPageGroups
<1>2. groups \in Seq(PageGroups) /\ Len(groups) \in Nat /\ DOMAIN groups = 1 .. Len(groups)
  BY <1>0 DEF HeapTyped
<1> DEFINE Kept ==
      /\ groups' \in Seq(PageGroups) /\ Len(groups') = Len(groups) /\ DOMAIN groups' = DOMAIN groups
      /\ \A i \in DOMAIN groups : \E j \in DOMAIN groups : groups'[j] = groups[i]
<1>3. Kept
  <2>1. CASE groups' = groups
    BY <2>1, <1>2
  <2>2. ASSUME NEW p \in Bijection(DOMAIN groups, DOMAIN groups),
               groups' = [i \in DOMAIN groups |-> groups[p[i]]]
        PROVE  Kept
    <3>1. p \in [1 .. Len(groups) -> 1 .. Len(groups)]
          /\ \A i \in DOMAIN groups : \E j \in DOMAIN groups : p[j] = i
      BY <1>2 DEF Bijection, Injection, Surjection
    <3>2. groups' \in [1 .. Len(groups) -> PageGroups]
      BY <1>2, <2>2, <3>1
    <3>3. groups' \in Seq(PageGroups) /\ Len(groups') = Len(groups)
      BY <1>2, <3>2
    <3> QED BY <1>2, <2>2, <3>1, <3>3
  <2> QED BY <1>1, <2>1, <2>2
<1>4. sorted' \in 0 .. Len(groups')
  BY <1>2, <1>3
<1> QED BY <1>3, <1>4, SameHeap

\* asan_mz_force_lock and asan_mz_force_unlock touch no chunk.
LEMMA ForceSteps ==
  ASSUME HeapInv, NEW t \in Threads, ForceLock(t) \/ ForceUnlock(t)
  PROVE  HeapInv'
<1>1. UNCHANGED <<groups, sorted, header, marks, free_lists, quarantine, local,
                  attached, shadow, pc, regs, died, live, returned, lost>>
  BY DEF ForceLock, ForceUnlock
<1>2. groups \in Seq(PageGroups) /\ sorted \in 0 .. Len(groups)
  BY DEF HeapInv, HeapTyped
<1> QED BY <1>1, <1>2, SameHeap


\* The storage of a thread that exits is lost.
LEMMA ExitStep ==
  ASSUME HeapInv, NEW t \in Threads, ExitWithoutReturning(t)
  PROVE  HeapInv'
<1>0. HeapTyped /\ ThreadsTyped /\ ListsHaveHeaders /\ HeapIsSound /\ died = "no" /\ died' = "no"
      /\ UNCHANGED <<groups, sorted, header, marks, free_lists, quarantine, shadow, pc, regs,
                     live, returned>>
      /\ attached' = attached \ {t}
      /\ lost' = lost \cup ToSet(local[t].quarantine)
                   \cup UNION {ToSet(local[t].free[cls]) : cls \in Classes}
      /\ local' = [local EXCEPT ![t] =
                    [quarantine |-> << >>, free |-> [cls \in Classes |-> << >>]]]
  BY DEF HeapInv, ExitWithoutReturning, Running
<1>1. NoThread \notin Threads
  BY AllocatorAssumption
<1>2. local \in [Threads -> Storages]
  BY <1>0 DEF ThreadsTyped
<1>3. /\ \A x \in Owners \ {t} : QuarantineOf(x)' = QuarantineOf(x) /\ Quar(x)' = Quar(x)
      /\ \A x \in Owners \ {t} : \A cls \in Classes :
           FreeOf(x, cls)' = FreeOf(x, cls) /\ Free(x, cls)' = Free(x, cls)
      /\ QuarantineOf(t)' = << >> /\ Quar(t)' = {}
      /\ \A cls \in Classes : FreeOf(t, cls)' = << >> /\ Free(t, cls)' = {}
  BY <1>0, <1>1, <1>2, EmptyList DEF Owners, QuarantineOf, Quar, FreeOf, Free
<1>4. \A m : m \in lost' <=> m \in lost \/ m \in Quar(t) \/ \E cls \in Classes : m \in Free(t, cls)
  BY <1>0 DEF Quar, Free, QuarantineOf, FreeOf
<1>5. \A p : PtrToChunk(p)' = PtrToChunk(p)
  BY <1>0, SamePointers
<1>6. \A u \in Threads : Owned(u)' = Owned(u)
  BY <1>0 DEF Owned
<1>7. \A p : IsOpen(p)' <=> IsOpen(p)
  BY <1>0, <1>6, SameOpenBlocks
<1>8. /\ \A m, state : HasState(m, state)' <=> HasState(m, state)
      /\ \A m, at : InSomeHand(m, at)' <=> InSomeHand(m, at)
  BY <1>0 DEF HasState, InSomeHand
<1>9. HeapTyped'
  BY <1>0 DEF HeapTyped
<1>10. ThreadsTyped'
  <2>1. [quarantine |-> << >>, free |-> [cls \in Classes |-> << >>]] \in Storages
    BY EmptyList DEF Storages
  <2> QED BY <1>0, <2>1 DEF ThreadsTyped
<1>11. ListsHaveHeaders'
  BY <1>0, <1>3 DEF ListsHaveHeaders
<1>12. ChunksAreApart' /\ MarksLeadBack' /\ PointersHaveChunks'
  BY <1>0, <1>5 DEF HeapIsSound, ChunksAreApart, MarksLeadBack, PointersHaveChunks
<1> t \in Owners
  BY DEF Owners
<1>13. StatesAreRight'
  <2>1. StatesAreRight
    BY <1>0 DEF HeapIsSound
  <2>2. /\ \A x \in Owners, cls \in Classes : \A m \in Free(x, cls)' : HasState(m, "available")
        /\ \A x \in Owners : \A m \in Quar(x)' : HasState(m, "quarantine")
    BY <1>3, <2>1 DEF StatesAreRight
  <2>3. \A m \in lost' : m \in DOMAIN header /\ header[m].state # "allocated"
    BY <1>4, <2>1 DEF StatesAreRight, HasState
  <2> QED BY <1>0, <1>3, <1>5, <1>7, <1>8, <2>1, <2>2, <2>3 DEF StatesAreRight
<1>14. HandsAreRight'
  BY <1>0, <1>5, <1>6, <1>8 DEF HeapIsSound, HandsAreRight, HandIsRight
<1>15. ListsAreApart'
  BY <1>0, <1>3, EmptyList DEF HeapIsSound, ListsAreApart
<1>16. HandsAreApart'
  <2>1. HandsAreApart /\ HandsAreRight /\ ListsAreApart /\ StatesAreRight
    BY <1>0 DEF HeapIsSound
  <2>2. \A u \in Threads : pc[u] \in Holding => regs[u].chunk \notin lost'
    BY <1>4, <2>1 DEF HandsAreApart, HandsAreRight, HandIsRight, StatesAreRight, HasState, Holding
  <2>3. ASSUME NEW x \in Owners \ {t} PROVE lost' \cap Quar(x) = {}
    <3>1. lost \cap Quar(x) = {} /\ Quar(t) \cap Quar(x) = {}
      BY <2>1 DEF HandsAreApart, ListsAreApart
    <3>2. \A cls \in Classes : Free(t, cls) \cap Quar(x) = {}
      BY <2>1 DEF StatesAreRight, HasState
    <3> QED BY <1>4, <3>1, <3>2
  <2>4. ASSUME NEW x \in Owners \ {t}, NEW cls \in Classes PROVE lost' \cap Free(x, cls) = {}
    <3>1. lost \cap Free(x, cls) = {} /\ Free(t, cls) \cap Free(x, cls) = {}
      BY <2>1 DEF HandsAreApart, ListsAreApart
    <3>2. Quar(t) \cap Free(x, cls) = {}
      BY <2>1 DEF StatesAreRight, HasState
    <3>3. \A c \in Classes : c # cls => Free(t, c) \cap Free(x, cls) = {}
      BY <1>0 DEF ListsHaveHeaders
    <3> QED BY <1>4, <3>1, <3>2, <3>3
  <2>5. \A x \in Owners : lost' \cap Quar(x)' = {} /\ \A cls \in Classes : lost' \cap Free(x, cls)' = {}
    BY <1>3, <2>3, <2>4
  <2> QED BY <1>0, <1>3, <1>5, <1>7, <2>1, <2>2, <2>5 DEF HandsAreApart
<1>17. AllAreSomewhere'
  <2>1. AllAreSomewhere
    BY <1>0 DEF HeapIsSound
  <2>2. ASSUME NEW m \in DOMAIN header PROVE IsSomewhere(m)'
    <3>1. IsSomewhere(m) /\ header[m].cls \in Classes
      BY <1>0, <2>1 DEF AllAreSomewhere, HeapTyped, ChunkBase
    <3>2. CASE m \in lost'
      BY <3>2 DEF IsSomewhere
    <3>3. CASE m \notin lost'
      <4>1. m \notin lost /\ (\A x \in Owners : m \in Quar(x) => m \in Quar(x)')
            /\ \A x \in Owners : m \in Free(x, header[m].cls) => m \in Free(x, header[m].cls)'
        <5>1. m \notin lost /\ m \notin Quar(t) /\ m \notin Free(t, header[m].cls)
          BY <1>4, <3>1, <3>3
        <5>2. ASSUME NEW x \in Owners PROVE /\ m \in Quar(x) => m \in Quar(x)'
                                            /\ m \in Free(x, header[m].cls) => m \in Free(x, header[m].cls)'
          <6>1. CASE x = t
            BY <5>1, <6>1
          <6>2. CASE x \in Owners \ {t}
            BY <1>0, <1>3, <3>1, <6>2
          <6> QED BY <6>1, <6>2
        <5> QED BY <5>1, <5>2
      <4> QED BY <1>0, <1>5, <1>7, <1>8, <3>1, <4>1 DEF IsSomewhere
    <3> QED BY <3>2, <3>3
  <2> QED BY <1>0, <2>2 DEF AllAreSomewhere
<1> QED BY <1>0, <1>9, <1>10, <1>11, <1>12, <1>13, <1>14, <1>15, <1>16, <1>17 DEF HeapInv, HeapIsSound


\* A freed chunk goes from the hand into a quarantine.
LEMMA PushStep ==
  ASSUME HeapInv, NEW t \in Threads, PushQuarantine(t)
  PROVE  HeapInv'
<1> DEFINE k == regs[t].chunk
<1>0. /\ HeapTyped /\ ThreadsTyped /\ ListsHaveHeaders /\ HeapIsSound /\ died = "no" /\ died' = "no"
      /\ pc[t] = "push" /\ regs' = [regs EXCEPT ![t] = Idle]
      /\ UNCHANGED <<groups, sorted, header, marks, free_lists, shadow, attached, live, returned, lost>>
      /\ \E at \in {"idle", "swallow"} : pc' = [pc EXCEPT ![t] = at]
      /\ \/ t \in attached /\ local' = [local EXCEPT ![t].quarantine = Append(@, k)] /\ quarantine' = quarantine
         \/ t \notin attached /\ quarantine' = Append(quarantine, k) /\ local' = local
  <2>1. \E at \in {"idle", "swallow"} : pc' = [pc EXCEPT ![t] = at]
    <3>1. PICK b : b = (FifoSize(Append(local[t].quarantine, k)) > ThreadQuarantine)
      OBVIOUS
    <3> QED BY <3>1 DEF PushQuarantine
  <2> QED BY <2>1 DEF HeapInv, PushQuarantine, Running
<1>1. NoThread \notin Threads
  BY AllocatorAssumption
<1>2. local \in [Threads -> Storages] /\ quarantine \in Seq(Nat) /\ k \in Nat
      /\ regs \in [Threads -> Registers] /\ pc \in [Threads -> Places]
  BY <1>0 DEF ThreadsTyped, HeapTyped, Registers
<1>3. /\ HasState(k, "quarantine") /\ k \notin lost /\ regs[t].old = 0
      /\ \A x \in Owners : k \notin Quar(x)
  BY <1>0 DEF HeapIsSound, HandsAreRight, HandIsRight, HandsAreApart, Holding
<1> PICK o \in Owners : o = IF t \in attached THEN t ELSE NoThread
  BY DEF Owners
<1>4. /\ \A x \in Owners : x # o => QuarantineOf(x)' = QuarantineOf(x)
      /\ QuarantineOf(o)' = Append(QuarantineOf(o), k)
      /\ \A x \in Owners, cls \in Classes : FreeOf(x, cls)' = FreeOf(x, cls)
  <2>1. CASE t \in attached
    <3>1. /\ local'[t].quarantine = Append(local[t].quarantine, k) /\ local'[t].free = local[t].free
          /\ \A x \in Threads : x # t => local'[x] = local[x]
      BY <1>0, <1>2, <2>1 DEF Storages
    <3>2. \A x \in Threads : local'[x].free = local[x].free
      BY <3>1
    <3> QED BY <1>0, <1>1, <2>1, <3>1, <3>2 DEF Owners, QuarantineOf, FreeOf
  <2>2. CASE t \notin attached
    BY <1>0, <1>1, <1>2, <2>2 DEF Owners, QuarantineOf, FreeOf, Storages
  <2> QED BY <2>1, <2>2
<1>5. \A x \in Owners : QuarantineOf(x) \in Seq(Nat)
  BY <1>1, <1>2 DEF QuarantineOf, Owners, Storages
<1>6. /\ Quar(o)' = Quar(o) \cup {k} /\ QuarantineOf(o)' \in Seq(Nat)
      /\ IsInjective(QuarantineOf(o)) => IsInjective(QuarantineOf(o)')
  <2> DEFINE q == QuarantineOf(o)
  <2>1. q \in Seq(Nat) /\ k \in Nat /\ k \notin ToSet(q) /\ QuarantineOf(o)' = Append(q, k)
        /\ Quar(o) = ToSet(q) /\ Quar(o)' = ToSet(QuarantineOf(o)')
    BY <1>2, <1>3, <1>4, <1>5 DEF Quar
  <2> HIDE DEF q
  <2>2. /\ Append(q, k) \in Seq(Nat) /\ ToSet(Append(q, k)) = ToSet(q) \cup {k}
        /\ IsInjective(q) /\ k \notin ToSet(q) => IsInjective(Append(q, k))
    BY <2>1, AppendedList
  <2> QED BY <2>1, <2>2 DEF q
<1>7. /\ \A x \in Owners : x # o => Quar(x)' = Quar(x)
      /\ \A x \in Owners, cls \in Classes : Free(x, cls)' = Free(x, cls)
  BY <1>4 DEF Quar, Free

<1>8. \A p : PtrToChunk(p)' = PtrToChunk(p)
  BY <1>0, SamePointers
<1>9. \A u \in Threads : Owned(u)' = Owned(u)
  BY <1>0, <1>2, <1>3 DEF Owned, Idle
<1>10. \A p : IsOpen(p)' <=> IsOpen(p)
  BY <1>0, <1>9, SameOpenBlocks
<1>11. \A m, state : HasState(m, state)' <=> HasState(m, state)
  BY <1>0 DEF HasState
<1>12. /\ \A u \in Threads : u # t => pc'[u] = pc[u] /\ regs'[u] = regs[u]
       /\ pc'[t] \in {"idle", "swallow"} /\ regs'[t] = Idle
  BY <1>0, <1>2
<1>13. HeapTyped'
  <2>1. quarantine' \in Seq(Nat)
    <3>1. Append(quarantine, k) \in Seq(Nat)
      BY <1>2, AppendedList
    <3> QED BY <1>0, <1>2, <3>1
  <2> QED BY <1>0, <2>1 DEF HeapTyped
<1>14. ThreadsTyped'
  <2>1. local' \in [Threads -> Storages]
    <3>1. Append(local[t].quarantine, k) \in Seq(Nat)
      BY <1>2, AppendedList DEF Storages
    <3>2. CASE t \in attached
      BY <1>0, <1>2, <3>1, <3>2 DEF Storages
    <3> QED BY <1>0, <1>2, <3>2
  <2>2. regs' \in [Threads -> Registers] /\ pc' \in [Threads -> Places]
    BY <1>0, <1>2 DEF Registers, Idle, Places
  <2> QED BY <1>0, <2>1, <2>2 DEF ThreadsTyped
<1>15. ListsHaveHeaders'
  <2>1. \A x \in Owners : Quar(x)' \subseteq DOMAIN header
    <3>1. \A x \in Owners : Quar(x) \subseteq DOMAIN header
      BY <1>0 DEF ListsHaveHeaders
    <3>2. k \in DOMAIN header
      BY <1>3 DEF HasState
    <3> QED BY <1>6, <1>7, <3>1, <3>2
  <2> QED BY <1>0, <1>7, <2>1 DEF ListsHaveHeaders
<1>16. ChunksAreApart' /\ MarksLeadBack' /\ PointersHaveChunks'
  BY <1>0, <1>8 DEF HeapIsSound, ChunksAreApart, MarksLeadBack, PointersHaveChunks
<1>17. StatesAreRight'
  <2>1. StatesAreRight
    BY <1>0 DEF HeapIsSound
  <2>2. /\ \A x \in Owners, cls \in Classes : \A m \in Free(x, cls)' : HasState(m, "available")
        /\ \A x \in Owners : \A m \in Quar(x)' : HasState(m, "quarantine")
    BY <1>3, <1>6, <1>7, <2>1 DEF StatesAreRight
  <2> QED BY <1>0, <1>8, <1>10, <1>11, <2>1, <2>2 DEF StatesAreRight
<1>18. HandsAreRight'
  <2>1. HandsAreRight
    BY <1>0 DEF HeapIsSound
  <2>2. HandIsRight(t)'
    BY <1>12 DEF HandIsRight, Idle
  <2>3. ASSUME NEW u \in Threads, u # t PROVE HandIsRight(u)'
    BY <1>0, <1>8, <1>11, <1>12, <2>1, <2>3 DEF HandsAreRight, HandIsRight
  <2> QED BY <1>9, <2>1, <2>2, <2>3 DEF HandsAreRight
<1>19. ListsAreApart'
  <2>1. ListsAreApart
    BY <1>0 DEF HeapIsSound
  <2>2. \A x \in Owners : IsInjective(QuarantineOf(x)')
    BY <1>4, <1>6, <2>1 DEF ListsAreApart
  <2>3. \A x, y \in Owners : x # y => Quar(x)' \cap Quar(y)' = {}
    BY <1>3, <1>6, <1>7, <2>1 DEF ListsAreApart
  <2> QED BY <1>4, <1>7, <2>1, <2>2, <2>3 DEF ListsAreApart
<1>20. HandsAreApart'
  <2>1. HandsAreApart
    BY <1>0 DEF HeapIsSound
  <2>2. \A u \in Threads : u # t /\ pc[u] \in {"poison", "push"} => \A x \in Owners : regs[u].chunk \notin Quar(x)'
    BY <1>0, <1>6, <1>7, <2>1 DEF HandsAreApart, Holding
  <2>3. \A x \in Owners : lost \cap Quar(x)' = {}
    BY <1>3, <1>6, <1>7, <2>1 DEF HandsAreApart
  <2> QED BY <1>0, <1>7, <1>8, <1>10, <1>12, <2>1, <2>2, <2>3 DEF HandsAreApart, Holding
<1>21. AllAreSomewhere'
  <2>1. AllAreSomewhere
    BY <1>0 DEF HeapIsSound
  <2>2. \A m \in DOMAIN header, at \in SUBSET {"header", "unpoison", "poison", "push"} :
          InSomeHand(m, at) => InSomeHand(m, at)' \/ m = k
    BY <1>12 DEF InSomeHand
  <2>3. \A x \in Owners : Quar(x) \subseteq Quar(x)'
    BY <1>6, <1>7
  <2>4. ASSUME NEW m \in DOMAIN header PROVE IsSomewhere(m)'
    <3>1. IsSomewhere(m) /\ header[m].cls \in Classes
      BY <1>0, <2>1 DEF AllAreSomewhere, HeapTyped, ChunkBase
    <3>2. CASE m = k
      BY <1>0, <1>1, <1>3, <1>6, <3>2 DEF IsSomewhere, HasState
    <3>3. CASE m # k
      BY <1>0, <1>7, <1>8, <1>10, <2>2, <2>3, <3>1, <3>3 DEF IsSomewhere
    <3> QED BY <3>2, <3>3
  <2> QED BY <1>0, <2>4 DEF AllAreSomewhere
<1> QED BY <1>0, <1>13, <1>14, <1>15, <1>16, <1>17, <1>18, <1>19, <1>20, <1>21 DEF HeapInv, HeapIsSound


\* The CHECK on free_tid holds, and only the header and the shadow change.
LEMMA PoisonStep ==
  ASSUME HeapInv, NEW t \in Threads, PoisonFreed(t)
  PROVE  HeapInv'
<1> DEFINE k == regs[t].chunk
<1>0. /\ HeapTyped /\ ThreadsTyped /\ ListsHaveHeaders /\ HeapIsSound /\ died = "no" /\ pc[t] = "poison"
      /\ UNCHANGED <<groups, sorted, marks, free_lists, quarantine, local, attached, regs,
                     live, returned, lost>>
  <2>1. /\ died = "no" /\ pc[t] = "poison"
        /\ UNCHANGED <<groups, sorted, marks, free_lists, quarantine, local, attached, regs,
                       live, returned, lost>>
    <3>1. died = "no" /\ pc[t] = "poison"
      BY Zenon DEF PoisonFreed, Running
    <3>2. UNCHANGED <<groups, sorted, marks, free_lists, quarantine, local, attached,
                      holder, regs, live, returned, lost, calls>>
      BY Zenon DEF PoisonFreed
    <3> QED BY <3>1, <3>2
  <2> QED BY <2>1 DEF HeapInv
<1>1. /\ HasState(k, "quarantine") /\ header[k].free = InvalidTid /\ regs[t].old = 0
  BY <1>0 DEF HeapIsSound, HandsAreRight, HandIsRight
<1>2. PICK tid \in Tids : header' = [header EXCEPT ![k].free = tid]
  <2>1. t \in Tids /\ MainTid \in Tids
    BY DEF Tids
  <2> QED BY <1>1, <2>1 DEF PoisonFreed
<1>3. /\ pc' = [pc EXCEPT ![t] = "push"] /\ died' = "no"
      /\ shadow' = PoisonShadow(shadow, regs[t].ptr, RoundUpTo(header[k].used, Redzone), HeapFree)
  BY <1>0, <1>1 DEF PoisonFreed
<1>4. header \in [DOMAIN header -> ChunkBase] /\ k \in DOMAIN header /\ pc \in [Threads -> Places]
  BY <1>0, <1>1 DEF HeapTyped, ThreadsTyped, HasState
<1>5. /\ header' \in [DOMAIN header -> ChunkBase] /\ DOMAIN header' = DOMAIN header
      /\ \A m \in DOMAIN header : header'[m].state = header[m].state /\ header'[m].cls = header[m].cls
      /\ \A m \in DOMAIN header : m # k => header'[m] = header[m]
  BY <1>2, <1>4 DEF ChunkBase
<1>6. /\ \A x, cls : FreeOf(x, cls)' = FreeOf(x, cls) /\ Free(x, cls)' = Free(x, cls)
      /\ \A x : QuarantineOf(x)' = QuarantineOf(x) /\ Quar(x)' = Quar(x)
  BY <1>0, SameLists
<1>7. \A p : PtrToChunk(p)' = PtrToChunk(p)
  BY <1>0, SamePointers
<1>8. \A u \in Threads : Owned(u)' = Owned(u)
  BY <1>0, <1>1, <1>3, <1>4 DEF Owned
<1>9. \A p : IsOpen(p)' <=> IsOpen(p)
  BY <1>0, <1>8, SameOpenBlocks
<1>10. \A m, state : HasState(m, state)' <=> HasState(m, state)
  BY <1>5 DEF HasState
<1>11. pc'[t] = "push" /\ \A u \in Threads : u # t => pc'[u] = pc[u]
  BY <1>3, <1>4
<1>12. HeapTyped'
  <2>1. shadow' \in [DOMAIN shadow -> ShadowBytes]
    BY <1>0, <1>3 DEF HeapTyped, PoisonShadow, ShadowBytes, Magic
  <2>2. DOMAIN shadow' = DOMAIN shadow
    BY <1>3 DEF PoisonShadow
  <2> QED BY <1>0, <1>5, <2>1, <2>2 DEF HeapTyped
<1>13. ThreadsTyped'
  BY <1>0, <1>3 DEF ThreadsTyped, Places, Reports
<1>14. ListsHaveHeaders'
  BY <1>0, <1>5, <1>6 DEF ListsHaveHeaders
<1>15. ChunksAreApart' /\ MarksLeadBack' /\ PointersHaveChunks'
  <2>1. ChunksAreApart'
    BY <1>0, <1>5 DEF HeapIsSound, ChunksAreApart
  <2>2. MarksLeadBack'
    BY <1>0, <1>5 DEF HeapIsSound, MarksLeadBack
  <2>3. PointersHaveChunks'
    BY <1>0, <1>5, <1>7 DEF HeapIsSound, PointersHaveChunks
  <2> QED BY <2>1, <2>2, <2>3
<1>16. StatesAreRight'
  <2>1. StatesAreRight
    BY <1>0 DEF HeapIsSound
  <2>2. \A m \in DOMAIN header : header[m].state = "allocated" => header'[m].free = InvalidTid
    BY <1>1, <1>5, <2>1 DEF StatesAreRight, HasState
  <2>3. \A m \in lost : m \in DOMAIN header /\ header'[m].state # "allocated"
    BY <1>5, <2>1 DEF StatesAreRight
  <2> QED BY <1>0, <1>5, <1>6, <1>7, <1>9, <1>10, <2>1, <2>2, <2>3 DEF StatesAreRight
<1>17. HandsAreRight'
  <2>1. HandsAreRight /\ HandsAreApart
    BY <1>0 DEF HeapIsSound
  <2>2. HandIsRight(t)'
    BY <1>0, <1>1, <1>10, <1>11 DEF HandIsRight
  <2>3. ASSUME NEW u \in Threads, u # t PROVE HandIsRight(u)'
    <3>1. pc[u] = "poison" => regs[u].chunk # k
      BY <1>0, <2>1, <2>3 DEF HandsAreApart, Holding
    <3>2. HandIsRight(u) /\ pc'[u] = pc[u]
      BY <1>11, <2>1, <2>3 DEF HandsAreRight
    <3> QED BY <1>0, <1>5, <1>7, <1>10, <3>1, <3>2 DEF HandIsRight, HasState
  <2> QED BY <1>8, <2>1, <2>2, <2>3 DEF HandsAreRight
<1>18. ListsAreApart'
  BY <1>0, <1>6 DEF HeapIsSound, ListsAreApart
<1>19. HandsAreApart'
  BY <1>0, <1>6, <1>7, <1>9, <1>11 DEF HeapIsSound, HandsAreApart, Holding
<1>20. AllAreSomewhere'
  <2>1. AllAreSomewhere
    BY <1>0 DEF HeapIsSound
  <2>2. \A m, at : at \in {{"header"}, {"unpoison"}, {"poison", "push"}} =>
          (InSomeHand(m, at) => InSomeHand(m, at)')
    BY <1>0, <1>11 DEF InSomeHand
  <2> QED BY <1>0, <1>5, <1>6, <1>7, <1>9, <2>1, <2>2 DEF AllAreSomewhere, IsSomewhere
<1> QED BY <1>3, <1>12, <1>13, <1>14, <1>15, <1>16, <1>17, <1>18, <1>19, <1>20 DEF HeapInv, HeapIsSound


\* A free that is let through takes an open block's chunk into the hand.
LEMMA DeallocateStep ==
  ASSUME HeapInv, NEW t \in Threads, Deallocate(t)
  PROVE  HeapInv'
<1>0. /\ HeapTyped /\ ThreadsTyped /\ ListsHaveHeaders /\ HeapIsSound /\ died = "no"
      /\ UNCHANGED <<groups, sorted, marks, free_lists, quarantine, local, attached,
                     shadow, returned, lost>>
      /\ pc' = [pc EXCEPT ![t] = "poison"]
  <2>1. /\ died = "no" /\ pc' = [pc EXCEPT ![t] = "poison"]
        /\ UNCHANGED <<groups, sorted, marks, free_lists, quarantine, local, attached,
                       shadow, returned, lost>>
    BY DEF Deallocate, FreedPointer, Running
  <2> QED BY <2>1 DEF HeapInv
<1>1. PICK ptr \in returned :
        /\ FreedPointer(t, ptr)
        /\ header' = [header EXCEPT ![PtrToChunk(ptr)].state = "quarantine"]
        /\ died' = Judge(header[PtrToChunk(ptr)].state)
        /\ live' = Restrict(live, DOMAIN live \ {ptr})
        /\ regs' = [regs EXCEPT ![t] = [Idle EXCEPT !.chunk = PtrToChunk(ptr), !.ptr = ptr]]
  BY Zenon DEF Deallocate
<1>2. PICK k \in DOMAIN header : k = PtrToChunk(ptr)
  BY <1>0 DEF HeapIsSound, PointersHaveChunks
<1>3. /\ header \in [DOMAIN header -> ChunkBase] /\ DOMAIN header \subseteq Nat
      /\ pc \in [Threads -> Places] /\ regs \in [Threads -> Registers]
      /\ returned \subseteq Nat \ {0} /\ live \in [DOMAIN live -> Nat] /\ DOMAIN live \subseteq returned
  BY <1>0 DEF HeapTyped, ThreadsTyped
<1>4. /\ header' \in [DOMAIN header -> ChunkBase] /\ DOMAIN header' = DOMAIN header
      /\ \A m \in DOMAIN header : header'[m].cls = header[m].cls /\ header'[m].free = header[m].free
      /\ \A m \in DOMAIN header : m # k => header'[m] = header[m]
      /\ header'[k].state = "quarantine"
  BY <1>1, <1>2, <1>3 DEF ChunkBase, States
<1>5. /\ \A x, cls : FreeOf(x, cls)' = FreeOf(x, cls) /\ Free(x, cls)' = Free(x, cls)
      /\ \A x : QuarantineOf(x)' = QuarantineOf(x) /\ Quar(x)' = Quar(x)
  BY <1>0, SameLists
<1>6. \A p : PtrToChunk(p)' = PtrToChunk(p)
  BY <1>0, SamePointers
<1>7. /\ regs'[t] = [size |-> 0, alignment |-> 0, old |-> 0, chunk |-> k, ptr |-> ptr]
      /\ pc'[t] = "poison" /\ \A u \in Threads : u # t => pc'[u] = pc[u] /\ regs'[u] = regs[u]
  BY <1>0, <1>1, <1>2, <1>3 DEF Idle
<1>8. HeapTyped'
  BY <1>0, <1>3, <1>4 DEF HeapTyped
<1>9. ThreadsTyped'
  <2>1. regs' \in [Threads -> Registers] /\ pc' \in [Threads -> Places]
    BY <1>0, <1>1, <1>2, <1>3 DEF Registers, Idle, Places
  <2>2. died' \in Reports
    <3>1. \A state : Judge(state) \in Reports
      BY DEF Judge, Reports
    <3> QED BY <1>1, <3>1
  <2>3. live' \in [DOMAIN live' -> Nat] /\ DOMAIN live' \subseteq DOMAIN live
    BY <1>1, <1>3 DEF Restrict
  <2> QED BY <1>0, <1>3, <2>1, <2>2, <2>3 DEF ThreadsTyped
<1>10. ListsHaveHeaders'
  BY <1>0, <1>4, <1>5 DEF ListsHaveHeaders
<1>11. ASSUME died' = "no" PROVE HeapIsSound'
  <2>0. header[k].state = "allocated"
    BY <1>1, <1>2, <1>3, <1>11 DEF Judge, ChunkBase, States
  <2>1. /\ ChunksAreApart /\ MarksLeadBack /\ PointersHaveChunks
        /\ StatesAreRight /\ HandsAreRight /\ ListsAreApart /\ HandsAreApart /\ AllAreSomewhere
    BY <1>0 DEF HeapIsSound
  <2>2. /\ \A x \in Owners : k \notin Quar(x)
        /\ \A x \in Owners, cls \in Classes : k \notin Free(x, cls)
        /\ k \notin lost
    BY <2>0, <2>1 DEF StatesAreRight, HasState
  <2>3. (ptr \in DOMAIN live /\ pc[t] = "idle") \/ (pc[t] = "exchange" /\ ptr = regs[t].ptr)
    <3> SUFFICES ASSUME pc[t] = "idle", ptr \notin DOMAIN live, k \notin HandedOut PROVE FALSE
      BY <1>1, <1>2 DEF FreedPointer, Running
    <3>1. InSomeHand(k, {"unpoison"}) \/ \E p : IsOpen(p) /\ PtrToChunk(p) = k
      BY <2>0, <2>1, <2>2 DEF AllAreSomewhere, IsSomewhere
    <3> QED BY <3>1 DEF InSomeHand, IsOpen, HandedOut, OpenBlocks, InHand
  <2>4. regs[t].old = 0 /\ (pc[t] = "exchange" => regs[t].ptr \notin DOMAIN live)
    BY <2>1, <2>3 DEF HandsAreRight, HandIsRight
  <2>5. \A u \in Threads : Owned(u)' = IF u = t THEN {} ELSE Owned(u)
    BY <1>7 DEF Owned
  <2>6. \A u \in Threads : u # t => ptr \notin Owned(u)
    <3> SUFFICES ASSUME NEW u \in Threads, u # t, ptr \in Owned(u) PROVE FALSE
      OBVIOUS
    <3>1. ptr \notin DOMAIN live
      BY <2>1 DEF HandsAreRight, HandIsRight, Owned
    <3>2. ptr \in Owned(t)
      BY <2>3, <2>4, <3>1 DEF Owned
    <3> QED BY <2>1, <3>2 DEF HandsAreRight
  <2>7. Owned(t) \subseteq {ptr} /\ IsOpen(ptr)
    BY <2>3, <2>4 DEF Owned, IsOpen
  <2>8. DOMAIN live' = DOMAIN live \ {ptr}
    BY <1>1 DEF Restrict
  <2>9. \A p : IsOpen(p)' <=> IsOpen(p) /\ p # ptr
    BY <2>5, <2>6, <2>7, <2>8 DEF IsOpen
  <2>10. \A p : IsOpen(p) /\ p # ptr => PtrToChunk(p) # k
    BY <1>2, <2>1, <2>7 DEF HandsAreApart
  <2>11. \A m, state : m # k => (HasState(m, state)' <=> HasState(m, state))
    BY <1>4 DEF HasState
  <2>12. ChunksAreApart' /\ MarksLeadBack' /\ PointersHaveChunks'
    <3>1. ChunksAreApart'
      BY <1>0, <1>4, <2>1 DEF ChunksAreApart
    <3>2. MarksLeadBack'
      BY <1>0, <1>4, <2>1 DEF MarksLeadBack
    <3>3. PointersHaveChunks'
      BY <1>0, <1>4, <1>6, <2>1 DEF PointersHaveChunks
    <3> QED BY <3>1, <3>2, <3>3
  <2>13. StatesAreRight'
    <3>1. /\ \A x \in Owners, cls \in Classes : \A m \in Free(x, cls) : HasState(m, "available")'
          /\ \A x \in Owners : \A m \in Quar(x) : HasState(m, "quarantine")'
      BY <2>1, <2>2, <2>11 DEF StatesAreRight
    <3>2. \A m \in lost : m \in DOMAIN header /\ header'[m].state # "allocated"
      BY <1>4, <2>1, <2>2 DEF StatesAreRight
    <3>3. \A p : IsOpen(p) /\ p # ptr => p \in returned /\ HasState(PtrToChunk(p), "allocated")'
      <4> SUFFICES ASSUME NEW p, IsOpen(p), p # ptr
                   PROVE  p \in returned /\ HasState(PtrToChunk(p), "allocated")'
        OBVIOUS
      <4>1. PICK n : n = PtrToChunk(p)
        OBVIOUS
      <4>2. p \in returned /\ HasState(n, "allocated") /\ n # k
        BY <2>1, <2>10, <4>1 DEF StatesAreRight
      <4> QED BY <1>6, <2>11, <4>1, <4>2
    <3>4. \A m \in DOMAIN header : header'[m].state = "allocated" => header'[m].free = InvalidTid
      BY <1>4, <2>1 DEF StatesAreRight
    <3> QED BY <1>0, <1>4, <1>5, <1>6, <2>9, <3>1, <3>2, <3>3, <3>4 DEF StatesAreRight
  <2>14. HandsAreRight'
    <3>1. HandIsRight(t)'
      BY <1>4, <1>7, <2>0, <2>1 DEF HandIsRight, HasState, StatesAreRight
    <3>2. ASSUME NEW u \in Threads, u # t PROVE HandIsRight(u)'
      <4>1. HandIsRight(u) /\ pc'[u] = pc[u] /\ regs'[u] = regs[u]
        BY <1>7, <2>1, <3>2 DEF HandsAreRight
      <4>2. pc[u] \in Holding => regs[u].chunk # k
        BY <1>2, <2>0, <2>1, <2>7, <4>1 DEF HandsAreApart, HandIsRight, HasState, Holding
      <4> QED BY <1>0, <1>4, <1>6, <2>8, <2>11, <4>1, <4>2 DEF HandIsRight, HasState, Holding
    <3>3. \A u, v \in Threads : u # v => Owned(u)' \cap Owned(v)' = {}
      BY <2>1, <2>5 DEF HandsAreRight
    <3> QED BY <3>1, <3>2, <3>3 DEF HandsAreRight
  <2>15. ListsAreApart'
    BY <1>0, <1>5, <2>1 DEF ListsAreApart
  <2>16. HandsAreApart'
    <3>1. \A u \in Threads : u # t /\ pc[u] \in Holding => regs[u].chunk # k
      BY <1>2, <2>0, <2>1, <2>7 DEF HandsAreApart, HandsAreRight, HandIsRight, HasState, Holding
    <3>2. \A p, q : IsOpen(p)' /\ IsOpen(q)' /\ PtrToChunk(p)' = PtrToChunk(q)' => p = q
      BY <1>6, <2>1, <2>9 DEF HandsAreApart
    <3> QED BY <1>0, <1>5, <1>6, <1>7, <2>1, <2>2, <2>9, <3>1, <3>2 DEF HandsAreApart, Holding
  <2>17. AllAreSomewhere'
    <3>1. ASSUME NEW m \in DOMAIN header PROVE IsSomewhere(m)'
      <4>1. CASE m = k
        BY <1>4, <1>7, <4>1 DEF IsSomewhere, InSomeHand
      <4>2. CASE m # k
        <5>1. \A at \in {{"header"}, {"unpoison"}, {"poison", "push"}} :
                InSomeHand(m, at) => InSomeHand(m, at)'
          <6>1. pc[t] \notin {"header", "unpoison", "poison", "push"}
            BY <2>3
          <6> QED BY <1>7, <6>1 DEF InSomeHand
        <5>2. (\E p : IsOpen(p) /\ PtrToChunk(p) = m) => \E p : IsOpen(p)' /\ PtrToChunk(p)' = m
          BY <1>2, <1>6, <2>9, <4>2
        <5>3. IsSomewhere(m) /\ header'[m] = header[m]
          BY <1>4, <2>1, <4>2 DEF AllAreSomewhere
        <5> QED BY <1>0, <1>5, <5>1, <5>2, <5>3 DEF IsSomewhere
      <4> QED BY <4>1, <4>2
    <3> QED BY <1>4, <3>1 DEF AllAreSomewhere
  <2> QED BY <2>12, <2>13, <2>14, <2>15, <2>16, <2>17 DEF HeapIsSound
<1> QED BY <1>8, <1>9, <1>10, <1>11 DEF HeapInv


\* The block of a finished allocation, or the one a realloc frees next, is open.
LEMMA UnpoisonStep ==
  ASSUME HeapInv, NEW t \in Threads, Unpoison(t)
  PROVE  HeapInv'
<1> DEFINE r == regs[t]
           next == IF regs[t].old # 0 THEN [Idle EXCEPT !.ptr = regs[t].old] ELSE Idle
           at == IF regs[t].old # 0 THEN "exchange" ELSE "idle"
<1>0. /\ HeapTyped /\ ThreadsTyped /\ ListsHaveHeaders /\ HeapIsSound /\ died = "no" /\ died' = "no"
      /\ pc[t] = "unpoison"
      /\ UNCHANGED <<groups, sorted, header, marks, free_lists, quarantine, local, attached, lost>>
      /\ live' = Over([p \in {regs[t].ptr} |-> regs[t].size], live)
      /\ returned' = returned \cup {regs[t].ptr}
      /\ pc' = [pc EXCEPT ![t] = at] /\ regs' = [regs EXCEPT ![t] = next]
  <2>1. /\ pc[t] = "unpoison" /\ died = "no"
        /\ UNCHANGED <<groups, sorted, header, marks, free_lists, quarantine, local, attached, died, lost>>
        /\ live' = Over([p \in {regs[t].ptr} |-> regs[t].size], live)
        /\ returned' = returned \cup {regs[t].ptr}
    BY DEF Unpoison, Running
  <2>2. pc' = [pc EXCEPT ![t] = at] /\ regs' = [regs EXCEPT ![t] = next]
    <3>1. CASE regs[t].old # 0 BY <3>1 DEF Unpoison
    <3>2. CASE regs[t].old = 0 BY <3>2 DEF Unpoison
    <3> QED BY <3>1, <3>2
  <2> QED BY <2>1, <2>2 DEF HeapInv
<1>1. PICK k \in Nat, b \in Nat \ {0}, old \in Nat :
        k = regs[t].chunk /\ b = regs[t].ptr /\ old = regs[t].old
  <2>1. regs[t] \in Registers
    BY <1>0 DEF ThreadsTyped
  <2>2. regs[t].ptr > 0
    BY <1>0 DEF HeapIsSound, HandsAreRight, HandIsRight
  <2>3. regs[t].chunk \in Nat /\ regs[t].ptr \in Nat \ {0} /\ regs[t].old \in Nat
    BY <2>1, <2>2 DEF Registers
  <2> QED BY <2>3
<1>2. /\ HasState(k, "allocated") /\ PtrToChunk(b) = k
      /\ k \notin lost /\ \A p : IsOpen(p) => PtrToChunk(p) # k
      /\ old # 0 => old \in returned /\ old \notin DOMAIN live
  BY <1>0, <1>1 DEF HeapIsSound, HandsAreRight, HandIsRight, HandsAreApart, Holding
<1>3. /\ regs'[t] = [size |-> 0, alignment |-> 0, old |-> 0, chunk |-> 0, ptr |-> old]
      /\ pc'[t] = IF old = 0 THEN "idle" ELSE "exchange"
      /\ \A u \in Threads : u # t => pc'[u] = pc[u] /\ regs'[u] = regs[u]
  BY <1>0, <1>1 DEF ThreadsTyped, Idle
<1>4. DOMAIN live' = DOMAIN live \cup {b} /\ live' \in [DOMAIN live' -> Nat]
  BY <1>0, <1>1 DEF Over, ThreadsTyped, Registers
<1>5. /\ \A x, cls : FreeOf(x, cls)' = FreeOf(x, cls) /\ Free(x, cls)' = Free(x, cls)
      /\ \A x : QuarantineOf(x)' = QuarantineOf(x) /\ Quar(x)' = Quar(x)
  BY <1>0, SameLists
<1>6. \A p : PtrToChunk(p)' = PtrToChunk(p)
  BY <1>0, SamePointers
<1>7. \A u \in Threads : Owned(u)' = Owned(u)
  <2>1. pc[t] = "unpoison" /\ regs[t].old = old
    BY <1>0, <1>1
  <2>2. regs'[t].old = 0 /\ regs'[t].ptr = old
    BY <1>3
  <2>3. Owned(t)' = Owned(t)
    BY <1>3, <2>1, <2>2 DEF Owned
  <2>4. ASSUME NEW u \in Threads, u # t PROVE Owned(u)' = Owned(u)
    BY <1>3, <2>4 DEF Owned
  <2> QED BY <2>3, <2>4
<1>8. \A p : IsOpen(p)' <=> IsOpen(p) \/ p = b
  BY <1>4, <1>7 DEF IsOpen
<1>9. ~IsOpen(b)
  BY <1>2
<1>10. \A m, state : HasState(m, state)' <=> HasState(m, state)
  BY <1>0 DEF HasState
<1>11. HeapTyped'
  <2>1. shadow' \in [DOMAIN shadow -> ShadowBytes] /\ DOMAIN shadow' = DOMAIN shadow
    <3> DEFINE rounded == RoundUpTo(regs[t].size, Redzone)
               open == PoisonShadow(shadow, regs[t].ptr, rounded, 0)
               mem == regs[t].ptr + rounded - Redzone
               rest == regs[t].size % Redzone
    <3>1. regs[t].size \in Nat /\ regs[t].ptr \in Nat /\ Redzone \in Nat \ {0} /\ Granularity \in Nat \ {0}
      BY <1>0, SizesAreNaturals DEF ThreadsTyped, Registers
    <3>2. rounded \in Nat /\ mem \in Int /\ rest \in Nat
      <4>1. rounded \in Nat
        BY <3>1, RoundUpBounds
      <4> HIDE DEF rounded
      <4> QED BY <3>1, <4>1
    <3>3. open \in [DOMAIN shadow -> ShadowBytes] /\ DOMAIN open = DOMAIN shadow
      <4>1. 0 \in ShadowBytes
        BY <3>1 DEF ShadowBytes
      <4>2. shadow \in [DOMAIN shadow -> ShadowBytes]
        BY <1>0 DEF HeapTyped
      <4> QED BY <4>1, <4>2 DEF PoisonShadow
    <3>4. shadow' = open \/ shadow' = PoisonHeapPartialRightRedzone(open, mem, rest)
      BY DEF Unpoison
    <3>5. DOMAIN shadow \subseteq Nat
      BY <1>0 DEF HeapTyped
    <3> HIDE DEF open, mem, rest
    <3>6. ASSUME NEW a \in DOMAIN shadow PROVE PoisonHeapPartialRightRedzone(open, mem, rest)[a] \in ShadowBytes
      <4>1. a \in Nat /\ a - mem \in Int
        BY <3>2, <3>5
      <4>2. CASE a < mem \/ a >= mem + Redzone
        BY <3>3, <4>2 DEF PoisonHeapPartialRightRedzone
      <4>3. CASE ~(a < mem \/ a >= mem + Redzone)
        <5>1. PICK i \in Int : i = a - mem
          BY <4>1
        <5>2. PoisonHeapPartialRightRedzone(open, mem, rest)[a] =
                CASE i + Granularity <= rest -> 0 [] i >= rest -> HeapRight [] OTHER -> rest - i
          BY <3>3, <4>3, <5>1 DEF PoisonHeapPartialRightRedzone
        <5>3. CASE i + Granularity <= rest /\ ~(i >= rest)
          BY <3>1, <5>2, <5>3 DEF ShadowBytes
        <5>4. CASE i >= rest
          BY <3>1, <3>2, <5>2, <5>4 DEF ShadowBytes, Magic
        <5>5. CASE ~(i + Granularity <= rest) /\ ~(i >= rest)
          <6>1. rest - i \in 0 .. Granularity - 1
            BY <3>1, <3>2, <5>1, <5>5
          <6> QED BY <5>2, <5>5, <6>1 DEF ShadowBytes
        <5> QED BY <5>3, <5>4, <5>5
      <4> QED BY <4>2, <4>3
    <3>7. DOMAIN PoisonHeapPartialRightRedzone(open, mem, rest) = DOMAIN shadow
          /\ PoisonHeapPartialRightRedzone(open, mem, rest) \in [DOMAIN shadow -> ShadowBytes]
      BY <3>3, <3>6 DEF PoisonHeapPartialRightRedzone
    <3> QED BY <3>3, <3>4, <3>7
  <2> QED BY <1>0, <2>1 DEF HeapTyped
<1>12. ThreadsTyped'
  <2>1. regs' \in [Threads -> Registers] /\ pc' \in [Threads -> Places]
    BY <1>0, <1>1 DEF ThreadsTyped, Registers, Idle, Places
  <2>2. returned' \subseteq Nat \ {0} /\ DOMAIN live' \subseteq returned'
    BY <1>0, <1>1, <1>4 DEF ThreadsTyped
  <2> QED BY <1>0, <1>4, <2>1, <2>2 DEF ThreadsTyped, Reports
<1>13. ListsHaveHeaders'
  BY <1>0, <1>5 DEF ListsHaveHeaders
<1>14. /\ ChunksAreApart /\ MarksLeadBack /\ PointersHaveChunks
       /\ StatesAreRight /\ HandsAreRight /\ ListsAreApart /\ HandsAreApart /\ AllAreSomewhere
  BY <1>0 DEF HeapIsSound
<1>15. ChunksAreApart' /\ MarksLeadBack' /\ PointersHaveChunks'
  <2>1. ChunksAreApart' /\ MarksLeadBack'
    BY <1>0, <1>14 DEF ChunksAreApart, MarksLeadBack
  <2>2. PointersHaveChunks'
    BY <1>0, <1>1, <1>2, <1>6, <1>14 DEF PointersHaveChunks, HasState
  <2> QED BY <2>1, <2>2
<1>16. StatesAreRight'
  <2>1. \A p : IsOpen(p)' => p \in returned' /\ HasState(PtrToChunk(p), "allocated")
    BY <1>0, <1>1, <1>2, <1>8, <1>14 DEF StatesAreRight
  <2> QED BY <1>0, <1>5, <1>6, <1>10, <1>14, <2>1 DEF StatesAreRight
<1>17. HandsAreRight'
  <2>1. \A p : IsOpen(p) => p # b
    BY <1>9
  <2>2. HandIsRight(t)'
    <3>1. old # 0 => IsOpen(old) /\ old # b
      BY <1>1, <2>1 DEF IsOpen, Owned
    <3>2. CASE old = 0
      BY <1>3, <3>2 DEF HandIsRight
    <3>3. CASE old # 0
      <4>1. old \in returned' /\ old \notin DOMAIN live'
        BY <1>0, <1>2, <1>4, <3>1, <3>3
      <4> QED BY <1>3, <3>3, <4>1 DEF HandIsRight
    <3> QED BY <3>2, <3>3
  <2>3. ASSUME NEW u \in Threads, u # t PROVE HandIsRight(u)'
    <3>1. HandIsRight(u) /\ pc'[u] = pc[u] /\ regs'[u] = regs[u]
      BY <1>3, <1>14, <2>3 DEF HandsAreRight
    <3>2. (regs[u].old # 0 => regs[u].old # b) /\ (pc[u] = "exchange" => regs[u].ptr # b)
      BY <2>1, <3>1 DEF IsOpen, Owned, HandIsRight
    <3>3. \A p : p \in returned \ DOMAIN live /\ p # b => p \in returned' \ DOMAIN live'
      BY <1>0, <1>4
    <3>4. regs[u].old # 0 => regs'[u].old \in returned' \ DOMAIN live'
      BY <3>1, <3>2, <3>3 DEF HandIsRight
    <3>5. pc[u] = "exchange" => regs'[u].ptr \in returned' \ DOMAIN live'
      BY <3>1, <3>2, <3>3 DEF HandIsRight
    <3> QED BY <1>0, <1>6, <1>10, <3>1, <3>4, <3>5 DEF HandIsRight
  <2> QED BY <1>7, <1>14, <2>2, <2>3 DEF HandsAreRight
<1>18. ListsAreApart'
  BY <1>0, <1>5, <1>14 DEF ListsAreApart
<1>19. HandsAreApart'
  <2>1. \A u \in Threads : u # t /\ pc[u] \in Holding => regs[u].chunk # k
    BY <1>0, <1>1, <1>14 DEF HandsAreApart, Holding
  <2>2. \A p, q : IsOpen(p)' /\ IsOpen(q)' /\ PtrToChunk(p)' = PtrToChunk(q)' => p = q
    BY <1>2, <1>6, <1>8, <1>14 DEF HandsAreApart
  <2> QED BY <1>0, <1>2, <1>3, <1>5, <1>6, <1>8, <1>14, <2>1, <2>2 DEF HandsAreApart, Holding
<1>20. AllAreSomewhere'
  <2>1. ASSUME NEW m \in DOMAIN header PROVE IsSomewhere(m)'
    <3>1. CASE m = k
      BY <1>0, <1>2, <1>6, <1>8, <3>1 DEF IsSomewhere, HasState
    <3>2. CASE m # k
      <4>1. \A at1 : InSomeHand(m, at1) => InSomeHand(m, at1)'
        BY <1>1, <1>3, <3>2 DEF InSomeHand
      <4>2. (\E p : IsOpen(p) /\ PtrToChunk(p) = m) => \E p : IsOpen(p)' /\ PtrToChunk(p)' = m
        BY <1>6, <1>8
      <4> QED BY <1>0, <1>5, <1>14, <4>1, <4>2 DEF AllAreSomewhere, IsSomewhere
    <3> QED BY <3>1, <3>2
  <2> QED BY <1>0, <2>1 DEF AllAreSomewhere
<1> QED BY <1>0, <1>11, <1>12, <1>13, <1>15, <1>16, <1>17, <1>18, <1>19, <1>20 DEF HeapInv, HeapIsSound


\* The block of a request begins in its chunk, behind a redzone.
LEMMA BlockIsInChunk ==
  ASSUME NEW k \in Nat, NEW size \in Nat \ {0}, NEW alignment \in Nat, NEW cls \in Nat,
         NeededSize(size, alignment) <= cls,
         alignment > Redzone /\ (k + Redzone) % alignment # 0
  PROVE  LET addr == RoundUpTo(k + Redzone, alignment)
         IN  addr \in Nat /\ addr - Redzone \in Nat /\ k < addr - Redzone /\ addr - Redzone < k + cls
<1>1. Redzone \in Nat /\ Redzone > 0
  BY SizesAreNaturals
<1> DEFINE addr == RoundUpTo(k + Redzone, alignment)
           rounded == RoundUpTo(size, Redzone)
<1>2. addr \in Nat /\ k + Redzone < addr /\ addr < (k + Redzone) + alignment
  <2>1. k + Redzone \in Nat /\ alignment \in Nat \ {0}
    BY <1>1
  <2> QED BY <2>1, RoundUpBounds
<1>3. rounded \in Nat /\ rounded + Redzone + alignment <= cls
  <2>1. rounded \in Nat /\ NeededSize(size, alignment) \in Nat
        /\ NeededSize(size, alignment) >= rounded + Redzone + (IF alignment > Redzone THEN alignment ELSE 0)
    BY NeededSizeFits
  <2> HIDE DEF rounded
  <2> QED BY <1>1, <2>1
<1> HIDE DEF addr, rounded
<1>4. addr - Redzone \in Nat /\ k < addr - Redzone /\ addr - Redzone < k + cls
  BY <1>1, <1>2, <1>3
<1> QED BY <1>2, <1>4 DEF addr

\* What SetHeader does: chunk k is allocated and the pointer leads back to it.
IsSet(t, k, size, alignment, old, addr) ==
  /\ k = regs[t].chunk /\ size = regs[t].size /\ alignment = regs[t].alignment /\ old = regs[t].old
  /\ addr = IF alignment > Redzone /\ (k + Redzone) % alignment # 0
            THEN RoundUpTo(k + Redzone, alignment) ELSE k + Redzone
  /\ regs' = [regs EXCEPT ![t].ptr = addr] /\ pc' = [pc EXCEPT ![t] = "unpoison"]
  /\ died' = "no"
  /\ header' \in [DOMAIN header -> ChunkBase] /\ DOMAIN header' = DOMAIN header
  /\ \A m \in DOMAIN header : m # k => header'[m] = header[m]
  /\ header'[k].state = "allocated" /\ header'[k].cls = header[k].cls /\ header'[k].free = InvalidTid
  /\ header'[k].used = size
  /\ marks' \in [DOMAIN marks' -> Nat] /\ DOMAIN marks' \subseteq Nat /\ MarksLeadBack'
  /\ \A p \in Nat : PtrToChunk(p) \in DOMAIN header => PtrToChunk(p)' = PtrToChunk(p)
  /\ PtrToChunk(addr)' = k

\* The CHECK on chunk_state holds.
LEMMA HeaderIsSet ==
  ASSUME HeapInv, NEW t \in Threads, SetHeader(t)
  PROVE  \E k \in Nat, size \in Nat \ {0}, alignment \in Nat, old \in Nat, addr \in Nat \ {0} :
           IsSet(t, k, size, alignment, old, addr)
<1>0. /\ HeapTyped /\ ThreadsTyped /\ ListsHaveHeaders /\ HeapIsSound /\ died = "no" /\ pc[t] = "header"
      /\ UNCHANGED <<groups, sorted, free_lists, quarantine, local, attached, shadow, live, returned, lost>>
  <2>1. /\ died = "no" /\ pc[t] = "header"
        /\ UNCHANGED <<groups, sorted, free_lists, quarantine, local, attached, holder, shadow,
                       live, returned, lost, calls>>
    BY Zenon DEF SetHeader, Running
  <2> QED BY <2>1 DEF HeapInv
<1>1. PICK k \in Nat, size \in Nat \ {0}, alignment \in Nat, old \in Nat :
        k = regs[t].chunk /\ size = regs[t].size /\ alignment = regs[t].alignment /\ old = regs[t].old
  <2>1. regs[t] \in Registers
    BY <1>0 DEF ThreadsTyped
  <2>2. regs[t].size > 0
    BY <1>0 DEF HeapIsSound, HandsAreRight, HandIsRight
  <2>3. regs[t].chunk \in Nat /\ regs[t].size \in Nat \ {0} /\ regs[t].alignment \in Nat /\ regs[t].old \in Nat
    BY <2>1, <2>2 DEF Registers
  <2> QED BY <2>3
<1>2. /\ ChunksAreApart /\ MarksLeadBack /\ PointersHaveChunks
      /\ StatesAreRight /\ HandsAreRight /\ ListsAreApart /\ HandsAreApart /\ AllAreSomewhere
  BY <1>0 DEF HeapIsSound
<1>3. /\ HasState(k, "available") /\ k \notin lost
      /\ \A x \in Owners, cls \in Classes : k \notin Free(x, cls)
      /\ NeededSize(size, alignment) <= header[k].cls
  BY <1>0, <1>1, <1>2 DEF HandsAreRight, HandIsRight, HandsAreApart, Holding
<1>4. /\ header \in [DOMAIN header -> ChunkBase] /\ k \in DOMAIN header /\ DOMAIN header \subseteq Nat
      /\ pc \in [Threads -> Places] /\ regs \in [Threads -> Registers]
      /\ \A m \in DOMAIN header : header[m].cls \in Nat
  BY <1>0, <1>3, ClassesArePositive DEF HeapTyped, ThreadsTyped, HasState, ChunkBase
<1>5. PICK addr \in Nat \ {0}, aligned \in BOOLEAN :
        /\ aligned => addr - Redzone \in Nat /\ k < addr - Redzone /\ addr - Redzone < k + header[k].cls
        /\ addr = IF aligned THEN RoundUpTo(k + Redzone, alignment) ELSE k + Redzone
        /\ aligned = (alignment > Redzone /\ (k + Redzone) % alignment # 0)
  <2>1. PICK aligned \in BOOLEAN : aligned = (alignment > Redzone /\ (k + Redzone) % alignment # 0)
    OBVIOUS
  <2>2. Redzone \in Nat /\ Redzone > 0
    BY SizesAreNaturals
  <2>3. CASE aligned
    <3> DEFINE addr == RoundUpTo(k + Redzone, alignment)
    <3>1. addr \in Nat /\ addr - Redzone \in Nat /\ k < addr - Redzone /\ addr - Redzone < k + header[k].cls
      BY <1>3, <1>4, <2>1, <2>3, BlockIsInChunk
    <3> HIDE DEF addr
    <3>2. addr \in Nat \ {0}
      BY <3>1, <2>2
    <3> QED BY <2>1, <2>3, <3>1, <3>2 DEF addr
  <2>4. CASE ~aligned
    <3>1. k + Redzone \in Nat \ {0}
      BY <2>2
    <3> QED BY <2>1, <2>4, <3>1
  <2> QED BY <2>3, <2>4
<1>6. /\ header' = [header EXCEPT ![k] =
            [state |-> "allocated", cls |-> @.cls, alignment |-> IF aligned THEN alignment ELSE Redzone,
             used |-> size, alloc |-> IF t \in attached THEN t ELSE MainTid, free |-> InvalidTid]]
      /\ marks' = IF aligned THEN Over([x \in {addr - Redzone} |-> x - k], marks) ELSE marks
      /\ regs' = [regs EXCEPT ![t].ptr = addr] /\ pc' = [pc EXCEPT ![t] = "unpoison"]
      /\ died' = "no"
  <2>1. header[regs[t].chunk].state = "available"
    BY <1>1, <1>3 DEF HasState
  <2>2. aligned <=> (regs[t].alignment > Redzone /\ (regs[t].chunk + Redzone) % regs[t].alignment # 0)
    BY <1>1, <1>5
  <2>3. CASE aligned
    BY <1>0, <1>1, <1>5, <2>1, <2>2, <2>3 DEF SetHeader
  <2>4. CASE ~aligned
    BY <1>0, <1>1, <1>5, <2>1, <2>2, <2>4 DEF SetHeader
  <2> QED BY <2>3, <2>4
<1>7. /\ header' \in [DOMAIN header -> ChunkBase] /\ DOMAIN header' = DOMAIN header
      /\ \A m \in DOMAIN header : m # k => header'[m] = header[m]
      /\ header'[k].state = "allocated" /\ header'[k].cls = header[k].cls /\ header'[k].free = InvalidTid
      /\ header'[k].used = size
  <2>1. Redzone \in Nat
    BY SizesAreNaturals
  <2>2. /\ DOMAIN header' = DOMAIN header /\ \A m \in DOMAIN header : m # k => header'[m] = header[m]
        /\ header'[k] = [state |-> "allocated", cls |-> header[k].cls,
                         alignment |-> IF aligned THEN alignment ELSE Redzone,
                         used |-> size, alloc |-> IF t \in attached THEN t ELSE MainTid, free |-> InvalidTid]
    BY <1>4, <1>6
  <2>3. header'[k] \in ChunkBase
    BY <1>4, <2>1, <2>2 DEF ChunkBase, States, Tids
  <2>4. header' \in [DOMAIN header -> ChunkBase]
    <3>1. header' = [m \in DOMAIN header |-> header'[m]]
      BY <1>4, <1>6
    <3>2. \A m \in DOMAIN header : header'[m] \in ChunkBase
      BY <1>4, <2>2, <2>3
    <3> QED BY <3>1, <3>2
  <2> QED BY <2>2, <2>4
<1>8. /\ marks' \in [DOMAIN marks' -> Nat] /\ DOMAIN marks' \subseteq Nat /\ MarksLeadBack'
      /\ \A p \in Nat : PtrToChunk(p) \in DOMAIN header => PtrToChunk(p)' = PtrToChunk(p)
      /\ PtrToChunk(addr)' = k
  <2>1. \A n \in DOMAIN header : header'[n].cls = header[n].cls
    BY <1>7
  <2>3. Redzone \in Nat
    BY SizesAreNaturals
  <2>4. CASE aligned
    <3>1. PICK x \in Nat : x = addr - Redzone /\ x + Redzone = addr /\ k < x /\ x < k + header[k].cls
      BY <1>5, <2>3, <2>4
    <3>2. marks' = Over([y \in {x} |-> y - k], marks)
      BY <1>6, <2>4, <3>1
    <3>3. /\ marks' \in [DOMAIN marks' -> Nat] /\ DOMAIN marks' \subseteq Nat
          /\ MarksLeadBack'
          /\ \A p \in Nat : PtrToChunk(p) \in DOMAIN header => PtrToChunk(p)' = PtrToChunk(p)
          /\ PtrToChunk(x + Redzone)' = k
      BY <1>0, <1>2, <1>4, <1>7, <2>1, <3>1, <3>2, MarkKeepsPointers
    <3> QED BY <3>1, <3>3
  <2>5. CASE ~aligned
    <3>1. marks' = marks
      BY <1>6, <2>5
    <3>2. k \notin DOMAIN marks
      BY <1>0, <1>2, <1>4, ChunksShareNothing
    <3>3. addr - Redzone = k
      BY <1>5, <2>3, <2>5
    <3>4. PtrToChunk(addr)' = k
      BY <3>1, <3>2, <3>3 DEF PtrToChunk
    <3>5. MarksLeadBack'
      BY <1>2, <1>7, <2>1, <3>1 DEF MarksLeadBack
    <3> QED BY <1>0, <3>1, <3>4, <3>5, SamePointers DEF HeapTyped
  <2> QED BY <2>4, <2>5
<1>9. addr = IF alignment > Redzone /\ (k + Redzone) % alignment # 0
             THEN RoundUpTo(k + Redzone, alignment) ELSE k + Redzone
  BY <1>5
<1>10. regs' = [regs EXCEPT ![t].ptr = addr] /\ pc' = [pc EXCEPT ![t] = "unpoison"] /\ died' = "no"
  BY <1>6
<1>11. IsSet(t, k, size, alignment, old, addr)
  BY <1>1, <1>7, <1>8, <1>9, <1>10 DEF IsSet
<1> QED BY <1>11

LEMMA SetHeaderStep ==
  ASSUME HeapInv, NEW t \in Threads, SetHeader(t)
  PROVE  HeapInv'
<1>0. /\ HeapTyped /\ ThreadsTyped /\ ListsHaveHeaders /\ HeapIsSound /\ died = "no" /\ pc[t] = "header"
      /\ UNCHANGED <<groups, sorted, free_lists, quarantine, local, attached, shadow, live, returned, lost>>
  <2>1. /\ died = "no" /\ pc[t] = "header"
        /\ UNCHANGED <<groups, sorted, free_lists, quarantine, local, attached, holder, shadow,
                       live, returned, lost, calls>>
    BY Zenon DEF SetHeader, Running
  <2> QED BY <2>1 DEF HeapInv
<1>1. PICK k \in Nat, size \in Nat \ {0}, alignment \in Nat, old \in Nat, addr \in Nat \ {0} :
           IsSet(t, k, size, alignment, old, addr)
  BY HeaderIsSet
<1> USE DEF IsSet
<1>2. /\ ChunksAreApart /\ MarksLeadBack /\ PointersHaveChunks
      /\ StatesAreRight /\ HandsAreRight /\ ListsAreApart /\ HandsAreApart /\ AllAreSomewhere
  BY <1>0 DEF HeapIsSound
<1>3. /\ HasState(k, "available") /\ k \notin lost
      /\ \A x \in Owners, cls \in Classes : k \notin Free(x, cls)
      /\ NeededSize(size, alignment) <= header[k].cls
  BY <1>0, <1>1, <1>2 DEF HandsAreRight, HandIsRight, HandsAreApart, Holding
<1>4. /\ header \in [DOMAIN header -> ChunkBase] /\ k \in DOMAIN header /\ DOMAIN header \subseteq Nat
      /\ pc \in [Threads -> Places] /\ regs \in [Threads -> Registers]
      /\ \A m \in DOMAIN header : header[m].cls \in Nat
  BY <1>0, <1>3, ClassesArePositive DEF HeapTyped, ThreadsTyped, HasState, ChunkBase
<1>6. /\ regs' = [regs EXCEPT ![t].ptr = addr] /\ pc' = [pc EXCEPT ![t] = "unpoison"]
      /\ died' = "no"
  BY <1>1
<1>7. /\ header' \in [DOMAIN header -> ChunkBase] /\ DOMAIN header' = DOMAIN header
      /\ \A m \in DOMAIN header : m # k => header'[m] = header[m]
      /\ header'[k].state = "allocated" /\ header'[k].cls = header[k].cls /\ header'[k].free = InvalidTid
  BY <1>1
<1>8. /\ marks' \in [DOMAIN marks' -> Nat] /\ DOMAIN marks' \subseteq Nat /\ MarksLeadBack'
      /\ \A p \in Nat : PtrToChunk(p) \in DOMAIN header => PtrToChunk(p)' = PtrToChunk(p)
      /\ PtrToChunk(addr)' = k
  BY <1>1
<1>9. /\ regs'[t] = [regs[t] EXCEPT !.ptr = addr] /\ pc'[t] = "unpoison"
      /\ \A u \in Threads : u # t => pc'[u] = pc[u] /\ regs'[u] = regs[u]
      /\ regs'[t].chunk = k /\ regs'[t].old = old /\ regs'[t].ptr = addr
  BY <1>1, <1>4, <1>6 DEF Registers
<1>10. /\ \A x, cls : FreeOf(x, cls)' = FreeOf(x, cls) /\ Free(x, cls)' = Free(x, cls)
       /\ \A x : QuarantineOf(x)' = QuarantineOf(x) /\ Quar(x)' = Quar(x)
  BY <1>0, SameLists
<1>11. \A u \in Threads : Owned(u)' = Owned(u)
  <2>1. Owned(t)' = Owned(t)
    BY <1>0, <1>1, <1>9 DEF Owned
  <2> QED BY <1>9, <2>1 DEF Owned
<1>12. \A p : IsOpen(p)' <=> IsOpen(p)
  BY <1>0, <1>11, SameOpenBlocks
<1>24. \A p \in returned : PtrToChunk(p) \in DOMAIN header /\ PtrToChunk(p)' = PtrToChunk(p)
  <2>1. \A p \in returned : p \in Nat /\ PtrToChunk(p) \in DOMAIN header
    BY <1>0, <1>2 DEF PointersHaveChunks, ThreadsTyped
  <2> QED BY <1>8, <2>1
<1>13. \A p : IsOpen(p) => p \in returned /\ PtrToChunk(p)' = PtrToChunk(p) /\ PtrToChunk(p) # k
  BY <1>2, <1>3, <1>24 DEF StatesAreRight, HasState
<1>14. \A m, state : m # k => (HasState(m, state)' <=> HasState(m, state))
  BY <1>7 DEF HasState
<1>15. HeapTyped'
  BY <1>0, <1>4, <1>7, <1>8 DEF HeapTyped
<1>16. ThreadsTyped'
  <2>1. regs' \in [Threads -> Registers] /\ pc' \in [Threads -> Places]
    BY <1>4, <1>6 DEF Registers, Places
  <2> QED BY <1>0, <1>6, <2>1 DEF ThreadsTyped, Reports
<1>17. ListsHaveHeaders'
  BY <1>0, <1>3, <1>7, <1>10 DEF ListsHaveHeaders
<1>18. ChunksAreApart' /\ PointersHaveChunks'
  <2>1. ChunksAreApart'
    <3>1. \A m \in DOMAIN header : header'[m].cls = header[m].cls
      BY <1>7
    <3> QED BY <1>0, <1>2, <1>7, <3>1 DEF ChunksAreApart
  <2>2. PointersHaveChunks'
    BY <1>0, <1>2, <1>7, <1>24 DEF PointersHaveChunks
  <2> QED BY <2>1, <2>2
<1>19. StatesAreRight'
  <2>1. /\ \A x \in Owners, cls \in Classes : \A m \in Free(x, cls) : HasState(m, "available")'
        /\ \A x \in Owners : \A m \in Quar(x) : HasState(m, "quarantine")'
    <3>1. \A x \in Owners : k \notin Quar(x)
      BY <1>2, <1>3 DEF StatesAreRight, HasState
    <3> QED BY <1>2, <1>3, <1>14, <3>1 DEF StatesAreRight
  <2>2. \A m \in lost : m \in DOMAIN header /\ header'[m].state # "allocated"
    BY <1>2, <1>3, <1>7 DEF StatesAreRight
  <2>3. ASSUME NEW p, IsOpen(p) PROVE p \in returned /\ HasState(PtrToChunk(p), "allocated")'
    <3>1. PICK n : n = PtrToChunk(p)
      OBVIOUS
    <3>2. p \in returned /\ HasState(n, "allocated") /\ n # k /\ PtrToChunk(p)' = n
      BY <1>2, <1>13, <2>3, <3>1 DEF StatesAreRight
    <3> QED BY <1>14, <3>2
  <2>4. \A m \in DOMAIN header : header'[m].state = "allocated" => header'[m].free = InvalidTid
    BY <1>2, <1>7 DEF StatesAreRight
  <2> QED BY <1>0, <1>7, <1>10, <1>12, <2>1, <2>2, <2>3, <2>4 DEF StatesAreRight
<1>20. HandsAreRight'
  <2>1. HandIsRight(t)'
    <3>1. HasState(k, "allocated")'
      BY <1>4, <1>7 DEF HasState
    <3>2. old # 0 => old \in returned \ DOMAIN live
      BY <1>0, <1>1, <1>2 DEF HandsAreRight, HandIsRight
    <3> QED BY <1>0, <1>8, <1>9, <3>1, <3>2 DEF HandIsRight
  <2>2. ASSUME NEW u \in Threads, u # t PROVE HandIsRight(u)'
    <3>1. HandIsRight(u) /\ pc'[u] = pc[u] /\ regs'[u] = regs[u]
      BY <1>2, <1>9, <2>2 DEF HandsAreRight
    <3>2. pc[u] \in Holding => regs[u].chunk # k
      BY <1>0, <1>1, <1>2, <2>2 DEF HandsAreApart, Holding
    <3>3. pc[u] = "unpoison" => PtrToChunk(regs[u].ptr)' = regs[u].chunk
      <4> SUFFICES ASSUME pc[u] = "unpoison" PROVE PtrToChunk(regs[u].ptr)' = regs[u].chunk
        OBVIOUS
      <4>1. PICK b \in Nat : b = regs[u].ptr /\ PtrToChunk(b) \in DOMAIN header /\ PtrToChunk(b) = regs[u].chunk
        BY <1>4, <3>1 DEF HandIsRight, HasState, Registers
      <4>2. PtrToChunk(b)' = PtrToChunk(b)
        BY <1>8, <4>1
      <4> QED BY <3>1, <4>1, <4>2
    <3> QED BY <1>0, <1>7, <1>14, <3>1, <3>2, <3>3 DEF HandIsRight, HasState, Holding
  <2> QED BY <1>2, <1>11, <2>1, <2>2 DEF HandsAreRight
<1>21. ListsAreApart'
  BY <1>0, <1>2, <1>10 DEF ListsAreApart
<1>22. HandsAreApart'
  <2>1. \A p, q : IsOpen(p)' /\ IsOpen(q)' /\ PtrToChunk(p)' = PtrToChunk(q)' => p = q
    BY <1>2, <1>12, <1>13 DEF HandsAreApart
  <2>2. \A u \in Threads : pc'[u] = "unpoison" => \A p : IsOpen(p)' => regs'[u].chunk # PtrToChunk(p)'
    <3> SUFFICES ASSUME NEW u \in Threads, pc'[u] = "unpoison", NEW p, IsOpen(p)
                 PROVE  regs'[u].chunk # PtrToChunk(p)
      BY <1>12, <1>13
    <3>1. CASE u = t
      BY <1>9, <1>13, <3>1
    <3>2. CASE u # t
      BY <1>2, <1>9, <3>2 DEF HandsAreApart
    <3> QED BY <3>1, <3>2
  <2>3. \A u, v \in Threads : u # v /\ pc'[u] \in Holding /\ pc'[v] \in Holding => regs'[u].chunk # regs'[v].chunk
    <3>1. /\ \A u, v \in Threads : u # v /\ pc[u] \in Holding /\ pc[v] \in Holding => regs[u].chunk # regs[v].chunk
          /\ pc[t] \in Holding
      BY <1>0, <1>2 DEF HandsAreApart, Holding
    <3>2. \A u \in Threads : regs'[u].chunk = regs[u].chunk /\ (pc'[u] \in Holding => pc[u] \in Holding)
      BY <1>1, <1>9, <3>1
    <3> QED BY <3>1, <3>2
  <2>4. \A u \in Threads :
          /\ pc'[u] = "header" => \A x \in Owners, cls \in Classes : regs'[u].chunk \notin Free(x, cls)
          /\ pc'[u] \in {"poison", "push"} => \A x \in Owners : regs'[u].chunk \notin Quar(x)
          /\ pc'[u] \in Holding => regs'[u].chunk \notin lost
    BY <1>2, <1>3, <1>9 DEF HandsAreApart, Holding
  <2> QED BY <1>0, <1>2, <1>10, <2>1, <2>2, <2>3, <2>4 DEF HandsAreApart
<1>23. AllAreSomewhere'
  <2>1. ASSUME NEW m \in DOMAIN header PROVE IsSomewhere(m)'
    <3>1. CASE m = k
      BY <1>7, <1>9, <3>1 DEF IsSomewhere, InSomeHand
    <3>2. CASE m # k
      <4>1. \A at : InSomeHand(m, at) => InSomeHand(m, at)'
        BY <1>1, <1>9, <3>2 DEF InSomeHand
      <4>2. (\E p : IsOpen(p) /\ PtrToChunk(p) = m) => \E p : IsOpen(p)' /\ PtrToChunk(p)' = m
        BY <1>12, <1>13
      <4>3. IsSomewhere(m) /\ header'[m] = header[m]
        BY <1>2, <1>7, <3>2 DEF AllAreSomewhere
      <4> QED BY <1>0, <1>10, <4>1, <4>2, <4>3 DEF IsSomewhere
    <3> QED BY <3>1, <3>2
  <2> QED BY <1>7, <2>1 DEF AllAreSomewhere
<1> QED BY <1>6, <1>8, <1>15, <1>16, <1>17, <1>18, <1>19, <1>20, <1>21, <1>22, <1>23 DEF HeapInv, HeapIsSound


\* What SwallowThreadLocalMallocStorage does to the lists: chunks P leave the
\* quarantines for the free lists, and the thread gives its storage up.
LEMMA SwallowedLists ==
  ASSUME HeapTyped, ThreadsTyped, StatesAreRight, ListsAreApart,
         NEW t \in Threads, NEW eat \in BOOLEAN, SwallowThreadLocalMallocStorage(t, eat)
  PROVE  \E P \in SUBSET Nat :
           /\ P \subseteq Quar(NoThread) \cup Quar(t)
           /\ quarantine' \in Seq(Nat) /\ IsInjective(quarantine')
           /\ Quar(NoThread)' = (Quar(NoThread) \cup Quar(t)) \ P /\ Quar(t)' = {}
           /\ free_lists' \in [Classes -> Seq(Nat)] /\ local' \in [Threads -> Storages]
           /\ \A cls \in Classes :
                /\ Free(NoThread, cls)' = Free(NoThread, cls) \cup {m \in P : header[m].cls = cls}
                                            \cup (IF eat THEN Free(t, cls) ELSE {})
                /\ Free(t, cls)' = IF eat THEN {} ELSE Free(t, cls)
                /\ IsInjective(free_lists'[cls])
           /\ \A x \in Threads : /\ x # t => local'[x] = local[x]
                                 /\ IsInjective(local'[x].quarantine)
                                 /\ \A cls \in Classes : IsInjective(local'[x].free[cls])
           /\ header' = [m \in DOMAIN header |->
                           IF m \in P THEN [header[m] EXCEPT !.state = "available"] ELSE header[m]]
           /\ shadow' = [a \in DOMAIN shadow |->
                           IF \E m \in P : m <= a /\ a < m + header[m].cls THEN HeapLeft ELSE shadow[a]]
<1> DEFINE lq == local[t].quarantine
           q == IF lq = << >> THEN quarantine ELSE quarantine \o lq
           k == IF lq = << >> THEN 0 ELSE PopCount(q)
           popped == SubSeq(q, 1, k)
           rest == SubSeq(q, k + 1, Len(q))
           Given(cls) == IF eat THEN Reverse(local[t].free[cls]) ELSE << >>
           New(cls) == Given(cls) \o QuarantinePop(popped, cls) \o free_lists[cls]
<1>1. NoThread \notin Threads /\ t \in Owners /\ NoThread \in Owners /\ t # NoThread
      /\ \A x \in Threads : x \in Owners
  BY AllocatorAssumption DEF Owners
<1>2. local \in [Threads -> Storages] /\ quarantine \in Seq(Nat) /\ free_lists \in [Classes -> Seq(Nat)]
  BY DEF HeapTyped, ThreadsTyped
<1>3. /\ \A x \in Threads : QuarantineOf(x) = local[x].quarantine /\ Quar(x) = ToSet(local[x].quarantine)
      /\ QuarantineOf(NoThread) = quarantine /\ Quar(NoThread) = ToSet(quarantine)
      /\ \A cls \in Classes : FreeOf(NoThread, cls) = free_lists[cls] /\ Free(NoThread, cls) = ToSet(free_lists[cls])
      /\ \A x \in Threads, cls \in Classes :
           FreeOf(x, cls) = local[x].free[cls] /\ Free(x, cls) = ToSet(local[x].free[cls])
  BY <1>1 DEF QuarantineOf, Quar, FreeOf, Free
<1>4. lq \in Seq(Nat) /\ local[t].free \in [Classes -> Seq(Nat)]
  BY <1>2 DEF Storages
<1>5. /\ quarantine' = rest
      /\ header' = [m \in DOMAIN header |->
                      IF m \in ToSet(popped) THEN [header[m] EXCEPT !.state = "available"] ELSE header[m]]
      /\ shadow' = [a \in DOMAIN shadow |->
                      IF \E m \in ToSet(popped) : m <= a /\ a < m + header[m].cls THEN HeapLeft ELSE shadow[a]]
      /\ free_lists' = [cls \in Classes |-> New(cls)]
      /\ local' = [local EXCEPT ![t].quarantine = << >>,
                                ![t].free = IF eat THEN [cls \in Classes |-> << >>] ELSE @]
  BY DEF SwallowThreadLocalMallocStorage
<1>6. q \in Seq(Nat) /\ ToSet(q) = ToSet(quarantine) \cup ToSet(lq) /\ IsInjective(q)
  <2>1. IsInjective(quarantine) /\ IsInjective(lq) /\ ToSet(quarantine) \cap ToSet(lq) = {}
    BY <1>1, <1>3 DEF ListsAreApart
  <2>2. /\ quarantine \o lq \in Seq(Nat) /\ ToSet(quarantine \o lq) = ToSet(quarantine) \cup ToSet(lq)
        /\ IsInjective(quarantine) /\ IsInjective(lq) /\ ToSet(quarantine) \cap ToSet(lq) = {} =>
             IsInjective(quarantine \o lq)
    BY <1>2, <1>4, JoinedLists
  <2>3. lq = << >> => ToSet(lq) = {}
    BY EmptyList
  <2> HIDE DEF lq
  <2> QED BY <1>2, <2>1, <2>2, <2>3
<1>7. k \in 0 .. Len(q)
  <2>1. PopCount(q) \in 0 .. Len(q)
    BY <1>6, PopCountInList
  <2>2. Len(q) \in Nat
    BY <1>6
  <2> HIDE DEF q
  <2> QED BY <2>1, <2>2
<1> HIDE DEF q, k
<1>8. /\ popped \in Seq(Nat) /\ rest \in Seq(Nat)
      /\ ToSet(popped) \cup ToSet(rest) = ToSet(q)
      /\ IsInjective(popped) /\ IsInjective(rest) /\ ToSet(popped) \cap ToSet(rest) = {}
  <2>1. LET a == SubSeq(q, 1, k)
            b == SubSeq(q, k + 1, Len(q))
        IN  /\ a \in Seq(Nat) /\ b \in Seq(Nat) /\ Len(a) = k
            /\ ToSet(a) \cup ToSet(b) = ToSet(q)
            /\ IsInjective(q) => IsInjective(a) /\ IsInjective(b) /\ ToSet(a) \cap ToSet(b) = {}
    BY <1>6, <1>7, CutList
  <2> QED BY <1>6, <2>1
<1> HIDE DEF popped, rest, lq
<1>9. PICK P \in SUBSET Nat : P = ToSet(popped)
  <2>1. ToSet(popped) \subseteq Nat
    BY <1>8 DEF ToSet
  <2> QED BY <2>1
<1>10. P \subseteq Quar(NoThread) \cup Quar(t) /\ ToSet(rest) = (Quar(NoThread) \cup Quar(t)) \ P
  BY <1>3, <1>6, <1>8, <1>9 DEF lq
<1>11. /\ \A x \in Threads : x # t => local'[x] = local[x]
       /\ local'[t].quarantine = << >>
       /\ local'[t].free = IF eat THEN [cls \in Classes |-> << >>] ELSE local[t].free
       /\ local' \in [Threads -> Storages]
  <2>1. [cls \in Classes |-> << >>] \in [Classes -> Seq(Nat)] /\ << >> \in Seq(Nat)
    BY EmptyList
  <2> QED BY <1>2, <1>4, <1>5, <2>1 DEF Storages
<1>12. ASSUME NEW cls \in Classes
       PROVE  /\ New(cls) \in Seq(Nat) /\ IsInjective(New(cls))
              /\ ToSet(New(cls)) = ToSet(free_lists[cls]) \cup {m \in P : header[m].cls = cls}
                                     \cup (IF eat THEN ToSet(local[t].free[cls]) ELSE {})
  <2> DEFINE g == Given(cls)
             p == QuarantinePop(popped, cls)
             l == free_lists[cls]
             mine == local[t].free[cls]
  <2>1. /\ l \in Seq(Nat) /\ IsInjective(l) /\ mine \in Seq(Nat) /\ IsInjective(mine)
        /\ ToSet(mine) \cap ToSet(l) = {}
        /\ ToSet(l) = Free(NoThread, cls) /\ ToSet(mine) = Free(t, cls)
    BY <1>1, <1>2, <1>3, <1>4 DEF ListsAreApart
  <2>2. g \in Seq(Nat) /\ IsInjective(g) /\ ToSet(g) = IF eat THEN ToSet(mine) ELSE {}
    <3>1. /\ Reverse(mine) \in Seq(Nat) /\ ToSet(Reverse(mine)) = ToSet(mine)
          /\ IsInjective(mine) => IsInjective(Reverse(mine))
      BY <2>1, ReversedList
    <3> QED BY <2>1, <3>1, EmptyList
  <2>3. p \in Seq(Nat) /\ IsInjective(p) /\ ToSet(p) = {m \in P : header[m].cls = cls}
    BY <1>8, <1>9, PoppedChunks
  <2>4. ToSet(p) \cap (ToSet(l) \cup ToSet(mine)) = {}
    <3>1. \A m \in ToSet(p) : HasState(m, "quarantine")
      BY <1>1, <1>10, <2>3 DEF StatesAreRight
    <3>2. \A m \in ToSet(l) \cup ToSet(mine) : HasState(m, "available")
      BY <1>1, <2>1 DEF StatesAreRight
    <3> QED BY <3>1, <3>2 DEF HasState
  <2>5. ToSet(g) \cap ToSet(l) = {} /\ ToSet(g) \cap ToSet(p) = {}
    BY <2>1, <2>2, <2>4
  <2>6. New(cls) = (g \o p) \o l
    OBVIOUS
  <2> HIDE DEF g, p, l, mine, New
  <2>7. g \o p \in Seq(Nat) /\ ToSet(g \o p) = ToSet(g) \cup ToSet(p) /\ IsInjective(g \o p)
    BY <2>2, <2>3, <2>5, JoinedLists
  <2>8. ToSet(g \o p) \cap ToSet(l) = {}
    BY <2>4, <2>5, <2>7
  <2> DEFINE gp == g \o p
  <2> HIDE DEF gp
  <2>9. gp \o l \in Seq(Nat) /\ ToSet(gp \o l) = ToSet(gp) \cup ToSet(l) /\ IsInjective(gp \o l)
    <3>1. gp \in Seq(Nat) /\ l \in Seq(Nat) /\ IsInjective(gp) /\ IsInjective(l) /\ ToSet(gp) \cap ToSet(l) = {}
      BY <2>1, <2>7, <2>8 DEF gp
    <3>2. /\ gp \o l \in Seq(Nat) /\ ToSet(gp \o l) = ToSet(gp) \cup ToSet(l)
          /\ IsInjective(gp) /\ IsInjective(l) /\ ToSet(gp) \cap ToSet(l) = {} => IsInjective(gp \o l)
      BY <3>1, JoinedLists
    <3> QED BY <3>1, <3>2
  <2> QED BY <2>2, <2>3, <2>6, <2>7, <2>9 DEF gp, l, mine
<1> HIDE DEF New, Given
<1>13. /\ free_lists' \in [Classes -> Seq(Nat)]
       /\ \A cls \in Classes : free_lists'[cls] = New(cls)
  BY <1>5, <1>12
<1>14. ASSUME NEW cls \in Classes
       PROVE  /\ Free(NoThread, cls)' = ToSet(New(cls))
              /\ Free(t, cls)' = IF eat THEN {} ELSE Free(t, cls)
  <2>1. Free(NoThread, cls)' = ToSet(New(cls))
    BY <1>1, <1>13 DEF Free, FreeOf
  <2>2. Free(t, cls)' = ToSet(local'[t].free[cls])
    BY <1>1 DEF Free, FreeOf
  <2> QED BY <1>3, <1>11, <2>1, <2>2, EmptyList
<1>15. Quar(NoThread)' = ToSet(rest) /\ Quar(t)' = {}
  BY <1>1, <1>5, <1>11, EmptyList DEF Quar, QuarantineOf
<1>16. ASSUME NEW x \in Threads
       PROVE  IsInjective(local'[x].quarantine) /\ \A cls \in Classes : IsInjective(local'[x].free[cls])
  <2>1. IsInjective(local[x].quarantine) /\ \A cls \in Classes : IsInjective(local[x].free[cls])
    BY <1>1, <1>3 DEF ListsAreApart
  <2>2. IsInjective(<< >>)
    BY EmptyList
  <2>3. CASE x # t
    BY <1>11, <2>1, <2>3
  <2>4. CASE x = t
    BY <1>11, <2>1, <2>2, <2>4
  <2> QED BY <2>3, <2>4
<1>17. \A cls \in Classes :
         /\ Free(NoThread, cls)' = Free(NoThread, cls) \cup {m \in P : header[m].cls = cls}
                                     \cup (IF eat THEN Free(t, cls) ELSE {})
         /\ Free(t, cls)' = IF eat THEN {} ELSE Free(t, cls)
         /\ IsInjective(free_lists'[cls])
  BY <1>3, <1>12, <1>13, <1>14
<1>18. /\ quarantine' \in Seq(Nat) /\ IsInjective(quarantine')
       /\ Quar(NoThread)' = (Quar(NoThread) \cup Quar(t)) \ P /\ Quar(t)' = {}
  BY <1>5, <1>8, <1>10, <1>15
<1>19. header' = [m \in DOMAIN header |->
                    IF m \in P THEN [header[m] EXCEPT !.state = "available"] ELSE header[m]]
  BY <1>5, <1>9
<1>20. shadow' = [a \in DOMAIN shadow |->
                    IF \E m \in P : m <= a /\ a < m + header[m].cls THEN HeapLeft ELSE shadow[a]]
  BY <1>5, <1>9
<1> QED BY <1>10, <1>11, <1>13, <1>16, <1>17, <1>18, <1>19, <1>20


\* Chunks go from the quarantines to the free lists, and a thread may give its
\* lists back.
LEMMA SwallowSteps ==
  ASSUME HeapInv, NEW t \in Threads, Swallow(t) \/ CommitBack(t)
  PROVE  HeapInv'
<1>1. PICK eat \in BOOLEAN :
        /\ died = "no" /\ SwallowThreadLocalMallocStorage(t, eat)
        /\ pc[t] \in {"swallow", "idle"} /\ pc' = [pc EXCEPT ![t] = "idle"]
        /\ attached' \subseteq attached
        /\ UNCHANGED <<groups, sorted, marks, regs, died, live, returned, lost>>
  <2>1. pc \in [Threads -> Places]
    BY DEF HeapInv, ThreadsTyped
  <2>2. CASE Swallow(t)
    <3>1. /\ died = "no" /\ SwallowThreadLocalMallocStorage(t, FALSE)
          /\ pc[t] = "swallow" /\ pc' = [pc EXCEPT ![t] = "idle"]
          /\ attached' = attached
          /\ UNCHANGED <<groups, sorted, marks, regs, died, live, returned, lost>>
      BY <2>2 DEF Swallow, Running
    <3> QED BY <3>1
  <2>3. CASE CommitBack(t)
    <3>1. /\ died = "no" /\ SwallowThreadLocalMallocStorage(t, TRUE)
          /\ pc[t] = "idle" /\ pc' = pc
          /\ attached' = attached \ {t}
          /\ UNCHANGED <<groups, sorted, marks, regs, died, live, returned, lost>>
      BY <2>3 DEF CommitBack, Running
    <3>2. pc' = [pc EXCEPT ![t] = "idle"]
      BY <2>1, <3>1
    <3> QED BY <3>1, <3>2
  <2> QED BY <2>2, <2>3
<1>0. /\ HeapTyped /\ ThreadsTyped /\ ListsHaveHeaders /\ HeapIsSound
      /\ ChunksAreApart /\ MarksLeadBack /\ PointersHaveChunks
      /\ StatesAreRight /\ HandsAreRight /\ ListsAreApart /\ HandsAreApart /\ AllAreSomewhere
  BY <1>1 DEF HeapInv, HeapIsSound
<1>2. PICK P \in SUBSET Nat :
           /\ P \subseteq Quar(NoThread) \cup Quar(t)
           /\ quarantine' \in Seq(Nat) /\ IsInjective(quarantine')
           /\ Quar(NoThread)' = (Quar(NoThread) \cup Quar(t)) \ P /\ Quar(t)' = {}
           /\ free_lists' \in [Classes -> Seq(Nat)] /\ local' \in [Threads -> Storages]
           /\ \A cls \in Classes :
                /\ Free(NoThread, cls)' = Free(NoThread, cls) \cup {m \in P : header[m].cls = cls}
                                            \cup (IF eat THEN Free(t, cls) ELSE {})
                /\ Free(t, cls)' = IF eat THEN {} ELSE Free(t, cls)
                /\ IsInjective(free_lists'[cls])
           /\ \A x \in Threads : /\ x # t => local'[x] = local[x]
                                 /\ IsInjective(local'[x].quarantine)
                                 /\ \A cls \in Classes : IsInjective(local'[x].free[cls])
           /\ header' = [m \in DOMAIN header |->
                           IF m \in P THEN [header[m] EXCEPT !.state = "available"] ELSE header[m]]
           /\ shadow' = [a \in DOMAIN shadow |->
                           IF \E m \in P : m <= a /\ a < m + header[m].cls THEN HeapLeft ELSE shadow[a]]
  BY <1>0, <1>1, SwallowedLists
<1>3. /\ NoThread \notin Threads /\ t \in Owners /\ NoThread \in Owners /\ t # NoThread
      /\ \A x \in Owners : x \in Threads \/ x = NoThread
      /\ \A x \in Threads : x \in Owners
  BY AllocatorAssumption DEF Owners
<1>4. \A x \in Owners : x # t /\ x # NoThread =>
        Quar(x)' = Quar(x) /\ \A cls \in Classes : Free(x, cls)' = Free(x, cls)
  BY <1>2, <1>3 DEF Quar, QuarantineOf, Free, FreeOf
<1>5. \A m \in P : HasState(m, "quarantine") /\ m \notin lost /\ \A x \in Owners, cls \in Classes : m \notin Free(x, cls)
  BY <1>0, <1>2, <1>3 DEF StatesAreRight, HandsAreApart, HasState
<1>6. /\ header' \in [DOMAIN header -> ChunkBase] /\ DOMAIN header' = DOMAIN header
      /\ \A m \in DOMAIN header : header'[m].cls = header[m].cls /\ header'[m].free = header[m].free
      /\ \A m \in DOMAIN header \ P : header'[m] = header[m]
      /\ \A m \in P : m \in DOMAIN header /\ header'[m].state = "available"
  <2>1. header \in [DOMAIN header -> ChunkBase]
    BY <1>0 DEF HeapTyped
  <2>2. P \subseteq DOMAIN header
    BY <1>5 DEF HasState
  <2>3. /\ DOMAIN header' = DOMAIN header /\ header' = [m \in DOMAIN header |-> header'[m]]
        /\ \A m \in DOMAIN header \ P : header'[m] = header[m]
        /\ \A m \in P : header'[m] = [header[m] EXCEPT !.state = "available"]
    BY <1>2, <2>2
  <2>4. \A m \in P : /\ header'[m] \in ChunkBase /\ header'[m].state = "available"
                     /\ header'[m].cls = header[m].cls /\ header'[m].free = header[m].free
    <3> TAKE m \in P
    <3>1. PICK c \in ChunkBase : c = header[m]
      BY <2>1, <2>2
    <3>2. header'[m] = [c EXCEPT !.state = "available"]
      BY <2>3, <3>1
    <3> QED BY <3>1, <3>2 DEF ChunkBase, States
  <2>5. header' \in [DOMAIN header -> ChunkBase]
    BY <2>1, <2>3, <2>4
  <2> QED BY <2>2, <2>3, <2>4, <2>5
<1>7. \A m, state : m \notin P => (HasState(m, state)' <=> HasState(m, state))
  BY <1>6 DEF HasState
<1>8. \A p : PtrToChunk(p)' = PtrToChunk(p)
  BY <1>1, SamePointers
<1>9. pc'[t] = "idle" /\ \A u \in Threads : u # t => pc'[u] = pc[u]
  BY <1>0, <1>1 DEF ThreadsTyped
<1>10. \A u \in Threads : Owned(u)' = Owned(u)
  BY <1>1, <1>9 DEF Owned
<1>11. \A p : IsOpen(p)' <=> IsOpen(p)
  BY <1>1, <1>10, SameOpenBlocks
<1>12. \A m, at : at \in {{"header"}, {"unpoison"}, {"poison", "push"}} =>
          (InSomeHand(m, at)' <=> InSomeHand(m, at))
  BY <1>1, <1>9 DEF InSomeHand
<1>13. \A x \in Owners : Quar(x)' \subseteq (Quar(NoThread) \cup Quar(t) \cup Quar(x)) \ P
  <2>1. \A x \in Owners : x # t /\ x # NoThread => Quar(x) \cap P = {}
    BY <1>0, <1>2, <1>3 DEF ListsAreApart
  <2> QED BY <1>2, <1>4, <2>1
<1>14. \A x \in Owners, cls \in Classes : \A m \in Free(x, cls)' :
         \/ \E y \in Owners : m \in Free(y, cls)
         \/ m \in P /\ header[m].cls = cls
  <2> SUFFICES ASSUME NEW x \in Owners, NEW cls \in Classes, NEW m \in Free(x, cls)'
               PROVE  (\E y \in Owners : m \in Free(y, cls)) \/ (m \in P /\ header[m].cls = cls)
    OBVIOUS
  <2>1. CASE x = t BY <1>2, <1>3, <2>1
  <2>2. CASE x = NoThread BY <1>2, <1>3, <2>2
  <2>3. CASE x # t /\ x # NoThread BY <1>4, <2>3
  <2> QED BY <2>1, <2>2, <2>3
<1>15. HeapTyped' /\ ThreadsTyped'
  <2>1. DOMAIN header' \subseteq Nat /\ header' \in [DOMAIN header' -> ChunkBase]
    BY <1>0, <1>6 DEF HeapTyped
  <2>2. shadow' \in [DOMAIN shadow' -> ShadowBytes] /\ DOMAIN shadow' \subseteq Nat
    <3>1. /\ DOMAIN shadow' = DOMAIN shadow
          /\ \A a \in DOMAIN shadow : shadow'[a] = HeapLeft \/ shadow'[a] = shadow[a]
          /\ shadow' = [a \in DOMAIN shadow |-> shadow'[a]]
      BY <1>1 DEF SwallowThreadLocalMallocStorage
    <3>2. HeapLeft \in ShadowBytes
      BY DEF ShadowBytes, Magic
    <3>3. shadow \in [DOMAIN shadow -> ShadowBytes] /\ DOMAIN shadow \subseteq Nat
      BY <1>0 DEF HeapTyped
    <3>4. \A a \in DOMAIN shadow : shadow'[a] \in ShadowBytes
      BY <3>1, <3>2, <3>3
    <3> QED BY <3>1, <3>3, <3>4
  <2>3. HeapTyped'
    BY <1>0, <1>1, <1>2, <2>1, <2>2 DEF HeapTyped
  <2>4. pc' \in [Threads -> Places]
    BY <1>0, <1>1 DEF ThreadsTyped, Places
  <2>5. ThreadsTyped'
    BY <1>0, <1>1, <1>2, <2>4 DEF ThreadsTyped, Reports
  <2> QED BY <2>3, <2>5
<1>16. ListsHaveHeaders'
  <2>1. \A x \in Owners, cls \in Classes : \A m \in Free(x, cls)' : m \in DOMAIN header /\ header[m].cls = cls
    BY <1>0, <1>6, <1>14 DEF ListsHaveHeaders
  <2>2. \A x \in Owners : Quar(x)' \subseteq DOMAIN header
    BY <1>0, <1>3, <1>13 DEF ListsHaveHeaders
  <2> QED BY <1>6, <2>1, <2>2 DEF ListsHaveHeaders
<1>17. ChunksAreApart' /\ MarksLeadBack' /\ PointersHaveChunks'
  <2>1. ChunksAreApart'
    BY <1>0, <1>1, <1>6 DEF ChunksAreApart
  <2>2. MarksLeadBack'
    BY <1>0, <1>1, <1>6 DEF MarksLeadBack
  <2>3. PointersHaveChunks'
    BY <1>0, <1>1, <1>6, <1>8 DEF PointersHaveChunks
  <2> QED BY <2>1, <2>2, <2>3
<1>18. StatesAreRight'
  <2>1. \A x \in Owners, cls \in Classes : \A m \in Free(x, cls)' : HasState(m, "available")'
    BY <1>0, <1>5, <1>6, <1>7, <1>14 DEF StatesAreRight, HasState
  <2>2. \A x \in Owners : \A m \in Quar(x)' : HasState(m, "quarantine")'
    BY <1>0, <1>3, <1>7, <1>13 DEF StatesAreRight
  <2>3. \A m \in lost : m \in DOMAIN header /\ header'[m].state # "allocated"
    BY <1>0, <1>5, <1>6 DEF StatesAreRight
  <2>4. ASSUME NEW p, IsOpen(p) PROVE p \in returned /\ HasState(PtrToChunk(p), "allocated")'
    <3>1. PICK n : n = PtrToChunk(p)
      OBVIOUS
    <3>2. p \in returned /\ HasState(n, "allocated") /\ n \notin P
      BY <1>0, <1>5, <2>4, <3>1 DEF StatesAreRight, HasState
    <3> QED BY <1>7, <1>8, <3>1, <3>2
  <2>5. \A m \in DOMAIN header : header'[m].state = "allocated" => header'[m].free = InvalidTid
    BY <1>0, <1>6 DEF StatesAreRight
  <2> QED BY <1>1, <1>6, <1>8, <1>11, <2>1, <2>2, <2>3, <2>4, <2>5 DEF StatesAreRight
<1>19. HandsAreRight'
  <2>1. HandIsRight(t)'
    BY <1>0, <1>1, <1>9 DEF HandsAreRight, HandIsRight
  <2>2. ASSUME NEW u \in Threads, u # t PROVE HandIsRight(u)'
    <3>1. HandIsRight(u) /\ pc'[u] = pc[u] /\ regs'[u] = regs[u]
      BY <1>0, <1>1, <1>9, <2>2 DEF HandsAreRight
    <3>2. pc[u] \in Holding => regs[u].chunk \notin P
      BY <1>0, <1>2, <1>3, <1>5, <3>1 DEF HandIsRight, HasState, Holding, HandsAreApart
    <3> QED BY <1>1, <1>6, <1>7, <1>8, <3>1, <3>2 DEF HandIsRight, HasState, Holding
  <2> QED BY <1>0, <1>10, <2>1, <2>2 DEF HandsAreRight
<1>20. ListsAreApart'
  <2>1. ASSUME NEW x \in Owners PROVE IsInjective(QuarantineOf(x)') /\ \A cls \in Classes : IsInjective(FreeOf(x, cls)')
    BY <1>2, <1>3 DEF QuarantineOf, FreeOf
  <2>2. ASSUME NEW x \in Owners, NEW y \in Owners, x # y PROVE Quar(x)' \cap Quar(y)' = {}
    <3>1. \A z \in Owners : z # t /\ z # NoThread => Quar(z) \cap (Quar(NoThread) \cup Quar(t)) = {}
      BY <1>0, <1>3 DEF ListsAreApart
    <3>2. CASE x = t \/ y = t
      BY <1>2, <3>2
    <3>3. CASE x # t /\ y # t
      BY <1>0, <1>2, <1>4, <2>2, <3>1, <3>3 DEF ListsAreApart
    <3> QED BY <3>2, <3>3
  <2>3. ASSUME NEW x \in Owners, NEW y \in Owners, x # y, NEW cls \in Classes PROVE Free(x, cls)' \cap Free(y, cls)' = {}
    <3>1. \A z \in Owners : z # t => Free(z, cls) \cap Free(t, cls) = {}
      BY <1>0, <1>3 DEF ListsAreApart
    <3>2. \A z \in Owners : z # NoThread => Free(z, cls) \cap Free(NoThread, cls) = {}
      BY <1>0, <1>3 DEF ListsAreApart
    <3>3. \A z \in Owners : z # NoThread => Free(z, cls)' \cap Free(NoThread, cls)' = {}
      <4> SUFFICES ASSUME NEW z \in Owners, z # NoThread PROVE Free(z, cls)' \cap Free(NoThread, cls)' = {}
        OBVIOUS
      <4>1. CASE z = t
        <5>1. Free(t, cls) \cap Free(NoThread, cls) = {} /\ Free(t, cls) \cap P = {}
          BY <1>3, <1>5, <3>2
        <5>2. Free(t, cls)' \cap Free(NoThread, cls)' = {}
          <6>1. CASE eat
            BY <1>2, <6>1
          <6>2. CASE ~eat
            <7>1. /\ Free(t, cls)' = Free(t, cls)
                  /\ Free(NoThread, cls)' \subseteq Free(NoThread, cls) \cup P
              BY <1>2, <6>2
            <7> QED BY <5>1, <7>1
          <6> QED BY <6>1, <6>2
        <5> QED BY <4>1, <5>2
      <4>2. CASE z # t
        BY <1>2, <1>4, <1>5, <3>1, <3>2, <4>2
      <4> QED BY <4>1, <4>2
    <3>4. \A z \in Owners : z # t /\ z # NoThread => Free(z, cls)' \cap Free(t, cls)' = {}
      BY <1>2, <1>4, <3>1
    <3>5. CASE x = NoThread \/ y = NoThread
      BY <2>3, <3>3, <3>5
    <3>6. CASE x = t \/ y = t
      BY <2>3, <3>3, <3>4, <3>6
    <3>7. CASE x # t /\ y # t /\ x # NoThread /\ y # NoThread
      BY <1>0, <1>4, <2>3, <3>7 DEF ListsAreApart
    <3> QED BY <3>5, <3>6, <3>7
  <2> QED BY <2>1, <2>2, <2>3 DEF ListsAreApart
<1>21. HandsAreApart'
  <2>1. \A u, v \in Threads : u # v /\ pc'[u] \in Holding /\ pc'[v] \in Holding => regs'[u].chunk # regs'[v].chunk
    <3>1. \A u \in Threads : pc'[u] \in Holding => pc[u] \in Holding
      BY <1>9 DEF Holding
    <3> QED BY <1>0, <1>1, <3>1 DEF HandsAreApart
  <2>2. \A p, q : IsOpen(p)' /\ IsOpen(q)' /\ PtrToChunk(p)' = PtrToChunk(q)' => p = q
    BY <1>0, <1>8, <1>11 DEF HandsAreApart
  <2>3. ASSUME NEW u \in Threads
        PROVE  /\ pc'[u] = "header" => \A x \in Owners, cls \in Classes : regs'[u].chunk \notin Free(x, cls)'
               /\ pc'[u] \in {"poison", "push"} => \A x \in Owners : regs'[u].chunk \notin Quar(x)'
               /\ pc'[u] = "unpoison" => \A p : IsOpen(p)' => regs'[u].chunk # PtrToChunk(p)'
               /\ pc'[u] \in Holding => regs'[u].chunk \notin lost'
    <3>1. CASE u = t
      BY <1>9, <3>1 DEF Holding
    <3>2. CASE u # t
      <4>1. pc'[u] = pc[u] /\ regs'[u] = regs[u]
        BY <1>1, <1>9, <3>2
      <4>2. pc[u] = "header" => regs[u].chunk \notin P
        BY <1>0, <1>5 DEF HandsAreRight, HandIsRight, HasState
      <4>3. pc[u] = "header" => \A x \in Owners, cls \in Classes : regs[u].chunk \notin Free(x, cls)'
        BY <1>0, <1>14, <4>2 DEF HandsAreApart
      <4>4. pc[u] \in {"poison", "push"} => \A x \in Owners : regs[u].chunk \notin Quar(x)'
        BY <1>0, <1>3, <1>13 DEF HandsAreApart
      <4> QED BY <1>0, <1>1, <1>8, <1>11, <4>1, <4>3, <4>4 DEF HandsAreApart
    <3> QED BY <3>1, <3>2
  <2>4. \A x \in Owners : lost' \cap Quar(x)' = {} /\ \A cls \in Classes : lost' \cap Free(x, cls)' = {}
    <3> SUFFICES ASSUME NEW x \in Owners
                 PROVE  lost \cap Quar(x)' = {} /\ \A cls \in Classes : lost \cap Free(x, cls)' = {}
      BY <1>1
    <3>1. \A y \in Owners : lost \cap Quar(y) = {} /\ \A cls \in Classes : lost \cap Free(y, cls) = {}
      BY <1>0 DEF HandsAreApart
    <3>2. lost \cap Quar(x)' = {}
      BY <1>3, <1>13, <3>1
    <3>3. \A cls \in Classes : lost \cap Free(x, cls)' = {}
      BY <1>5, <1>14, <3>1
    <3> QED BY <3>2, <3>3
  <2> QED BY <2>1, <2>2, <2>3, <2>4 DEF HandsAreApart
<1>22. AllAreSomewhere'
  <2>1. ASSUME NEW m \in DOMAIN header PROVE IsSomewhere(m)'
    <3>1. IsSomewhere(m) /\ header[m].cls \in Classes
      BY <1>0 DEF AllAreSomewhere, HeapTyped, ChunkBase
    <3>2. CASE m \in P
      BY <1>2, <1>3, <1>6, <3>1, <3>2 DEF IsSomewhere
    <3>3. CASE m \notin P
      <4>1. header'[m] = header[m] /\ lost' = lost
        BY <1>1, <1>6, <3>3
      <4>2. (\E x \in Owners : m \in Quar(x)) => \E x \in Owners : m \in Quar(x)'
        <5> SUFFICES ASSUME NEW x \in Owners, m \in Quar(x) PROVE \E y \in Owners : m \in Quar(y)'
          OBVIOUS
        <5>1. CASE x = t \/ x = NoThread
          BY <1>2, <1>3, <3>3, <5>1
        <5>2. CASE x # t /\ x # NoThread
          BY <1>4, <5>2
        <5> QED BY <5>1, <5>2
      <4>3. ASSUME NEW cls \in Classes
            PROVE  (\E x \in Owners : m \in Free(x, cls)) => \E x \in Owners : m \in Free(x, cls)'
        <5> SUFFICES ASSUME NEW x \in Owners, m \in Free(x, cls) PROVE \E y \in Owners : m \in Free(y, cls)'
          OBVIOUS
        <5>1. CASE x = NoThread
          BY <1>2, <1>3, <5>1
        <5>2. CASE x = t
          BY <1>2, <1>3, <5>2
        <5>3. CASE x # t /\ x # NoThread
          BY <1>4, <5>3
        <5> QED BY <5>1, <5>2, <5>3
      <4>4. (\E p : IsOpen(p) /\ PtrToChunk(p) = m) => \E p : IsOpen(p)' /\ PtrToChunk(p)' = m
        BY <1>8, <1>11
      <4> QED BY <1>12, <3>1, <4>1, <4>2, <4>3, <4>4 DEF IsSomewhere
    <3> QED BY <3>2, <3>3
  <2> QED BY <1>6, <2>1 DEF AllAreSomewhere
<1> QED BY <1>1, <1>15, <1>16, <1>17, <1>18, <1>19, <1>20, <1>21, <1>22 DEF HeapInv, HeapIsSound


\* The list chunks are taken from: a free list, or one refilled from a new group.
NewGroup(base, cls) ==
  [beg |-> base, end |-> base + GroupSize(cls), size |-> cls,
   last |-> base + cls * (ChunkCount(cls) - 1), at |-> base + ChunkCount(cls) * cls]
IsRefilled(all, cls, n) ==
  \/ all = free_lists[cls] /\ Len(all) >= n /\ UNCHANGED <<groups, header, shadow>>
  \/ /\ Len(free_lists[cls]) < n
     /\ \E base \in Bases :
          /\ BaseIsUnused(base, cls) /\ all = free_lists[cls] \o NewChunks(base, cls)
          /\ header' = Over([m \in ToSet(NewChunks(base, cls)) |-> FreshChunk(cls)], header)
          /\ groups' = Append(groups, NewGroup(base, cls))
          /\ shadow' = Over([a \in {base + i * Granularity :
                                      i \in 0 .. GroupSize(cls) \div Granularity - 1}
                               |-> HeapLeft], shadow)

\* A chunk is taken from the thread's list, or n from the list of its class.
LEMMA TakenChunk ==
  ASSUME NEW t, NEW request, TakeChunk(t, request)
  PROVE  LET cls == SizeToSizeClass(NeededSize(request.size, request.alignment))
             Got(m) == regs' = [regs EXCEPT ![t] = [request EXCEPT !.chunk = m]]
         IN
         \/ /\ Got(local[t].free[cls][1]) /\ t \in attached
            /\ local[t].free[cls] # << >>
            /\ local' = [local EXCEPT ![t].free[cls] = Tail(@)]
            /\ UNCHANGED <<groups, header, free_lists, shadow>>
         \/ \E n, all, taken :
              /\ IsRefilled(all, cls, n) /\ taken = Reverse(SubSeq(all, 1, n))
              /\ free_lists' = [free_lists EXCEPT ![cls] = SubSeq(all, n + 1, Len(all))]
              /\ Got(taken[1])
              /\ \/ n = 1 /\ UNCHANGED local
                 \/ /\ t \in attached /\ cls < LocalMax /\ n = LocalMax \div cls
                    /\ local[t].free[cls] = << >>
                    /\ local' = [local EXCEPT ![t].free[cls] = Tail(taken)]
<1> DEFINE cls == SizeToSizeClass(NeededSize(request.size, request.alignment))
           Got(m) == regs' = [regs EXCEPT ![t] = [request EXCEPT !.chunk = m]]
           FromLocal == t \in attached /\ cls < LocalMax
           Kept(taken) == local' = [local EXCEPT ![t].free[cls] = Tail(taken)]
<1>1. \/ /\ ~FromLocal /\ AllocateChunks(cls, 1, LAMBDA taken : Got(taken[1])) /\ UNCHANGED local
      \/ /\ FromLocal /\ local[t].free[cls] = << >>
         /\ AllocateChunks(cls, LocalMax \div cls, LAMBDA taken : Got(taken[1]) /\ Kept(taken))
      \/ /\ FromLocal /\ local[t].free[cls] # << >>
         /\ Got(local[t].free[cls][1])
         /\ local' = [local EXCEPT ![t].free[cls] = Tail(@)]
         /\ UNCHANGED <<groups, header, free_lists, shadow>>
  BY DEF TakeChunk
<1>2. ASSUME NEW n, AllocateChunks(cls, n, LAMBDA taken : Got(taken[1]))
      PROVE  \E all, taken :
               /\ IsRefilled(all, cls, n) /\ taken = Reverse(SubSeq(all, 1, n))
               /\ free_lists' = [free_lists EXCEPT ![cls] = SubSeq(all, n + 1, Len(all))]
               /\ Got(taken[1])
  <2> DEFINE old == free_lists[cls]
             new(base) == old \o NewChunks(base, cls)
             Goal(all, taken) ==
               /\ IsRefilled(all, cls, n) /\ taken = Reverse(SubSeq(all, 1, n))
               /\ free_lists' = [free_lists EXCEPT ![cls] = SubSeq(all, n + 1, Len(all))]
               /\ Got(taken[1])
  <2> HIDE DEF cls, Got
  <2>1. \/ /\ Len(old) >= n /\ Got(Reverse(SubSeq(old, 1, n))[1])
           /\ free_lists' = [free_lists EXCEPT ![cls] = SubSeq(old, n + 1, Len(old))]
           /\ IsRefilled(old, cls, n)
        \/ \E base \in Bases :
             /\ Got(Reverse(SubSeq(new(base), 1, n))[1])
             /\ free_lists' = [free_lists EXCEPT ![cls] = SubSeq(new(base), n + 1, Len(new(base)))]
             /\ IsRefilled(new(base), cls, n)
    BY <1>2 DEF AllocateChunks, IsRefilled, NewGroup
  <2> HIDE DEF old, new
  <2>2. ASSUME Goal(old, Reverse(SubSeq(old, 1, n))) PROVE \E all, taken : Goal(all, taken)
    BY <2>2
  <2>3. ASSUME NEW base \in Bases, Goal(new(base), Reverse(SubSeq(new(base), 1, n)))
        PROVE \E all, taken : Goal(all, taken)
    BY <2>3
  <2> QED BY <2>1, <2>2, <2>3
<1>3. ASSUME NEW n, AllocateChunks(cls, n, LAMBDA taken : Got(taken[1]) /\ Kept(taken))
      PROVE  \E all, taken :
               /\ IsRefilled(all, cls, n) /\ taken = Reverse(SubSeq(all, 1, n))
               /\ free_lists' = [free_lists EXCEPT ![cls] = SubSeq(all, n + 1, Len(all))]
               /\ Got(taken[1]) /\ Kept(taken)
  <2> DEFINE old == free_lists[cls]
             new(base) == old \o NewChunks(base, cls)
             Goal(all, taken) ==
               /\ IsRefilled(all, cls, n) /\ taken = Reverse(SubSeq(all, 1, n))
               /\ free_lists' = [free_lists EXCEPT ![cls] = SubSeq(all, n + 1, Len(all))]
               /\ Got(taken[1]) /\ Kept(taken)
  <2> HIDE DEF cls, Got, Kept
  <2>1. \/ /\ Len(old) >= n /\ Got(Reverse(SubSeq(old, 1, n))[1]) /\ Kept(Reverse(SubSeq(old, 1, n)))
           /\ free_lists' = [free_lists EXCEPT ![cls] = SubSeq(old, n + 1, Len(old))]
           /\ IsRefilled(old, cls, n)
        \/ \E base \in Bases :
             /\ Got(Reverse(SubSeq(new(base), 1, n))[1]) /\ Kept(Reverse(SubSeq(new(base), 1, n)))
             /\ free_lists' = [free_lists EXCEPT ![cls] = SubSeq(new(base), n + 1, Len(new(base)))]
             /\ IsRefilled(new(base), cls, n)
    BY <1>3 DEF AllocateChunks, IsRefilled, NewGroup
  <2> HIDE DEF old, new
  <2>2. ASSUME Goal(old, Reverse(SubSeq(old, 1, n))) PROVE \E all, taken : Goal(all, taken)
    BY <2>2
  <2>3. ASSUME NEW base \in Bases, Goal(new(base), Reverse(SubSeq(new(base), 1, n)))
        PROVE \E all, taken : Goal(all, taken)
    BY <2>3
  <2> QED BY <2>1, <2>2, <2>3
<1> HIDE DEF cls, Got, Kept
<1>4. CASE ~FromLocal /\ AllocateChunks(cls, 1, LAMBDA taken : Got(taken[1])) /\ UNCHANGED local
  BY <1>2, <1>4 DEF Got, cls
<1>5. CASE /\ FromLocal /\ local[t].free[cls] = << >>
           /\ AllocateChunks(cls, LocalMax \div cls, LAMBDA taken : Got(taken[1]) /\ Kept(taken))
  <2>1. PICK n : n = LocalMax \div cls
    OBVIOUS
  <2>2. AllocateChunks(cls, n, LAMBDA taken : Got(taken[1]) /\ Kept(taken))
    BY <1>5, <2>1
  <2>3. PICK all, taken :
          /\ IsRefilled(all, cls, n) /\ taken = Reverse(SubSeq(all, 1, n))
          /\ free_lists' = [free_lists EXCEPT ![cls] = SubSeq(all, n + 1, Len(all))]
          /\ Got(taken[1]) /\ Kept(taken)
    BY <1>3, <2>2
  <2>4. t \in attached /\ cls < LocalMax /\ local[t].free[cls] = << >>
    BY <1>5
  <2> QED BY <2>1, <2>3, <2>4 DEF Got, Kept, cls
<1>6. CASE /\ FromLocal /\ local[t].free[cls] # << >>
           /\ Got(local[t].free[cls][1])
           /\ local' = [local EXCEPT ![t].free[cls] = Tail(@)]
           /\ UNCHANGED <<groups, header, free_lists, shadow>>
  BY <1>6 DEF Got, cls
<1> QED BY <1>1, <1>4, <1>5, <1>6


\* A new group holds chunks that are apart from all others.
LEMMA RefilledList ==
  ASSUME HeapTyped, ListsHaveHeaders, ChunksAreApart, ListsAreApart,
         NEW cls \in Classes, NEW n \in Nat, n <= ChunkCount(cls), NEW all, IsRefilled(all, cls, n)
  PROVE  \E New \in SUBSET Nat :
           /\ New \cap DOMAIN header = {} /\ DOMAIN header' = DOMAIN header \cup New
           /\ \A m \in New : header'[m] = FreshChunk(cls)
           /\ \A m \in DOMAIN header : header'[m] = header[m]
           /\ header' \in [DOMAIN header' -> ChunkBase]
           /\ groups' \in Seq(PageGroups) /\ Len(groups') >= Len(groups)
           /\ shadow' \in [DOMAIN shadow' -> ShadowBytes] /\ DOMAIN shadow' \subseteq Nat
           /\ ChunksAreApart'
           /\ all \in Seq(Nat) /\ IsInjective(all) /\ Len(all) >= n
           /\ ToSet(all) = ToSet(free_lists[cls]) \cup New
<1> DEFINE old == free_lists[cls]
           k == ChunkCount(cls)
           size == GroupSize(cls)
<1>0. /\ header \in [DOMAIN header -> ChunkBase] /\ DOMAIN header \subseteq Nat
      /\ groups \in Seq(PageGroups) /\ shadow \in [DOMAIN shadow -> ShadowBytes] /\ DOMAIN shadow \subseteq Nat
      /\ free_lists \in [Classes -> Seq(Nat)]
  BY DEF HeapTyped
<1>1. NoThread \in Owners /\ NoThread \notin Threads
  BY AllocatorAssumption DEF Owners
<1>2. old \in Seq(Nat) /\ IsInjective(old) /\ ToSet(old) \subseteq DOMAIN header
  BY <1>0, <1>1 DEF ListsAreApart, ListsHaveHeaders, FreeOf, Free
<1>3. CASE all = old /\ Len(all) >= n /\ UNCHANGED <<groups, header, shadow>>
  <2>1. {} \in SUBSET Nat /\ ChunksAreApart' /\ Len(groups) \in Nat
    BY <1>0, <1>3 DEF ChunksAreApart
  <2>2. /\ DOMAIN header' = DOMAIN header \cup {} /\ \A m \in DOMAIN header : header'[m] = header[m]
        /\ header' \in [DOMAIN header' -> ChunkBase]
        /\ groups' \in Seq(PageGroups) /\ Len(groups') >= Len(groups)
        /\ shadow' \in [DOMAIN shadow' -> ShadowBytes] /\ DOMAIN shadow' \subseteq Nat
    BY <1>0, <1>3, <2>1
  <2>3. all \in Seq(Nat) /\ IsInjective(all) /\ Len(all) >= n /\ ToSet(all) = ToSet(old) \cup {}
    BY <1>2, <1>3
  <2> HIDE DEF old
  <2> QED BY <2>1, <2>2, <2>3 DEF old
<1>4. ASSUME Len(old) < n, NEW base \in Bases, BaseIsUnused(base, cls),
             all = old \o NewChunks(base, cls),
             header' = Over([m \in ToSet(NewChunks(base, cls)) |-> FreshChunk(cls)], header),
             groups' = Append(groups, NewGroup(base, cls)),
             shadow' = Over([a \in {base + i * Granularity : i \in 0 .. GroupSize(cls) \div Granularity - 1}
                               |-> HeapLeft], shadow)
      PROVE  \E New \in SUBSET Nat :
           /\ New \cap DOMAIN header = {} /\ DOMAIN header' = DOMAIN header \cup New
           /\ \A m \in New : header'[m] = FreshChunk(cls)
           /\ \A m \in DOMAIN header : header'[m] = header[m]
           /\ header' \in [DOMAIN header' -> ChunkBase]
           /\ groups' \in Seq(PageGroups) /\ Len(groups') >= Len(groups)
           /\ shadow' \in [DOMAIN shadow' -> ShadowBytes] /\ DOMAIN shadow' \subseteq Nat
           /\ ChunksAreApart'
           /\ all \in Seq(Nat) /\ IsInjective(all) /\ Len(all) >= n
           /\ ToSet(all) = ToSet(free_lists[cls]) \cup New
  <2> DEFINE new == NewChunks(base, cls)
  <2>0. base \in Nat
    BY AllocatorAssumption
  <2>1. /\ new \in Seq(Nat) /\ Len(new) = k /\ IsInjective(new)
        /\ \A m \in ToSet(new) : base <= m /\ m + cls <= base + size
        /\ \A l, m \in ToSet(new) : l < m => l + cls <= m
    BY <2>0, NewChunksAreApart
  <2>2. k \in Nat \ {0} /\ size \in Nat /\ k * cls <= size /\ cls \in Nat \ {0}
    BY GroupHoldsChunks, ClassesArePositive
  <2>3. PICK New \in SUBSET Nat : New = ToSet(new)
    <3>1. ToSet(new) \subseteq Nat
      BY <2>1 DEF ToSet
    <3> QED BY <3>1
  <2>4. NewGroup(base, cls) \in PageGroups /\ NewGroup(base, cls).beg = base
        /\ NewGroup(base, cls).end = base + size
    <3>1. cls * (k - 1) \in Nat /\ k * cls \in Nat
      BY <2>2
    <3> HIDE DEF k, size
    <3>2. /\ NewGroup(base, cls) = [beg |-> base, end |-> base + size, size |-> cls,
                                    last |-> base + cls * (k - 1), at |-> base + k * cls]
          /\ base + size \in Nat /\ base + cls * (k - 1) \in Nat /\ base + k * cls \in Nat
      BY <2>0, <2>2, <3>1 DEF NewGroup, k, size
    <3> QED BY <2>0, <3>2 DEF PageGroups
  <2> HIDE DEF new, k, size
  <2>5. /\ \A i \in DOMAIN groups : groups'[i] = groups[i]
        /\ groups'[Len(groups) + 1] = NewGroup(base, cls) /\ Len(groups') = Len(groups) + 1
        /\ groups' \in Seq(PageGroups) /\ Len(groups) \in Nat
        /\ DOMAIN groups = 1 .. Len(groups) /\ DOMAIN groups' = 1 .. Len(groups) + 1
    BY <1>0, <1>4, <2>4
  <2>6. \A m \in DOMAIN header, l \in New : m + header[m].cls <= l \/ l + cls <= m
    <3> SUFFICES ASSUME NEW m \in DOMAIN header, NEW l \in New
                 PROVE  m + header[m].cls <= l \/ l + cls <= m
      OBVIOUS
    <3>1. PICK i \in DOMAIN groups : groups[i].beg <= m /\ m + header[m].cls <= groups[i].end
      BY DEF ChunksAreApart
    <3>2. base + size <= groups[i].beg \/ groups[i].end <= base
      BY <1>4, <3>1 DEF BaseIsUnused, size
    <3>3. base <= l /\ l + cls <= base + size /\ l \in Nat
      BY <2>1, <2>3
    <3>4. m \in Nat /\ header[m].cls \in Nat /\ groups[i].beg \in Nat /\ groups[i].end \in Nat
      <4>1. header[m] \in ChunkBase /\ groups[i] \in PageGroups
        BY <1>0, <2>5
      <4> QED BY <1>0, <4>1, ClassesArePositive DEF ChunkBase, PageGroups
    <3> QED BY <2>0, <2>2, <3>1, <3>2, <3>3, <3>4
  <2>7. \A m \in DOMAIN header : m \in Nat /\ header[m].cls \in Nat \ {0}
    BY <1>0, ClassesArePositive DEF ChunkBase
  <2>8. New \cap DOMAIN header = {}
    <3> SUFFICES ASSUME NEW m \in DOMAIN header, m \in New PROVE FALSE
      OBVIOUS
    <3> QED BY <2>2, <2>6, <2>7
  <2>9. /\ DOMAIN header' = DOMAIN header \cup New
        /\ \A m \in New : header'[m] = FreshChunk(cls)
        /\ \A m \in DOMAIN header : header'[m] = header[m]
        /\ header' = [m \in DOMAIN header' |-> header'[m]]
    BY <1>4, <2>3, <2>8 DEF Over, new
  <2>10. header' \in [DOMAIN header' -> ChunkBase]
    <3>1. FreshChunk(cls) \in ChunkBase
      BY DEF FreshChunk, ChunkBase, States, Tids
    <3> QED BY <1>0, <2>9, <3>1
  <2>11. shadow' \in [DOMAIN shadow' -> ShadowBytes] /\ DOMAIN shadow' \subseteq Nat
    <3> DEFINE S == {base + i * Granularity : i \in 0 .. GroupSize(cls) \div Granularity - 1}
    <3>1. S \subseteq Nat
      <4> SUFFICES ASSUME NEW i \in 0 .. GroupSize(cls) \div Granularity - 1
                   PROVE  base + i * Granularity \in Nat
        OBVIOUS
      <4>1. Granularity \in Nat /\ i \in Nat
        BY <2>2, SizesAreNaturals DEF size
      <4>2. i * Granularity \in Nat
        BY <4>1
      <4> QED BY <2>0, <4>2
    <3>2. shadow' = Over([a \in S |-> HeapLeft], shadow)
      BY <1>4
    <3>3. HeapLeft \in ShadowBytes
      BY DEF ShadowBytes, Magic
    <3> HIDE DEF S
    <3> QED BY <1>0, <3>1, <3>2, <3>3 DEF Over
  <2>12. ChunksAreApart'
    <3>1. \A m \in New : header'[m].cls = cls
      BY <2>9 DEF FreshChunk
    <3>2. \A m, l \in DOMAIN header' : m < l => m + header'[m].cls <= l
      <4> SUFFICES ASSUME NEW m \in DOMAIN header \cup New, NEW l \in DOMAIN header \cup New, m < l
                   PROVE  m + header'[m].cls <= l
        BY <2>9
      <4>1. CASE m \in DOMAIN header /\ l \in DOMAIN header
        BY <2>9, <4>1 DEF ChunksAreApart
      <4>2. CASE m \in New /\ l \in New
        BY <2>1, <2>3, <3>1, <4>2
      <4>3. CASE m \in DOMAIN header /\ l \in New
        BY <2>2, <2>6, <2>7, <2>9, <4>3
      <4>4. CASE m \in New /\ l \in DOMAIN header
        <5>1. l + header[l].cls <= m \/ m + cls <= l
          BY <2>6, <4>4
        <5>2. m \in Nat /\ l \in Nat /\ header[l].cls \in Nat
          BY <2>7, <4>4
        <5> QED BY <2>2, <3>1, <4>4, <5>1, <5>2
      <4> QED BY <4>1, <4>2, <4>3, <4>4
    <3>3. ASSUME NEW m \in DOMAIN header'
          PROVE \E i \in DOMAIN groups' : groups'[i].beg <= m /\ m + header'[m].cls <= groups'[i].end
      <4>1. CASE m \in DOMAIN header
        <5>1. PICK i \in DOMAIN groups : groups[i].beg <= m /\ m + header[m].cls <= groups[i].end
          BY <4>1 DEF ChunksAreApart
        <5> QED BY <2>5, <2>9, <4>1, <5>1
      <4>2. CASE m \in New
        BY <2>1, <2>3, <2>4, <2>5, <3>1, <4>2
      <4> QED BY <2>9, <4>1, <4>2
    <3> QED BY <3>2, <3>3 DEF ChunksAreApart
  <2>13. all \in Seq(Nat) /\ IsInjective(all) /\ ToSet(all) = ToSet(old) \cup New
    <3>1. ToSet(old) \cap ToSet(new) = {}
      BY <1>2, <2>3, <2>8
    <3> HIDE DEF old
    <3>2. /\ old \o new \in Seq(Nat) /\ ToSet(old \o new) = ToSet(old) \cup ToSet(new)
          /\ IsInjective(old) /\ IsInjective(new) /\ ToSet(old) \cap ToSet(new) = {} => IsInjective(old \o new)
      BY <1>2, <2>1, JoinedLists
    <3>3. all = old \o new
      BY <1>4 DEF new, old
    <3> QED BY <1>2, <2>1, <2>3, <3>1, <3>2, <3>3
  <2>14. Len(all) >= n
    <3>1. Len(all) = Len(old) + Len(new) /\ Len(old) \in Nat
      <4>1. all = old \o new
        BY <1>4 DEF new
      <4>2. old \in Seq(Nat) /\ new \in Seq(Nat)
        BY <1>2, <2>1
      <4> HIDE DEF old
      <4>3. Len(old \o new) = Len(old) + Len(new) /\ Len(old) \in Nat
        BY <4>2
      <4> QED BY <4>1, <4>3
    <3>2. n <= k
      BY DEF k
    <3> QED BY <2>1, <2>2, <3>1, <3>2
  <2>15. Len(groups') >= Len(groups)
    BY <2>5
  <2> QED BY <2>5, <2>8, <2>9, <2>10, <2>11, <2>12, <2>13, <2>14, <2>15
<1> QED BY <1>3, <1>4 DEF IsRefilled


\* What TakeChunk does to the lists: chunk k leaves those of its class, to which
\* the chunks New of a new group may have been added.
IsTaken(t, cls, k, New) ==
  /\ New \cap DOMAIN header = {} /\ DOMAIN header' = DOMAIN header \cup New
  /\ \A m \in New : header'[m] = FreshChunk(cls)
  /\ \A m \in DOMAIN header : header'[m] = header[m]
  /\ k \in Free(NoThread, cls) \cup Free(t, cls) \cup New
  /\ Free(NoThread, cls)' \cup Free(t, cls)' = (Free(NoThread, cls) \cup Free(t, cls) \cup New) \ {k}
  /\ Free(NoThread, cls)' \cap Free(t, cls)' = {}
  /\ IsInjective(FreeOf(NoThread, cls)') /\ IsInjective(FreeOf(t, cls)')
  /\ \A x \in Owners, c \in Classes : x \notin {t, NoThread} \/ c # cls => FreeOf(x, c)' = FreeOf(x, c)
  /\ \A x \in Owners : QuarantineOf(x)' = QuarantineOf(x)

LEMMA TakenLists ==
  ASSUME HeapTyped, ThreadsTyped, ListsHaveHeaders, ChunksAreApart, ListsAreApart,
         NEW t \in Threads, NEW request, TakeChunk(t, request), NEW cls \in Classes,
         cls = SizeToSizeClass(NeededSize(request.size, request.alignment))
  PROVE  /\ HeapTyped' /\ local' \in [Threads -> Storages] /\ ChunksAreApart'
         /\ \E k \in Nat, New \in SUBSET Nat :
              IsTaken(t, cls, k, New) /\ regs' = [regs EXCEPT ![t] = [request EXCEPT !.chunk = k]]
<1> DEFINE Got(m) == regs' = [regs EXCEPT ![t] = [request EXCEPT !.chunk = m]]
           mine == local[t].free[cls]
           old == free_lists[cls]
<1>0. /\ header \in [DOMAIN header -> ChunkBase] /\ DOMAIN header \subseteq Nat
      /\ groups \in Seq(PageGroups) /\ sorted \in 0 .. Len(groups) /\ Len(groups) \in Nat
      /\ shadow \in [DOMAIN shadow -> ShadowBytes] /\ DOMAIN shadow \subseteq Nat
      /\ free_lists \in [Classes -> Seq(Nat)] /\ local \in [Threads -> Storages]
      /\ local[t].free \in [Classes -> Seq(Nat)] /\ mine \in Seq(Nat) /\ old \in Seq(Nat)
  BY DEF HeapTyped, ThreadsTyped, Storages
<1>1. /\ NoThread \in Owners /\ NoThread \notin Threads /\ t \in Owners /\ t # NoThread
      /\ \A x \in Owners : x \in Threads \/ x = NoThread
  BY AllocatorAssumption DEF Owners
<1>2. quarantine' = quarantine /\ UNCHANGED <<sorted, marks>>
  BY DEF TakeChunk
<1>3. /\ Free(t, cls) = ToSet(mine) /\ Free(NoThread, cls) = ToSet(old)
      /\ Free(t, cls)' = ToSet(local'[t].free[cls]) /\ Free(NoThread, cls)' = ToSet(free_lists'[cls])
      /\ FreeOf(t, cls)' = local'[t].free[cls] /\ FreeOf(NoThread, cls)' = free_lists'[cls]
      /\ IsInjective(mine) /\ IsInjective(old) /\ ToSet(mine) \cap ToSet(old) = {}
  BY <1>1 DEF Free, FreeOf, ListsAreApart
<1>4. ToSet(old) \cup ToSet(mine) \subseteq DOMAIN header
  BY <1>1, <1>3 DEF ListsHaveHeaders
<1>5. ASSUME NEW f \in Seq(Nat), local' = [local EXCEPT ![t].free[cls] = f]
      PROVE  /\ local'[t].free[cls] = f /\ local'[t].quarantine = local[t].quarantine
             /\ \A c \in Classes : c # cls => local'[t].free[c] = local[t].free[c]
             /\ \A x \in Threads : x # t => local'[x] = local[x]
             /\ local' \in [Threads -> Storages]
  BY <1>0, <1>5 DEF Storages
<1>6. ASSUME NEW g \in Seq(Nat), free_lists' = [free_lists EXCEPT ![cls] = g]
      PROVE  /\ free_lists'[cls] = g /\ \A c \in Classes : c # cls => free_lists'[c] = free_lists[c]
             /\ free_lists' \in [Classes -> Seq(Nat)]
  BY <1>0, <1>6
<1> HIDE DEF mine, old
<1>7. CASE /\ Got(mine[1]) /\ mine # << >>
           /\ local' = [local EXCEPT ![t].free[cls] = Tail(mine)]
           /\ UNCHANGED <<groups, header, free_lists, shadow>>
  <2>1. /\ mine[1] \in ToSet(mine) /\ mine[1] \in Nat /\ Tail(mine) \in Seq(Nat)
        /\ ToSet(mine) = ToSet(Tail(mine)) \cup {mine[1]}
        /\ IsInjective(Tail(mine)) /\ mine[1] \notin ToSet(Tail(mine))
    BY <1>0, <1>3, <1>7, HeadAndTail
  <2>2. /\ local'[t].free[cls] = Tail(mine) /\ local'[t].quarantine = local[t].quarantine
        /\ \A c \in Classes : c # cls => local'[t].free[c] = local[t].free[c]
        /\ \A x \in Threads : x # t => local'[x] = local[x]
        /\ local' \in [Threads -> Storages]
    BY <1>5, <1>7, <2>1
  <2>3. /\ \A x \in Owners, c \in Classes : x \notin {t, NoThread} \/ c # cls => FreeOf(x, c)' = FreeOf(x, c)
        /\ \A x \in Owners : QuarantineOf(x)' = QuarantineOf(x)
    BY <1>1, <1>2, <1>7, <2>2 DEF FreeOf, QuarantineOf
  <2>4. HeapTyped' /\ ChunksAreApart'
    BY <1>2, <1>7 DEF HeapTyped, ChunksAreApart
  <2>5. free_lists'[cls] = old
    BY <1>7 DEF old
  <2>6. IsTaken(t, cls, mine[1], {})
    <3>1. PICK k \in Nat : k = mine[1]
      BY <2>1
    <3>2. Free(NoThread, cls)' \cup Free(t, cls)' = (Free(NoThread, cls) \cup Free(t, cls) \cup {}) \ {k}
      BY <1>3, <2>1, <2>2, <2>5, <3>1
    <3>3. /\ k \in Free(NoThread, cls) \cup Free(t, cls) \cup {}
          /\ Free(NoThread, cls)' \cap Free(t, cls)' = {}
          /\ IsInjective(FreeOf(NoThread, cls)') /\ IsInjective(FreeOf(t, cls)')
      BY <1>3, <2>1, <2>2, <2>5, <3>1
    <3>4. {} \cap DOMAIN header = {} /\ DOMAIN header' = DOMAIN header \cup {}
          /\ \A m \in DOMAIN header : header'[m] = header[m]
      BY <1>7
    <3> QED BY <2>3, <3>1, <3>2, <3>3, <3>4 DEF IsTaken
  <2>7. {} \in SUBSET Nat /\ local' \in [Threads -> Storages]
    BY <2>2
  <2>8. \E k \in Nat, New \in SUBSET Nat : IsTaken(t, cls, k, New) /\ Got(k)
    BY <1>7, <2>1, <2>6, <2>7
  <2> QED BY <2>4, <2>7, <2>8
<1>8. ASSUME NEW n \in Nat \ {0}, n <= ChunkCount(cls), NEW all, NEW taken,
             IsRefilled(all, cls, n), taken = Reverse(SubSeq(all, 1, n)),
             free_lists' = [free_lists EXCEPT ![cls] = SubSeq(all, n + 1, Len(all))],
             Got(taken[1]),
             \/ n = 1 /\ UNCHANGED local
             \/ mine = << >> /\ local' = [local EXCEPT ![t].free[cls] = Tail(taken)]
      PROVE  /\ HeapTyped' /\ local' \in [Threads -> Storages] /\ ChunksAreApart'
             /\ \E k \in Nat, New \in SUBSET Nat : IsTaken(t, cls, k, New) /\ Got(k)
  <2>1. PICK New \in SUBSET Nat :
           /\ New \cap DOMAIN header = {} /\ DOMAIN header' = DOMAIN header \cup New
           /\ \A m \in New : header'[m] = FreshChunk(cls)
           /\ \A m \in DOMAIN header : header'[m] = header[m]
           /\ header' \in [DOMAIN header' -> ChunkBase]
           /\ groups' \in Seq(PageGroups) /\ Len(groups') >= Len(groups)
           /\ shadow' \in [DOMAIN shadow' -> ShadowBytes] /\ DOMAIN shadow' \subseteq Nat
           /\ ChunksAreApart'
           /\ all \in Seq(Nat) /\ IsInjective(all) /\ Len(all) >= n
           /\ ToSet(all) = ToSet(old) \cup New
    <3>1. cls \in Classes /\ n \in Nat /\ n <= ChunkCount(cls) /\ IsRefilled(all, cls, n)
      BY <1>8
    <3> HIDE DEF Got
    <3> QED BY <3>1, RefilledList, Zenon DEF old
  <2> DEFINE a == SubSeq(all, 1, n)
             b == SubSeq(all, n + 1, Len(all))
             k == taken[1]
  <2>2. /\ a \in Seq(Nat) /\ b \in Seq(Nat) /\ Len(a) = n
        /\ ToSet(a) \cup ToSet(b) = ToSet(all)
        /\ IsInjective(a) /\ IsInjective(b) /\ ToSet(a) \cap ToSet(b) = {}
    <3>1. n \in 0 .. Len(all)
      BY <2>1
    <3>2. LET a1 == SubSeq(all, 1, n)
              b1 == SubSeq(all, n + 1, Len(all))
          IN  /\ a1 \in Seq(Nat) /\ b1 \in Seq(Nat) /\ Len(a1) = n
              /\ ToSet(a1) \cup ToSet(b1) = ToSet(all)
              /\ IsInjective(all) => IsInjective(a1) /\ IsInjective(b1) /\ ToSet(a1) \cap ToSet(b1) = {}
      BY <2>1, <3>1, CutList
    <3> QED BY <2>1, <3>2
  <2> HIDE DEF a, b
  <2>3. taken \in Seq(Nat) /\ Len(taken) = n /\ ToSet(taken) = ToSet(a) /\ IsInjective(taken)
    <3>1. /\ Reverse(a) \in Seq(Nat) /\ Len(Reverse(a)) = Len(a) /\ ToSet(Reverse(a)) = ToSet(a)
          /\ IsInjective(a) => IsInjective(Reverse(a))
      BY <2>2, ReversedList
    <3> QED BY <1>8, <2>2, <3>1 DEF a
  <2>4. /\ k \in ToSet(taken) /\ k \in Nat /\ Tail(taken) \in Seq(Nat)
        /\ ToSet(taken) = ToSet(Tail(taken)) \cup {k}
        /\ IsInjective(Tail(taken)) /\ k \notin ToSet(Tail(taken))
    <3>1. taken # << >>
      BY <2>3
    <3> QED BY <2>3, <3>1, HeadAndTail
  <2>5. n = 1 => ToSet(taken) = {k}
    BY <2>3 DEF ToSet
  <2>6. /\ free_lists'[cls] = b /\ \A c \in Classes : c # cls => free_lists'[c] = free_lists[c]
        /\ free_lists' \in [Classes -> Seq(Nat)]
    BY <1>6, <1>8, <2>2 DEF b
  <2> HIDE DEF k
  <2>7. ToSet(all) \cap ToSet(mine) = {}
    BY <1>3, <1>4, <2>1
  <2>8. PICK f \in Seq(Nat) :
          /\ local'[t].free[cls] = f /\ local'[t].quarantine = local[t].quarantine
          /\ \A c \in Classes : c # cls => local'[t].free[c] = local[t].free[c]
          /\ \A x \in Threads : x # t => local'[x] = local[x]
          /\ local' \in [Threads -> Storages]
          /\ IsInjective(f) /\ k \notin ToSet(f) /\ ToSet(f) \cap ToSet(b) = {}
          /\ ToSet(f) \cup {k} \cup ToSet(b) = ToSet(mine) \cup ToSet(all)
    <3>1. CASE n = 1 /\ UNCHANGED local
      <4>1. IsInjective(mine) /\ k \notin ToSet(mine) /\ ToSet(mine) \cap ToSet(b) = {}
            /\ ToSet(mine) \cup {k} \cup ToSet(b) = ToSet(mine) \cup ToSet(all)
        BY <1>3, <2>2, <2>3, <2>5, <2>7, <3>1
      <4> QED BY <1>0, <3>1, <4>1 DEF mine
    <3>2. CASE mine = << >> /\ local' = [local EXCEPT ![t].free[cls] = Tail(taken)]
      <4>1. ToSet(mine) = {}
        BY <3>2, EmptyList
      <4>2. /\ local'[t].free[cls] = Tail(taken) /\ local'[t].quarantine = local[t].quarantine
            /\ \A c \in Classes : c # cls => local'[t].free[c] = local[t].free[c]
            /\ \A x \in Threads : x # t => local'[x] = local[x]
            /\ local' \in [Threads -> Storages]
        BY <1>5, <2>4, <3>2
      <4>3. /\ IsInjective(Tail(taken)) /\ k \notin ToSet(Tail(taken)) /\ ToSet(Tail(taken)) \cap ToSet(b) = {}
            /\ ToSet(Tail(taken)) \cup {k} \cup ToSet(b) = ToSet(mine) \cup ToSet(all)
        BY <2>2, <2>3, <2>4, <4>1
      <4> QED BY <2>4, <4>2, <4>3
    <3> QED BY <1>8, <3>1, <3>2
  <2>9. /\ \A x \in Owners, c \in Classes : x \notin {t, NoThread} \/ c # cls => FreeOf(x, c)' = FreeOf(x, c)
        /\ \A x \in Owners : QuarantineOf(x)' = QuarantineOf(x)
    BY <1>1, <1>2, <2>6, <2>8 DEF FreeOf, QuarantineOf
  <2>10. HeapTyped'
    <3>1. sorted' \in 0 .. Len(groups')
      BY <1>0, <1>2, <2>1
    <3>2. DOMAIN header' \subseteq Nat
      BY <1>0, <2>1
    <3> QED BY <1>2, <2>1, <2>6, <3>1, <3>2 DEF HeapTyped
  <2>11. k \in ToSet(all) /\ k \notin ToSet(b)
    BY <2>2, <2>3, <2>4
  <2>12. IsTaken(t, cls, k, New)
    <3>1. k \in Free(NoThread, cls) \cup Free(t, cls) \cup New
      BY <1>3, <2>1, <2>11
    <3>2. Free(NoThread, cls)' \cup Free(t, cls)' = (Free(NoThread, cls) \cup Free(t, cls) \cup New) \ {k}
      BY <1>3, <2>1, <2>6, <2>8, <2>11
    <3>3. Free(NoThread, cls)' \cap Free(t, cls)' = {}
      BY <1>3, <2>6, <2>8
    <3>4. IsInjective(FreeOf(NoThread, cls)') /\ IsInjective(FreeOf(t, cls)')
      BY <1>3, <2>2, <2>6, <2>8
    <3> QED BY <2>1, <2>9, <3>1, <3>2, <3>3, <3>4 DEF IsTaken
  <2>13. Got(k)
    BY <1>8 DEF k
  <2> QED BY <2>1, <2>4, <2>8, <2>10, <2>12, <2>13
<1>9. \/ /\ Got(mine[1]) /\ mine # << >>
         /\ local' = [local EXCEPT ![t].free[cls] = Tail(mine)]
         /\ UNCHANGED <<groups, header, free_lists, shadow>>
      \/ \E n, all, taken :
              /\ IsRefilled(all, cls, n) /\ taken = Reverse(SubSeq(all, 1, n))
              /\ free_lists' = [free_lists EXCEPT ![cls] = SubSeq(all, n + 1, Len(all))]
              /\ Got(taken[1])
              /\ \/ n = 1 /\ UNCHANGED local
                 \/ /\ t \in attached /\ cls < LocalMax /\ n = LocalMax \div cls
                    /\ mine = << >>
                    /\ local' = [local EXCEPT ![t].free[cls] = Tail(taken)]
  <2> HIDE DEF Got
  <2> QED BY TakenChunk DEF mine, Got
<1>10. ChunkCount(cls) \in Nat \ {0} /\ (cls < LocalMax => LocalMax \div cls \in 1 .. ChunkCount(cls))
  BY GroupHoldsChunks
<1> QED
  <2>1. SUFFICES ASSUME NEW n, NEW all, NEW taken,
              IsRefilled(all, cls, n) /\ taken = Reverse(SubSeq(all, 1, n)),
              free_lists' = [free_lists EXCEPT ![cls] = SubSeq(all, n + 1, Len(all))],
              Got(taken[1]),
              \/ n = 1 /\ UNCHANGED local
              \/ /\ cls < LocalMax /\ n = LocalMax \div cls
                 /\ mine = << >>
                 /\ local' = [local EXCEPT ![t].free[cls] = Tail(taken)]
        PROVE /\ HeapTyped' /\ local' \in [Threads -> Storages] /\ ChunksAreApart'
              /\ \E k \in Nat, New \in SUBSET Nat : IsTaken(t, cls, k, New) /\ Got(k)
    <3> HIDE DEF Got
    <3> QED BY <1>7, <1>9 DEF Got
  <2>2. n \in Nat \ {0} /\ n <= ChunkCount(cls)
    BY <1>10, <2>1
  <2> QED BY <1>8, <2>1, <2>2


\* Memory for a request is a chunk nobody has; the block a realloc replaces stays
\* the call's.
LEMMA TakeStep ==
  ASSUME HeapInv, died = "no", died' = "no", NEW t \in Threads, pc[t] = "idle",
         NEW size \in Nat \ {0}, NEW alignment \in Nat, NEW old \in Nat,
         NEW request, request = [size |-> size, alignment |-> alignment, old |-> old, chunk |-> 0, ptr |-> 0],
         TakeChunk(t, request), NEW cls \in Classes, NeededSize(size, alignment) <= cls,
         cls = SizeToSizeClass(NeededSize(size, alignment)),
         live' \in [DOMAIN live' -> Nat], old # 0 => old \in DOMAIN live,
         DOMAIN live' = DOMAIN live \ (IF old = 0 THEN {} ELSE {old})
  PROVE  HeapInv'
<1>0. /\ HeapTyped /\ ThreadsTyped /\ ListsHaveHeaders /\ HeapIsSound
      /\ ChunksAreApart /\ MarksLeadBack /\ PointersHaveChunks
      /\ StatesAreRight /\ HandsAreRight /\ ListsAreApart /\ HandsAreApart /\ AllAreSomewhere
  BY DEF HeapInv, HeapIsSound
<1>1. /\ HeapTyped' /\ local' \in [Threads -> Storages] /\ ChunksAreApart'
      /\ \E k \in Nat, New \in SUBSET Nat :
           IsTaken(t, cls, k, New) /\ regs' = [regs EXCEPT ![t] = [request EXCEPT !.chunk = k]]
  <2>1. cls = SizeToSizeClass(NeededSize(request.size, request.alignment))
    OBVIOUS
  <2> QED BY <1>0, <2>1, TakenLists
<1>2. PICK k \in Nat, New \in SUBSET Nat :
        IsTaken(t, cls, k, New) /\ regs' = [regs EXCEPT ![t] = [request EXCEPT !.chunk = k]]
  BY <1>1
<1>3. /\ pc' = [pc EXCEPT ![t] = "header"]
      /\ UNCHANGED <<sorted, marks, quarantine, attached, returned, lost>>
  BY DEF TakeChunk
<1>4. /\ NoThread \in Owners /\ NoThread \notin Threads /\ t \in Owners /\ t # NoThread
      /\ \A x \in Owners : x \in Threads \/ x = NoThread
  BY AllocatorAssumption DEF Owners
<1>5. /\ New \cap DOMAIN header = {} /\ DOMAIN header' = DOMAIN header \cup New
      /\ \A m \in New : header'[m].state = "available" /\ header'[m].cls = cls
      /\ \A m \in DOMAIN header : header'[m] = header[m]
  BY <1>2 DEF IsTaken, FreshChunk
<1>6. /\ k \in Free(NoThread, cls) \cup Free(t, cls) \cup New
      /\ Free(NoThread, cls)' \cup Free(t, cls)' = (Free(NoThread, cls) \cup Free(t, cls) \cup New) \ {k}
      /\ Free(NoThread, cls)' \cap Free(t, cls)' = {}
      /\ IsInjective(FreeOf(NoThread, cls)') /\ IsInjective(FreeOf(t, cls)')
  BY <1>2 DEF IsTaken
<1>7. /\ \A x \in Owners, c \in Classes : x \notin {t, NoThread} \/ c # cls =>
           FreeOf(x, c)' = FreeOf(x, c) /\ Free(x, c)' = Free(x, c)
      /\ \A x \in Owners : QuarantineOf(x)' = QuarantineOf(x) /\ Quar(x)' = Quar(x)
  BY <1>2 DEF IsTaken, Free, Quar
<1>8. \A x \in Owners : Free(x, cls) \subseteq DOMAIN header
  BY <1>0 DEF ListsHaveHeaders
<1>9. k \in DOMAIN header' /\ header'[k].state = "available" /\ header'[k].cls = cls
  <2>1. CASE k \in New
    BY <1>5, <2>1
  <2>2. CASE k \notin New
    <3>1. HasState(k, "available") /\ header[k].cls = cls
      BY <1>0, <1>4, <1>6, <2>2 DEF StatesAreRight, ListsHaveHeaders
    <3> QED BY <1>5, <3>1 DEF HasState
  <2> QED BY <2>1, <2>2
<1>10. /\ regs'[t] = [size |-> size, alignment |-> alignment, old |-> old, chunk |-> k, ptr |-> 0]
       /\ pc'[t] = "header" /\ \A u \in Threads : u # t => pc'[u] = pc[u] /\ regs'[u] = regs[u]
  BY <1>0, <1>2, <1>3 DEF ThreadsTyped
<1>11. regs[t].old = 0 /\ Owned(t) = {} /\ Owned(t)' = IF old = 0 THEN {} ELSE {old}
  BY <1>0, <1>10 DEF HandsAreRight, HandIsRight, Owned
<1>12. \A u \in Threads : u # t => Owned(u)' = Owned(u)
  BY <1>10 DEF Owned
<1>13. \A p : IsOpen(p)' <=> IsOpen(p)
  BY <1>11, <1>12 DEF IsOpen
<1>14. \A p : PtrToChunk(p)' = PtrToChunk(p)
  BY <1>3, SamePointers
<1>15. \A m \in DOMAIN header : \A state : HasState(m, state)' <=> HasState(m, state)
  BY <1>5 DEF HasState
<1>16. \A x \in Owners : Free(x, cls)' \subseteq (Free(NoThread, cls) \cup Free(t, cls) \cup Free(x, cls) \cup New) \ {k}
  <2> SUFFICES ASSUME NEW x \in Owners
               PROVE  Free(x, cls)' \subseteq (Free(NoThread, cls) \cup Free(t, cls) \cup Free(x, cls) \cup New) \ {k}
    OBVIOUS
  <2>1. CASE x \in {t, NoThread}
    BY <1>6, <2>1
  <2>2. CASE x \notin {t, NoThread}
    <3>1. k \notin Free(x, cls)
      BY <1>0, <1>4, <1>5, <1>6, <1>8, <2>2 DEF ListsAreApart
    <3> QED BY <1>7, <2>2, <3>1
  <2> QED BY <2>1, <2>2
<1>17. ThreadsTyped'
  <2>1. regs' \in [Threads -> Registers] /\ pc' \in [Threads -> Places]
    BY <1>0, <1>2, <1>3 DEF ThreadsTyped, Registers, Places
  <2>2. DOMAIN live' \subseteq returned'
    BY <1>0, <1>3 DEF ThreadsTyped
  <2> QED BY <1>0, <1>1, <1>3, <2>1, <2>2 DEF ThreadsTyped, Reports
<1>18. ListsHaveHeaders'
  <2>1. ASSUME NEW x \in Owners, NEW c \in Classes, NEW m \in Free(x, c)'
        PROVE  m \in DOMAIN header' /\ header'[m].cls = c
    <3>1. CASE c # cls
      BY <1>0, <1>5, <1>7, <2>1, <3>1 DEF ListsHaveHeaders
    <3>2. CASE c = cls
      <4>1. m \in New \/ \E y \in Owners : m \in Free(y, cls)
        BY <1>4, <1>16, <2>1, <3>2
      <4> QED BY <1>0, <1>5, <3>2, <4>1 DEF ListsHaveHeaders
    <3> QED BY <3>1, <3>2
  <2>2. \A x \in Owners : Quar(x)' \subseteq DOMAIN header'
    BY <1>0, <1>5, <1>7 DEF ListsHaveHeaders
  <2> QED BY <2>1, <2>2 DEF ListsHaveHeaders
<1>19. MarksLeadBack' /\ PointersHaveChunks'
  <2>1. MarksLeadBack'
    BY <1>0, <1>3, <1>5 DEF MarksLeadBack
  <2>2. PointersHaveChunks'
    BY <1>0, <1>3, <1>5, <1>14 DEF PointersHaveChunks
  <2> QED BY <2>1, <2>2
<1>20. StatesAreRight'
  <2>1. ASSUME NEW x \in Owners, NEW c \in Classes, NEW m \in Free(x, c)' PROVE HasState(m, "available")'
    <3>1. CASE c # cls
      <4>1. HasState(m, "available")
        BY <1>0, <1>7, <2>1, <3>1 DEF StatesAreRight
      <4> QED BY <1>5, <4>1 DEF HasState
    <3>2. CASE c = cls
      <4>1. m \in New \/ \E y \in Owners : m \in Free(y, cls)
        BY <1>4, <1>16, <2>1, <3>2
      <4>2. m \in New \/ HasState(m, "available")
        BY <1>0, <4>1 DEF StatesAreRight
      <4> QED BY <1>5, <4>2 DEF HasState
    <3> QED BY <3>1, <3>2
  <2>2. \A x \in Owners : \A m \in Quar(x)' : HasState(m, "quarantine")'
    BY <1>0, <1>5, <1>7 DEF StatesAreRight, HasState
  <2>3. \A m \in lost : m \in DOMAIN header' /\ header'[m].state # "allocated"
    BY <1>0, <1>5 DEF StatesAreRight
  <2>4. ASSUME NEW p, IsOpen(p) PROVE p \in returned /\ HasState(PtrToChunk(p), "allocated")'
    <3>1. PICK n : n = PtrToChunk(p)
      OBVIOUS
    <3>2. p \in returned /\ HasState(n, "allocated")
      BY <1>0, <2>4, <3>1 DEF StatesAreRight
    <3> QED BY <1>5, <1>14, <3>1, <3>2 DEF HasState
  <2>5. \A m \in DOMAIN header' : header'[m].state = "allocated" => header'[m].free = InvalidTid
    BY <1>0, <1>5 DEF StatesAreRight
  <2> QED BY <1>3, <1>13, <1>14, <2>1, <2>2, <2>3, <2>4, <2>5 DEF StatesAreRight
<1>21. HandsAreRight'
  <2>1. HandIsRight(t)'
    <3>1. HasState(k, "available")'
      BY <1>9 DEF HasState
    <3>2. old # 0 => old \in returned' \ DOMAIN live'
      BY <1>0, <1>3 DEF ThreadsTyped
    <3> QED BY <1>9, <1>10, <3>1, <3>2 DEF HandIsRight
  <2>2. ASSUME NEW u \in Threads, u # t PROVE HandIsRight(u)'
    <3>1. HandIsRight(u) /\ pc'[u] = pc[u] /\ regs'[u] = regs[u]
      BY <1>0, <1>10, <2>2 DEF HandsAreRight
    <3>2. \A p : p \in returned \ DOMAIN live => p \in returned' \ DOMAIN live'
      BY <1>3
    <3>3. \A m, state : HasState(m, state) => HasState(m, state)' /\ header'[m] = header[m]
      BY <1>5 DEF HasState
    <3> QED BY <1>3, <1>14, <3>1, <3>2, <3>3 DEF HandIsRight
  <2>3. \A u, v \in Threads : u # v => Owned(u)' \cap Owned(v)' = {}
    <3>1. \A u \in Threads : Owned(u) \cap DOMAIN live = {}
      BY <1>0 DEF HandsAreRight, HandIsRight, Owned
    <3> QED BY <1>0, <1>11, <1>12, <3>1 DEF HandsAreRight
  <2> QED BY <2>1, <2>2, <2>3 DEF HandsAreRight
<1>22. ListsAreApart'
  <2>1. ASSUME NEW x \in Owners, NEW c \in Classes PROVE IsInjective(FreeOf(x, c)')
    BY <1>0, <1>6, <1>7 DEF ListsAreApart
  <2>2. ASSUME NEW x \in Owners, NEW y \in Owners, x # y, NEW c \in Classes PROVE Free(x, c)' \cap Free(y, c)' = {}
    <3>1. CASE c # cls
      BY <1>0, <1>7, <2>2, <3>1 DEF ListsAreApart
    <3>2. CASE c = cls
      <4>1. \A z \in Owners : z \notin {t, NoThread} =>
              /\ Free(z, cls)' = Free(z, cls)
              /\ Free(z, cls) \cap (Free(t, cls)' \cup Free(NoThread, cls)') = {}
        <5> SUFFICES ASSUME NEW z \in Owners, z \notin {t, NoThread}
                     PROVE  /\ Free(z, cls)' = Free(z, cls)
                            /\ Free(z, cls) \cap (Free(t, cls)' \cup Free(NoThread, cls)') = {}
          OBVIOUS
        <5>1. Free(z, cls) \cap Free(t, cls) = {} /\ Free(z, cls) \cap Free(NoThread, cls) = {}
          BY <1>0, <1>4 DEF ListsAreApart
        <5> QED BY <1>5, <1>6, <1>7, <1>8, <5>1
      <4>2. CASE x \in {t, NoThread} /\ y \in {t, NoThread}
        BY <1>6, <2>2, <3>2, <4>2
      <4>3. CASE x \notin {t, NoThread} /\ y \in {t, NoThread}
        BY <3>2, <4>1, <4>3
      <4>4. CASE x \in {t, NoThread} /\ y \notin {t, NoThread}
        BY <3>2, <4>1, <4>4
      <4>5. CASE x \notin {t, NoThread} /\ y \notin {t, NoThread}
        BY <1>0, <2>2, <3>2, <4>1, <4>5 DEF ListsAreApart
      <4> QED BY <4>2, <4>3, <4>4, <4>5
    <3> QED BY <3>1, <3>2
  <2> QED BY <1>0, <1>7, <2>1, <2>2 DEF ListsAreApart
<1>23. HandsAreApart'
  <2>1. k \notin lost /\ \A u \in Threads : pc[u] \in Holding => regs[u].chunk # k
    <3>1. k \in New \/ \E x \in Owners : k \in Free(x, cls)
      BY <1>4, <1>6
    <3>2. CASE k \in New
      <4>1. \A u \in Threads : pc[u] \in Holding => regs[u].chunk \in DOMAIN header
        BY <1>0 DEF HandsAreRight, HandIsRight, HasState, Holding
      <4>2. lost \subseteq DOMAIN header
        BY <1>0 DEF StatesAreRight
      <4> QED BY <1>5, <3>2, <4>1, <4>2
    <3>3. CASE \E x \in Owners : k \in Free(x, cls)
      BY <1>0, <3>3 DEF HandsAreApart, HandsAreRight, HandIsRight, HasState, Holding, StatesAreRight
    <3> QED BY <3>1, <3>2, <3>3
  <2>2. \A u, v \in Threads : u # v /\ pc'[u] \in Holding /\ pc'[v] \in Holding => regs'[u].chunk # regs'[v].chunk
    BY <1>0, <1>10, <2>1 DEF HandsAreApart
  <2>3. \A p, q : IsOpen(p)' /\ IsOpen(q)' /\ PtrToChunk(p)' = PtrToChunk(q)' => p = q
    BY <1>0, <1>13, <1>14 DEF HandsAreApart
  <2>4. ASSUME NEW x \in Owners, NEW c \in Classes, NEW m \in Free(x, c)'
        PROVE  m \notin lost /\ \A u \in Threads : pc'[u] = "header" => regs'[u].chunk # m
    <3>1. (m \in New \/ \E y \in Owners : m \in Free(y, c)) /\ m # k
      <4>1. CASE c # cls
        <5>1. m \in Free(x, c)
          BY <1>7, <2>4, <4>1
        <5>2. m \in DOMAIN header' /\ header'[m].cls = c
          BY <1>0, <1>5, <5>1 DEF ListsHaveHeaders
        <5> QED BY <1>9, <4>1, <5>1, <5>2
      <4>2. CASE c = cls
        BY <1>4, <1>16, <2>4, <4>2
      <4> QED BY <4>1, <4>2
    <3>2. CASE m \in New
      <4>1. \A u \in Threads : pc[u] \in Holding => regs[u].chunk \in DOMAIN header
        BY <1>0 DEF HandsAreRight, HandIsRight, HasState, Holding
      <4>2. lost \subseteq DOMAIN header
        BY <1>0 DEF StatesAreRight
      <4> QED BY <1>5, <1>10, <3>1, <3>2, <4>1, <4>2 DEF Holding
    <3>3. CASE \E y \in Owners : m \in Free(y, c)
      <4>1. m \notin lost /\ \A u \in Threads : pc[u] = "header" => regs[u].chunk # m
        BY <1>0, <3>3 DEF HandsAreApart
      <4> QED BY <1>10, <3>1, <4>1
    <3> QED BY <3>1, <3>2, <3>3
  <2>5. ASSUME NEW u \in Threads
        PROVE  /\ pc'[u] \in {"poison", "push"} => \A x \in Owners : regs'[u].chunk \notin Quar(x)'
               /\ pc'[u] = "unpoison" => \A p : IsOpen(p)' => regs'[u].chunk # PtrToChunk(p)'
               /\ pc'[u] \in Holding => regs'[u].chunk \notin lost'
    <3>1. CASE u = t
      BY <1>3, <1>10, <2>1, <3>1
    <3>2. CASE u # t
      BY <1>0, <1>3, <1>7, <1>10, <1>13, <1>14, <3>2 DEF HandsAreApart
    <3> QED BY <3>1, <3>2
  <2>6. \A x \in Owners : lost' \cap Quar(x)' = {} /\ \A c \in Classes : lost' \cap Free(x, c)' = {}
    BY <1>0, <1>3, <1>7, <2>4 DEF HandsAreApart
  <2> QED BY <2>2, <2>3, <2>4, <2>5, <2>6 DEF HandsAreApart
<1>24. AllAreSomewhere'
  <2>1. ASSUME NEW m \in DOMAIN header' PROVE IsSomewhere(m)'
    <3>1. CASE m = k
      BY <1>9, <1>10, <3>1 DEF IsSomewhere, InSomeHand
    <3>2. CASE m # k /\ m \in New
      <4>1. m \in Free(NoThread, cls)' \/ m \in Free(t, cls)'
        BY <1>6, <3>2
      <4>2. header'[m].state = "available" /\ header'[m].cls = cls
        BY <1>5, <3>2
      <4> QED BY <1>4, <4>1, <4>2 DEF IsSomewhere
    <3>3. CASE m # k /\ m \in DOMAIN header
      <4>1. IsSomewhere(m) /\ header'[m] = header[m] /\ lost' = lost /\ header[m].cls \in Classes
        BY <1>0, <1>3, <1>5, <3>3 DEF AllAreSomewhere, HeapTyped, ChunkBase
      <4>2. ASSUME NEW c \in Classes PROVE (\E x \in Owners : m \in Free(x, c)) => \E x \in Owners : m \in Free(x, c)'
        <5> SUFFICES ASSUME NEW x \in Owners, m \in Free(x, c) PROVE \E y \in Owners : m \in Free(y, c)'
          OBVIOUS
        <5>1. CASE c # cls \/ x \notin {t, NoThread}
          BY <1>7, <5>1
        <5>2. CASE c = cls /\ x \in {t, NoThread}
          BY <1>4, <1>6, <3>3, <5>2
        <5> QED BY <5>1, <5>2
      <4>3. (\E x \in Owners : m \in Quar(x)) => \E x \in Owners : m \in Quar(x)'
        BY <1>7
      <4>4. (\E p : IsOpen(p) /\ PtrToChunk(p) = m) => \E p : IsOpen(p)' /\ PtrToChunk(p)' = m
        BY <1>13, <1>14
      <4>5. \A at \in {{"header"}, {"unpoison"}, {"poison", "push"}} : InSomeHand(m, at) => InSomeHand(m, at)'
        BY <1>10 DEF InSomeHand
      <4> QED BY <4>1, <4>2, <4>3, <4>4, <4>5 DEF IsSomewhere
    <3> QED BY <1>5, <3>1, <3>2, <3>3
  <2> QED BY <2>1 DEF AllAreSomewhere
<1> QED BY <1>1, <1>17, <1>18, <1>19, <1>20, <1>21, <1>22, <1>23, <1>24 DEF HeapInv, HeapIsSound


LEMMA AllocateStep ==
  ASSUME HeapInv, NEW t \in Threads, Allocate(t)
  PROVE  HeapInv'
<1>1. PICK s \in Sizes, alignment \in Alignments :
        /\ NeededSize(Max({s, 1}), alignment) <= MaxAllowed
        /\ TakeChunk(t, [Idle EXCEPT !.size = Max({s, 1}), !.alignment = alignment])
  BY Zenon DEF Allocate
<1>2. died = "no" /\ pc[t] = "idle" /\ died' = "no" /\ live' = live
  BY DEF Allocate, Running
<1>3. PICK size \in Nat \ {0} : size = Max({s, 1})
  <2>1. s \in Nat /\ 1 \in Nat
    BY SizesAreNaturals
  <2>2. Max({s, 1}) \in {s, 1} /\ 1 <= Max({s, 1})
    BY <2>1, MaxOfTwo
  <2> QED BY <2>1, <2>2
<1>4. PICK cls \in Classes : cls = SizeToSizeClass(NeededSize(size, alignment)) /\ NeededSize(size, alignment) <= cls
  BY <1>1, <1>3, SizeClassFits
<1>5. PICK request : request = [size |-> size, alignment |-> alignment, old |-> 0, chunk |-> 0, ptr |-> 0]
  OBVIOUS
<1>6. TakeChunk(t, request)
  <2>1. [Idle EXCEPT !.size = size]
          = [size |-> size, alignment |-> 0, old |-> 0, chunk |-> 0, ptr |-> 0]
    BY DEF Idle
  <2>2. [[size |-> size, alignment |-> 0, old |-> 0, chunk |-> 0, ptr |-> 0] EXCEPT !.alignment = alignment]
          = request
    BY <1>5
  <2>3. [Idle EXCEPT !.size = size, !.alignment = alignment] = request
    BY <2>1, <2>2, Zenon
  <2>4. TakeChunk(t, [Idle EXCEPT !.size = size, !.alignment = alignment])
    BY <1>1, <1>3, Zenon
  <2> QED BY <2>3, <2>4, Zenon
<1>7. live \in [DOMAIN live -> Nat] /\ alignment \in Nat /\ 0 \in Nat
  BY SizesAreNaturals DEF HeapInv, ThreadsTyped
<1>8. DOMAIN live' = DOMAIN live \ (IF 0 = 0 THEN {} ELSE {0}) /\ live' \in [DOMAIN live' -> Nat]
  BY <1>2, <1>7
<1> QED BY <1>2, <1>4, <1>5, <1>6, <1>7, <1>8, TakeStep

LEMMA ReallocateStep ==
  ASSUME HeapInv, NEW t \in Threads, Reallocate(t)
  PROVE  HeapInv'
<1>1. PICK old \in DOMAIN live, size \in Sizes \ {0} :
       /\ NeededSize(size, 0) <= MaxAllowed
       /\ TakeChunk(t, [Idle EXCEPT !.size = size, !.old = old])
       /\ live' = Restrict(live, DOMAIN live \ {old})
       /\ died' = IF header[PtrToChunk(old)].state = "allocated" THEN "no"
                  ELSE "CHECK(m->chunk_state == CHUNK_ALLOCATED)"
  BY Zenon DEF Reallocate
<1>2. died = "no" /\ pc[t] = "idle"
  BY Zenon DEF Reallocate, Running
<1>3. /\ HeapIsSound /\ live \in [DOMAIN live -> Nat] /\ old \in Nat \ {0} /\ size \in Nat \ {0}
  BY <1>2, SizesAreNaturals DEF HeapInv, ThreadsTyped
<1>4. died' = "no"
  <2>1. HasState(PtrToChunk(old), "allocated")
    BY <1>3 DEF HeapIsSound, StatesAreRight, IsOpen
  <2> QED BY <1>1, <2>1 DEF HasState
<1>5. PICK cls \in Classes : cls = SizeToSizeClass(NeededSize(size, 0)) /\ NeededSize(size, 0) <= cls
  <2>1. size = Max({size, 1})
    <3>0. size \in Nat /\ 1 \in Nat /\ size >= 1
      BY <1>3
    <3>1. Max({size, 1}) \in {size, 1} /\ size <= Max({size, 1})
      BY <3>0, MaxOfTwo, Zenon
    <3>2. ASSUME NEW x, x \in {size, 1}, size <= x PROVE size = x
      BY <3>0, <3>2
    <3> QED BY <3>1, <3>2
  <2>2. \E s \in Sizes : size = Max({s, 1})
    BY <2>1
  <2>3. 0 \in Alignments \cup {0} /\ NeededSize(size, 0) <= MaxAllowed
    BY <1>1, Zenon
  <2>4. LET cls == SizeToSizeClass(NeededSize(size, 0))
        IN  cls \in Classes /\ NeededSize(size, 0) <= cls
    BY <1>3, <2>2, <2>3, SizeClassFits, Zenon
  <2> QED BY <2>4
<1>6. PICK request : request = [size |-> size, alignment |-> 0, old |-> old, chunk |-> 0, ptr |-> 0]
  OBVIOUS
<1>7. TakeChunk(t, request)
  <2>1. TakeChunk(t, [Idle EXCEPT !.size = size, !.old = old])
    BY <1>1, Zenon
  <2>2. [Idle EXCEPT !.size = size]
          = [size |-> size, alignment |-> 0, old |-> 0, chunk |-> 0, ptr |-> 0]
    BY DEF Idle
  <2>3. [[size |-> size, alignment |-> 0, old |-> 0, chunk |-> 0, ptr |-> 0] EXCEPT !.old = old]
          = request
    BY <1>6
  <2>4. [Idle EXCEPT !.size = size, !.old = old] = request
    BY <2>2, <2>3, Zenon
  <2> QED BY <2>1, <2>4, Zenon
<1>8. DOMAIN live' = DOMAIN live \ (IF old = 0 THEN {} ELSE {old}) /\ live' \in [DOMAIN live' -> Nat]
  <2>1. live' = [p \in DOMAIN live \ {old} |-> live[p]]
    <3>1. live' = Restrict(live, DOMAIN live \ {old})
      BY <1>1, Zenon
    <3> QED BY <3>1 DEF Restrict
  <2>2. old # 0
    BY <1>3
  <2> QED BY <1>3, <2>1, <2>2
<1> QED BY <1>1, <1>2, <1>3, <1>4, <1>5, <1>6, <1>7, <1>8, TakeStep

-----------------------------------------------------------------------------
(* The theorems.                                                           *)

LEMMA HeapInit == Init => HeapInv
<1> SUFFICES ASSUME Init PROVE HeapInv
  OBVIOUS
<1> USE DEF Init
<1>1. << >> \in Seq(Nat) /\ [cls \in Classes |-> << >>] \in [Classes -> Seq(Nat)]
      /\ \A S : << >> \in Seq(S)
  BY EmptyList
<1>2. HeapTyped
  BY <1>1 DEF HeapTyped
<1>3. ThreadsTyped
  BY <1>1 DEF ThreadsTyped, Storages, Registers, Places, Reports, Idle, EmptyStorage
<1>4. /\ \A x \in Owners, cls \in Classes : FreeOf(x, cls) = << >> /\ Free(x, cls) = {}
      /\ \A x \in Owners : QuarantineOf(x) = << >> /\ Quar(x) = {}
  BY EmptyList DEF Owners, FreeOf, Free, QuarantineOf, Quar, EmptyStorage
<1>5. ListsHaveHeaders
  BY <1>4 DEF ListsHaveHeaders
<1>6. \A p : ~IsOpen(p)
  BY DEF IsOpen, Owned, Idle
<1>7. ChunksAreApart /\ MarksLeadBack /\ PointersHaveChunks
  BY DEF ChunksAreApart, MarksLeadBack, PointersHaveChunks
<1>8. StatesAreRight
  BY <1>4, <1>6 DEF StatesAreRight
<1>9. HandsAreRight
  BY DEF HandsAreRight, HandIsRight, Idle, Owned
<1>10. ListsAreApart
  BY <1>4, EmptyList DEF ListsAreApart
<1>11. HandsAreApart
  BY <1>4, <1>6 DEF HandsAreApart, Holding
<1>12. AllAreSomewhere
  BY DEF AllAreSomewhere
<1> QED BY <1>2, <1>3, <1>5, <1>7, <1>8, <1>9, <1>10, <1>11, <1>12 DEF HeapInv, HeapIsSound

LEMMA HeapStep == HeapInv /\ [Next]_vars => HeapInv'
<1> SUFFICES ASSUME HeapInv, [Next]_vars PROVE HeapInv'
  OBVIOUS
<1>1. CASE UNCHANGED vars
  <2>1. groups \in Seq(PageGroups) /\ sorted \in 0 .. Len(groups)
    BY DEF HeapInv, HeapTyped
  <2>2. UNCHANGED <<groups, sorted, header, marks, free_lists, quarantine, local,
                    attached, shadow, pc, regs, died, live, returned, lost>>
    BY <1>1 DEF vars
  <2> QED BY <2>1, <2>2, SameHeap
<1>2. CASE LookUp
  BY <1>2, LookUpStep
<1>3. ASSUME NEW t \in Threads, \/ Allocate(t) \/ Reallocate(t) \/ SetHeader(t) \/ Unpoison(t)
                                \/ Deallocate(t) \/ PoisonFreed(t) \/ PushQuarantine(t)
                                \/ Swallow(t) \/ CommitBack(t) \/ ExitWithoutReturning(t)
                                \/ ForceLock(t) \/ ForceUnlock(t)
      PROVE  HeapInv'
  BY <1>3, AllocateStep, ReallocateStep, SetHeaderStep, UnpoisonStep, DeallocateStep, PoisonStep,
     PushStep, SwallowSteps, ExitStep, ForceSteps
<1> QED BY <1>1, <1>2, <1>3 DEF Next

\* The heap's inductive invariant: every chunk has a header that says who has it,
\* lists and hands share no chunk, and a pointer leads back to its chunk
\* (asan_allocator.cc: Allocate, Deallocate, Reallocate and MallocInfo).
THEOREM HeapIsKept == Spec => []HeapInv
BY HeapInit, HeapStep, PTL DEF Spec

LEMMA ChunksFromHeap == HeapInv => ChunksAreKept
<1> SUFFICES ASSUME HeapInv PROVE ChunksAreKept
  OBVIOUS
<1>0. HeapTyped /\ ThreadsTyped /\ ListsHaveHeaders
  BY DEF HeapInv
<1>1. NoThread \notin Threads /\ NoThread \in Owners /\ \A t \in Threads : t \in Owners
  BY AllocatorAssumption DEF Owners
<1>2. /\ \A cls \in Classes : Free(NoThread, cls) = ToSet(free_lists[cls])
      /\ \A t \in Threads, cls \in Classes : Free(t, cls) = ToSet(local[t].free[cls])
      /\ Quar(NoThread) = ToSet(quarantine) /\ \A t \in Threads : Quar(t) = ToSet(local[t].quarantine)
  BY <1>1 DEF Free, FreeOf, Quar, QuarantineOf
<1>3. TypeOK
  <2>1. \A m \in DOMAIN header :
       /\ header[m].state \in {"available", "allocated", "quarantine"}
       /\ header[m].cls \in Classes
       /\ header[m].alloc \in Threads \cup {MainTid}
       /\ header[m].free \in Threads \cup {MainTid, InvalidTid}
    BY <1>0 DEF HeapTyped, ChunkBase, States, Tids
  <2>2. \A cls \in Classes : \A t \in Threads :
          \A m \in ToSet(free_lists[cls]) \cup ToSet(local[t].free[cls]) : header[m].cls = cls
    BY <1>0, <1>1, <1>2 DEF ListsHaveHeaders
  <2>3. \A a \in DOMAIN shadow : shadow[a] \in Magic \cup 0 .. Granularity - 1
    BY <1>0 DEF HeapTyped, ShadowBytes
  <2>4. sorted \in 0 .. Len(groups)
    BY <1>0 DEF HeapTyped
  <2>5. died \in {"no", "double-free", "free of memory not malloc()-ed"}
    BY <1>0, Zenon DEF ThreadsTyped, Reports
  <2> QED BY <2>1, <2>2, <2>3, <2>4, <2>5, Zenon DEF TypeOK
<1>4. ASSUME died = "no" PROVE ChunkHasOnePlace
  <2>0. /\ StatesAreRight /\ HandsAreRight /\ ListsAreApart /\ HandsAreApart /\ AllAreSomewhere
    BY <1>4 DEF HeapInv, HeapIsSound
  <2>1. \A m : m \in FreeListed <=> \E x \in Owners, cls \in Classes : m \in Free(x, cls)
    BY <1>1, <1>2 DEF FreeListed, Owners
  <2>2. \A m : m \in Quarantined <=> \E x \in Owners : m \in Quar(x)
    BY <1>1, <1>2 DEF Quarantined, Owners
  <2>3. \A p : p \in OpenBlocks <=> IsOpen(p)
    BY DEF OpenBlocks, IsOpen
  <2>4. \A m, at : m \in InHand(at) <=> InSomeHand(m, at)
    BY DEF InHand, InSomeHand
  <2> DEFINE open == {PtrToChunk(p) : p \in OpenBlocks}
  <2>5. \A m : m \in open <=> \E p : IsOpen(p) /\ PtrToChunk(p) = m
    BY <2>3
  <2> HIDE DEF open
  <2>6. \A m \in FreeListed \cup InHand({"header"}) : HasState(m, "available")
    BY <2>0, <2>1, <2>4 DEF StatesAreRight, HandsAreRight, HandIsRight, InSomeHand
  <2>7. \A m \in Quarantined \cup InHand({"poison", "push"}) : HasState(m, "quarantine")
    BY <2>0, <2>2, <2>4 DEF StatesAreRight, HandsAreRight, HandIsRight, InSomeHand
  <2>8. \A m \in InHand({"unpoison"}) \cup open : HasState(m, "allocated")
    BY <2>0, <2>4, <2>5 DEF StatesAreRight, HandsAreRight, HandIsRight, InSomeHand
  <2>9. FreeListed \cup InHand({"header"}) \cup Quarantined \cup InHand({"poison", "push"})
          \cup InHand({"unpoison"}) \cup open \cup lost = DOMAIN header
    <3>1. ASSUME NEW m \in DOMAIN header
          PROVE  m \in FreeListed \cup InHand({"header"}) \cup Quarantined \cup InHand({"poison", "push"})
                         \cup InHand({"unpoison"}) \cup open \cup lost
      <4>1. IsSomewhere(m) /\ header[m].cls \in Classes
        BY <1>0, <2>0 DEF AllAreSomewhere, HeapTyped, ChunkBase
      <4> QED BY <2>1, <2>2, <2>4, <2>5, <4>1 DEF IsSomewhere
    <3>2. lost \subseteq DOMAIN header
      BY <2>0 DEF StatesAreRight
    <3> QED BY <2>6, <2>7, <2>8, <3>1, <3>2 DEF HasState
  <2>10. NeverTwice
    <3>1. \A x, y \in Owners : x # y =>
       /\ ToSet(QuarantineOf(x)) \cap ToSet(QuarantineOf(y)) = {}
       /\ \A cls \in Classes : ToSet(FreeOf(x, cls)) \cap ToSet(FreeOf(y, cls)) = {}
      BY <2>0 DEF ListsAreApart, Quar, Free
    <3>2. \A x \in Owners : IsInjective(QuarantineOf(x)) /\ \A cls \in Classes : IsInjective(FreeOf(x, cls))
      BY <2>0 DEF ListsAreApart
    <3>3. \A t, u \in Threads :
       t # u /\ {pc[t], pc[u]} \subseteq {"header", "unpoison", "poison", "push"} =>
         regs[t].chunk # regs[u].chunk
      BY <2>0 DEF HandsAreApart, Holding
    <3>4. \A p, q \in OpenBlocks : PtrToChunk(p) = PtrToChunk(q) => p = q
      BY <2>0, <2>3 DEF HandsAreApart
    <3>5. /\ FreeListed \cap InHand({"header"}) = {}
          /\ Quarantined \cap InHand({"poison", "push"}) = {}
          /\ open \cap InHand({"unpoison"}) = {}
      BY <2>0, <2>1, <2>2, <2>4, <2>5 DEF HandsAreApart, InSomeHand
    <3>6. lost \cap (FreeListed \cup Quarantined \cup InHand({"header", "poison", "push"})) = {}
      BY <2>0, <2>1, <2>2, <2>4 DEF HandsAreApart, InSomeHand, Holding
    <3> QED BY <3>1, <3>2, <3>3, <3>4, <3>5, <3>6 DEF NeverTwice, open
  <2> QED BY <2>6, <2>7, <2>8, <2>9, <2>10 DEF ChunkHasOnePlace, HasState, open
<1> QED BY <1>3, <1>4 DEF ChunksAreKept, ChunkHasOnePlace

\* Memory is in one place only: no chunk is handed out, freed or listed twice, and
\* no CHECK of the allocator fails (asan_allocator.cc: Allocate, Deallocate,
\* SwallowThreadLocalMallocStorage, AllocateChunks).
THEOREM ChunksStayKept == Spec => []ChunksAreKept
BY HeapIsKept, ChunksFromHeap, PTL

\* What a free that is let through has found.
LEMMA FreeIsJudged ==
  ASSUME HeapInv, NEW t \in Threads, Deallocate(t)
  PROVE  died' = "no" <=> \E p \in OpenBlocks : PtrToChunk(p) = regs'[t].chunk
<1>1. PICK ptr \in returned :
        /\ FreedPointer(t, ptr)
        /\ died' = Judge(header[PtrToChunk(ptr)].state)
        /\ regs' = [regs EXCEPT ![t] = [Idle EXCEPT !.chunk = PtrToChunk(ptr), !.ptr = ptr]]
  BY Zenon DEF Deallocate
<1>2. PICK m : m = PtrToChunk(ptr)
  OBVIOUS
<1>3. died = "no" /\ pc[t] \in {"idle", "exchange"}
  BY <1>1, Zenon DEF FreedPointer, Running
<1>4. /\ HeapTyped /\ ThreadsTyped /\ PointersHaveChunks /\ StatesAreRight
      /\ HandsAreRight /\ AllAreSomewhere
  BY <1>3 DEF HeapInv, HeapIsSound
<1>5. regs'[t].chunk = m
  <2>1. t \in DOMAIN regs
    BY <1>4 DEF ThreadsTyped
  <2>2. regs'[t] = [Idle EXCEPT !.chunk = PtrToChunk(ptr), !.ptr = ptr]
    BY <1>1, <2>1, Zenon
  <2> QED BY <1>2, <2>2 DEF Idle
<1>6. m \in DOMAIN header /\ header[m].state \in States
  BY <1>2, <1>4 DEF PointersHaveChunks, HeapTyped, ChunkBase
<1>7. \A p : p \in OpenBlocks <=> IsOpen(p)
  BY DEF OpenBlocks, IsOpen
<1>8. died' = "no" <=> header[m].state = "allocated"
  <2>1. header[m].state \in {"available", "allocated", "quarantine"}
    BY <1>6 DEF States
  <2> QED BY <1>1, <1>2, <2>1, Zenon DEF Judge
<1>9. ASSUME NEW p, IsOpen(p), PtrToChunk(p) = m PROVE header[m].state = "allocated"
  BY <1>4, <1>9 DEF StatesAreRight, HasState
<1>10. ASSUME header[m].state = "allocated" PROVE \E p : IsOpen(p) /\ PtrToChunk(p) = m
  <2>1. CASE ptr \in DOMAIN live
    BY <1>2, <2>1 DEF IsOpen
  <2>2. CASE pc[t] = "exchange" /\ ptr = regs[t].ptr
    <3>1. regs[t].old = 0
      BY <1>4, <2>2 DEF HandsAreRight, HandIsRight
    <3>2. ptr \in Owned(t)
      BY <2>2, <3>1 DEF Owned
    <3> QED BY <1>2, <3>2 DEF IsOpen
  <2>3. CASE m \notin HandedOut
    <3>1. ~InSomeHand(m, {"unpoison"})
      BY <2>3 DEF HandedOut, InHand, InSomeHand
    <3>2. m \notin lost
      BY <1>4, <1>10 DEF StatesAreRight
    <3>3. IsSomewhere(m)
      BY <1>4, <1>6 DEF AllAreSomewhere
    <3> QED BY <1>10, <3>1, <3>2, <3>3 DEF IsSomewhere
  <2>4. \/ ptr \in DOMAIN live \/ PtrToChunk(ptr) \notin HandedOut
        \/ pc[t] = "exchange" /\ ptr = regs[t].ptr
    BY <1>1, Zenon DEF FreedPointer, Running
  <2> QED BY <1>2, <2>1, <2>2, <2>3, <2>4
<1> QED BY <1>5, <1>7, <1>8, <1>9, <1>10

\* Only a free makes a thread poison a chunk.
LEMMA OnlyAFree ==
  ASSUME HeapInv, [Next]_vars, NEW t \in Threads, pc'[t] = "poison", pc[t] # "poison"
  PROVE  Deallocate(t)
<1>1. pc \in [Threads -> Places]
  BY DEF HeapInv, ThreadsTyped
<1>2. ~UNCHANGED pc
  OBVIOUS
<1>3. ~UNCHANGED vars /\ ~LookUp
  BY <1>2, Zenon DEF vars, LookUp
<1>4. PICK u \in Threads :
        \/ Allocate(u) \/ Reallocate(u) \/ SetHeader(u) \/ Unpoison(u)
        \/ Deallocate(u) \/ PoisonFreed(u) \/ PushQuarantine(u)
        \/ Swallow(u) \/ CommitBack(u) \/ ExitWithoutReturning(u)
        \/ ForceLock(u) \/ ForceUnlock(u)
  BY <1>3, Zenon DEF Next
<1>5. Deallocate(u) \/ \E at \in {"header", "unpoison", "exchange", "push", "swallow", "idle"} :
                         pc' = [pc EXCEPT ![u] = at]
  <2>1. ASSUME Allocate(u) \/ Reallocate(u) PROVE pc' = [pc EXCEPT ![u] = "header"]
    BY <2>1, Zenon DEF Allocate, Reallocate, TakeChunk
  <2>2. ASSUME SetHeader(u) PROVE pc' = [pc EXCEPT ![u] = "unpoison"]
    BY <1>2, <2>2, Zenon DEF SetHeader
  <2>3. ASSUME Unpoison(u) PROVE pc' = [pc EXCEPT ![u] = "exchange"] \/ pc' = [pc EXCEPT ![u] = "idle"]
    BY <2>3, Zenon DEF Unpoison
  <2>4. ASSUME PoisonFreed(u) PROVE pc' = [pc EXCEPT ![u] = "push"]
    BY <1>2, <2>4, Zenon DEF PoisonFreed
  <2>5. ASSUME PushQuarantine(u)
        PROVE  pc' = [pc EXCEPT ![u] = "swallow"] \/ pc' = [pc EXCEPT ![u] = "idle"]
    BY <2>5, Zenon DEF PushQuarantine
  <2>6. ASSUME Swallow(u) PROVE pc' = [pc EXCEPT ![u] = "idle"]
    BY <2>6, Zenon DEF Swallow
  <2>7. ~CommitBack(u) /\ ~ExitWithoutReturning(u) /\ ~ForceLock(u) /\ ~ForceUnlock(u)
    BY <1>2, Zenon DEF CommitBack, ExitWithoutReturning, ForceLock, ForceUnlock
  <2> QED BY <1>4, <2>1, <2>2, <2>3, <2>4, <2>5, <2>6, <2>7, Zenon
<1>6. Deallocate(u)
  BY <1>1, <1>5
<1>7. pc' = [pc EXCEPT ![u] = "poison"]
  BY <1>6, Zenon DEF Deallocate
<1> QED BY <1>1, <1>6, <1>7

\* A free is let through exactly when the application owns a block in the chunk,
\* and ends in a report otherwise (asan_allocator.cc: Deallocate).
THEOREM FreesStayJudged == Spec => FreesAreJudged
<1> DEFINE Judged == \A t \in Threads :
       pc'[t] = "poison" /\ pc[t] # "poison" =>
         (died' = "no" <=> \E p \in OpenBlocks : PtrToChunk(p) = regs'[t].chunk)
<1>1. HeapInv /\ [Next]_vars => [Judged]_vars
  BY OnlyAFree, FreeIsJudged
<1> QED BY HeapIsKept, <1>1, PTL DEF Spec, FreesAreJudged

-----------------------------------------------------------------------------
(* The shadow: addresses come in granules.                                 *)

IsMultiple(x) == \E q \in Nat : x = q * Granularity
Granule(a) == (a \div Granularity) * Granularity

LEMMA MultiplesAreNaturals == ASSUME NEW x, IsMultiple(x) PROVE x \in Nat
BY SizesAreNaturals DEF IsMultiple

LEMMA SumOfMultiples ==
  ASSUME NEW x, NEW y, IsMultiple(x), IsMultiple(y)
  PROVE  IsMultiple(x + y) /\ (x < y \/ IsMultiple(x - y))
<1>1. PICK m \in Nat : x = m * Granularity
  BY DEF IsMultiple
<1>2. PICK n \in Nat : y = n * Granularity
  BY DEF IsMultiple
<1>3. Granularity \in Nat /\ Granularity > 0
  BY SizesAreNaturals
<1>4. x + y = (m + n) * Granularity /\ x - y = (m - n) * Granularity
  BY <1>1, <1>2, <1>3
<1>5. m + n \in Nat /\ IsMultiple(x + y)
  BY <1>4 DEF IsMultiple
<1>6. CASE m >= n
  <2>1. m - n \in Nat
    BY <1>6
  <2> QED BY <1>4, <1>5, <2>1 DEF IsMultiple
<1>7. CASE m < n
  <2>1. m * Granularity < n * Granularity
    BY <1>3, <1>7
  <2> QED BY <1>1, <1>2, <1>5, <2>1
<1> QED BY <1>6, <1>7

\* Two multiples are at least a granule apart.
LEMMA MultiplesAreApart ==
  ASSUME NEW x, NEW y, IsMultiple(x), IsMultiple(y), x < y
  PROVE  x + Granularity <= y
<1>1. PICK m \in Nat : x = m * Granularity
  BY DEF IsMultiple
<1>2. PICK n \in Nat : y = n * Granularity
  BY DEF IsMultiple
<1>3. Granularity \in Nat /\ Granularity > 0
  BY SizesAreNaturals
<1>4. m + 1 <= n
  <2>1. SUFFICES ASSUME n <= m PROVE FALSE
    OBVIOUS
  <2>2. n * Granularity <= m * Granularity
    BY <1>3, <2>1
  <2> QED BY <1>1, <1>2, <1>3, <2>2
<1>5. (m + 1) * Granularity <= n * Granularity
  BY <1>3, <1>4
<1>6. (m + 1) * Granularity = m * Granularity + Granularity
  BY <1>3
<1> QED BY <1>1, <1>2, <1>5, <1>6

LEMMA GranuleIsAround ==
  ASSUME NEW a \in Nat
  PROVE  /\ IsMultiple(Granule(a)) /\ Granule(a) \in Nat
         /\ Granule(a) <= a /\ a < Granule(a) + Granularity
<1>1. Granularity \in Nat \ {0}
  BY SizesAreNaturals
<1>2. a % Granularity \in 0 .. Granularity - 1 /\ a \div Granularity \in Nat
      /\ a = Granularity * (a \div Granularity) + (a % Granularity)
  BY <1>1, Division, Zenon
<1>3. Granule(a) = Granularity * (a \div Granularity) /\ Granule(a) \in Nat
  BY <1>1, <1>2 DEF Granule
<1>4. IsMultiple(Granule(a))
  BY <1>2 DEF IsMultiple, Granule
<1> HIDE DEF Granule
<1> QED BY <1>1, <1>2, <1>3, <1>4

\* An address is between two multiples when its granule is.
LEMMA GranuleIsBetween ==
  ASSUME NEW a \in Nat, NEW x, NEW y, IsMultiple(x), IsMultiple(y)
  PROVE  x <= a /\ a < y <=> x <= Granule(a) /\ Granule(a) < y
<1>1. /\ IsMultiple(Granule(a)) /\ Granule(a) \in Nat
      /\ Granule(a) <= a /\ a < Granule(a) + Granularity
  BY GranuleIsAround
<1>2. x \in Nat /\ y \in Nat /\ Granularity \in Nat
  BY MultiplesAreNaturals, SizesAreNaturals
<1>3. PICK g \in Nat : g = Granule(a)
  BY <1>1
<1>4. g < x => g + Granularity <= x
  BY <1>1, <1>3, MultiplesAreApart
<1>5. g < y => g + Granularity <= y
  BY <1>1, <1>3, MultiplesAreApart
<1> QED BY <1>1, <1>2, <1>3, <1>4, <1>5

LEMMA MultipleOfMultiple ==
  ASSUME NEW x \in Nat, IsMultiple(x), NEW q \in Nat
  PROVE  IsMultiple(q * x)
<1>1. PICK m \in Nat : x = m * Granularity
  BY DEF IsMultiple
<1>2. Granularity \in Nat
  BY SizesAreNaturals
<1>3. q * x = (q * m) * Granularity /\ q * m \in Nat
  BY <1>1, <1>2
<1> QED BY <1>3 DEF IsMultiple

LEMMA NoRemainder ==
  ASSUME NEW x \in Nat, NEW d \in Nat \ {0}, x % d = 0
  PROVE  x = (x \div d) * d /\ x \div d \in Nat
<1>1. x \div d \in Nat /\ x = d * (x \div d) + (x % d)
  BY Division, Zenon
<1> HIDE DEF Division
<1>2. PICK q \in Nat : q = x \div d
  BY <1>1
<1>3. x = d * q + 0
  BY <1>1, <1>2
<1>4. d * q = q * d
  OBVIOUS
<1> QED BY <1>2, <1>3, <1>4

\* A power of two is a multiple of the smaller ones.
LEMMA PowersDivide ==
  ASSUME NEW x \in PowersOfTwo, NEW y \in PowersOfTwo, x <= y
  PROVE  y % x = 0
BY SMTT(60) DEF PowersOfTwo

LEMMA PowersAreMultiples ==
  ASSUME NEW y \in PowersOfTwo, Granularity <= y
  PROVE  IsMultiple(y) /\ y \in Nat
<1>1. Granularity \in PowersOfTwo /\ Granularity \in Nat \ {0} /\ y \in Nat
  BY AllocatorAssumption, SizesAreNaturals DEF PowersOfTwo
<1>2. y % Granularity = 0
  BY <1>1, PowersDivide
<1>3. y = (y \div Granularity) * Granularity /\ y \div Granularity \in Nat
  BY <1>1, <1>2, NoRemainder
<1> QED BY <1>1, <1>3 DEF IsMultiple

\* What the shadow is about consists of granules.
LEMMA PlacesAreMultiples ==
  /\ IsMultiple(Redzone) /\ IsMultiple(PageSize) /\ IsMultiple(MinMmap) /\ IsMultiple(0)
  /\ \A cls \in Classes : IsMultiple(cls) /\ IsMultiple(GroupSize(cls)) /\ cls > 0
  /\ \A base \in Bases : IsMultiple(base)
  /\ \A x \in Nat : IsMultiple(RoundUpTo(x, Redzone))
  /\ \A x \in Nat, alignment \in Alignments :
       alignment > Redzone => IsMultiple(RoundUpTo(x, alignment))
<1>0. Redzone \in Nat /\ Granularity \in Nat \ {0} /\ Granularity <= Redzone /\ Redzone > 0
  BY AllocatorAssumption, SizesAreNaturals
<1>1. IsMultiple(Redzone)
  BY <1>0, AllocatorAssumption, PowersAreMultiples
<1>2. ASSUME NEW x \in Nat, x % Granularity = 0 PROVE IsMultiple(x)
  BY <1>0, <1>2, NoRemainder DEF IsMultiple
<1>3. IsMultiple(PageSize) /\ IsMultiple(MinMmap) /\ IsMultiple(0)
  <2>1. 0 = 0 * Granularity
    BY <1>0
  <2>2. IsMultiple(0)
    BY <2>1 DEF IsMultiple
  <2> QED BY <1>2, <2>2, AllocatorAssumption
<1>4. ASSUME NEW base \in Bases PROVE IsMultiple(base)
  <2>1. base \in Nat /\ PageSize \in Nat \ {0} /\ base % PageSize = 0
    BY AllocatorAssumption
  <2>2. base = (base \div PageSize) * PageSize /\ base \div PageSize \in Nat
    BY <2>1, NoRemainder
  <2> QED BY <1>3, <2>1, <2>2, MultipleOfMultiple
<1>5. ASSUME NEW cls \in Classes PROVE IsMultiple(cls) /\ IsMultiple(GroupSize(cls)) /\ cls > 0
  <2>1. cls \in PowersOfTwo /\ cls \in Nat /\ 2 * Redzone <= cls
    BY ClassesArePositive DEF Classes
  <2>2. IsMultiple(cls)
    BY <1>0, <2>1, PowersAreMultiples
  <2>3. MinMmap \in Nat /\ Max({cls, MinMmap}) \in {cls, MinMmap}
    BY <2>1, AllocatorAssumption, MaxOfTwo
  <2>4. IsMultiple(Max({cls, MinMmap}))
    BY <1>3, <2>2, <2>3
  <2>5. IsMultiple(IF cls < PageSize THEN 0 ELSE PageSize)
    BY <1>3
  <2>6. IsMultiple(GroupSize(cls))
    BY <2>4, <2>5, SumOfMultiples DEF GroupSize
  <2> QED BY <2>2, <2>6, ClassesArePositive
<1>6. ASSUME NEW x \in Nat, NEW b \in Nat \ {0}, IsMultiple(b) PROVE IsMultiple(RoundUpTo(x, b))
  <2>1. x + b - 1 \in Nat
    BY <1>6
  <2>2. (x + b - 1) \div b \in Nat
    BY <1>6, <2>1, Division
  <2> QED BY <1>6, <2>2, MultipleOfMultiple DEF RoundUpTo
<1>7. ASSUME NEW x \in Nat, NEW alignment \in Alignments, alignment > Redzone
      PROVE  IsMultiple(RoundUpTo(x, alignment))
  <2>1. alignment \in PowersOfTwo
    BY <1>0, <1>7, AllocatorAssumption
  <2>2. alignment \in Nat \ {0}
    BY <2>1 DEF PowersOfTwo
  <2>3. IsMultiple(alignment)
    BY <1>0, <1>7, <2>1, <2>2, PowersAreMultiples
  <2> QED BY <1>6, <2>2, <2>3
<1> QED BY <1>0, <1>1, <1>3, <1>4, <1>5, <1>6, <1>7

-----------------------------------------------------------------------------
(* The inductive invariant of the shadow.                                  *)

InChunk(m, g) == m <= g /\ g < m + header[m].cls
\* The granules of chunk m outside n bytes at p are poisoned.
IsClosed(m, p, n) ==
  \A g \in DOMAIN shadow : InChunk(m, g) /\ ~(p <= g /\ g < p + n) => shadow[g] \in Magic
\* A block at p fits in chunk m, whose header has its size, with its redzones.
Fits(m, p) ==
  /\ m \in DOMAIN header /\ IsMultiple(p) /\ m <= p
  /\ p + RoundUpTo(header[m].used, Redzone) <= m + header[m].cls
\* The granules of the block at p show its size.
IsShown(m, p) ==
  \A g \in DOMAIN shadow : p <= g /\ g < p + header[m].used =>
    shadow[g] = IF g + Granularity <= p + header[m].used THEN 0 ELSE p + header[m].used - g

SlotOf(group, a) == group.beg + ((a - group.beg) \div group.size) * group.size
\* An address of a page group is in the chunk of its slot, or in no chunk.
GroupIsCovered(group) ==
  /\ IsMultiple(group.beg)
  /\ \A a \in group.beg .. group.end - 1 :
       /\ Granule(a) \in DOMAIN shadow
       /\ LET m == SlotOf(group, a) IN
          \/ m \in DOMAIN header /\ InChunk(m, a)
          \/ /\ shadow[Granule(a)] \in Magic
             /\ \A n \in DOMAIN header : ~InChunk(n, Granule(a))
GranulesAreRight ==
  /\ \A g \in DOMAIN shadow : IsMultiple(g)
  /\ \A m \in DOMAIN header : IsMultiple(m)
  /\ \A i \in DOMAIN groups : GroupIsCovered(groups[i])

BlocksAreShown == \A p : IsOpen(p) =>
  LET m == PtrToChunk(p) IN Fits(m, p) /\ IsShown(m, p) /\ IsClosed(m, p, header[m].used)
UnusedAreClosed == \A m \in DOMAIN header :
  header[m].state # "allocated" /\ ~InSomeHand(m, {"poison"}) => IsClosed(m, m, 0)
\* What the shadow of a chunk in hand looks like.
HandIsPoisoned(t) ==
  LET r == regs[t] IN
  /\ pc[t] = "header" => r.alignment \in Alignments \cup {0}
  /\ pc[t] = "unpoison" =>
       /\ IsClosed(r.chunk, r.chunk, 0) /\ Fits(r.chunk, r.ptr)
       /\ header[r.chunk].used = r.size /\ r.size > 0
  /\ pc[t] = "poison" => Fits(r.chunk, r.ptr) /\ IsClosed(r.chunk, r.ptr, header[r.chunk].used)
HandsArePoisoned == \A t \in Threads : HandIsPoisoned(t)

ShadowIsRight == GranulesAreRight /\ BlocksAreShown /\ UnusedAreClosed /\ HandsArePoisoned
ShadowInv == HeapInv /\ (died = "no" => ShadowIsRight)

\* Granules of a chunk that stay leave what the chunk shows as it is.
LEMMA SameChunk ==
  ASSUME HeapTyped, NEW m \in DOMAIN header, NEW p, m \in DOMAIN header', DOMAIN shadow' \subseteq Nat,
         header'[m].cls = header[m].cls, header'[m].used = header[m].used,
         \A g \in DOMAIN shadow' : InChunk(m, g) => g \in DOMAIN shadow /\ shadow'[g] = shadow[g]
  PROVE  /\ \A n : IsClosed(m, p, n) => IsClosed(m, p, n)'
         /\ Fits(m, p) => Fits(m, p)'
         /\ Fits(m, p) /\ IsShown(m, p) => IsShown(m, p)'
<1>1. \A g : InChunk(m, g)' <=> InChunk(m, g)
  BY DEF InChunk
<1>2. ASSUME NEW n, IsClosed(m, p, n) PROVE IsClosed(m, p, n)'
  BY <1>1, <1>2 DEF IsClosed
<1>3. Fits(m, p) => Fits(m, p)'
  BY DEF Fits
<1>4. ASSUME Fits(m, p), IsShown(m, p) PROVE IsShown(m, p)'
  <2>1. ASSUME NEW g \in DOMAIN shadow', p <= g, g < p + header[m].used
        PROVE  InChunk(m, g)
    <3>1. m \in Nat /\ header[m].cls \in Nat /\ header[m].used \in Nat /\ g \in Nat
      BY ClassesArePositive DEF HeapTyped, ChunkBase
    <3>2. p \in Nat /\ m <= p
      BY <1>4, MultiplesAreNaturals DEF Fits
    <3>3. RoundUpTo(header[m].used, Redzone) \in Nat /\ header[m].used <= RoundUpTo(header[m].used, Redzone)
      BY <3>1, RoundUpBounds, SizesAreNaturals
    <3>4. p + RoundUpTo(header[m].used, Redzone) <= m + header[m].cls
      BY <1>4 DEF Fits
    <3> QED BY <2>1, <3>1, <3>2, <3>3, <3>4 DEF InChunk
  <2> QED BY <1>4, <2>1 DEF IsShown
<1> QED BY <1>2, <1>3, <1>4

\* The groups stay covered when what changes lies in chunks.
LEMMA SameGranules ==
  ASSUME GranulesAreRight, UNCHANGED groups, DOMAIN header' = DOMAIN header,
         \A m \in DOMAIN header : header'[m].cls = header[m].cls,
         DOMAIN shadow' = DOMAIN shadow,
         \A g \in DOMAIN shadow : \/ shadow'[g] = shadow[g]
                                  \/ \E m \in DOMAIN header : InChunk(m, g)
  PROVE  GranulesAreRight'
<1>1. \A m \in DOMAIN header : \A g : InChunk(m, g)' <=> InChunk(m, g)
  BY DEF InChunk
<1>2. ASSUME NEW group, GroupIsCovered(group) PROVE GroupIsCovered(group)'
  <2>1. ASSUME NEW a \in group.beg .. group.end - 1
        PROVE  /\ Granule(a) \in DOMAIN shadow'
               /\ LET m == SlotOf(group, a) IN
                  \/ m \in DOMAIN header' /\ InChunk(m, a)'
                  \/ /\ shadow'[Granule(a)] \in Magic
                     /\ \A n \in DOMAIN header' : ~InChunk(n, Granule(a))'
    BY <1>1, <1>2 DEF GroupIsCovered
  <2> QED BY <1>2, <2>1 DEF GroupIsCovered
<1> QED BY <1>2 DEF GranulesAreRight

\* Only chunk k changes: the blocks of other chunks are shown as they were.
LEMMA OtherChunks ==
  ASSUME HeapTyped, ChunksAreApart, MarksLeadBack, NEW k \in DOMAIN header,
         DOMAIN header' = DOMAIN header, DOMAIN shadow' = DOMAIN shadow,
         \A m \in DOMAIN header : m # k => header'[m].cls = header[m].cls /\ header'[m].used = header[m].used,
         \A g \in DOMAIN shadow : shadow'[g] = shadow[g] \/ InChunk(k, g),
         NEW m \in DOMAIN header, m # k, NEW p
  PROVE  /\ \A n : IsClosed(m, p, n) => IsClosed(m, p, n)'
         /\ Fits(m, p) => Fits(m, p)'
         /\ Fits(m, p) /\ IsShown(m, p) => IsShown(m, p)'
<1>1. DOMAIN shadow' \subseteq Nat /\ DOMAIN header \subseteq Nat
  BY DEF HeapTyped
<1>2. \A g \in DOMAIN shadow' : InChunk(m, g) => g \in DOMAIN shadow /\ shadow'[g] = shadow[g]
  <2>1. ASSUME NEW g \in DOMAIN shadow, InChunk(m, g), InChunk(k, g) PROVE FALSE
    <3>1. m \in Nat /\ k \in Nat /\ g \in Nat /\ header[m].cls \in Nat /\ header[k].cls \in Nat
      BY ClassesArePositive DEF HeapTyped, ChunkBase
    <3>2. m < k => m + header[m].cls <= k
      BY DEF ChunksAreApart
    <3>3. k < m => k + header[k].cls <= m
      BY DEF ChunksAreApart
    <3> QED BY <2>1, <3>1, <3>2, <3>3 DEF InChunk
  <2> QED BY <2>1
<1> QED BY <1>1, <1>2, SameChunk

\* Steps that change neither headers nor shadow, nor the hands that have a chunk
\* whose shadow is in between.
LEMMA QuietStep ==
  ASSUME ShadowInv, HeapInv', died = "no", UNCHANGED <<header, marks, shadow>>,
         \A i \in DOMAIN groups' : \E j \in DOMAIN groups : groups'[i] = groups[j],
         \A p : IsOpen(p)' => IsOpen(p),
         \A t \in Threads : \/ pc'[t] = pc[t] /\ regs'[t] = regs[t]
                            \/ /\ pc'[t] \notin {"header", "unpoison", "poison"}
                               /\ pc[t] # "poison"
  PROVE  ShadowInv'
<1>1. GranulesAreRight /\ BlocksAreShown /\ UnusedAreClosed /\ HandsArePoisoned
  BY DEF ShadowInv, ShadowIsRight
<1>2. /\ \A m, p, n : IsClosed(m, p, n)' <=> IsClosed(m, p, n)
      /\ \A m, p : (Fits(m, p)' <=> Fits(m, p)) /\ (IsShown(m, p)' <=> IsShown(m, p))
      /\ \A group : GroupIsCovered(group)' <=> GroupIsCovered(group)
  BY DEF IsClosed, Fits, IsShown, GroupIsCovered, InChunk
<1>3. \A p : PtrToChunk(p)' = PtrToChunk(p)
  BY SamePointers
<1>4. GranulesAreRight'
  <2>1. ASSUME NEW i \in DOMAIN groups' PROVE GroupIsCovered(groups[i])'
    <3>1. PICK j \in DOMAIN groups : groups'[i] = groups[j]
      OBVIOUS
    <3>2. GroupIsCovered(groups[j])
      BY <1>1 DEF GranulesAreRight
    <3>3. PICK group : group = groups[j]
      OBVIOUS
    <3>4. GroupIsCovered(group)'
      BY <1>2, <3>2, <3>3
    <3>5. groups'[i] = group
      BY <3>1, <3>3
    <3> QED BY <3>4, <3>5 DEF GroupIsCovered, SlotOf, InChunk
  <2> QED BY <1>1, <2>1 DEF GranulesAreRight
<1>5. BlocksAreShown'
  BY <1>1, <1>2, <1>3 DEF BlocksAreShown
<1>6. UnusedAreClosed'
  <2>1. ASSUME NEW m, InSomeHand(m, {"poison"}) PROVE InSomeHand(m, {"poison"})'
    BY <2>1 DEF InSomeHand
  <2> QED BY <1>1, <1>2, <2>1 DEF UnusedAreClosed
<1>7. HandsArePoisoned'
  BY <1>1, <1>2 DEF HandsArePoisoned, HandIsPoisoned
<1> QED BY <1>4, <1>5, <1>6, <1>7 DEF ShadowInv, ShadowIsRight

\* What each step leaves alone.
LEMMA StaysDead == ASSUME HeapInv, [Next]_vars, died # "no" PROVE UNCHANGED vars
<1> SUFFICES ASSUME Next PROVE FALSE
  OBVIOUS
<1>1. ASSUME NEW t \in Threads PROVE ~Running(t, "idle") /\ \A at : ~Running(t, at)
  BY DEF Running
<1> QED
  BY <1>1, Zenon DEF Next, Allocate, Reallocate, SetHeader, Unpoison, Deallocate, FreedPointer,
     PoisonFreed, PushQuarantine, Swallow, CommitBack, ExitWithoutReturning, ForceLock, ForceUnlock, LookUp

LEMMA QuietSteps ==
  ASSUME ShadowInv, HeapInv', NEW t \in Threads,
         ExitWithoutReturning(t) \/ ForceLock(t) \/ ForceUnlock(t) \/ PushQuarantine(t)
  PROVE  ShadowInv'
<1>1. HeapInv /\ pc \in [Threads -> Places] /\ regs \in [Threads -> Registers]
  BY DEF ShadowInv, HeapInv, ThreadsTyped
<1>2. CASE ExitWithoutReturning(t) \/ ForceLock(t) \/ ForceUnlock(t)
  <2>1. died = "no" /\ UNCHANGED <<groups, header, marks, shadow, live, pc, regs>>
    BY <1>2, Zenon DEF ExitWithoutReturning, ForceLock, ForceUnlock, Running
  <2>2. \A p : IsOpen(p)' => IsOpen(p)
    BY <2>1 DEF IsOpen, Owned
  <2> QED BY <2>1, <2>2, QuietStep
<1>3. CASE PushQuarantine(t)
  <2>1. died = "no" /\ UNCHANGED <<groups, header, marks, shadow, live>> /\ pc[t] = "push"
        /\ regs' = [regs EXCEPT ![t] = Idle]
        /\ \E at \in {"swallow", "idle"} : pc' = [pc EXCEPT ![t] = at]
    <3>1. died = "no" /\ pc[t] = "push"
      BY <1>3, Zenon DEF PushQuarantine, Running
    <3>2. UNCHANGED <<groups, header, marks, shadow, live>> /\ regs' = [regs EXCEPT ![t] = Idle]
      BY <1>3, Zenon DEF PushQuarantine
    <3>3. pc' = [pc EXCEPT ![t] = "swallow"] \/ pc' = [pc EXCEPT ![t] = "idle"]
      BY <1>3, Zenon DEF PushQuarantine
    <3> QED BY <3>1, <3>2, <3>3
  <2>2. /\ regs'[t] = Idle /\ pc'[t] \in {"swallow", "idle"}
        /\ \A u \in Threads : u # t => pc'[u] = pc[u] /\ regs'[u] = regs[u]
    BY <1>1, <2>1
  <2>3. \A u \in Threads : Owned(u)' \subseteq Owned(u)
    BY <2>1, <2>2 DEF Owned, Idle
  <2>4. \A p : IsOpen(p)' => IsOpen(p)
    BY <2>1, <2>3 DEF IsOpen
  <2> QED BY <2>1, <2>2, <2>4, QuietStep
<1> QED BY <1>2, <1>3

LEMMA QuietLookUp == ASSUME ShadowInv, HeapInv', LookUp PROVE ShadowInv'
<1>1. /\ died = "no" /\ UNCHANGED <<header, marks, shadow, live, pc, regs>>
      /\ groups' \in SortPageGroups
  BY DEF LookUp
<1>2. \A p : IsOpen(p)' => IsOpen(p)
  BY <1>1 DEF IsOpen, Owned
<1>3. \A i \in DOMAIN groups' : \E j \in DOMAIN groups : groups'[i] = groups[j]
  BY <1>1 DEF SortPageGroups, Bijection, Injection, Surjection
<1> QED BY <1>1, <1>2, <1>3, QuietStep

\* The chunks that leave the quarantine are closed already, and stay so.
LEMMA ShadowSwallow ==
  ASSUME ShadowInv, HeapInv', NEW t \in Threads, Swallow(t) \/ CommitBack(t)
  PROVE  ShadowInv'
<1>1. PICK eat \in BOOLEAN :
        /\ died = "no" /\ SwallowThreadLocalMallocStorage(t, eat)
        /\ pc[t] \in {"swallow", "idle"} /\ pc' = [pc EXCEPT ![t] = "idle"]
        /\ UNCHANGED <<groups, marks, regs, died, live>>
  <2>1. pc \in [Threads -> Places]
    BY DEF ShadowInv, HeapInv, ThreadsTyped
  <2>2. CASE Swallow(t)
    <3>1. /\ died = "no" /\ SwallowThreadLocalMallocStorage(t, FALSE)
          /\ pc[t] = "swallow" /\ pc' = [pc EXCEPT ![t] = "idle"]
          /\ UNCHANGED <<groups, marks, regs, died, live>>
      BY <2>2 DEF Swallow, Running
    <3> QED BY <3>1
  <2>3. CASE CommitBack(t)
    <3>1. /\ died = "no" /\ SwallowThreadLocalMallocStorage(t, TRUE)
          /\ pc[t] = "idle" /\ pc' = pc
          /\ UNCHANGED <<groups, marks, regs, died, live>>
      BY <2>3 DEF CommitBack, Running
    <3>2. pc' = [pc EXCEPT ![t] = "idle"]
      BY <2>1, <3>1
    <3> QED BY <3>1, <3>2
  <2> QED BY <2>2, <2>3
<1>2. /\ HeapTyped /\ ThreadsTyped /\ ChunksAreApart /\ MarksLeadBack /\ StatesAreRight
      /\ ListsAreApart /\ HandsAreApart /\ HandsAreRight
      /\ GranulesAreRight /\ BlocksAreShown /\ UnusedAreClosed /\ HandsArePoisoned
  BY <1>1 DEF ShadowInv, HeapInv, HeapIsSound, ShadowIsRight
<1>3. PICK P \in SUBSET Nat :
        /\ P \subseteq Quar(NoThread) \cup Quar(t)
        /\ header' = [m \in DOMAIN header |->
                        IF m \in P THEN [header[m] EXCEPT !.state = "available"] ELSE header[m]]
        /\ shadow' = [a \in DOMAIN shadow |->
                        IF \E m \in P : m <= a /\ a < m + header[m].cls THEN HeapLeft ELSE shadow[a]]
  BY <1>1, <1>2, SwallowedLists
<1>4. \A m \in P : HasState(m, "quarantine")
  <2>1. NoThread \in Owners /\ t \in Owners
    BY DEF Owners
  <2> QED BY <1>2, <1>3, <2>1 DEF StatesAreRight
<1>5. /\ DOMAIN header' = DOMAIN header /\ DOMAIN shadow' = DOMAIN shadow
      /\ \A m \in DOMAIN header : header'[m].cls = header[m].cls /\ header'[m].used = header[m].used
      /\ \A m \in DOMAIN header : m \notin P => header'[m] = header[m]
      /\ \A g \in DOMAIN shadow : \/ shadow'[g] = shadow[g]
                                  \/ shadow'[g] \in Magic /\ \E m \in P : InChunk(m, g)
  <2>1. header \in [DOMAIN header -> ChunkBase]
    BY <1>2 DEF HeapTyped
  <2>2. \A m \in DOMAIN header : header'[m].cls = header[m].cls /\ header'[m].used = header[m].used
    BY <1>3, <2>1 DEF ChunkBase
  <2>3. HeapLeft \in Magic
    BY DEF Magic
  <2>4. \A g \in DOMAIN shadow : \/ shadow'[g] = shadow[g]
                                 \/ shadow'[g] = HeapLeft /\ \E m \in P : InChunk(m, g)
    BY <1>3 DEF InChunk
  <2>5. DOMAIN header' = DOMAIN header /\ DOMAIN shadow' = DOMAIN shadow
        /\ \A m \in DOMAIN header : m \notin P => header'[m] = header[m]
    BY <1>3
  <2> QED BY <2>2, <2>3, <2>4, <2>5
<1>6. \A m \in DOMAIN header : \A g : InChunk(m, g)' <=> InChunk(m, g)
  BY <1>5 DEF InChunk
<1>7. P \subseteq DOMAIN header
  BY <1>4 DEF HasState
<1>8. GranulesAreRight'
  <2>1. \A g \in DOMAIN shadow : \/ shadow'[g] = shadow[g]
                                 \/ \E m \in DOMAIN header : InChunk(m, g)
    BY <1>5, <1>7
  <2> QED BY <1>1, <1>2, <1>5, <2>1, SameGranules
<1>9. ASSUME NEW m \in DOMAIN header, NEW p, NEW n, IsClosed(m, p, n) PROVE IsClosed(m, p, n)'
  BY <1>5, <1>6, <1>9 DEF IsClosed
<1>10. \A m \in DOMAIN header : \A p : Fits(m, p) => Fits(m, p)'
  BY <1>5 DEF Fits
<1>11. /\ \A p : PtrToChunk(p)' = PtrToChunk(p)
       /\ \A u \in Threads : Owned(u)' = Owned(u)
       /\ \A p : IsOpen(p)' <=> IsOpen(p)
  <2>1. \A p : PtrToChunk(p)' = PtrToChunk(p)
    BY <1>1, SamePointers
  <2>2. \A u \in Threads : Owned(u)' = Owned(u)
    BY <1>1, <1>2 DEF Owned, ThreadsTyped
  <2>3. \A p : IsOpen(p)' <=> IsOpen(p)
    BY <1>1, <2>2, SameOpenBlocks
  <2> QED BY <2>1, <2>2, <2>3
<1>12. BlocksAreShown'
  <2>1. ASSUME NEW p, IsOpen(p)
        PROVE  LET m == PtrToChunk(p) IN
               Fits(m, p)' /\ IsShown(m, p)' /\ IsClosed(m, p, header[m].used)'
    <3>1. PICK m \in DOMAIN header : m = PtrToChunk(p) /\ header[m].state = "allocated"
      BY <1>2, <2>1 DEF StatesAreRight, HasState
    <3>2. Fits(m, p) /\ IsShown(m, p) /\ IsClosed(m, p, header[m].used)
      BY <1>2, <2>1, <3>1 DEF BlocksAreShown
    <3>3. m \notin P
      BY <1>4, <3>1 DEF HasState
    <3>4. ASSUME NEW g \in DOMAIN shadow', InChunk(m, g)
          PROVE  g \in DOMAIN shadow /\ shadow'[g] = shadow[g]
      <4>1. ASSUME NEW k \in P, InChunk(k, g) PROVE FALSE
        <5>1. k \in DOMAIN header /\ k # m /\ g \in DOMAIN shadow
          BY <1>5, <1>7, <3>3
        <5>2. m \in Nat /\ k \in Nat /\ g \in Nat /\ header[m].cls \in Nat /\ header[k].cls \in Nat
          BY <1>2, <5>1, ClassesArePositive DEF HeapTyped, ChunkBase
        <5>3. m < k => m + header[m].cls <= k
          BY <1>2, <5>1 DEF ChunksAreApart
        <5>4. k < m => k + header[k].cls <= m
          BY <1>2, <5>1 DEF ChunksAreApart
        <5> QED BY <3>4, <4>1, <5>1, <5>2, <5>3, <5>4 DEF InChunk
      <4> QED BY <1>5, <3>4, <4>1
    <3>5. DOMAIN shadow' \subseteq Nat /\ header'[m].used = header[m].used
      BY <1>2, <1>5 DEF HeapTyped
    <3>6. Fits(m, p)' /\ IsShown(m, p)' /\ IsClosed(m, p, header[m].used)'
      <4>1. /\ \A n : IsClosed(m, p, n) => IsClosed(m, p, n)'
            /\ Fits(m, p) => Fits(m, p)'
            /\ Fits(m, p) /\ IsShown(m, p) => IsShown(m, p)'
        BY <1>2, <1>5, <3>4, <3>5, SameChunk
      <4> QED BY <3>2, <3>5, <4>1
    <3> QED BY <1>11, <3>1, <3>6
  <2> QED BY <1>11, <2>1 DEF BlocksAreShown
<1>13. UnusedAreClosed'
  <2>1. ASSUME NEW m \in DOMAIN header, header'[m].state # "allocated", ~InSomeHand(m, {"poison"})'
        PROVE  IsClosed(m, m, 0)'
    <3>1. header[m].state # "allocated"
      BY <1>4, <1>5, <2>1 DEF HasState
    <3>2. ~InSomeHand(m, {"poison"})
      BY <1>1, <1>2, <2>1 DEF InSomeHand, ThreadsTyped
    <3> QED BY <1>2, <1>9, <3>1, <3>2 DEF UnusedAreClosed
  <2> QED BY <1>5, <2>1 DEF UnusedAreClosed
<1>14. HandsArePoisoned'
  <2>1. ASSUME NEW u \in Threads PROVE HandIsPoisoned(u)'
    <3>1. regs'[u] = regs[u] /\ (pc'[u] \in {"header", "unpoison", "poison"} => pc'[u] = pc[u])
      BY <1>1, <1>2 DEF ThreadsTyped
    <3>2. HandIsPoisoned(u) /\ HandIsRight(u)
      BY <1>2 DEF HandsArePoisoned, HandsAreRight
    <3>3. pc[u] \in {"unpoison", "poison"} => regs[u].chunk \in DOMAIN header
      BY <3>2 DEF HandIsPoisoned, Fits
    <3>4. \A m \in DOMAIN header : \A p : Fits(m, p) => Fits(m, p)'
      BY <1>5 DEF Fits
    <3>5. PICK m, p : m = regs[u].chunk /\ p = regs[u].ptr
      OBVIOUS
    <3>6. CASE pc'[u] = "unpoison"
      <4>1. /\ IsClosed(m, m, 0) /\ Fits(m, p) /\ m \in DOMAIN header
            /\ header[m].used = regs[u].size /\ regs[u].size > 0
        BY <3>1, <3>2, <3>3, <3>5, <3>6 DEF HandIsPoisoned
      <4>2. IsClosed(m, m, 0)' /\ Fits(m, p)' /\ header'[m].used = header[m].used
        BY <1>5, <1>9, <3>4, <4>1
      <4> QED BY <3>1, <3>5, <3>6, <4>1, <4>2 DEF HandIsPoisoned
    <3>7. CASE pc'[u] = "poison"
      <4>1. Fits(m, p) /\ IsClosed(m, p, header[m].used) /\ m \in DOMAIN header
        BY <3>1, <3>2, <3>3, <3>5, <3>7 DEF HandIsPoisoned
      <4>2. PICK used : used = header[m].used
        OBVIOUS
      <4>3. IsClosed(m, p, used)' /\ Fits(m, p)' /\ header'[m].used = used
        BY <1>5, <1>9, <3>4, <4>1, <4>2
      <4> QED BY <3>1, <3>5, <3>7, <4>3 DEF HandIsPoisoned
    <3>8. CASE pc'[u] \notin {"unpoison", "poison"}
      BY <3>1, <3>2, <3>8 DEF HandIsPoisoned
    <3> QED BY <3>6, <3>7, <3>8
  <2> QED BY <2>1 DEF HandsArePoisoned
<1> QED BY <1>8, <1>12, <1>13, <1>14 DEF ShadowInv, ShadowIsRight

\* Steps of thread t that change chunk k only.
LEMMA OneChunkStep ==
  ASSUME ShadowInv, HeapInv', died = "no", died' = "no", UNCHANGED groups,
         NEW t \in Threads, NEW k \in DOMAIN header,
         DOMAIN header' = DOMAIN header, DOMAIN shadow' = DOMAIN shadow,
         \A m \in DOMAIN header : header'[m].cls = header[m].cls /\ (m # k => header'[m] = header[m]),
         \A g \in DOMAIN shadow : shadow'[g] = shadow[g] \/ InChunk(k, g),
         \A u \in Threads : u # t =>
           /\ pc'[u] = pc[u] /\ regs'[u] = regs[u]
           /\ pc[u] \in {"unpoison", "poison"} => regs[u].chunk # k,
         pc[t] = "poison" => regs[t].chunk = k,
         \A p : IsOpen(p)' /\ PtrToChunk(p)' # k => IsOpen(p) /\ PtrToChunk(p)' = PtrToChunk(p),
         \A p : IsOpen(p)' /\ PtrToChunk(p)' = k =>
           Fits(k, p)' /\ IsShown(k, p)' /\ IsClosed(k, p, header[k].used)',
         header'[k].state # "allocated" /\ ~InSomeHand(k, {"poison"})' => IsClosed(k, k, 0)',
         HandIsPoisoned(t)'
  PROVE  ShadowInv'
<1>1. /\ HeapTyped /\ ThreadsTyped /\ ChunksAreApart /\ MarksLeadBack /\ StatesAreRight /\ HandsAreRight
      /\ GranulesAreRight /\ BlocksAreShown /\ UnusedAreClosed /\ HandsArePoisoned
  BY DEF ShadowInv, HeapInv, HeapIsSound, ShadowIsRight
<1>2. GranulesAreRight'
  BY <1>1, SameGranules
<1>3. ASSUME NEW m \in DOMAIN header, m # k, NEW p
      PROVE  /\ \A n : IsClosed(m, p, n) => IsClosed(m, p, n)'
             /\ Fits(m, p) => Fits(m, p)'
             /\ Fits(m, p) /\ IsShown(m, p) => IsShown(m, p)'
             /\ header'[m] = header[m]
  <2>1. \A n \in DOMAIN header : n # k => header'[n].cls = header[n].cls /\ header'[n].used = header[n].used
    OBVIOUS
  <2>2. /\ \A n : IsClosed(m, p, n) => IsClosed(m, p, n)'
        /\ Fits(m, p) => Fits(m, p)'
        /\ Fits(m, p) /\ IsShown(m, p) => IsShown(m, p)'
    BY <1>1, <1>3, <2>1, OtherChunks
  <2> QED BY <1>3, <2>2
<1>4. BlocksAreShown'
  <2>1. ASSUME NEW p, IsOpen(p)'
        PROVE  (LET m == PtrToChunk(p) IN Fits(m, p) /\ IsShown(m, p) /\ IsClosed(m, p, header[m].used))'
    <3>1. CASE PtrToChunk(p)' = k
      BY <2>1, <3>1
    <3>2. CASE PtrToChunk(p)' # k
      <4>1. IsOpen(p) /\ PtrToChunk(p)' = PtrToChunk(p)
        BY <2>1, <3>2
      <4>2. PICK m \in DOMAIN header : m = PtrToChunk(p)
        BY <1>1, <4>1 DEF StatesAreRight, HasState
      <4>3. m # k /\ Fits(m, p) /\ IsShown(m, p) /\ IsClosed(m, p, header[m].used)
        BY <1>1, <3>2, <4>1, <4>2 DEF BlocksAreShown
      <4>4. PICK used : used = header[m].used
        OBVIOUS
      <4>5. Fits(m, p)' /\ IsShown(m, p)' /\ IsClosed(m, p, used)' /\ header'[m].used = used
        BY <1>3, <4>3, <4>4
      <4> QED BY <4>1, <4>2, <4>5
    <3> QED BY <3>1, <3>2
  <2> QED BY <2>1 DEF BlocksAreShown
<1>5. UnusedAreClosed'
  <2>1. ASSUME NEW m \in DOMAIN header, header'[m].state # "allocated", ~InSomeHand(m, {"poison"})'
        PROVE  IsClosed(m, m, 0)'
    <3>1. CASE m = k
      BY <2>1, <3>1
    <3>2. CASE m # k
      <4>1. header[m].state # "allocated"
        BY <2>1, <3>2
      <4>2. ~InSomeHand(m, {"poison"})
        <5>1. ASSUME NEW u \in Threads, pc[u] = "poison", regs[u].chunk = m PROVE FALSE
          <6>1. u # t
            BY <3>2, <5>1
          <6> QED BY <2>1, <5>1, <6>1 DEF InSomeHand
        <5> QED BY <5>1 DEF InSomeHand
      <4>3. IsClosed(m, m, 0)
        BY <1>1, <4>1, <4>2 DEF UnusedAreClosed
      <4> QED BY <1>3, <3>2, <4>3
    <3> QED BY <3>1, <3>2
  <2> QED BY <2>1 DEF UnusedAreClosed
<1>6. HandsArePoisoned'
  <2>1. ASSUME NEW u \in Threads, u # t PROVE HandIsPoisoned(u)'
    <3>1. HandIsPoisoned(u) /\ pc'[u] = pc[u] /\ regs'[u] = regs[u]
      BY <1>1, <2>1 DEF HandsArePoisoned
    <3>2. PICK m, p : m = regs[u].chunk /\ p = regs[u].ptr
      OBVIOUS
    <3>3. CASE pc[u] = "unpoison"
      <4>1. /\ IsClosed(m, m, 0) /\ Fits(m, p) /\ m \in DOMAIN header /\ m # k
            /\ header[m].used = regs[u].size /\ regs[u].size > 0
        BY <2>1, <3>1, <3>2, <3>3 DEF HandIsPoisoned, Fits
      <4>2. IsClosed(m, m, 0)' /\ Fits(m, p)' /\ header'[m].used = header[m].used
        BY <1>3, <4>1
      <4> QED BY <3>1, <3>2, <3>3, <4>1, <4>2 DEF HandIsPoisoned
    <3>4. CASE pc[u] = "poison"
      <4>1. Fits(m, p) /\ IsClosed(m, p, header[m].used) /\ m \in DOMAIN header /\ m # k
        BY <2>1, <3>1, <3>2, <3>4 DEF HandIsPoisoned, Fits
      <4>2. PICK used : used = header[m].used
        OBVIOUS
      <4>3. IsClosed(m, p, used)' /\ Fits(m, p)' /\ header'[m].used = used
        BY <1>3, <4>1, <4>2
      <4> QED BY <3>1, <3>2, <3>4, <4>3 DEF HandIsPoisoned
    <3>5. CASE pc[u] \notin {"unpoison", "poison"}
      BY <3>1, <3>5 DEF HandIsPoisoned
    <3> QED BY <3>3, <3>4, <3>5
  <2> QED BY <2>1 DEF HandsArePoisoned
<1> QED BY <1>2, <1>4, <1>5, <1>6 DEF ShadowInv, ShadowIsRight

\* A freed block is poisoned, and with it its chunk.
LEMMA ShadowPoison ==
  ASSUME ShadowInv, HeapInv', NEW t \in Threads, PoisonFreed(t)
  PROVE  ShadowInv'
<1>1. died = "no" /\ pc[t] = "poison"
  BY Zenon DEF PoisonFreed, Running
<1>2. /\ HeapTyped /\ ThreadsTyped /\ ChunksAreApart /\ StatesAreRight /\ HandsAreRight /\ HandsAreApart
      /\ HandsArePoisoned
  BY <1>1 DEF ShadowInv, HeapInv, HeapIsSound, ShadowIsRight
<1>3. HandIsRight(t) /\ HandIsPoisoned(t) /\ regs[t] \in Registers
  BY <1>2 DEF HandsAreRight, HandsArePoisoned, ThreadsTyped
<1>4. PICK k, b : k = regs[t].chunk /\ b = regs[t].ptr
  OBVIOUS
<1>5. /\ k \in DOMAIN header /\ header[k].state = "quarantine" /\ header[k].free = InvalidTid
      /\ Fits(k, b) /\ IsClosed(k, b, header[k].used)
  BY <1>1, <1>3, <1>4 DEF HandIsRight, HandIsPoisoned, HasState
<1>6. PICK used \in Nat, rounded \in Nat :
        used = header[k].used /\ rounded = RoundUpTo(used, Redzone) /\ used <= rounded
  <2>1. header[k].used \in Nat
    BY <1>2, <1>5 DEF HeapTyped, ChunkBase
  <2> QED BY <2>1, RoundUpBounds, SizesAreNaturals
<1>7. /\ header' = [header EXCEPT ![k].free = IF t \in attached THEN t ELSE MainTid]
      /\ shadow' = PoisonShadow(shadow, b, rounded, HeapFree)
      /\ pc' = [pc EXCEPT ![t] = "push"] /\ died' = died
      /\ UNCHANGED <<groups, marks, regs, live>>
  BY <1>4, <1>5, <1>6, Zenon DEF PoisonFreed
<1>8. /\ b \in Nat /\ k \in Nat /\ header[k].cls \in Nat /\ k <= b /\ b + rounded <= k + header[k].cls
      /\ DOMAIN shadow \subseteq Nat
  BY <1>2, <1>5, <1>6, MultiplesAreNaturals, ClassesArePositive DEF Fits, HeapTyped, ChunkBase
<1>9. /\ DOMAIN header' = DOMAIN header
      /\ \A m \in DOMAIN header : header'[m].cls = header[m].cls /\ (m # k => header'[m] = header[m])
      /\ header'[k].state = "quarantine"
  <2>1. header \in [DOMAIN header -> ChunkBase]
    BY <1>2 DEF HeapTyped
  <2> QED BY <1>5, <1>7, <2>1 DEF ChunkBase
<1>10. /\ DOMAIN shadow' = DOMAIN shadow
       /\ \A g \in DOMAIN shadow : IF b <= g /\ g < b + rounded THEN shadow'[g] = HeapFree
                                   ELSE shadow'[g] = shadow[g]
  BY <1>7 DEF PoisonShadow
<1>11. \A g \in DOMAIN shadow : shadow'[g] = shadow[g] \/ InChunk(k, g)
  <2>1. ASSUME NEW g \in DOMAIN shadow, b <= g, g < b + rounded PROVE InChunk(k, g)
    BY <1>8, <2>1 DEF InChunk
  <2> QED BY <1>10, <2>1
<1>12. IsClosed(k, k, 0)'
  <2>1. ASSUME NEW g \in DOMAIN shadow, InChunk(k, g) PROVE shadow'[g] \in Magic
    <3>1. CASE b <= g /\ g < b + rounded
      BY <1>10, <3>1 DEF Magic
    <3>2. CASE ~(b <= g /\ g < b + rounded)
      <4>1. ~(b <= g /\ g < b + used)
        BY <1>6, <1>8, <3>2
      <4> QED BY <1>5, <1>6, <1>10, <2>1, <3>2, <4>1 DEF IsClosed
    <3> QED BY <3>1, <3>2
  <2>2. \A g : InChunk(k, g)' => InChunk(k, g)
    BY <1>5, <1>9 DEF InChunk
  <2> QED BY <1>10, <2>1, <2>2 DEF IsClosed
<1>13. /\ pc'[t] = "push" /\ \A u \in Threads : u # t => pc'[u] = pc[u]
       /\ \A u \in Threads : regs'[u] = regs[u]
  BY <1>2, <1>7 DEF ThreadsTyped
<1>14. /\ \A p : PtrToChunk(p)' = PtrToChunk(p)
       /\ \A p : IsOpen(p)' <=> IsOpen(p)
  <2>1. \A u \in Threads : Owned(u)' = Owned(u)
    BY <1>1, <1>13 DEF Owned
  <2> QED BY <1>7, <2>1, SamePointers, SameOpenBlocks
<1>15. \A p : IsOpen(p) => PtrToChunk(p) # k
  BY <1>2, <1>5 DEF StatesAreRight, HasState
<1>16. \A u \in Threads : u # t /\ pc[u] \in {"unpoison", "poison"} => regs[u].chunk # k
  BY <1>1, <1>2, <1>4 DEF HandsAreApart, Holding
<1>17. HandIsPoisoned(t)'
  BY <1>13 DEF HandIsPoisoned
<1> QED BY <1>1, <1>4, <1>5, <1>7, <1>9, <1>10, <1>11, <1>12, <1>13, <1>14, <1>15, <1>16, <1>17, OneChunkStep

\* A free that is let through finds an open block at its pointer.
LEMMA FreedBlock ==
  ASSUME HeapInv, NEW t \in Threads, NEW ptr \in returned, FreedPointer(t, ptr),
         HasState(PtrToChunk(ptr), "allocated")
  PROVE  IsOpen(ptr)
<1>1. PICK m : m = PtrToChunk(ptr)
  OBVIOUS
<1>2. died = "no"
  BY Zenon DEF FreedPointer, Running
<1>3. /\ StatesAreRight /\ HandsAreRight /\ AllAreSomewhere
  BY <1>2 DEF HeapInv, HeapIsSound
<1>4. CASE ptr \in DOMAIN live
  BY <1>4 DEF IsOpen
<1>5. CASE pc[t] = "exchange" /\ ptr = regs[t].ptr
  <2>1. regs[t].old = 0
    BY <1>3, <1>5 DEF HandsAreRight, HandIsRight
  <2>2. ptr \in Owned(t)
    BY <1>5, <2>1 DEF Owned
  <2> QED BY <2>2 DEF IsOpen
<1>6. CASE m \notin HandedOut
  <2>1. ~InSomeHand(m, {"unpoison"})
    BY <1>6 DEF HandedOut, InHand, InSomeHand
  <2>2. m \in DOMAIN header /\ header[m].state = "allocated" /\ m \notin lost
    BY <1>1, <1>3 DEF StatesAreRight, HasState
  <2>3. \E p : IsOpen(p) /\ PtrToChunk(p) = m
    BY <1>3, <2>1, <2>2 DEF AllAreSomewhere, IsSomewhere
  <2>4. \A p : p \in OpenBlocks <=> IsOpen(p)
    BY DEF OpenBlocks, IsOpen
  <2> QED BY <1>6, <2>3, <2>4 DEF HandedOut
<1>7. \/ ptr \in DOMAIN live \/ PtrToChunk(ptr) \notin HandedOut
      \/ pc[t] = "exchange" /\ ptr = regs[t].ptr
  BY Zenon DEF FreedPointer, Running
<1> QED BY <1>1, <1>4, <1>5, <1>6, <1>7

\* The shadow of a freed block is the one it had.
LEMMA ShadowDeallocate ==
  ASSUME ShadowInv, HeapInv', NEW t \in Threads, Deallocate(t)
  PROVE  ShadowInv'
<1>0. SUFFICES ASSUME died' = "no" PROVE ShadowInv'
  BY DEF ShadowInv
<1>1. PICK ptr \in returned :
        /\ FreedPointer(t, ptr)
        /\ header' = [header EXCEPT ![PtrToChunk(ptr)].state = "quarantine"]
        /\ died' = Judge(header[PtrToChunk(ptr)].state)
        /\ live' = Restrict(live, DOMAIN live \ {ptr})
        /\ regs' = [regs EXCEPT ![t] = [Idle EXCEPT !.chunk = PtrToChunk(ptr), !.ptr = ptr]]
  BY Zenon DEF Deallocate
<1>2. /\ died = "no" /\ pc[t] \in {"idle", "exchange"} /\ pc' = [pc EXCEPT ![t] = "poison"]
      /\ UNCHANGED <<groups, marks, shadow>>
  BY <1>1, Zenon DEF FreedPointer, Running, Deallocate
<1>3. /\ HeapTyped /\ ThreadsTyped /\ PointersHaveChunks /\ StatesAreRight /\ HandsAreApart
      /\ HandsAreRight /\ BlocksAreShown
  BY <1>2 DEF ShadowInv, HeapInv, HeapIsSound, ShadowIsRight
<1>4. PICK k \in DOMAIN header : k = PtrToChunk(ptr)
  BY <1>3 DEF PointersHaveChunks
<1>5. header[k].state = "allocated"
  <2>1. header[k].state \in {"available", "allocated", "quarantine"}
    BY <1>3 DEF HeapTyped, ChunkBase, States
  <2> QED BY <1>0, <1>1, <1>4, <2>1, Zenon DEF Judge
<1>6. IsOpen(ptr)
  BY <1>1, <1>4, <1>5, FreedBlock DEF HasState, ShadowInv
<1>7. Fits(k, ptr) /\ IsClosed(k, ptr, header[k].used)
  BY <1>3, <1>4, <1>6 DEF BlocksAreShown
<1>8. /\ DOMAIN header' = DOMAIN header /\ header'[k].used = header[k].used
      /\ \A m \in DOMAIN header : header'[m].cls = header[m].cls /\ (m # k => header'[m] = header[m])
  <2>1. header \in [DOMAIN header -> ChunkBase]
    BY <1>3 DEF HeapTyped
  <2> QED BY <1>1, <1>4, <2>1 DEF ChunkBase
<1>9. /\ regs'[t].chunk = k /\ regs'[t].ptr = ptr /\ regs'[t].old = 0 /\ pc'[t] = "poison"
      /\ \A u \in Threads : u # t => pc'[u] = pc[u] /\ regs'[u] = regs[u]
  <2>1. t \in DOMAIN regs /\ t \in DOMAIN pc /\ regs' \in [DOMAIN regs -> {regs'[u] : u \in DOMAIN regs}]
    BY <1>1, <1>3 DEF ThreadsTyped
  <2>2. regs'[t] = [Idle EXCEPT !.chunk = k, !.ptr = ptr]
    BY <1>1, <1>4, <2>1
  <2> QED BY <1>1, <1>2, <1>3, <2>2 DEF ThreadsTyped, Idle
<1>10. \A p : PtrToChunk(p)' = PtrToChunk(p)
  BY <1>2, SamePointers
<1>11. \A p : IsOpen(p)' => IsOpen(p) /\ p # ptr
  <2>1. ASSUME NEW p, IsOpen(p)' PROVE IsOpen(p)
    <3>1. CASE p \in DOMAIN live'
      BY <1>1, <3>1 DEF IsOpen, Restrict
    <3>2. ASSUME NEW u \in Threads, p \in Owned(u)' PROVE IsOpen(p)
      <4>1. u # t
        BY <1>9, <3>2 DEF Owned
      <4>2. p \in Owned(u)
        BY <1>9, <3>2, <4>1 DEF Owned
      <4> QED BY <4>2 DEF IsOpen
    <3> QED BY <2>1, <3>1, <3>2 DEF IsOpen
  <2>2. ~IsOpen(ptr)'
    <3>1. (StatesAreRight)' /\ PtrToChunk(ptr)' = k
      BY <1>0, <1>4, <1>10 DEF HeapInv, HeapIsSound
    <3>2. header'[k].state = "quarantine"
      BY <1>1, <1>3, <1>4 DEF HeapTyped, ChunkBase
    <3> QED BY <3>1, <3>2 DEF StatesAreRight, HasState
  <2> QED BY <2>1, <2>2
<1>12. \A p : IsOpen(p)' => PtrToChunk(p)' # k
  BY <1>3, <1>4, <1>6, <1>10, <1>11 DEF HandsAreApart
<1>13. HandIsPoisoned(t)'
  <2>1. \A g : InChunk(k, g)' <=> InChunk(k, g)
    BY <1>8 DEF InChunk
  <2>2. PICK used : used = header[k].used
    OBVIOUS
  <2>3. IsClosed(k, ptr, used)'
    BY <1>2, <1>7, <2>1, <2>2 DEF IsClosed
  <2>4. Fits(k, ptr)'
    BY <1>7, <1>8 DEF Fits
  <2> QED BY <1>8, <1>9, <2>2, <2>3, <2>4 DEF HandIsPoisoned
<1>14. \A u \in Threads : u # t /\ pc[u] \in {"unpoison", "poison"} => regs[u].chunk # k
  <2>1. ASSUME NEW u \in Threads, pc[u] = "unpoison" PROVE regs[u].chunk # k
    BY <1>3, <1>4, <1>6, <2>1 DEF HandsAreApart
  <2>2. ASSUME NEW u \in Threads, pc[u] = "poison" PROVE regs[u].chunk # k
    BY <1>3, <1>5, <2>2 DEF HandsAreRight, HandIsRight, HasState
  <2> QED BY <2>1, <2>2
<1>15. InSomeHand(k, {"poison"})'
  BY <1>9 DEF InSomeHand
<1>16. \A g \in DOMAIN shadow : shadow'[g] = shadow[g]
  BY <1>2
<1>17. DOMAIN shadow' = DOMAIN shadow /\ UNCHANGED groups /\ pc[t] # "poison"
  BY <1>2
<1> QED BY <1>0, <1>2, <1>8, <1>9, <1>10, <1>11, <1>12, <1>13, <1>14, <1>15, <1>16, <1>17, OneChunkStep

\* The chunk of a new block is closed and the block fits.
LEMMA ShadowSetHeader ==
  ASSUME ShadowInv, HeapInv', NEW t \in Threads, SetHeader(t)
  PROVE  ShadowInv'
<1>0. died = "no" /\ pc[t] = "header" /\ UNCHANGED <<groups, shadow, live>>
  BY Zenon DEF SetHeader, Running
<1>1. PICK k \in Nat, size \in Nat \ {0}, alignment \in Nat, old \in Nat, addr \in Nat \ {0} :
           IsSet(t, k, size, alignment, old, addr)
  BY HeaderIsSet DEF ShadowInv
<1> USE DEF IsSet
<1>2. /\ HeapTyped /\ ThreadsTyped /\ StatesAreRight /\ HandsAreRight /\ HandsAreApart
      /\ GranulesAreRight /\ UnusedAreClosed /\ HandsArePoisoned
  BY <1>0 DEF ShadowInv, HeapInv, HeapIsSound, ShadowIsRight
<1>3. /\ HandIsRight(t) /\ HandIsPoisoned(t) /\ regs[t] \in Registers
      /\ header \in [DOMAIN header -> ChunkBase]
  BY <1>2 DEF HandsAreRight, HandsArePoisoned, HeapTyped, ThreadsTyped
<1>4. /\ k \in DOMAIN header /\ header[k].state = "available"
      /\ NeededSize(size, alignment) <= header[k].cls /\ alignment \in Alignments \cup {0}
  BY <1>0, <1>1, <1>3 DEF HandIsRight, HandIsPoisoned, HasState
<1>5. \A m \in DOMAIN header : header'[m].cls = header[m].cls /\ (m # k => header'[m] = header[m])
  BY <1>1
<1>6. /\ regs'[t].chunk = k /\ regs'[t].size = size /\ regs'[t].ptr = addr /\ regs'[t].old = regs[t].old
      /\ pc'[t] = "unpoison" /\ \A u \in Threads : u # t => pc'[u] = pc[u] /\ regs'[u] = regs[u]
  BY <1>1, <1>2 DEF ThreadsTyped, Registers
<1>7. \A u \in Threads : Owned(u)' = Owned(u)
  <2>1. Owned(t)' = Owned(t)
    BY <1>0, <1>6 DEF Owned
  <2> QED BY <1>6, <2>1 DEF Owned
<1>8. \A p : IsOpen(p)' <=> IsOpen(p)
  BY <1>0, <1>7, SameOpenBlocks
<1>9. ASSUME NEW p, IsOpen(p)' PROVE IsOpen(p) /\ PtrToChunk(p)' = PtrToChunk(p) /\ PtrToChunk(p) # k
  <2>1. p \in returned /\ HasState(PtrToChunk(p), "allocated") /\ p \in Nat
    BY <1>2, <1>8, <1>9 DEF StatesAreRight, ThreadsTyped
  <2> QED BY <1>1, <1>4, <1>8, <1>9, <2>1 DEF HasState
<1>10. \A u \in Threads : u # t /\ pc[u] \in {"unpoison", "poison"} => regs[u].chunk # k
  BY <1>0, <1>1, <1>2 DEF HandsAreApart, Holding
<1>11. ~InSomeHand(k, {"poison"})
  BY <1>0, <1>10 DEF InSomeHand
<1>12. IsClosed(k, k, 0)
  BY <1>2, <1>4, <1>11 DEF UnusedAreClosed
<1>13. IsClosed(k, k, 0)'
  BY <1>0, <1>4, <1>5, <1>12 DEF IsClosed, InChunk
<1>14. PICK cls \in Nat : cls = header[k].cls
  BY <1>3, <1>4, ClassesArePositive DEF ChunkBase
<1>15. PICK rounded \in Nat : rounded = RoundUpTo(size, Redzone)
                              /\ rounded + Redzone + (IF alignment > Redzone THEN alignment ELSE 0) <= cls
  <2>1. /\ RoundUpTo(size, Redzone) \in Nat /\ NeededSize(size, alignment) \in Nat
        /\ NeededSize(size, alignment) >=
              RoundUpTo(size, Redzone) + Redzone + (IF alignment > Redzone THEN alignment ELSE 0)
    BY NeededSizeFits
  <2>2. PICK rounded \in Nat : rounded = RoundUpTo(size, Redzone)
    BY <2>1
  <2>3. PICK needed \in Nat : needed = NeededSize(size, alignment)
    BY <2>1
  <2>4. (IF alignment > Redzone THEN alignment ELSE 0) \in Nat /\ Redzone \in Nat
    BY SizesAreNaturals
  <2>5. needed >= rounded + Redzone + (IF alignment > Redzone THEN alignment ELSE 0) /\ needed <= cls
    BY <1>4, <1>14, <2>1, <2>2, <2>3
  <2>6. rounded + Redzone + (IF alignment > Redzone THEN alignment ELSE 0) <= cls
    BY <2>4, <2>5
  <2> QED BY <2>2, <2>6
<1>16. IsMultiple(addr) /\ k <= addr /\ addr + rounded <= k + cls
  <2>1. IsMultiple(k + Redzone) /\ Redzone \in Nat /\ Redzone > 0
    BY <1>2, <1>4, PlacesAreMultiples, SumOfMultiples, SizesAreNaturals DEF GranulesAreRight
  <2>2. CASE alignment > Redzone /\ (k + Redzone) % alignment # 0
    <3>1. addr = RoundUpTo(k + Redzone, alignment)
      BY <1>1, <2>2
    <3>2. k + Redzone \in Nat /\ alignment \in Nat \ {0} /\ alignment \in Alignments
      BY <1>4, <2>1, <2>2
    <3>3. k + Redzone <= addr /\ addr < (k + Redzone) + alignment
      BY <3>1, <3>2, RoundUpBounds
    <3>4. IsMultiple(addr)
      BY <2>2, <3>1, <3>2, PlacesAreMultiples
    <3> QED BY <1>15, <2>1, <2>2, <3>3, <3>4
  <2>3. CASE ~(alignment > Redzone /\ (k + Redzone) % alignment # 0)
    <3>1. addr = k + Redzone
      BY <1>1, <2>3
    <3> QED BY <1>15, <2>1, <3>1
  <2> QED BY <2>2, <2>3
<1>17. Fits(k, addr)'
  BY <1>1, <1>4, <1>14, <1>15, <1>16 DEF Fits
<1>18. HandIsPoisoned(t)'
  BY <1>1, <1>6, <1>13, <1>17 DEF HandIsPoisoned
<1>19. \A p : IsOpen(p)' => IsOpen(p) /\ PtrToChunk(p)' = PtrToChunk(p) /\ PtrToChunk(p)' # k
  BY <1>9
<1>20. DOMAIN shadow' = DOMAIN shadow /\ \A g \in DOMAIN shadow : shadow'[g] = shadow[g]
  BY <1>0
<1> QED BY <1>0, <1>1, <1>4, <1>5, <1>6, <1>10, <1>13, <1>18, <1>19, <1>20, OneChunkStep

\* Rounding up adds what is missing to the next multiple.
LEMMA RoundUpRest ==
  ASSUME NEW x \in Nat, NEW b \in Nat \ {0}
  PROVE  /\ x % b = 0 => RoundUpTo(x, b) = x
         /\ x % b # 0 => RoundUpTo(x, b) = (x - (x % b)) + b
<1>1. ASSUME NEW n \in Nat, NEW r \in 0 .. b - 1 PROVE (n * b + r) \div b = n
  OBVIOUS
<1>2. PICK q \in Nat, r \in 0 .. b - 1 : x = b * q + r /\ r = x % b
  <2>1. x % b \in 0 .. b - 1 /\ x \div b \in Nat /\ x = b * (x \div b) + (x % b)
    BY Division, Zenon
  <2> QED BY <2>1
<1>3. q * b = b * q /\ b * q \in Nat /\ (q + 1) * b = q * b + b
  OBVIOUS
<1>4. CASE r = 0
  <2>1. b - 1 \in 0 .. b - 1
    OBVIOUS
  <2>2. (q * b + (b - 1)) \div b = q
    BY <1>1, <2>1, Zenon
  <2>3. (x + b) - 1 = q * b + (b - 1)
    <3>1. PICK z \in Nat : z = b * q
      BY <1>3
    <3>2. x = z + r /\ q * b = z
      BY <1>2, <1>3, <3>1, Zenon
    <3>3. (x + b) - 1 = z + (b - 1)
      BY <1>4, <3>2
    <3> QED BY <3>2, <3>3, Zenon
  <2>4. ((x + b) - 1) \div b = q
    BY <2>2, <2>3
  <2>5. RoundUpTo(x, b) = q * b
    BY <2>4 DEF RoundUpTo
  <2>6. x = q * b
    BY <1>2, <1>3, <1>4
  <2>7. x % b = 0
    BY <1>2, <1>4, Zenon
  <2> QED BY <2>5, <2>6, <2>7, Zenon
<1>5. CASE r # 0
  <2>1. r - 1 \in 0 .. b - 1 /\ q + 1 \in Nat
    BY <1>5
  <2>2. ((q + 1) * b + (r - 1)) \div b = q + 1
    BY <1>1, <2>1, Zenon
  <2>3. (x + b) - 1 = (q + 1) * b + (r - 1)
    <3>1. PICK z \in Nat : z = b * q
      BY <1>3
    <3>2. x = z + r /\ (q + 1) * b = z + b
      BY <1>2, <1>3, <3>1, Zenon
    <3>3. (x + b) - 1 = (z + b) + (r - 1)
      BY <3>2
    <3> QED BY <3>2, <3>3, Zenon
  <2>4. ((x + b) - 1) \div b = q + 1
    BY <2>2, <2>3
  <2>5. RoundUpTo(x, b) = (q + 1) * b
    BY <2>4 DEF RoundUpTo
  <2>6. (q + 1) * b = (x - r) + b
    <3>1. PICK z \in Nat : z = b * q
      BY <1>3
    <3>2. x = z + r /\ (q + 1) * b = z + b
      BY <1>2, <1>3, <3>1, Zenon
    <3> QED BY <1>2, <3>1, <3>2
  <2>7. x % b # 0
    BY <1>2, <1>5, Zenon
  <2> QED BY <1>2, <2>5, <2>6, <2>7, Zenon
<1> QED BY <1>4, <1>5

\* What Unpoison leaves in the shadow of the block.
LEMMA UnpoisonedGranules ==
  ASSUME NEW sh, NEW b \in Nat, NEW size \in Nat \ {0}, IsMultiple(b),
         DOMAIN sh \subseteq Nat, \A g \in DOMAIN sh : IsMultiple(g),
         NEW rounded, rounded = RoundUpTo(size, Redzone),
         NEW open, open = PoisonShadow(sh, b, rounded, 0),
         NEW new, new = IF size < rounded
                        THEN PoisonHeapPartialRightRedzone(open, b + rounded - Redzone, size % Redzone)
                        ELSE open,
         NEW g \in DOMAIN sh
  PROVE  new[g] = IF ~(b <= g /\ g < b + rounded) THEN sh[g]
                  ELSE IF g + Granularity <= b + size THEN 0
                  ELSE IF g >= b + size THEN HeapRight ELSE b + size - g
<1>1. rounded \in Nat /\ rounded = RoundUpTo(size, Redzone) /\ size <= rounded /\ IsMultiple(rounded)
  <2>1. RoundUpTo(size, Redzone) \in Nat /\ size <= RoundUpTo(size, Redzone)
    BY RoundUpBounds, SizesAreNaturals
  <2>2. IsMultiple(RoundUpTo(size, Redzone))
    BY PlacesAreMultiples
  <2> QED BY <2>1, <2>2
<1>2. size = rounded => new = open
  BY <1>1
<1>3. DOMAIN open = DOMAIN sh /\ open[g] = IF b <= g /\ g < b + rounded THEN 0 ELSE sh[g]
  BY DEF PoisonShadow
<1>4. Redzone \in Nat \ {0} /\ Granularity \in Nat \ {0} /\ g \in Nat
  BY SizesAreNaturals
<1>5. CASE size = rounded
  <2>1. IsMultiple(b + rounded)
    BY <1>1, SumOfMultiples
  <2>2. g < b + rounded => g + Granularity <= b + rounded
    BY <2>1, MultiplesAreApart
  <2> QED BY <1>1, <1>2, <1>3, <1>4, <1>5, <2>2
<1>6. CASE size < rounded
  <2>1. PICK rest \in Nat : rest = size % Redzone /\ rounded = (size - rest) + Redzone /\ rest <= size /\ rest < Redzone
    <3>1. size % Redzone \in 0 .. Redzone - 1
      BY <1>4, Division
    <3>2. size % Redzone # 0
      BY <1>1, <1>4, <1>6, RoundUpRest
    <3>3. rounded = (size - (size % Redzone)) + Redzone
      BY <1>1, <1>4, <3>2, RoundUpRest
    <3>4. size % Redzone <= size
      <4>1. size = Redzone * (size \div Redzone) + (size % Redzone) /\ size \div Redzone \in Nat
        BY <1>4, Division, Zenon
      <4>2. PICK q \in Nat, r \in Nat : q = size \div Redzone /\ r = size % Redzone
        BY <3>1, <4>1
      <4>3. Redzone * q \in Nat
        BY <1>4
      <4> QED BY <4>1, <4>2, <4>3
    <3> QED BY <1>4, <3>1, <3>3, <3>4
  <2>2. PICK mem \in Nat : mem = b + (size - rest) /\ mem = (b + rounded) - Redzone
    BY <1>4, <2>1
  <2>3. IsMultiple(mem)
    <3>1. IsMultiple(b + rounded)
      BY <1>1, SumOfMultiples
    <3>2. IsMultiple(Redzone) /\ ~(b + rounded < Redzone)
      BY <1>1, <1>4, <2>2, PlacesAreMultiples
    <3>3. IsMultiple((b + rounded) - Redzone)
      BY <3>1, <3>2, SumOfMultiples
    <3> QED BY <2>2, <3>3
  <2>4. new = PoisonHeapPartialRightRedzone(open, mem, rest)
    <3>1. b + rounded - Redzone = mem /\ size % Redzone = rest
      BY <1>1, <1>4, <2>1, <2>2
    <3> QED BY <1>6, <3>1, Zenon
  <2>5. new[g] = IF g < mem \/ g >= mem + Redzone THEN open[g]
                 ELSE CASE (g - mem) + Granularity <= rest -> 0
                        [] (g - mem) >= rest -> HeapRight
                        [] OTHER -> rest - (g - mem)
    BY <1>3, <2>4 DEF PoisonHeapPartialRightRedzone
  <2>6. g < mem => g + Granularity <= mem
    BY <2>3, MultiplesAreApart
  <2>7. new[g] = IF ~(b <= g /\ g < b + rounded) THEN sh[g]
                 ELSE IF g + Granularity <= b + size THEN 0
                 ELSE IF g >= b + size THEN HeapRight ELSE b + size - g
    <3>1. CASE g < mem
      <4>1. new[g] = open[g]
        BY <2>5, <3>1
      <4>2. g + Granularity <= b + size /\ g < b + rounded
        BY <1>1, <1>4, <2>1, <2>2, <2>6, <3>1
      <4> QED BY <1>3, <4>1, <4>2
    <3>2. CASE g >= mem + Redzone
      <4>1. new[g] = open[g]
        BY <2>5, <3>2
      <4>2. ~(g < b + rounded)
        BY <1>1, <1>4, <2>1, <2>2, <3>2
      <4> QED BY <1>3, <4>1, <4>2
    <3>3. CASE mem <= g /\ g < mem + Redzone
      <4>1. b <= g /\ g < b + rounded
        BY <1>4, <2>1, <2>2, <3>3
      <4>2. (g - mem) + Granularity <= rest <=> g + Granularity <= b + size
        BY <1>4, <2>1, <2>2, <3>3
      <4>3. (g - mem) >= rest <=> g >= b + size
        BY <1>4, <2>1, <2>2, <3>3
      <4>4. rest - (g - mem) = b + size - g
        BY <1>4, <2>1, <2>2, <3>3
      <4>5. g + Granularity <= b + size => ~(g >= b + size)
        BY <1>4
      <4>6. ~(g < mem \/ g >= mem + Redzone)
        BY <1>4, <3>3
      <4> QED BY <2>5, <4>1, <4>2, <4>3, <4>4, <4>5, <4>6
    <3> QED BY <1>4, <3>1, <3>2, <3>3
  <2> QED BY <2>7
<1> QED BY <1>1, <1>5, <1>6

\* A block that becomes the application's is open, and the rest of its chunk is not.
LEMMA ShadowUnpoison ==
  ASSUME ShadowInv, HeapInv', NEW t \in Threads, Unpoison(t)
  PROVE  ShadowInv'
<1>0. /\ died = "no" /\ died' = "no" /\ pc[t] = "unpoison" /\ UNCHANGED <<groups, header, marks>>
      /\ live' = Over([p \in {regs[t].ptr} |-> regs[t].size], live)
  BY Zenon DEF Unpoison, Running
<1>1. /\ HeapTyped /\ ThreadsTyped /\ ChunksAreApart /\ StatesAreRight /\ HandsAreRight /\ HandsAreApart
      /\ GranulesAreRight /\ HandsArePoisoned
  BY <1>0 DEF ShadowInv, HeapInv, HeapIsSound, ShadowIsRight
<1>2. HandIsRight(t) /\ HandIsPoisoned(t) /\ regs[t] \in Registers
  BY <1>1 DEF HandsAreRight, HandsArePoisoned, ThreadsTyped
<1>3. PICK k \in DOMAIN header, b \in Nat, size \in Nat \ {0}, old \in Nat :
        k = regs[t].chunk /\ b = regs[t].ptr /\ size = regs[t].size /\ old = regs[t].old
  <2>1. regs[t].chunk \in DOMAIN header /\ regs[t].ptr \in Nat /\ regs[t].size \in Nat \ {0} /\ regs[t].old \in Nat
    BY <1>0, <1>2 DEF HandIsRight, HandIsPoisoned, HasState, Registers
  <2> QED BY <2>1
<1>4. /\ IsClosed(k, k, 0) /\ Fits(k, b) /\ header[k].used = size /\ header[k].state = "allocated"
      /\ PtrToChunk(b) = k /\ \A p : IsOpen(p) => PtrToChunk(p) # k
  BY <1>0, <1>1, <1>2, <1>3 DEF HandIsRight, HandIsPoisoned, HasState, HandsAreApart
<1>5. PICK cls \in Nat, rounded \in Nat :
        /\ cls = header[k].cls /\ rounded = RoundUpTo(size, Redzone)
        /\ size <= rounded /\ k <= b /\ b + rounded <= k + cls /\ IsMultiple(b) /\ k \in Nat
  <2>1. RoundUpTo(size, Redzone) \in Nat /\ size <= RoundUpTo(size, Redzone)
    BY RoundUpBounds, SizesAreNaturals
  <2>2. header[k].cls \in Nat /\ k \in Nat
    BY <1>1, ClassesArePositive DEF HeapTyped, ChunkBase
  <2> QED BY <1>4, <2>1, <2>2 DEF Fits
<1>6. /\ DOMAIN shadow' = DOMAIN shadow
      /\ \A g \in DOMAIN shadow :
           shadow'[g] = IF ~(b <= g /\ g < b + rounded) THEN shadow[g]
                        ELSE IF g + Granularity <= b + size THEN 0
                        ELSE IF g >= b + size THEN HeapRight ELSE b + size - g
  <2>1. PICK open : open = PoisonShadow(shadow, b, rounded, 0)
    OBVIOUS
  <2>2. PICK new : new = IF size < rounded
                         THEN PoisonHeapPartialRightRedzone(open, b + rounded - Redzone, size % Redzone)
                         ELSE open
    OBVIOUS
  <2>3. shadow' = new
    BY <1>3, <1>5, <2>1, <2>2, Zenon DEF Unpoison
  <2>4. DOMAIN new = DOMAIN shadow
    BY <2>1, <2>2 DEF PoisonShadow, PoisonHeapPartialRightRedzone
  <2>5. DOMAIN shadow \subseteq Nat /\ \A g \in DOMAIN shadow : IsMultiple(g)
    BY <1>1 DEF HeapTyped, GranulesAreRight
  <2>6. ASSUME NEW g \in DOMAIN shadow
        PROVE  new[g] = IF ~(b <= g /\ g < b + rounded) THEN shadow[g]
                        ELSE IF g + Granularity <= b + size THEN 0
                        ELSE IF g >= b + size THEN HeapRight ELSE b + size - g
    BY <1>5, <2>1, <2>2, <2>5, <2>6, UnpoisonedGranules
  <2> QED BY <2>3, <2>4, <2>6
<1>7. DOMAIN shadow \subseteq Nat /\ Granularity \in Nat \ {0}
  BY <1>1, SizesAreNaturals DEF HeapTyped
<1>8. IsShown(k, b)'
  BY <1>0, <1>4, <1>5, <1>6, <1>7 DEF IsShown
<1>9. IsClosed(k, b, header[k].used)'
  <2>1. ASSUME NEW g \in DOMAIN shadow', InChunk(k, g), ~(b <= g /\ g < b + size)
        PROVE  shadow'[g] \in Magic
    <3>1. g \in Nat /\ g \in DOMAIN shadow
      BY <1>6, <1>7
    <3>2. CASE ~(b <= g /\ g < b + rounded)
      <4>1. shadow'[g] = shadow[g]
        BY <1>6, <3>1, <3>2
      <4>2. ~(k <= g /\ g < k + 0)
        BY <1>5, <3>1
      <4> QED BY <1>4, <2>1, <3>1, <4>1, <4>2 DEF IsClosed
    <3>3. CASE b <= g /\ g < b + rounded
      <4>1. g >= b + size /\ ~(g + Granularity <= b + size)
        BY <1>5, <1>7, <2>1, <3>1, <3>3
      <4>2. shadow'[g] = HeapRight
        BY <1>6, <3>1, <3>3, <4>1
      <4> QED BY <4>2 DEF Magic
    <3> QED BY <3>2, <3>3
  <2> QED BY <1>0, <1>4, <2>1 DEF IsClosed, InChunk
<1>10. Fits(k, b)'
  BY <1>0, <1>4 DEF Fits
<1>11. \A p : PtrToChunk(p)' = PtrToChunk(p)
  BY <1>0, SamePointers
<1>12. /\ regs'[t].old = 0 /\ regs'[t].ptr = old /\ pc'[t] = IF old = 0 THEN "idle" ELSE "exchange"
       /\ \A u \in Threads : u # t => pc'[u] = pc[u] /\ regs'[u] = regs[u]
  <2>1. CASE old # 0
    <3>1. pc' = [pc EXCEPT ![t] = "exchange"] /\ regs' = [regs EXCEPT ![t] = [Idle EXCEPT !.ptr = old]]
      BY <1>3, <2>1, Zenon DEF Unpoison
    <3> QED BY <1>1, <2>1, <3>1 DEF ThreadsTyped, Idle
  <2>2. CASE old = 0
    <3>1. pc' = [pc EXCEPT ![t] = "idle"] /\ regs' = [regs EXCEPT ![t] = Idle]
      BY <1>3, <2>2, Zenon DEF Unpoison
    <3> QED BY <1>1, <2>2, <3>1 DEF ThreadsTyped, Idle
  <2> QED BY <2>1, <2>2
<1>13. \A u \in Threads : Owned(u)' = Owned(u)
  <2>1. Owned(t)' = Owned(t)
    BY <1>0, <1>3, <1>12 DEF Owned
  <2> QED BY <1>12, <2>1 DEF Owned
<1>14. \A p : IsOpen(p)' <=> IsOpen(p) \/ p = b
  <2>1. DOMAIN live' = DOMAIN live \cup {b}
    BY <1>0, <1>3 DEF Over
  <2> QED BY <1>13, <2>1 DEF IsOpen
<1>15. \A p : IsOpen(p)' /\ PtrToChunk(p)' # k => IsOpen(p) /\ PtrToChunk(p)' = PtrToChunk(p)
  BY <1>4, <1>11, <1>14
<1>16. \A p : IsOpen(p)' /\ PtrToChunk(p)' = k =>
         Fits(k, p)' /\ IsShown(k, p)' /\ IsClosed(k, p, header[k].used)'
  BY <1>4, <1>8, <1>9, <1>10, <1>11, <1>14
<1>17. \A u \in Threads : u # t /\ pc[u] \in {"unpoison", "poison"} => regs[u].chunk # k
  BY <1>0, <1>1, <1>3 DEF HandsAreApart, Holding
<1>18. HandIsPoisoned(t)'
  BY <1>12 DEF HandIsPoisoned
<1>19. \A g \in DOMAIN shadow : shadow'[g] = shadow[g] \/ InChunk(k, g)
  <2>1. ASSUME NEW g \in DOMAIN shadow, b <= g, g < b + rounded PROVE InChunk(k, g)
    BY <1>5, <1>7, <2>1 DEF InChunk
  <2> QED BY <1>6, <2>1
<1>20. header'[k].state = "allocated" /\ pc[t] # "poison" /\ DOMAIN header' = DOMAIN header
       /\ \A m \in DOMAIN header : header'[m].cls = header[m].cls /\ (m # k => header'[m] = header[m])
  BY <1>0, <1>4
<1> QED BY <1>0, <1>6, <1>12, <1>15, <1>16, <1>17, <1>18, <1>19, <1>20, OneChunkStep

\* The chunks of a group are every multiple of their size, up to the last.
LEMMA SlotsOfGroup ==
  ASSUME NEW base \in Nat, NEW cls \in Classes, NEW New, New = ToSet(NewChunks(base, cls))
  PROVE  /\ \A j \in 0 .. ChunkCount(cls) - 1 : base + j * cls \in New
         /\ \A m \in New : \E j \in 0 .. ChunkCount(cls) - 1 : m = base + j * cls
<1>1. PICK k \in Nat : k = ChunkCount(cls)
  BY GroupHoldsChunks
<1>2. New = {base + (k - i) * cls : i \in 1 .. k}
  BY <1>1 DEF NewChunks, ToSet
<1>3. ASSUME NEW j \in 0 .. k - 1 PROVE base + j * cls \in New
  <2>1. k - j \in 1 .. k /\ k - (k - j) = j
    OBVIOUS
  <2> QED BY <1>2, <2>1
<1>4. ASSUME NEW m \in New PROVE \E j \in 0 .. k - 1 : m = base + j * cls
  <2>1. PICK i \in 1 .. k : m = base + (k - i) * cls
    BY <1>2
  <2>2. k - i \in 0 .. k - 1
    OBVIOUS
  <2> QED BY <2>1, <2>2
<1> QED BY <1>1, <1>3, <1>4

\* The granules of a group are the multiples in it.
LEMMA GranulesOfGroup ==
  ASSUME NEW base, NEW size, IsMultiple(base), IsMultiple(size), NEW S,
         S = {base + i * Granularity : i \in 0 .. size \div Granularity - 1}
  PROVE  \A g : g \in S <=> IsMultiple(g) /\ base <= g /\ g < base + size
<1>1. PICK b \in Nat : base = b * Granularity
  BY DEF IsMultiple
<1>2. PICK z \in Nat : size = z * Granularity
  BY DEF IsMultiple
<1>3. Granularity \in Nat /\ Granularity > 0 /\ base \in Nat /\ size \in Nat
  BY SizesAreNaturals, MultiplesAreNaturals
<1>4. size \div Granularity = z
  BY <1>2, <1>3
<1>5. ASSUME NEW g \in S PROVE IsMultiple(g) /\ base <= g /\ g < base + size
  <2>1. PICK i \in 0 .. z - 1 : g = base + i * Granularity
    BY <1>4
  <2>2. IsMultiple(i * Granularity)
    BY DEF IsMultiple
  <2>3. i * Granularity \in Nat /\ i * Granularity < z * Granularity
    BY <1>3
  <2>4. IsMultiple(g)
    BY <2>1, <2>2, SumOfMultiples
  <2> QED BY <1>2, <1>3, <2>1, <2>3, <2>4
<1>6. ASSUME NEW g, IsMultiple(g), base <= g, g < base + size PROVE g \in S
  <2>1. PICK q \in Nat : q * Granularity = g
    BY <1>6 DEF IsMultiple
  <2>2. b <= q
    <3>1. SUFFICES ASSUME q + 1 <= b PROVE FALSE
      OBVIOUS
    <3>2. (q + 1) * Granularity <= b * Granularity /\ (q + 1) * Granularity = q * Granularity + Granularity
      BY <1>3, <3>1
    <3> QED BY <1>1, <1>3, <1>6, <2>1, <3>2
  <2>3. q < b + z
    <3>1. SUFFICES ASSUME b + z <= q PROVE FALSE
      OBVIOUS
    <3>2. (b + z) * Granularity <= q * Granularity
          /\ (b + z) * Granularity = b * Granularity + z * Granularity
      BY <1>3, <3>1
    <3> QED BY <1>1, <1>2, <1>3, <1>6, <2>1, <3>2
  <2>4. q - b \in 0 .. z - 1
    BY <2>2, <2>3
  <2>5. q * Granularity = b * Granularity + (q - b) * Granularity
    BY <1>3
  <2>6. g = base + (q - b) * Granularity
    BY <1>1, <2>1, <2>5, Zenon
  <2> QED BY <1>4, <2>4, <2>6
<1> QED BY <1>5, <1>6

\* What a refill leaves of the chunks there were, and what the new ones are.
HasGrown ==
  /\ GranulesAreRight' /\ DOMAIN header \subseteq DOMAIN header' /\ DOMAIN shadow' \subseteq Nat
  /\ \A m \in DOMAIN header :
       /\ header'[m] = header[m]
       /\ \A g \in DOMAIN shadow' : InChunk(m, g) => g \in DOMAIN shadow /\ shadow'[g] = shadow[g]
  /\ \A m \in DOMAIN header' : m \notin DOMAIN header => IsClosed(m, m, 0)'

LEMMA NewGroupIsCovered ==
  ASSUME HeapTyped, ChunksAreApart, GranulesAreRight, NEW cls \in Classes,
         NEW base \in Bases, BaseIsUnused(base, cls),
         header' = Over([m \in ToSet(NewChunks(base, cls)) |-> FreshChunk(cls)], header),
         groups' = Append(groups, NewGroup(base, cls)),
         shadow' = Over([a \in {base + i * Granularity : i \in 0 .. GroupSize(cls) \div Granularity - 1}
                           |-> HeapLeft], shadow),
         \A m \in DOMAIN header : header'[m] = header[m]
  PROVE  HasGrown
<1>0. PICK size \in Nat, k \in Nat : size = GroupSize(cls) /\ k = ChunkCount(cls)
  BY GroupHoldsChunks
<1>1. base \in Nat /\ cls \in Nat \ {0} /\ size \in Nat /\ k \in Nat
  BY <1>0, ClassesArePositive, AllocatorAssumption
<1>20. k * cls <= size
  BY <1>0, GroupHoldsChunks, Zenon
<1>21. IsMultiple(base) /\ IsMultiple(size) /\ IsMultiple(cls)
  BY <1>0, PlacesAreMultiples
<1>2. PICK S : S = {base + i * Granularity : i \in 0 .. size \div Granularity - 1}
  OBVIOUS
<1>3. \A g : g \in S <=> IsMultiple(g) /\ base <= g /\ g < base + size
  BY <1>2, <1>21, GranulesOfGroup
<1>4. PICK New : New = ToSet(NewChunks(base, cls))
  OBVIOUS
<1>5. /\ \A j \in 0 .. k - 1 : base + j * cls \in New
      /\ \A m \in New : \E j \in 0 .. k - 1 : m = base + j * cls
  BY <1>0, <1>1, <1>4, SlotsOfGroup
<1>6. \A m \in New : m \in Nat /\ base <= m /\ m + cls <= base + size /\ m + cls <= base + k * cls
  <2> SUFFICES ASSUME NEW m \in New
               PROVE  m \in Nat /\ base <= m /\ m + cls <= base + size /\ m + cls <= base + k * cls
    OBVIOUS
  <2>1. PICK j \in 0 .. k - 1 : m = base + j * cls
    BY <1>5
  <2>2. j * cls \in Nat /\ j * cls + cls = (j + 1) * cls /\ (j + 1) * cls <= k * cls /\ k * cls \in Nat
    <3>1. j \in Nat /\ j + 1 <= k
      BY <1>1
    <3>2. j * cls \in Nat /\ k * cls \in Nat /\ j * cls + cls = (j + 1) * cls
      BY <1>1, <3>1
    <3>3. (j + 1) * cls <= k * cls
      BY <1>1, <3>1
    <3> QED BY <3>2, <3>3
  <2>3. PICK z \in Nat, w \in Nat : z = j * cls /\ w = k * cls
    BY <2>2
  <2>4. m = base + z /\ z + cls <= w /\ w <= size /\ z \in Nat /\ w \in Nat
    BY <1>20, <2>1, <2>2, <2>3
  <2>5. m \in Nat /\ base <= m /\ m + cls <= base + size /\ m + cls <= base + w
    BY <1>1, <2>4
  <2> QED BY <2>3, <2>5
<1>7. /\ DOMAIN header' = New \cup DOMAIN header
      /\ \A m \in New : header'[m].cls = cls
  BY <1>4 DEF Over, FreshChunk
<1>8. /\ DOMAIN shadow' = S \cup DOMAIN shadow
      /\ \A g \in S : shadow'[g] \in Magic
      /\ \A g \in DOMAIN shadow : g \notin S => shadow'[g] = shadow[g]
  <2>1. shadow' = Over([a \in S |-> HeapLeft], shadow)
    BY <1>0, <1>2
  <2> QED BY <2>1 DEF Over, Magic
<1>9. /\ \A i \in DOMAIN groups :
           groups'[i] = groups[i] /\ groups[i].beg \in Nat /\ groups[i].end \in Nat
           /\ (base + size <= groups[i].beg \/ groups[i].end <= base)
      /\ DOMAIN groups' = DOMAIN groups \cup {Len(groups) + 1}
      /\ groups'[Len(groups) + 1] = NewGroup(base, cls)
  <2>1. groups \in Seq(PageGroups) /\ Len(groups) \in Nat /\ DOMAIN groups = 1 .. Len(groups)
    BY DEF HeapTyped
  <2>2. /\ \A i \in 1 .. Len(groups) : groups'[i] = groups[i]
        /\ groups'[Len(groups) + 1] = NewGroup(base, cls) /\ DOMAIN groups' = 1 .. Len(groups) + 1
    BY <2>1
  <2>3. \A i \in DOMAIN groups : groups[i].beg \in Nat /\ groups[i].end \in Nat
    <3>1. \A i \in DOMAIN groups : groups[i] \in PageGroups
      BY <2>1
    <3> QED BY <3>1 DEF PageGroups
  <2>4. \A i \in DOMAIN groups : base + size <= groups[i].beg \/ groups[i].end <= base
    BY <1>0 DEF BaseIsUnused
  <2> QED BY <2>1, <2>2, <2>3, <2>4
<1>10. \A m \in DOMAIN header, g \in Nat : InChunk(m, g) => ~(base <= g /\ g < base + size)
  <2> SUFFICES ASSUME NEW m \in DOMAIN header, NEW g \in Nat, InChunk(m, g), base <= g, g < base + size
               PROVE  FALSE
    OBVIOUS
  <2>1. PICK i \in DOMAIN groups : groups[i].beg <= m /\ m + header[m].cls <= groups[i].end
    BY DEF ChunksAreApart
  <2>2. m \in Nat /\ header[m].cls \in Nat
    BY ClassesArePositive DEF HeapTyped, ChunkBase
  <2>3. PICK x \in Nat, y \in Nat : x <= m /\ m + header[m].cls <= y /\ (base + size <= x \/ y <= base)
    BY <1>9, <2>1
  <2>4. m <= g /\ g < m + header[m].cls
    BY DEF InChunk
  <2> QED BY <1>1, <2>2, <2>3, <2>4
<1>11. \A m \in New, g \in Nat : InChunk(m, g)' => base <= g /\ g < base + size /\ g < base + k * cls
  <2> SUFFICES ASSUME NEW m \in New, NEW g \in Nat, InChunk(m, g)'
               PROVE  base <= g /\ g < base + size /\ g < base + k * cls
    OBVIOUS
  <2>1. m <= g /\ g < m + cls
    BY <1>7 DEF InChunk
  <2>2. k * cls \in Nat
    BY <1>1
  <2> QED BY <1>1, <1>6, <2>1, <2>2
<1>12. DOMAIN shadow \subseteq Nat /\ DOMAIN shadow' \subseteq Nat
       /\ \A g \in DOMAIN shadow' : IsMultiple(g)
  BY <1>3, <1>8, MultiplesAreNaturals DEF HeapTyped, GranulesAreRight
<1>13. \A m \in DOMAIN header : \A g : InChunk(m, g)' <=> InChunk(m, g)
  BY DEF InChunk
<1>14. ASSUME NEW m \in DOMAIN header, NEW g \in DOMAIN shadow', InChunk(m, g)
       PROVE  g \in DOMAIN shadow /\ shadow'[g] = shadow[g]
  BY <1>3, <1>8, <1>10, <1>12, <1>14
<1>15. ASSUME NEW m \in New PROVE IsClosed(m, m, 0)'
  BY <1>3, <1>8, <1>11, <1>12 DEF IsClosed
<1>16. \A m \in DOMAIN header' : IsMultiple(m)
  <2>1. ASSUME NEW m \in New PROVE IsMultiple(m)
    <3>1. PICK j \in 0 .. k - 1 : m = base + j * cls
      BY <1>5
    <3>3. j \in Nat /\ cls \in Nat
      BY <1>1, <3>1
    <3>2. IsMultiple(j * cls)
      BY <1>21, <3>3, MultipleOfMultiple
    <3> QED BY <1>21, <3>1, <3>2, SumOfMultiples
  <2> QED BY <1>7, <2>1 DEF GranulesAreRight
<1>17. ASSUME NEW i \in DOMAIN groups PROVE GroupIsCovered(groups[i])'
  <2>1. PICK group : group = groups[i] /\ groups'[i] = group /\ GroupIsCovered(group)
    BY <1>9 DEF GranulesAreRight
  <2>2. group.beg \in Nat /\ group.end \in Nat /\ IsMultiple(group.beg)
        /\ (base + size <= group.beg \/ group.end <= base)
    BY <1>9, <2>1 DEF GroupIsCovered
  <2>3. ASSUME NEW a \in group.beg .. group.end - 1
        PROVE  /\ Granule(a) \in DOMAIN shadow'
               /\ LET m == SlotOf(group, a) IN
                  \/ m \in DOMAIN header' /\ InChunk(m, a)'
                  \/ /\ shadow'[Granule(a)] \in Magic
                     /\ \A n \in DOMAIN header' : ~InChunk(n, Granule(a))'
    <3>1. PICK m, g : m = SlotOf(group, a) /\ g = Granule(a)
      OBVIOUS
    <3>2. /\ g \in DOMAIN shadow
          /\ \/ m \in DOMAIN header /\ InChunk(m, a)
             \/ shadow[g] \in Magic /\ \A n \in DOMAIN header : ~InChunk(n, g)
      BY <2>1, <3>1 DEF GroupIsCovered
    <3>3. a \in Nat /\ a < group.end /\ group.beg <= a
      BY <2>2
    <3>4. g \in Nat /\ g <= a /\ group.beg <= g
      <4>1. g \in Nat /\ g <= a
        BY <3>1, <3>3, GranuleIsAround
      <4>2. 0 <= a /\ a < group.beg <=> 0 <= g /\ g < group.beg
        BY <2>2, <3>1, <3>3, PlacesAreMultiples, GranuleIsBetween
      <4> QED BY <2>2, <3>3, <4>1, <4>2
    <3>5. ~(base <= g /\ g < base + size)
      BY <1>1, <2>2, <3>3, <3>4
    <3>6. g \in DOMAIN shadow' /\ shadow'[g] = shadow[g]
      BY <1>3, <1>8, <3>2, <3>5
    <3>7. \A n \in DOMAIN header' : n \in DOMAIN header \/ ~InChunk(n, g)'
      BY <1>7, <1>11, <3>4, <3>5
    <3> QED BY <1>7, <1>13, <3>1, <3>2, <3>6, <3>7
  <2> QED BY <2>1, <2>2, <2>3 DEF GroupIsCovered
<1>18. GroupIsCovered(NewGroup(base, cls))'
  <2>1. PICK group : group = NewGroup(base, cls)
    OBVIOUS
  <2>2. group.beg = base /\ group.end = base + size /\ group.size = cls
    BY <1>0, <2>1 DEF NewGroup
  <2>3. ASSUME NEW a \in base .. (base + size) - 1
        PROVE  /\ Granule(a) \in DOMAIN shadow'
               /\ LET m == SlotOf(group, a) IN
                  \/ m \in DOMAIN header' /\ InChunk(m, a)'
                  \/ /\ shadow'[Granule(a)] \in Magic
                     /\ \A n \in DOMAIN header' : ~InChunk(n, Granule(a))'
    <3>1. PICK g \in Nat : g = Granule(a) /\ IsMultiple(g) /\ base <= g /\ g < base + size
      <4>0. IsMultiple(base + size)
        BY <1>21, SumOfMultiples
      <4>1. a \in Nat /\ base <= a /\ a < base + size /\ IsMultiple(base + size)
        BY <1>1, <4>0
      <4>2. base <= Granule(a) /\ Granule(a) < base + size
        BY <1>21, <4>1, GranuleIsBetween
      <4> QED BY <4>1, <4>2, GranuleIsAround
    <3>2. g \in S /\ g \in DOMAIN shadow' /\ shadow'[g] \in Magic
      BY <1>3, <1>8, <3>1
    <3>3. PICK q \in Nat, r \in Nat : a - base = cls * q + r /\ r < cls /\ q = (a - base) \div cls
      <4>1. a - base \in Nat
        BY <1>1
      <4>2. (a - base) % cls \in 0 .. cls - 1 /\ (a - base) \div cls \in Nat
            /\ a - base = cls * ((a - base) \div cls) + ((a - base) % cls)
        BY <1>1, <4>1, Division, Zenon
      <4>5. (a - base) % cls \in 0 .. cls - 1 /\ (a - base) \div cls \in Nat
        BY <4>2, Zenon
      <4>3. PICK q \in Nat, r \in Nat : q = (a - base) \div cls /\ r = (a - base) % cls /\ r < cls
        BY <1>1, <4>5
      <4>4. a - base = cls * q + r
        BY <4>2, <4>3, Zenon
      <4> QED BY <4>3, <4>4, Zenon
    <3>4. PICK z \in Nat : z = q * cls
      BY <1>1
    <3>5. SlotOf(group, a) = base + z /\ a = (base + z) + r
      <4>1. SlotOf(group, a) = base + q * cls
        BY <2>2, <3>3, Zenon DEF SlotOf
      <4>2. cls * q = q * cls
        BY <1>1
      <4>3. a - base = z + r
        BY <3>3, <3>4, <4>2, Zenon
      <4>4. a \in Nat
        BY <1>1
      <4> QED BY <1>1, <3>4, <4>1, <4>3, <4>4
    <3>6. CASE q < k
      <4>1. base + z \in New
        BY <1>5, <3>4, <3>6
      <4>2. InChunk(base + z, a)'
        <5>1. r < cls
          BY <3>3, Zenon
        <5>2. base + z <= a /\ a < (base + z) + cls
          BY <1>1, <3>5, <5>1
        <5> QED BY <1>7, <4>1, <5>2 DEF InChunk
      <4> QED BY <1>7, <3>1, <3>2, <3>5, <4>1, <4>2
    <3>7. CASE k <= q
      <4>1. k * cls \in Nat /\ k * cls <= z
        BY <1>1, <3>4, <3>7
      <4>2. base + k * cls <= a
        BY <1>1, <3>5, <4>1
      <4>3. base + k * cls <= g
        <5>1. IsMultiple(base + k * cls)
          BY <1>1, <1>21, MultipleOfMultiple, SumOfMultiples
        <5>2. a \in Nat
          BY <1>1
        <5>3. 0 <= a /\ a < base + k * cls <=> 0 <= g /\ g < base + k * cls
          BY <3>1, <5>1, <5>2, PlacesAreMultiples, GranuleIsBetween
        <5> QED BY <1>1, <4>1, <4>2, <5>2, <5>3
      <4>4. ASSUME NEW n \in DOMAIN header', InChunk(n, g)' PROVE FALSE
        <5>1. CASE n \in New
          <6>1. g < base + k * cls
            BY <1>11, <4>4, <5>1
          <6> QED BY <1>1, <4>1, <4>3, <6>1
        <5>2. CASE n \in DOMAIN header
          BY <1>10, <1>13, <3>1, <4>4, <5>2
        <5> QED BY <1>7, <5>1, <5>2
      <4> QED BY <3>1, <3>2, <4>4
    <3> QED BY <3>6, <3>7
  <2> QED BY <1>21, <2>1, <2>2, <2>3 DEF GroupIsCovered
<1>19. GranulesAreRight'
  <2>1. ASSUME NEW i \in DOMAIN groups' PROVE GroupIsCovered(groups[i])'
    <3>1. CASE i \in DOMAIN groups
      BY <1>17, <3>1
    <3>2. CASE i = Len(groups) + 1
      <4>1. groups'[i] = NewGroup(base, cls)
        BY <1>9, <3>2
      <4>2. PICK group : group = NewGroup(base, cls)
        OBVIOUS
      <4>3. GroupIsCovered(group)' /\ groups'[i] = group
        BY <1>18, <4>1, <4>2 DEF GroupIsCovered, NewGroup
      <4> QED BY <4>3
    <3> QED BY <1>9, <3>1, <3>2
  <2> QED BY <1>12, <1>16, <2>1 DEF GranulesAreRight
<1> QED BY <1>7, <1>12, <1>14, <1>15, <1>19 DEF HasGrown

LEMMA TakeGrows ==
  ASSUME HeapTyped, ListsHaveHeaders, ChunksAreApart, ListsAreApart, GranulesAreRight,
         NEW t, NEW request, TakeChunk(t, request), NEW cls \in Classes,
         cls = SizeToSizeClass(NeededSize(request.size, request.alignment))
  PROVE  /\ HasGrown
         /\ \E k : regs' = [regs EXCEPT ![t] = [request EXCEPT !.chunk = k]]
<1>1. ASSUME UNCHANGED <<groups, header, shadow>> PROVE HasGrown
  <2>1. GranulesAreRight'
    BY <1>1 DEF GranulesAreRight, GroupIsCovered, InChunk
  <2> QED BY <1>1, <2>1 DEF HasGrown, HeapTyped
<1>2. ASSUME NEW n \in Nat, n <= ChunkCount(cls), NEW all, IsRefilled(all, cls, n) PROVE HasGrown
  <2>1. CASE UNCHANGED <<groups, header, shadow>>
    BY <1>1, <2>1
  <2>2. CASE ~UNCHANGED <<groups, header, shadow>>
    <3>1. PICK base \in Bases :
            /\ BaseIsUnused(base, cls)
            /\ header' = Over([m \in ToSet(NewChunks(base, cls)) |-> FreshChunk(cls)], header)
            /\ groups' = Append(groups, NewGroup(base, cls))
            /\ shadow' = Over([a \in {base + i * Granularity :
                                        i \in 0 .. GroupSize(cls) \div Granularity - 1}
                                 |-> HeapLeft], shadow)
      BY <1>2, <2>2, Zenon DEF IsRefilled
    <3>2. \A m \in DOMAIN header : header'[m] = header[m]
      BY <1>2, RefilledList
    <3> QED BY <3>1, <3>2, NewGroupIsCovered
  <2> QED BY <2>1, <2>2
<1> DEFINE Got(m) == regs' = [regs EXCEPT ![t] = [request EXCEPT !.chunk = m]]
<1>3. \/ Got(local[t].free[cls][1]) /\ UNCHANGED <<groups, header, free_lists, shadow>>
      \/ \E n, all, taken : /\ IsRefilled(all, cls, n) /\ Got(taken[1])
                            /\ (n = 1 \/ (cls < LocalMax /\ n = LocalMax \div cls))
  BY TakenChunk
<1> HIDE DEF Got
<1>4. CASE Got(local[t].free[cls][1]) /\ UNCHANGED <<groups, header, free_lists, shadow>>
  BY <1>1, <1>4 DEF Got
<1>5. CASE \E n, all, taken : /\ IsRefilled(all, cls, n) /\ Got(taken[1])
                              /\ (n = 1 \/ (cls < LocalMax /\ n = LocalMax \div cls))
  <2>1. PICK n, all, taken : /\ IsRefilled(all, cls, n) /\ Got(taken[1])
                             /\ (n = 1 \/ (cls < LocalMax /\ n = LocalMax \div cls))
    BY <1>5
  <2>2. n \in Nat /\ n <= ChunkCount(cls)
    BY <2>1, GroupHoldsChunks
  <2>3. HasGrown
    BY <1>2, <2>1, <2>2
  <2> QED BY <2>1, <2>3 DEF Got
<1> QED BY <1>3, <1>4, <1>5

\* Taking a chunk leaves the blocks as they are shown, and its shadow closed.
LEMMA ShadowTake ==
  ASSUME ShadowInv, HeapInv', died = "no", NEW t \in Threads, pc[t] = "idle",
         NEW size, NEW alignment \in Alignments \cup {0}, NEW old,
         NEW request, request = [size |-> size, alignment |-> alignment, old |-> old, chunk |-> 0, ptr |-> 0],
         TakeChunk(t, request), NEW cls \in Classes, cls = SizeToSizeClass(NeededSize(size, alignment)),
         \A p \in DOMAIN live' : p \in DOMAIN live, old # 0 => old \in DOMAIN live
  PROVE  ShadowInv'
<1>0. /\ HeapTyped /\ ThreadsTyped /\ ListsHaveHeaders /\ ChunksAreApart /\ ListsAreApart /\ StatesAreRight
      /\ GranulesAreRight /\ BlocksAreShown /\ UnusedAreClosed /\ HandsArePoisoned
  BY DEF ShadowInv, HeapInv, HeapIsSound, ShadowIsRight
<1>1. HasGrown /\ \E k : regs' = [regs EXCEPT ![t] = [request EXCEPT !.chunk = k]]
  <2>1. cls = SizeToSizeClass(NeededSize(request.size, request.alignment))
    OBVIOUS
  <2> QED BY <1>0, <2>1, TakeGrows
<1>2. pc' = [pc EXCEPT ![t] = "header"] /\ UNCHANGED marks
  BY DEF TakeChunk
<1>3. /\ regs'[t].alignment = alignment /\ regs'[t].old = old /\ pc'[t] = "header"
      /\ \A u \in Threads : u # t => pc'[u] = pc[u] /\ regs'[u] = regs[u]
  BY <1>0, <1>1, <1>2 DEF ThreadsTyped
<1>4. ASSUME NEW p, IsOpen(p)' PROVE IsOpen(p)
  <2>1. CASE p \in DOMAIN live'
    BY <2>1 DEF IsOpen
  <2>2. ASSUME NEW u \in Threads, p \in Owned(u)' PROVE IsOpen(p)
    <3>1. CASE u = t
      BY <1>3, <2>2, <3>1 DEF Owned, IsOpen
    <3>2. CASE u # t
      <4>1. p \in Owned(u)
        BY <1>3, <2>2, <3>2 DEF Owned
      <4> QED BY <4>1 DEF IsOpen
    <3> QED BY <3>1, <3>2
  <2> QED BY <1>4, <2>1, <2>2 DEF IsOpen
<1>5. \A p : PtrToChunk(p)' = PtrToChunk(p)
  BY <1>2, SamePointers
<1>6. ASSUME NEW m \in DOMAIN header, NEW p
      PROVE  /\ \A n : IsClosed(m, p, n) => IsClosed(m, p, n)'
             /\ Fits(m, p) => Fits(m, p)'
             /\ Fits(m, p) /\ IsShown(m, p) => IsShown(m, p)'
             /\ m \in DOMAIN header' /\ header'[m] = header[m]
  <2>1. /\ header'[m] = header[m] /\ m \in DOMAIN header' /\ DOMAIN shadow' \subseteq Nat
        /\ \A g \in DOMAIN shadow' : InChunk(m, g) => g \in DOMAIN shadow /\ shadow'[g] = shadow[g]
    BY <1>1 DEF HasGrown
  <2> QED BY <1>0, <2>1, SameChunk
<1>7. BlocksAreShown'
  <2>1. ASSUME NEW p, IsOpen(p)'
        PROVE  (LET m == PtrToChunk(p) IN Fits(m, p) /\ IsShown(m, p) /\ IsClosed(m, p, header[m].used))'
    <3>1. IsOpen(p)
      BY <1>4, <2>1
    <3>2. PICK m \in DOMAIN header : m = PtrToChunk(p) /\ m = PtrToChunk(p)'
      BY <1>0, <1>5, <3>1 DEF StatesAreRight, HasState
    <3>3. PICK used : used = header[m].used
      OBVIOUS
    <3>4. Fits(m, p) /\ IsShown(m, p) /\ IsClosed(m, p, used)
      BY <1>0, <3>1, <3>2, <3>3 DEF BlocksAreShown
    <3>5. Fits(m, p)' /\ IsShown(m, p)' /\ IsClosed(m, p, used)' /\ header'[m].used = used
      BY <1>6, <3>3, <3>4
    <3> QED BY <3>2, <3>5
  <2> QED BY <2>1 DEF BlocksAreShown
<1>8. UnusedAreClosed'
  <2>1. ASSUME NEW m \in DOMAIN header', header'[m].state # "allocated", ~InSomeHand(m, {"poison"})'
        PROVE  IsClosed(m, m, 0)'
    <3>1. CASE m \notin DOMAIN header
      BY <1>1, <2>1, <3>1 DEF HasGrown
    <3>2. CASE m \in DOMAIN header
      <4>1. ~InSomeHand(m, {"poison"})
        <5>1. ASSUME NEW u \in Threads, pc[u] = "poison", regs[u].chunk = m PROVE FALSE
          <6>1. u # t
            BY <5>1
          <6> QED BY <1>3, <2>1, <5>1, <6>1 DEF InSomeHand
        <5> QED BY <5>1 DEF InSomeHand
      <4>2. IsClosed(m, m, 0)
        BY <1>0, <1>6, <2>1, <3>2, <4>1 DEF UnusedAreClosed
      <4> QED BY <1>6, <3>2, <4>2
    <3> QED BY <3>1, <3>2
  <2> QED BY <2>1 DEF UnusedAreClosed
<1>9. HandsArePoisoned'
  <2>1. HandIsPoisoned(t)'
    BY <1>3 DEF HandIsPoisoned
  <2>2. ASSUME NEW u \in Threads, u # t PROVE HandIsPoisoned(u)'
    <3>1. HandIsPoisoned(u) /\ pc'[u] = pc[u] /\ regs'[u] = regs[u]
      BY <1>0, <1>3, <2>2 DEF HandsArePoisoned
    <3>2. PICK m, p : m = regs[u].chunk /\ p = regs[u].ptr
      OBVIOUS
    <3>3. CASE pc[u] = "unpoison"
      <4>1. /\ IsClosed(m, m, 0) /\ Fits(m, p) /\ m \in DOMAIN header
            /\ header[m].used = regs[u].size /\ regs[u].size > 0
        BY <3>1, <3>2, <3>3 DEF HandIsPoisoned, Fits
      <4>2. IsClosed(m, m, 0)' /\ Fits(m, p)' /\ header'[m].used = header[m].used
        BY <1>6, <4>1
      <4> QED BY <3>1, <3>2, <3>3, <4>1, <4>2 DEF HandIsPoisoned
    <3>4. CASE pc[u] = "poison"
      <4>1. Fits(m, p) /\ IsClosed(m, p, header[m].used) /\ m \in DOMAIN header
        BY <3>1, <3>2, <3>4 DEF HandIsPoisoned, Fits
      <4>2. PICK used : used = header[m].used
        OBVIOUS
      <4>3. IsClosed(m, p, used)' /\ Fits(m, p)' /\ header'[m].used = used
        BY <1>6, <4>1, <4>2
      <4> QED BY <3>1, <3>2, <3>4, <4>3 DEF HandIsPoisoned
    <3>5. CASE pc[u] \notin {"unpoison", "poison"}
      BY <3>1, <3>5 DEF HandIsPoisoned
    <3> QED BY <3>3, <3>4, <3>5
  <2> QED BY <2>1, <2>2 DEF HandsArePoisoned
<1> QED BY <1>1, <1>7, <1>8, <1>9 DEF ShadowInv, ShadowIsRight, HasGrown

LEMMA ShadowAllocate ==
  ASSUME ShadowInv, HeapInv', NEW t \in Threads, Allocate(t)
  PROVE  ShadowInv'
<1>1. PICK s \in Sizes, alignment \in Alignments :
        /\ NeededSize(Max({s, 1}), alignment) <= MaxAllowed
        /\ TakeChunk(t, [Idle EXCEPT !.size = Max({s, 1}), !.alignment = alignment])
  BY Zenon DEF Allocate
<1>2. died = "no" /\ pc[t] = "idle" /\ live' = live
  BY DEF Allocate, Running
<1>3. PICK size \in Nat \ {0} : size = Max({s, 1})
  <2>1. s \in Nat /\ 1 \in Nat
    BY SizesAreNaturals
  <2>2. Max({s, 1}) \in {s, 1} /\ 1 <= Max({s, 1})
    BY <2>1, MaxOfTwo
  <2> QED BY <2>1, <2>2
<1>4. PICK cls \in Classes : cls = SizeToSizeClass(NeededSize(size, alignment))
  BY <1>1, <1>3, SizeClassFits
<1>5. PICK request : request = [size |-> size, alignment |-> alignment, old |-> 0, chunk |-> 0, ptr |-> 0]
  OBVIOUS
<1>6. TakeChunk(t, request)
  <2>1. [Idle EXCEPT !.size = size]
          = [size |-> size, alignment |-> 0, old |-> 0, chunk |-> 0, ptr |-> 0]
    BY DEF Idle
  <2>2. [[size |-> size, alignment |-> 0, old |-> 0, chunk |-> 0, ptr |-> 0] EXCEPT !.alignment = alignment]
          = request
    BY <1>5
  <2>3. [Idle EXCEPT !.size = size, !.alignment = alignment] = request
    BY <2>1, <2>2, Zenon
  <2>4. TakeChunk(t, [Idle EXCEPT !.size = size, !.alignment = alignment])
    BY <1>1, <1>3, Zenon
  <2> QED BY <2>3, <2>4, Zenon
<1> QED BY <1>2, <1>4, <1>5, <1>6, ShadowTake

LEMMA ShadowReallocate ==
  ASSUME ShadowInv, HeapInv', NEW t \in Threads, Reallocate(t)
  PROVE  ShadowInv'
<1>1. PICK old \in DOMAIN live, size \in Sizes \ {0} :
       /\ NeededSize(size, 0) <= MaxAllowed
       /\ TakeChunk(t, [Idle EXCEPT !.size = size, !.old = old])
       /\ live' = Restrict(live, DOMAIN live \ {old})
  BY Zenon DEF Reallocate
<1>2. died = "no" /\ pc[t] = "idle"
  BY Zenon DEF Reallocate, Running
<1>3. PICK cls \in Classes : cls = SizeToSizeClass(NeededSize(size, 0))
  <2>0. size \in Nat \ {0}
    BY SizesAreNaturals
  <2>1. size = Max({size, 1})
    <3>1. size \in Nat /\ 1 \in Nat /\ size >= 1
      BY <2>0
    <3>2. Max({size, 1}) \in {size, 1} /\ size <= Max({size, 1})
      BY <3>1, MaxOfTwo, Zenon
    <3>3. ASSUME NEW x, x \in {size, 1}, size <= x PROVE size = x
      BY <3>1, <3>3
    <3> QED BY <3>2, <3>3
  <2>2. \E s \in Sizes : size = Max({s, 1})
    BY <2>1
  <2>3. 0 \in Alignments \cup {0} /\ NeededSize(size, 0) <= MaxAllowed
    BY <1>1, Zenon
  <2>4. SizeToSizeClass(NeededSize(size, 0)) \in Classes
    BY <2>0, <2>2, <2>3, SizeClassFits, Zenon
  <2> QED BY <2>4
<1>4. PICK request : request = [size |-> size, alignment |-> 0, old |-> old, chunk |-> 0, ptr |-> 0]
  OBVIOUS
<1>5. TakeChunk(t, request)
  <2>1. TakeChunk(t, [Idle EXCEPT !.size = size, !.old = old])
    BY <1>1, Zenon
  <2>2. [Idle EXCEPT !.size = size]
          = [size |-> size, alignment |-> 0, old |-> 0, chunk |-> 0, ptr |-> 0]
    BY DEF Idle
  <2>3. [[size |-> size, alignment |-> 0, old |-> 0, chunk |-> 0, ptr |-> 0] EXCEPT !.old = old]
          = request
    BY <1>4
  <2>4. [Idle EXCEPT !.size = size, !.old = old] = request
    BY <2>2, <2>3, Zenon
  <2> QED BY <2>1, <2>4, Zenon
<1>6. \A p \in DOMAIN live' : p \in DOMAIN live
  BY <1>1 DEF Restrict
<1>7. 0 \in Alignments \cup {0} /\ (old # 0 => old \in DOMAIN live)
  OBVIOUS
<1> QED BY <1>2, <1>3, <1>4, <1>5, <1>6, <1>7, ShadowTake

LEMMA ShadowInit == Init => ShadowInv
<1> SUFFICES ASSUME Init PROVE ShadowInv
  OBVIOUS
<1>1. HeapInv
  BY HeapInit
<1> USE DEF Init
<1>2. \A p : ~IsOpen(p)
  BY DEF IsOpen, Owned, Idle
<1>3. GranulesAreRight /\ BlocksAreShown /\ UnusedAreClosed
  BY <1>2 DEF GranulesAreRight, BlocksAreShown, UnusedAreClosed
<1>4. HandsArePoisoned
  BY DEF HandsArePoisoned, HandIsPoisoned
<1> QED BY <1>1, <1>3, <1>4 DEF ShadowInv, ShadowIsRight

LEMMA ShadowStep == ShadowInv /\ [Next]_vars => ShadowInv'
<1> SUFFICES ASSUME ShadowInv, [Next]_vars PROVE ShadowInv'
  OBVIOUS
<1>0. HeapInv /\ HeapInv'
  BY HeapStep DEF ShadowInv
<1>1. CASE UNCHANGED vars
  <2>1. UNCHANGED <<groups, header, marks, shadow, live, pc, regs, died>>
    BY <1>1 DEF vars
  <2>2. CASE died # "no"
    BY <1>0, <2>1, <2>2 DEF ShadowInv
  <2>3. CASE died = "no"
    <3>1. \A p : IsOpen(p)' => IsOpen(p)
      BY <2>1 DEF IsOpen, Owned
    <3> QED BY <1>0, <2>1, <2>3, <3>1, QuietStep
  <2> QED BY <2>2, <2>3
<1>2. CASE LookUp
  BY <1>0, <1>2, QuietLookUp
<1>3. ASSUME NEW t \in Threads, \/ Allocate(t) \/ Reallocate(t) \/ SetHeader(t) \/ Unpoison(t)
                                \/ Deallocate(t) \/ PoisonFreed(t) \/ PushQuarantine(t)
                                \/ Swallow(t) \/ CommitBack(t) \/ ExitWithoutReturning(t)
                                \/ ForceLock(t) \/ ForceUnlock(t)
      PROVE  ShadowInv'
  BY <1>0, <1>3, ShadowAllocate, ShadowReallocate, ShadowSetHeader, ShadowUnpoison, ShadowDeallocate,
     ShadowPoison, ShadowSwallow, QuietSteps
<1> QED BY <1>1, <1>2, <1>3 DEF Next

\* The inductive invariant of the shadow: unused chunks and redzones are poisoned,
\* the blocks of the application show their size (asan_allocator.cc: GetNewChunks,
\* Allocate, Deallocate, QuarantinePop; asan_poisoning.cc, PoisonHeapPartialRightRedzone).
THEOREM ShadowIsKept == Spec => []ShadowInv
BY ShadowInit, ShadowStep, PTL DEF Spec

\* What the invariant says of the shadow: a byte is poisoned exactly when it is in
\* no block, but for chunks in the hands of a call.
LEMMA BlocksFromShadow == ShadowInv => ShadowMatchesBlocks
<1> SUFFICES ASSUME ShadowInv, died = "no" PROVE ShadowMatchesBlocks
  BY DEF ShadowMatchesBlocks
<1> DEFINE busy == InHand({"header", "unpoison", "poison"})
           Body(p) == p .. p + header[PtrToChunk(p)].used - 1
           owned == UNION {{<<PtrToChunk(p), a>> : a \in Body(p)} : p \in OpenBlocks}
<1>0. /\ HeapTyped /\ ThreadsTyped /\ ChunksAreApart /\ StatesAreRight /\ AllAreSomewhere /\ HandsAreApart
      /\ GranulesAreRight /\ BlocksAreShown /\ UnusedAreClosed
  BY DEF ShadowInv, HeapInv, HeapIsSound, ShadowIsRight
<1>1. \A p : p \in OpenBlocks <=> IsOpen(p)
  BY DEF OpenBlocks, IsOpen
<1>2. \A m : m \in busy <=> InSomeHand(m, {"header", "unpoison", "poison"})
  BY DEF InHand, InSomeHand
<1>3. \A m, a : <<m, a>> \in owned <=> \E p : IsOpen(p) /\ m = PtrToChunk(p) /\ a \in Body(p)
  BY <1>1
<1>4. Granularity \in Nat \ {0}
  BY SizesAreNaturals
<1> HIDE DEF busy
<1>5. ASSUME NEW i \in DOMAIN groups, NEW a \in groups[i].beg .. groups[i].end - 1,
             NEW m, m = SlotOf(groups[i], a), m \notin busy
      PROVE  AddressIsPoisoned(a) <=> <<m, a>> \notin owned
  <2>1. a \in Nat /\ GroupIsCovered(groups[i])
    <3>1. groups[i] \in PageGroups
      BY <1>0 DEF HeapTyped
    <3> QED BY <1>0, <3>1 DEF PageGroups, GranulesAreRight
  <2>2. PICK g \in Nat : g = Granule(a) /\ IsMultiple(g) /\ g <= a /\ a < g + Granularity
    BY <2>1, GranuleIsAround
  <2>3. PICK value : value = shadow[g]
    OBVIOUS
  <2>4. AddressIsPoisoned(a) <=> value # 0 /\ a - g >= value
    BY <2>2, <2>3 DEF AddressIsPoisoned, Granule
  <2>5. value \in Magic => AddressIsPoisoned(a)
    BY <2>1, <2>2, <2>4 DEF Magic, HeapLeft, HeapRight, HeapFree
  <2>6. g \in DOMAIN shadow
        /\ \/ m \in DOMAIN header /\ InChunk(m, a)
           \/ value \in Magic /\ \A n \in DOMAIN header : ~InChunk(n, g)
    BY <1>5, <2>1, <2>2, <2>3 DEF GroupIsCovered
  <2>7. \A n \in DOMAIN header : InChunk(n, a) <=> InChunk(n, g)
    <3> SUFFICES ASSUME NEW n \in DOMAIN header PROVE InChunk(n, a) <=> InChunk(n, g)
      OBVIOUS
    <3>1. IsMultiple(n) /\ IsMultiple(header[n].cls)
      BY <1>0, PlacesAreMultiples DEF GranulesAreRight, HeapTyped, ChunkBase
    <3>2. IsMultiple(n + header[n].cls)
      BY <3>1, SumOfMultiples
    <3>3. n <= a /\ a < n + header[n].cls <=> n <= g /\ g < n + header[n].cls
      BY <2>1, <2>2, <3>1, <3>2, GranuleIsBetween
    <3> QED BY <3>3 DEF InChunk
  <2>8. ASSUME NEW p, IsOpen(p), a \in Body(p) PROVE InChunk(PtrToChunk(p), a)
    <3>1. PICK k \in DOMAIN header : k = PtrToChunk(p) /\ Fits(k, p)
      BY <1>0, <2>8 DEF BlocksAreShown, Fits
    <3>2. k \in Nat /\ header[k].cls \in Nat /\ header[k].used \in Nat /\ p \in Nat
      BY <1>0, <3>1, ClassesArePositive, MultiplesAreNaturals DEF HeapTyped, ChunkBase, Fits
    <3>3. RoundUpTo(header[k].used, Redzone) \in Nat /\ header[k].used <= RoundUpTo(header[k].used, Redzone)
      BY <3>2, RoundUpBounds, SizesAreNaturals
    <3>4. p <= a /\ a < p + header[k].used
      BY <2>1, <2>8, <3>1, <3>2
    <3> QED BY <2>1, <3>1, <3>2, <3>3, <3>4 DEF Fits, InChunk
  <2>9. CASE value \in Magic /\ \A n \in DOMAIN header : ~InChunk(n, g)
    <3>1. <<m, a>> \notin owned
      <4>1. \A p : IsOpen(p) => PtrToChunk(p) \in DOMAIN header
        BY <1>0 DEF StatesAreRight, HasState
      <4> QED BY <1>3, <2>7, <2>8, <2>9, <4>1
    <3> QED BY <2>5, <2>9, <3>1
  <2>10. CASE m \in DOMAIN header /\ InChunk(m, a)
    <3>1. InChunk(m, g)
      BY <2>7, <2>10
    <3>2. CASE \E p : IsOpen(p) /\ PtrToChunk(p) = m
      <4>1. PICK p : IsOpen(p) /\ PtrToChunk(p) = m
        BY <3>2
      <4>2. Fits(m, p) /\ IsShown(m, p) /\ IsClosed(m, p, header[m].used)
        BY <1>0, <4>1 DEF BlocksAreShown
      <4>3. PICK used \in Nat : used = header[m].used
        BY <1>0, <2>10 DEF HeapTyped, ChunkBase
      <4>4. p \in Nat /\ IsMultiple(p)
        BY <4>2, MultiplesAreNaturals DEF Fits
      <4>5. <<m, a>> \in owned <=> p <= a /\ a < p + used
        <5>1. a \in Body(p) <=> p <= a /\ a < p + used
          BY <2>1, <4>1, <4>3, <4>4
        <5>2. \A q : IsOpen(q) /\ m = PtrToChunk(q) => q = p
          BY <1>0, <4>1 DEF HandsAreApart
        <5> QED BY <1>3, <4>1, <5>1, <5>2
      <4>6. p <= a <=> p <= g
        BY <2>1, <2>2, <4>4, PlacesAreMultiples, GranuleIsBetween
      <4>7. CASE ~(p <= g /\ g < p + used)
        <5>1. value \in Magic
          BY <2>3, <2>6, <3>1, <4>2, <4>3, <4>7 DEF IsClosed
        <5>2. ~(p <= a /\ a < p + used)
          BY <2>1, <2>2, <4>3, <4>4, <4>6, <4>7
        <5> QED BY <2>5, <4>5, <5>1, <5>2
      <4>8. CASE p <= g /\ g < p + used
        <5>1. value = IF g + Granularity <= p + used THEN 0 ELSE (p + used) - g
          <6>1. shadow[g] = IF g + Granularity <= p + header[m].used THEN 0 ELSE p + header[m].used - g
            BY <2>6, <4>2, <4>3, <4>8 DEF IsShown
          <6>2. value = IF g + Granularity <= p + used THEN 0 ELSE p + used - g
            BY <2>3, <4>3, <6>1, Zenon
          <6>3. p + used - g = (p + used) - g
            BY <2>2, <4>3, <4>4
          <6> QED BY <6>2, <6>3, Zenon
        <5>2. AddressIsPoisoned(a) <=> ~(a < p + used)
          BY <1>4, <2>1, <2>2, <2>4, <4>3, <4>4, <4>8, <5>1
        <5> QED BY <4>5, <4>6, <4>8, <5>2
      <4> QED BY <4>7, <4>8
    <3>3. CASE ~\E p : IsOpen(p) /\ PtrToChunk(p) = m
      <4>1. header[m].state # "allocated"
        <5>1. IsSomewhere(m) /\ (m \notin lost \/ header[m].state # "allocated")
          BY <1>0, <2>10 DEF AllAreSomewhere, StatesAreRight
        <5>2. ~InSomeHand(m, {"unpoison"})
          BY <1>2, <1>5 DEF InSomeHand
        <5> QED BY <3>3, <5>1, <5>2 DEF IsSomewhere
      <4>2. ~InSomeHand(m, {"poison"})
        BY <1>2, <1>5 DEF InSomeHand
      <4>3. IsClosed(m, m, 0)
        BY <1>0, <2>10, <4>1, <4>2 DEF UnusedAreClosed
      <4>4. m \in Nat
        BY <1>0, <2>10 DEF HeapTyped
      <4>5. value \in Magic
        BY <2>2, <2>3, <2>6, <3>1, <4>3, <4>4 DEF IsClosed
      <4>6. <<m, a>> \notin owned
        BY <1>3, <3>3
      <4> QED BY <2>5, <4>5, <4>6
    <3> QED BY <3>2, <3>3
  <2> QED BY <2>6, <2>9, <2>10
<1> HIDE DEF owned
<1>6. \A i \in DOMAIN groups : \A a \in groups[i].beg .. groups[i].end - 1 :
        LET m == groups[i].beg + ((a - groups[i].beg) \div groups[i].size) * groups[i].size
        IN m \in busy \/ (AddressIsPoisoned(a) <=> <<m, a>> \notin owned)
  BY <1>5 DEF SlotOf
<1> QED BY <1>6 DEF ShadowMatchesBlocks, busy, owned

\* A byte may be touched exactly when it lies in a block the application owns, but
\* for the chunks in the hands of a call (asan_allocator.cc: Allocate, Deallocate,
\* GetNewChunks; asan_poisoning.cc, PoisonHeapPartialRightRedzone).
THEOREM ShadowStaysRight == Spec => []ShadowMatchesBlocks
BY ShadowIsKept, BlocksFromShadow, PTL
=============================================================================
