------------------------- MODULE SizeClassAllocator -------------------------
(***************************************************************************)
(* The allocator of the sanitizers on 64-bit systems                       *)
(* (lib/sanitizer_common/sanitizer_allocator64.h): size classes with a     *)
(* region of the address space each, per-thread caches of free chunks, and *)
(* mmap for what does not fit, combined by CombinedAllocator.  A cache is  *)
(* its thread's own and the rest of a small request is under one spin      *)
(* lock, so small requests are single steps; a large one maps and links,   *)
(* or unlinks and unmaps, in two.  A free list is the sequence of its      *)
(* chunks, front first.                                                    *)
(***************************************************************************)
EXTENDS Integers, FiniteSets, Sequences, SequencesExt

CONSTANTS
  Threads,
  Spline,         \* DefaultSizeClassMap: sequence of [l, s, c, u], a last l and u
  SpaceBeg, RegionSize, PopulateSize, MetadataSize,
  PageSize,
  MapSlots,       \* where mmap places a LargeMmapAllocator mapping
  Requests,       \* <<size, alignment>> pairs the clients ask for
  MaxLive         \* bound on blocks in use at once

VARIABLES
  free_list, allocated_user, allocated_meta,   \* RegionInfo by class
  cache,      \* thread -> class -> SizeClassAllocatorLocalCache::free_lists_
  list,       \* LargeMmapAllocator::list_, 0 when empty
  pending,    \* thread -> the block it is linking or unmapping, if any
  mapped,     \* block -> its header, while it is mapped: [size, map_beg, map_size, next, prev]
  blocks      \* history: ptr -> [size, alignment] of what clients hold

vars == <<free_list, allocated_user, allocated_meta, cache, list, pending, mapped, blocks>>

RoundUpTo(x, b) == ((x + b - 1) \div b) * b

-----------------------------------------------------------------------------
(* DefaultSizeClassMap.  U(k) is the first class of the k-th line.         *)

Lines == 1 .. Len(Spline) - 1
U(k) == Spline[k].u
SplineIsContinuous ==
  Spline[1].u = 0 /\ \A k \in Lines :
    Spline[k + 1].l = Spline[k].l + Spline[k].s * (Spline[k + 1].u - Spline[k].u)
kMinSize == Spline[1].l
kMaxSize == Spline[Len(Spline)].l
LastClass == U(Len(Spline))   \* the code's kNumClasses - 1
Classes == 0 .. LastClass

\* The line whose half-open interval ]l, l'] holds the size, or the classes.
Line(k, class_id) == class_id <= U(k + 1) /\ \A j \in 1 .. k - 1 : class_id > U(j + 1)
Size(class_id) ==
  LET k == CHOOSE i \in Lines : Line(i, class_id)
  IN Spline[k].l + Spline[k].s * (class_id - U(k))
ClassID(size) ==
  LET k == CHOOSE i \in Lines : size <= Spline[i + 1].l
                                /\ \A j \in 1 .. i - 1 : size > Spline[j + 1].l
  IN U(k) + (IF size < Spline[k].l THEN 0
             ELSE (size - Spline[k].l + Spline[k].s - 1) \div Spline[k].s)
MaxCached(class_id) == Spline[CHOOSE i \in Lines : Line(i, class_id)].c

-----------------------------------------------------------------------------
(* SizeClassAllocator64: where things are.                                 *)

kNumClasses == 2 ^ (CHOOSE i \in 0 .. 8 : 2 ^ i > LastClass /\ (i = 0 \/ 2 ^ (i - 1) <= LastClass))
SpaceSize == RegionSize * kNumClasses
RegionBeg(class_id) == SpaceBeg + RegionSize * class_id
CanAllocate(size, alignment) == size <= kMaxSize /\ alignment <= kMaxSize
PrimaryIsMine(p) == p \div SpaceSize = SpaceBeg \div SpaceSize
GetSizeClass(p) == (p \div RegionSize) % kNumClasses
GetChunkIdx(p, size) == (p % RegionSize) \div size
PrimaryBlockBegin(p) ==
  LET size == Size(GetSizeClass(p))
  IN (p \div RegionSize) * RegionSize + GetChunkIdx(p, size) * size
PrimaryMetaData(p) ==
  SpaceBeg + RegionSize * (GetSizeClass(p) + 1)
  - (1 + GetChunkIdx(p, Size(GetSizeClass(p)))) * MetadataSize

\* PopulateFreeList: the new chunks, the last one first, and how many.
PopulateCount(class_id) ==
  LET size == Size(class_id) IN (PopulateSize + size - 1) \div size
Populated(class_id) ==
  [i \in 1 .. PopulateCount(class_id) |->
     RegionBeg(class_id) + allocated_user[class_id]
     + (PopulateCount(class_id) - i) * Size(class_id)]
RegionHasRoom(class_id) ==
  allocated_user[class_id] + allocated_meta[class_id]
  + PopulateCount(class_id) * (Size(class_id) + MetadataSize) < RegionSize

\* BulkAllocate into an empty cache list: at most MaxCached chunks, and their
\* order turned around unless the whole list moves.
BulkAllocate(class_id, Use(_)) ==
  LET refill == free_list[class_id] = << >>
      from == IF refill THEN Populated(class_id) ELSE free_list[class_id]
      count == MaxCached(class_id)
      rest == IF Len(from) <= count THEN << >> ELSE SubSeq(from, count + 1, Len(from))
  IN
  /\ refill => RegionHasRoom(class_id)   \* otherwise a CHECK ends the program
  /\ Use(IF Len(from) <= count THEN from ELSE Reverse(SubSeq(from, 1, count)))
  /\ free_list' = [free_list EXCEPT ![class_id] = rest]
  /\ allocated_user' = [allocated_user EXCEPT ![class_id] =
       @ + IF refill THEN PopulateCount(class_id) * Size(class_id) ELSE 0]
  /\ allocated_meta' = [allocated_meta EXCEPT ![class_id] =
       @ + IF refill THEN PopulateCount(class_id) * MetadataSize ELSE 0]

-----------------------------------------------------------------------------
(* CombinedAllocator.                                                      *)

\* Sizes are given to the internal allocators like this.
Rounded(size, alignment) ==
  LET s == IF size = 0 THEN 1 ELSE size
  IN IF alignment > 8 THEN RoundUpTo(s, alignment) ELSE s

Give(p, request) == blocks' = (p :> [size |-> request[1], alignment |-> request[2]]) @@ blocks
Idle(t) == pending[t] = << >>

AllocateSmall(t, request) ==
  LET size == Rounded(request[1], request[2])
      c == ClassID(size)
  IN
  /\ CanAllocate(size, request[2])
  /\ \/ /\ cache[t][c] # << >>
        /\ Give(cache[t][c][1], request)
        /\ cache' = [cache EXCEPT ![t][c] = Tail(@)]
        /\ UNCHANGED <<free_list, allocated_user, allocated_meta>>
     \/ /\ cache[t][c] = << >>
        /\ BulkAllocate(c, LAMBDA got : /\ Give(got[1], request)
                                        /\ cache' = [cache EXCEPT ![t][c] = Tail(got)])
  /\ UNCHANGED <<list, pending, mapped>>

RoundUpMapSize(size) == RoundUpTo(size, PageSize) + PageSize
Overlap(h, g) == h.map_beg < g.map_beg + g.map_size /\ g.map_beg < h.map_beg + h.map_size

\* LargeMmapAllocator::Allocate up to its lock.
MapLarge(t, request) ==
  LET size == Rounded(request[1], request[2])
      alignment == request[2]
      map_size == RoundUpMapSize(size) + IF alignment > PageSize THEN alignment ELSE 0
  IN
  /\ ~CanAllocate(size, alignment)
  /\ \E map_beg \in MapSlots :
       LET res == RoundUpTo(map_beg + PageSize, alignment)
           h == [size |-> size, map_beg |-> map_beg, map_size |-> map_size, next |-> 0, prev |-> 0]
       IN
       /\ \A p \in DOMAIN mapped : ~Overlap(h, mapped[p])
       /\ mapped' = (res :> h) @@ mapped
       /\ pending' = [pending EXCEPT ![t] = <<[what |-> "link", ptr |-> res, request |-> request]>>]
  /\ UNCHANGED <<free_list, allocated_user, allocated_meta, cache, list, blocks>>

\* The rest of it, under mutex_.
LinkLarge(t) ==
  /\ pending[t] # << >> /\ pending[t][1].what = "link"
  /\ LET h == pending[t][1].ptr IN
       /\ mapped' = [q \in DOMAIN mapped |-> CASE q = h -> [mapped[q] EXCEPT !.next = list, !.prev = 0]
                                                [] q = list -> [mapped[q] EXCEPT !.prev = h]
                                                [] OTHER -> mapped[q]]
       /\ list' = h
       /\ Give(h, pending[t][1].request)
  /\ pending' = [pending EXCEPT ![t] = << >>]
  /\ UNCHANGED <<free_list, allocated_user, allocated_meta, cache>>

Allocate(t) ==
  /\ Idle(t) /\ Cardinality(DOMAIN blocks) < MaxLive
  /\ \E request \in Requests : AllocateSmall(t, request) \/ MapLarge(t, request)

Forget(p) == blocks' = [q \in DOMAIN blocks \ {p} |-> blocks[q]]

\* DrainHalf: the front half goes to the region, turned around.
BugDeallocateSmall(t, p) ==
  LET c == GetSizeClass(p)
      full == <<p>> \o cache[t][c]
      half == Len(full) \div 2
  IN
  /\ PrimaryIsMine(p) /\ Forget(p)
  /\ IF Len(full) >= 2 * MaxCached(c)
     THEN /\ cache' = [cache EXCEPT ![t][c] = full]
          /\ free_list' = [free_list EXCEPT ![c] = Reverse(SubSeq(full, 1, half)) \o @]
     ELSE cache' = [cache EXCEPT ![t][c] = full] /\ UNCHANGED free_list
  /\ UNCHANGED <<allocated_user, allocated_meta, list, pending, mapped>>
DeallocateSmall(t, p) ==
  LET c == GetSizeClass(p)
      full == <<p>> \o cache[t][c]
      half == Len(full) \div 2
  IN
  /\ PrimaryIsMine(p) /\ Forget(p)
  /\ IF Len(full) >= 2 * MaxCached(c)
     THEN /\ cache' = [cache EXCEPT ![t][c] = SubSeq(full, half + 1, Len(full))]
          /\ free_list' = [free_list EXCEPT ![c] = Reverse(SubSeq(full, 1, half)) \o @]
     ELSE cache' = [cache EXCEPT ![t][c] = full] /\ UNCHANGED free_list
  /\ UNCHANGED <<allocated_user, allocated_meta, list, pending, mapped>>

BugUnlinkLarge(t, p) ==
  /\ ~PrimaryIsMine(p) /\ Forget(p)
  /\ LET prev == mapped[p].prev
         next == mapped[p].next
     IN
     /\ mapped' = [q \in DOMAIN mapped |-> IF q = prev THEN [mapped[q] EXCEPT !.next = next]
                                            ELSE mapped[q]]
     /\ list' = IF p = list THEN next ELSE list
  /\ pending' = [pending EXCEPT ![t] = <<[what |-> "unmap", ptr |-> p]>>]
  /\ UNCHANGED <<free_list, allocated_user, allocated_meta, cache>>
\* LargeMmapAllocator::Deallocate: unlinked under mutex_, unmapped after it.
UnlinkLarge(t, p) ==
  /\ ~PrimaryIsMine(p) /\ Forget(p)
  /\ LET prev == mapped[p].prev
         next == mapped[p].next
     IN
     /\ mapped' = [q \in DOMAIN mapped |-> CASE q = prev -> [mapped[q] EXCEPT !.next = next]
                                              [] q = next -> [mapped[q] EXCEPT !.prev = prev]
                                              [] OTHER -> mapped[q]]
     /\ list' = IF p = list THEN next ELSE list
  /\ pending' = [pending EXCEPT ![t] = <<[what |-> "unmap", ptr |-> p]>>]
  /\ UNCHANGED <<free_list, allocated_user, allocated_meta, cache>>

Unmap(t) ==
  /\ pending[t] # << >> /\ pending[t][1].what = "unmap"
  /\ mapped' = [q \in DOMAIN mapped \ {pending[t][1].ptr} |-> mapped[q]]
  /\ pending' = [pending EXCEPT ![t] = << >>]
  /\ UNCHANGED <<free_list, allocated_user, allocated_meta, cache, list, blocks>>

\* A block may be freed by another thread than the one that asked for it.
Deallocate(t) ==
  /\ Idle(t)
  /\ \E p \in DOMAIN blocks : DeallocateSmall(t, p) \/ UnlinkLarge(t, p)

\* SwallowCache, when a thread ends.
SwallowCache(t) ==
  /\ Idle(t) /\ \E c \in Classes : cache[t][c] # << >>
  /\ free_list' = [c \in Classes |-> cache[t][c] \o free_list[c]]
  /\ cache' = [cache EXCEPT ![t] = [c \in Classes |-> << >>]]
  /\ UNCHANGED <<allocated_user, allocated_meta, list, pending, mapped, blocks>>

\* The blocks the scans of the list meet, first to last; they end where next is 0,
\* and badly at memory that is not mapped.
Scanned ==
  LET scan[i \in 0 .. Cardinality(DOMAIN mapped)] ==
        LET last == IF i = 0 THEN 0 ELSE Last(scan[i - 1]) IN
        CASE i = 0 -> <<list>>
          [] i > 0 /\ last \in DOMAIN mapped -> Append(scan[i - 1], mapped[last].next)
          [] OTHER -> scan[i - 1]
  IN SelectSeq(scan[Cardinality(DOMAIN mapped)], LAMBDA p : p # 0)

\* What clients and reports ask about a pointer.
PointerIsMine(p) == PrimaryIsMine(p) \/ (p % PageSize = 0 /\ p \in ToSet(Scanned))
GetBlockBegin(p) ==
  IF PrimaryIsMine(p) THEN PrimaryBlockBegin(p)
  ELSE LET in == SelectSeq(Scanned, LAMBDA b : b <= p /\ p < b + mapped[b].size)
       IN IF in = << >> THEN 0 ELSE in[1]
GetActuallyAllocatedSize(p) ==
  IF PrimaryIsMine(p) THEN Size(GetSizeClass(p))
  ELSE RoundUpMapSize(mapped[p].size) - PageSize
GetMetaData(p) == IF PrimaryIsMine(p) THEN PrimaryMetaData(p) ELSE p - PageSize

Init ==
  /\ free_list = [c \in Classes |-> << >>]
  /\ allocated_user = [c \in Classes |-> 0] /\ allocated_meta = [c \in Classes |-> 0]
  /\ cache = [t \in Threads |-> [c \in Classes |-> << >>]]
  /\ list = 0 /\ pending = [t \in Threads |-> << >>] /\ mapped = << >>
  /\ blocks = << >>

Next == \E t \in Threads :
  Allocate(t) \/ LinkLarge(t) \/ Deallocate(t) \/ Unmap(t) \/ SwallowCache(t)

-----------------------------------------------------------------------------
Held(p) == p .. p + blocks[p].size - 1
SmallBlocks == {p \in DOMAIN blocks : PrimaryIsMine(p)}
ChunksOf(c) ==
  ToSet(free_list[c]) \cup UNION {ToSet(cache[t][c]) : t \in Threads}
  \cup {p \in SmallBlocks : GetSizeClass(p) = c}

\* No chunk is lost or handed out twice: those a region was populated with are
\* each on one free list, in one cache or with one client.
ChunksAreConserved ==
  \A c \in Classes :
    LET n == allocated_user[c] \div Size(c) IN
    /\ ChunksOf(c) = {RegionBeg(c) + i * Size(c) : i \in 0 .. n - 1}
    /\ n = Len(free_list[c])
           + FoldFunctionOnSet(+, 0, [t \in Threads |-> Len(cache[t][c])], Threads)
           + Cardinality({p \in SmallBlocks : GetSizeClass(p) = c})
    /\ \A t \in Threads : Len(cache[t][c]) < 2 * MaxCached(c)

\* Whatever other threads map, link, unlink and unmap meanwhile, the list of large
\* blocks has those in use, each once, stays in mapped memory and can be followed
\* both ways (LargeMmapAllocator).
ListIsSound ==
  LET n == Len(Scanned) IN
  /\ ToSet(Scanned) = {p \in DOMAIN blocks : ~PrimaryIsMine(p)}
  /\ IsInjective(Scanned) /\ ToSet(Scanned) \subseteq DOMAIN mapped
  /\ \A i \in 1 .. n : mapped[Scanned[i]].prev = IF i = 1 THEN 0 ELSE Scanned[i - 1]

\* A block is aligned, large enough, its own, found from each of its bytes, and
\* neither overlaps another one nor any metadata; the list of large ones is sound.
BlocksAreSound ==
  /\ ListIsSound
  /\ \A p \in DOMAIN blocks :
    /\ blocks[p].alignment > 8 \/ ~PrimaryIsMine(p) => p % blocks[p].alignment = 0
    /\ GetActuallyAllocatedSize(p) >= blocks[p].size
    /\ PointerIsMine(p)
    /\ \A a \in Held(p) : GetBlockBegin(a) = p
    /\ \A q \in DOMAIN blocks :
         /\ q # p => Held(p) \cap Held(q) = {}
         /\ GetMetaData(q) = GetMetaData(p) => q = p
         /\ \A m \in 0 .. MetadataSize - 1 : GetMetaData(q) + m \notin Held(p)
=============================================================================
