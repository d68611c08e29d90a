---------------------------- MODULE AsanAllocator ----------------------------
(***************************************************************************)
(* The heap of AddressSanitizer, lib/asan/asan_allocator.cc: chunks carved *)
(* out of page groups, one free list per size class and per thread, a      *)
(* quarantine per thread and a global one, and the shadow that says which  *)
(* bytes the program may touch.  Everything guarded by MallocInfo::mu_ is  *)
(* one step; the accesses to a chunk's header and shadow outside it are    *)
(* steps of their own.  Addresses are small integers, scaled by constants. *)
(***************************************************************************)
EXTENDS Integers, FiniteSets, Sequences, SequencesExt, FiniteSetsExt

CONSTANTS
  Threads, MainTid,  \* tids of the application's threads, and 0
  NoThread, InvalidTid,  \* no holder; kInvalidTid
  Redzone,       \* REDZONE, a power of two
  Granularity,   \* SHADOW_GRANULARITY, at most Redzone
  PageSize,      \* kPageSize
  MinMmap,       \* kMinMmapSize
  LocalMax,      \* kMaxSizeForThreadLocalFreeList
  ThreadQuarantine,  \* kMaxThreadLocalQuarantine
  QuarantineSize,    \* flags()->quarantine_size
  MaxAllowed,    \* kMaxAllowedMallocSize
  Bases,         \* where mmap may place a page group
  Sizes, Alignments, \* what the application asks for (alignment 0: malloc)
  Calls          \* bound on allocations, thread exits and fork locks together

VARIABLES
  groups,      \* page_groups_[0 .. n_page_groups_ - 1]
  sorted,      \* n_sorted_page_groups_
  header,      \* chunk address -> ChunkBase
  marks,       \* address of a CHUNK_MEMALIGN header -> its used_size
  free_lists,  \* MallocInfo::free_lists_
  quarantine,  \* MallocInfo::quarantine_
  local,       \* thread -> AsanThreadLocalMallocStorage
  attached,    \* threads whose GetCurrent() is not null
  holder,      \* thread that took mu_ with asan_mz_force_lock, or NoThread
  shadow,      \* granule address -> shadow byte
  pc, regs,    \* where a thread is in a call, and its local variables
  died,        \* "no" or the report or CHECK that ended the process
  live,        \* history: block the application owns -> size it asked for
  returned,    \* history: every pointer an allocation returned
  lost,        \* history: chunks in the storage of a thread that was
               \* destroyed without CommitBack
  calls

vars == <<groups, sorted, header, marks, free_lists, quarantine, local,
          attached, holder, shadow, pc, regs, died, live, returned, lost, calls>>

HeapLeft == -6     \* kAsanHeapLeftRedzoneMagic, as a signed byte
HeapRight == -5    \* kAsanHeapRightRedzoneMagic
HeapFree == -3     \* kAsanHeapFreeMagic

\* Function f with the values of g put in.
Over(g, f) == [x \in DOMAIN g \cup DOMAIN f |-> IF x \in DOMAIN g THEN g[x] ELSE f[x]]

Magic == {HeapLeft, HeapRight, HeapFree}

RoundUpTo(x, b) == ((x + b - 1) \div b) * b
PowersOfTwo == {1, 2, 4, 8, 16, 32, 64, 128, 256, 512, 1024, 2048, 4096}
RoundUpToPowerOfTwo(x) == Min({y \in PowersOfTwo : y >= x})
\* Sizes stay below kMallocSizeClassStep: a class is known by its power of two.
SizeToSizeClass(size) == RoundUpToPowerOfTwo(size)
Classes == {y \in PowersOfTwo : 2 * Redzone <= y /\ y <= MaxAllowed}

NeededSize(size, alignment) ==
  RoundUpTo(size, Redzone) + Redzone + IF alignment > Redzone THEN alignment ELSE 0

\* SizesHaveClasses: the size class of an allowed request is one of the classes.
\* MinMmap is at least twice the others, so that a group holds a chunk and a
\* refill needs one group (kMinMmapSize is 4M, kMaxSizeForThreadLocalFreeList 128K).
SizesHaveClasses ==
  \A size \in Sizes, alignment \in Alignments \cup {0} :
    LET needed == NeededSize(Max({size, 1}), alignment)
    IN  needed <= MaxAllowed => \E cls \in PowersOfTwo : needed <= cls /\ cls <= MaxAllowed
ASSUME AllocatorAssumption ==
  /\ NoThread \notin Threads /\ InvalidTid \notin Threads \cup {MainTid}
  /\ Redzone \in PowersOfTwo /\ Granularity \in PowersOfTwo /\ Granularity <= Redzone
  /\ PageSize \in Nat \ {0} /\ LocalMax \in Nat /\ MinMmap \in Nat
  /\ 2 * PageSize <= MinMmap /\ 2 * LocalMax <= MinMmap
  /\ ThreadQuarantine \in Nat /\ QuarantineSize \in Nat /\ MaxAllowed \in Nat
  /\ PageSize % Granularity = 0 /\ MinMmap % Granularity = 0
  /\ Bases \subseteq Nat /\ \A base \in Bases : base % PageSize = 0
  /\ Sizes \subseteq Nat /\ Alignments \subseteq PowersOfTwo \cup {0}
  /\ SizesHaveClasses

-----------------------------------------------------------------------------
(* Chunks: an address m whose header is header[m].                         *)

Beg(h, m) == RoundUpTo(m + 1, h[m].alignment)
End(h, m) == Beg(h, m) + h[m].used
PtrToChunk(ptr) == IF ptr - Redzone \in DOMAIN marks
                   THEN ptr - Redzone - marks[ptr - Redzone]
                   ELSE ptr - Redzone
FifoSize(q) == FoldSeq(LAMBDA m, n : header[m].cls + n, 0, q)

AddrIsInside(h, m, a) == a >= Beg(h, m) /\ a + 1 <= End(h, m)
AddrIsAtRight(h, m, a) == a + 1 >= End(h, m)
LeftOffset(h, m, a) == Beg(h, m) - a
RightOffset(h, m, a) == IF a <= End(h, m) THEN 0 ELSE a - End(h, m)

-----------------------------------------------------------------------------
(* Finding the chunk of an address, under mu_.                             *)

PageGroupLess(g1, g2) == g1.at < g2.at
BugSortPageGroups == {groups}
\* page_groups_ after a look at n_sorted_page_groups_: no two groups are equal,
\* so there is one sorted order.
SortPageGroups ==
  IF sorted < Len(groups)
  THEN {gs \in {[i \in DOMAIN groups |-> groups[p[i]]] :
                   p \in Bijection(DOMAIN groups, DOMAIN groups)} :
          \A i, j \in DOMAIN groups : i < j => PageGroupLess(gs[i], gs[j])}
  ELSE {groups}

\* The binary search: the first group whose PageGroup is not below the address.
FindPageGroup(gs, a) ==
  LET n == Cardinality({i \in DOMAIN gs : a > gs[i].at})
  IN  IF n < Len(gs) /\ gs[n + 1].beg <= a /\ a < gs[n + 1].end
      THEN <<gs[n + 1]>> ELSE << >>

ChooseChunk(a, left, right) ==
  CASE header[left].state = "available" /\ header[right].state # "available" -> right
    [] header[right].state = "available" /\ header[left].state # "available" -> left
    [] OTHER -> IF RightOffset(header, left, a) < LeftOffset(header, right, a)
                THEN left ELSE right

\* A chunk, 0 if there is none, or -1 when the slot is no chunk (a CHECK fails);
\* gs is page_groups_, sorted.
FindChunkByAddr(gs, a) ==
  LET found == FindPageGroup(gs, a) IN
  IF found = << >> THEN 0 ELSE
  LET g == found[1]
      m == g.beg + ((a - g.beg) \div g.size) * g.size
  IN CASE m \notin DOMAIN header -> -1
       [] m \in DOMAIN header /\ AddrIsInside(header, m, a) -> m
       [] m \in DOMAIN header /\ ~AddrIsInside(header, m, a)
            /\ AddrIsAtRight(header, m, a) ->
            IF m = g.last THEN m ELSE ChooseChunk(a, m, m + g.size)
       [] OTHER -> IF m = g.beg THEN m ELSE ChooseChunk(a, m - g.size, m)

AllocationSize(gs, ptr) ==
  LET m == FindChunkByAddr(gs, ptr) IN
  IF m > 0 /\ Beg(header, m) = ptr /\ header[m].state = "allocated"
  THEN header[m].used ELSE 0

-----------------------------------------------------------------------------
(* Shadow bytes, one per granule.                                          *)

PoisonShadow(sh, addr, size, value) ==
  [a \in DOMAIN sh |-> IF addr <= a /\ a < addr + size THEN value ELSE sh[a]]

BugPartialRightRedzone(sh, mem, size) ==
  [a \in DOMAIN sh |->
     IF a < mem \/ a >= mem + Redzone THEN sh[a]
     ELSE IF a - mem <= size THEN 0 ELSE HeapRight]

PoisonHeapPartialRightRedzone(sh, mem, size) ==
  [a \in DOMAIN sh |->
     IF a < mem \/ a >= mem + Redzone THEN sh[a]
     ELSE LET i == a - mem IN
          CASE i + Granularity <= size -> 0
            [] i >= size -> HeapRight
            [] OTHER -> size - i]

AddressIsPoisoned(a) ==
  LET g == (a \div Granularity) * Granularity
      value == shadow[g]
  IN  value # 0 /\ a - g >= value

-----------------------------------------------------------------------------
(* MallocInfo, under mu_.                                                  *)

GroupSize(cls) == Max({cls, MinMmap}) + IF cls < PageSize THEN 0 ELSE PageSize
ChunkCount(cls) == Max({cls, MinMmap}) \div cls - IF cls < PageSize THEN 1 ELSE 0

FreshChunk(cls) == [state |-> "available", cls |-> cls, alignment |-> 1,
                    used |-> 0, alloc |-> MainTid, free |-> MainTid]

\* The chunks of a new group, in the order GetNewChunks links them.
NewChunks(base, cls) ==
  [i \in 1 .. ChunkCount(cls) |-> base + (ChunkCount(cls) - i) * cls]

BaseIsUnused(base, cls) ==
  \A i \in DOMAIN groups : base + GroupSize(cls) <= groups[i].beg \/ groups[i].end <= base

\* free_lists_[cls] yields n chunks; an empty list is refilled from one mmap
\* (a group always holds at least n chunks).  Use gets the list returned.
AllocateChunks(cls, n, Use(_)) ==
  \/ /\ Len(free_lists[cls]) >= n
     /\ Use(Reverse(SubSeq(free_lists[cls], 1, n)))
     /\ free_lists' = [free_lists EXCEPT ![cls] = SubSeq(@, n + 1, Len(@))]
     /\ UNCHANGED <<groups, header, shadow>>
  \/ /\ Len(free_lists[cls]) < n
     /\ \E base \in {b \in Bases : BaseIsUnused(b, cls)} :
          LET new == NewChunks(base, cls)
              all == free_lists[cls] \o new
          IN
          \* mmap goes downwards, so the groups do not come sorted
          /\ \A b \in Bases : b > base => ~BaseIsUnused(b, cls)
          /\ Use(Reverse(SubSeq(all, 1, n)))
          /\ free_lists' = [free_lists EXCEPT ![cls] = SubSeq(all, n + 1, Len(all))]
          /\ header' = Over([m \in ToSet(new) |-> FreshChunk(cls)], header)
          /\ groups' = Append(groups,
               [beg |-> base, end |-> base + GroupSize(cls), size |-> cls,
                last |-> base + cls * (ChunkCount(cls) - 1),
                at |-> base + ChunkCount(cls) * cls])
          /\ shadow' = Over([a \in {base + i * Granularity :
                                      i \in 0 .. GroupSize(cls) \div Granularity - 1}
                               |-> HeapLeft], shadow)

\* The oldest chunks that must leave quarantine q to fit QuarantineSize; an
\* empty quarantine always fits.
PopCount(q) == Min({k \in 0 .. Len(q) :
                      k = Len(q) \/ FifoSize(SubSeq(q, k + 1, Len(q))) <= QuarantineSize})

\* What QuarantinePop, for each chunk of popped in turn, pushes onto class cls.
QuarantinePop(popped, cls) ==
  LET pushed[i \in 0 .. Len(popped)] ==
        IF i = 0 THEN << >>
        ELSE IF header[popped[i]].cls = cls THEN <<popped[i]>> \o pushed[i - 1]
        ELSE pushed[i - 1]
  IN pushed[Len(popped)]

\* SwallowThreadLocalMallocStorage of t; eat_free_lists gives the lists back too.
BugSwallow(t, eat_free_lists) ==
  LET q == quarantine \o local[t].quarantine
      k == PopCount(q)
      popped == SubSeq(q, 1, k)
      Given(cls) == IF eat_free_lists THEN Reverse(local[t].free[cls]) ELSE << >>
  IN
  /\ quarantine' = SubSeq(q, k + 1, Len(q))
  /\ header' = [m \in DOMAIN header |->
                  IF m \in ToSet(popped) THEN [header[m] EXCEPT !.state = "available"]
                  ELSE header[m]]
  /\ shadow' = [a \in DOMAIN shadow |->
                  IF \E m \in ToSet(popped) : m <= a /\ a < m + header[m].cls
                  THEN HeapLeft ELSE shadow[a]]
  /\ free_lists' = [cls \in Classes |-> Given(cls) \o QuarantinePop(popped, cls) \o free_lists[cls]]
  /\ local' = [local EXCEPT ![t].free =
                 IF eat_free_lists THEN [cls \in Classes |-> << >>] ELSE @]

SwallowThreadLocalMallocStorage(t, eat_free_lists) ==
  LET q == IF local[t].quarantine = << >> THEN quarantine
           ELSE quarantine \o local[t].quarantine
      k == IF local[t].quarantine = << >> THEN 0 ELSE PopCount(q)
      popped == SubSeq(q, 1, k)
      Given(cls) == IF eat_free_lists THEN Reverse(local[t].free[cls]) ELSE << >>
  IN
  /\ quarantine' = SubSeq(q, k + 1, Len(q))
  /\ header' = [m \in DOMAIN header |->
                  IF m \in ToSet(popped) THEN [header[m] EXCEPT !.state = "available"]
                  ELSE header[m]]
  /\ shadow' = [a \in DOMAIN shadow |->
                  IF \E m \in ToSet(popped) : m <= a /\ a < m + header[m].cls
                  THEN HeapLeft ELSE shadow[a]]
  /\ free_lists' = [cls \in Classes |-> Given(cls) \o QuarantinePop(popped, cls) \o free_lists[cls]]
  /\ local' = [local EXCEPT
                 ![t].quarantine = << >>,
                 ![t].free = IF eat_free_lists THEN [cls \in Classes |-> << >>] ELSE @]

-----------------------------------------------------------------------------
(* Calls.                                                                  *)

Idle == [size |-> 0, alignment |-> 0, old |-> 0, chunk |-> 0, ptr |-> 0]

Running(t, at) == died = "no" /\ pc[t] = at
MuIsFree == holder = NoThread

\* A chunk from the thread's list, the refilled list, or the global list.
TakeChunk(t, request) ==
  LET cls == SizeToSizeClass(NeededSize(request.size, request.alignment))
      Got(m) == regs' = [regs EXCEPT ![t] = [request EXCEPT !.chunk = m]]
      FromLocal == t \in attached /\ cls < LocalMax
  IN
  /\ \/ /\ ~FromLocal /\ MuIsFree
        /\ AllocateChunks(cls, 1, LAMBDA taken : Got(taken[1]))
        /\ UNCHANGED local
     \/ /\ FromLocal /\ local[t].free[cls] = << >> /\ MuIsFree
        /\ AllocateChunks(cls, LocalMax \div cls,
             LAMBDA taken : /\ Got(taken[1])
                            /\ local' = [local EXCEPT ![t].free[cls] = Tail(taken)])
     \/ /\ FromLocal /\ local[t].free[cls] # << >>
        /\ Got(local[t].free[cls][1])
        /\ local' = [local EXCEPT ![t].free[cls] = Tail(@)]
        /\ UNCHANGED <<groups, header, free_lists, shadow>>
  /\ pc' = [pc EXCEPT ![t] = "header"]
  /\ calls' = calls + 1
  /\ UNCHANGED <<sorted, marks, quarantine, attached, holder, returned, lost>>

\* malloc, calloc, memalign, valloc, posix_memalign: size 0 asks for 1 byte;
\* a size that is not allowed returns 0 and changes nothing.
Allocate(t) ==
  /\ Running(t, "idle") /\ holder # t /\ calls < Calls
  /\ \E size \in Sizes, alignment \in Alignments :
       /\ NeededSize(Max({size, 1}), alignment) <= MaxAllowed
       /\ TakeChunk(t, [Idle EXCEPT !.size = Max({size, 1}), !.alignment = alignment])
  /\ UNCHANGED <<died, live>>

\* realloc of an owned block to a size that is not 0.  From here on the
\* application must not use the block: it is this call's.
Reallocate(t) ==
  /\ Running(t, "idle") /\ holder # t /\ calls < Calls
  /\ \E ptr \in DOMAIN live, size \in Sizes \ {0} :
       /\ NeededSize(size, 0) <= MaxAllowed
       /\ TakeChunk(t, [Idle EXCEPT !.size = size, !.old = ptr])
       /\ live' = Restrict(live, DOMAIN live \ {ptr})
       /\ died' = IF header[PtrToChunk(ptr)].state = "allocated" THEN "no"
                  ELSE "CHECK(m->chunk_state == CHUNK_ALLOCATED)"

\* The header of the chunk and, for an alignment above REDZONE, the header
\* that leads back from the aligned address.
SetHeader(t) ==
  LET m == regs[t].chunk
      first == m + Redzone
      aligned == regs[t].alignment > Redzone /\ first % regs[t].alignment # 0
      addr == IF aligned THEN RoundUpTo(first, regs[t].alignment) ELSE first
  IN
  /\ Running(t, "header")
  /\ IF header[m].state # "available"
     THEN died' = "CHECK(m->chunk_state == CHUNK_AVAILABLE)"
          /\ UNCHANGED <<header, marks, pc, regs>>
     ELSE /\ header' = [header EXCEPT ![m] =
               [state |-> "allocated", cls |-> @.cls,
                alignment |-> IF aligned THEN regs[t].alignment ELSE Redzone,
                used |-> regs[t].size, alloc |-> IF t \in attached THEN t ELSE MainTid,
                free |-> InvalidTid]]
          /\ marks' = IF aligned THEN Over([x \in {addr - Redzone} |-> x - m], marks)
                      ELSE marks
          /\ regs' = [regs EXCEPT ![t].ptr = addr]
          /\ pc' = [pc EXCEPT ![t] = "unpoison"]
          /\ UNCHANGED died
  /\ UNCHANGED <<groups, sorted, free_lists, quarantine, local, attached, holder,
                 shadow, live, returned, lost, calls>>

\* The shadow of the block; then the pointer is the application's, after the
\* old block of a realloc has been copied (and is freed next).
Unpoison(t) ==
  LET rounded == RoundUpTo(regs[t].size, Redzone)
      open == PoisonShadow(shadow, regs[t].ptr, rounded, 0)
  IN
  /\ Running(t, "unpoison")
  /\ shadow' = IF regs[t].size < rounded
               THEN PoisonHeapPartialRightRedzone(open, regs[t].ptr + rounded - Redzone,
                                                  regs[t].size % Redzone)
               ELSE open
  /\ live' = Over([p \in {regs[t].ptr} |-> regs[t].size], live)
  /\ returned' = returned \cup {regs[t].ptr}
  /\ IF regs[t].old # 0
     THEN /\ pc' = [pc EXCEPT ![t] = "exchange"]
          /\ regs' = [regs EXCEPT ![t] = [Idle EXCEPT !.ptr = regs[t].old]]
     ELSE /\ pc' = [pc EXCEPT ![t] = "idle"]
          /\ regs' = [regs EXCEPT ![t] = Idle]
  /\ UNCHANGED <<groups, sorted, header, marks, free_lists, quarantine, local,
                 attached, holder, died, lost, calls>>

Owned(t) == IF regs[t].old # 0 THEN {regs[t].old}
            ELSE IF pc[t] = "exchange" THEN {regs[t].ptr} ELSE {}
OpenBlocks == DOMAIN live \cup UNION {Owned(t) : t \in Threads}
InHand(at) == {regs[t].chunk : t \in {u \in Threads : pc[u] \in at}}
HandedOut == {PtrToChunk(p) : p \in OpenBlocks} \cup InHand({"unpoison"})

\* free, realloc to size 0, and the end of a realloc: the atomic exchange lets
\* one of two racing frees through.  The application may free a block a second
\* time, but not once the chunk has been handed out again: no code can tell.
FreedPointer(t, ptr) ==
  \/ Running(t, "idle") /\ holder # t /\ ptr \in returned
     /\ (ptr \in DOMAIN live \/ PtrToChunk(ptr) \notin HandedOut)
  \/ Running(t, "exchange") /\ ptr = regs[t].ptr

Judge(state) == CASE state = "quarantine" -> "double-free"
                  [] state = "available" -> "free of memory not malloc()-ed"
                  [] OTHER -> "no"

BugDeallocate(t) ==
  /\ \E ptr \in returned :
       LET m == PtrToChunk(ptr) IN
       /\ FreedPointer(t, ptr)
       /\ header' = header
       /\ died' = Judge(header[m].state)
       /\ live' = Restrict(live, DOMAIN live \ {ptr})
       /\ regs' = [regs EXCEPT ![t] = [Idle EXCEPT !.chunk = m, !.ptr = ptr]]
  /\ pc' = [pc EXCEPT ![t] = "poison"]
  /\ UNCHANGED <<groups, sorted, marks, free_lists, quarantine, local, attached,
                 holder, shadow, returned, lost, calls>>

Deallocate(t) ==
  /\ \E ptr \in returned :
       LET m == PtrToChunk(ptr) IN
       /\ FreedPointer(t, ptr)
       /\ header' = [header EXCEPT ![m].state = "quarantine"]
       /\ died' = Judge(header[m].state)
       /\ live' = Restrict(live, DOMAIN live \ {ptr})
       /\ regs' = [regs EXCEPT ![t] = [Idle EXCEPT !.chunk = m, !.ptr = ptr]]
  /\ pc' = [pc EXCEPT ![t] = "poison"]
  /\ UNCHANGED <<groups, sorted, marks, free_lists, quarantine, local, attached,
                 holder, shadow, returned, lost, calls>>

PoisonFreed(t) ==
  LET m == regs[t].chunk IN
  /\ Running(t, "poison")
  /\ IF header[m].free # InvalidTid
     THEN died' = "CHECK(m->free_tid == kInvalidTid)" /\ UNCHANGED <<header, shadow, pc>>
     ELSE /\ header' = [header EXCEPT ![m].free = IF t \in attached THEN t ELSE MainTid]
          /\ shadow' = PoisonShadow(shadow, regs[t].ptr,
                                    RoundUpTo(header[m].used, Redzone), HeapFree)
          /\ pc' = [pc EXCEPT ![t] = "push"]
          /\ UNCHANGED died
  /\ UNCHANGED <<groups, sorted, marks, free_lists, quarantine, local, attached,
                 holder, regs, live, returned, lost, calls>>

PushQuarantine(t) ==
  LET m == regs[t].chunk IN
  /\ Running(t, "push")
  /\ \/ /\ t \in attached
        /\ local' = [local EXCEPT ![t].quarantine = Append(@, m)]
        /\ pc' = [pc EXCEPT ![t] =
                    IF FifoSize(Append(local[t].quarantine, m)) > ThreadQuarantine
                    THEN "swallow" ELSE "idle"]
        /\ UNCHANGED quarantine
     \/ /\ t \notin attached  \* BypassThreadLocalQuarantine
        /\ MuIsFree
        /\ quarantine' = Append(quarantine, m)
        /\ pc' = [pc EXCEPT ![t] = "idle"]
        /\ UNCHANGED local
  /\ regs' = [regs EXCEPT ![t] = Idle]
  /\ UNCHANGED <<groups, sorted, header, marks, free_lists, attached, holder,
                 shadow, died, live, returned, lost, calls>>

Swallow(t) ==
  /\ Running(t, "swallow") /\ MuIsFree
  /\ SwallowThreadLocalMallocStorage(t, FALSE)
  /\ pc' = [pc EXCEPT ![t] = "idle"]
  /\ UNCHANGED <<groups, sorted, marks, attached, holder, regs, died, live,
                 returned, lost, calls>>

\* The start routine returned: ThreadStart commits the storage back, then
\* destroys the AsanThread (between the two nothing is visible to others).
\* GetCurrent is null from then on, and destructors of thread-specific data may
\* still allocate and free.
CommitBack(t) ==
  /\ Running(t, "idle") /\ calls < Calls /\ t \in attached /\ holder # t /\ MuIsFree
  /\ SwallowThreadLocalMallocStorage(t, TRUE)
  /\ attached' = attached \ {t}
  /\ calls' = calls + 1
  /\ UNCHANGED <<groups, sorted, marks, holder, pc, regs, died, live, returned,
                 lost>>

\* pthread_exit: TSDDtor destroys the AsanThread with its storage in it.
ExitWithoutReturning(t) ==
  /\ Running(t, "idle") /\ calls < Calls /\ t \in attached /\ holder # t
  /\ attached' = attached \ {t}
  /\ lost' = lost \cup ToSet(local[t].quarantine)
                  \cup UNION {ToSet(local[t].free[cls]) : cls \in Classes}
  /\ local' = [local EXCEPT ![t] =
                 [quarantine |-> << >>, free |-> [cls \in Classes |-> << >>]]]
  /\ calls' = calls + 1
  /\ UNCHANGED <<groups, sorted, header, marks, free_lists, quarantine, holder,
                 shadow, pc, regs, died, live, returned>>

\* malloc_usable_size, ownership queries and reports look an address up, which
\* sorts the page groups first.
LookUp ==
  /\ died = "no" /\ MuIsFree
  /\ groups' \in SortPageGroups
  /\ sorted' = Len(groups)
  /\ UNCHANGED <<header, marks, free_lists, quarantine, local, attached, holder,
                 shadow, pc, regs, died, live, returned, lost, calls>>

\* asan_mz_force_lock and asan_mz_force_unlock, around fork.
ForceLock(t) ==
  /\ Running(t, "idle") /\ calls < Calls /\ MuIsFree
  /\ holder' = t
  /\ calls' = calls + 1
  /\ UNCHANGED <<groups, sorted, header, marks, free_lists, quarantine, local, attached,
                 shadow, pc, regs, died, live, returned, lost>>

ForceUnlock(t) ==
  /\ Running(t, "idle") /\ holder = t
  /\ holder' = NoThread
  /\ UNCHANGED <<groups, sorted, header, marks, free_lists, quarantine, local, attached,
                 shadow, pc, regs, died, live, returned, lost, calls>>

-----------------------------------------------------------------------------
EmptyStorage == [quarantine |-> << >>, free |-> [cls \in Classes |-> << >>]]
Init ==
  /\ groups = << >> /\ sorted = 0
  /\ header = << >> /\ marks = << >>
  /\ free_lists = [cls \in Classes |-> << >>]
  /\ quarantine = << >>
  /\ local = [t \in Threads |-> EmptyStorage]
  /\ attached = Threads
  /\ holder = NoThread
  /\ shadow = << >>
  /\ pc = [t \in Threads |-> "idle"]
  /\ regs = [t \in Threads |-> Idle]
  /\ died = "no" /\ live = << >> /\ returned = {} /\ lost = {} /\ calls = 0

Next ==
  \/ \E t \in Threads :
       \/ Allocate(t) \/ Reallocate(t) \/ SetHeader(t) \/ Unpoison(t)
       \/ Deallocate(t) \/ PoisonFreed(t) \/ PushQuarantine(t)
       \/ Swallow(t) \/ CommitBack(t) \/ ExitWithoutReturning(t)
       \/ ForceLock(t) \/ ForceUnlock(t)
  \/ LookUp

Spec == Init /\ [][Next]_vars

-----------------------------------------------------------------------------
(* Where a chunk is.  A chunk in hand belongs to the call in progress.     *)

FreeListed == UNION {ToSet(free_lists[cls]) \cup
                     UNION {ToSet(local[t].free[cls]) : t \in Threads} : cls \in Classes}
Quarantined == ToSet(quarantine) \cup UNION {ToSet(local[t].quarantine) : t \in Threads}

\* The lists of a thread, or of MallocInfo for NoThread.
Owners == Threads \cup {NoThread}
FreeOf(x, cls) == IF x \in Threads THEN local[x].free[cls] ELSE free_lists[cls]
QuarantineOf(x) == IF x \in Threads THEN local[x].quarantine ELSE quarantine

\* No chunk is twice in a list, in two lists, in two hands or under two blocks,
\* and none that is in a list, in a hand or lost is there a second time.
NeverTwice ==
  /\ \A x \in Owners : IsInjective(QuarantineOf(x)) /\ \A cls \in Classes : IsInjective(FreeOf(x, cls))
  /\ \A x, y \in Owners : x # y =>
       /\ ToSet(QuarantineOf(x)) \cap ToSet(QuarantineOf(y)) = {}
       /\ \A cls \in Classes : ToSet(FreeOf(x, cls)) \cap ToSet(FreeOf(y, cls)) = {}
  /\ \A t, u \in Threads :
       t # u /\ {pc[t], pc[u]} \subseteq {"header", "unpoison", "poison", "push"} =>
         regs[t].chunk # regs[u].chunk
  /\ \A p, q \in OpenBlocks : PtrToChunk(p) = PtrToChunk(q) => p = q
  /\ FreeListed \cap InHand({"header"}) = {}
  /\ Quarantined \cap InHand({"poison", "push"}) = {}
  /\ {PtrToChunk(p) : p \in OpenBlocks} \cap InHand({"unpoison"}) = {}
  /\ lost \cap (FreeListed \cup Quarantined \cup InHand({"header", "poison", "push"})) = {}

TypeOK ==
  /\ \A m \in DOMAIN header :
       /\ header[m].state \in {"available", "allocated", "quarantine"}
       /\ header[m].cls \in Classes
       /\ header[m].alloc \in Threads \cup {MainTid}
       /\ header[m].free \in Threads \cup {MainTid, InvalidTid}
  /\ sorted \in 0 .. Len(groups)
  /\ \A cls \in Classes : \A t \in Threads :
       \A m \in ToSet(free_lists[cls]) \cup ToSet(local[t].free[cls]) : header[m].cls = cls
  /\ \A a \in DOMAIN shadow : shadow[a] \in Magic \cup 0 .. Granularity - 1
  /\ died \in {"no", "double-free", "free of memory not malloc()-ed"}  \* no CHECK fails

\* Every chunk is in exactly one list, quarantine, call or block, and its
\* chunk_state says which.
ChunkHasOnePlace ==
  died = "no" =>
    /\ LET open == {PtrToChunk(p) : p \in OpenBlocks} IN
       /\ FreeListed \cup InHand({"header"}) \cup Quarantined \cup InHand({"poison", "push"})
            \cup InHand({"unpoison"}) \cup open \cup lost = DOMAIN header
       /\ \A m \in FreeListed \cup InHand({"header"}) : header[m].state = "available"
       /\ \A m \in Quarantined \cup InHand({"poison", "push"}) : header[m].state = "quarantine"
       /\ \A m \in InHand({"unpoison"}) \cup open : header[m].state = "allocated"
    /\ NeverTwice

\* Memory is in one place only: no chunk is handed out, freed or listed twice
\* (asan_allocator.cc, Allocate, Deallocate and MallocInfo), chunk headers keep
\* their shape, and no CHECK of the allocator fails.
ChunksAreKept == TypeOK /\ ChunkHasOnePlace

\* A byte may be touched exactly when it lies in a block the application owns;
\* the chunk of a call in progress is between two such states.
ShadowMatchesBlocks ==
  died = "no" =>
    LET busy == InHand({"header", "unpoison", "poison"})
        Body(p) == p .. p + header[PtrToChunk(p)].used - 1
        owned == UNION {{<<PtrToChunk(p), a>> : a \in Body(p)} : p \in OpenBlocks}
    IN
    \A i \in DOMAIN groups : \A a \in groups[i].beg .. groups[i].end - 1 :
      LET m == groups[i].beg + ((a - groups[i].beg) \div groups[i].size) * groups[i].size
      IN m \in busy \/ (AddressIsPoisoned(a) <=> <<m, a>> \notin owned)

\* A block is found by its address with the size that was asked for, and so is
\* every byte of it; an address next to a block is described by a block and not
\* by a chunk nobody uses.  The slot of the PageGroup header itself is left out:
\* there the lookup's own CHECK fails.
LookupIsRight ==
  died = "no" =>
    \A gs \in SortPageGroups :
    LET Of(a) == FindChunkByAddr(gs, a) IN
    /\ \A p \in DOMAIN live :
         \/ PtrToChunk(p) \in InHand({"unpoison"})
         \/ /\ AllocationSize(gs, p) = live[p]
            /\ \A a \in p .. p + live[p] - 1 : Of(a) = PtrToChunk(p)
    /\ \A m \in DOMAIN header : header[m].state # "available" =>
         \A c \in {Of(a) : a \in m .. m + header[m].cls - 1} :
           c > 0 /\ header[c].state # "available"

\* A free is let through when the pointer is owned, and reported otherwise.
FreesAreJudged ==
  [][\A t \in Threads :
       pc'[t] = "poison" /\ pc[t] # "poison" =>
         (died' = "no" <=> \E p \in OpenBlocks : PtrToChunk(p) = regs'[t].chunk)]_vars
=============================================================================
