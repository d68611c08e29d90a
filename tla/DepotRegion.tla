----------------------------- MODULE DepotRegion -----------------------------
(***************************************************************************)
(* The bump allocator under the stack depot (tryallocDesc and allocDesc of *)
(* sanitizer_stackdepot.cc).  Threads move region_pos with a CAS and no    *)
(* lock; a thread that finds no room takes depot.mtx, tries again, retires *)
(* the region by storing 0 in region_pos, maps another, and publishes its  *)
(* end before its start.  Addresses are counted in units of the smallest   *)
(* descriptor.                                                             *)
(***************************************************************************)
EXTENDS Integers

CONSTANTS
  Thread,
  Sizes,       \* the sizes of descriptors asked for
  RegionSize,  \* the 64 KB of a superblock
  AddressTop,  \* bound: the addresses mmap can return are 1 .. AddressTop - 1
  Adjacent     \* may mmap place a range next to an older one?

ASSUME RegionAssumption ==
  /\ Sizes \subseteq Nat \ {0}
  /\ RegionSize \in Nat \ {0}
  /\ AddressTop \in Nat \ {0}
  /\ Adjacent \in BOOLEAN

VARIABLES
  region_pos, region_end,
  mtx,         \* depot.mtx is taken
  mapped,      \* history: the superblocks, as [lo, hi) records
  blocks,      \* history: the descriptors handed out, as [lo, hi) records
  pc, reg      \* each thread's position; its size, cmp, mem and path

vars == <<region_pos, region_end, mtx, mapped, blocks, pc, reg>>

Interval == [lo : 1 .. AddressTop, hi : 1 .. AddressTop]
Disjoint(x, y) == x.hi <= y.lo \/ y.hi <= x.lo
Span(lo, size) == [lo |-> lo, hi |-> lo + size]

\* allocsz
SuperblockSize(size) == IF RegionSize < size THEN size ELSE RegionSize

Goto(t, label) == pc' = [pc EXCEPT ![t] = label]
Set(t, field, value) == reg' = [reg EXCEPT ![t][field] = value]

NoCall == [size |-> 0, cmp |-> 0, mem |-> 0, locked |-> FALSE]

Init ==
  /\ region_pos = 0 /\ region_end = 0
  /\ mtx = FALSE
  /\ mapped = {} /\ blocks = {}
  /\ pc = [t \in Thread |-> "idle"]
  /\ reg = [t \in Thread |-> NoCall]

Call(t, size) ==
  /\ pc[t] = "idle"
  /\ reg' = [reg EXCEPT ![t] = [NoCall EXCEPT !.size = size]]
  /\ Goto(t, "load_pos")
  /\ UNCHANGED <<region_pos, region_end, mtx, mapped, blocks>>

-----------------------------------------------------------------------------
(* tryallocDesc *)

LoadPos(t) ==
  /\ pc[t] = "load_pos"
  /\ Set(t, "cmp", region_pos)
  /\ Goto(t, "load_end")
  /\ UNCHANGED <<region_pos, region_end, mtx, mapped, blocks>>

\* No room: take the lock, or, with the lock, retire the region.
AfterLoadEnd(t, room) ==
  /\ pc[t] = "load_end"
  /\ Goto(t, IF room THEN "cas" ELSE IF reg[t].locked THEN "retire" ELSE "lock")
  /\ UNCHANGED <<region_pos, region_end, mtx, mapped, blocks, reg>>

LoadEnd(t) == AfterLoadEnd(t, reg[t].cmp # 0 /\ reg[t].cmp + reg[t].size <= region_end)

\* A plain store in place of the exchange.
BugCasStores(t) ==
  /\ pc[t] = "cas"
  /\ region_pos' = reg[t].cmp + reg[t].size
  /\ blocks' = blocks \cup {Span(reg[t].cmp, reg[t].size)}
  /\ Goto(t, IF reg[t].locked THEN "unlock" ELSE "idle")
  /\ UNCHANGED <<region_end, mtx, mapped, reg>>

Cas(t) ==
  /\ pc[t] = "cas"
  /\ \/ /\ region_pos = reg[t].cmp
        /\ region_pos' = reg[t].cmp + reg[t].size
        /\ blocks' = blocks \cup {Span(reg[t].cmp, reg[t].size)}
        /\ Goto(t, IF reg[t].locked THEN "unlock" ELSE "idle")
     \/ /\ region_pos # reg[t].cmp
        /\ Goto(t, "load_pos")
        /\ UNCHANGED <<region_pos, blocks>>
  /\ UNCHANGED <<region_end, mtx, mapped, reg>>

-----------------------------------------------------------------------------
(* allocDesc after a failed try *)

Lock(t) ==
  /\ pc[t] = "lock" /\ ~mtx
  /\ mtx' = TRUE
  /\ Set(t, "locked", TRUE)
  /\ Goto(t, "load_pos")
  /\ UNCHANGED <<region_pos, region_end, mapped, blocks>>

Retire(t) ==
  /\ pc[t] = "retire"
  /\ region_pos' = 0
  /\ Goto(t, "mmap")
  /\ UNCHANGED <<region_end, mtx, mapped, blocks, reg>>

\* MmapOrDie: an unused range; the process dies when there is none.  The
\* kernel is free to put it next to an older one.
Mmap(t) ==
  LET size == SuperblockSize(reg[t].size) IN
  /\ pc[t] = "mmap"
  /\ \E lo \in 1 .. AddressTop - size :
       /\ \A m \in mapped : Disjoint(m, Span(lo, size)) /\ (Adjacent \/ (lo + size # m.lo /\ lo # m.hi))
       /\ mapped' = mapped \cup {Span(lo, size)}
       /\ Set(t, "mem", lo)
  /\ Goto(t, "store_end")
  /\ UNCHANGED <<region_pos, region_end, mtx, blocks>>

StoreEnd(t) ==
  /\ pc[t] = "store_end"
  /\ region_end' = reg[t].mem + SuperblockSize(reg[t].size)
  /\ Goto(t, "store_pos")
  /\ UNCHANGED <<region_pos, mtx, mapped, blocks, reg>>

StorePos(t) ==
  /\ pc[t] = "store_pos"
  /\ region_pos' = reg[t].mem
  /\ Goto(t, "load_pos")
  /\ UNCHANGED <<region_end, mtx, mapped, blocks, reg>>

\* ~SpinMutexLock, on the return from the locked path.
Unlock(t) ==
  /\ pc[t] = "unlock"
  /\ mtx' = FALSE
  /\ Goto(t, "idle")
  /\ UNCHANGED <<region_pos, region_end, mapped, blocks, reg>>

-----------------------------------------------------------------------------
Continue(t) ==
  \/ LoadPos(t) \/ LoadEnd(t) \/ Cas(t) \/ Lock(t) \/ Retire(t)
  \/ Mmap(t) \/ StoreEnd(t) \/ StorePos(t) \/ Unlock(t)

Next == \E t \in Thread : Continue(t) \/ \E size \in Sizes : Call(t, size)

Spec == Init /\ [][Next]_vars

-----------------------------------------------------------------------------
Label == {"idle", "load_pos", "load_end", "cas", "lock", "retire", "mmap",
          "store_end", "store_pos", "unlock"}
\* The words are addresses and the threads' locals have the code's types.
TypeOK ==
  /\ region_pos \in 0 .. AddressTop /\ region_end \in 0 .. AddressTop
  /\ mtx \in BOOLEAN
  /\ mapped \subseteq Interval /\ blocks \subseteq Interval
  /\ pc \in [Thread -> Label]
  /\ reg \in [Thread -> [size : Sizes \cup {0}, cmp : 0 .. AddressTop,
                         mem : 0 .. AddressTop, locked : BOOLEAN]]

\* No two descriptors ever share memory, although a CAS may pair a position
\* loaded before the region was replaced with an end loaded after.  This needs
\* Adjacent = FALSE: a thread that stopped before its CAS with the start of a
\* superblock in cmp finds the same value again in region_pos when a later
\* superblock right below has been filled to the last byte.
BlocksDisjoint == \A x, y \in blocks : x # y => Disjoint(x, y)

\* No descriptor runs past the superblock it starts in.
BlocksMapped == \A x \in blocks : \E m \in mapped : m.lo <= x.lo /\ x.hi <= m.hi

\* While region_pos is not 0 it and region_end are of one superblock, and all
\* of that superblock above region_pos is free: why a CAS that finds region_pos
\* unchanged may trust an end it loaded separately.
PosAndEndMatch ==
  region_pos # 0 =>
    /\ \E m \in mapped : m.lo <= region_pos /\ region_pos <= m.hi /\ m.hi = region_end
    /\ \A x \in blocks : x.hi <= region_pos \/ region_end <= x.lo

\* A region is retired only when it has no room for the block, and the retry
\* after taking the lock saw to it: two threads that both found the region
\* full do not map one each.
RetiredRegionIsFull ==
  \A t \in Thread :
    pc[t] = "retire" => region_pos = 0 \/ region_pos + reg[t].size > region_end

\* Descriptors of the stack depot never share memory and lie in superblocks,
\* although region_pos and region_end are loaded apart; a superblock is given up
\* only when it is full (sanitizer_stackdepot.cc:66-100).
DescriptorsAreDisjoint ==
  TypeOK /\ BlocksDisjoint /\ BlocksMapped /\ PosAndEndMatch /\ RetiredRegionIsFull
=============================================================================
