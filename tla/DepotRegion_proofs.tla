-------------------------- MODULE DepotRegion_proofs --------------------------
(***************************************************************************)
(* Proofs, for any set of threads, sizes of descriptors, size of a         *)
(* superblock and address space, that the bump allocator of DepotRegion    *)
(* hands out disjoint memory as long as mmap leaves a gap between the      *)
(* superblocks.  Adjacent = TRUE is no corner the proofs leave out for     *)
(* convenience: DepotRegionAdjacent.cfg shows two descriptors that overlap.*)
(***************************************************************************)
EXTENDS DepotRegion, TLAPS

\* The thread between the locker's constructor and destructor in allocDesc.
Holding(t) == pc[t] # "idle" /\ reg[t].locked

\* depot.mtx has one holder, and what only the locked path does is done by it.
LockIsExclusive ==
  /\ \A t \in Thread : Holding(t) => mtx
  /\ \A t, u \in Thread : Holding(t) /\ Holding(u) => t = u
  /\ \A t \in Thread :
       /\ pc[t] \in {"retire", "mmap", "store_end", "store_pos", "unlock"} => reg[t].locked
       /\ pc[t] = "lock" => ~reg[t].locked
       /\ pc[t] # "idle" => reg[t].size \in Sizes

\* Superblocks do not even touch: an address that is a position of one, its end
\* included, is a position of no other.
SuperblocksApart ==
  /\ \A m \in mapped : m.lo < m.hi
  /\ \A m, n \in mapped : m # n => m.hi < n.lo \/ n.hi < m.lo

\* The superblock that the holder of the lock has mapped and not published.
Pending(t) == Span(reg[t].mem, SuperblockSize(reg[t].size))

\* Until StorePos nothing can be allocated, and nothing has been from the
\* superblock that StorePos publishes.
ReplacementIsFresh ==
  \A t \in Thread :
    /\ pc[t] \in {"mmap", "store_end", "store_pos"} => region_pos = 0
    /\ pc[t] \in {"store_end", "store_pos"} =>
         /\ Pending(t) \in mapped
         /\ \A x \in blocks : Disjoint(x, Pending(t))
    /\ pc[t] = "store_pos" => region_end = Pending(t).hi

Within(pos, m) == m.lo <= pos /\ pos <= m.hi

\* A position that a thread has loaded lies in a superblock that is not pending;
\* so if region_pos is in that superblock at the CAS, it has been all along, and
\* the end the thread compared with is the end of it.
LoadedPosIsOld ==
  \A t \in Thread : pc[t] \in {"load_end", "cas"} /\ reg[t].cmp # 0 =>
    /\ \E m \in mapped : Within(reg[t].cmp, m)
    /\ \A u \in Thread : pc[u] \in {"store_end", "store_pos"} => ~Within(reg[t].cmp, Pending(u))

CasHasRoom ==
  \A t \in Thread : pc[t] = "cas" =>
    /\ reg[t].cmp # 0
    /\ \A m \in mapped :
         Within(reg[t].cmp, m) /\ Within(region_pos, m) => reg[t].cmp + reg[t].size <= m.hi

\* With the lock held no one replaces the region: positions only go up.
LockedPosGoesUp ==
  \A t \in Thread : pc[t] = "load_end" /\ reg[t].locked =>
    \/ region_pos = 0
    \/ reg[t].cmp # 0 /\ reg[t].cmp <= region_pos

Inv ==
  /\ DescriptorsAreDisjoint
  /\ LockIsExclusive /\ SuperblocksApart /\ ReplacementIsFresh
  /\ LoadedPosIsOld /\ CasHasRoom /\ LockedPosGoesUp

-----------------------------------------------------------------------------
(* The operators.                                                           *)

\* A superblock holds the descriptor it is mapped for.
LEMMA SuperblockFits ==
  ASSUME NEW size \in Sizes
  PROVE  /\ size \in Nat \ {0}
         /\ SuperblockSize(size) \in Nat \ {0}
         /\ size <= SuperblockSize(size)
  BY RegionAssumption DEF SuperblockSize

\* Inside a call the locals are of the call: the size is one asked for.
LEMMA SizeIsAsked ==
  ASSUME TypeOK, LockIsExclusive, NEW t \in Thread, pc[t] # "idle"
  PROVE  /\ reg[t].size \in Sizes /\ reg[t].size \in Nat \ {0}
         /\ SuperblockSize(reg[t].size) \in Nat \ {0}
         /\ reg[t].size <= SuperblockSize(reg[t].size)
         /\ reg[t].cmp \in Nat /\ reg[t].mem \in Nat
  BY SuperblockFits DEF TypeOK, LockIsExclusive

\* A position is in one superblock at most.
LEMMA OneSuperblock ==
  ASSUME TypeOK, SuperblocksApart, NEW pos \in Nat,
         NEW m \in mapped, NEW n \in mapped, Within(pos, m), Within(pos, n)
  PROVE  m = n
  BY DEF TypeOK, SuperblocksApart, Within, Interval

-----------------------------------------------------------------------------
LEMMA InitEstablishesInv == Init => Inv
<1> SUFFICES ASSUME Init PROVE Inv
  OBVIOUS
<1>1. 0 \in 0 .. AddressTop
  BY RegionAssumption
<1>2. TypeOK
  BY <1>1 DEF Init, TypeOK, NoCall, Label
<1>3. DescriptorsAreDisjoint
  BY <1>2
  DEF Init, DescriptorsAreDisjoint, BlocksDisjoint, BlocksMapped, PosAndEndMatch,
      RetiredRegionIsFull
<1>4. QED
  BY <1>3 DEF Init, Inv, LockIsExclusive, Holding, SuperblocksApart, ReplacementIsFresh,
              LoadedPosIsOld, CasHasRoom, LockedPosGoesUp

-----------------------------------------------------------------------------
(* What a step of one thread leaves as it was.                              *)

Locals == [size : Sizes \cup {0}, cmp : 0 .. AddressTop, mem : 0 .. AddressTop, locked : BOOLEAN]

LEMMA ThreadMoves ==
  ASSUME TypeOK, NEW t \in Thread, NEW label \in Label, Goto(t, label),
         NEW r \in Locals, reg' = [reg EXCEPT ![t] = r]
  PROVE  /\ pc' \in [Thread -> Label] /\ reg' \in [Thread -> Locals]
         /\ pc'[t] = label /\ reg'[t] = r
         /\ \A u \in Thread \ {t} : pc'[u] = pc[u] /\ reg'[u] = reg[u]
  BY DEF TypeOK, Goto, Locals

LEMMA ThreadKeepsLocals ==
  ASSUME TypeOK, NEW t \in Thread, NEW label \in Label, Goto(t, label), UNCHANGED reg
  PROVE  /\ pc' \in [Thread -> Label] /\ reg' \in [Thread -> Locals]
         /\ pc'[t] = label
         /\ \A u \in Thread \ {t} : pc'[u] = pc[u]
         /\ \A u \in Thread : reg'[u] = reg[u]
  BY DEF TypeOK, Goto, Locals

LEMMA SetIsUpdate ==
  ASSUME TypeOK, NEW t \in Thread, NEW v
  PROVE  /\ v \in 0 .. AddressTop /\ Set(t, "cmp", v) =>
              /\ [reg[t] EXCEPT !.cmp = v] \in Locals
              /\ reg' = [reg EXCEPT ![t] = [reg[t] EXCEPT !.cmp = v]]
         /\ v \in 0 .. AddressTop /\ Set(t, "mem", v) =>
              /\ [reg[t] EXCEPT !.mem = v] \in Locals
              /\ reg' = [reg EXCEPT ![t] = [reg[t] EXCEPT !.mem = v]]
         /\ v \in BOOLEAN /\ Set(t, "locked", v) =>
              /\ [reg[t] EXCEPT !.locked = v] \in Locals
              /\ reg' = [reg EXCEPT ![t] = [reg[t] EXCEPT !.locked = v]]
  BY DEF TypeOK, Set, Locals

LEMMA CallKeepsInv ==
  ASSUME Inv, NEW t \in Thread, NEW size \in Sizes, Call(t, size)
  PROVE  Inv'
<1> DEFINE r == [NoCall EXCEPT !.size = size]
<1>1. TypeOK /\ r \in Locals /\ "load_pos" \in Label
  <2>1. 0 \in 0 .. AddressTop
    BY RegionAssumption
  <2>2. NoCall \in Locals
    BY <2>1 DEF NoCall, Locals
  <2>3. QED BY <2>2 DEF Inv, DescriptorsAreDisjoint, Locals, Label
<1>2. /\ Goto(t, "load_pos") /\ reg' = [reg EXCEPT ![t] = r]
      /\ UNCHANGED <<region_pos, region_end, mtx, mapped, blocks>>
  BY DEF Call
<1>3. /\ pc' \in [Thread -> Label] /\ reg' \in [Thread -> Locals]
      /\ pc'[t] = "load_pos" /\ reg'[t] = r
      /\ \A u \in Thread \ {t} : pc'[u] = pc[u] /\ reg'[u] = reg[u]
  BY <1>1, <1>2, ThreadMoves
<1>4. reg'[t].size = size /\ reg'[t].locked = FALSE
  BY <1>3 DEF NoCall
<1> HIDE DEF r
<1>5. TypeOK'
  BY <1>1, <1>2, <1>3 DEF TypeOK, Locals
<1>6. DescriptorsAreDisjoint'
  BY <1>2, <1>3, <1>4, <1>5
  DEF Inv, DescriptorsAreDisjoint, BlocksDisjoint, BlocksMapped, PosAndEndMatch, RetiredRegionIsFull
<1>7. LockIsExclusive'
  BY <1>2, <1>3, <1>4 DEF Inv, LockIsExclusive, Holding
<1>8. (SuperblocksApart /\ ReplacementIsFresh)'
  BY <1>2, <1>3, <1>4 DEF Inv, SuperblocksApart, ReplacementIsFresh, Pending
<1>9. (LoadedPosIsOld /\ CasHasRoom /\ LockedPosGoesUp)'
  BY <1>2, <1>3, <1>4 DEF Inv, LoadedPosIsOld, CasHasRoom, LockedPosGoesUp, Pending
<1>10. QED BY <1>6, <1>7, <1>8, <1>9 DEF Inv

\* The position that is loaded is one of a superblock, and of no pending one.
LEMMA LoadPosKeepsInv ==
  ASSUME Inv, NEW t \in Thread, LoadPos(t)
  PROVE  Inv'
<1> DEFINE r == [reg[t] EXCEPT !.cmp = region_pos]
<1>1. TypeOK /\ "load_end" \in Label
  BY DEF Inv, DescriptorsAreDisjoint, Label
<1>2. /\ pc[t] = "load_pos" /\ Goto(t, "load_end") /\ r \in Locals /\ reg' = [reg EXCEPT ![t] = r]
      /\ UNCHANGED <<region_pos, region_end, mtx, mapped, blocks>>
  BY <1>1, SetIsUpdate DEF LoadPos, TypeOK
<1>3. /\ pc' \in [Thread -> Label] /\ reg' \in [Thread -> Locals]
      /\ pc'[t] = "load_end" /\ reg'[t] = r
      /\ \A u \in Thread \ {t} : pc'[u] = pc[u] /\ reg'[u] = reg[u]
  BY <1>1, <1>2, ThreadMoves
<1>4. /\ reg'[t].size = reg[t].size /\ reg'[t].locked = reg[t].locked
      /\ reg'[t].cmp = region_pos
  BY <1>1, <1>3 DEF TypeOK
<1> HIDE DEF r
<1>5. TypeOK'
  BY <1>1, <1>2, <1>3 DEF TypeOK, Locals
<1>6. DescriptorsAreDisjoint'
  BY <1>2, <1>3, <1>4, <1>5
  DEF Inv, DescriptorsAreDisjoint, BlocksDisjoint, BlocksMapped, PosAndEndMatch, RetiredRegionIsFull
<1>7. LockIsExclusive'
  BY <1>2, <1>3, <1>4 DEF Inv, LockIsExclusive, Holding
<1>8. (SuperblocksApart /\ ReplacementIsFresh)'
  BY <1>2, <1>3, <1>4 DEF Inv, SuperblocksApart, ReplacementIsFresh, Pending
<1>9. LoadedPosIsOld'
  <2>1. region_pos # 0 => /\ \E m \in mapped : Within(region_pos, m)
                          /\ \A u \in Thread : pc[u] \notin {"store_end", "store_pos"}
    BY DEF Inv, DescriptorsAreDisjoint, PosAndEndMatch, ReplacementIsFresh, Within
  <2>2. QED BY <1>2, <1>3, <1>4, <2>1 DEF Inv, LoadedPosIsOld, Pending
<1>10. (CasHasRoom /\ LockedPosGoesUp)'
  BY <1>1, <1>2, <1>3, <1>4 DEF Inv, CasHasRoom, LockedPosGoesUp, TypeOK
<1>11. QED BY <1>6, <1>7, <1>8, <1>9, <1>10 DEF Inv

\* The end that is loaded is the end of the superblock of cmp if region_pos is in
\* it; with the lock, a region found full stays full.
LEMMA LoadEndKeepsInv ==
  ASSUME Inv, NEW t \in Thread, LoadEnd(t)
  PROVE  Inv'
<1> DEFINE room == reg[t].cmp # 0 /\ reg[t].cmp + reg[t].size <= region_end
           label == IF room THEN "cas" ELSE IF reg[t].locked THEN "retire" ELSE "lock"
<1>1. TypeOK /\ label \in Label
  BY DEF Inv, DescriptorsAreDisjoint, Label
<1>2. /\ pc[t] = "load_end" /\ Goto(t, label)
      /\ UNCHANGED <<region_pos, region_end, mtx, mapped, blocks, reg>>
  BY DEF LoadEnd, AfterLoadEnd
<1>3. /\ pc' \in [Thread -> Label] /\ reg' \in [Thread -> Locals]
      /\ pc'[t] = label
      /\ \A u \in Thread \ {t} : pc'[u] = pc[u]
  BY <1>1, <1>2, ThreadKeepsLocals
<1>4. label = "cas" <=> room
  OBVIOUS
<1>5. label = "retire" => ~room /\ reg[t].locked
  OBVIOUS
<1>6. label = "lock" => ~reg[t].locked
  OBVIOUS
<1>7. label \in {"cas", "retire", "lock"}
  OBVIOUS
<1>8. reg[t].size \in Nat \ {0} /\ reg[t].cmp \in Nat
  BY <1>1, <1>2, SizeIsAsked DEF Inv
<1> HIDE DEF label
<1>9. TypeOK'
  BY <1>1, <1>2, <1>3 DEF TypeOK, Locals
<1>10. RetiredRegionIsFull'
  <2>1. label = "retire" => region_pos = 0 \/ region_pos + reg[t].size > region_end
    BY <1>1, <1>2, <1>5, <1>8 DEF Inv, LockedPosGoesUp, TypeOK
  <2>2. QED
    BY <1>2, <1>3, <2>1 DEF Inv, DescriptorsAreDisjoint, RetiredRegionIsFull
<1>11. DescriptorsAreDisjoint'
  BY <1>2, <1>9, <1>10
  DEF Inv, DescriptorsAreDisjoint, BlocksDisjoint, BlocksMapped, PosAndEndMatch
<1>12. LockIsExclusive'
  BY <1>2, <1>3, <1>5, <1>6, <1>7 DEF Inv, LockIsExclusive, Holding
<1>13. (SuperblocksApart /\ ReplacementIsFresh /\ LoadedPosIsOld /\ LockedPosGoesUp)'
  BY <1>2, <1>3, <1>7
  DEF Inv, SuperblocksApart, ReplacementIsFresh, LoadedPosIsOld, LockedPosGoesUp, Pending
<1>14. CasHasRoom'
  <2>1. ASSUME room, NEW m \in mapped, Within(reg[t].cmp, m), Within(region_pos, m)
        PROVE  reg[t].cmp + reg[t].size <= m.hi
    <3>1. region_pos # 0
      BY <1>1, <2>1 DEF TypeOK, Interval, Within
    <3>2. PICK n \in mapped : Within(region_pos, n) /\ n.hi = region_end
      BY <3>1 DEF Inv, DescriptorsAreDisjoint, PosAndEndMatch, Within
    <3>3. m = n
      BY <1>1, <2>1, <3>2, OneSuperblock DEF Inv, TypeOK
    <3>4. QED BY <2>1, <3>2, <3>3
  <2>2. QED BY <1>2, <1>3, <1>4, <2>1 DEF Inv, CasHasRoom
<1>15. QED BY <1>11, <1>12, <1>13, <1>14 DEF Inv

\* A CAS that finds region_pos unchanged takes memory between region_pos and the
\* end of its superblock, which is free.
LEMMA CasKeepsInv ==
  ASSUME Inv, NEW t \in Thread, Cas(t), region_pos = reg[t].cmp,
         region_pos' = reg[t].cmp + reg[t].size,
         blocks' = blocks \cup {Span(reg[t].cmp, reg[t].size)},
         Goto(t, IF reg[t].locked THEN "unlock" ELSE "idle")
  PROVE  Inv'
<1> DEFINE label == IF reg[t].locked THEN "unlock" ELSE "idle"
           new == Span(reg[t].cmp, reg[t].size)
<1>1. TypeOK /\ label \in Label
  BY DEF Inv, DescriptorsAreDisjoint, Label
<1>2. /\ pc[t] = "cas" /\ Goto(t, label)
      /\ UNCHANGED <<region_end, mtx, mapped, reg>>
  BY DEF Cas
<1>3. /\ pc' \in [Thread -> Label] /\ reg' \in [Thread -> Locals]
      /\ pc'[t] = label
      /\ \A u \in Thread \ {t} : pc'[u] = pc[u]
  BY <1>1, <1>2, ThreadKeepsLocals
<1>4. label = "unlock" => reg[t].locked
  OBVIOUS
<1>5. label = "idle" => ~reg[t].locked
  OBVIOUS
<1>6. label \in {"unlock", "idle"}
  OBVIOUS
<1>7. reg[t].size \in Nat \ {0} /\ reg[t].cmp \in Nat /\ region_pos # 0
  BY <1>1, <1>2, SizeIsAsked DEF Inv, CasHasRoom
<1>8. PICK m \in mapped : Within(region_pos, m) /\ m.hi = region_end
  BY <1>7 DEF Inv, DescriptorsAreDisjoint, PosAndEndMatch, Within
<1>9. region_pos' <= m.hi /\ region_pos < region_pos' /\ Within(region_pos', m)
  BY <1>1, <1>2, <1>7, <1>8 DEF Inv, CasHasRoom, Within, TypeOK, Interval
<1>10. /\ new \in Interval /\ new.lo = region_pos /\ new.hi = region_pos'
       /\ \A x \in blocks : Disjoint(x, new) /\ Disjoint(new, x)
       /\ \A x \in blocks : x.hi <= region_pos' \/ region_end <= x.lo
  <2>1. new.lo = region_pos /\ new.hi = region_pos'
    BY DEF Span
  <2>2. new = [lo |-> region_pos, hi |-> region_pos'] /\ m \in Interval
    BY <1>1 DEF Span, TypeOK
  <2>3. region_pos \in 1 .. AddressTop /\ region_pos' \in 1 .. AddressTop
    <3>1. m.hi \in 1 .. AddressTop
      BY <2>2 DEF Interval
    <3>2. region_pos \in Nat \ {0} /\ region_pos' \in Nat
      BY <1>1, <1>7 DEF TypeOK
    <3>3. QED BY <1>9, <3>1, <3>2, RegionAssumption
  <2>4. \A x \in blocks : x.hi <= region_pos \/ region_end <= x.lo
    BY <1>7 DEF Inv, DescriptorsAreDisjoint, PosAndEndMatch
  <2>5. \A x \in blocks : x.lo \in Nat /\ x.hi \in Nat
    BY <1>1 DEF TypeOK, Interval
  <2> HIDE DEF new
  <2>6. QED
    BY <1>8, <1>9, <2>1, <2>2, <2>3, <2>4, <2>5 DEF Interval, Disjoint, Within
<1>11. blocks' = blocks \cup {new} /\ UNCHANGED <<region_end, mtx, mapped, reg>>
  BY <1>2
<1> HIDE DEF label, new
<1>12. TypeOK'
  BY <1>1, <1>3, <1>8, <1>9, <1>10, <1>11 DEF TypeOK, Locals, Interval
<1>13. (BlocksDisjoint /\ BlocksMapped)'
  BY <1>8, <1>9, <1>10, <1>11
  DEF Inv, DescriptorsAreDisjoint, BlocksDisjoint, BlocksMapped, Disjoint, Within, TypeOK, Interval
<1>14. PosAndEndMatch'
  BY <1>1, <1>8, <1>9, <1>10, <1>11 DEF PosAndEndMatch, Within, TypeOK, Interval
<1>15. RetiredRegionIsFull'
  <2>1. ASSUME NEW u \in Thread, pc'[u] = "retire"
        PROVE  region_pos' + reg[u].size > region_end
    <3>1. pc[u] = "retire"
      BY <1>3, <1>6, <2>1
    <3>2. reg[u].size \in Nat /\ region_pos + reg[u].size > region_end
      BY <1>1, <1>7, <3>1, SizeIsAsked DEF Inv, DescriptorsAreDisjoint, RetiredRegionIsFull
    <3>3. QED BY <1>1, <1>9, <1>12, <3>2 DEF TypeOK
  <2>2. QED BY <1>11, <2>1 DEF RetiredRegionIsFull
<1>16. LockIsExclusive'
  BY <1>2, <1>3, <1>4, <1>5, <1>6, <1>11 DEF Inv, LockIsExclusive, Holding
<1>17. (SuperblocksApart /\ ReplacementIsFresh)'
  BY <1>3, <1>6, <1>7, <1>11 DEF Inv, SuperblocksApart, ReplacementIsFresh, Pending
<1>18. LoadedPosIsOld'
  BY <1>3, <1>6, <1>11 DEF Inv, LoadedPosIsOld, Pending
<1>19. CasHasRoom'
  <2>1. ASSUME NEW u \in Thread, pc[u] = "cas", NEW n \in mapped,
               Within(reg[u].cmp, n), Within(region_pos', n)
        PROVE  reg[u].cmp + reg[u].size <= n.hi
    <3>1. n = m
      BY <1>1, <1>8, <1>9, <1>12, <2>1, OneSuperblock DEF Inv, TypeOK
    <3>2. QED BY <1>8, <2>1, <3>1 DEF Inv, CasHasRoom
  <2>2. QED BY <1>3, <1>6, <1>11, <2>1 DEF Inv, CasHasRoom
<1>20. LockedPosGoesUp'
  <2>1. ASSUME NEW u \in Thread, pc[u] = "load_end", reg[u].locked
        PROVE  reg[u].cmp # 0 /\ reg[u].cmp <= region_pos'
    BY <1>1, <1>7, <1>9, <1>12, <2>1 DEF Inv, LockedPosGoesUp, TypeOK
  <2>2. QED BY <1>3, <1>6, <1>11, <2>1 DEF LockedPosGoesUp
<1>21. QED
  BY <1>12, <1>13, <1>14, <1>15, <1>16, <1>17, <1>18, <1>19, <1>20
  DEF Inv, DescriptorsAreDisjoint

\* Steps that only move a thread: a CAS that failed, and unlocking.
LEMMA CasFailsKeepsInv ==
  ASSUME Inv, NEW t \in Thread, pc[t] = "cas", Goto(t, "load_pos"),
         UNCHANGED <<region_pos, region_end, mtx, mapped, blocks, reg>>
  PROVE  Inv'
<1>1. TypeOK /\ "load_pos" \in Label
  BY DEF Inv, DescriptorsAreDisjoint, Label
<1>2. /\ pc' \in [Thread -> Label] /\ pc'[t] = "load_pos"
      /\ \A u \in Thread \ {t} : pc'[u] = pc[u]
  BY <1>1, ThreadKeepsLocals
<1>3. DescriptorsAreDisjoint'
  BY <1>1, <1>2
  DEF Inv, DescriptorsAreDisjoint, TypeOK, BlocksDisjoint, BlocksMapped, PosAndEndMatch,
      RetiredRegionIsFull
<1>4. LockIsExclusive'
  BY <1>2 DEF Inv, LockIsExclusive, Holding
<1>5. (SuperblocksApart /\ ReplacementIsFresh /\ LoadedPosIsOld /\ CasHasRoom /\ LockedPosGoesUp)'
  BY <1>2
  DEF Inv, SuperblocksApart, ReplacementIsFresh, LoadedPosIsOld, CasHasRoom, LockedPosGoesUp, Pending
<1>6. QED BY <1>3, <1>4, <1>5 DEF Inv

\* Lock: the lock is free, so nobody holds it.
LEMMA LockKeepsInv ==
  ASSUME Inv, NEW t \in Thread, Lock(t)
  PROVE  Inv'
<1> DEFINE r == [reg[t] EXCEPT !.locked = TRUE]
<1>1. TypeOK /\ "load_pos" \in Label
  BY DEF Inv, DescriptorsAreDisjoint, Label
<1>2. /\ pc[t] = "lock" /\ ~mtx /\ mtx' = TRUE /\ Goto(t, "load_pos")
      /\ r \in Locals /\ reg' = [reg EXCEPT ![t] = r]
      /\ UNCHANGED <<region_pos, region_end, mapped, blocks>>
  BY <1>1, SetIsUpdate DEF Lock
<1>3. /\ pc' \in [Thread -> Label] /\ reg' \in [Thread -> Locals]
      /\ pc'[t] = "load_pos" /\ reg'[t] = r
      /\ \A u \in Thread \ {t} : pc'[u] = pc[u] /\ reg'[u] = reg[u]
  BY <1>1, <1>2, ThreadMoves
<1>4. reg'[t].size = reg[t].size /\ reg'[t].locked = TRUE
  BY <1>1, <1>3 DEF TypeOK
<1> HIDE DEF r
<1>5. TypeOK'
  BY <1>1, <1>2, <1>3 DEF TypeOK, Locals
<1>6. DescriptorsAreDisjoint'
  BY <1>2, <1>3, <1>4, <1>5
  DEF Inv, DescriptorsAreDisjoint, BlocksDisjoint, BlocksMapped, PosAndEndMatch, RetiredRegionIsFull
<1>7. LockIsExclusive'
  BY <1>2, <1>3, <1>4 DEF Inv, LockIsExclusive, Holding
<1>8. (SuperblocksApart /\ ReplacementIsFresh)'
  BY <1>2, <1>3, <1>4 DEF Inv, SuperblocksApart, ReplacementIsFresh, Pending
<1>9. (LoadedPosIsOld /\ CasHasRoom /\ LockedPosGoesUp)'
  BY <1>2, <1>3, <1>4 DEF Inv, LoadedPosIsOld, CasHasRoom, LockedPosGoesUp, Pending
<1>10. QED BY <1>6, <1>7, <1>8, <1>9 DEF Inv

\* Retire: no CAS can succeed from here on, as none expects 0.
LEMMA RetireKeepsInv ==
  ASSUME Inv, NEW t \in Thread, Retire(t)
  PROVE  Inv'
<1>1. TypeOK /\ "mmap" \in Label
  BY DEF Inv, DescriptorsAreDisjoint, Label
<1>2. /\ pc[t] = "retire" /\ region_pos' = 0 /\ Goto(t, "mmap")
      /\ UNCHANGED <<region_end, mtx, mapped, blocks, reg>>
  BY DEF Retire
<1>3. /\ pc' \in [Thread -> Label] /\ reg' \in [Thread -> Locals]
      /\ pc'[t] = "mmap" /\ \A u \in Thread \ {t} : pc'[u] = pc[u]
  BY <1>1, <1>2, ThreadKeepsLocals
<1>4. TypeOK'
  <2>1. 0 \in 0 .. AddressTop
    BY RegionAssumption
  <2>2. QED BY <1>1, <1>2, <1>3, <2>1 DEF TypeOK, Locals
<1>5. DescriptorsAreDisjoint'
  BY <1>2, <1>3, <1>4
  DEF Inv, DescriptorsAreDisjoint, BlocksDisjoint, BlocksMapped, PosAndEndMatch, RetiredRegionIsFull
<1>6. LockIsExclusive'
  BY <1>2, <1>3 DEF Inv, LockIsExclusive, Holding
<1>7. (SuperblocksApart /\ ReplacementIsFresh /\ LoadedPosIsOld /\ LockedPosGoesUp)'
  BY <1>2, <1>3
  DEF Inv, SuperblocksApart, ReplacementIsFresh, LoadedPosIsOld, LockedPosGoesUp, Pending
<1>8. CasHasRoom'
  <2>1. \A m \in mapped : ~Within(0, m)
    BY <1>1 DEF TypeOK, Interval, Within
  <2>2. QED BY <1>2, <1>3, <2>1 DEF Inv, CasHasRoom
<1>9. QED BY <1>5, <1>6, <1>7, <1>8 DEF Inv

\* The new superblock leaves a gap to all others, so no loaded position is in it.
LEMMA MmapKeepsInv ==
  ASSUME ~Adjacent, Inv, NEW t \in Thread, Mmap(t)
  PROVE  Inv'
<1> DEFINE size == SuperblockSize(reg[t].size)
<1>1. /\ TypeOK /\ "store_end" \in Label /\ pc[t] = "mmap" /\ Goto(t, "store_end")
      /\ UNCHANGED <<region_pos, region_end, mtx, blocks>>
  BY DEF Inv, DescriptorsAreDisjoint, Label, Mmap
<1>2. PICK lo \in 1 .. AddressTop - size :
        /\ \A m \in mapped : Disjoint(m, Span(lo, size)) /\ lo + size # m.lo /\ lo # m.hi
        /\ mapped' = mapped \cup {Span(lo, size)} /\ Set(t, "mem", lo)
  BY DEF Mmap
<1> DEFINE r == [reg[t] EXCEPT !.mem = lo]
           new == Span(lo, size)
<1>3. size \in Nat \ {0} /\ lo \in Nat \ {0} /\ lo + size <= AddressTop
  BY <1>1, SizeIsAsked, RegionAssumption DEF Inv
<1>4. /\ r \in Locals /\ reg' = [reg EXCEPT ![t] = r]
  <2>1. lo \in 0 .. AddressTop
    BY <1>3, RegionAssumption
  <2>2. QED BY <1>1, <1>2, <2>1, SetIsUpdate
<1>5. /\ pc' \in [Thread -> Label] /\ reg' \in [Thread -> Locals]
      /\ pc'[t] = "store_end" /\ reg'[t] = r
      /\ \A u \in Thread \ {t} : pc'[u] = pc[u] /\ reg'[u] = reg[u]
  BY <1>1, <1>4, ThreadMoves
<1>6. reg'[t].size = reg[t].size /\ reg'[t].locked = reg[t].locked /\ reg'[t].mem = lo
  BY <1>1, <1>5 DEF TypeOK
<1>7. Pending(t)' = new /\ mapped' = mapped \cup {new} /\ new \in Interval
  BY <1>2, <1>3, <1>6, RegionAssumption DEF Pending, Span, Interval
<1>8. new.lo < new.hi /\ \A m \in mapped : m.hi < new.lo \/ new.hi < m.lo
  BY <1>1, <1>2, <1>3 DEF TypeOK, Interval, Span, Disjoint
<1>9. /\ reg[t].locked /\ region_pos = 0
      /\ \A u \in Thread \ {t} : pc[u] \notin {"retire", "mmap", "store_end", "store_pos", "unlock"}
  BY <1>1 DEF Inv, LockIsExclusive, Holding, ReplacementIsFresh
<1> HIDE DEF r, new, size
<1>10. TypeOK'
  BY <1>1, <1>5, <1>7 DEF TypeOK, Locals
<1>11. DescriptorsAreDisjoint'
  BY <1>1, <1>5, <1>7, <1>9, <1>10
  DEF Inv, DescriptorsAreDisjoint, BlocksDisjoint, BlocksMapped, PosAndEndMatch, RetiredRegionIsFull
<1>12. LockIsExclusive'
  BY <1>1, <1>5, <1>6, <1>9 DEF Inv, LockIsExclusive, Holding
<1>13. SuperblocksApart'
  BY <1>7, <1>8 DEF Inv, SuperblocksApart
<1>14. ReplacementIsFresh'
  <2>1. \A x \in blocks : Disjoint(x, new)
    BY <1>1, <1>7, <1>8 DEF Inv, DescriptorsAreDisjoint, BlocksMapped, Disjoint, TypeOK, Interval
  <2>2. QED BY <1>1, <1>5, <1>7, <1>9, <2>1 DEF ReplacementIsFresh
<1>15. LoadedPosIsOld'
  <2>1. ASSUME NEW u \in Thread \ {t}, pc[u] \in {"load_end", "cas"}, reg[u].cmp # 0
        PROVE  (\E m \in mapped : Within(reg[u].cmp, m)) /\ ~Within(reg[u].cmp, new)
    <3>1. reg[u].cmp \in Nat
      BY <1>1 DEF TypeOK
    <3>2. PICK m \in mapped : Within(reg[u].cmp, m)
      BY <2>1 DEF Inv, LoadedPosIsOld
    <3>3. QED BY <1>1, <1>7, <1>8, <3>1, <3>2 DEF Within, TypeOK, Interval
  <2>2. QED BY <1>1, <1>5, <1>7, <1>9, <2>1 DEF LoadedPosIsOld
<1>16. CasHasRoom'
  <2>1. ~Within(0, new)
    BY <1>7 DEF Interval, Within
  <2>2. QED BY <1>1, <1>5, <1>7, <1>9, <2>1 DEF Inv, CasHasRoom
<1>17. LockedPosGoesUp'
  BY <1>1, <1>5, <1>9 DEF Inv, LockedPosGoesUp
<1>18. QED BY <1>11, <1>12, <1>13, <1>14, <1>15, <1>16, <1>17 DEF Inv

LEMMA StoreEndKeepsInv ==
  ASSUME Inv, NEW t \in Thread, StoreEnd(t)
  PROVE  Inv'
<1>1. /\ TypeOK /\ "store_pos" \in Label /\ pc[t] = "store_end" /\ Goto(t, "store_pos")
      /\ region_end' = reg[t].mem + SuperblockSize(reg[t].size)
      /\ UNCHANGED <<region_pos, mtx, mapped, blocks, reg>>
  BY DEF Inv, DescriptorsAreDisjoint, Label, StoreEnd
<1>2. /\ pc' \in [Thread -> Label] /\ reg' \in [Thread -> Locals]
      /\ pc'[t] = "store_pos" /\ \A u \in Thread \ {t} : pc'[u] = pc[u]
  BY <1>1, ThreadKeepsLocals
<1>3. region_end' = Pending(t).hi /\ Pending(t) \in mapped /\ region_pos = 0
  BY <1>1 DEF Inv, ReplacementIsFresh, Pending, Span
<1>4. \A u \in Thread \ {t} : pc[u] \notin {"retire", "mmap", "store_end", "store_pos", "unlock"}
  BY <1>1 DEF Inv, LockIsExclusive, Holding
<1>5. TypeOK'
  <2>1. region_end' \in 0 .. AddressTop
    BY <1>1, <1>3 DEF TypeOK, Interval
  <2>2. QED BY <1>1, <1>2, <2>1 DEF TypeOK, Locals
<1>6. DescriptorsAreDisjoint'
  BY <1>1, <1>2, <1>3, <1>4, <1>5
  DEF Inv, DescriptorsAreDisjoint, BlocksDisjoint, BlocksMapped, PosAndEndMatch, RetiredRegionIsFull
<1>7. LockIsExclusive'
  BY <1>1, <1>2 DEF Inv, LockIsExclusive, Holding
<1>8. (SuperblocksApart /\ LoadedPosIsOld /\ CasHasRoom /\ LockedPosGoesUp)'
  BY <1>1, <1>2 DEF Inv, SuperblocksApart, LoadedPosIsOld, CasHasRoom, LockedPosGoesUp, Pending
<1>9. ReplacementIsFresh'
  BY <1>1, <1>2, <1>3, <1>4 DEF Inv, ReplacementIsFresh, Pending
<1>10. QED BY <1>6, <1>7, <1>8, <1>9 DEF Inv

\* StorePos: the end is published already, and nothing of the superblock is taken.
LEMMA StorePosKeepsInv ==
  ASSUME Inv, NEW t \in Thread, StorePos(t)
  PROVE  Inv'
<1>1. /\ TypeOK /\ "load_pos" \in Label /\ pc[t] = "store_pos" /\ Goto(t, "load_pos")
      /\ region_pos' = reg[t].mem
      /\ UNCHANGED <<region_end, mtx, mapped, blocks, reg>>
  BY DEF Inv, DescriptorsAreDisjoint, Label, StorePos
<1>2. /\ pc' \in [Thread -> Label] /\ reg' \in [Thread -> Locals]
      /\ pc'[t] = "load_pos" /\ \A u \in Thread \ {t} : pc'[u] = pc[u]
  BY <1>1, ThreadKeepsLocals
<1>3. /\ Pending(t) \in mapped /\ region_pos' = Pending(t).lo /\ region_end = Pending(t).hi
      /\ \A x \in blocks : Disjoint(x, Pending(t))
  BY <1>1 DEF Inv, ReplacementIsFresh, Pending, Span
<1>4. /\ reg[t].locked
      /\ \A u \in Thread \ {t} : pc[u] \notin {"retire", "mmap", "store_end", "store_pos", "unlock"}
      /\ \A u \in Thread \ {t} : pc[u] = "load_end" => ~reg[u].locked
  BY <1>1 DEF Inv, LockIsExclusive, Holding
<1>5. TypeOK'
  BY <1>1, <1>2, <1>3 DEF TypeOK, Locals, Interval
<1>6. PosAndEndMatch'
  <2>1. Pending(t).lo \in Nat /\ Pending(t).lo < Pending(t).hi /\ Pending(t).hi \in Nat
    BY <1>1, <1>3 DEF Inv, SuperblocksApart, TypeOK, Interval
  <2>2. \A x \in blocks : x.hi <= Pending(t).lo \/ Pending(t).hi <= x.lo
    BY <1>1, <1>3 DEF Disjoint, TypeOK, Interval
  <2>3. QED BY <1>1, <1>3, <2>1, <2>2 DEF PosAndEndMatch
<1>7. DescriptorsAreDisjoint'
  BY <1>1, <1>2, <1>4, <1>5, <1>6
  DEF Inv, DescriptorsAreDisjoint, BlocksDisjoint, BlocksMapped, RetiredRegionIsFull
<1>8. LockIsExclusive'
  BY <1>1, <1>2, <1>4 DEF Inv, LockIsExclusive, Holding
<1>9. (SuperblocksApart /\ LoadedPosIsOld /\ ReplacementIsFresh /\ LockedPosGoesUp)'
  BY <1>1, <1>2, <1>4
  DEF Inv, SuperblocksApart, LoadedPosIsOld, ReplacementIsFresh, LockedPosGoesUp, Pending
<1>10. CasHasRoom'
  <2>1. ASSUME NEW u \in Thread, pc[u] = "cas", NEW m \in mapped,
               Within(reg[u].cmp, m), Within(region_pos', m)
        PROVE  FALSE
    <3>1. Within(region_pos', Pending(t))
      BY <1>1, <1>3 DEF Inv, SuperblocksApart, TypeOK, Interval, Within
    <3>2. m = Pending(t)
      BY <1>1, <1>3, <1>5, <2>1, <3>1, OneSuperblock DEF Inv, TypeOK
    <3>3. QED BY <1>1, <2>1, <3>2 DEF Inv, LoadedPosIsOld, CasHasRoom
  <2>2. QED BY <1>1, <1>2, <2>1 DEF Inv, CasHasRoom
<1>11. QED BY <1>7, <1>8, <1>9, <1>10 DEF Inv

LEMMA UnlockKeepsInv ==
  ASSUME Inv, NEW t \in Thread, Unlock(t)
  PROVE  Inv'
<1>1. /\ TypeOK /\ "idle" \in Label /\ pc[t] = "unlock" /\ mtx' = FALSE /\ Goto(t, "idle")
      /\ UNCHANGED <<region_pos, region_end, mapped, blocks, reg>>
  BY DEF Inv, DescriptorsAreDisjoint, Label, Unlock
<1>2. /\ pc' \in [Thread -> Label] /\ reg' \in [Thread -> Locals]
      /\ pc'[t] = "idle" /\ \A u \in Thread \ {t} : pc'[u] = pc[u]
  BY <1>1, ThreadKeepsLocals
<1>3. DescriptorsAreDisjoint'
  BY <1>1, <1>2
  DEF Inv, DescriptorsAreDisjoint, TypeOK, BlocksDisjoint, BlocksMapped, PosAndEndMatch,
      RetiredRegionIsFull
<1>4. LockIsExclusive'
  BY <1>1, <1>2 DEF Inv, LockIsExclusive, Holding
<1>5. (SuperblocksApart /\ ReplacementIsFresh /\ LoadedPosIsOld /\ CasHasRoom /\ LockedPosGoesUp)'
  BY <1>1, <1>2
  DEF Inv, SuperblocksApart, ReplacementIsFresh, LoadedPosIsOld, CasHasRoom, LockedPosGoesUp, Pending
<1>6. QED BY <1>3, <1>4, <1>5 DEF Inv

LEMMA NextKeepsInv == ~Adjacent /\ Inv /\ [Next]_vars => Inv'
<1> SUFFICES ASSUME ~Adjacent, Inv, [Next]_vars PROVE Inv'
  OBVIOUS
<1>1. CASE UNCHANGED vars
  BY <1>1
  DEF vars, Inv, DescriptorsAreDisjoint, TypeOK, BlocksDisjoint, BlocksMapped, PosAndEndMatch,
      RetiredRegionIsFull, LockIsExclusive, Holding, SuperblocksApart, ReplacementIsFresh,
      LoadedPosIsOld, CasHasRoom, LockedPosGoesUp, Pending
<1>2. ASSUME NEW t \in Thread, NEW size \in Sizes, Call(t, size) PROVE Inv'
  BY <1>2, CallKeepsInv
<1>3. ASSUME NEW t \in Thread, Continue(t) PROVE Inv'
  <2>1. CASE LoadPos(t)  BY <2>1, LoadPosKeepsInv
  <2>2. CASE LoadEnd(t)  BY <2>2, LoadEndKeepsInv
  <2>3. CASE Cas(t)      BY <2>3, CasKeepsInv, CasFailsKeepsInv DEF Cas
  <2>4. CASE Lock(t)     BY <2>4, LockKeepsInv
  <2>5. CASE Retire(t)   BY <2>5, RetireKeepsInv
  <2>6. CASE Mmap(t)     BY <2>6, MmapKeepsInv
  <2>7. CASE StoreEnd(t) BY <2>7, StoreEndKeepsInv
  <2>8. CASE StorePos(t) BY <2>8, StorePosKeepsInv
  <2>9. CASE Unlock(t)   BY <2>9, UnlockKeepsInv
  <2>10. QED BY <1>3, <2>1, <2>2, <2>3, <2>4, <2>5, <2>6, <2>7, <2>8, <2>9 DEF Continue
<1>4. QED BY <1>1, <1>2, <1>3 DEF Next

-----------------------------------------------------------------------------
\* However many threads allocate, and however a position loaded before the region
\* was replaced meets an end loaded after: no two descriptors share memory, each
\* lies in one superblock, and a superblock is retired only when it is full
\* (sanitizer_stackdepot.cc:66-100), as long as superblocks do not touch.
THEOREM DescriptorsStayDisjoint ==
  ASSUME ~Adjacent
  PROVE  Spec => []DescriptorsAreDisjoint
<1>1. Inv => DescriptorsAreDisjoint
  BY DEF Inv
<1>2. Inv /\ [Next]_vars => Inv'
  BY NextKeepsInv
<1>3. QED BY <1>1, <1>2, InitEstablishesInv, PTL DEF Spec
=============================================================================
