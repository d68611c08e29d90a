-------------------------- MODULE TsanRace_proofs --------------------------
(***************************************************************************)
(* Proofs, for any number of threads, slots, mutexes, atomics and cells,   *)
(* that the clocks of TsanRace cover what really happened before, that an  *)
(* epoch of a slot names one access although slots are reused, that a      *)
(* mutex is owned by its holder, and so that no report is a false alarm;   *)
(* that synch epochs are sound while there is no Release; and that a       *)
(* report names the right thread.                                          *)
(***************************************************************************)
EXTENDS TsanRace, SequenceTheorems, TLAPS

Status == {"invalid", "created", "running", "finished", "dead"}
At == {"idle", "call", "scan", "store", "evict", "report"}
Op == {"lock", "unlock", "read_lock", "read_unlock", "rw_unlock"}
AnyCell == Cell \cup AppMem
AnyRange == [addr0 : 0 .. 7, size : {1, 2, 4, 8}]
SlotIdx == 0 .. ShadowCnt - 1
Known == SUBSET (Tid \X Nat)

Word == [tid : Tid, epoch : Nat, range : AnyRange, write : BOOLEAN, uid : Nat, cell : AnyCell]
Context == [status : Status, uid : Nat, detached : BOOLEAN, sync : Clock, epoch0 : Nat, epoch1 : Nat]
Call == {NoCall} \cup [op : Op, addr : Mutex]
ThreadRec ==
  [epoch : Nat, synch : Nat, clock : Clock, at : At, call : Call,
   cur : Word \cup {Empty}, old : Word \cup {Empty}, idx : SlotIdx, stored : BOOLEAN]
SyncRec == [owner : Tid \cup {NoTid}, recursion : Nat, clock : Clock, read_clock : Clock]
HeldRec == [writer : Tid \cup {NoTid}, depth : Nat, readers : SUBSET Tid]

FieldsTyped ==
  /\ tctx \in [Tid -> Context] /\ thr \in [Tid -> ThreadRec]
  /\ threadSeq \in 1 .. MaxTid /\ uidSeq \in Nat \ {0} /\ deadList \in Seq(Tid)
  /\ sync \in [Addr -> SyncRec] /\ held \in [Mutex -> HeldRec]
  /\ shadow \in [AnyCell -> [SlotIdx -> Word \cup {Empty}]]
  /\ accesses \in [AnyCell -> SUBSET Word]
  /\ knows \in [Tid -> Known] /\ lifeKnows \in [Tid -> Known]
  /\ syncKnows \in [Addr -> [lock : Known, read : Known]]

Running(t) == tctx[t].status = "running"

\* Where a thread is in a call, and how far its epoch can be.
ThreadInStep(t) ==
  /\ ~Running(t) => thr[t].at = "idle" /\ tctx[t].epoch1 <= MaxEpoch
  /\ thr[t].at = "idle" <=> thr[t].call = NoCall /\ thr[t].at \notin {"scan", "store", "evict", "report"}
  /\ thr[t].synch <= thr[t].epoch
  /\ thr[t].epoch <= IF thr[t].at = "idle" THEN MaxEpoch + 1 ELSE MaxEpoch
  /\ tctx[t].epoch0 <= MaxEpoch + 1 /\ tctx[t].epoch1 <= Forever

\* A slot is taken again only after its thread is dead; a uid is given out once.
SlotsAreFree ==
  /\ Running(0)
  /\ \A t \in Tid : tctx[t].status = "invalid" <=> t >= threadSeq
  /\ \A i \in DOMAIN deadList :
       /\ tctx[deadList[i]].status = "dead"
       /\ \A j \in DOMAIN deadList : i # j => deadList[i] # deadList[j]
  /\ \A t \in Tid : tctx[t].uid < uidSeq
  /\ \A t, u \in Tid : t < threadSeq /\ u < threadSeq /\ tctx[t].uid = tctx[u].uid => t = u

\* The last epoch of a slot, which the next thread of the slot starts after.
Reached(t) == IF Running(t) THEN thr[t].epoch ELSE tctx[t].epoch1
Past(K) == \A id \in K : id[2] <= Reached(id[1])

AccessesArePast ==
  \A c \in AnyCell : \A a \in accesses[c] :
    /\ a.cell = c /\ a.epoch <= Reached(a.tid) /\ a.uid < uidSeq
    /\ \A t \in Tid : t < threadSeq /\ tctx[t].uid = a.uid => a.tid = t

KnowledgeIsPast ==
  /\ \A t \in Tid : Past(knows[t]) /\ Past(lifeKnows[t])
  /\ \A a \in Addr : Past(syncKnows[a].lock) /\ Past(syncKnows[a].read)

Covers(clock, K) == \A id \in K : id[2] <= clock[id[1]]
CoversOthers(clock, K, t) == \A id \in K : id[1] # t => id[2] <= clock[id[1]]

\* Every clock covers what was known where the clock came from.
ThreadsCover ==
  \A t \in Tid :
    /\ Running(t) => CoversOthers(thr[t].clock, knows[t], t)
    /\ tctx[t].status = "created" => CoversOthers(tctx[t].sync, lifeKnows[t], t)
    /\ tctx[t].status = "finished" => Covers(tctx[t].sync, lifeKnows[t])
SyncsCover ==
  \A a \in Addr : Covers(sync[a].clock, syncKnows[a].lock) /\ Covers(sync[a].read_clock, syncKnows[a].read)

\* The handler of the last lock of a mutex has still to run.
Pending(t, op, a) == thr[t].call = [op |-> op, addr |-> a]
Counted(a) ==
  IF held[a].writer # NoTid /\ Pending(held[a].writer, "lock", a) THEN held[a].depth - 1 ELSE held[a].depth

HolderHolds(a) ==
  /\ held[a].writer # NoTid => held[a].depth > 0 /\ held[a].readers = {} /\ Running(held[a].writer)
  /\ held[a].writer = NoTid => held[a].depth = 0
  /\ \A t \in held[a].readers : Running(t)
  /\ \A t \in Tid :
       /\ Pending(t, "lock", a) \/ Pending(t, "unlock", a) => held[a].writer = t
       /\ Pending(t, "read_lock", a) \/ Pending(t, "read_unlock", a) => t \in held[a].readers
       /\ Pending(t, "rw_unlock", a) => held[a].writer = t \/ t \in held[a].readers

\* What MutexLock and MutexUnlock record; the owner knows all that was released.
OwnerAgrees(a) ==
  /\ sync[a].recursion = Counted(a)
  /\ sync[a].owner = IF Counted(a) = 0 THEN NoTid ELSE held[a].writer
  /\ sync[a].owner # NoTid => syncKnows[a].lock \cup syncKnows[a].read \subseteq knows[sync[a].owner]

Scanning(t) == thr[t].at \in {"scan", "store", "evict", "report"}
\* What is in the shadow was accessed, and so was what a scan compares.
ShadowIsAccessed ==
  \A c \in AnyCell : \A i \in SlotIdx : shadow[c][i] = Empty \/ shadow[c][i] \in accesses[c]
ScansAreReal ==
  \A t \in Tid :
    LET cur == thr[t].cur
        old == thr[t].old
    IN
    /\ Scanning(t) => /\ cur \in Word /\ cur \in accesses[cur.cell]
                      /\ cur.tid = t /\ cur.uid = tctx[t].uid
    /\ thr[t].at = "report" => /\ old \in Word /\ old \in accesses[cur.cell] /\ old.tid # t
                               /\ Conflict(cur, old) /\ thr[t].clock[old.tid] < old.epoch

Inv ==
  /\ FieldsTyped /\ (\A t \in Tid : ThreadInStep(t)) /\ SlotsAreFree
  /\ AccessesArePast /\ EpochsAreUnique /\ KnowledgeIsPast
  /\ ThreadsCover /\ SyncsCover /\ \A a \in Mutex : HolderHolds(a) /\ OwnerAgrees(a)
  /\ ShadowIsAccessed /\ ScansAreReal /\ NoFalseAlarm

-----------------------------------------------------------------------------
(* Clocks.                                                                  *)

LEMMA TidsAreSlots ==
  /\ 0 \in Tid /\ NoTid \notin Tid /\ NoTid \in Nat /\ \A t \in Tid : t \in Nat
  /\ MaxEpoch \in Nat /\ MaxTid \in Nat /\ ZeroClock \in Clock
  BY RaceAssumption DEF Tid, NoTid, ZeroClock, Clock

LEMMA JoinCovers ==
  ASSUME NEW c \in Clock, NEW d \in Clock
  PROVE  /\ Join(c, d) \in Clock
         /\ \A K \in Known : Covers(c, K) \/ Covers(d, K) => Covers(Join(c, d), K)
         /\ \A K \in Known, t \in Tid :
              CoversOthers(c, K, t) \/ CoversOthers(d, K, t) => CoversOthers(Join(c, d), K, t)
<1>1. Join(c, d) \in Clock /\ \A i \in Tid : Join(c, d)[i] >= c[i] /\ Join(c, d)[i] >= d[i]
  BY DEF Join, Clock
<1>2. \A i \in Tid : c[i] \in Nat /\ d[i] \in Nat /\ Join(c, d)[i] \in Nat
  BY <1>1 DEF Clock
<1>3. \A K \in Known : \A id \in K : id[1] \in Tid /\ id[2] \in Nat
  BY DEF Known
<1>4. QED BY <1>1, <1>2, <1>3 DEF Covers, CoversOthers

\* With its own epoch in it, a thread's clock covers all it knows.
LEMMA OwnClockCovers ==
  ASSUME FieldsTyped, NEW t \in Tid, Running(t), Past(knows[t]), CoversOthers(thr[t].clock, knows[t], t)
  PROVE  /\ OwnClock(t) \in Clock /\ CurrentClock(t) \in Clock /\ Epoch(t) \in Nat
         /\ Covers(OwnClock(t), knows[t]) /\ Covers(CurrentClock(t), knows[t])
<1>1. thr[t].clock \in Clock /\ thr[t].epoch \in Nat
  BY DEF FieldsTyped, ThreadRec
<1>2. \A id \in knows[t] : id[1] \in Tid /\ id[2] \in Nat
  BY DEF FieldsTyped, Known
<1>3. \A id \in knows[t] : id[1] = t => id[2] <= thr[t].epoch
  BY DEF Past, Reached
<1>4. QED BY <1>1, <1>2, <1>3 DEF OwnClock, CurrentClock, Epoch, Covers, CoversOthers, Clock

LEMMA UnionCovers ==
  ASSUME NEW c, NEW K, NEW L, NEW t
  PROVE  /\ Covers(c, K) /\ Covers(c, L) => Covers(c, K \cup L)
         /\ CoversOthers(c, K, t) /\ CoversOthers(c, L, t) => CoversOthers(c, K \cup L, t)
         /\ Covers(c, K) => CoversOthers(c, K, t)
  BY DEF Covers, CoversOthers

-----------------------------------------------------------------------------
(* What a step that leaves a mutex, or the threads, alone keeps.            *)

LEMMA MutexIsLeftAlone ==
  ASSUME FieldsTyped, NEW a \in Mutex, HolderHolds(a), OwnerAgrees(a),
         held'[a] = held[a], syncKnows'[a] = syncKnows[a],
         sync'[a].owner = sync[a].owner, sync'[a].recursion = sync[a].recursion,
         \A u \in Tid, op \in Op : Pending(u, op, a)' <=> Pending(u, op, a),
         \A u \in Tid : held[a].writer = u \/ u \in held[a].readers => Running(u)' /\ knows[u] \subseteq knows'[u]
  PROVE  HolderHolds(a)' /\ OwnerAgrees(a)'
<1>1. held[a] \in HeldRec
  BY DEF FieldsTyped
<1>2. "lock" \in Op /\ "unlock" \in Op /\ "read_lock" \in Op /\ "read_unlock" \in Op /\ "rw_unlock" \in Op
  BY DEF Op
<1>3. HolderHolds(a)'
  BY <1>1, <1>2 DEF HolderHolds, HeldRec
<1>4. Counted(a)' = Counted(a)
  BY <1>1, <1>2 DEF Counted, HeldRec
<1>5. sync[a].owner # NoTid => sync[a].owner = held[a].writer /\ held[a].writer \in Tid
  BY <1>1 DEF OwnerAgrees, HeldRec
<1>6. OwnerAgrees(a)'
  BY <1>4, <1>5 DEF OwnerAgrees
<1>7. QED BY <1>3, <1>6

\* Epochs only go up, so what was past stays past.
LEMMA PastStays ==
  ASSUME FieldsTyped, FieldsTyped', \A u \in Tid : Reached(u) <= Reached(u)'
  PROVE  \A K \in Known : Past(K) => Past(K)'
<1>1. \A u \in Tid : Reached(u) \in Nat /\ Reached(u)' \in Nat
  BY DEF FieldsTyped, Reached, Context, ThreadRec
<1>2. \A K \in Known : \A id \in K : id[1] \in Tid /\ id[2] \in Nat
  BY DEF Known
<1>3. QED BY <1>1, <1>2 DEF Past

\* A handler of t that leaves contexts and shadow alone and ends the call.
Handles(t) ==
  /\ UNCHANGED <<threads, shadow, reports, lifeKnows, accesses>>
  /\ \A u \in Tid \ {t} : thr'[u] = thr[u] /\ knows'[u] = knows[u]
  /\ thr[t].epoch <= thr'[t].epoch /\ thr'[t].epoch <= MaxEpoch + 1
  /\ thr'[t].synch <= thr'[t].epoch
  /\ thr'[t].at = "idle" /\ thr'[t].call = NoCall

LEMMA HandlerKeepsInv ==
  ASSUME Inv, NEW t \in Tid, Running(t), Handles(t), FieldsTyped',
         Past(knows'[t]), \A a \in Addr : Past(syncKnows'[a].lock) /\ Past(syncKnows'[a].read),
         CoversOthers(thr'[t].clock, knows'[t], t), SyncsCover',
         \A a \in Mutex : HolderHolds(a)' /\ OwnerAgrees(a)'
  PROVE  Inv'
<1>1. /\ tctx' = tctx /\ threadSeq' = threadSeq /\ uidSeq' = uidSeq /\ deadList' = deadList
      /\ shadow' = shadow /\ reports' = reports /\ lifeKnows' = lifeKnows /\ accesses' = accesses
      /\ \A u \in Tid \ {t} : thr'[u] = thr[u] /\ knows'[u] = knows[u]
  BY DEF Handles, threads
<1>2. /\ \A u \in Tid : Running(u)' <=> Running(u)
      /\ \A u \in Tid : Reached(u) <= Reached(u)'
  <2>1. \A u \in Tid : Reached(u) \in Nat
    BY DEF Inv, FieldsTyped, Reached, Context, ThreadRec
  <2>2. QED BY <1>1, <2>1 DEF Handles, Running, Reached
<1>3. \A u \in Tid : ThreadInStep(u)'
  <2>1. ThreadInStep(t)'
    BY <1>1 DEF Inv, ThreadInStep, Handles, Running
  <2>2. \A u \in Tid \ {t} : ThreadInStep(u)'
    BY <1>1 DEF Inv, ThreadInStep, Running
  <2>3. QED BY <2>1, <2>2
<1>4. SlotsAreFree'
  BY <1>1 DEF Inv, SlotsAreFree, Running
<1>5. \A K \in Known : Past(K) => Past(K)'
  BY <1>2, PastStays DEF Inv
<1>6. AccessesArePast'
  <2>1. \A c \in AnyCell : \A a \in accesses[c] : a.tid \in Tid /\ a.epoch \in Nat
    BY DEF Inv, FieldsTyped, Word
  <2>2. \A u \in Tid : Reached(u) \in Nat /\ Reached(u)' \in Nat
    BY DEF Inv, FieldsTyped, Reached, Context, ThreadRec
  <2>3. QED BY <1>1, <1>2, <2>1, <2>2 DEF Inv, AccessesArePast
<1>7. EpochsAreUnique'
  BY <1>1 DEF Inv, EpochsAreUnique, AllAccesses
<1>8. KnowledgeIsPast'
  <2>1. /\ \A u \in Tid : knows'[u] \in Known /\ Past(knows'[u]) /\ lifeKnows[u] \in Known /\ Past(lifeKnows[u])
    BY <1>1 DEF Inv, FieldsTyped, KnowledgeIsPast
  <2>2. \A a \in Addr : syncKnows'[a].lock \in Known /\ syncKnows'[a].read \in Known
    BY DEF FieldsTyped
  <2>3. QED BY <1>1, <1>5, <2>1, <2>2 DEF KnowledgeIsPast
<1>9. ThreadsCover'
  BY <1>1, <1>2 DEF Inv, ThreadsCover
<1>10. ShadowIsAccessed' /\ NoFalseAlarm'
  BY <1>1 DEF Inv, ShadowIsAccessed, NoFalseAlarm
<1>11. ScansAreReal'
  BY <1>1 DEF Inv, ScansAreReal, Scanning, Handles
<1>12. QED BY <1>3, <1>4, <1>6, <1>7, <1>8, <1>9, <1>10, <1>11 DEF Inv

-----------------------------------------------------------------------------
(* The mutex handlers.                                                      *)

LEMMA ReturnMoves ==
  ASSUME FieldsTyped, NEW t \in Tid, NEW clock \in Clock, NEW synch \in Nat, Return(t, clock, synch)
  PROVE  /\ thr' \in [Tid -> ThreadRec]
         /\ thr'[t].epoch = thr[t].epoch + 1 /\ thr'[t].clock = clock /\ thr'[t].synch = synch
         /\ thr'[t].at = "idle" /\ thr'[t].call = NoCall
         /\ \A u \in Tid \ {t} : thr'[u] = thr[u]
<1>1. thr[t] \in ThreadRec
  BY DEF FieldsTyped
<1>2. thr' = [thr EXCEPT ![t] = [thr[t] EXCEPT !.epoch = Epoch(t), !.clock = clock, !.synch = synch,
                                              !.at = "idle", !.call = NoCall]]
  BY DEF Return, FieldsTyped
<1>3. Epoch(t) \in Nat /\ Epoch(t) = thr[t].epoch + 1 /\ "idle" \in At /\ NoCall \in Call
  BY <1>1 DEF Epoch, ThreadRec, At, Call
<1>4. [thr[t] EXCEPT !.epoch = Epoch(t), !.clock = clock, !.synch = synch,
                     !.at = "idle", !.call = NoCall] \in ThreadRec
  BY <1>1, <1>3 DEF ThreadRec
<1>5. QED BY <1>1, <1>2, <1>3, <1>4 DEF FieldsTyped, ThreadRec

LEMMA NoCallIsNotPending == \A op \in Op : \A a : NoCall # [op |-> op, addr |-> a]
  BY DEF NoCall, Op

LEMMA CallingIsPending ==
  ASSUME Inv, NEW t \in Tid, NEW op \in Op, Calling(t, op)
  PROVE  /\ Running(t) /\ thr[t].at = "call"
         /\ \E a \in Mutex :
              /\ thr[t].call.addr = a /\ Pending(t, op, a)
              /\ \A b \in Mutex, o \in Op : Pending(t, o, b) => b = a /\ o = op
<1>1. thr[t].call \in Call /\ thr[t].call.op = op /\ thr[t].at = "call"
  BY DEF Calling, Inv, FieldsTyped, ThreadRec
<1>2. thr[t].call \in [op : Op, addr : Mutex]
  BY <1>1 DEF Call, NoCall, Op
<1>3. Running(t)
  BY <1>1 DEF Inv, ThreadInStep
<1>4. QED BY <1>1, <1>2, <1>3 DEF Pending

LEMMA OtherMutexes ==
  ASSUME Inv, NEW t \in Tid, Running(t), Handles(t), NEW a, knows[t] \subseteq knows'[t],
         \A b \in Mutex \ {a} : held'[b] = held[b] /\ sync'[b] = sync[b] /\ syncKnows'[b] = syncKnows[b],
         \A b \in Mutex \ {a}, o \in Op : ~Pending(t, o, b)
  PROVE  \A b \in Mutex \ {a} : HolderHolds(b)' /\ OwnerAgrees(b)'
<1>1. ASSUME NEW b \in Mutex \ {a} PROVE HolderHolds(b)' /\ OwnerAgrees(b)'
  <2>1. HolderHolds(b) /\ OwnerAgrees(b) /\ FieldsTyped
    BY DEF Inv
  <2>2. \A u \in Tid, op \in Op : Pending(u, op, b)' <=> Pending(u, op, b)
    BY NoCallIsNotPending DEF Handles, Pending
  <2>3. \A u \in Tid : knows[u] \subseteq knows'[u] /\ (Running(u)' <=> Running(u))
    BY DEF Handles, Running, threads
  <2>4. \A u \in Tid : held[b].writer = u \/ u \in held[b].readers => Running(u)
    BY <2>1, TidsAreSlots DEF HolderHolds
  <2>5. QED BY <2>1, <2>2, <2>3, <2>4, MutexIsLeftAlone
<1>2. QED BY <1>1

LEMMA ReturnHandles ==
  ASSUME Inv, NEW t \in Tid, thr[t].at = "call", NEW clock \in Clock, NEW synch \in Nat, synch <= Epoch(t),
         Return(t, clock, synch), NEW K \in Known, knows' = [knows EXCEPT ![t] = K],
         UNCHANGED <<threads, shadow, reports, lifeKnows, accesses>>
  PROVE  Handles(t) /\ thr' \in [Tid -> ThreadRec] /\ thr'[t].clock = clock
<1>1. thr[t].epoch \in Nat /\ thr[t].epoch <= MaxEpoch /\ MaxEpoch \in Nat
  BY TidsAreSlots DEF Inv, FieldsTyped, ThreadRec, ThreadInStep
<1>2. \A u \in Tid \ {t} : knows'[u] = knows[u]
  BY DEF Inv, FieldsTyped
<1>3. FieldsTyped
  BY DEF Inv
<1>4. QED BY <1>1, <1>2, <1>3, ReturnMoves DEF Handles, Epoch

\* A handler of a mutex: what it leaves of the mutex has to be in order.
LEMMA MutexHandlerKeepsInv ==
  ASSUME Inv, NEW t \in Tid, NEW op \in Op, NEW a \in Mutex, Calling(t, op), Pending(t, op, a),
         Handles(t), thr' \in [Tid -> ThreadRec],
         NEW K \in Known, knows' = [knows EXCEPT ![t] = K], knows[t] \subseteq K, Past(K),
         CoversOthers(thr'[t].clock, K, t),
         NEW sv \in SyncRec, sync' = [sync EXCEPT ![a] = sv],
         NEW h \in HeldRec, held' = [held EXCEPT ![a] = h],
         NEW sk \in [lock : Known, read : Known], syncKnows' = [syncKnows EXCEPT ![a] = sk],
         Past(sk.lock), Past(sk.read), Covers(sv.clock, sk.lock), Covers(sv.read_clock, sk.read),
         HolderHolds(a)', OwnerAgrees(a)'
  PROVE  Inv'
<1>1. /\ Running(t) /\ thr[t].at = "call" /\ a \in Mutex /\ a \in Addr
      /\ \A b \in Mutex \ {a}, o \in Op : ~Pending(t, o, b)
  BY CallingIsPending DEF Addr, Pending
<1>2. UNCHANGED <<threads, shadow, reports, lifeKnows, accesses>>
  BY DEF Handles
<1>4. knows'[t] = K /\ knows' \in [Tid -> Known]
  BY DEF Inv, FieldsTyped
<1>5. /\ sync'[a] = sv /\ sync' \in [Addr -> SyncRec] /\ \A b \in Addr \ {a} : sync'[b] = sync[b]
  BY <1>1 DEF Inv, FieldsTyped
<1>6. /\ held'[a] = h /\ held' \in [Mutex -> HeldRec] /\ \A b \in Mutex \ {a} : held'[b] = held[b]
  BY <1>1 DEF Inv, FieldsTyped
<1>7. /\ syncKnows'[a] = sk /\ syncKnows' \in [Addr -> [lock : Known, read : Known]]
      /\ \A b \in Addr \ {a} : syncKnows'[b] = syncKnows[b]
  BY <1>1 DEF Inv, FieldsTyped
<1>8. FieldsTyped'
  BY <1>2, <1>4, <1>5, <1>6, <1>7 DEF Inv, FieldsTyped, threads
<1>9. \A b \in Mutex : HolderHolds(b)' /\ OwnerAgrees(b)'
  <2>1. Mutex \subseteq Addr
    BY DEF Addr
  <2>2. \A b \in Mutex \ {a} : HolderHolds(b)' /\ OwnerAgrees(b)'
    BY <1>1, <1>4, <1>5, <1>6, <1>7, <2>1, OtherMutexes
  <2>3. QED BY <2>2
<1>10. \A b \in Addr : Past(syncKnows'[b].lock) /\ Past(syncKnows'[b].read)
  BY <1>7 DEF Inv, KnowledgeIsPast
<1>11. SyncsCover'
  <2>1. ASSUME NEW b \in Addr
        PROVE  Covers(sync'[b].clock, syncKnows'[b].lock) /\ Covers(sync'[b].read_clock, syncKnows'[b].read)
    BY <1>5, <1>7 DEF Inv, SyncsCover
  <2>2. QED BY <2>1 DEF SyncsCover
<1>12. QED BY <1>1, <1>4, <1>8, <1>9, <1>10, <1>11, HandlerKeepsInv

LEMMA OpsAre == "lock" \in Op /\ "unlock" \in Op /\ "read_lock" \in Op /\ "read_unlock" \in Op /\ "rw_unlock" \in Op
  BY DEF Op

LEMMA MutexFacts ==
  ASSUME Inv, NEW a \in Mutex
  PROVE  /\ a \in Addr /\ sync[a] \in SyncRec /\ held[a] \in HeldRec /\ syncKnows[a] \in [lock : Known, read : Known]
         /\ HolderHolds(a) /\ OwnerAgrees(a)
         /\ Past(syncKnows[a].lock) /\ Past(syncKnows[a].read)
         /\ Covers(sync[a].clock, syncKnows[a].lock) /\ Covers(sync[a].read_clock, syncKnows[a].read)
<1>1. a \in Addr
  BY DEF Addr
<1>2. QED BY <1>1 DEF Inv, FieldsTyped, KnowledgeIsPast, SyncsCover

LEMMA ThreadFacts ==
  ASSUME Inv, NEW t \in Tid, Running(t)
  PROVE  /\ thr[t] \in ThreadRec /\ knows[t] \in Known /\ t \in Nat /\ t # NoTid
         /\ Past(knows[t]) /\ CoversOthers(thr[t].clock, knows[t], t)
         /\ OwnClock(t) \in Clock /\ CurrentClock(t) \in Clock /\ Epoch(t) \in Nat
         /\ Covers(OwnClock(t), knows[t]) /\ Covers(CurrentClock(t), knows[t])
         /\ thr[t].synch <= thr[t].epoch
<1>1. /\ FieldsTyped /\ Past(knows[t]) /\ CoversOthers(thr[t].clock, knows[t], t)
      /\ thr[t].synch <= thr[t].epoch
  BY DEF Inv, KnowledgeIsPast, ThreadsCover, ThreadInStep
<1>2. QED BY <1>1, OwnClockCovers, TidsAreSlots DEF FieldsTyped

\* After the handler only other threads have a call pending.
LEMMA PendingAfter ==
  ASSUME NEW t \in Tid, thr'[t].call = NoCall, \A u \in Tid \ {t} : thr'[u] = thr[u]
  PROVE  /\ \A o \in Op : \A a : ~Pending(t, o, a)'
         /\ \A u \in Tid \ {t}, o \in Op : \A a : Pending(u, o, a)' <=> Pending(u, o, a)
  BY NoCallIsNotPending DEF Pending

\* What a pending handler will find.
LEMMA WriterPends ==
  ASSUME Inv, NEW t \in Tid, NEW op \in {"lock", "unlock", "rw_unlock"}, NEW a \in Mutex, Pending(t, op, a),
         op = "rw_unlock" => t \notin held[a].readers
  PROVE  /\ held[a].writer = t /\ held[a].depth \in Nat \ {0} /\ held[a].readers = {}
         /\ op = "lock" => sync[a].recursion = held[a].depth - 1
         /\ op # "lock" => sync[a].recursion = held[a].depth
         /\ sync[a].recursion = 0 => sync[a].owner = NoTid
         /\ sync[a].recursion # 0 => sync[a].owner = t
         /\ sync[a].owner # NoTid => syncKnows[a].lock \cup syncKnows[a].read \subseteq knows[t]
         /\ \A u \in Tid \ {t}, o \in Op : ~Pending(u, o, a)
<1>1. (op # "lock" => ~Pending(t, "lock", a)) /\ t # NoTid
  BY TidsAreSlots DEF Pending
<1>2. HolderHolds(a) /\ OwnerAgrees(a) /\ held[a].depth \in Nat
  BY <1>1, MutexFacts DEF HeldRec
<1>3. held[a].writer = t
  BY <1>1, <1>2 DEF HolderHolds
<1>4. held[a].depth \in Nat \ {0} /\ held[a].readers = {}
  BY <1>1, <1>2, <1>3 DEF HolderHolds
<1>5. Counted(a) = IF op = "lock" THEN held[a].depth - 1 ELSE held[a].depth
  BY <1>1, <1>3 DEF Counted
<1>6. sync[a].recursion = Counted(a) /\ sync[a].owner = IF Counted(a) = 0 THEN NoTid ELSE t
  BY <1>2, <1>3 DEF OwnerAgrees
<1>7. sync[a].owner # NoTid => syncKnows[a].lock \cup syncKnows[a].read \subseteq knows[t]
  BY <1>2, <1>6 DEF OwnerAgrees
<1>8. \A u \in Tid \ {t}, o \in Op : ~Pending(u, o, a)
  BY <1>2, <1>3, <1>4 DEF HolderHolds, Op
<1>9. QED BY <1>3, <1>4, <1>5, <1>6, <1>7, <1>8

LEMMA MutexLockKeepsInv ==
  ASSUME Inv, NEW t \in Tid, MutexLock(t)
  PROVE  Inv'
<1>0. Calling(t, "lock") /\ "lock" \in Op
  <2>1. PICK a : thr[t].call.addr = a
    OBVIOUS
  <2>2. QED BY <2>1, OpsAre DEF MutexLock
<1>1. PICK a \in Mutex : thr[t].call.addr = a /\ Pending(t, "lock", a)
  BY <1>0, CallingIsPending
<1> DEFINE s == sync[a]
           k == syncKnows[a]
           clock == IF s.recursion = 0 THEN Join(Join(OwnClock(t), s.clock), s.read_clock) ELSE thr[t].clock
           sv == [s EXCEPT !.owner = t, !.recursion = s.recursion + 1]
           K == knows[t] \cup k.lock \cup k.read
<1>2. /\ Return(t, clock, thr[t].synch)
      /\ knows' = [knows EXCEPT ![t] = K]
      /\ UNCHANGED <<threads, shadow, held, reports, lifeKnows, syncKnows, accesses>>
  BY <1>1 DEF MutexLock
<1>3. Running(t)
  BY <1>0, CallingIsPending
<1>4. /\ a \in Addr /\ s \in SyncRec /\ held[a] \in HeldRec /\ k \in [lock : Known, read : Known]
      /\ Past(k.lock) /\ Past(k.read) /\ Covers(s.clock, k.lock) /\ Covers(s.read_clock, k.read)
  BY <1>3, MutexFacts
<1>5. /\ held[a].writer = t /\ held[a].depth \in Nat \ {0} /\ held[a].readers = {}
      /\ s.recursion = held[a].depth - 1
      /\ s.recursion = 0 => s.owner = NoTid
      /\ s.recursion # 0 => s.owner = t
      /\ s.owner # NoTid => k.lock \cup k.read \subseteq knows[t]
      /\ \A u \in Tid \ {t}, o \in Op : ~Pending(u, o, a)
  <2>1. "lock" \in {"lock", "unlock", "rw_unlock"}
    OBVIOUS
  <2>2. QED BY <1>1, <2>1, WriterPends
<1>6. /\ thr[t] \in ThreadRec /\ knows[t] \in Known /\ t # NoTid
      /\ Past(knows[t]) /\ CoversOthers(thr[t].clock, knows[t], t)
      /\ OwnClock(t) \in Clock /\ Covers(OwnClock(t), knows[t]) /\ thr[t].synch <= thr[t].epoch
  BY <1>3, ThreadFacts
<1>7. sync' = [sync EXCEPT ![a] = sv]
  <2>1. sync[a] \in SyncRec /\ (IF sync[a].owner = NoTid THEN t ELSE sync[a].owner) = t
    BY <1>4, <1>5
  <2>2. sync' = [sync EXCEPT ![a].owner = IF @ = NoTid THEN t ELSE @, ![a].recursion = @ + 1]
    BY <1>1 DEF MutexLock
  <2>3. QED BY <1>4, <2>1, <2>2 DEF Inv, FieldsTyped, SyncRec
<1>8. sv \in SyncRec /\ sv.owner = t /\ sv.recursion = held[a].depth /\ sv.clock = s.clock /\ sv.read_clock = s.read_clock
  <2>1. s.recursion + 1 = held[a].depth
    BY <1>5
  <2>2. s.recursion + 1 \in Nat /\ s.recursion + 1 = held[a].depth
    BY <1>4, <2>1 DEF SyncRec
  <2>3. QED BY <1>4, <2>2 DEF SyncRec
<1>9. K \in Known /\ Past(K) /\ knows[t] \subseteq K
  BY <1>4, <1>6 DEF Known, Past
<1>10. clock \in Clock /\ CoversOthers(clock, K, t)
  <2>1. CASE s.recursion = 0
    <3>1. PICK c : c = Join(OwnClock(t), s.clock)
      OBVIOUS
    <3>2. s.clock \in Clock /\ s.read_clock \in Clock /\ k.lock \in Known /\ k.read \in Known
      BY <1>4 DEF SyncRec
    <3>3. c \in Clock /\ Covers(c, knows[t]) /\ Covers(c, k.lock)
      BY <1>4, <1>6, <3>1, <3>2, JoinCovers
    <3>4. clock = Join(c, s.read_clock)
      BY <2>1, <3>1
    <3>5. clock \in Clock /\ Covers(clock, knows[t]) /\ Covers(clock, k.lock) /\ Covers(clock, k.read)
      BY <1>4, <1>6, <3>2, <3>3, <3>4, JoinCovers
    <3>6. QED BY <3>5, UnionCovers
  <2>2. CASE s.recursion # 0
    <3>1. K = knows[t]
      BY <1>5, <1>6, <2>2
    <3>2. clock = thr[t].clock
      BY <2>2
    <3>3. QED BY <1>6, <3>1, <3>2 DEF ThreadRec
  <2>3. QED BY <2>1, <2>2
<1>11. thr[t].synch \in Nat
  BY <1>6 DEF ThreadRec
<1> HIDE DEF clock, sv, K
<1>12. Handles(t) /\ thr' \in [Tid -> ThreadRec] /\ thr'[t].clock = clock
  <2>1. thr[t].at = "call" /\ thr[t].synch <= Epoch(t)
    BY <1>0, <1>6 DEF Calling, Epoch, ThreadRec
  <2>2. QED BY <1>2, <1>9, <1>10, <1>11, <2>1, ReturnHandles
<1>13. held' = [held EXCEPT ![a] = held[a]] /\ syncKnows' = [syncKnows EXCEPT ![a] = syncKnows[a]]
  BY <1>2, <1>3, <1>4 DEF Inv, FieldsTyped
<1>14. held'[a] = held[a] /\ syncKnows'[a] = syncKnows[a]
  BY <1>2
<1>15. sync'[a] = sv /\ knows'[t] = K
  BY <1>2, <1>4, <1>7 DEF Inv, FieldsTyped
<1>16. Running(t)'
  BY <1>2, <1>3 DEF threads, Running
<1>17. \A u \in Tid, o \in Op : ~Pending(u, o, a)'
  BY <1>5, <1>12, PendingAfter DEF Handles
<1>18. HolderHolds(a)'
  BY <1>5, <1>6, <1>14, <1>16, <1>17, OpsAre DEF HolderHolds
<1>19. Counted(a)' = held[a].depth
  BY <1>5, <1>14, <1>17, OpsAre DEF Counted
<1>20. OwnerAgrees(a)'
  <2>1. k.lock \cup k.read \subseteq K
    BY DEF K
  <2>2. QED BY <1>5, <1>8, <1>14, <1>15, <1>19, <2>1 DEF OwnerAgrees
<1>21. k.lock \in Known /\ k.read \in Known /\ Covers(sv.clock, k.lock) /\ Covers(sv.read_clock, k.read)
  BY <1>4, <1>8
<1>22. /\ knows' = [knows EXCEPT ![t] = K] /\ knows[t] \subseteq K
       /\ CoversOthers(thr'[t].clock, K, t)
       /\ held[a] \in HeldRec /\ syncKnows[a] \in [lock : Known, read : Known] /\ sv \in SyncRec
       /\ K \in Known /\ Past(K) /\ Past(k.lock) /\ Past(k.read)
  BY <1>2, <1>4, <1>8, <1>9, <1>10, <1>12
<1>23. Handles(t) /\ thr' \in [Tid -> ThreadRec] 
  BY <1>12
<1>24. QED BY <1>0, <1>1, <1>7, <1>13, <1>18, <1>20, <1>21, <1>22, <1>23, MutexHandlerKeepsInv

LEMMA WriterUnlocks ==
  ASSUME Inv, NEW t \in Tid, NEW op \in {"unlock", "rw_unlock"}, NEW a \in Mutex, Calling(t, op), Pending(t, op, a),
         held[a].writer = t, Handles(t), thr' \in [Tid -> ThreadRec], UNCHANGED knows,
         thr'[t].clock = OwnClock(t) \/ thr'[t].clock = thr[t].clock,
         sync' = [sync EXCEPT ![a] = Unowned(@, t)], Unlocked(t, a)
  PROVE  Inv'
<1> DEFINE s == sync[a]
           k == syncKnows[a]
           m == held[a]
           last == s.recursion = 1
           sv == IF last THEN [s EXCEPT !.recursion = 0, !.owner = NoTid, !.clock = OwnClock(t)]
                 ELSE [s EXCEPT !.recursion = s.recursion - 1]
           h == IF last THEN [m EXCEPT !.writer = NoTid, !.depth = 0] ELSE [m EXCEPT !.depth = m.depth - 1]
           sk == IF last THEN [k EXCEPT !.lock = k.lock \cup knows[t]] ELSE k
<1>1. op \in Op /\ Running(t)
  BY CallingIsPending DEF Op
<1>2. /\ a \in Addr /\ s \in SyncRec /\ m \in HeldRec /\ k \in [lock : Known, read : Known]
      /\ Past(k.lock) /\ Past(k.read) /\ Covers(s.clock, k.lock) /\ Covers(s.read_clock, k.read)
  BY MutexFacts
<1>3. /\ m.depth \in Nat \ {0} /\ m.readers = {}
      /\ s.recursion = m.depth /\ s.owner = t /\ k.lock \cup k.read \subseteq knows[t]
      /\ \A u \in Tid \ {t}, o \in Op : ~Pending(u, o, a)
  <2>1. m.readers = {} /\ t # NoTid
    BY MutexFacts, TidsAreSlots DEF HolderHolds
  <2>2. op # "lock" /\ op \in {"lock", "unlock", "rw_unlock"}
    OBVIOUS
  <2>3. /\ m.depth \in Nat \ {0} /\ s.recursion = m.depth
        /\ s.recursion # 0 => s.owner = t
        /\ s.owner # NoTid => k.lock \cup k.read \subseteq knows[t]
        /\ \A u \in Tid \ {t}, o \in Op : ~Pending(u, o, a)
    BY <2>1, <2>2, WriterPends
  <2>4. QED BY <2>1, <2>3
<1>4. /\ knows[t] \in Known /\ t # NoTid /\ t \in Nat
      /\ Past(knows[t]) /\ CoversOthers(thr[t].clock, knows[t], t)
      /\ OwnClock(t) \in Clock /\ Covers(OwnClock(t), knows[t])
  BY <1>1, ThreadFacts
<1>5. sync' = [sync EXCEPT ![a] = sv]
  <2>1. Unowned(s, t) = sv
    BY <1>2, <1>3 DEF Unowned, ReleaseStoreClock, SyncRec
  <2>2. QED BY <2>1
<1>6. held' = [held EXCEPT ![a] = h] /\ syncKnows' = [syncKnows EXCEPT ![a] = sk]
  <2>1. GivenBack(m, t) = h
    BY <1>2, <1>3 DEF GivenBack, HeldRec
  <2>2. held' = [held EXCEPT ![a] = h]
    BY <2>1 DEF Unlocked
  <2>3. CASE last
    <3>1. m.depth = 1 /\ m.writer = t
      BY <1>3, <2>3
    <3>2. syncKnows' = [syncKnows EXCEPT ![a].lock = @ \cup knows[t]]
      BY <3>1 DEF Unlocked
    <3>3. QED BY <2>2, <2>3, <3>2
  <2>4. CASE ~last
    <3>1. m.depth > 1
      BY <1>3, <2>4
    <3>2. syncKnows' = syncKnows
      BY <3>1 DEF Unlocked
    <3>3. QED BY <2>2, <2>4, <3>2 DEF Inv, FieldsTyped
  <2>5. QED BY <2>2, <2>3, <2>4
<1>7. /\ sv \in SyncRec /\ h \in HeldRec /\ sk \in [lock : Known, read : Known]
      /\ sv.recursion = h.depth /\ h.readers = {}
      /\ last => h.depth = 0 /\ h.writer = NoTid /\ sv.owner = NoTid
      /\ ~last => h.depth \in Nat \ {0} /\ h.writer = t /\ sv.owner = t
  <2>1. CASE last
    <3>1. sv = [s EXCEPT !.recursion = 0, !.owner = NoTid, !.clock = OwnClock(t)]
          /\ h = [m EXCEPT !.writer = NoTid, !.depth = 0] /\ sk = [k EXCEPT !.lock = k.lock \cup knows[t]]
      BY <2>1
    <3>2. k.lock \cup knows[t] \in Known
      BY <1>2, <1>4 DEF Known
    <3>3. QED BY <1>2, <1>3, <1>4, <2>1, <3>1, <3>2 DEF SyncRec, HeldRec
  <2>2. CASE ~last
    <3>1. sv = [s EXCEPT !.recursion = s.recursion - 1] /\ h = [m EXCEPT !.depth = m.depth - 1] /\ sk = k
      BY <2>2
    <3>2. s.recursion - 1 \in Nat \ {0} /\ m.depth - 1 = s.recursion - 1
      BY <1>3, <2>2
    <3>3. QED BY <1>2, <1>3, <2>2, <3>1, <3>2 DEF SyncRec, HeldRec
  <2>3. QED BY <2>1, <2>2
<1>8. Past(sk.lock) /\ Past(sk.read) /\ Covers(sv.clock, sk.lock) /\ Covers(sv.read_clock, sk.read)
  <2>1. CASE last
    <3>1. sk.lock = knows[t] /\ sk.read = k.read /\ sv.clock = OwnClock(t) /\ sv.read_clock = s.read_clock
      BY <1>2, <1>3, <2>1 DEF SyncRec
    <3>2. QED BY <1>2, <1>4, <3>1
  <2>2. CASE ~last
    <3>1. sk = k /\ sv.clock = s.clock /\ sv.read_clock = s.read_clock
      BY <1>2, <2>2 DEF SyncRec
    <3>2. QED BY <1>2, <3>1
  <2>3. QED BY <2>1, <2>2
<1> HIDE DEF sv, h, sk
<1>9. sync'[a] = sv /\ held'[a] = h /\ syncKnows'[a] = sk /\ (~last => sk = k) /\ knows'[t] = knows[t]
  BY <1>2, <1>5, <1>6 DEF Inv, FieldsTyped, sk
<1>10. \A u \in Tid, o \in Op : ~Pending(u, o, a)'
  BY <1>3, PendingAfter DEF Handles
<1>11. Running(t)'
  BY <1>1 DEF Handles, threads, Running
<1>12. HolderHolds(a)' /\ Counted(a)' = h.depth
  BY <1>4, <1>7, <1>9, <1>10, <1>11, OpsAre DEF HolderHolds, Counted
<1>13. OwnerAgrees(a)'
  BY <1>3, <1>4, <1>7, <1>9, <1>12 DEF OwnerAgrees
<1>14. knows' = [knows EXCEPT ![t] = knows[t]] /\ CoversOthers(thr'[t].clock, knows[t], t)
  BY <1>4, UnionCovers DEF Inv, FieldsTyped
<1>15. QED BY <1>1, <1>4, <1>5, <1>6, <1>7, <1>8, <1>12, <1>13, <1>14, MutexHandlerKeepsInv

LEMMA ReaderUnlocks ==
  ASSUME Inv, NEW t \in Tid, NEW op \in {"read_unlock", "rw_unlock"}, NEW a \in Mutex, Calling(t, op), Pending(t, op, a),
         t \in held[a].readers, Handles(t), thr' \in [Tid -> ThreadRec], UNCHANGED knows, thr'[t].clock = OwnClock(t),
         sync' = [sync EXCEPT ![a].read_clock = Join(@, OwnClock(t))], Unlocked(t, a)
  PROVE  Inv'
<1> DEFINE s == sync[a]
           k == syncKnows[a]
           m == held[a]
           sv == [s EXCEPT !.read_clock = Join(s.read_clock, OwnClock(t))]
           h == [m EXCEPT !.readers = m.readers \ {t}]
           sk == [k EXCEPT !.read = k.read \cup knows[t]]
<1>1. op \in Op /\ Running(t)
  BY CallingIsPending DEF Op
<1>2. /\ a \in Addr /\ s \in SyncRec /\ m \in HeldRec /\ k \in [lock : Known, read : Known]
      /\ Past(k.lock) /\ Past(k.read) /\ Covers(s.clock, k.lock) /\ Covers(s.read_clock, k.read)
      /\ HolderHolds(a) /\ OwnerAgrees(a)
  BY MutexFacts
<1>3. m.writer = NoTid /\ m.depth = 0 /\ m.writer # t
  BY <1>2, TidsAreSlots DEF HolderHolds
<1>4. /\ knows[t] \in Known /\ Past(knows[t]) /\ OwnClock(t) \in Clock /\ Covers(OwnClock(t), knows[t])
  BY <1>1, ThreadFacts
<1>5. s.recursion = 0 /\ s.owner = NoTid
  BY <1>2, <1>3 DEF OwnerAgrees, Counted
<1>6. held' = [held EXCEPT ![a] = h] /\ syncKnows' = [syncKnows EXCEPT ![a] = sk] /\ sync' = [sync EXCEPT ![a] = sv]
  <2>1. GivenBack(m, t) = h
    BY <1>3 DEF GivenBack
  <2>2. held' = [held EXCEPT ![a] = h]
    BY <2>1 DEF Unlocked
  <2>3. syncKnows' = [syncKnows EXCEPT ![a].read = @ \cup knows[t]]
    BY <1>3 DEF Unlocked
  <2>4. QED BY <2>2, <2>3
<1>7. /\ Join(s.read_clock, OwnClock(t)) \in Clock
      /\ Covers(Join(s.read_clock, OwnClock(t)), k.read \cup knows[t]) /\ k.read \cup knows[t] \in Known
  <2>1. s.read_clock \in Clock /\ k.read \in Known
    BY <1>2 DEF SyncRec
  <2>2. /\ Join(s.read_clock, OwnClock(t)) \in Clock
        /\ Covers(Join(s.read_clock, OwnClock(t)), k.read) /\ Covers(Join(s.read_clock, OwnClock(t)), knows[t])
    BY <1>2, <1>4, <2>1, JoinCovers
  <2>3. k.read \cup knows[t] \in Known
    BY <1>4, <2>1 DEF Known
  <2>4. QED BY <2>2, <2>3, UnionCovers
<1>8. /\ sv \in SyncRec /\ h \in HeldRec /\ sk \in [lock : Known, read : Known]
      /\ sv.recursion = 0 /\ sv.owner = NoTid /\ h.writer = NoTid /\ h.depth = 0 /\ h.readers = m.readers \ {t}
  BY <1>2, <1>3, <1>5, <1>7 DEF SyncRec, HeldRec
<1>9. Past(sk.lock) /\ Past(sk.read) /\ Covers(sv.clock, sk.lock) /\ Covers(sv.read_clock, sk.read)
  <2>1. sk.lock = k.lock /\ sk.read = k.read \cup knows[t] /\ sv.clock = s.clock
        /\ sv.read_clock = Join(s.read_clock, OwnClock(t))
    BY <1>2 DEF SyncRec
  <2>2. Past(k.read \cup knows[t])
    BY <1>2, <1>4 DEF Past
  <2>3. QED BY <1>2, <1>7, <2>1, <2>2
<1> HIDE DEF sv, h, sk
<1>10. sync'[a] = sv /\ held'[a] = h /\ syncKnows'[a] = sk
  BY <1>2, <1>6 DEF Inv, FieldsTyped
<1>11. /\ \A o \in Op : ~Pending(t, o, a)'
       /\ \A u \in Tid \ {t}, o \in Op : Pending(u, o, a)' <=> Pending(u, o, a)
  BY PendingAfter DEF Handles
<1>12. \A u \in Tid : Running(u)' <=> Running(u)
  BY DEF Handles, threads, Running
<1>13. HolderHolds(a)'
  <2>1. \A u \in Tid \ {t} :
          /\ ~Pending(u, "lock", a) /\ ~Pending(u, "unlock", a)
          /\ Pending(u, "read_lock", a) \/ Pending(u, "read_unlock", a) \/ Pending(u, "rw_unlock", a) => u \in m.readers
    BY <1>2, <1>3, TidsAreSlots DEF HolderHolds
  <2>2. \A u \in m.readers : Running(u) /\ u \in Tid
    BY <1>2 DEF HolderHolds, HeldRec
  <2>3. QED BY <1>8, <1>10, <1>11, <1>12, <2>1, <2>2, OpsAre DEF HolderHolds
<1>14. OwnerAgrees(a)'
  BY <1>8, <1>10 DEF OwnerAgrees, Counted
<1>15. knows' = [knows EXCEPT ![t] = knows[t]] /\ CoversOthers(thr'[t].clock, knows[t], t)
  BY <1>4, UnionCovers DEF Inv, FieldsTyped
<1>16. QED BY <1>1, <1>4, <1>6, <1>8, <1>9, <1>13, <1>14, <1>15, MutexHandlerKeepsInv

LEMMA MutexUnlockKeepsInv ==
  ASSUME Inv, NEW t \in Tid, MutexUnlock(t)
  PROVE  Inv'
<1>1. Calling(t, "unlock") /\ "unlock" \in Op
  <2>1. PICK a : thr[t].call.addr = a
    OBVIOUS
  <2>2. QED BY <2>1, OpsAre DEF MutexUnlock
<1>2. PICK a \in Mutex : thr[t].call.addr = a /\ Pending(t, "unlock", a)
  BY <1>1, CallingIsPending
<1>3. Running(t) /\ thr[t].at = "call"
  BY <1>1, CallingIsPending
<1>4. held[a].writer = t /\ sync[a].recursion > 0 /\ sync[a].owner = t
  <2>1. "unlock" \in {"lock", "unlock", "rw_unlock"}
    OBVIOUS
  <2>2. QED BY <1>2, <2>1, WriterPends
<1>5. PICK clock, synch : /\ clock = IF sync[a].recursion = 1 THEN OwnClock(t) ELSE thr[t].clock
                          /\ synch = IF sync[a].recursion = 1 THEN Epoch(t) ELSE thr[t].synch
  OBVIOUS
<1>6. /\ sync' = [sync EXCEPT ![a] = Unowned(@, t)] /\ Unlocked(t, a)
      /\ UNCHANGED <<threads, shadow, reports, knows, lifeKnows, accesses>>
  BY <1>2, <1>4 DEF MutexUnlock
<1>7. Return(t, clock, synch)
  BY <1>2, <1>4, <1>5 DEF MutexUnlock
<1>8. clock \in Clock /\ synch \in Nat /\ synch <= Epoch(t) /\ knows[t] \in Known
  BY <1>3, <1>5, ThreadFacts DEF ThreadRec, Epoch
<1>9. knows' = [knows EXCEPT ![t] = knows[t]]
  BY <1>6 DEF Inv, FieldsTyped
<1>10. Handles(t) /\ thr' \in [Tid -> ThreadRec] /\ thr'[t].clock = clock
  BY <1>3, <1>6, <1>7, <1>8, <1>9, ReturnHandles
<1>11. QED BY <1>1, <1>2, <1>4, <1>5, <1>6, <1>10, WriterUnlocks

LEMMA MutexReadUnlockKeepsInv ==
  ASSUME Inv, NEW t \in Tid, MutexReadUnlock(t)
  PROVE  Inv'
<1>1. Calling(t, "read_unlock") /\ "read_unlock" \in Op
  BY OpsAre DEF MutexReadUnlock
<1>2. PICK a \in Mutex : thr[t].call.addr = a /\ Pending(t, "read_unlock", a)
  BY <1>1, CallingIsPending
<1>3. Running(t) /\ thr[t].at = "call"
  BY <1>1, CallingIsPending
<1>4. t \in held[a].readers
  BY <1>2, MutexFacts DEF HolderHolds
<1>5. /\ sync' = [sync EXCEPT ![a].read_clock = Join(@, OwnClock(t))] /\ Unlocked(t, a)
      /\ Return(t, OwnClock(t), Epoch(t))
      /\ UNCHANGED <<threads, shadow, reports, knows, lifeKnows, accesses>>
  BY <1>2 DEF MutexReadUnlock
<1>6. OwnClock(t) \in Clock /\ Epoch(t) \in Nat /\ Epoch(t) <= Epoch(t) /\ knows[t] \in Known
  BY <1>3, ThreadFacts
<1>7. knows' = [knows EXCEPT ![t] = knows[t]]
  BY <1>5 DEF Inv, FieldsTyped
<1>8. Handles(t) /\ thr' \in [Tid -> ThreadRec] /\ thr'[t].clock = OwnClock(t)
  BY <1>3, <1>5, <1>6, <1>7, ReturnHandles
<1>9. QED BY <1>1, <1>2, <1>4, <1>5, <1>8, ReaderUnlocks

LEMMA MutexReadOrWriteUnlockKeepsInv ==
  ASSUME Inv, NEW t \in Tid, MutexReadOrWriteUnlock(t)
  PROVE  Inv'
<1>1. Calling(t, "rw_unlock") /\ "rw_unlock" \in Op
  BY OpsAre DEF MutexReadOrWriteUnlock
<1>2. PICK a \in Mutex : thr[t].call.addr = a /\ Pending(t, "rw_unlock", a)
  BY <1>1, CallingIsPending
<1>3. Running(t) /\ thr[t].at = "call" /\ t # NoTid
  BY <1>1, CallingIsPending, TidsAreSlots
<1>4. Unlocked(t, a) /\ UNCHANGED <<threads, shadow, reports, knows, lifeKnows, accesses>>
  BY <1>2 DEF MutexReadOrWriteUnlock
<1>5. \/ /\ sync[a].owner = NoTid /\ sync' = [sync EXCEPT ![a].read_clock = Join(@, OwnClock(t))]
         /\ Return(t, OwnClock(t), Epoch(t))
      \/ /\ sync[a].owner = t /\ sync' = [sync EXCEPT ![a] = Unowned(@, t)]
         /\ Return(t, OwnClock(t), Epoch(t)) \/ thr' = [thr EXCEPT ![t].at = "idle", ![t].call = NoCall]
  BY <1>2 DEF MutexReadOrWriteUnlock
<1>6. held[a].writer = t \/ t \in held[a].readers
  BY <1>2, MutexFacts DEF HolderHolds
<1>7. /\ OwnClock(t) \in Clock /\ Epoch(t) \in Nat /\ Epoch(t) <= Epoch(t) /\ knows[t] \in Known
      /\ thr[t] \in ThreadRec /\ thr[t].synch <= thr[t].epoch
  BY <1>3, ThreadFacts
<1>8. knows' = [knows EXCEPT ![t] = knows[t]]
  BY <1>4 DEF Inv, FieldsTyped
<1>9. Return(t, OwnClock(t), Epoch(t)) =>
        Handles(t) /\ thr' \in [Tid -> ThreadRec] /\ thr'[t].clock = OwnClock(t)
  BY <1>3, <1>4, <1>7, <1>8, ReturnHandles
<1>10. thr' = [thr EXCEPT ![t].at = "idle", ![t].call = NoCall] =>
        Handles(t) /\ thr' \in [Tid -> ThreadRec] /\ thr'[t].clock = thr[t].clock
  <2> SUFFICES ASSUME thr' = [thr EXCEPT ![t].at = "idle", ![t].call = NoCall]
               PROVE  Handles(t) /\ thr' \in [Tid -> ThreadRec] /\ thr'[t].clock = thr[t].clock
    OBVIOUS
  <2>1. thr \in [Tid -> ThreadRec] /\ "idle" \in At /\ NoCall \in Call
    BY DEF Inv, FieldsTyped, At, Call
  <2>2. /\ thr' \in [Tid -> ThreadRec] /\ (\A u \in Tid \ {t} : thr'[u] = thr[u])
        /\ thr'[t].at = "idle" /\ thr'[t].call = NoCall /\ thr'[t].clock = thr[t].clock
        /\ thr'[t].epoch = thr[t].epoch /\ thr'[t].synch = thr[t].synch
    BY <2>1 DEF ThreadRec
  <2>3. thr[t].epoch \in Nat /\ thr[t].epoch <= MaxEpoch /\ MaxEpoch \in Nat
    BY <1>3, <1>7, TidsAreSlots DEF Inv, ThreadRec, ThreadInStep
  <2>4. QED BY <1>4, <1>7, <2>2, <2>3 DEF Handles
<1>11. CASE held[a].writer = t
  <2>1. sync[a].owner = t
    <3>1. held[a].readers = {}
      BY <1>3, <1>11, MutexFacts DEF HolderHolds
    <3>2. "rw_unlock" \in {"lock", "unlock", "rw_unlock"} /\ "rw_unlock" # "lock" /\ t \notin held[a].readers
      BY <3>1
    <3>3. QED BY <1>2, <3>2, WriterPends
  <2>2. sync' = [sync EXCEPT ![a] = Unowned(@, t)]
    BY <1>3, <1>5, <2>1
  <2>3. /\ Handles(t) /\ thr' \in [Tid -> ThreadRec]
        /\ thr'[t].clock = OwnClock(t) \/ thr'[t].clock = thr[t].clock
    BY <1>5, <1>9, <1>10
  <2>4. QED BY <1>1, <1>2, <1>4, <1>11, <2>2, <2>3, WriterUnlocks
<1>12. CASE t \in held[a].readers
  <2>1. held[a].writer = NoTid /\ held[a].depth = 0
    BY <1>12, MutexFacts DEF HolderHolds
  <2>2. sync[a].owner = NoTid
    BY <2>1, MutexFacts DEF OwnerAgrees, Counted
  <2>3. sync' = [sync EXCEPT ![a].read_clock = Join(@, OwnClock(t))] /\ Return(t, OwnClock(t), Epoch(t))
    BY <1>3, <1>5, <2>2
  <2>4. QED BY <1>1, <1>2, <1>4, <1>9, <1>12, <2>3, ReaderUnlocks
<1>13. QED BY <1>6, <1>11, <1>12

LEMMA MutexReadLockKeepsInv ==
  ASSUME Inv, NEW t \in Tid, MutexReadLock(t)
  PROVE  Inv'
<1>1. Calling(t, "read_lock") /\ "read_lock" \in Op
  BY OpsAre DEF MutexReadLock
<1>2. PICK a \in Mutex : thr[t].call.addr = a /\ Pending(t, "read_lock", a)
  BY <1>1, CallingIsPending
<1>3. Running(t) /\ thr[t].at = "call"
  BY <1>1, CallingIsPending
<1> DEFINE s == sync[a]
           k == syncKnows[a]
           clock == Join(OwnClock(t), s.clock)
           K == knows[t] \cup k.lock
<1>4. /\ a \in Addr /\ s \in SyncRec /\ held[a] \in HeldRec /\ k \in [lock : Known, read : Known]
      /\ Past(k.lock) /\ Past(k.read) /\ Covers(s.clock, k.lock) /\ Covers(s.read_clock, k.read)
      /\ HolderHolds(a) /\ OwnerAgrees(a)
  BY MutexFacts
<1>5. /\ OwnClock(t) \in Clock /\ Epoch(t) \in Nat /\ knows[t] \in Known /\ Past(knows[t])
      /\ Covers(OwnClock(t), knows[t]) /\ thr[t] \in ThreadRec /\ thr[t].synch <= thr[t].epoch
  BY <1>3, ThreadFacts
<1>6. /\ Return(t, clock, thr[t].synch) /\ knows' = [knows EXCEPT ![t] = K]
      /\ UNCHANGED <<threads, sync, shadow, held, reports, lifeKnows, syncKnows, accesses>>
  BY <1>2 DEF MutexReadLock
<1>7. clock \in Clock /\ K \in Known /\ Past(K) /\ CoversOthers(clock, K, t) /\ knows[t] \subseteq K
  <2>1. s.clock \in Clock /\ k.lock \in Known
    BY <1>4 DEF SyncRec
  <2>2. clock \in Clock /\ Covers(clock, knows[t]) /\ Covers(clock, k.lock)
    BY <1>4, <1>5, <2>1, JoinCovers
  <2>3. K \in Known /\ Past(K)
    BY <1>4, <1>5, <2>1 DEF Known, Past
  <2>4. QED BY <2>2, <2>3, UnionCovers
<1> HIDE DEF clock, K
<1>8. Handles(t) /\ thr' \in [Tid -> ThreadRec] /\ thr'[t].clock = clock
  <2>1. thr[t].synch \in Nat /\ thr[t].synch <= Epoch(t)
    BY <1>5 DEF ThreadRec, Epoch
  <2>2. QED BY <1>3, <1>6, <1>7, <2>1, ReturnHandles
<1>9. /\ sync' = [sync EXCEPT ![a] = s] /\ held' = [held EXCEPT ![a] = held[a]]
      /\ syncKnows' = [syncKnows EXCEPT ![a] = k]
  BY <1>6 DEF Inv, FieldsTyped
<1>10. sync'[a] = s /\ held'[a] = held[a] /\ syncKnows'[a] = k
  BY <1>6
<1>11. /\ \A o \in Op : ~Pending(t, o, a)'
       /\ \A u \in Tid \ {t}, o \in Op : Pending(u, o, a)' <=> Pending(u, o, a)
       /\ \A u \in Tid : Running(u)' <=> Running(u)
  BY <1>8, PendingAfter DEF Handles, threads, Running
<1>12. t \in held[a].readers /\ held[a].writer = NoTid
  BY <1>2, <1>4 DEF HolderHolds
<1>13. HolderHolds(a)'
  <2>1. held[a].readers \subseteq Tid
    BY <1>4 DEF HeldRec
  <2>2. QED BY <1>4, <1>10, <1>11, <1>12, <2>1, OpsAre, TidsAreSlots DEF HolderHolds
<1>14. OwnerAgrees(a)'
  <2>1. Counted(a) = held[a].depth /\ Counted(a)' = held[a].depth /\ held[a].depth = 0
    BY <1>4, <1>10, <1>12 DEF Counted, HolderHolds
  <2>2. QED BY <1>4, <1>10, <1>12, <2>1 DEF OwnerAgrees
<1>15. QED BY <1>1, <1>2, <1>4, <1>6, <1>7, <1>8, <1>9, <1>13, <1>14, MutexHandlerKeepsInv

-----------------------------------------------------------------------------
(* Acquire and release.                                                     *)

\* An idle thread has no call pending, and its epoch has room.
LEMMA IdleFacts ==
  ASSUME Inv, NEW t \in Tid, Idle(t)
  PROVE  /\ Running(t) /\ thr[t].at = "idle" /\ thr[t].call = NoCall /\ thr[t].epoch < MaxEpoch
         /\ ~Scanning(t) /\ \A o \in Op : \A a : ~Pending(t, o, a)
<1>1. thr[t].at = "idle" /\ Running(t) /\ thr[t].epoch < MaxEpoch
  BY DEF Idle, Running
<1>2. thr[t].call = NoCall
  BY <1>1 DEF Inv, ThreadInStep
<1>3. QED BY <1>1, <1>2, NoCallIsNotPending DEF Scanning, Pending

\* An idle thread sets its clock.
LEMMA SetClockHandles ==
  ASSUME Inv, NEW t \in Tid, Idle(t), NEW clock \in Clock, SetClock(t, clock),
         NEW K \in Known, knows' = [knows EXCEPT ![t] = K],
         UNCHANGED <<threads, shadow, reports, lifeKnows, accesses>>
  PROVE  Handles(t) /\ thr' \in [Tid -> ThreadRec] /\ thr'[t].clock = clock
<1>1. thr \in [Tid -> ThreadRec] /\ (\A u \in Tid \ {t} : knows'[u] = knows[u])
  BY DEF Inv, FieldsTyped
<1>2. /\ thr' \in [Tid -> ThreadRec] /\ (\A u \in Tid \ {t} : thr'[u] = thr[u])
      /\ thr'[t].at = thr[t].at /\ thr'[t].call = thr[t].call /\ thr'[t].clock = clock
      /\ thr'[t].epoch = thr[t].epoch /\ thr'[t].synch = thr[t].synch
  BY <1>1 DEF SetClock, ThreadRec
<1>3. thr[t].at = "idle" /\ thr[t].call = NoCall /\ Running(t) /\ thr[t].epoch < MaxEpoch
  BY IdleFacts
<1>4. thr[t].epoch \in Nat /\ MaxEpoch \in Nat /\ thr[t].synch <= thr[t].epoch
  BY <1>1, <1>3, ThreadFacts, TidsAreSlots DEF ThreadRec
<1>5. QED BY <1>1, <1>2, <1>3, <1>4 DEF Handles

\* A handler of an atomic touches no mutex.
LEMMA AtomicHandlerKeepsInv ==
  ASSUME Inv, NEW t \in Tid, Idle(t), NEW a \in Atomic, Handles(t), thr' \in [Tid -> ThreadRec],
         NEW K \in Known, knows' = [knows EXCEPT ![t] = K], knows[t] \subseteq K, Past(K),
         CoversOthers(thr'[t].clock, K, t), UNCHANGED held,
         NEW sv \in SyncRec, sync' = [sync EXCEPT ![a] = sv],
         NEW sk \in [lock : Known, read : Known], syncKnows' = [syncKnows EXCEPT ![a] = sk],
         Past(sk.lock), Past(sk.read), Covers(sv.clock, sk.lock), Covers(sv.read_clock, sk.read)
  PROVE  Inv'
<1>1. Running(t) /\ a \in Addr /\ a \notin Mutex /\ Mutex \subseteq Addr
  BY IdleFacts, RaceAssumption DEF Addr
<1>2. \A b \in Mutex \ {a}, o \in Op : ~Pending(t, o, b)
  BY IdleFacts
<1>3. UNCHANGED <<threads, shadow, reports, lifeKnows, accesses, held>>
  BY DEF Handles
<1>4. knows'[t] = K /\ knows' \in [Tid -> Known]
  BY DEF Inv, FieldsTyped
<1>5. sync'[a] = sv /\ sync' \in [Addr -> SyncRec] /\ \A b \in Addr \ {a} : sync'[b] = sync[b]
  BY <1>1 DEF Inv, FieldsTyped
<1>6. /\ syncKnows'[a] = sk /\ syncKnows' \in [Addr -> [lock : Known, read : Known]]
      /\ \A b \in Addr \ {a} : syncKnows'[b] = syncKnows[b]
  BY <1>1 DEF Inv, FieldsTyped
<1>7. FieldsTyped'
  BY <1>3, <1>4, <1>5, <1>6 DEF Inv, FieldsTyped, threads
<1>8. \A b \in Mutex : HolderHolds(b)' /\ OwnerAgrees(b)'
  <2>1. \A b \in Mutex \ {a} : HolderHolds(b)' /\ OwnerAgrees(b)'
    BY <1>1, <1>2, <1>3, <1>4, <1>5, <1>6, OtherMutexes
  <2>2. QED BY <1>1, <2>1
<1>9. \A b \in Addr : Past(syncKnows'[b].lock) /\ Past(syncKnows'[b].read)
  BY <1>6 DEF Inv, KnowledgeIsPast
<1>10. SyncsCover'
  <2>1. ASSUME NEW b \in Addr
        PROVE  Covers(sync'[b].clock, syncKnows'[b].lock) /\ Covers(sync'[b].read_clock, syncKnows'[b].read)
    BY <1>5, <1>6 DEF Inv, SyncsCover
  <2>2. QED BY <2>1 DEF SyncsCover
<1>11. QED BY <1>1, <1>4, <1>7, <1>8, <1>9, <1>10, HandlerKeepsInv

LEMMA AtomicFacts ==
  ASSUME Inv, NEW a \in Atomic
  PROVE  /\ a \in Addr /\ sync[a] \in SyncRec /\ syncKnows[a] \in [lock : Known, read : Known]
         /\ sync[a].clock \in Clock /\ syncKnows[a].lock \in Known /\ syncKnows[a].read \in Known
         /\ Past(syncKnows[a].lock) /\ Past(syncKnows[a].read)
         /\ Covers(sync[a].clock, syncKnows[a].lock) /\ Covers(sync[a].read_clock, syncKnows[a].read)
<1>1. a \in Addr
  BY DEF Addr
<1>2. sync[a] \in SyncRec /\ syncKnows[a] \in [lock : Known, read : Known]
  BY <1>1 DEF Inv, FieldsTyped
<1>3. QED BY <1>1, <1>2 DEF Inv, KnowledgeIsPast, SyncsCover, SyncRec

LEMMA AcquireKeepsInv ==
  ASSUME Inv, NEW t \in Tid, NEW a \in Atomic, Acquire(t, a)
  PROVE  Inv'
<1> DEFINE s == sync[a]
           k == syncKnows[a]
           clock == Join(CurrentClock(t), s.clock)
           K == knows[t] \cup k.lock
<1>1. /\ Idle(t) /\ SetClock(t, clock) /\ knows' = [knows EXCEPT ![t] = K]
      /\ UNCHANGED <<threads, sync, shadow, held, reports, lifeKnows, syncKnows, accesses>>
  BY DEF Acquire
<1>2. /\ s \in SyncRec /\ s.clock \in Clock /\ k \in [lock : Known, read : Known] /\ k.lock \in Known
      /\ Past(k.lock) /\ Past(k.read) /\ Covers(s.clock, k.lock) /\ Covers(s.read_clock, k.read)
  BY AtomicFacts
<1>3. CurrentClock(t) \in Clock /\ knows[t] \in Known /\ Past(knows[t]) /\ Covers(CurrentClock(t), knows[t])
  BY <1>1, IdleFacts, ThreadFacts
<1>4. clock \in Clock /\ K \in Known /\ Past(K) /\ CoversOthers(clock, K, t) /\ knows[t] \subseteq K
  <2>1. clock \in Clock /\ Covers(clock, knows[t]) /\ Covers(clock, k.lock)
    BY <1>2, <1>3, JoinCovers
  <2>2. K \in Known /\ Past(K)
    BY <1>2, <1>3 DEF Known, Past
  <2>3. QED BY <2>1, <2>2, UnionCovers
<1> HIDE DEF clock, K
<1>5. Handles(t) /\ thr' \in [Tid -> ThreadRec] /\ thr'[t].clock = clock
  BY <1>1, <1>4, SetClockHandles
<1>6. sync' = [sync EXCEPT ![a] = s] /\ syncKnows' = [syncKnows EXCEPT ![a] = k]
  BY <1>1 DEF Inv, FieldsTyped
<1>7. QED BY <1>1, <1>2, <1>4, <1>5, <1>6, AtomicHandlerKeepsInv

\* What both releases do: the clock they leave covers the knowledge they leave.
LEMMA ReleasesKeepInv ==
  ASSUME Inv, NEW t \in Tid, Idle(t), NEW a \in Atomic, SetClock(t, CurrentClock(t)),
         NEW clock \in Clock, sync' = [sync EXCEPT ![a].clock = clock],
         NEW L \in Known, syncKnows' = [syncKnows EXCEPT ![a].lock = L], Past(L), Covers(clock, L),
         UNCHANGED <<threads, shadow, held, reports, knows, lifeKnows, accesses>>
  PROVE  Inv'
<1> DEFINE sv == [sync[a] EXCEPT !.clock = clock]
           sk == [syncKnows[a] EXCEPT !.lock = L]
<1>1. CurrentClock(t) \in Clock /\ knows[t] \in Known /\ Past(knows[t]) /\ Covers(CurrentClock(t), knows[t])
  BY IdleFacts, ThreadFacts
<1>2. /\ sync[a] \in SyncRec /\ syncKnows[a] \in [lock : Known, read : Known]
      /\ Past(syncKnows[a].read) /\ Covers(sync[a].read_clock, syncKnows[a].read)
  BY AtomicFacts
<1>3. /\ sv \in SyncRec /\ sk \in [lock : Known, read : Known]
      /\ sv.clock = clock /\ sk.lock = L /\ sv.read_clock = sync[a].read_clock /\ sk.read = syncKnows[a].read
  BY <1>2 DEF SyncRec
<1>4. sync' = [sync EXCEPT ![a] = sv] /\ syncKnows' = [syncKnows EXCEPT ![a] = sk]
  OBVIOUS
<1>5. Past(sk.lock) /\ Past(sk.read) /\ Covers(sv.clock, sk.lock) /\ Covers(sv.read_clock, sk.read)
  BY <1>2, <1>3
<1> HIDE DEF sv, sk
<1>6. knows' = [knows EXCEPT ![t] = knows[t]]
  BY DEF Inv, FieldsTyped
<1>7. Handles(t) /\ thr' \in [Tid -> ThreadRec] /\ thr'[t].clock = CurrentClock(t)
  BY <1>1, <1>6, SetClockHandles
<1>8. CoversOthers(thr'[t].clock, knows[t], t)
  BY <1>1, <1>7, UnionCovers
<1>9. QED BY <1>1, <1>3, <1>4, <1>5, <1>6, <1>7, <1>8, AtomicHandlerKeepsInv

LEMMA ReleaseKeepsInv ==
  ASSUME Inv, NEW t \in Tid, NEW a \in Atomic, Release(t, a)
  PROVE  Inv'
<1> DEFINE clock == Join(sync[a].clock, CurrentClock(t))
           L == syncKnows[a].lock \cup knows[t]
<1>1. Idle(t)
  BY DEF Release
<1>2. CurrentClock(t) \in Clock /\ knows[t] \in Known /\ Past(knows[t]) /\ Covers(CurrentClock(t), knows[t])
  BY <1>1, IdleFacts, ThreadFacts
<1>3. /\ sync[a].clock \in Clock /\ syncKnows[a].lock \in Known
      /\ Past(syncKnows[a].lock) /\ Covers(sync[a].clock, syncKnows[a].lock)
  BY AtomicFacts
<1>4. clock \in Clock /\ L \in Known /\ Past(L) /\ Covers(clock, L)
  <2>1. clock \in Clock /\ Covers(clock, knows[t]) /\ Covers(clock, syncKnows[a].lock)
    BY <1>2, <1>3, JoinCovers
  <2>2. L \in Known /\ Past(L)
    BY <1>2, <1>3 DEF Known, Past
  <2>3. QED BY <2>1, <2>2, UnionCovers
<1>5. sync' = [sync EXCEPT ![a].clock = clock] /\ syncKnows' = [syncKnows EXCEPT ![a].lock = L]
  BY DEF Release
<1>6. SetClock(t, CurrentClock(t)) /\ UNCHANGED <<threads, shadow, held, reports, knows, lifeKnows, accesses>>
  BY DEF Release
<1> HIDE DEF clock, L
<1>7. QED BY <1>1, <1>4, <1>5, <1>6, ReleasesKeepInv

LEMMA ReleaseStoreKeepsInv ==
  ASSUME Inv, NEW t \in Tid, NEW a \in Atomic, ReleaseStore(t, a)
  PROVE  Inv'
<1>1. Idle(t)
  BY DEF ReleaseStore
<1>2. CurrentClock(t) \in Clock /\ knows[t] \in Known /\ Past(knows[t]) /\ Covers(CurrentClock(t), knows[t])
  BY <1>1, IdleFacts, ThreadFacts
<1>3. sync' = [sync EXCEPT ![a].clock = CurrentClock(t)] /\ syncKnows' = [syncKnows EXCEPT ![a].lock = knows[t]]
  BY DEF ReleaseStore, ReleaseStoreClock
<1>4. SetClock(t, CurrentClock(t)) /\ UNCHANGED <<threads, shadow, held, reports, knows, lifeKnows, accesses>>
  BY DEF ReleaseStore
<1>5. QED BY <1>1, <1>2, <1>3, <1>4, ReleasesKeepInv

-----------------------------------------------------------------------------
(* The scan of a shadow cell.                                               *)

\* A step of the scan of t: its clock, its call and the access it makes stay.
Scans(t) ==
  /\ UNCHANGED <<threads, sync, held, history, accesses>>
  /\ thr' \in [Tid -> ThreadRec] /\ \A u \in Tid \ {t} : thr'[u] = thr[u]
  /\ thr'[t].epoch = thr[t].epoch /\ thr'[t].synch = thr[t].synch
  /\ thr'[t].clock = thr[t].clock /\ thr'[t].call = thr[t].call
  /\ \/ Scanning(t)' /\ thr'[t].cur = thr[t].cur
     \/ thr'[t].at = IF thr[t].call = NoCall THEN "idle" ELSE "call"

ScansRace(t) ==
  thr'[t].at = "report" =>
    LET old == thr'[t].old IN
    /\ old \in Word /\ old \in accesses[thr[t].cur.cell] /\ old.tid # t
    /\ Conflict(thr[t].cur, old) /\ thr[t].clock[old.tid] < old.epoch

LEMMA ScanKeepsInv ==
  ASSUME Inv, NEW t \in Tid, Scanning(t), Scans(t), ScansRace(t),
         shadow' \in [AnyCell -> [SlotIdx -> Word \cup {Empty}]], ShadowIsAccessed', NoFalseAlarm'
  PROVE  Inv'
<1>1. /\ tctx' = tctx /\ threadSeq' = threadSeq /\ uidSeq' = uidSeq /\ deadList' = deadList
      /\ sync' = sync /\ held' = held /\ knows' = knows /\ lifeKnows' = lifeKnows
      /\ syncKnows' = syncKnows /\ accesses' = accesses
      /\ \A u \in Tid \ {t} : thr'[u] = thr[u]
  BY DEF Scans, threads, history
<1>2. FieldsTyped'
  BY <1>1 DEF Inv, FieldsTyped, Scans
<1>3. thr[t].at # "idle" /\ Running(t)
  BY DEF Inv, ThreadInStep, Scanning
<1>4. \A u \in Tid : (Running(u)' <=> Running(u)) /\ Reached(u)' = Reached(u)
  BY <1>1 DEF Running, Reached, Scans
<1>5. \A u \in Tid : ThreadInStep(u)'
  <2>1. ThreadInStep(t)'
    <3>1. thr[t].epoch \in Nat /\ thr[t].epoch <= MaxEpoch /\ MaxEpoch \in Nat /\ ThreadInStep(t)
      BY <1>3, TidsAreSlots DEF Inv, FieldsTyped, ThreadInStep, ThreadRec
    <3>2. QED BY <1>1, <1>3, <1>4, <3>1 DEF ThreadInStep, Scans, Scanning
  <2>2. \A u \in Tid \ {t} : ThreadInStep(u)'
    BY <1>1 DEF Inv, ThreadInStep, Running
  <2>3. QED BY <2>1, <2>2
<1>6. SlotsAreFree'
  BY <1>1 DEF Inv, SlotsAreFree, Running
<1>7. AccessesArePast'
  <2>1. \A c \in AnyCell : \A a \in accesses[c] : a.tid \in Tid
    BY DEF Inv, FieldsTyped, Word
  <2>2. QED BY <1>1, <1>4, <2>1 DEF Inv, AccessesArePast
<1>8. EpochsAreUnique'
  BY <1>1 DEF Inv, EpochsAreUnique, AllAccesses
<1>9. KnowledgeIsPast'
  <2>1. \A K \in Known : \A id \in K : id[1] \in Tid
    BY DEF Known
  <2>2. \A K \in Known : Past(K) => Past(K)'
    BY <1>4, <2>1 DEF Past
  <2>3. QED BY <1>1, <2>2 DEF Inv, KnowledgeIsPast, FieldsTyped
<1>10. ThreadsCover'
  BY <1>1, <1>4 DEF Inv, ThreadsCover, Scans
<1>11. SyncsCover'
  BY <1>1 DEF Inv, SyncsCover
<1>12. \A a \in Mutex : HolderHolds(a)' /\ OwnerAgrees(a)'
  <2>1. \A u \in Tid, o \in Op : \A a : Pending(u, o, a)' <=> Pending(u, o, a)
    BY <1>1 DEF Pending, Scans
  <2>2. ASSUME NEW a \in Mutex PROVE HolderHolds(a)' /\ OwnerAgrees(a)'
    <3>1. FieldsTyped /\ HolderHolds(a) /\ OwnerAgrees(a)
      BY DEF Inv
    <3>2. \A u \in Tid : held[a].writer = u \/ u \in held[a].readers => Running(u)
      BY <3>1, TidsAreSlots DEF HolderHolds
    <3>3. QED BY <1>1, <1>4, <2>1, <3>1, <3>2, MutexIsLeftAlone
  <2>3. QED BY <2>2
<1>13. ScansAreReal'
  <2>1. ASSUME NEW u \in Tid \ {t}
        PROVE  /\ Scanning(u)' => /\ thr'[u].cur \in Word /\ thr'[u].cur \in accesses'[thr'[u].cur.cell]
                                  /\ thr'[u].cur.tid = u /\ thr'[u].cur.uid = tctx'[u].uid
               /\ thr'[u].at = "report" =>
                    /\ thr'[u].old \in Word /\ thr'[u].old \in accesses'[thr'[u].cur.cell] /\ thr'[u].old.tid # u
                    /\ Conflict(thr'[u].cur, thr'[u].old) /\ thr'[u].clock[thr'[u].old.tid] < thr'[u].old.epoch
    BY <1>1 DEF Inv, ScansAreReal, Scanning
  <2>2. /\ Scanning(t)' => /\ thr'[t].cur \in Word /\ thr'[t].cur \in accesses'[thr'[t].cur.cell]
                           /\ thr'[t].cur.tid = t /\ thr'[t].cur.uid = tctx'[t].uid
        /\ thr'[t].at = "report" =>
             /\ thr'[t].old \in Word /\ thr'[t].old \in accesses'[thr'[t].cur.cell] /\ thr'[t].old.tid # t
             /\ Conflict(thr'[t].cur, thr'[t].old) /\ thr'[t].clock[thr'[t].old.tid] < thr'[t].old.epoch
    <3>1. Scanning(t)' => thr'[t].cur = thr[t].cur
      BY DEF Scans, Scanning
    <3>2. /\ thr[t].cur \in Word /\ thr[t].cur \in accesses[thr[t].cur.cell]
          /\ thr[t].cur.tid = t /\ thr[t].cur.uid = tctx[t].uid
      BY DEF Inv, ScansAreReal
    <3>3. thr'[t].at = "report" => Scanning(t)'
      BY DEF Scanning
    <3>4. thr'[t].clock = thr[t].clock
      BY DEF Scans
    <3>5. QED BY <1>1, <3>1, <3>2, <3>3, <3>4 DEF ScansRace
  <2>3. QED BY <2>1, <2>2 DEF ScansAreReal
<1>14. QED BY <1>2, <1>5, <1>6, <1>7, <1>8, <1>9, <1>10, <1>11, <1>12, <1>13 DEF Inv

\* The ways in which a round of the scan goes on.
LEMMA ScanMoves ==
  ASSUME Inv, NEW t \in Tid, Scanning(t), UNCHANGED <<threads, sync, held, history, accesses>>
  PROVE  /\ EndAccess(t) => Scans(t) /\ ScansRace(t)
         /\ NextSlot(t) => Scans(t) /\ ScansRace(t)
         /\ StoreHere(t) => Scans(t) /\ ScansRace(t)
         /\ \A old \in Word : HandleRace(t, old) => Scans(t) /\ thr'[t].old = old
<1>1. /\ thr \in [Tid -> ThreadRec] /\ thr[t].idx \in SlotIdx /\ 0 \in SlotIdx
      /\ "idle" \in At /\ "call" \in At /\ "scan" \in At /\ "evict" \in At /\ "store" \in At /\ "report" \in At
  BY RaceAssumption DEF Inv, FieldsTyped, ThreadRec, SlotIdx, At
<1>2. EndAccess(t) => Scans(t) /\ ScansRace(t)
  <2> SUFFICES ASSUME EndAccess(t) PROVE Scans(t) /\ ScansRace(t)
    OBVIOUS
  <2> DEFINE at == IF thr[t].call = NoCall THEN "idle" ELSE "call"
             r == [thr[t] EXCEPT !.at = at, !.cur = Empty, !.old = Empty, !.idx = 0, !.stored = FALSE]
  <2>1. thr' = [thr EXCEPT ![t] = r]
    BY DEF EndAccess
  <2>2. at \in At /\ at # "report"
    BY <1>1
  <2> HIDE DEF at
  <2>3. /\ r \in ThreadRec /\ r.at = at /\ r.epoch = thr[t].epoch /\ r.synch = thr[t].synch
        /\ r.clock = thr[t].clock /\ r.call = thr[t].call
    BY <1>1, <2>2 DEF ThreadRec
  <2> HIDE DEF r
  <2>4. thr'[t] = r /\ thr' \in [Tid -> ThreadRec] /\ \A u \in Tid \ {t} : thr'[u] = thr[u]
    BY <1>1, <2>1, <2>3
  <2>5. thr'[t].at = IF thr[t].call = NoCall THEN "idle" ELSE "call"
    BY <2>3, <2>4 DEF at
  <2>6. QED BY <2>2, <2>3, <2>4, <2>5 DEF Scans, ScansRace
<1>3. NextSlot(t) => Scans(t) /\ ScansRace(t)
  <2>1. CASE thr[t].idx + 1 < ShadowCnt
    <3>1. thr[t].idx + 1 \in SlotIdx
      BY <1>1, <2>1, RaceAssumption DEF SlotIdx
    <3>2. QED BY <1>1, <2>1, <3>1 DEF NextSlot, Scans, ScansRace, ThreadRec, Scanning
  <2>2. CASE ~(thr[t].idx + 1 < ShadowCnt) /\ thr[t].stored
    BY <1>2, <2>2 DEF NextSlot
  <2>3. CASE ~(thr[t].idx + 1 < ShadowCnt) /\ ~thr[t].stored
    BY <1>1, <2>3 DEF NextSlot, Scans, ScansRace, ThreadRec, Scanning
  <2>4. QED BY <2>1, <2>2, <2>3
<1>4. StoreHere(t) => Scans(t) /\ ScansRace(t)
  BY <1>1 DEF StoreHere, Scans, ScansRace, ThreadRec, Scanning
<1>5. ASSUME NEW old \in Word, HandleRace(t, old) PROVE Scans(t) /\ thr'[t].old = old
  <2> DEFINE r == [thr[t] EXCEPT !.at = "report", !.old = old]
  <2>1. thr' = [thr EXCEPT ![t] = r]
    BY <1>5 DEF HandleRace
  <2>2. /\ r \in ThreadRec /\ r.at = "report" /\ r.old = old /\ r.cur = thr[t].cur
        /\ r.epoch = thr[t].epoch /\ r.synch = thr[t].synch /\ r.clock = thr[t].clock /\ r.call = thr[t].call
    BY <1>1 DEF ThreadRec
  <2> HIDE DEF r
  <2>3. thr'[t] = r /\ thr' \in [Tid -> ThreadRec] /\ \A u \in Tid \ {t} : thr'[u] = thr[u]
    BY <1>1, <2>1, <2>2
  <2>4. QED BY <2>2, <2>3 DEF Scans, Scanning
<1>6. QED BY <1>2, <1>3, <1>4, <1>5

\* The access that a scan makes, and what of it the invariant says.
LEMMA ScanFacts ==
  ASSUME Inv, NEW t \in Tid, Scanning(t)
  PROVE  /\ Running(t) /\ thr[t] \in ThreadRec /\ t < threadSeq
         /\ thr[t].cur \in Word /\ thr[t].cur.cell \in AnyCell /\ thr[t].cur \in accesses[thr[t].cur.cell]
         /\ thr[t].cur.tid = t /\ thr[t].cur.uid = tctx[t].uid
<1>1. thr[t].at # "idle" /\ Running(t) /\ thr[t] \in ThreadRec
  BY DEF Inv, ThreadInStep, Scanning, FieldsTyped
<1>2. t < threadSeq
  BY <1>1, TidsAreSlots DEF Inv, SlotsAreFree, Running, FieldsTyped
<1>3. QED BY <1>1, <1>2 DEF Inv, ScansAreReal, Word

LEMMA SlotsOfAScan ==
  ASSUME Inv, NEW t \in Tid, Scanning(t)
  PROVE  /\ Slot(t) \in SlotIdx
         /\ shadow[thr[t].cur.cell][Slot(t)] = Empty
            \/ /\ shadow[thr[t].cur.cell][Slot(t)] \in Word
               /\ shadow[thr[t].cur.cell][Slot(t)] \in accesses[thr[t].cur.cell]
<1>1. thr[t].idx \in Nat /\ thr[t].cur.range.addr0 \in Nat /\ thr[t].cur.cell \in AnyCell
  BY ScanFacts DEF ThreadRec, Word, AnyRange, SlotIdx
<1>2. Slot(t) \in SlotIdx
  <2> DEFINE n == thr[t].idx + thr[t].cur.range.addr0
  <2>1. n \in Nat /\ ShadowCnt \in Nat \ {0}
    BY <1>1, RaceAssumption
  <2> HIDE DEF n
  <2>2. n % ShadowCnt \in 0 .. ShadowCnt - 1
    BY <2>1
  <2>3. QED BY <2>2 DEF Slot, SlotIdx, n
<1>3. QED BY <1>1, <1>2 DEF Inv, ShadowIsAccessed, FieldsTyped

\* An access of another thread to the same bytes, not both reads, conflicts.
LEMMA OldConflicts ==
  ASSUME Inv, NEW t \in Tid, Scanning(t), NEW old \in Word, old \in accesses[thr[t].cur.cell],
         old.tid # t, ~BothReads(old, thr[t].cur),
         old.range = thr[t].cur.range \/ Intersect(old.range, thr[t].cur.range)
  PROVE  Conflict(thr[t].cur, old)
<1> DEFINE cur == thr[t].cur
<1>1. /\ cur \in Word /\ cur.cell \in AnyCell /\ cur.uid = tctx[t].uid /\ t < threadSeq
  BY ScanFacts
<1>2. old.cell = cur.cell /\ \A u \in Tid : u < threadSeq /\ tctx[u].uid = old.uid => old.tid = u
  BY <1>1 DEF Inv, AccessesArePast
<1>3. old.uid # cur.uid
  BY <1>1, <1>2
<1>4. old.range \in AnyRange /\ cur.range \in AnyRange
  BY <1>1 DEF Word
<1> HIDE DEF cur
<1>5. Intersect(cur.range, old.range)
  <2>1. /\ old.range.addr0 \in Int /\ old.range.size \in Int /\ old.range.size > 0
        /\ cur.range.addr0 \in Int /\ cur.range.size \in Int /\ cur.range.size > 0
    BY <1>4 DEF AnyRange
  <2>2. old.range = cur.range \/ Intersect(old.range, cur.range)
    BY DEF cur
  <2>3. QED BY <2>1, <2>2 DEF Intersect
<1>6. cur.write \/ old.write
  BY DEF BothReads, cur
<1>7. QED BY <1>2, <1>3, <1>5, <1>6 DEF Conflict, cur

LEMMA ScanSlotKeepsInv ==
  ASSUME Inv, NEW t \in Tid, ScanSlot(t)
  PROVE  Inv'
<1>0. PICK cur, old : thr[t].cur = cur /\ shadow[cur.cell][Slot(t)] = old
  OBVIOUS
<1> DEFINE races == old.tid # cur.tid /\ ~HappensBefore(old, t) /\ ~BothReads(old, cur)
<1>1. Scanning(t) /\ UNCHANGED <<threads, sync, shadow, held, reports, history, accesses, missed>>
  BY <1>0 DEF ScanSlot, Scanning
<1>2. \/ NextSlot(t) \/ StoreHere(t) \/ EndAccess(t)
      \/ /\ old # Empty /\ races /\ HandleRace(t, old)
         /\ old.range = cur.range \/ Intersect(old.range, cur.range)
  BY <1>0 DEF ScanSlot
<1>3. UNCHANGED <<threads, sync, held, history, accesses>>
  BY <1>1
<1>4. Scans(t) /\ ScansRace(t)
  <2>1. CASE NextSlot(t) \/ StoreHere(t) \/ EndAccess(t)
    BY <1>1, <1>3, <2>1, ScanMoves
  <2>2. CASE /\ old # Empty /\ races /\ HandleRace(t, old)
             /\ old.range = cur.range \/ Intersect(old.range, cur.range)
    <3>1. old \in Word /\ old \in accesses[cur.cell] /\ cur.tid = t
      BY <1>0, <1>1, <2>2, SlotsOfAScan, ScanFacts
    <3>2. old.tid # t /\ ~HappensBefore(old, t) /\ ~BothReads(old, cur)
      BY <2>2, <3>1
    <3> HIDE DEF races
    <3>3. Conflict(cur, old)
      BY <1>0, <1>1, <2>2, <3>1, <3>2, OldConflicts
    <3>4. thr[t].clock[old.tid] < old.epoch
      <4>1. thr[t].clock \in Clock /\ old.tid \in Tid /\ old.epoch \in Nat
        BY <1>1, <3>1, ScanFacts DEF ThreadRec, Word
      <4>2. QED BY <3>2, <4>1 DEF HappensBefore, Clock
    <3>5. Scans(t) /\ thr'[t].old = old
      BY <1>1, <1>3, <2>2, <3>1, ScanMoves
    <3>6. QED BY <1>0, <3>1, <3>2, <3>3, <3>4, <3>5 DEF ScansRace
  <2>3. QED BY <1>2, <2>1, <2>2
<1>5. /\ shadow' \in [AnyCell -> [SlotIdx -> Word \cup {Empty}]] /\ ShadowIsAccessed' /\ NoFalseAlarm'
  BY <1>1 DEF Inv, FieldsTyped, ShadowIsAccessed, NoFalseAlarm
<1>6. QED BY <1>1, <1>4, <1>5, ScanKeepsInv

\* A store to the shadow: the scanned access, or the empty word.
LEMMA StoresKeepInv ==
  ASSUME Inv, NEW t \in Tid, Scanning(t), Scans(t), ScansRace(t), UNCHANGED reports,
         NEW i, NEW w \in {thr[t].cur, Empty}, shadow' = [shadow EXCEPT ![thr[t].cur.cell][i] = w]
  PROVE  Inv'
<1>1. thr[t].cur \in Word /\ thr[t].cur.cell \in AnyCell /\ thr[t].cur \in accesses[thr[t].cur.cell]
  BY ScanFacts
<1>2. w \in Word \cup {Empty} /\ (w = Empty \/ w \in accesses[thr[t].cur.cell])
  BY <1>1
<1>3. shadow \in [AnyCell -> [SlotIdx -> Word \cup {Empty}]] /\ accesses' = accesses
  BY DEF Inv, FieldsTyped, Scans
<1>4. shadow' \in [AnyCell -> [SlotIdx -> Word \cup {Empty}]]
  BY <1>1, <1>2, <1>3
<1>5. ShadowIsAccessed'
  <2>1. ShadowIsAccessed
    BY DEF Inv
  <2>2. ASSUME NEW c \in AnyCell, NEW j \in SlotIdx
        PROVE  shadow'[c][j] = Empty \/ shadow'[c][j] \in accesses[c]
    BY <1>1, <1>2, <1>3, <2>1 DEF ShadowIsAccessed
  <2>3. QED BY <1>3, <2>2 DEF ShadowIsAccessed
<1>6. NoFalseAlarm'
  BY DEF Inv, NoFalseAlarm
<1>7. QED BY <1>4, <1>5, <1>6, ScanKeepsInv

LEMMA StoreSlotKeepsInv ==
  ASSUME Inv, NEW t \in Tid, StoreSlot(t)
  PROVE  Inv'
<1>1. Scanning(t) /\ UNCHANGED <<threads, sync, held, history, accesses>> /\ UNCHANGED reports
  BY DEF StoreSlot, Scanning
<1>2. PICK w \in {thr[t].cur, Empty} : shadow' = [shadow EXCEPT ![thr[t].cur.cell][Slot(t)] = w]
  BY DEF StoreSlot
<1>3. \/ EndAccess(t)
      \/ /\ thr[t].idx + 1 # ShadowCnt
         /\ thr' = [thr EXCEPT ![t].stored = TRUE, ![t].idx = @ + 1, ![t].at = "scan"]
  BY DEF StoreSlot
<1>4. Scans(t) /\ ScansRace(t)
  <2>1. CASE EndAccess(t)
    BY <1>1, <2>1, ScanMoves
  <2>2. CASE /\ thr[t].idx + 1 # ShadowCnt
             /\ thr' = [thr EXCEPT ![t].stored = TRUE, ![t].idx = @ + 1, ![t].at = "scan"]
    <3> DEFINE r == [thr[t] EXCEPT !.stored = TRUE, !.idx = thr[t].idx + 1, !.at = "scan"]
    <3>1. thr' = [thr EXCEPT ![t] = r] /\ thr \in [Tid -> ThreadRec]
      BY <2>2 DEF Inv, FieldsTyped
    <3>2. thr[t].idx + 1 \in SlotIdx /\ "scan" \in At
      BY <2>2, <3>1, RaceAssumption DEF ThreadRec, SlotIdx, At
    <3>3. /\ r \in ThreadRec /\ r.at = "scan" /\ r.cur = thr[t].cur
          /\ r.epoch = thr[t].epoch /\ r.synch = thr[t].synch /\ r.clock = thr[t].clock /\ r.call = thr[t].call
      BY <3>1, <3>2 DEF ThreadRec
    <3> HIDE DEF r
    <3>4. thr'[t] = r /\ thr' \in [Tid -> ThreadRec] /\ \A u \in Tid \ {t} : thr'[u] = thr[u]
      BY <3>1, <3>3
    <3>5. QED BY <1>1, <3>3, <3>4 DEF Scans, ScansRace, Scanning
  <2>3. QED BY <1>3, <2>1, <2>2
<1>5. QED BY <1>1, <1>2, <1>4, StoresKeepInv

LEMMA EvictSlotKeepsInv ==
  ASSUME Inv, NEW t \in Tid, EvictSlot(t)
  PROVE  Inv'
<1>1. Scanning(t) /\ UNCHANGED <<threads, sync, held, history, accesses>> /\ UNCHANGED reports
  BY DEF EvictSlot, Scanning
<1>2. EndAccess(t) /\ shadow' = [shadow EXCEPT ![thr[t].cur.cell][thr[t].cur.epoch % ShadowCnt] = thr[t].cur]
  BY DEF EvictSlot
<1>3. Scans(t) /\ ScansRace(t)
  BY <1>1, <1>2, ScanMoves
<1>4. QED BY <1>1, <1>2, <1>3, StoresKeepInv

\* The report is no false alarm: what the thread knows its clock covers.
LEMMA ReportRaceKeepsInv ==
  ASSUME Inv, NEW t \in Tid, ReportRace(t)
  PROVE  Inv'
<1> DEFINE cur == thr[t].cur
           old == thr[t].old
           named == NamedThread(old)
           report == [cur |-> cur, old |-> old, ordered |-> Id(old) \in knows[t], thread |-> named]
<1>1. /\ thr[t].at = "report" /\ Scanning(t) /\ EndAccess(t) /\ reports' = reports \cup {report}
      /\ UNCHANGED <<threads, sync, held, history, accesses>> /\ UNCHANGED shadow
  BY DEF ReportRace, Scanning
<1>2. Scans(t) /\ ScansRace(t)
  BY <1>1, ScanMoves
<1>3. /\ old \in Word /\ old.tid # t /\ Conflict(cur, old) /\ thr[t].clock[old.tid] < old.epoch
  BY <1>1 DEF Inv, ScansAreReal
<1>4. Id(old) \notin knows[t]
  <2>1. CoversOthers(thr[t].clock, knows[t], t) /\ thr[t].clock \in Clock
    BY <1>1, ScanFacts, ThreadFacts DEF ThreadRec
  <2>2. thr[t].clock[old.tid] \in Nat /\ old.epoch \in Nat
    BY <1>3, <2>1 DEF Clock, Word
  <2>3. Id(old) \in knows[t] => old.epoch <= thr[t].clock[old.tid]
    BY <1>3, <2>1 DEF CoversOthers, Id
  <2>4. QED BY <1>3, <2>2, <2>3
<1>5. NoFalseAlarm'
  <2>1. report.cur = cur /\ report.old = old /\ ~report.ordered
    BY <1>4
  <2> HIDE DEF report
  <2>2. \A r \in reports' : r \in reports \/ r = report
    BY <1>1
  <2>3. QED BY <1>3, <2>1, <2>2 DEF Inv, NoFalseAlarm
<1>6. shadow' \in [AnyCell -> [SlotIdx -> Word \cup {Empty}]] /\ ShadowIsAccessed'
  BY <1>1 DEF Inv, FieldsTyped, ShadowIsAccessed, Scans
<1>7. QED BY <1>1, <1>2, <1>5, <1>6, ScanKeepsInv

-----------------------------------------------------------------------------
(* The start of an access, and of a call of a mutex handler.                *)

LEMMA StartScanMoves ==
  ASSUME Inv, NEW t \in Tid, Idle(t), NEW cur \in Word, NEW call \in Call, StartScan(t, cur, call)
  PROVE  /\ thr' \in [Tid -> ThreadRec] /\ \A u \in Tid \ {t} : thr'[u] = thr[u]
         /\ thr'[t].epoch = thr[t].epoch + 1 /\ thr'[t].synch = thr[t].synch /\ thr'[t].clock = thr[t].clock
         /\ thr'[t].at = "scan" /\ thr'[t].call = call /\ thr'[t].cur = cur
<1> DEFINE e == thr[t].epoch + 1
           r == [thr[t] EXCEPT !.epoch = e, !.at = "scan", !.call = call,
                               !.cur = cur, !.idx = 0, !.stored = FALSE]
<1>1. thr \in [Tid -> ThreadRec] /\ 0 \in SlotIdx /\ "scan" \in At
  BY RaceAssumption DEF Inv, FieldsTyped, SlotIdx, At
<1>2. thr' = [thr EXCEPT ![t] = r]
  BY DEF StartScan
<1>3. e \in Nat
  BY <1>1 DEF ThreadRec
<1>4. /\ r \in ThreadRec /\ r.epoch = e /\ r.synch = thr[t].synch /\ r.clock = thr[t].clock
      /\ r.at = "scan" /\ r.call = call /\ r.cur = cur
  BY <1>1, <1>3 DEF ThreadRec
<1> HIDE DEF r
<1>5. thr'[t] = r /\ thr' \in [Tid -> ThreadRec] /\ \A u \in Tid \ {t} : thr'[u] = thr[u]
  BY <1>1, <1>2, <1>4
<1>6. QED BY <1>4, <1>5

\* The word of a new access: its epoch is past all others of the slot.
LEMMA MopIsNew ==
  ASSUME Inv, NEW t \in Tid, Idle(t), NEW c \in AnyCell, NEW range \in AnyRange, NEW write \in BOOLEAN
  PROVE  /\ Mop(t, c, range, write) \in Word
         /\ Mop(t, c, range, write).tid = t /\ Mop(t, c, range, write).epoch = thr[t].epoch + 1
         /\ Mop(t, c, range, write).uid = tctx[t].uid /\ Mop(t, c, range, write).cell = c
         /\ thr[t].epoch \in Nat /\ Reached(t) = thr[t].epoch /\ t < threadSeq
<1>1. Running(t) /\ thr[t].epoch \in Nat /\ tctx[t].uid \in Nat
  BY IdleFacts DEF Inv, FieldsTyped, ThreadRec, Context
<1>2. t < threadSeq
  BY <1>1, TidsAreSlots DEF Inv, SlotsAreFree, Running, FieldsTyped
<1>3. QED BY <1>1, <1>2 DEF Mop, Word, Reached

LEMMA AccessKeepsInv ==
  ASSUME Inv, NEW t \in Tid, Idle(t), NEW cur \in Word, NEW call \in Call, StartScan(t, cur, call),
         cur.tid = t, cur.epoch = thr[t].epoch + 1, cur.uid = tctx[t].uid,
         held' \in [Mutex -> HeldRec], \A a \in Mutex : HolderHolds(a)' /\ OwnerAgrees(a)'
  PROVE  Inv'
<1>1. /\ tctx' = tctx /\ threadSeq' = threadSeq /\ uidSeq' = uidSeq /\ deadList' = deadList
      /\ sync' = sync /\ shadow' = shadow /\ reports' = reports
      /\ lifeKnows' = lifeKnows /\ syncKnows' = syncKnows
      /\ accesses' = [accesses EXCEPT ![cur.cell] = @ \cup {cur}]
      /\ knows' = [knows EXCEPT ![t] = @ \cup {Id(cur)}]
  BY DEF StartScan, threads
<1>2. /\ thr' \in [Tid -> ThreadRec] /\ \A u \in Tid \ {t} : thr'[u] = thr[u]
      /\ thr'[t].epoch = thr[t].epoch + 1 /\ thr'[t].synch = thr[t].synch /\ thr'[t].clock = thr[t].clock
      /\ thr'[t].at = "scan" /\ thr'[t].call = call /\ thr'[t].cur = cur
  BY StartScanMoves
<1>3. /\ Running(t) /\ thr[t] \in ThreadRec /\ thr[t].epoch < MaxEpoch /\ knows[t] \in Known
      /\ thr[t].epoch \in Nat /\ MaxEpoch \in Nat /\ thr[t].synch <= thr[t].epoch /\ thr[t].synch \in Nat
  BY IdleFacts, ThreadFacts, TidsAreSlots DEF ThreadRec
<1>4. t < threadSeq
  BY <1>3, TidsAreSlots DEF Inv, SlotsAreFree, Running, FieldsTyped
<1>5. cur.cell \in AnyCell /\ cur.epoch \in Nat /\ Id(cur) \in Tid \X Nat /\ Id(cur)[1] = t /\ Id(cur)[2] = cur.epoch
  BY DEF Word, Id
<1>6. /\ accesses' \in [AnyCell -> SUBSET Word]
      /\ \A c \in AnyCell : \A a : a \in accesses'[c] <=> a \in accesses[c] \/ (c = cur.cell /\ a = cur)
  BY <1>1, <1>5 DEF Inv, FieldsTyped
<1>7. /\ knows' \in [Tid -> Known] /\ knows'[t] = knows[t] \cup {Id(cur)}
      /\ \A u \in Tid \ {t} : knows'[u] = knows[u]
  BY <1>1, <1>3, <1>5 DEF Inv, FieldsTyped, Known
<1>8. FieldsTyped'
  BY <1>1, <1>2, <1>6, <1>7 DEF Inv, FieldsTyped
<1>9. /\ \A u \in Tid : Running(u)' <=> Running(u)
      /\ \A u \in Tid \ {t} : Reached(u)' = Reached(u)
      /\ Reached(t) = thr[t].epoch /\ Reached(t)' = cur.epoch
      /\ \A u \in Tid : Reached(u) \in Nat /\ Reached(u)' \in Nat /\ Reached(u) <= Reached(u)'
  <2>1. \A u \in Tid : Reached(u) \in Nat
    BY DEF Inv, FieldsTyped, Reached, Context, ThreadRec
  <2>2. QED BY <1>1, <1>2, <1>3, <2>1 DEF Running, Reached
<1>10. \A u \in Tid : ThreadInStep(u)'
  <2>1. ThreadInStep(t)'
    BY <1>1, <1>2, <1>3, <1>9 DEF Inv, ThreadInStep
  <2>2. \A u \in Tid \ {t} : ThreadInStep(u)'
    BY <1>1, <1>2 DEF Inv, ThreadInStep, Running
  <2>3. QED BY <2>1, <2>2
<1>11. SlotsAreFree'
  BY <1>1 DEF Inv, SlotsAreFree, Running
<1>12. \A K \in Known : Past(K) => Past(K)'
  BY <1>8, <1>9, PastStays DEF Inv
<1>13. AccessesArePast'
  <2>1. \A c \in AnyCell : \A a \in accesses[c] : a.tid \in Tid /\ a.epoch \in Nat
    BY DEF Inv, FieldsTyped, Word
  <2>2. \A u \in Tid : u < threadSeq /\ tctx[u].uid = cur.uid => cur.tid = u
    BY <1>4 DEF Inv, SlotsAreFree
  <2>3. cur.uid < uidSeq /\ cur.epoch <= Reached(cur.tid)'
    BY <1>9 DEF Inv, SlotsAreFree
  <2>4. ASSUME NEW c \in AnyCell, NEW a \in accesses[c]
        PROVE  /\ a.cell = c /\ a.epoch <= Reached(a.tid)' /\ a.uid < uidSeq
               /\ \A u \in Tid : u < threadSeq /\ tctx[u].uid = a.uid => a.tid = u
    BY <1>9, <2>1 DEF Inv, AccessesArePast
  <2>5. QED BY <1>1, <1>6, <2>2, <2>3, <2>4 DEF AccessesArePast
<1>14. EpochsAreUnique'
  <2>1. \A a \in AllAccesses : a.tid = t => a.epoch < cur.epoch
    <3>1. \A c \in AnyCell : \A a \in accesses[c] : a.tid \in Tid /\ a.epoch \in Nat /\ a.epoch <= Reached(a.tid)
      BY DEF Inv, FieldsTyped, Word, AccessesArePast
    <3>2. QED BY <1>3, <1>9, <3>1 DEF AllAccesses, Inv, FieldsTyped
  <2>2. \A a \in AllAccesses' : a \in AllAccesses \/ a = cur
    BY <1>6 DEF AllAccesses, Inv, FieldsTyped
  <2>3. \A a \in AllAccesses : a.epoch \in Nat
    BY DEF AllAccesses, Inv, FieldsTyped, Word
  <2>4. QED BY <1>5, <2>1, <2>2, <2>3 DEF Inv, EpochsAreUnique
<1>15. KnowledgeIsPast'
  <2>1. \A u \in Tid : knows[u] \in Known /\ lifeKnows[u] \in Known
    BY DEF Inv, FieldsTyped
  <2>2. \A a \in Addr : syncKnows[a].lock \in Known /\ syncKnows[a].read \in Known
    BY DEF Inv, FieldsTyped
  <2>3. Past(knows[t])'
    <3>1. PICK K \in Known : K = knows[t]
      BY <2>1
    <3>2. Past(K)'
      BY <1>12, <3>1 DEF Inv, KnowledgeIsPast
    <3>3. QED BY <1>5, <1>7, <1>9, <3>1, <3>2 DEF Past
  <2>4. \A u \in Tid \ {t} : Past(knows[u])'
    BY <1>7, <1>12, <2>1 DEF Inv, KnowledgeIsPast
  <2>5. QED BY <1>1, <1>12, <2>1, <2>2, <2>3, <2>4 DEF Inv, KnowledgeIsPast
<1>16. ThreadsCover'
  <2>1. CoversOthers(thr'[t].clock, knows'[t], t)
    BY <1>2, <1>3, <1>5, <1>7, ThreadFacts DEF CoversOthers
  <2>2. QED BY <1>1, <1>2, <1>7, <1>9, <2>1 DEF Inv, ThreadsCover
<1>17. SyncsCover' /\ NoFalseAlarm'
  BY <1>1 DEF Inv, SyncsCover, NoFalseAlarm
<1>18. ShadowIsAccessed'
  BY <1>1, <1>6 DEF Inv, ShadowIsAccessed
<1>19. ScansAreReal'
  <2>1. ASSUME NEW u \in Tid \ {t}
        PROVE  /\ Scanning(u)' => /\ thr'[u].cur \in Word /\ thr'[u].cur \in accesses'[thr'[u].cur.cell]
                                  /\ thr'[u].cur.tid = u /\ thr'[u].cur.uid = tctx'[u].uid
               /\ thr'[u].at = "report" =>
                    /\ thr'[u].old \in Word /\ thr'[u].old \in accesses'[thr'[u].cur.cell] /\ thr'[u].old.tid # u
                    /\ Conflict(thr'[u].cur, thr'[u].old) /\ thr'[u].clock[thr'[u].old.tid] < thr'[u].old.epoch
    <3>1. Scanning(u) => thr[u].cur.cell \in AnyCell
      BY ScanFacts
    <3>2. thr[u].at = "report" => Scanning(u)
      BY DEF Scanning
    <3>3. QED BY <1>1, <1>2, <1>6, <3>1, <3>2 DEF Inv, ScansAreReal, Scanning
  <2>2. /\ thr'[t].at # "report" /\ thr'[t].cur \in Word /\ thr'[t].cur \in accesses'[thr'[t].cur.cell]
        /\ thr'[t].cur.tid = t /\ thr'[t].cur.uid = tctx'[t].uid
    BY <1>1, <1>2, <1>5, <1>6
  <2>3. QED BY <2>1, <2>2 DEF ScansAreReal
<1>20. QED BY <1>8, <1>10, <1>11, <1>13, <1>14, <1>15, <1>16, <1>17, <1>18, <1>19 DEF Inv

LEMMA MemoryAccessKeepsInv ==
  ASSUME Inv, NEW t \in Tid, NEW c \in Cell, NEW range \in Ranges, NEW write \in BOOLEAN,
         MemoryAccess(t, c, range, write)
  PROVE  Inv'
<1>1. PICK cur : cur = Mop(t, c, range, write)
  OBVIOUS
<1>2. Idle(t) /\ StartScan(t, cur, NoCall) /\ UNCHANGED held /\ NoCall \in Call
  BY <1>1 DEF MemoryAccess, Call
<1>3. c \in AnyCell /\ range \in AnyRange
  BY RaceAssumption DEF AnyCell, AnyRange
<1>4. cur \in Word /\ cur.tid = t /\ cur.epoch = thr[t].epoch + 1 /\ cur.uid = tctx[t].uid /\ cur.cell = c
  BY <1>1, <1>2, <1>3, MopIsNew
<1>5. /\ thr'[t].call = thr[t].call /\ \A u \in Tid \ {t} : thr'[u] = thr[u]
  BY <1>2, <1>4, StartScanMoves, IdleFacts
<1>6. /\ tctx' = tctx /\ sync' = sync /\ syncKnows' = syncKnows /\ \A u \in Tid : knows[u] \subseteq knows'[u]
  <2>1. knows' = [knows EXCEPT ![t] = @ \cup {Id(cur)}]
    BY <1>2 DEF StartScan
  <2>2. QED BY <1>2, <2>1 DEF StartScan, threads, Inv, FieldsTyped
<1>7. \A a \in Mutex : HolderHolds(a)' /\ OwnerAgrees(a)'
  <2>1. \A u \in Tid, o \in Op : \A a : Pending(u, o, a)' <=> Pending(u, o, a)
    BY <1>5 DEF Pending
  <2>2. ASSUME NEW a \in Mutex PROVE HolderHolds(a)' /\ OwnerAgrees(a)'
    <3>1. FieldsTyped /\ HolderHolds(a) /\ OwnerAgrees(a)
      BY DEF Inv
    <3>2. \A u \in Tid : held[a].writer = u \/ u \in held[a].readers => Running(u)'
      BY <1>6, <3>1, TidsAreSlots DEF HolderHolds, Running
    <3>3. QED BY <1>2, <1>6, <2>1, <3>1, <3>2, MutexIsLeftAlone
  <2>3. QED BY <2>2
<1>8. held' \in [Mutex -> HeldRec]
  BY <1>2 DEF Inv, FieldsTyped
<1>9. QED BY <1>2, <1>4, <1>7, <1>8, AccessKeepsInv

\* The application has taken the mutex, or is about to give it back.
LEMMA CalledMutexes ==
  ASSUME Inv, NEW t \in Tid, NEW op \in Op, NEW a \in Mutex, Idle(t), MayCall(t, op, a),
         held' = [held EXCEPT ![a] = Taken(@, t, op)], thr'[t].call = [op |-> op, addr |-> a],
         \A u \in Tid \ {t} : thr'[u] = thr[u], UNCHANGED <<threads, sync, syncKnows>>,
         \A u \in Tid : knows[u] \subseteq knows'[u]
  PROVE  held' \in [Mutex -> HeldRec] /\ \A b \in Mutex : HolderHolds(b)' /\ OwnerAgrees(b)'
<1> DEFINE m == held[a]
           h == Taken(m, t, op)
<1>1. /\ Running(t) /\ t # NoTid /\ \A o \in Op : \A b : ~Pending(t, o, b)
      /\ \A u \in Tid : Running(u)' <=> Running(u)
  BY IdleFacts, TidsAreSlots DEF Running, threads
<1>2. /\ m \in HeldRec /\ HolderHolds(a) /\ OwnerAgrees(a) /\ m.depth \in Nat
      /\ m.writer \in Tid \cup {NoTid} /\ m.readers \in SUBSET Tid
  BY MutexFacts DEF HeldRec
<1>3. /\ Pending(t, op, a)' /\ \A o \in Op : \A b : Pending(t, o, b)' => o = op /\ b = a
      /\ \A u \in Tid \ {t}, o \in Op : \A b : Pending(u, o, b)' <=> Pending(u, o, b)
  BY DEF Pending
<1>4. /\ op = "lock" => /\ m.writer \in {NoTid, t} /\ m.readers = {}
                        /\ h.writer = t /\ h.depth = m.depth + 1 /\ h.readers = {} /\ h \in HeldRec
      /\ op = "read_lock" => /\ m.writer = NoTid
                             /\ h.writer = NoTid /\ h.depth = m.depth /\ h.readers = m.readers \cup {t}
                             /\ h \in HeldRec
      /\ op \notin {"lock", "read_lock"} => h = m
  <2>1. CASE op = "lock"
    <3>1. h = [m EXCEPT !.writer = t, !.depth = m.depth + 1] /\ m.writer \in {NoTid, t} /\ m.readers = {}
      BY <2>1 DEF MayCall, Taken
    <3>2. PICK d : d = m.depth + 1
      OBVIOUS
    <3>3. d \in Nat /\ h = [m EXCEPT !.writer = t, !.depth = d]
      BY <1>2, <3>1, <3>2
    <3>4. /\ h.writer = t /\ h.depth = d /\ h.readers = m.readers /\ h \in HeldRec
      BY <1>2, <3>3 DEF HeldRec
    <3>5. QED BY <2>1, <3>1, <3>2, <3>4
  <2>2. CASE op = "read_lock"
    <3>1. h = [m EXCEPT !.readers = m.readers \cup {t}] /\ m.writer = NoTid
      BY <2>2 DEF MayCall, Taken
    <3>2. m.readers \cup {t} \in SUBSET Tid
      BY <1>2
    <3>3. QED BY <1>2, <2>2, <3>1, <3>2 DEF HeldRec
  <2>3. CASE op \notin {"lock", "read_lock"}
    BY <2>3 DEF Taken
  <2>4. QED BY <2>1, <2>2, <2>3
<1>5. held' = [held EXCEPT ![a] = h] /\ h \in HeldRec
  BY <1>2, <1>4
<1>6. op \notin {"lock", "read_lock"} =>
        /\ op = "unlock" => m.writer = t
        /\ op = "read_unlock" => t \in m.readers
        /\ op = "rw_unlock" => m.writer = t \/ t \in m.readers
  BY DEF MayCall
<1> HIDE DEF h
<1>7. held' \in [Mutex -> HeldRec] /\ held'[a] = h /\ \A b \in Mutex \ {a} : held'[b] = held[b]
  BY <1>5 DEF Inv, FieldsTyped
<1>8. HolderHolds(a)'
  <2>1. CASE op = "lock"
    <3>1. \A u \in Tid \ {t}, o \in Op : ~Pending(u, o, a)
      BY <1>2, <1>4, <2>1, TidsAreSlots DEF HolderHolds, Op
    <3>2. h.writer = t /\ h.depth > 0 /\ h.readers = {} /\ Running(t)'
      BY <1>1, <1>2, <1>4, <2>1
    <3>3. \A u \in Tid, o \in Op : Pending(u, o, a)' => u = t /\ o = "lock"
      BY <1>3, <2>1, <3>1
    <3>4. QED BY <1>1, <1>7, <3>2, <3>3, OpsAre DEF HolderHolds
  <2>2. CASE op = "read_lock"
    <3>1. h.writer = NoTid /\ h.depth = 0 /\ h.readers = m.readers \cup {t} /\ m.writer = NoTid
      BY <1>2, <1>4, <2>2 DEF HolderHolds
    <3>2. \A u \in Tid \ {t} :
            /\ ~Pending(u, "lock", a)' /\ ~Pending(u, "unlock", a)'
            /\ Pending(u, "read_lock", a)' \/ Pending(u, "read_unlock", a)' \/ Pending(u, "rw_unlock", a)' => u \in m.readers
      BY <1>2, <1>3, <3>1, TidsAreSlots, OpsAre DEF HolderHolds
    <3>3. \A o \in Op : Pending(t, o, a)' => o = "read_lock"
      BY <1>3, <2>2
    <3>4. \A u \in h.readers : Running(u)'
      BY <1>1, <1>2, <3>1 DEF HolderHolds
    <3>5. QED BY <1>7, <3>1, <3>2, <3>3, <3>4, OpsAre DEF HolderHolds
  <2>3. CASE op \notin {"lock", "read_lock"}
    <3>1. h = m
      BY <1>4, <2>3
    <3>3. \A o \in Op : Pending(t, o, a)' => o = op
      BY <1>3
    <3>4. \A u \in Tid \ {t} :
            /\ Pending(u, "lock", a)' \/ Pending(u, "unlock", a)' => m.writer = u
            /\ Pending(u, "read_lock", a)' \/ Pending(u, "read_unlock", a)' => u \in m.readers
            /\ Pending(u, "rw_unlock", a)' => m.writer = u \/ u \in m.readers
      BY <1>2, <1>3, OpsAre DEF HolderHolds
    <3>5. /\ ~Pending(t, "lock", a)' /\ ~Pending(t, "read_lock", a)'
          /\ Pending(t, "unlock", a)' => m.writer = t
          /\ Pending(t, "read_unlock", a)' => t \in m.readers
          /\ Pending(t, "rw_unlock", a)' => m.writer = t \/ t \in m.readers
      BY <1>6, <2>3, <3>3, OpsAre
    <3>6. /\ m.writer # NoTid => m.depth > 0 /\ m.readers = {} /\ m.writer \in Tid
          /\ m.writer = NoTid => m.depth = 0
          /\ \A u \in Tid : m.writer = u \/ u \in m.readers => Running(u)'
          /\ m.readers \subseteq Tid
      <4>1. /\ m.writer # NoTid => m.depth > 0 /\ m.readers = {}
            /\ m.writer = NoTid => m.depth = 0
        BY <1>2 DEF HolderHolds
      <4>2. \A u \in Tid : m.writer = u \/ u \in m.readers => Running(u)
        BY <1>2, TidsAreSlots DEF HolderHolds
      <4>3. (m.writer # NoTid => m.writer \in Tid) /\ m.readers \subseteq Tid
        BY <1>2
      <4>4. QED BY <1>1, <4>1, <4>2, <4>3
    <3>7. QED BY <1>7, <3>1, <3>4, <3>5, <3>6 DEF HolderHolds
  <2>4. QED BY <2>1, <2>2, <2>3
<1>9. Counted(a)' = Counted(a) /\ (Counted(a) # 0 => h.writer = m.writer)
  <2>1. CASE op = "lock"
    <3>1. Counted(a)' = m.depth
      BY <1>2, <1>3, <1>4, <1>7, <1>1, <2>1 DEF Counted
    <3>2. Counted(a) = m.depth /\ (m.depth # 0 => m.writer = t)
      BY <1>1, <1>2, <1>4, <2>1, OpsAre DEF Counted, HolderHolds
    <3>3. QED BY <1>4, <2>1, <3>1, <3>2
  <2>2. CASE op = "read_lock"
    <3>1. Counted(a)' = m.depth /\ Counted(a) = m.depth /\ h.writer = m.writer
      BY <1>4, <1>7, <2>2 DEF Counted
    <3>2. QED BY <3>1
  <2>3. CASE op \notin {"lock", "read_lock"}
    <3>1. h = m /\ ~Pending(t, "lock", a)' /\ ~Pending(t, "lock", a)
      BY <1>1, <1>3, <1>4, <2>3, OpsAre
    <3>2. \A u \in Tid : Pending(u, "lock", a)' <=> Pending(u, "lock", a)
      BY <1>3, <3>1, OpsAre
    <3>3. QED BY <1>2, <1>7, <3>1, <3>2 DEF Counted
  <2>4. QED BY <2>1, <2>2, <2>3
<1>10. OwnerAgrees(a)'
  <2>1. sync'[a] = sync[a] /\ syncKnows'[a] = syncKnows[a]
    OBVIOUS
  <2>2. sync[a].owner # NoTid => sync[a].owner \in Tid
    BY MutexFacts DEF SyncRec
  <2>3. sync[a].owner = IF Counted(a) = 0 THEN NoTid ELSE h.writer
    BY <1>2, <1>9 DEF OwnerAgrees
  <2>4. QED BY <1>2, <1>7, <1>9, <2>1, <2>2, <2>3 DEF OwnerAgrees
<1>11. ASSUME NEW b \in Mutex \ {a} PROVE HolderHolds(b)' /\ OwnerAgrees(b)'
  <2>1. FieldsTyped /\ HolderHolds(b) /\ OwnerAgrees(b)
    BY DEF Inv
  <2>2. \A u \in Tid, o \in Op : Pending(u, o, b)' <=> Pending(u, o, b)
    BY <1>1, <1>3
  <2>3. \A u \in Tid : held[b].writer = u \/ u \in held[b].readers => Running(u)'
    BY <1>1, <2>1, TidsAreSlots DEF HolderHolds
  <2>4. QED BY <1>7, <2>1, <2>2, <2>3, MutexIsLeftAlone
<1>12. QED BY <1>7, <1>8, <1>10, <1>11

LEMMA CallMutexKeepsInv ==
  ASSUME Inv, NEW t \in Tid, NEW op \in Op, NEW a \in Mutex, CallMutex(t, op, a)
  PROVE  Inv'
<1> DEFINE call == [op |-> op, addr |-> a]
<1>1. Idle(t) /\ MayCall(t, op, a) /\ held' = [held EXCEPT ![a] = Taken(@, t, op)]
  BY DEF CallMutex
<1>2. call \in Call /\ call # NoCall
  BY NoCallIsNotPending DEF Call
<1>3. CASE a \in AppMem
  <2>1. PICK cur : cur = Mop(t, a, [addr0 |-> 0, size |-> 1], FALSE)
    OBVIOUS
  <2>2. StartScan(t, cur, call)
    BY <1>3, <2>1 DEF CallMutex
  <2>3. cur \in Word /\ cur.tid = t /\ cur.epoch = thr[t].epoch + 1 /\ cur.uid = tctx[t].uid
    <3>1. a \in AnyCell
      BY <1>3 DEF AnyCell
    <3>2. PICK range \in AnyRange, write \in BOOLEAN : range = [addr0 |-> 0, size |-> 1] /\ ~write
      <4>1. 0 \in 0 .. 7 /\ 1 \in {1, 2, 4, 8}
        OBVIOUS
      <4>2. [addr0 |-> 0, size |-> 1] \in AnyRange
        BY <4>1, Zenon DEF AnyRange
      <4>3. QED BY <4>2
    <3>3. cur = Mop(t, a, range, write)
      BY <2>1, <3>2 DEF Mop
    <3>4. QED BY <1>1, <3>1, <3>3, MopIsNew
  <2>4. thr'[t].call = call /\ \A u \in Tid \ {t} : thr'[u] = thr[u]
    BY <1>1, <1>2, <2>2, <2>3, StartScanMoves
  <2>5. UNCHANGED <<threads, sync, syncKnows>> /\ \A u \in Tid : knows[u] \subseteq knows'[u]
    <3>1. knows' = [knows EXCEPT ![t] = @ \cup {Id(cur)}] /\ UNCHANGED <<threads, sync, syncKnows>>
      BY <2>2 DEF StartScan
    <3>2. QED BY <3>1 DEF Inv, FieldsTyped
  <2>6. held' \in [Mutex -> HeldRec] /\ \A b \in Mutex : HolderHolds(b)' /\ OwnerAgrees(b)'
    BY <1>1, <2>4, <2>5, CalledMutexes
  <2>7. QED BY <1>1, <1>2, <2>2, <2>3, <2>6, AccessKeepsInv
<1>4. CASE a \notin AppMem
  <2>1. /\ thr' = [thr EXCEPT ![t].at = "call", ![t].call = call]
        /\ UNCHANGED <<threads, sync, shadow, reports, history, accesses, missed>>
    BY <1>4 DEF CallMutex
  <2>2. /\ tctx' = tctx /\ threadSeq' = threadSeq /\ uidSeq' = uidSeq /\ deadList' = deadList
        /\ sync' = sync /\ shadow' = shadow /\ reports' = reports /\ accesses' = accesses
        /\ knows' = knows /\ lifeKnows' = lifeKnows /\ syncKnows' = syncKnows
    BY <2>1 DEF threads, history
  <2>3. /\ thr' \in [Tid -> ThreadRec] /\ \A u \in Tid \ {t} : thr'[u] = thr[u]
        /\ thr'[t].at = "call" /\ thr'[t].call = call /\ thr'[t].clock = thr[t].clock
        /\ thr'[t].epoch = thr[t].epoch /\ thr'[t].synch = thr[t].synch
    <3> DEFINE r == [thr[t] EXCEPT !.at = "call", !.call = call]
    <3>1. thr \in [Tid -> ThreadRec] /\ "call" \in At /\ thr' = [thr EXCEPT ![t] = r]
      BY <2>1 DEF Inv, FieldsTyped, At
    <3> HIDE DEF call
    <3>2. /\ r \in ThreadRec /\ r.at = "call" /\ r.call = call /\ r.clock = thr[t].clock
          /\ r.epoch = thr[t].epoch /\ r.synch = thr[t].synch
      BY <1>2, <3>1 DEF ThreadRec
    <3> HIDE DEF r
    <3>3. thr'[t] = r /\ thr' \in [Tid -> ThreadRec] /\ \A u \in Tid \ {t} : thr'[u] = thr[u]
      BY <3>1, <3>2
    <3>4. QED BY <3>2, <3>3
  <2>4. held' \in [Mutex -> HeldRec] /\ \A b \in Mutex : HolderHolds(b)' /\ OwnerAgrees(b)'
    <3>1. \A u \in Tid : knows[u] \subseteq knows'[u]
      BY <2>2
    <3>2. UNCHANGED <<threads, sync, syncKnows>>
      BY <2>1, <2>2
    <3>3. QED BY <1>1, <2>3, <3>1, <3>2, CalledMutexes
  <2>5. FieldsTyped'
    BY <2>2, <2>3, <2>4 DEF Inv, FieldsTyped
  <2>6. /\ Running(t) /\ thr[t].epoch < MaxEpoch /\ thr[t].epoch \in Nat /\ MaxEpoch \in Nat
        /\ thr[t].synch <= thr[t].epoch
    BY <1>1, IdleFacts, ThreadFacts, TidsAreSlots DEF ThreadRec
  <2>7. \A u \in Tid : (Running(u)' <=> Running(u)) /\ Reached(u)' = Reached(u)
    BY <2>2, <2>3 DEF Running, Reached
  <2>8. \A u \in Tid : ThreadInStep(u)'
    <3>1. ThreadInStep(t)'
      BY <1>2, <2>2, <2>3, <2>6, <2>7 DEF Inv, ThreadInStep
    <3>2. \A u \in Tid \ {t} : ThreadInStep(u)'
      BY <2>2, <2>3 DEF Inv, ThreadInStep, Running
    <3>3. QED BY <3>1, <3>2
  <2>9. SlotsAreFree'
    BY <2>2 DEF Inv, SlotsAreFree, Running
  <2>10. AccessesArePast'
    <3>1. \A c \in AnyCell : \A x \in accesses[c] : x.tid \in Tid
      BY DEF Inv, FieldsTyped, Word
    <3>2. QED BY <2>2, <2>7, <3>1 DEF Inv, AccessesArePast
  <2>11. EpochsAreUnique' /\ SyncsCover' /\ NoFalseAlarm' /\ ShadowIsAccessed'
    BY <2>2 DEF Inv, EpochsAreUnique, AllAccesses, SyncsCover, NoFalseAlarm, ShadowIsAccessed
  <2>12. KnowledgeIsPast'
    <3>1. \A K \in Known : \A id \in K : id[1] \in Tid
      BY DEF Known
    <3>2. \A K \in Known : Past(K) => Past(K)'
      BY <2>7, <3>1 DEF Past
    <3>3. QED BY <2>2, <3>2 DEF Inv, KnowledgeIsPast, FieldsTyped
  <2>13. ThreadsCover'
    BY <2>2, <2>3, <2>7 DEF Inv, ThreadsCover
  <2>14. ScansAreReal'
    BY <2>2, <2>3 DEF Inv, ScansAreReal, Scanning
  <2>15. QED BY <2>4, <2>5, <2>8, <2>9, <2>10, <2>11, <2>12, <2>13, <2>14 DEF Inv
<1>5. QED BY <1>3, <1>4

-----------------------------------------------------------------------------
(* Threads.                                                                 *)

\* The contexts change, and with them what only idle threads have.
ThreadsMove ==
  /\ UNCHANGED <<sync, shadow, held, reports, syncKnows, accesses>>
  /\ uidSeq <= uidSeq'
  /\ \A u \in Tid : Reached(u) <= Reached(u)'
  /\ \A u \in Tid : u < threadSeq' =>
       (u < threadSeq /\ tctx'[u].uid = tctx[u].uid) \/ tctx'[u].uid >= uidSeq
  /\ \A u \in Tid : thr'[u].call = thr[u].call
  /\ \A u \in Tid : Scanning(u)' => thr'[u] = thr[u] /\ tctx'[u].uid = tctx[u].uid
  /\ \A a \in Mutex, u \in Tid :
       held[a].writer = u \/ u \in held[a].readers => Running(u)' /\ knows[u] \subseteq knows'[u]

LEMMA ThreadsMoveKeepsInv ==
  ASSUME Inv, ThreadsMove, FieldsTyped', \A u \in Tid : ThreadInStep(u)', SlotsAreFree',
         \A u \in Tid : (Past(knows[u]) /\ Past(lifeKnows[u]))', ThreadsCover'
  PROVE  Inv'
<1>1. /\ sync' = sync /\ shadow' = shadow /\ held' = held /\ reports' = reports
      /\ syncKnows' = syncKnows /\ accesses' = accesses
  BY DEF ThreadsMove
<1>2. AccessesArePast'
  <2>1. \A c \in AnyCell : \A a \in accesses[c] : a.tid \in Tid /\ a.epoch \in Nat /\ a.uid \in Nat
    BY DEF Inv, FieldsTyped, Word
  <2>2. \A u \in Tid : Reached(u) \in Nat /\ Reached(u)' \in Nat /\ Reached(u) <= Reached(u)'
    BY DEF Inv, FieldsTyped, Reached, Context, ThreadRec, ThreadsMove
  <2>3. uidSeq \in Nat /\ uidSeq' \in Nat /\ uidSeq <= uidSeq'
    BY DEF Inv, FieldsTyped, ThreadsMove
  <2>4. \A u \in Tid : tctx'[u].uid \in Nat
    BY DEF FieldsTyped, Context
  <2>5. ASSUME NEW c \in AnyCell, NEW a \in accesses[c]
        PROVE  /\ a.cell = c /\ a.epoch <= Reached(a.tid)' /\ a.uid < uidSeq'
               /\ \A u \in Tid : u < threadSeq' /\ tctx'[u].uid = a.uid => a.tid = u
    <3>1. /\ a.cell = c /\ a.epoch <= Reached(a.tid) /\ a.uid < uidSeq
          /\ \A u \in Tid : u < threadSeq /\ tctx[u].uid = a.uid => a.tid = u
      BY DEF Inv, AccessesArePast
    <3>2. \A u \in Tid : u < threadSeq' =>
            (u < threadSeq /\ tctx'[u].uid = tctx[u].uid) \/ tctx'[u].uid >= uidSeq
      BY DEF ThreadsMove
    <3>3. \A u \in Tid : u < threadSeq' /\ tctx'[u].uid = a.uid => a.tid = u
      BY <2>1, <2>3, <2>4, <3>1, <3>2
    <3>4. a.epoch <= Reached(a.tid)' /\ a.uid < uidSeq'
      BY <2>1, <2>2, <2>3, <3>1
    <3>5. QED BY <3>1, <3>3, <3>4
  <2>6. QED BY <1>1, <2>5 DEF AccessesArePast
<1>3. EpochsAreUnique' /\ SyncsCover' /\ NoFalseAlarm' /\ ShadowIsAccessed'
  BY <1>1 DEF Inv, EpochsAreUnique, AllAccesses, SyncsCover, NoFalseAlarm, ShadowIsAccessed
<1>4. KnowledgeIsPast'
  <2>1. \A K \in Known : Past(K) => Past(K)'
    BY PastStays DEF Inv, ThreadsMove
  <2>2. \A a \in Addr : syncKnows[a].lock \in Known /\ syncKnows[a].read \in Known
    BY DEF Inv, FieldsTyped
  <2>3. QED BY <1>1, <2>1, <2>2 DEF Inv, KnowledgeIsPast
<1>5. \A a \in Mutex : HolderHolds(a)' /\ OwnerAgrees(a)'
  <2>1. \A u \in Tid, o \in Op : \A a : Pending(u, o, a)' <=> Pending(u, o, a)
    BY DEF Pending, ThreadsMove
  <2>2. ASSUME NEW a \in Mutex PROVE HolderHolds(a)' /\ OwnerAgrees(a)'
    <3>1. FieldsTyped /\ HolderHolds(a) /\ OwnerAgrees(a)
      BY DEF Inv
    <3>2. \A u \in Tid : held[a].writer = u \/ u \in held[a].readers => Running(u)' /\ knows[u] \subseteq knows'[u]
      BY DEF ThreadsMove
    <3>3. QED BY <1>1, <2>1, <3>1, <3>2, MutexIsLeftAlone
  <2>3. QED BY <2>2
<1>6. ScansAreReal'
  <2>1. \A u \in Tid : Scanning(u)' => thr'[u] = thr[u] /\ tctx'[u].uid = tctx[u].uid
    BY DEF ThreadsMove
  <2>2. \A u \in Tid : thr[u].at = "report" => Scanning(u)
    BY DEF Scanning
  <2>3. \A u \in Tid : Scanning(u)' <=> thr'[u].at \in {"scan", "store", "evict", "report"}
    BY DEF Scanning
  <2>4. \A u \in Tid : Scanning(u)' => Scanning(u)
    BY <2>1, <2>3 DEF Scanning
  <2>5. QED BY <1>1, <2>1, <2>3, <2>4 DEF Inv, ScansAreReal
<1>7. QED BY <1>2, <1>3, <1>4, <1>5, <1>6 DEF Inv

\* Only a running thread holds a mutex.
LEMMA HoldersRun ==
  ASSUME Inv
  PROVE  \A a \in Mutex, u \in Tid : held[a].writer = u \/ u \in held[a].readers => Running(u)
<1>1. ASSUME NEW a \in Mutex, NEW u \in Tid, held[a].writer = u \/ u \in held[a].readers
      PROVE  Running(u)
  BY <1>1, TidsAreSlots DEF Inv, HolderHolds
<1>2. QED BY <1>1

\* What the invariant says of one slot.
LEMMA SlotFacts ==
  ASSUME Inv, NEW u \in Tid
  PROVE  /\ tctx[u] \in Context /\ thr[u] \in ThreadRec /\ u \in Nat
         /\ tctx[u].uid \in Nat /\ tctx[u].uid < uidSeq /\ uidSeq \in Nat
         /\ tctx[u].epoch0 \in Nat /\ tctx[u].epoch1 \in Nat /\ tctx[u].sync \in Clock
         /\ thr[u].epoch \in Nat /\ MaxEpoch \in Nat /\ Reached(u) \in Nat
         /\ tctx[u].epoch0 <= MaxEpoch + 1 /\ tctx[u].epoch1 <= Forever
         /\ ~Running(u) => /\ thr[u].at = "idle" /\ thr[u].call = NoCall /\ tctx[u].epoch1 <= MaxEpoch
                           /\ Reached(u) = tctx[u].epoch1
         /\ Running(u) => Reached(u) = thr[u].epoch
         /\ knows[u] \in Known /\ lifeKnows[u] \in Known /\ Past(knows[u]) /\ Past(lifeKnows[u])
         /\ tctx[u].status = "invalid" <=> u >= threadSeq
<1>1. tctx[u] \in Context /\ thr[u] \in ThreadRec /\ ThreadInStep(u) /\ uidSeq \in Nat
  BY DEF Inv, FieldsTyped
<1>2. /\ tctx[u].uid \in Nat /\ tctx[u].epoch0 \in Nat /\ tctx[u].epoch1 \in Nat /\ tctx[u].sync \in Clock
      /\ thr[u].epoch \in Nat
  BY <1>1 DEF Context, ThreadRec
<1>3. (tctx[u].status = "invalid" <=> u >= threadSeq) /\ tctx[u].uid < uidSeq
  BY DEF Inv, SlotsAreFree
<1>4. knows[u] \in Known /\ lifeKnows[u] \in Known /\ Past(knows[u]) /\ Past(lifeKnows[u])
  BY DEF Inv, FieldsTyped, KnowledgeIsPast
<1>5. /\ ~Running(u) => /\ thr[u].at = "idle" /\ thr[u].call = NoCall /\ tctx[u].epoch1 <= MaxEpoch
                        /\ Reached(u) = tctx[u].epoch1
      /\ Running(u) => Reached(u) = thr[u].epoch
      /\ tctx[u].epoch0 <= MaxEpoch + 1 /\ tctx[u].epoch1 <= Forever
  BY <1>1 DEF ThreadInStep, Reached
<1>6. QED BY <1>1, <1>2, <1>3, <1>4, <1>5, TidsAreSlots DEF Reached

\* A thread that joins the dead is the last of them.
LEMMA DeadListGrows ==
  ASSUME Inv, NEW u \in Tid, tctx[u].status # "dead", deadList' = Append(deadList, u),
         tctx'[u].status = "dead", \A v \in Tid \ {u} : tctx'[v].status = tctx[v].status
  PROVE  /\ deadList' \in Seq(Tid)
         /\ \A i \in DOMAIN deadList' :
              /\ tctx'[deadList'[i]].status = "dead"
              /\ \A j \in DOMAIN deadList' : i # j => deadList'[i] # deadList'[j]
<1>1. /\ deadList \in Seq(Tid)
      /\ \A i \in DOMAIN deadList :
           /\ tctx[deadList[i]].status = "dead" /\ deadList[i] \in Tid
           /\ \A j \in DOMAIN deadList : i # j => deadList[i] # deadList[j]
  BY DEF Inv, FieldsTyped, SlotsAreFree
<1>2. /\ deadList' \in Seq(Tid) /\ DOMAIN deadList' = 1 .. Len(deadList) + 1
      /\ DOMAIN deadList = 1 .. Len(deadList) /\ Len(deadList) \in Nat
      /\ \A i \in DOMAIN deadList : deadList'[i] = deadList[i]
      /\ deadList'[Len(deadList) + 1] = u
  BY <1>1
<1>3. \A i \in DOMAIN deadList' : i \in DOMAIN deadList \/ i = Len(deadList) + 1
  BY <1>2
<1>4. \A i \in DOMAIN deadList : deadList[i] # u
  BY <1>1
<1>5. QED BY <1>1, <1>2, <1>3, <1>4

LEMMA ThreadStartKeepsInv ==
  ASSUME Inv, NEW u \in Tid, ThreadStart(u)
  PROVE  Inv'
<1> DEFINE first == tctx[u].epoch1 + 1
           clock == Join([ZeroClock EXCEPT ![u] = first], tctx[u].sync)
           ctx == [tctx[u] EXCEPT !.status = "running", !.epoch0 = first, !.epoch1 = Forever]
           new == NewThr(first, clock)
<1>1. /\ tctx[u].status = "created" /\ ~Running(u)
      /\ tctx' = [tctx EXCEPT ![u] = ctx] /\ thr' = [thr EXCEPT ![u] = new]
      /\ knows' = [knows EXCEPT ![u] = lifeKnows[u]]
      /\ threadSeq' = threadSeq /\ uidSeq' = uidSeq /\ deadList' = deadList /\ sync' = sync /\ shadow' = shadow
      /\ held' = held /\ reports' = reports /\ lifeKnows' = lifeKnows /\ syncKnows' = syncKnows
      /\ accesses' = accesses
  BY DEF ThreadStart, Running
<1>2. /\ tctx[u] \in Context /\ tctx[u].uid < uidSeq /\ tctx[u].epoch1 \in Nat /\ tctx[u].sync \in Clock
      /\ thr[u].call = NoCall /\ thr[u].at = "idle" /\ tctx[u].epoch1 <= MaxEpoch
      /\ Reached(u) = tctx[u].epoch1 /\ lifeKnows[u] \in Known /\ MaxEpoch \in Nat
      /\ Past(lifeKnows[u]) /\ u < threadSeq /\ u \in Nat /\ threadSeq \in Nat
  <2>1. threadSeq \in Nat
    BY DEF Inv, FieldsTyped
  <2>2. QED BY <1>1, <2>1, SlotFacts
<1>3. first \in Nat /\ first <= MaxEpoch + 1 /\ Forever \in Nat
  BY <1>2 DEF Forever
<1>4. clock \in Clock /\ CoversOthers(clock, lifeKnows[u], u)
  <2>1. PICK zero : zero = [ZeroClock EXCEPT ![u] = first]
    OBVIOUS
  <2>2. zero \in Clock
    BY <1>3, <2>1 DEF ZeroClock, Clock
  <2>3. CoversOthers(tctx[u].sync, lifeKnows[u], u)
    BY <1>1 DEF Inv, ThreadsCover
  <2>4. QED BY <1>2, <2>1, <2>2, <2>3, JoinCovers
<1> HIDE DEF clock
<1>5. /\ new \in ThreadRec /\ new.epoch = first /\ new.synch = first /\ new.clock = clock
      /\ new.at = "idle" /\ new.call = NoCall
  <2>1. 0 \in SlotIdx /\ "idle" \in At /\ NoCall \in Call
    BY RaceAssumption DEF SlotIdx, At, Call
  <2>2. QED BY <1>3, <1>4, <2>1 DEF NewThr, ThreadRec
<1>6. /\ ctx \in Context /\ ctx.status = "running" /\ ctx.epoch0 = first /\ ctx.epoch1 = Forever
      /\ ctx.uid = tctx[u].uid
  <2>1. "running" \in Status
    BY DEF Status
  <2>2. QED BY <1>2, <1>3, <2>1 DEF Context
<1> HIDE DEF ctx, new, first
<1>7. /\ tctx \in [Tid -> Context] /\ thr \in [Tid -> ThreadRec] /\ knows \in [Tid -> Known]
  BY DEF Inv, FieldsTyped
<1>8. /\ tctx' \in [Tid -> Context] /\ tctx'[u] = ctx /\ \A v \in Tid \ {u} : tctx'[v] = tctx[v]
      /\ thr' \in [Tid -> ThreadRec] /\ thr'[u] = new /\ \A v \in Tid \ {u} : thr'[v] = thr[v]
      /\ knows' \in [Tid -> Known] /\ knows'[u] = lifeKnows[u] /\ \A v \in Tid \ {u} : knows'[v] = knows[v]
  BY <1>1, <1>2, <1>5, <1>6, <1>7
<1>9. FieldsTyped'
  BY <1>1, <1>8 DEF Inv, FieldsTyped
<1>10. /\ Running(u)' /\ Reached(u)' = first /\ Reached(u) <= first
       /\ \A v \in Tid \ {u} : (Running(v)' <=> Running(v)) /\ Reached(v)' = Reached(v) /\ Reached(v) \in Nat
  <2>1. first = tctx[u].epoch1 + 1
    BY DEF first
  <2>2. \A v \in Tid : Reached(v) \in Nat
    BY SlotFacts
  <2>3. QED BY <1>2, <1>5, <1>6, <1>8, <2>1, <2>2 DEF Running, Reached
<1>11. \A v \in Tid : ThreadInStep(v)'
  <2>1. ThreadInStep(u)'
    BY <1>2, <1>3, <1>5, <1>6, <1>8, <1>10 DEF ThreadInStep
  <2>2. \A v \in Tid \ {u} : ThreadInStep(v)'
    BY <1>8 DEF Inv, ThreadInStep, Running
  <2>3. QED BY <2>1, <2>2
<1>12. SlotsAreFree'
  <2>1. Running(0)'
    BY <1>10, TidsAreSlots DEF Inv, SlotsAreFree
  <2>2. \A v \in Tid : tctx'[v].status = "invalid" <=> v >= threadSeq'
    BY <1>1, <1>2, <1>6, <1>8 DEF Inv, SlotsAreFree
  <2>3. \A i \in DOMAIN deadList : deadList[i] \in Tid
    BY DEF Inv, FieldsTyped
  <2>4. \A i \in DOMAIN deadList' :
          /\ tctx'[deadList'[i]].status = "dead"
          /\ \A j \in DOMAIN deadList' : i # j => deadList'[i] # deadList'[j]
    BY <1>1, <1>8, <2>3 DEF Inv, SlotsAreFree
  <2>5. \A v \in Tid : tctx'[v].uid = tctx[v].uid
    BY <1>6, <1>8
  <2>6. QED BY <1>1, <2>1, <2>2, <2>4, <2>5 DEF Inv, SlotsAreFree
<1>13. ThreadsMove
  <2>1. \A a \in Mutex, v \in Tid :
          held[a].writer = v \/ v \in held[a].readers => Running(v)' /\ knows[v] \subseteq knows'[v]
    BY <1>1, <1>8, <1>10, HoldersRun
  <2>2. \A v \in Tid : v < threadSeq' => v < threadSeq /\ tctx'[v].uid = tctx[v].uid
    BY <1>1, <1>6, <1>8
  <2>3. \A v \in Tid : Reached(v) <= Reached(v)'
    BY <1>10
  <2>4. \A v \in Tid : thr'[v].call = thr[v].call
    BY <1>2, <1>5, <1>8
  <2>5. \A v \in Tid : Scanning(v)' => thr'[v] = thr[v] /\ tctx'[v].uid = tctx[v].uid
    BY <1>5, <1>8 DEF Scanning
  <2>6. uidSeq <= uidSeq'
    BY <1>1 DEF Inv, FieldsTyped
  <2>7. QED BY <1>1, <2>1, <2>2, <2>3, <2>4, <2>5, <2>6 DEF ThreadsMove
<1>14. \A v \in Tid : (Past(knows[v]) /\ Past(lifeKnows[v]))'
  <2>1. \A v \in Tid : Reached(v) <= Reached(v)'
    BY <1>10
  <2>2. \A K \in Known : Past(K) => Past(K)'
    BY <1>9, <2>1, PastStays DEF Inv
  <2>3. QED BY <1>1, <1>8, <2>2, SlotFacts
<1>15. ThreadsCover'
  BY <1>1, <1>4, <1>5, <1>6, <1>8, <1>10 DEF Inv, ThreadsCover
<1>16. QED BY <1>9, <1>11, <1>12, <1>13, <1>14, <1>15, ThreadsMoveKeepsInv

\* The slot a new thread gets: dead or never used.
LEMMA CreatedSlot ==
  ASSUME Inv, NEW t \in Tid, NEW detached \in BOOLEAN, ThreadCreate(t, detached)
  PROVE  \E u \in Tid :
           /\ u = IF Reuse THEN Head(deadList) ELSE threadSeq
           /\ tctx[u].status \in {"dead", "invalid"} /\ u < threadSeq'
           /\ threadSeq' \in 1 .. MaxTid /\ threadSeq <= threadSeq' /\ threadSeq \in Nat
           /\ \A v \in Tid \ {u} : v < threadSeq' <=> v < threadSeq
           /\ deadList' \in Seq(Tid)
           /\ \A i \in DOMAIN deadList' :
                /\ deadList'[i] # u /\ deadList'[i] \in Tid /\ tctx[deadList'[i]].status = "dead"
                /\ \A j \in DOMAIN deadList' : i # j => deadList'[i] # deadList'[j]
<1>1. /\ threadSeq \in 1 .. MaxTid /\ MaxTid \in Nat /\ deadList \in Seq(Tid)
      /\ \A v \in Tid : tctx[v].status = "invalid" <=> v >= threadSeq
      /\ \A i \in DOMAIN deadList :
           /\ tctx[deadList[i]].status = "dead" /\ deadList[i] \in Tid
           /\ \A j \in DOMAIN deadList : i # j => deadList[i] # deadList[j]
  BY TidsAreSlots DEF Inv, FieldsTyped, SlotsAreFree
<1>2. CASE Reuse
  <2>1. deadList # <<>> /\ deadList' = Tail(deadList) /\ threadSeq' = threadSeq
    BY <1>2 DEF ThreadCreate
  <2>2. /\ Head(deadList) = deadList[1] /\ 1 \in DOMAIN deadList /\ deadList' \in Seq(Tid)
        /\ \A i \in DOMAIN deadList' : i + 1 \in DOMAIN deadList /\ i + 1 # 1 /\ i \in Int /\ deadList'[i] = deadList[i + 1]
    BY <1>1, <2>1
  <2>3. PICK u \in Tid : u = deadList[1]
    BY <1>1, <2>2
  <2>4. tctx[u].status = "dead" /\ u < threadSeq
    <3>1. tctx[u].status = "dead"
      BY <1>1, <2>2, <2>3
    <3>2. u \in Nat
      BY TidsAreSlots
    <3>3. QED BY <1>1, <3>1, <3>2
  <2>5. \A i \in DOMAIN deadList' :
          /\ deadList'[i] # u /\ deadList'[i] \in Tid /\ tctx[deadList'[i]].status = "dead"
          /\ \A j \in DOMAIN deadList' : i # j => deadList'[i] # deadList'[j]
    <3>1. ASSUME NEW i \in DOMAIN deadList'
          PROVE  deadList'[i] # u /\ deadList'[i] \in Tid /\ tctx[deadList'[i]].status = "dead"
      BY <1>1, <2>2, <2>3
    <3>2. ASSUME NEW i \in DOMAIN deadList', NEW j \in DOMAIN deadList', i # j
          PROVE  deadList'[i] # deadList'[j]
      <4>1. i + 1 # j + 1
        BY <2>2, <3>2
      <4>2. QED BY <1>1, <2>2, <4>1
    <3>3. QED BY <3>1, <3>2
  <2>6. u = IF Reuse THEN Head(deadList) ELSE threadSeq
    BY <1>2, <2>2, <2>3
  <2>7. threadSeq' \in 1 .. MaxTid /\ threadSeq <= threadSeq' /\ threadSeq \in Nat
    BY <1>1, <2>1
  <2>8. QED BY <2>1, <2>2, <2>4, <2>5, <2>6, <2>7
<1>3. CASE ~Reuse
  <2>1. deadList' = deadList /\ threadSeq' = threadSeq + 1 /\ threadSeq < MaxTid
    BY <1>1, <1>3 DEF ThreadCreate, Reuse
  <2>2. threadSeq \in Tid
    BY <1>1, <2>1 DEF Tid
  <2>3. PICK u \in Tid : u = threadSeq
    BY <2>2
  <2>4. tctx[u].status = "invalid"
    BY <1>1, <2>3
  <2>5. \A i \in DOMAIN deadList : deadList[i] # u
    BY <1>1, <2>4
  <2>6. \A v \in Tid \ {u} : v < threadSeq' <=> v < threadSeq
    <3>1. threadSeq \in Nat /\ threadSeq' = threadSeq + 1
      BY <1>1, <2>1
    <3>2. \A v \in Tid : v \in Nat
      BY TidsAreSlots
    <3>3. ASSUME NEW v \in Tid \ {u} PROVE v < threadSeq' <=> v < threadSeq
      BY <2>3, <3>1, <3>2
    <3>4. QED BY <3>3
  <2>7. u < threadSeq' /\ threadSeq' \in 1 .. MaxTid /\ threadSeq <= threadSeq' /\ threadSeq \in Nat
    BY <1>1, <2>1, <2>3
  <2>8. u = IF Reuse THEN Head(deadList) ELSE threadSeq
    BY <1>3, <2>3
  <2>9. QED BY <1>1, <2>1, <2>4, <2>5, <2>6, <2>7, <2>8
<1>4. QED BY <1>2, <1>3

LEMMA ThreadCreateKeepsInv ==
  ASSUME Inv, NEW t \in Tid, NEW detached \in BOOLEAN, ThreadCreate(t, detached)
  PROVE  Inv'
<1>1. PICK u \in Tid :
        /\ u = IF Reuse THEN Head(deadList) ELSE threadSeq
        /\ tctx[u].status \in {"dead", "invalid"} /\ u < threadSeq'
        /\ threadSeq' \in 1 .. MaxTid /\ threadSeq <= threadSeq' /\ threadSeq \in Nat
        /\ \A v \in Tid \ {u} : v < threadSeq' <=> v < threadSeq
        /\ deadList' \in Seq(Tid)
        /\ \A i \in DOMAIN deadList' :
             /\ deadList'[i] # u /\ deadList'[i] \in Tid /\ tctx[deadList'[i]].status = "dead"
             /\ \A j \in DOMAIN deadList' : i # j => deadList'[i] # deadList'[j]
  BY CreatedSlot
<1> DEFINE clock == OwnClock(t)
           ctx == [tctx[u] EXCEPT !.status = "created", !.uid = uidSeq, !.detached = detached, !.sync = clock]
<1>2. /\ Idle(t) /\ tctx' = [tctx EXCEPT ![u] = ctx] /\ Return(t, clock, Epoch(t))
      /\ lifeKnows' = [lifeKnows EXCEPT ![u] = knows[t]] /\ uidSeq' = uidSeq + 1
      /\ sync' = sync /\ shadow' = shadow /\ held' = held /\ reports' = reports
      /\ knows' = knows /\ syncKnows' = syncKnows /\ accesses' = accesses
  BY <1>1 DEF ThreadCreate
<1>3. /\ Running(t) /\ thr[t].at = "idle" /\ thr[t].call = NoCall /\ thr[t].epoch < MaxEpoch /\ u # t
      /\ knows[t] \in Known /\ Past(knows[t]) /\ clock \in Clock /\ Epoch(t) \in Nat
      /\ Covers(clock, knows[t]) /\ thr[t].synch <= thr[t].epoch
  <2>1. /\ Running(t) /\ thr[t].at = "idle" /\ thr[t].call = NoCall /\ thr[t].epoch < MaxEpoch
    BY <1>2, IdleFacts
  <2>2. u # t
    BY <1>1, <2>1 DEF Running
  <2>3. QED BY <2>1, <2>2, ThreadFacts
<1>4. /\ tctx[u] \in Context /\ ~Running(u) /\ uidSeq \in Nat \ {0} /\ u \in Nat
      /\ \A v \in Tid : tctx[v].uid < uidSeq /\ tctx[v].uid \in Nat /\ Reached(v) \in Nat
      /\ Running(t) => Reached(t) = thr[t].epoch /\ thr[t].epoch \in Nat /\ MaxEpoch \in Nat
  <2>1. uidSeq \in Nat \ {0}
    BY DEF Inv, FieldsTyped
  <2>2. ~Running(u)
    BY <1>1 DEF Running
  <2>3. QED BY <2>1, <2>2, SlotFacts
<1> HIDE DEF clock
<1>5. /\ ctx \in Context /\ ctx.status = "created" /\ ctx.uid = uidSeq /\ ctx.sync = clock
      /\ ctx.epoch0 = tctx[u].epoch0 /\ ctx.epoch1 = tctx[u].epoch1
  <2>1. "created" \in Status
    BY DEF Status
  <2>2. QED BY <1>3, <1>4, <2>1 DEF Context
<1> HIDE DEF ctx
<1>6. /\ thr' \in [Tid -> ThreadRec]
      /\ thr'[t].epoch = thr[t].epoch + 1 /\ thr'[t].clock = clock /\ thr'[t].synch = Epoch(t)
      /\ thr'[t].at = "idle" /\ thr'[t].call = NoCall
      /\ \A v \in Tid \ {t} : thr'[v] = thr[v]
  BY <1>2, <1>3, ReturnMoves DEF Inv
<1>7. /\ tctx' \in [Tid -> Context] /\ tctx'[u] = ctx /\ \A v \in Tid \ {u} : tctx'[v] = tctx[v]
      /\ lifeKnows' \in [Tid -> Known] /\ lifeKnows'[u] = knows[t]
      /\ \A v \in Tid \ {u} : lifeKnows'[v] = lifeKnows[v]
  BY <1>2, <1>3, <1>5 DEF Inv, FieldsTyped
<1>8. FieldsTyped'
  <2>1. uidSeq' \in Nat \ {0}
    BY <1>2, <1>4
  <2>2. QED BY <1>1, <1>2, <1>6, <1>7, <2>1 DEF Inv, FieldsTyped
<1>9. /\ \A v \in Tid : Running(v)' <=> Running(v)
      /\ \A v \in Tid : Reached(v) <= Reached(v)'
  <2>1. ~Running(u)' /\ \A v \in Tid \ {u} : Running(v)' <=> Running(v)
    BY <1>5, <1>7 DEF Running
  <2>2. Reached(u)' = Reached(u)
    BY <1>4, <1>5, <1>7, <2>1 DEF Reached
  <2>3. Reached(t)' = Reached(t) + 1
    BY <1>3, <1>6, <1>7, <2>1 DEF Reached
  <2>4. \A v \in Tid \ {u, t} : Reached(v)' = Reached(v)
    BY <1>6, <1>7, <2>1 DEF Reached
  <2>5. QED BY <1>4, <2>1, <2>2, <2>3, <2>4
<1>10. \A v \in Tid : ThreadInStep(v)'
  <2>1. ThreadInStep(t)'
    <3>1. tctx'[t] = tctx[t] /\ ThreadInStep(t) /\ Epoch(t) = thr[t].epoch + 1
      BY <1>3, <1>7 DEF Inv, Epoch
    <3>2. QED BY <1>3, <1>4, <1>6, <1>9, <3>1 DEF ThreadInStep
  <2>2. ThreadInStep(u)'
    BY <1>3, <1>4, <1>5, <1>6, <1>7, <1>9 DEF Inv, ThreadInStep
  <2>3. \A v \in Tid \ {t, u} : ThreadInStep(v)'
    BY <1>6, <1>7, <1>9 DEF Inv, ThreadInStep
  <2>4. QED BY <2>1, <2>2, <2>3
<1>11. SlotsAreFree'
  <2>1. Running(0)'
    BY <1>9, TidsAreSlots DEF Inv, SlotsAreFree
  <2>2. \A v \in Tid : tctx'[v].status = "invalid" <=> v >= threadSeq'
    <3>1. tctx'[u].status # "invalid" /\ ~(u >= threadSeq')
      BY <1>1, <1>4, <1>5, <1>7
    <3>2. ASSUME NEW v \in Tid \ {u} PROVE tctx'[v].status = "invalid" <=> v >= threadSeq'
      <4>1. tctx'[v].status = "invalid" <=> v >= threadSeq
        BY <1>7 DEF Inv, SlotsAreFree
      <4>2. v \in Nat /\ threadSeq \in Nat /\ threadSeq' \in Nat /\ (v < threadSeq' <=> v < threadSeq)
        BY <1>1, TidsAreSlots
      <4>3. QED BY <4>1, <4>2
    <3>3. QED BY <3>1, <3>2
  <2>3. \A i \in DOMAIN deadList' :
          /\ tctx'[deadList'[i]].status = "dead"
          /\ \A j \in DOMAIN deadList' : i # j => deadList'[i] # deadList'[j]
    BY <1>1, <1>7
  <2>4. \A v \in Tid : tctx'[v].uid < uidSeq'
    BY <1>2, <1>4, <1>5, <1>7
  <2>5. ASSUME NEW v \in Tid, NEW w \in Tid, v < threadSeq', w < threadSeq', tctx'[v].uid = tctx'[w].uid
        PROVE  v = w
    <3>1. CASE v # u /\ w # u
      BY <1>1, <1>7, <2>5, <3>1 DEF Inv, SlotsAreFree
    <3>2. CASE v = u \/ w = u
      BY <1>4, <1>5, <1>7, <2>5, <3>2
    <3>3. QED BY <3>1, <3>2
  <2>6. QED BY <2>1, <2>2, <2>3, <2>4, <2>5 DEF SlotsAreFree
<1>12. ThreadsMove
  <2>1. \A a \in Mutex, v \in Tid :
          held[a].writer = v \/ v \in held[a].readers => Running(v)' /\ knows[v] \subseteq knows'[v]
    BY <1>2, <1>9, HoldersRun
  <2>2. \A v \in Tid : v < threadSeq' =>
          (v < threadSeq /\ tctx'[v].uid = tctx[v].uid) \/ tctx'[v].uid >= uidSeq
    BY <1>1, <1>4, <1>5, <1>7
  <2>3. \A v \in Tid : thr'[v].call = thr[v].call
    BY <1>3, <1>6
  <2>4. \A v \in Tid : Scanning(v)' => thr'[v] = thr[v] /\ tctx'[v].uid = tctx[v].uid
    <3>1. thr[u].at = "idle"
      BY <1>4, SlotFacts
    <3>2. ~Scanning(t)' /\ ~Scanning(u)'
      BY <1>3, <1>6, <3>1 DEF Scanning
    <3>3. QED BY <1>6, <1>7, <3>2
  <2>5. uidSeq <= uidSeq'
    BY <1>2, <1>4
  <2>6. QED BY <1>2, <1>9, <2>1, <2>2, <2>3, <2>4, <2>5 DEF ThreadsMove
<1>13. \A v \in Tid : (Past(knows[v]) /\ Past(lifeKnows[v]))'
  <2>1. \A K \in Known : Past(K) => Past(K)'
    BY <1>8, <1>9, PastStays DEF Inv
  <2>2. QED BY <1>2, <1>3, <1>7, <2>1, SlotFacts
<1>14. ThreadsCover'
  <2>1. CoversOthers(thr'[t].clock, knows[t], t) /\ CoversOthers(tctx'[u].sync, knows[t], u)
    BY <1>3, <1>5, <1>6, <1>7 DEF Covers, CoversOthers
  <2>2. ThreadsCover
    BY DEF Inv
  <2>3. /\ tctx'[u].status = "created" /\ tctx'[t] = tctx[t] /\ lifeKnows'[t] = lifeKnows[t]
    BY <1>3, <1>5, <1>7
  <2>4. QED BY <1>2, <1>3, <1>6, <1>7, <1>9, <2>1, <2>2, <2>3 DEF ThreadsCover
<1>15. QED BY <1>8, <1>10, <1>11, <1>12, <1>13, <1>14, ThreadsMoveKeepsInv

LEMMA ThreadFinishKeepsInv ==
  ASSUME Inv, NEW u \in Tid, ThreadFinish(u)
  PROVE  Inv'
<1> DEFINE detached == tctx[u].detached
           last == IF detached THEN thr[u].epoch ELSE Epoch(u)
           clock == Join(tctx[u].sync, OwnClock(u))
           ctx == IF detached THEN [tctx[u] EXCEPT !.status = "dead", !.sync = ZeroClock, !.epoch1 = last]
                  ELSE [tctx[u] EXCEPT !.status = "finished", !.sync = clock, !.epoch1 = last]
           K == IF detached THEN {} ELSE knows[u]
<1>1. /\ u # 0 /\ Idle(u)
      /\ \A a \in Mutex : held[a].writer # u /\ u \notin held[a].readers
      /\ thr' = [thr EXCEPT ![u] = NoThr]
      /\ lifeKnows' = [lifeKnows EXCEPT ![u] = K] /\ knows' = [knows EXCEPT ![u] = {}]
      /\ deadList' = IF detached THEN Append(deadList, u) ELSE deadList
      /\ threadSeq' = threadSeq /\ uidSeq' = uidSeq /\ sync' = sync /\ shadow' = shadow
      /\ held' = held /\ reports' = reports /\ syncKnows' = syncKnows /\ accesses' = accesses
  BY DEF ThreadFinish
<1>2. tctx' = [tctx EXCEPT ![u] = ctx]
  <2>1. tctx \in [Tid -> Context]
    BY DEF Inv, FieldsTyped
  <2>2. CASE detached
    <3>1. tctx' = [tctx EXCEPT ![u] = [Dead(tctx[u]) EXCEPT !.epoch1 = last]]
      BY <2>1, <2>2 DEF ThreadFinish
    <3>2. [Dead(tctx[u]) EXCEPT !.epoch1 = last] = ctx
      BY <2>1, <2>2 DEF Dead, Context
    <3>3. QED BY <3>1, <3>2
  <2>3. CASE ~detached
    <3>1. tctx' = [tctx EXCEPT ![u] = [[tctx[u] EXCEPT !.status = "finished", !.sync = clock] EXCEPT !.epoch1 = last]]
      BY <2>1, <2>3 DEF ThreadFinish
    <3>2. [[tctx[u] EXCEPT !.status = "finished", !.sync = clock] EXCEPT !.epoch1 = last] = ctx
      BY <2>1, <2>3 DEF Context
    <3>3. QED BY <3>1, <3>2
  <2>4. QED BY <2>2, <2>3
<1>3. /\ Running(u) /\ thr[u].at = "idle" /\ thr[u].call = NoCall /\ thr[u].epoch < MaxEpoch
      /\ knows[u] \in Known /\ OwnClock(u) \in Clock /\ Covers(OwnClock(u), knows[u])
      /\ thr[u].epoch \in Nat /\ MaxEpoch \in Nat /\ Epoch(u) = thr[u].epoch + 1
  BY <1>1, IdleFacts, ThreadFacts, TidsAreSlots DEF ThreadRec, Epoch
<1>4. /\ tctx[u] \in Context /\ tctx[u].sync \in Clock /\ Reached(u) = thr[u].epoch
      /\ tctx[u].epoch0 <= MaxEpoch + 1 /\ u < threadSeq /\ u \in Nat /\ threadSeq \in Nat
      /\ detached \in BOOLEAN /\ uidSeq \in Nat
      /\ \A v \in Tid : Reached(v) \in Nat
  <2>1. threadSeq \in Nat
    BY DEF Inv, FieldsTyped
  <2>2. tctx[u].status # "invalid"
    BY <1>3 DEF Running
  <2>3. tctx[u] \in Context /\ detached \in BOOLEAN
    BY SlotFacts DEF Context
  <2>4. QED BY <1>3, <2>1, <2>2, <2>3, SlotFacts
<1>5. last \in Nat /\ thr[u].epoch <= last /\ last <= MaxEpoch /\ MaxEpoch <= Forever
  BY <1>3 DEF Forever
<1>6. clock \in Clock /\ Covers(clock, knows[u])
  BY <1>3, <1>4, JoinCovers
<1> HIDE DEF last, clock
<1>7. /\ ctx \in Context /\ ctx.epoch0 = tctx[u].epoch0 /\ ctx.epoch1 = last /\ ctx.uid = tctx[u].uid
      /\ detached => ctx.status = "dead"
      /\ ~detached => ctx.status = "finished" /\ ctx.sync = clock
  <2>1. "dead" \in Status /\ "finished" \in Status /\ ZeroClock \in Clock
    BY TidsAreSlots DEF Status
  <2>2. CASE detached
    BY <1>4, <1>5, <2>1, <2>2 DEF Context
  <2>3. CASE ~detached
    BY <1>4, <1>5, <1>6, <2>1, <2>3 DEF Context
  <2>4. QED BY <2>2, <2>3
<1> HIDE DEF ctx
<1>8. NoThr \in ThreadRec /\ NoThr.at = "idle" /\ NoThr.call = NoCall /\ NoThr.epoch = 0 /\ NoThr.synch = 0
  <2>1. 0 \in SlotIdx /\ "idle" \in At /\ NoCall \in Call /\ ZeroClock \in Clock
    BY RaceAssumption, TidsAreSlots DEF SlotIdx, At, Call
  <2>2. QED BY <2>1 DEF NoThr, NewThr, ThreadRec
<1>9. K \in Known /\ {} \in Known
  BY <1>3 DEF Known
<1>10. /\ tctx' \in [Tid -> Context] /\ tctx'[u] = ctx /\ \A v \in Tid \ {u} : tctx'[v] = tctx[v]
       /\ thr' \in [Tid -> ThreadRec] /\ thr'[u] = NoThr /\ \A v \in Tid \ {u} : thr'[v] = thr[v]
       /\ knows' \in [Tid -> Known] /\ knows'[u] = {} /\ \A v \in Tid \ {u} : knows'[v] = knows[v]
       /\ lifeKnows' \in [Tid -> Known] /\ lifeKnows'[u] = K
       /\ \A v \in Tid \ {u} : lifeKnows'[v] = lifeKnows[v]
  <2>1. /\ tctx \in [Tid -> Context] /\ thr \in [Tid -> ThreadRec]
        /\ knows \in [Tid -> Known] /\ lifeKnows \in [Tid -> Known]
    BY DEF Inv, FieldsTyped
  <2> HIDE DEF K
  <2>2. QED BY <1>1, <1>2, <1>7, <1>8, <1>9, <2>1
<1>11. /\ ~Running(u)' /\ Reached(u)' = last
       /\ \A v \in Tid \ {u} : (Running(v)' <=> Running(v)) /\ Reached(v)' = Reached(v)
       /\ \A v \in Tid : Reached(v) <= Reached(v)'
  <2>1. ~Running(u)' /\ Reached(u)' = last
    BY <1>4, <1>7, <1>10 DEF Running, Reached
  <2>2. \A v \in Tid \ {u} : (Running(v)' <=> Running(v)) /\ Reached(v)' = Reached(v)
    BY <1>10 DEF Running, Reached
  <2>3. QED BY <1>4, <1>5, <2>1, <2>2
<1>12. /\ deadList' \in Seq(Tid)
       /\ \A i \in DOMAIN deadList' :
            /\ tctx'[deadList'[i]].status = "dead"
            /\ \A j \in DOMAIN deadList' : i # j => deadList'[i] # deadList'[j]
  <2>1. tctx[u].status = "running"
    BY <1>3 DEF Running
  <2>2. CASE detached
    BY <1>1, <1>7, <1>10, <2>1, <2>2, DeadListGrows
  <2>3. CASE ~detached
    <3>1. deadList' = deadList
      BY <1>1, <2>3
    <3>2. deadList \in Seq(Tid) /\ \A i \in DOMAIN deadList : deadList[i] \in Tid
      BY DEF Inv, FieldsTyped
    <3>3. \A i \in DOMAIN deadList :
            /\ tctx[deadList[i]].status = "dead"
            /\ \A j \in DOMAIN deadList : i # j => deadList[i] # deadList[j]
      BY DEF Inv, SlotsAreFree
    <3>4. \A i \in DOMAIN deadList : deadList[i] \in Tid \ {u}
      BY <2>1, <3>2, <3>3
    <3>5. \A v \in Tid \ {u} : tctx'[v] = tctx[v]
      BY <1>10
    <3>6. QED BY <3>1, <3>2, <3>3, <3>4, <3>5
  <2>4. QED BY <2>2, <2>3
<1>13. FieldsTyped'
  BY <1>1, <1>10, <1>12 DEF Inv, FieldsTyped
<1>14. \A v \in Tid : ThreadInStep(v)'
  <2>1. ThreadInStep(u)'
    BY <1>3, <1>4, <1>5, <1>7, <1>8, <1>10, <1>11 DEF ThreadInStep, Forever
  <2>2. \A v \in Tid \ {u} : ThreadInStep(v)'
    BY <1>10 DEF Inv, ThreadInStep, Running
  <2>3. QED BY <2>1, <2>2
<1>15. SlotsAreFree'
  <2>1. Running(0)'
    BY <1>1, <1>11, TidsAreSlots DEF Inv, SlotsAreFree
  <2>2. \A v \in Tid : tctx'[v].status = "invalid" <=> v >= threadSeq'
    BY <1>1, <1>4, <1>7, <1>10 DEF Inv, SlotsAreFree
  <2>3. \A v \in Tid : tctx'[v].uid = tctx[v].uid
    BY <1>7, <1>10
  <2>4. QED BY <1>1, <1>12, <2>1, <2>2, <2>3 DEF Inv, SlotsAreFree
<1>16. ThreadsMove
  <2>1. \A a \in Mutex, v \in Tid :
          held[a].writer = v \/ v \in held[a].readers => Running(v)' /\ knows[v] \subseteq knows'[v]
    BY <1>1, <1>10, <1>11, HoldersRun
  <2>2. \A v \in Tid : v < threadSeq' => v < threadSeq /\ tctx'[v].uid = tctx[v].uid
    BY <1>1, <1>7, <1>10
  <2>3. \A v \in Tid : thr'[v].call = thr[v].call
    BY <1>3, <1>8, <1>10
  <2>4. \A v \in Tid : Scanning(v)' => thr'[v] = thr[v] /\ tctx'[v].uid = tctx[v].uid
    BY <1>8, <1>10 DEF Scanning
  <2>5. uidSeq <= uidSeq'
    BY <1>1, <1>4
  <2>6. QED BY <1>1, <1>11, <2>1, <2>2, <2>3, <2>4, <2>5 DEF ThreadsMove
<1>17. \A v \in Tid : (Past(knows[v]) /\ Past(lifeKnows[v]))'
  <2>1. \A L \in Known : Past(L) => Past(L)'
    BY <1>11, <1>13, PastStays DEF Inv
  <2>2. Past(K) /\ \A v \in Tid : Past(knows[v]) /\ Past(lifeKnows[v]) /\ knows[v] \in Known /\ lifeKnows[v] \in Known
    BY SlotFacts DEF Past
  <2>3. ASSUME NEW v \in Tid \ {u} PROVE (Past(knows[v]) /\ Past(lifeKnows[v]))'
    BY <1>10, <2>1, <2>2
  <2>4. Past(knows[u])' /\ Past(lifeKnows[u])'
    <3>1. PICK L \in Known : L = K
      BY <1>9
    <3>2. Past(L)'
      BY <2>1, <2>2, <3>1
    <3>3. QED BY <1>10, <3>1, <3>2 DEF Past
  <2>5. QED BY <2>3, <2>4
<1>18. ThreadsCover'
  <2>1. ~detached => Covers(ctx.sync, K)
    BY <1>6, <1>7
  <2>2. ctx.status # "created" /\ (detached => ctx.status # "finished")
    BY <1>7
  <2> HIDE DEF K
  <2>3. QED BY <1>10, <1>11, <2>1, <2>2 DEF Inv, ThreadsCover
<1>19. QED BY <1>13, <1>14, <1>15, <1>16, <1>17, <1>18, ThreadsMoveKeepsInv

\* A finished thread is dead from now on: nothing else of its slot changes.
LEMMA FinishedDies ==
  ASSUME Inv, NEW u \in Tid, tctx[u].status = "finished",
         tctx' = [tctx EXCEPT ![u] = Dead(@)], deadList' = Append(deadList, u),
         lifeKnows' = [lifeKnows EXCEPT ![u] = {}], UNCHANGED <<threadSeq, uidSeq>>
  PROVE  /\ tctx' \in [Tid -> Context] /\ deadList' \in Seq(Tid) /\ lifeKnows' \in [Tid -> Known]
         /\ tctx'[u].status = "dead" /\ tctx'[u].epoch0 = tctx[u].epoch0 /\ tctx'[u].epoch1 = tctx[u].epoch1
         /\ \A v \in Tid : tctx'[v].uid = tctx[v].uid /\ (Running(v)' <=> Running(v))
         /\ \A v \in Tid \ {u} : tctx'[v] = tctx[v] /\ lifeKnows'[v] = lifeKnows[v]
         /\ lifeKnows'[u] = {} /\ SlotsAreFree'
<1>1. tctx \in [Tid -> Context] /\ tctx[u] \in Context /\ "dead" \in Status /\ ZeroClock \in Clock
  BY TidsAreSlots DEF Inv, FieldsTyped, Status
<1>2. /\ Dead(tctx[u]) \in Context /\ Dead(tctx[u]).status = "dead" /\ Dead(tctx[u]).uid = tctx[u].uid
      /\ Dead(tctx[u]).epoch0 = tctx[u].epoch0 /\ Dead(tctx[u]).epoch1 = tctx[u].epoch1
  BY <1>1 DEF Dead, Context
<1>3. tctx' \in [Tid -> Context] /\ tctx'[u] = Dead(tctx[u]) /\ \A v \in Tid \ {u} : tctx'[v] = tctx[v]
  BY <1>1, <1>2
<1>4. /\ lifeKnows' \in [Tid -> Known] /\ lifeKnows'[u] = {}
      /\ \A v \in Tid \ {u} : lifeKnows'[v] = lifeKnows[v]
  BY DEF Inv, FieldsTyped, Known
<1>5. /\ deadList' \in Seq(Tid)
      /\ \A i \in DOMAIN deadList' :
           /\ tctx'[deadList'[i]].status = "dead"
           /\ \A j \in DOMAIN deadList' : i # j => deadList'[i] # deadList'[j]
  BY <1>2, <1>3, DeadListGrows
<1>6. \A v \in Tid : tctx'[v].uid = tctx[v].uid /\ (Running(v)' <=> Running(v))
  BY <1>2, <1>3 DEF Running
<1>7. SlotsAreFree'
  <2>1. Running(0)'
    BY <1>6, TidsAreSlots DEF Inv, SlotsAreFree
  <2>2. \A v \in Tid : tctx'[v].status = "invalid" <=> v >= threadSeq'
    BY <1>2, <1>3 DEF Inv, SlotsAreFree
  <2>3. QED BY <1>5, <1>6, <2>1, <2>2 DEF Inv, SlotsAreFree
<1>8. QED BY <1>2, <1>3, <1>4, <1>5, <1>6, <1>7

LEMMA ThreadJoinKeepsInv ==
  ASSUME Inv, NEW t \in Tid, NEW u \in Tid, ThreadJoin(t, u)
  PROVE  Inv'
<1> DEFINE clock == Join(thr[t].clock, tctx[u].sync)
           K == knows[t] \cup lifeKnows[u]
<1>1. /\ Idle(t) /\ tctx[u].status = "finished" /\ SetClock(t, clock)
      /\ tctx' = [tctx EXCEPT ![u] = Dead(@)] /\ deadList' = Append(deadList, u)
      /\ knows' = [knows EXCEPT ![t] = K] /\ lifeKnows' = [lifeKnows EXCEPT ![u] = {}]
      /\ threadSeq' = threadSeq /\ uidSeq' = uidSeq /\ sync' = sync /\ shadow' = shadow
      /\ held' = held /\ reports' = reports /\ syncKnows' = syncKnows /\ accesses' = accesses
  BY DEF ThreadJoin
<1>2. /\ Running(t) /\ thr[t].at = "idle" /\ thr[t].call = NoCall /\ t # u /\ ~Running(u)
      /\ thr[t].clock \in Clock /\ CoversOthers(thr[t].clock, knows[t], t)
  <2>1. Running(t) /\ thr[t].at = "idle" /\ thr[t].call = NoCall
    BY <1>1, IdleFacts
  <2>2. t # u /\ ~Running(u)
    BY <1>1, <2>1 DEF Running
  <2>3. QED BY <2>1, <2>2, ThreadFacts DEF ThreadRec
<1>3. /\ knows[t] \in Known /\ lifeKnows[u] \in Known /\ Past(knows[t]) /\ Past(lifeKnows[u])
      /\ tctx[u].sync \in Clock /\ Covers(tctx[u].sync, lifeKnows[u])
  <2>1. Covers(tctx[u].sync, lifeKnows[u])
    BY <1>1 DEF Inv, ThreadsCover
  <2>2. QED BY <2>1, SlotFacts
<1>4. clock \in Clock /\ CoversOthers(clock, K, t) /\ K \in Known /\ Past(K) /\ knows[t] \subseteq K
  <2>1. /\ clock \in Clock /\ CoversOthers(clock, knows[t], t) /\ Covers(clock, lifeKnows[u])
    BY <1>2, <1>3, JoinCovers
  <2>2. K \in Known /\ Past(K)
    BY <1>3 DEF Known, Past
  <2>3. QED BY <2>1, <2>2, UnionCovers
<1> HIDE DEF clock, K
<1>5. /\ tctx' \in [Tid -> Context] /\ deadList' \in Seq(Tid) /\ lifeKnows' \in [Tid -> Known]
      /\ tctx'[u].status = "dead" /\ tctx'[u].epoch0 = tctx[u].epoch0 /\ tctx'[u].epoch1 = tctx[u].epoch1
      /\ \A v \in Tid : tctx'[v].uid = tctx[v].uid /\ (Running(v)' <=> Running(v))
      /\ \A v \in Tid \ {u} : tctx'[v] = tctx[v] /\ lifeKnows'[v] = lifeKnows[v]
      /\ lifeKnows'[u] = {} /\ SlotsAreFree'
  BY <1>1, FinishedDies
<1>6. /\ thr' \in [Tid -> ThreadRec] /\ \A v \in Tid \ {t} : thr'[v] = thr[v]
      /\ thr'[t].clock = clock /\ thr'[t].epoch = thr[t].epoch /\ thr'[t].synch = thr[t].synch
      /\ thr'[t].at = thr[t].at /\ thr'[t].call = thr[t].call
  <2>1. thr \in [Tid -> ThreadRec]
    BY DEF Inv, FieldsTyped
  <2>2. QED BY <1>1, <1>4, <2>1 DEF SetClock, ThreadRec
<1>7. /\ knows' \in [Tid -> Known] /\ knows'[t] = K /\ \A v \in Tid \ {t} : knows'[v] = knows[v]
  BY <1>1, <1>4 DEF Inv, FieldsTyped
<1>8. FieldsTyped'
  BY <1>1, <1>5, <1>6, <1>7 DEF Inv, FieldsTyped
<1>9. \A v \in Tid : Reached(v)' = Reached(v) /\ Reached(v) \in Nat
  <2>1. \A v \in Tid : tctx'[v].epoch1 = tctx[v].epoch1 /\ thr'[v].epoch = thr[v].epoch
    BY <1>5, <1>6
  <2>2. \A v \in Tid : Reached(v) \in Nat
    BY SlotFacts
  <2>3. QED BY <1>5, <2>1, <2>2 DEF Reached
<1>10. \A v \in Tid : ThreadInStep(v)'
  <2>1. \A v \in Tid : /\ tctx'[v].epoch0 = tctx[v].epoch0 /\ tctx'[v].epoch1 = tctx[v].epoch1
                       /\ thr'[v].epoch = thr[v].epoch /\ thr'[v].synch = thr[v].synch
                       /\ thr'[v].at = thr[v].at /\ thr'[v].call = thr[v].call
    BY <1>5, <1>6
  <2>2. QED BY <1>5, <2>1 DEF Inv, ThreadInStep
<1>11. ThreadsMove
  <2>1. \A a \in Mutex, v \in Tid :
          held[a].writer = v \/ v \in held[a].readers => Running(v)' /\ knows[v] \subseteq knows'[v]
    BY <1>4, <1>5, <1>7, HoldersRun
  <2>2. \A v \in Tid : v < threadSeq' => v < threadSeq /\ tctx'[v].uid = tctx[v].uid
    BY <1>1, <1>5
  <2>3. \A v \in Tid : thr'[v].call = thr[v].call
    BY <1>6
  <2>4. \A v \in Tid : Scanning(v)' => thr'[v] = thr[v] /\ tctx'[v].uid = tctx[v].uid
    BY <1>2, <1>5, <1>6 DEF Scanning
  <2>5. uidSeq <= uidSeq'
    BY <1>1 DEF Inv, FieldsTyped
  <2>6. \A v \in Tid : Reached(v) <= Reached(v)'
    BY <1>9
  <2>7. QED BY <1>1, <2>1, <2>2, <2>3, <2>4, <2>5, <2>6 DEF ThreadsMove
<1>12. \A v \in Tid : (Past(knows[v]) /\ Past(lifeKnows[v]))'
  <2>1. \A v \in Tid : Reached(v) <= Reached(v)'
    BY <1>9
  <2>2. \A L \in Known : Past(L) => Past(L)'
    BY <1>8, <2>1, PastStays DEF Inv
  <2>3. Past(knows[t])'
    <3>1. PICK L \in Known : L = K /\ Past(L)
      BY <1>4
    <3>2. Past(L)'
      BY <2>2, <3>1
    <3>3. QED BY <1>7, <3>1, <3>2
  <2>4. Past(lifeKnows[u])'
    BY <1>5 DEF Past
  <2>5. \A v \in Tid \ {t} : Past(knows[v])'
    BY <1>7, <2>2, SlotFacts
  <2>6. \A v \in Tid \ {u} : Past(lifeKnows[v])'
    BY <1>5, <2>2, SlotFacts
  <2>7. QED BY <2>3, <2>4, <2>5, <2>6
<1>13. ThreadsCover'
  <2>1. ThreadsCover
    BY DEF Inv
  <2>2. ASSUME NEW v \in Tid
        PROVE  /\ Running(v)' => CoversOthers(thr'[v].clock, knows'[v], v)
               /\ tctx'[v].status = "created" => CoversOthers(tctx'[v].sync, lifeKnows'[v], v)
               /\ tctx'[v].status = "finished" => Covers(tctx'[v].sync, lifeKnows'[v])
    <3>1. CASE v = t
      BY <1>2, <1>4, <1>5, <1>6, <1>7, <2>1, <3>1 DEF ThreadsCover
    <3>2. CASE v = u
      BY <1>2, <1>5, <3>2
    <3>3. CASE v # t /\ v # u
      BY <1>5, <1>6, <1>7, <2>1, <3>3 DEF ThreadsCover
    <3>4. QED BY <3>1, <3>2, <3>3
  <2>3. QED BY <2>2 DEF ThreadsCover
<1>14. QED BY <1>5, <1>8, <1>10, <1>11, <1>12, <1>13, ThreadsMoveKeepsInv

LEMMA ThreadDetachKeepsInv ==
  ASSUME Inv, NEW t \in Tid, NEW u \in Tid, ThreadDetach(t, u)
  PROVE  Inv'
<1> DEFINE finished == tctx[u].status = "finished"
           ctx == [tctx[u] EXCEPT !.detached = TRUE]
<1>1. /\ finished => /\ tctx' = [tctx EXCEPT ![u] = Dead(@)] /\ deadList' = Append(deadList, u)
                     /\ lifeKnows' = [lifeKnows EXCEPT ![u] = {}]
      /\ ~finished => /\ tctx' = [tctx EXCEPT ![u] = ctx] /\ deadList' = deadList
                      /\ lifeKnows' = [lifeKnows EXCEPT ![u] = lifeKnows[u]]
      /\ threadSeq' = threadSeq /\ uidSeq' = uidSeq /\ thr' = thr /\ sync' = sync /\ shadow' = shadow
      /\ held' = held /\ reports' = reports /\ knows' = knows /\ syncKnows' = syncKnows /\ accesses' = accesses
  BY DEF ThreadDetach
<1>2. /\ tctx' \in [Tid -> Context] /\ deadList' \in Seq(Tid) /\ lifeKnows' \in [Tid -> Known]
      /\ \A v \in Tid : /\ tctx'[v].uid = tctx[v].uid /\ (Running(v)' <=> Running(v))
                        /\ tctx'[v].epoch0 = tctx[v].epoch0 /\ tctx'[v].epoch1 = tctx[v].epoch1
                        /\ lifeKnows'[v] \subseteq lifeKnows[v]
                        /\ tctx'[v].status # "dead" =>
                             tctx'[v].status = tctx[v].status /\ tctx'[v].sync = tctx[v].sync
      /\ SlotsAreFree'
  <2>1. CASE finished
    <3>1. /\ tctx' \in [Tid -> Context] /\ deadList' \in Seq(Tid) /\ lifeKnows' \in [Tid -> Known]
          /\ tctx'[u].status = "dead" /\ tctx'[u].epoch0 = tctx[u].epoch0 /\ tctx'[u].epoch1 = tctx[u].epoch1
          /\ \A v \in Tid : tctx'[v].uid = tctx[v].uid /\ (Running(v)' <=> Running(v))
          /\ \A v \in Tid \ {u} : tctx'[v] = tctx[v] /\ lifeKnows'[v] = lifeKnows[v]
          /\ lifeKnows'[u] = {} /\ SlotsAreFree'
      BY <1>1, <2>1, FinishedDies
    <3>2. QED BY <3>1
  <2>2. CASE ~finished
    <3>1. /\ tctx \in [Tid -> Context] /\ lifeKnows \in [Tid -> Known] /\ deadList \in Seq(Tid)
          /\ \A i \in DOMAIN deadList : deadList[i] \in Tid
      BY DEF Inv, FieldsTyped
    <3>2. /\ ctx \in Context /\ ctx.uid = tctx[u].uid /\ ctx.status = tctx[u].status /\ ctx.sync = tctx[u].sync
          /\ ctx.epoch0 = tctx[u].epoch0 /\ ctx.epoch1 = tctx[u].epoch1
      BY <3>1 DEF Context
    <3> HIDE DEF ctx
    <3>3. tctx' \in [Tid -> Context] /\ tctx'[u] = ctx /\ \A v \in Tid \ {u} : tctx'[v] = tctx[v]
      BY <1>1, <2>2, <3>1, <3>2
    <3>4. \A v \in Tid : /\ tctx'[v].uid = tctx[v].uid /\ tctx'[v].status = tctx[v].status
                         /\ tctx'[v].sync = tctx[v].sync
                         /\ tctx'[v].epoch0 = tctx[v].epoch0 /\ tctx'[v].epoch1 = tctx[v].epoch1
      BY <3>2, <3>3
    <3>5. lifeKnows' = lifeKnows
      BY <1>1, <2>2, <3>1
    <3>6. \A v \in Tid : Running(v)' <=> Running(v)
      BY <3>4 DEF Running
    <3>7. SlotsAreFree'
      <4>1. Running(0)'
        BY <3>6, TidsAreSlots DEF Inv, SlotsAreFree
      <4>2. \A v \in Tid : tctx'[v].status = "invalid" <=> v >= threadSeq'
        BY <1>1, <3>4 DEF Inv, SlotsAreFree
      <4>3. QED BY <1>1, <2>2, <3>1, <3>4, <4>1, <4>2 DEF Inv, SlotsAreFree
    <3>8. QED BY <1>1, <2>2, <3>1, <3>3, <3>4, <3>5, <3>6, <3>7
  <2>3. QED BY <2>1, <2>2
<1>3. FieldsTyped'
  BY <1>1, <1>2 DEF Inv, FieldsTyped
<1>4. \A v \in Tid : Reached(v)' = Reached(v) /\ Reached(v) \in Nat
  BY <1>1, <1>2, SlotFacts DEF Reached
<1>5. \A v \in Tid : ThreadInStep(v)'
  BY <1>1, <1>2 DEF Inv, ThreadInStep
<1>6. ThreadsMove
  <2>1. \A a \in Mutex, v \in Tid :
          held[a].writer = v \/ v \in held[a].readers => Running(v)' /\ knows[v] \subseteq knows'[v]
    BY <1>1, <1>2, HoldersRun
  <2>2. uidSeq <= uidSeq'
    BY <1>1 DEF Inv, FieldsTyped
  <2>3. \A v \in Tid : Reached(v) <= Reached(v)'
    BY <1>4
  <2>4. \A v \in Tid : Scanning(v)' => thr'[v] = thr[v] /\ tctx'[v].uid = tctx[v].uid
    BY <1>1, <1>2
  <2>5. QED BY <1>1, <1>2, <2>1, <2>2, <2>3, <2>4 DEF ThreadsMove
<1>7. \A v \in Tid : (Past(knows[v]) /\ Past(lifeKnows[v]))'
  <2>1. \A v \in Tid : Reached(v) <= Reached(v)'
    BY <1>4
  <2>2. \A L \in Known : Past(L) => Past(L)'
    BY <1>3, <2>1, PastStays DEF Inv
  <2>3. ASSUME NEW v \in Tid PROVE (Past(knows[v]) /\ Past(lifeKnows[v]))'
    <3>1. Past(lifeKnows'[v]) /\ lifeKnows'[v] \in Known
      BY <1>2, SlotFacts DEF Past
    <3>2. PICK L \in Known : L = lifeKnows'[v]
      BY <3>1
    <3>3. Past(L)'
      BY <2>2, <3>1, <3>2
    <3>4. QED BY <1>1, <2>2, <3>2, <3>3, SlotFacts
  <2>4. QED BY <2>3
<1>8. ThreadsCover'
  <2>1. ASSUME NEW v \in Tid
        PROVE  /\ Running(v)' => CoversOthers(thr'[v].clock, knows'[v], v)
               /\ tctx'[v].status = "created" => CoversOthers(tctx'[v].sync, lifeKnows'[v], v)
               /\ tctx'[v].status = "finished" => Covers(tctx'[v].sync, lifeKnows'[v])
    <3>1. /\ Running(v) => CoversOthers(thr[v].clock, knows[v], v)
          /\ tctx[v].status = "created" => CoversOthers(tctx[v].sync, lifeKnows[v], v)
          /\ tctx[v].status = "finished" => Covers(tctx[v].sync, lifeKnows[v])
      BY DEF Inv, ThreadsCover
    <3>2. /\ lifeKnows'[v] \subseteq lifeKnows[v]
          /\ tctx'[v].status # "dead" => tctx'[v].status = tctx[v].status /\ tctx'[v].sync = tctx[v].sync
      BY <1>2
    <3>3. QED BY <1>1, <1>2, <3>1, <3>2 DEF Covers, CoversOthers
  <2>2. QED BY <2>1 DEF ThreadsCover
<1>9. QED BY <1>2, <1>3, <1>5, <1>6, <1>7, <1>8, ThreadsMoveKeepsInv

-----------------------------------------------------------------------------
(* The specification.                                                       *)

LEMMA InitEstablishesInv == Init => Inv
<1> SUFFICES ASSUME Init PROVE Inv
  OBVIOUS
<1> DEFINE first == [NewContext EXCEPT !.status = "running", !.epoch0 = 1, !.epoch1 = Forever]
           main == NewThr(1, [ZeroClock EXCEPT ![0] = 1])
<1>1. /\ 0 \in Tid /\ NoTid \notin Tid /\ (\A t \in Tid : t \in Nat) /\ ZeroClock \in Clock
      /\ MaxEpoch \in Nat /\ Forever \in Nat /\ 0 \in SlotIdx /\ 1 \in 1 .. MaxTid
  BY RaceAssumption, TidsAreSlots DEF Forever, SlotIdx
<1>2. /\ NewContext \in Context /\ NewContext.status = "invalid" /\ NewContext.uid = 0
      /\ NewContext.epoch0 = 0 /\ NewContext.epoch1 = 0
      /\ first \in Context /\ first.status = "running" /\ first.uid = 0
      /\ first.epoch0 = 1 /\ first.epoch1 = Forever
  <2>1. "invalid" \in Status /\ "running" \in Status
    BY DEF Status
  <2>2. QED BY <1>1, <2>1 DEF NewContext, Context
<1>3. /\ main \in ThreadRec /\ main.epoch = 1 /\ main.synch = 1 /\ main.at = "idle" /\ main.call = NoCall
      /\ NoThr \in ThreadRec /\ NoThr.epoch = 0 /\ NoThr.synch = 0 /\ NoThr.at = "idle" /\ NoThr.call = NoCall
  <2>1. "idle" \in At /\ NoCall \in Call
    BY DEF At, Call
  <2>2. PICK clock \in Clock : clock = [ZeroClock EXCEPT ![0] = 1]
    BY <1>1 DEF Clock
  <2>3. NewThr(1, clock) \in ThreadRec /\ NoThr \in ThreadRec
    BY <1>1, <2>1 DEF NoThr, NewThr, ThreadRec
  <2>4. QED BY <2>2, <2>3 DEF NoThr, NewThr
<1> HIDE DEF first, main
<1>4. /\ tctx \in [Tid -> Context] /\ tctx[0] = first /\ \A t \in Tid \ {0} : tctx[t] = NewContext
      /\ thr \in [Tid -> ThreadRec] /\ thr[0] = main /\ \A t \in Tid \ {0} : thr[t] = NoThr
  BY <1>1, <1>2, <1>3 DEF Init, first, main
<1>5. /\ threadSeq = 1 /\ uidSeq = 1 /\ deadList = <<>> /\ reports = {}
      /\ \A c \in AnyCell : shadow[c] = [i \in SlotIdx |-> Empty] /\ accesses[c] = {}
      /\ \A t \in Tid : knows[t] = {} /\ lifeKnows[t] = {}
      /\ \A a \in Addr : syncKnows[a] = [lock |-> {}, read |-> {}]
      /\ \A a \in Mutex : a \in Addr /\ held[a] = [writer |-> NoTid, depth |-> 0, readers |-> {}]
      /\ \A a \in Addr : sync[a] = [owner |-> NoTid, recursion |-> 0, clock |-> ZeroClock, read_clock |-> ZeroClock]
  BY DEF Init, AnyCell, SlotIdx, Addr
<1>6. FieldsTyped
  <2>1. sync \in [Addr -> SyncRec] /\ held \in [Mutex -> HeldRec]
    BY <1>1 DEF Init, SyncRec, HeldRec
  <2>2. shadow \in [AnyCell -> [SlotIdx -> Word \cup {Empty}]] /\ accesses \in [AnyCell -> SUBSET Word]
    BY DEF Init, AnyCell, SlotIdx
  <2>3. /\ knows \in [Tid -> Known] /\ lifeKnows \in [Tid -> Known]
        /\ syncKnows \in [Addr -> [lock : Known, read : Known]]
    BY DEF Init, Known
  <2>4. deadList \in Seq(Tid)
    BY <1>5
  <2>5. QED BY <1>1, <1>4, <1>5, <2>1, <2>2, <2>3, <2>4 DEF FieldsTyped
<1>7. Running(0) /\ \A t \in Tid \ {0} : ~Running(t)
  BY <1>2, <1>4 DEF Running
<1>8. \A t \in Tid : ThreadInStep(t)
  <2>1. ThreadInStep(0)
    BY <1>1, <1>2, <1>3, <1>4, <1>7 DEF ThreadInStep
  <2>2. \A t \in Tid \ {0} : ThreadInStep(t)
    BY <1>1, <1>2, <1>3, <1>4 DEF ThreadInStep, Forever
  <2>3. QED BY <2>1, <2>2
<1>9. SlotsAreFree
  <2>1. \A t \in Tid : tctx[t].status = "invalid" <=> t >= threadSeq
    BY <1>1, <1>2, <1>4, <1>5
  <2>2. \A t \in Tid : tctx[t].uid = 0 /\ (t < threadSeq => t = 0)
    BY <1>1, <1>2, <1>4, <1>5
  <2>3. DOMAIN deadList = {}
    BY <1>5
  <2>4. QED BY <1>5, <1>7, <2>1, <2>2, <2>3 DEF SlotsAreFree
<1>10. AccessesArePast /\ EpochsAreUnique /\ ShadowIsAccessed
  <2>1. AllAccesses = {}
    BY <1>5, <1>6 DEF FieldsTyped, AllAccesses
  <2>2. QED BY <1>5, <2>1 DEF AccessesArePast, EpochsAreUnique, ShadowIsAccessed
<1>11. KnowledgeIsPast
  BY <1>5 DEF KnowledgeIsPast, Past
<1>12. ThreadsCover
  BY <1>5 DEF ThreadsCover, Covers, CoversOthers
<1>13. SyncsCover
  BY <1>5 DEF SyncsCover, Covers
<1>14. \A a \in Mutex : HolderHolds(a) /\ OwnerAgrees(a)
  <2>1. \A t \in Tid, o \in Op : \A a : ~Pending(t, o, a)
    BY <1>3, <1>4, NoCallIsNotPending DEF Pending
  <2>2. ASSUME NEW a \in Mutex PROVE HolderHolds(a) /\ OwnerAgrees(a)
    <3>1. HolderHolds(a)
      BY <1>5, <2>1, OpsAre DEF HolderHolds
    <3>2. Counted(a) = 0
      BY <1>5 DEF Counted
    <3>3. QED BY <1>5, <3>1, <3>2 DEF OwnerAgrees
  <2>3. QED BY <2>2
<1>15. ScansAreReal
  <2>1. \A t \in Tid : thr[t].at = "idle"
    BY <1>3, <1>4
  <2>2. QED BY <2>1 DEF ScansAreReal, Scanning
<1>16. NoFalseAlarm
  BY <1>5 DEF NoFalseAlarm
<1>17. QED BY <1>6, <1>8, <1>9, <1>10, <1>11, <1>12, <1>13, <1>14, <1>15, <1>16 DEF Inv

LEMMA NextKeepsInv == Inv /\ [Next]_vars => Inv'
<1> SUFFICES ASSUME Inv, [Next]_vars PROVE Inv'
  OBVIOUS
<1>1. ASSUME NEW t \in Tid, Access(t) PROVE Inv'
  BY <1>1, MemoryAccessKeepsInv DEF Access
<1>2. ASSUME NEW t \in Tid, Scan(t) PROVE Inv'
  BY <1>2, ScanSlotKeepsInv, StoreSlotKeepsInv, EvictSlotKeepsInv, ReportRaceKeepsInv DEF Scan
<1>3. ASSUME NEW t \in Tid, MutexCall(t) PROVE Inv'
  <2>1. \/ \E a \in Mutex, op \in Op : CallMutex(t, op, a)
        \/ MutexLock(t) \/ MutexUnlock(t) \/ MutexReadLock(t) \/ MutexReadUnlock(t) \/ MutexReadOrWriteUnlock(t)
    BY <1>3 DEF MutexCall, Op
  <2>2. QED BY <2>1, CallMutexKeepsInv, MutexLockKeepsInv, MutexUnlockKeepsInv, MutexReadLockKeepsInv,
               MutexReadUnlockKeepsInv, MutexReadOrWriteUnlockKeepsInv
<1>4. ASSUME NEW t \in Tid, AtomicCall(t) PROVE Inv'
  BY <1>4, AcquireKeepsInv, ReleaseKeepsInv, ReleaseStoreKeepsInv DEF AtomicCall
<1>5. ASSUME NEW t \in Tid, ThreadCall(t) PROVE Inv'
  BY <1>5, ThreadCreateKeepsInv, ThreadStartKeepsInv, ThreadFinishKeepsInv, ThreadJoinKeepsInv,
     ThreadDetachKeepsInv DEF ThreadCall
<1>6. CASE UNCHANGED vars
  <2>1. /\ tctx' = tctx /\ thr' = thr /\ threadSeq' = threadSeq /\ uidSeq' = uidSeq /\ deadList' = deadList
        /\ sync' = sync /\ shadow' = shadow /\ held' = held /\ reports' = reports /\ knows' = knows
        /\ lifeKnows' = lifeKnows /\ syncKnows' = syncKnows /\ accesses' = accesses
    BY <1>6 DEF vars, threads, history
  <2>2. /\ FieldsTyped' /\ (\A t \in Tid : ThreadInStep(t)') /\ SlotsAreFree'
    BY <2>1 DEF Inv, FieldsTyped, ThreadInStep, SlotsAreFree, Running
  <2>3. AccessesArePast' /\ EpochsAreUnique' /\ KnowledgeIsPast'
    BY <2>1 DEF Inv, AccessesArePast, EpochsAreUnique, AllAccesses, KnowledgeIsPast, Past, Reached, Running
  <2>4. ThreadsCover' /\ SyncsCover' /\ ShadowIsAccessed' /\ ScansAreReal' /\ NoFalseAlarm'
    BY <2>1 DEF Inv, ThreadsCover, SyncsCover, ShadowIsAccessed, ScansAreReal, NoFalseAlarm, Running, Scanning
  <2>5. \A a \in Mutex : HolderHolds(a)' /\ OwnerAgrees(a)'
    BY <2>1 DEF Inv, HolderHolds, OwnerAgrees, Counted, Pending, Running
  <2>6. QED BY <2>2, <2>3, <2>4, <2>5 DEF Inv
<1>7. QED BY <1>1, <1>2, <1>3, <1>4, <1>5, <1>6 DEF Next

LEMMA InvHolds == Spec => []Inv
  BY InitEstablishesInv, NextKeepsInv, PTL DEF Spec

\* The clocks cover what really happened before (tsan_clock.cc, tsan_rtl_mutex.cc,
\* tsan_rtl_thread.cc): by locks, joins and releases alike, whatever the number
\* of threads and the slots that are reused.
THEOREM ClocksStaySound == Spec => []ClocksAreSound
<1>1. Inv => TypeOK
  <2> SUFFICES ASSUME Inv PROVE TypeOK
    OBVIOUS
  <2>1. /\ DOMAIN shadow = AnyCell /\ (\A c \in AnyCell : DOMAIN shadow[c] = SlotIdx) /\ DOMAIN sync = Addr
        /\ (\A a \in Addr : sync[a] \in SyncRec) /\ threadSeq \in 1 .. MaxTid /\ deadList \in Seq(Tid)
    BY DEF Inv, FieldsTyped
  <2>2. ASSUME NEW t \in Tid
        PROVE  /\ tctx[t].status \in Status /\ tctx[t].uid \in 0 .. uidSeq - 1 /\ tctx[t].sync \in Clock
               /\ tctx[t].epoch0 < Forever /\ tctx[t].epoch1 <= Forever /\ thr[t].clock \in Clock
               /\ thr[t].synch <= thr[t].epoch /\ thr[t].epoch < Forever /\ thr[t].at \in At
               /\ thr[t].idx \in SlotIdx
    <3>1. tctx[t] \in Context /\ thr[t] \in ThreadRec /\ ThreadInStep(t)
      BY DEF Inv, FieldsTyped
    <3>2. /\ tctx[t].uid \in Nat /\ uidSeq \in Nat /\ tctx[t].uid < uidSeq
          /\ tctx[t].epoch0 \in Nat /\ tctx[t].epoch0 <= MaxEpoch + 1 /\ MaxEpoch \in Nat
      BY SlotFacts
    <3>3. thr[t].epoch \in Nat /\ thr[t].epoch <= MaxEpoch + 1 /\ thr[t].synch <= thr[t].epoch
      BY <3>1, <3>2 DEF ThreadInStep, ThreadRec
    <3>4. tctx[t].epoch1 <= Forever
      BY <3>1 DEF ThreadInStep
    <3>5. QED BY <3>1, <3>2, <3>3, <3>4 DEF Context, ThreadRec, Forever
  <2>3. QED BY <2>1, <2>2 DEF TypeOK, Status, At, SyncRec
<1>2. Inv => ClockCoversKnowledge
  BY DEF Inv, ClockCoversKnowledge, ThreadsCover, CoversOthers, KnowledgeIsPast, Past, Reached, Running
<1>3. Inv => OwnerIsHolder
  <2> SUFFICES ASSUME Inv, NEW a \in DOMAIN held,
                      \A t \in Tid : thr[t].call = NoCall \/ thr[t].call.addr # a
               PROVE  sync[a].owner = held[a].writer /\ sync[a].recursion = held[a].depth
    BY DEF OwnerIsHolder
  <2>1. a \in Mutex
    BY DEF Inv, FieldsTyped
  <2>2. \A t \in Tid : ~Pending(t, "lock", a)
    BY NoCallIsNotPending, OpsAre DEF Pending
  <2>3. HolderHolds(a) /\ OwnerAgrees(a) /\ held[a] \in HeldRec
    BY <2>1, MutexFacts
  <2>4. Counted(a) = held[a].depth
    BY <2>2, <2>3 DEF Counted, HeldRec
  <2>5. held[a].depth = 0 <=> held[a].writer = NoTid
    BY <2>3 DEF HolderHolds, HeldRec
  <2>6. QED BY <2>3, <2>4, <2>5 DEF OwnerAgrees
<1>4. QED BY <1>1, <1>2, <1>3, InvHolds, PTL DEF ClocksAreSound

\* No report is a false alarm (ReportRace, tsan_rtl_report.cc; MemoryAccessImpl,
\* tsan_rtl.cc), however many threads scan the slots of one cell at once.
THEOREM NoAlarmIsFalse == Spec => []NoFalseAlarm
<1>1. Inv => NoFalseAlarm
  BY DEF Inv
<1>2. QED BY <1>1, InvHolds, PTL

\* A reused slot continues the epochs of the last thread that had it, so tid and
\* epoch name one access for ever (ThreadStart, tsan_rtl_thread.cc:107).
THEOREM EpochsStayUnique == Spec => []EpochsAreUnique
<1>1. Inv => EpochsAreUnique
  BY DEF Inv
<1>2. QED BY <1>1, InvHolds, PTL

-----------------------------------------------------------------------------
(* Synch epochs, while no Release comes between.                            *)

\* How much of a slot other threads can know: what its thread had done at its
\* fast_synch_epoch, or all that the last thread of the slot did.
Published(t) == IF Running(t) THEN thr[t].synch ELSE tctx[t].epoch1
Below(clock) == \A s \in Tid : clock[s] <= Published(s)
BelowOthers(clock, t) == \A s \in Tid \ {t} : clock[s] <= Published(s)
ClocksArePublished ==
  /\ \A t \in Tid : BelowOthers(thr[t].clock, t) /\ Below(tctx[t].sync)
  /\ \A a \in Addr : Below(sync[a].clock) /\ Below(sync[a].read_clock)

LEMMA PublishedIsNat == ASSUME Inv, NEW t \in Tid PROVE Published(t) \in Nat
  BY SlotFacts DEF Published, ThreadRec

LEMMA JoinIsBelow ==
  ASSUME Inv, NEW c \in Clock, NEW d \in Clock, NEW t \in Tid, BelowOthers(c, t), BelowOthers(d, t)
  PROVE  Join(c, d) \in Clock /\ BelowOthers(Join(c, d), t)
<1>1. Join(c, d) \in Clock
  BY JoinCovers
<1>2. BelowOthers(Join(c, d), t)
  BY DEF Join, BelowOthers, Clock
<1>3. QED BY <1>1, <1>2

\* What was published stays so.
LEMMA BelowStays ==
  ASSUME Inv, Inv', \A s \in Tid : Published(s) <= Published(s)', NEW c \in Clock
  PROVE  /\ Below(c) => \A s \in Tid : c[s] <= Published(s)'
         /\ \A t \in Tid : BelowOthers(c, t) => \A s \in Tid \ {t} : c[s] <= Published(s)'
<1>1. \A s \in Tid : Published(s) \in Nat /\ c[s] \in Nat
  BY PublishedIsNat DEF Clock
<1>2. \A s \in Tid : Published(s)' \in Nat
  <2>1. \A s \in Tid : tctx'[s] \in Context /\ thr'[s] \in ThreadRec
    BY DEF Inv, FieldsTyped
  <2>2. QED BY <2>1 DEF Published, Context, ThreadRec
<1>3. QED BY <1>1, <1>2 DEF Below, BelowOthers

\* It is enough that what is new in a step is published.
LEMMA StepPublishes ==
  ASSUME Inv, Inv', ClocksArePublished, \A s \in Tid : Published(s) <= Published(s)',
         \A t \in Tid : \/ thr'[t].clock = thr[t].clock
                        \/ \A s \in Tid \ {t} : thr'[t].clock[s] <= Published(s)',
         \A t \in Tid : \/ tctx'[t].sync = tctx[t].sync
                        \/ \A s \in Tid : tctx'[t].sync[s] <= Published(s)',
         \A a \in Addr : \/ sync'[a].clock = sync[a].clock
                         \/ \A s \in Tid : sync'[a].clock[s] <= Published(s)',
         \A a \in Addr : \/ sync'[a].read_clock = sync[a].read_clock
                         \/ \A s \in Tid : sync'[a].read_clock[s] <= Published(s)'
  PROVE  ClocksArePublished'
<1>1. /\ \A t \in Tid : thr[t].clock \in Clock /\ tctx[t].sync \in Clock
      /\ \A a \in Addr : sync[a].clock \in Clock /\ sync[a].read_clock \in Clock
  BY DEF Inv, FieldsTyped, ThreadRec, Context, SyncRec
<1>2. ASSUME NEW t \in Tid PROVE BelowOthers(thr[t].clock, t)' /\ Below(tctx[t].sync)'
  BY <1>1, BelowStays DEF ClocksArePublished, Below, BelowOthers
<1>3. ASSUME NEW a \in Addr PROVE Below(sync[a].clock)' /\ Below(sync[a].read_clock)'
  BY <1>1, BelowStays DEF ClocksArePublished, Below, BelowOthers
<1>4. QED BY <1>2, <1>3 DEF ClocksArePublished

\* A step that publishes nothing.
LEMMA QuietStepPublishes ==
  ASSUME Inv, Inv', ClocksArePublished, tctx' = tctx, sync' = sync,
         \A t \in Tid : thr'[t].clock = thr[t].clock /\ thr'[t].synch = thr[t].synch
  PROVE  ClocksArePublished'
<1>1. \A s \in Tid : Published(s)' = Published(s) /\ Published(s) \in Nat
  BY PublishedIsNat DEF Published, Running
<1>2. \A s \in Tid : Published(s) <= Published(s)'
  BY <1>1
<1>3. QED BY <1>2, StepPublishes

\* What the handlers of a mutex do: one that publishes its thread's clock begins a synch epoch.
ThreadPublishes(t) ==
  /\ Running(t) /\ tctx' = tctx /\ \A u \in Tid \ {t} : thr'[u] = thr[u]
  /\ thr'[t].synch \in {thr[t].synch, Epoch(t)} /\ BelowOthers(thr'[t].clock, t)
SyncsPublished(t) ==
  /\ \A a \in Addr : \/ sync'[a].clock = sync[a].clock
                     \/ thr'[t].synch = Epoch(t) /\ sync'[a].clock = OwnClock(t)
  /\ \A a \in Addr : \/ sync'[a].read_clock = sync[a].read_clock
                     \/ /\ thr'[t].synch = Epoch(t)
                        /\ sync'[a].read_clock = Join(sync[a].read_clock, OwnClock(t))

LEMMA HandlerPublishes ==
  ASSUME Inv, Inv', ClocksArePublished, NEW t \in Tid, ThreadPublishes(t), SyncsPublished(t)
  PROVE  ClocksArePublished'
<1> USE DEF ThreadPublishes, SyncsPublished
<1>1. /\ thr[t] \in ThreadRec /\ OwnClock(t) \in Clock /\ Epoch(t) \in Nat /\ thr[t].synch \in Nat
      /\ thr[t].synch < Epoch(t)
  BY ThreadFacts DEF ThreadRec, Epoch
<1>2. /\ Published(t)' = thr'[t].synch /\ Published(t) = thr[t].synch
      /\ \A s \in Tid \ {t} : Published(s)' = Published(s)
  BY DEF Published, Running
<1>3. \A s \in Tid : Published(s) <= Published(s)'
  BY <1>1, <1>2, PublishedIsNat
<1>4. OwnClock(t)[t] = Epoch(t) /\ \A s \in Tid \ {t} : OwnClock(t)[s] = thr[t].clock[s]
  BY <1>1 DEF OwnClock, ThreadRec, Clock
<1>5. thr'[t].synch = Epoch(t) => \A s \in Tid : OwnClock(t)[s] <= Published(s)'
  BY <1>1, <1>2, <1>4 DEF ClocksArePublished, BelowOthers
<1>6. ASSUME NEW a \in Addr, thr'[t].synch = Epoch(t)
      PROVE  \A s \in Tid : Join(sync[a].read_clock, OwnClock(t))[s] <= Published(s)'
  <2>1. sync[a].read_clock \in Clock /\ Below(sync[a].read_clock)
    BY DEF Inv, FieldsTyped, SyncRec, ClocksArePublished
  <2>2. \A s \in Tid : sync[a].read_clock[s] <= Published(s)'
    BY <1>3, <2>1, BelowStays
  <2>3. \A s \in Tid : Join(sync[a].read_clock, OwnClock(t))[s] \in {sync[a].read_clock[s], OwnClock(t)[s]}
    BY DEF Join
  <2>4. QED BY <1>5, <1>6, <2>2, <2>3
<1>7. \A s \in Tid \ {t} : thr'[t].clock[s] <= Published(s)'
  BY <1>2 DEF BelowOthers
<1>8. \A u \in Tid : \/ thr'[u].clock = thr[u].clock
                     \/ \A s \in Tid \ {u} : thr'[u].clock[s] <= Published(s)'
  BY <1>7
<1>9. QED BY <1>3, <1>5, <1>6, <1>8, StepPublishes

-----------------------------------------------------------------------------
\* An access keeps its thread's clock and synch epoch.
Quiet == \A u \in Tid : thr'[u].clock = thr[u].clock /\ thr'[u].synch = thr[u].synch

LEMMA ScanIsQuiet ==
  ASSUME Inv, NEW t \in Tid
  PROVE  /\ EndAccess(t) => Quiet
         /\ NextSlot(t) => Quiet
         /\ StoreHere(t) => Quiet
         /\ \A old : HandleRace(t, old) => Quiet
         /\ StoreSlot(t) => Quiet
<1>1. thr \in [Tid -> ThreadRec] /\ thr[t] \in ThreadRec
  BY DEF Inv, FieldsTyped
<1>2. EndAccess(t) => Quiet
  <2> DEFINE r == [thr[t] EXCEPT !.at = IF thr[t].call = NoCall THEN "idle" ELSE "call",
                                 !.cur = Empty, !.old = Empty, !.idx = 0, !.stored = FALSE]
  <2>1. EndAccess(t) => thr' = [thr EXCEPT ![t] = r]
    BY DEF EndAccess
  <2>2. r.clock = thr[t].clock /\ r.synch = thr[t].synch
    BY <1>1 DEF ThreadRec
  <2> HIDE DEF r
  <2>3. QED BY <1>1, <2>1, <2>2 DEF Quiet
<1>3. NextSlot(t) => Quiet
  <2>1. ASSUME thr' = [thr EXCEPT ![t].idx = @ + 1, ![t].at = "scan"] PROVE Quiet
    BY <1>1, <2>1 DEF Quiet, ThreadRec
  <2>2. ASSUME thr' = [thr EXCEPT ![t].at = "evict"] PROVE Quiet
    BY <1>1, <2>2 DEF Quiet, ThreadRec
  <2>3. QED BY <1>2, <2>1, <2>2 DEF NextSlot
<1>4. StoreHere(t) => Quiet
  BY <1>1 DEF StoreHere, Quiet, ThreadRec
<1>5. ASSUME NEW old, HandleRace(t, old) PROVE Quiet
  BY <1>1, <1>5 DEF HandleRace, Quiet, ThreadRec
<1>6. StoreSlot(t) => Quiet
  <2>1. ASSUME thr' = [thr EXCEPT ![t].stored = TRUE, ![t].idx = @ + 1, ![t].at = "scan"] PROVE Quiet
    BY <1>1, <2>1 DEF Quiet, ThreadRec
  <2>2. QED BY <1>2, <2>1 DEF StoreSlot
<1>7. QED BY <1>2, <1>3, <1>4, <1>5, <1>6

LEMMA StartScanIsQuiet ==
  ASSUME Inv, NEW t \in Tid, NEW cur, NEW call, StartScan(t, cur, call)
  PROVE  tctx' = tctx /\ sync' = sync /\ Quiet
<1> DEFINE r == [thr[t] EXCEPT !.epoch = @ + 1, !.at = "scan", !.call = call,
                               !.cur = cur, !.idx = 0, !.stored = FALSE]
<1>1. thr \in [Tid -> ThreadRec] /\ thr' = [thr EXCEPT ![t] = r] /\ tctx' = tctx /\ sync' = sync
  BY DEF Inv, FieldsTyped, StartScan, threads
<1>2. r.clock = thr[t].clock /\ r.synch = thr[t].synch
  BY <1>1 DEF ThreadRec
<1> HIDE DEF r
<1>3. QED BY <1>1, <1>2 DEF Quiet

LEMMA AccessPublishes ==
  ASSUME Inv, Inv', ClocksArePublished, NEW t \in Tid,
         Access(t) \/ Scan(t) \/ \E a \in Mutex, op \in Op : CallMutex(t, op, a)
  PROVE  ClocksArePublished'
<1>1. tctx' = tctx /\ sync' = sync /\ Quiet
  <2>1. CASE Scan(t)
    <3>1. tctx' = tctx /\ sync' = sync
      <4>1. ScanSlot(t) => tctx' = tctx /\ sync' = sync
        BY DEF ScanSlot, threads
      <4>2. StoreSlot(t) => tctx' = tctx /\ sync' = sync
        BY DEF StoreSlot, threads
      <4>3. EvictSlot(t) \/ ReportRace(t) => tctx' = tctx /\ sync' = sync
        BY DEF EvictSlot, ReportRace, threads
      <4>4. QED BY <2>1, <4>1, <4>2, <4>3 DEF Scan
    <3>2. ScanSlot(t) => \/ EndAccess(t) \/ NextSlot(t) \/ StoreHere(t)
                         \/ \E old : HandleRace(t, old)
      BY DEF ScanSlot
    <3>3. EvictSlot(t) \/ ReportRace(t) => EndAccess(t)
      BY DEF EvictSlot, ReportRace
    <3>4. QED BY <2>1, <3>1, <3>2, <3>3, ScanIsQuiet DEF Scan
  <2>2. CASE Access(t)
    <3>1. \E cur, call : StartScan(t, cur, call)
      BY <2>2 DEF Access, MemoryAccess
    <3>2. QED BY <3>1, StartScanIsQuiet
  <2>3. CASE \E a \in Mutex, op \in Op : CallMutex(t, op, a)
    <3>1. PICK a \in Mutex, op \in Op : CallMutex(t, op, a)
      BY <2>3
    <3>2. CASE a \in AppMem
      <4>1. \E cur, call : StartScan(t, cur, call)
        BY <3>1, <3>2 DEF CallMutex
      <4>2. QED BY <4>1, StartScanIsQuiet
    <3>3. CASE a \notin AppMem
      <4>1. /\ thr' = [thr EXCEPT ![t].at = "call", ![t].call = [op |-> op, addr |-> a]]
            /\ tctx' = tctx /\ sync' = sync
        BY <3>1, <3>3 DEF CallMutex, threads
      <4>2. thr \in [Tid -> ThreadRec]
        BY DEF Inv, FieldsTyped
      <4>3. QED BY <4>1, <4>2 DEF Quiet, ThreadRec
    <3>4. QED BY <3>2, <3>3
  <2>4. QED BY <2>1, <2>2, <2>3
<1>2. QED BY <1>1, QuietStepPublishes DEF Quiet

\* What a handler finds: the caller's clock and the mutex's have only what is published.
LEMMA HandlerFacts ==
  ASSUME Inv, ClocksArePublished, NEW t \in Tid, NEW op \in Op, Calling(t, op)
  PROVE  /\ Running(t) /\ thr[t].call.addr \in Mutex /\ thr[t].call.addr \in Addr
         /\ thr[t].clock \in Clock /\ thr[t].synch \in Nat /\ OwnClock(t) \in Clock /\ Epoch(t) \in Nat
         /\ BelowOthers(thr[t].clock, t) /\ BelowOthers(OwnClock(t), t)
         /\ sync \in [Addr -> SyncRec]
         /\ sync[thr[t].call.addr].clock \in Clock /\ sync[thr[t].call.addr].read_clock \in Clock
         /\ BelowOthers(sync[thr[t].call.addr].clock, t) /\ BelowOthers(sync[thr[t].call.addr].read_clock, t)
<1>1. Running(t) /\ thr[t].call.addr \in Mutex
  BY CallingIsPending
<1>2. thr[t].call.addr \in Addr /\ sync \in [Addr -> SyncRec]
  BY <1>1 DEF Addr, Inv, FieldsTyped
<1>3. /\ thr[t].clock \in Clock /\ thr[t].synch \in Nat /\ OwnClock(t) \in Clock /\ Epoch(t) \in Nat
  BY <1>1, ThreadFacts DEF ThreadRec
<1>4. BelowOthers(thr[t].clock, t) /\ BelowOthers(OwnClock(t), t)
  BY <1>3 DEF ClocksArePublished, BelowOthers, OwnClock, Clock
<1>5. \A c : Below(c) => BelowOthers(c, t)
  BY DEF Below, BelowOthers
<1>6. QED BY <1>1, <1>2, <1>3, <1>4, <1>5 DEF ClocksArePublished, SyncRec

LEMMA MutexLockPublishes ==
  ASSUME Inv, Inv', ClocksArePublished, NEW t \in Tid, MutexLock(t)
  PROVE  ClocksArePublished'
<1>1. PICK a : thr[t].call.addr = a
  OBVIOUS
<1>2. Calling(t, "lock") /\ "lock" \in Op
  BY <1>1, OpsAre DEF MutexLock
<1>3. /\ Running(t) /\ thr[t].synch \in Nat /\ sync \in [Addr -> SyncRec] /\ a \in Addr
      /\ thr[t].clock \in Clock /\ BelowOthers(thr[t].clock, t)
      /\ OwnClock(t) \in Clock /\ BelowOthers(OwnClock(t), t)
      /\ sync[a].clock \in Clock /\ BelowOthers(sync[a].clock, t)
      /\ sync[a].read_clock \in Clock /\ BelowOthers(sync[a].read_clock, t)
  BY <1>1, <1>2, HandlerFacts
<1> DEFINE joined == Join(OwnClock(t), sync[a].clock)
           clock == IF sync[a].recursion = 0 THEN Join(joined, sync[a].read_clock) ELSE thr[t].clock
<1>4. Return(t, clock, thr[t].synch)
  BY <1>1 DEF MutexLock
<1>5. clock \in Clock /\ BelowOthers(clock, t)
  <2>1. joined \in Clock /\ BelowOthers(joined, t)
    BY <1>3, JoinIsBelow
  <2> HIDE DEF joined
  <2>2. Join(joined, sync[a].read_clock) \in Clock /\ BelowOthers(Join(joined, sync[a].read_clock), t)
    BY <1>3, <2>1, JoinIsBelow
  <2>3. QED BY <1>3, <2>2
<1> HIDE DEF clock
<1>6. ThreadPublishes(t)
  <2>1. tctx' = tctx
    BY <1>1 DEF MutexLock, threads
  <2>2. FieldsTyped
    BY DEF Inv
  <2>3. /\ thr'[t].clock = clock /\ thr'[t].synch = thr[t].synch
        /\ \A u \in Tid \ {t} : thr'[u] = thr[u]
    BY <1>3, <1>4, <1>5, <2>2, ReturnMoves
  <2>4. QED BY <1>3, <1>5, <2>1, <2>3 DEF ThreadPublishes
<1>7. SyncsPublished(t)
  <2> DEFINE owner == IF sync[a].owner = NoTid THEN t ELSE sync[a].owner
  <2>1. sync' = [sync EXCEPT ![a].owner = owner, ![a].recursion = @ + 1]
    BY <1>1 DEF MutexLock
  <2> HIDE DEF owner
  <2>2. sync'[a].clock = sync[a].clock /\ sync'[a].read_clock = sync[a].read_clock
    BY <1>3, <2>1 DEF SyncRec
  <2>3. \A b \in Addr \ {a} : sync'[b] = sync[b]
    BY <1>3, <2>1
  <2>4. \A b \in Addr : sync'[b].clock = sync[b].clock /\ sync'[b].read_clock = sync[b].read_clock
    BY <2>2, <2>3
  <2>5. QED BY <2>4 DEF SyncsPublished
<1>8. QED BY <1>6, <1>7, HandlerPublishes

LEMMA MutexReadLockPublishes ==
  ASSUME Inv, Inv', ClocksArePublished, NEW t \in Tid, MutexReadLock(t)
  PROVE  ClocksArePublished'
<1> DEFINE clock == Join(OwnClock(t), sync[thr[t].call.addr].clock)
<1>1. Calling(t, "read_lock") /\ Return(t, clock, thr[t].synch) /\ tctx' = tctx /\ sync' = sync
  BY DEF MutexReadLock, threads
<1>2. clock \in Clock /\ BelowOthers(clock, t)
  <2>1. /\ OwnClock(t) \in Clock /\ BelowOthers(OwnClock(t), t)
        /\ sync[thr[t].call.addr].clock \in Clock /\ BelowOthers(sync[thr[t].call.addr].clock, t)
    BY <1>1, HandlerFacts, OpsAre
  <2>2. QED BY <2>1, JoinIsBelow
<1> HIDE DEF clock
<1>3. Running(t) /\ thr[t].synch \in Nat /\ FieldsTyped
  BY <1>1, HandlerFacts, OpsAre DEF Inv
<1>4. /\ thr'[t].clock = clock /\ thr'[t].synch = thr[t].synch /\ \A u \in Tid \ {t} : thr'[u] = thr[u]
  BY <1>1, <1>2, <1>3, ReturnMoves
<1>5. ThreadPublishes(t) /\ SyncsPublished(t)
  BY <1>1, <1>2, <1>3, <1>4 DEF ThreadPublishes, SyncsPublished
<1>6. QED BY <1>5, HandlerPublishes

\* The unlock handlers: a clock they store in the mutex is the caller's at the
\* epoch that begins its next synch epoch.
LEMMA UnlockPublishes ==
  ASSUME Inv, Inv', ClocksArePublished, NEW t \in Tid,
         MutexUnlock(t) \/ MutexReadUnlock(t) \/ MutexReadOrWriteUnlock(t)
  PROVE  ClocksArePublished'
<1>0. PICK a, s : thr[t].call.addr = a /\ sync[a] = s
  OBVIOUS
<1>1. PICK op \in Op : Calling(t, op)
  BY <1>0, OpsAre DEF MutexUnlock, MutexReadUnlock, MutexReadOrWriteUnlock
<1>2. /\ Running(t) /\ a \in Addr /\ sync \in [Addr -> SyncRec] /\ sync[a] = s /\ s \in SyncRec /\ FieldsTyped
      /\ thr[t].clock \in Clock /\ thr[t].synch \in Nat /\ OwnClock(t) \in Clock /\ Epoch(t) \in Nat
      /\ BelowOthers(thr[t].clock, t) /\ BelowOthers(OwnClock(t), t)
  <2>1. FieldsTyped
    BY DEF Inv
  <2>2. QED BY <1>0, <1>1, <2>1, HandlerFacts
<1>3. tctx' = tctx
  BY <1>0 DEF MutexUnlock, MutexReadUnlock, MutexReadOrWriteUnlock, threads
<1>4. /\ Unowned(s, t).read_clock = s.read_clock
      /\ Unowned(s, t).clock = IF s.recursion > 1 THEN s.clock ELSE OwnClock(t)
  BY <1>2 DEF Unowned, SyncRec, ReleaseStoreClock
<1>5. CASE MutexUnlock(t)
  <2> DEFINE owns == s.recursion > 0 /\ s.owner = t
             last == owns /\ s.recursion = 1
             clock == IF last THEN OwnClock(t) ELSE thr[t].clock
             synch == IF last THEN Epoch(t) ELSE thr[t].synch
  <2>1. Return(t, clock, synch) /\ sync' = [sync EXCEPT ![a] = IF owns THEN Unowned(s, t) ELSE s]
    BY <1>0, <1>5 DEF MutexUnlock
  <2>2. clock \in Clock /\ synch \in Nat /\ BelowOthers(clock, t)
    BY <1>2
  <2>3. s.recursion \in Nat
    BY <1>2 DEF SyncRec
  <2>4. /\ sync'[a].read_clock = s.read_clock
        /\ sync'[a].clock = s.clock \/ (last /\ sync'[a].clock = OwnClock(t))
    <3>1. sync'[a] = IF owns THEN Unowned(s, t) ELSE s
      BY <1>2, <2>1
    <3>2. owns /\ ~(s.recursion > 1) => last
      BY <2>3
    <3> HIDE DEF owns, last
    <3>3. CASE owns
      BY <1>4, <3>1, <3>2, <3>3
    <3>4. CASE ~owns
      BY <3>1, <3>4
    <3>5. QED BY <3>3, <3>4
  <2>5. \A b \in Addr \ {a} : sync'[b] = sync[b]
    BY <1>2, <2>1
  <2>6. synch = Epoch(t) \/ ~last
    OBVIOUS
  <2>7. synch \in {thr[t].synch, Epoch(t)}
    OBVIOUS
  <2> HIDE DEF clock, synch, last, owns
  <2>8. thr'[t].clock = clock /\ thr'[t].synch = synch /\ \A u \in Tid \ {t} : thr'[u] = thr[u]
    BY <1>2, <2>1, <2>2, ReturnMoves
  <2>9. \A b \in Addr : /\ sync'[b].read_clock = sync[b].read_clock
                        /\ \/ sync'[b].clock = sync[b].clock
                           \/ thr'[t].synch = Epoch(t) /\ sync'[b].clock = OwnClock(t)
    BY <1>2, <2>4, <2>5, <2>6, <2>8
  <2>10. ThreadPublishes(t)
    BY <1>2, <1>3, <2>2, <2>7, <2>8 DEF ThreadPublishes
  <2>11. SyncsPublished(t)
    BY <2>9 DEF SyncsPublished
  <2>12. QED BY <2>10, <2>11, HandlerPublishes
<1>6. ASSUME sync' = [sync EXCEPT ![a].read_clock = Join(@, OwnClock(t))], Return(t, OwnClock(t), Epoch(t))
      PROVE  ClocksArePublished'
  <2>1. /\ thr'[t].clock = OwnClock(t) /\ thr'[t].synch = Epoch(t) /\ \A u \in Tid \ {t} : thr'[u] = thr[u]
    BY <1>2, <1>6, ReturnMoves
  <2>2. ASSUME NEW b \in Addr
        PROVE  /\ sync'[b].clock = sync[b].clock
               /\ sync'[b].read_clock \in {sync[b].read_clock, Join(sync[b].read_clock, OwnClock(t))}
    <3>1. CASE b = a
      BY <1>2, <1>6, <3>1 DEF SyncRec
    <3>2. CASE b # a
      BY <1>2, <1>6, <3>2
    <3>3. QED BY <3>1, <3>2
  <2>3. ThreadPublishes(t)
    BY <1>2, <1>3, <2>1 DEF ThreadPublishes
  <2>4. SyncsPublished(t)
    BY <2>1, <2>2 DEF SyncsPublished
  <2>5. QED BY <2>3, <2>4, HandlerPublishes
<1>7. CASE MutexReadUnlock(t)
  BY <1>0, <1>6, <1>7 DEF MutexReadUnlock
<1>8. CASE MutexReadOrWriteUnlock(t)
  <2>1. CASE s.owner = NoTid
    <3>1. s.owner # t
      BY <2>1, TidsAreSlots
    <3>2. QED BY <1>0, <1>6, <1>8, <2>1, <3>1 DEF MutexReadOrWriteUnlock
  <2>2. CASE s.owner # NoTid /\ s.recursion = 1
    <3>1. sync' = [sync EXCEPT ![a] = Unowned(s, t)] /\ Return(t, OwnClock(t), Epoch(t))
      BY <1>0, <1>8, <2>2 DEF MutexReadOrWriteUnlock
    <3>2. /\ thr'[t].clock = OwnClock(t) /\ thr'[t].synch = Epoch(t) /\ \A u \in Tid \ {t} : thr'[u] = thr[u]
      BY <1>2, <3>1, ReturnMoves
    <3>3. \A b \in Addr : /\ sync'[b].read_clock = sync[b].read_clock
                          /\ sync'[b].clock \in {sync[b].clock, OwnClock(t)}
      BY <1>2, <1>4, <3>1
    <3>4. ThreadPublishes(t)
      BY <1>2, <1>3, <3>2 DEF ThreadPublishes
    <3>5. SyncsPublished(t)
      BY <3>2, <3>3 DEF SyncsPublished
    <3>6. QED BY <3>4, <3>5, HandlerPublishes
  <2>3. CASE s.owner # NoTid /\ s.recursion # 1
    <3>1. s.owner = t /\ Pending(t, "rw_unlock", a) /\ a \in Mutex
      <4>1. s.owner = t /\ Calling(t, "rw_unlock")
        BY <1>0, <1>8, <2>3 DEF MutexReadOrWriteUnlock
      <4>2. QED BY <1>0, <4>1, CallingIsPending, OpsAre
    <3>2. s.recursion > 1
      <4>1. OwnerAgrees(a) /\ s.recursion \in Nat
        BY <1>2, <3>1 DEF Inv, SyncRec
      <4>2. s.recursion # 0
        BY <1>2, <2>3, <4>1 DEF OwnerAgrees
      <4>3. QED BY <2>3, <4>1, <4>2
    <3>3. /\ sync' = [sync EXCEPT ![a] = Unowned(s, t)]
          /\ thr' = [thr EXCEPT ![t].at = "idle", ![t].call = NoCall]
      BY <1>0, <1>8, <2>3 DEF MutexReadOrWriteUnlock
    <3>4. /\ thr'[t].clock = thr[t].clock /\ thr'[t].synch = thr[t].synch
          /\ \A u \in Tid \ {t} : thr'[u] = thr[u]
      BY <1>2, <3>3 DEF FieldsTyped, ThreadRec
    <3>5. \A b \in Addr : sync'[b].read_clock = sync[b].read_clock /\ sync'[b].clock = sync[b].clock
      BY <1>2, <1>4, <3>2, <3>3
    <3>6. ThreadPublishes(t)
      BY <1>2, <1>3, <3>4 DEF ThreadPublishes
    <3>7. SyncsPublished(t)
      BY <3>5 DEF SyncsPublished
    <3>8. QED BY <3>6, <3>7, HandlerPublishes
  <2>4. QED BY <2>1, <2>2, <2>3
<1>9. QED BY <1>5, <1>7, <1>8

-----------------------------------------------------------------------------
\* A thread begins after all that its slot has ever published.
LEMMA StartPublishes ==
  ASSUME Inv, Inv', ClocksArePublished, NEW u \in Tid, ThreadStart(u)
  PROVE  ClocksArePublished'
<1> DEFINE first == tctx[u].epoch1 + 1
           clock == Join([ZeroClock EXCEPT ![u] = first], tctx[u].sync)
<1>1. /\ tctx[u].status = "created" /\ ~Running(u)
      /\ tctx' = [tctx EXCEPT ![u].status = "running", ![u].epoch0 = first, ![u].epoch1 = Forever]
      /\ thr' = [thr EXCEPT ![u] = NewThr(first, clock)] /\ sync' = sync
  BY DEF ThreadStart, Running
<1>2. tctx \in [Tid -> Context] /\ thr \in [Tid -> ThreadRec] /\ tctx[u].epoch1 \in Nat /\ tctx[u].sync \in Clock
  BY SlotFacts DEF Inv, FieldsTyped
<1>3. /\ thr'[u].synch = first /\ thr'[u].clock = clock /\ Running(u)'
      /\ \A v \in Tid \ {u} : thr'[v] = thr[v] /\ tctx'[v] = tctx[v]
      /\ tctx'[u].sync = tctx[u].sync
  BY <1>1, <1>2 DEF NewThr, Context, Running
<1>4. /\ Published(u) = tctx[u].epoch1 /\ Published(u)' = first
      /\ \A v \in Tid \ {u} : Published(v)' = Published(v)
  <2> HIDE DEF clock, first
  <2>1. Published(u) = tctx[u].epoch1 /\ Published(u)' = first
    BY <1>1, <1>3 DEF Published
  <2>2. \A v \in Tid \ {u} : Published(v)' = Published(v)
    BY <1>3 DEF Published, Running
  <2>3. QED BY <2>1, <2>2
<1>5. \A v \in Tid : Published(v) <= Published(v)'
  BY <1>2, <1>4, PublishedIsNat
<1>6. \A s \in Tid \ {u} : clock[s] <= Published(s)'
  <2>1. \A s \in Tid \ {u} : [ZeroClock EXCEPT ![u] = first][s] = 0
    BY DEF ZeroClock
  <2>2. \A s \in Tid \ {u} : clock[s] \in {0, tctx[u].sync[s]}
    BY <2>1 DEF Join
  <2>3. \A s \in Tid : tctx[u].sync[s] <= Published(s)
    BY DEF ClocksArePublished, Below
  <2> HIDE DEF clock
  <2>4. \A s \in Tid : Published(s) \in Nat
    BY PublishedIsNat
  <2>5. ASSUME NEW s \in Tid \ {u} PROVE clock[s] <= Published(s)'
    <3>1. Published(s)' = Published(s) /\ Published(s) \in Nat /\ tctx[u].sync[s] <= Published(s)
      BY <1>4, <2>3, <2>4
    <3>2. CASE clock[s] = 0
      BY <3>1, <3>2
    <3>3. CASE clock[s] = tctx[u].sync[s]
      BY <3>1, <3>3
    <3>4. QED BY <2>2, <3>2, <3>3
  <2>6. QED BY <2>5
<1> HIDE DEF clock, first
<1>7. \A v \in Tid : \/ thr'[v].clock = thr[v].clock
                     \/ \A s \in Tid \ {v} : thr'[v].clock[s] <= Published(s)'
  BY <1>3, <1>6
<1>8. \A v \in Tid : tctx'[v].sync = tctx[v].sync
  BY <1>3
<1>9. QED BY <1>1, <1>5, <1>7, <1>8, StepPublishes

LEMMA CreatePublishes ==
  ASSUME Inv, Inv', ClocksArePublished, NEW t \in Tid, NEW detached \in BOOLEAN, ThreadCreate(t, detached)
  PROVE  ClocksArePublished'
<1>1. PICK u \in Tid :
        u = (IF Reuse THEN Head(deadList) ELSE threadSeq) /\ tctx[u].status \in {"dead", "invalid"}
  BY CreatedSlot
<1>2. /\ Idle(t) /\ Return(t, OwnClock(t), Epoch(t)) /\ sync' = sync
      /\ tctx' = [tctx EXCEPT ![u].status = "created", ![u].uid = uidSeq,
                              ![u].detached = detached, ![u].sync = OwnClock(t)]
  BY <1>1 DEF ThreadCreate
<1>3. /\ Running(t) /\ OwnClock(t) \in Clock /\ Epoch(t) \in Nat /\ FieldsTyped /\ thr[t] \in ThreadRec
      /\ thr[t].synch \in Nat /\ thr[t].synch < Epoch(t) /\ u # t
  <2>1. Running(t)
    BY <1>2, IdleFacts
  <2>2. u # t
    BY <1>1, <2>1 DEF Running
  <2>3. QED BY <2>1, <2>2, ThreadFacts DEF Inv, ThreadRec, Epoch
<1>4. /\ thr'[t].clock = OwnClock(t) /\ thr'[t].synch = Epoch(t) /\ \A v \in Tid \ {t} : thr'[v] = thr[v]
  BY <1>2, <1>3, ReturnMoves
<1>5. /\ tctx'[u].status = "created" /\ tctx'[u].sync = OwnClock(t) /\ tctx'[u].epoch1 = tctx[u].epoch1
      /\ \A v \in Tid \ {u} : tctx'[v] = tctx[v]
  BY <1>2, <1>3 DEF FieldsTyped, Context
<1>6. /\ Published(t) = thr[t].synch /\ Published(t)' = Epoch(t)
      /\ \A v \in Tid \ {t} : Published(v)' = Published(v)
  BY <1>1, <1>3, <1>4, <1>5 DEF Published, Running
<1>7. \A v \in Tid : Published(v) <= Published(v)'
  BY <1>3, <1>6, PublishedIsNat
<1>8. \A s \in Tid : OwnClock(t)[s] <= Published(s)'
  <2>1. OwnClock(t)[t] = Epoch(t) /\ \A s \in Tid \ {t} : OwnClock(t)[s] = thr[t].clock[s]
    BY <1>3 DEF OwnClock, ThreadRec, Clock
  <2>2. QED BY <1>3, <1>6, <2>1 DEF ClocksArePublished, BelowOthers
<1>9. QED BY <1>2, <1>4, <1>5, <1>7, <1>8, StepPublishes

LEMMA FinishPublishes ==
  ASSUME Inv, Inv', ClocksArePublished, NEW u \in Tid, ThreadFinish(u)
  PROVE  ClocksArePublished'
<1> DEFINE detached == tctx[u].detached
           last == IF detached THEN thr[u].epoch ELSE Epoch(u)
           ctx == IF detached THEN [Dead(tctx[u]) EXCEPT !.epoch1 = last]
                  ELSE [[tctx[u] EXCEPT !.status = "finished", !.sync = Join(@, OwnClock(u))] EXCEPT !.epoch1 = last]
<1>1. Idle(u) /\ thr' = [thr EXCEPT ![u] = NoThr] /\ tctx' = [tctx EXCEPT ![u] = ctx] /\ sync' = sync
  BY DEF ThreadFinish
<1>2. /\ Running(u) /\ tctx \in [Tid -> Context] /\ thr \in [Tid -> ThreadRec] /\ tctx[u].sync \in Clock
      /\ OwnClock(u) \in Clock /\ Epoch(u) = thr[u].epoch + 1 /\ thr[u].epoch \in Nat
      /\ thr[u].synch \in Nat /\ thr[u].synch <= thr[u].epoch
  BY <1>1, IdleFacts, ThreadFacts, SlotFacts DEF Inv, FieldsTyped, ThreadRec, Epoch
<1>3. /\ ctx.status # "running" /\ ctx.epoch1 = last
      /\ ctx.sync = IF detached THEN ZeroClock ELSE Join(tctx[u].sync, OwnClock(u))
  BY <1>2 DEF Dead, Context
<1>4. last \in Nat /\ thr[u].synch <= last /\ (~detached => last = Epoch(u))
  BY <1>2
<1> HIDE DEF ctx, last
<1>5. /\ tctx'[u] = ctx /\ \A v \in Tid \ {u} : thr'[v] = thr[v] /\ tctx'[v] = tctx[v]
      /\ thr'[u].clock = ZeroClock
  BY <1>1, <1>2 DEF NoThr, NewThr
<1>6. /\ Published(u) = thr[u].synch /\ Published(u)' = last
      /\ \A v \in Tid \ {u} : Published(v)' = Published(v)
  <2>1. Published(u) = thr[u].synch /\ Published(u)' = last
    BY <1>2, <1>3, <1>5 DEF Published, Running
  <2>2. \A v \in Tid \ {u} : Published(v)' = Published(v)
    BY <1>5 DEF Published, Running
  <2>3. QED BY <2>1, <2>2
<1>7. \A v \in Tid : Published(v) <= Published(v)' /\ 0 <= Published(v)'
  BY <1>2, <1>4, <1>6, PublishedIsNat
<1>8. \A s \in Tid : ctx.sync[s] <= Published(s)'
  <2>1. CASE detached
    BY <1>3, <1>7, <2>1 DEF ZeroClock
  <2>2. CASE ~detached
    <3>1. \A s \in Tid : ctx.sync[s] \in {tctx[u].sync[s], OwnClock(u)[s]}
      BY <1>3, <2>2 DEF Join
    <3>2. \A s \in Tid : tctx[u].sync[s] <= Published(s)'
      <4>1. Below(tctx[u].sync)
        BY DEF ClocksArePublished
      <4>2. \A v \in Tid : Published(v) <= Published(v)'
        BY <1>7
      <4>3. QED BY <1>2, <4>1, <4>2, BelowStays
    <3>3. OwnClock(u)[u] = Epoch(u) /\ \A s \in Tid \ {u} : OwnClock(u)[s] = thr[u].clock[s]
      BY <1>2 DEF OwnClock, ThreadRec, Clock
    <3>4. Epoch(u) <= Published(u)'
      BY <1>2, <1>4, <1>6, <2>2
    <3>5. \A s \in Tid \ {u} : thr[u].clock[s] <= Published(s)'
      BY <1>6 DEF ClocksArePublished, BelowOthers
    <3>6. \A s \in Tid : OwnClock(u)[s] <= Published(s)'
      BY <3>3, <3>4, <3>5
    <3>7. QED BY <3>1, <3>2, <3>6
  <2>3. QED BY <2>1, <2>2
<1>9. \A s \in Tid : ZeroClock[s] <= Published(s)'
  BY <1>7 DEF ZeroClock
<1>10. /\ \A v \in Tid : Published(v) <= Published(v)'
       /\ \A v \in Tid : \/ thr'[v].clock = thr[v].clock
                         \/ \A s \in Tid \ {v} : thr'[v].clock[s] <= Published(s)'
       /\ \A v \in Tid : \/ tctx'[v].sync = tctx[v].sync
                         \/ \A s \in Tid : tctx'[v].sync[s] <= Published(s)'
  BY <1>5, <1>7, <1>8, <1>9
<1>11. QED BY <1>1, <1>10, StepPublishes

\* Joining and detaching: a thread that is dead has an empty clock.
LEMMA JoinPublishes ==
  ASSUME Inv, Inv', ClocksArePublished, NEW t \in Tid, NEW u \in Tid,
         ThreadJoin(t, u) \/ ThreadDetach(t, u)
  PROVE  ClocksArePublished'
<1>1. tctx \in [Tid -> Context] /\ thr \in [Tid -> ThreadRec] /\ sync' = sync
  BY DEF Inv, FieldsTyped, ThreadJoin, ThreadDetach
<1>2. /\ tctx'[u].epoch1 = tctx[u].epoch1 /\ tctx'[u].sync \in {tctx[u].sync, ZeroClock}
      /\ Running(u)' <=> Running(u)
      /\ \A v \in Tid \ {u} : tctx'[v] = tctx[v]
  <2>1. ASSUME tctx' = [tctx EXCEPT ![u] = Dead(@)], tctx[u].status = "finished"
        PROVE  tctx'[u].epoch1 = tctx[u].epoch1 /\ tctx'[u].sync = ZeroClock /\ ~Running(u) /\ ~Running(u)'
    BY <1>1, <2>1 DEF Dead, Context, Running
  <2>2. ASSUME tctx' = [tctx EXCEPT ![u] = [@ EXCEPT !.detached = TRUE]]
        PROVE  tctx'[u].epoch1 = tctx[u].epoch1 /\ tctx'[u].sync = tctx[u].sync /\ (Running(u)' <=> Running(u))
    BY <1>1, <2>2 DEF Context, Running
  <2>3. \/ tctx' = [tctx EXCEPT ![u] = Dead(@)] /\ tctx[u].status = "finished"
        \/ tctx' = [tctx EXCEPT ![u] = [@ EXCEPT !.detached = TRUE]]
    BY DEF ThreadJoin, ThreadDetach
  <2>4. \A v \in Tid \ {u} : tctx'[v] = tctx[v]
    BY <1>1, <2>3
  <2>5. QED BY <2>1, <2>2, <2>3, <2>4
<1>3. /\ \A v \in Tid : thr'[v].synch = thr[v].synch
      /\ \A v \in Tid : thr'[v].clock = thr[v].clock \/ (v = t /\ thr'[v].clock = Join(thr[v].clock, tctx[u].sync))
  <2>1. CASE ThreadJoin(t, u)
    BY <1>1, <2>1 DEF ThreadJoin, SetClock, ThreadRec
  <2>2. CASE ThreadDetach(t, u)
    BY <2>2 DEF ThreadDetach
  <2>3. QED BY <2>1, <2>2
<1>4. \A v \in Tid : Published(v)' = Published(v) /\ Published(v) \in Nat
  BY <1>2, <1>3, PublishedIsNat DEF Published, Running
<1>5. \A s \in Tid \ {t} : Join(thr[t].clock, tctx[u].sync)[s] <= Published(s)'
  <2>1. thr[t].clock \in Clock /\ tctx[u].sync \in Clock
    BY SlotFacts DEF ThreadRec
  <2>2. BelowOthers(thr[t].clock, t) /\ BelowOthers(tctx[u].sync, t)
    BY DEF ClocksArePublished, Below, BelowOthers
  <2>3. BelowOthers(Join(thr[t].clock, tctx[u].sync), t)
    BY <2>1, <2>2, JoinIsBelow
  <2>4. QED BY <1>4, <2>3 DEF BelowOthers
<1>6. \A s \in Tid : ZeroClock[s] <= Published(s)'
  BY <1>4 DEF ZeroClock
<1>7. /\ \A v \in Tid : Published(v) <= Published(v)'
      /\ \A v \in Tid : \/ thr'[v].clock = thr[v].clock
                        \/ \A s \in Tid \ {v} : thr'[v].clock[s] <= Published(s)'
      /\ \A v \in Tid : \/ tctx'[v].sync = tctx[v].sync
                        \/ \A s \in Tid : tctx'[v].sync[s] <= Published(s)'
  BY <1>2, <1>3, <1>4, <1>5, <1>6
<1>8. QED BY <1>1, <1>7, StepPublishes

LEMMA InitPublishes == Init => ClocksArePublished
<1> SUFFICES ASSUME Init PROVE ClocksArePublished
  OBVIOUS
<1>1. Inv
  BY InitEstablishesInv
<1>2. \A s \in Tid : Published(s) \in Nat
  BY <1>1, PublishedIsNat
<1>3. /\ \A t \in Tid : \A s \in Tid \ {t} : thr[t].clock[s] = 0
      /\ \A t \in Tid : tctx[t].sync = ZeroClock
      /\ \A a \in Addr : sync[a].clock = ZeroClock /\ sync[a].read_clock = ZeroClock
  BY DEF Init, NewThr, NoThr, NewContext, ZeroClock
<1>4. QED BY <1>2, <1>3 DEF ClocksArePublished, Below, BelowOthers, ZeroClock

LEMMA NextPublishes ==
  ASSUME Atomic = {}, Inv, Inv', ClocksArePublished, [Next]_vars
  PROVE  ClocksArePublished'
<1>1. ASSUME NEW t \in Tid, Access(t) \/ Scan(t) PROVE ClocksArePublished'
  BY <1>1, AccessPublishes
<1>2. ASSUME NEW t \in Tid, MutexCall(t) PROVE ClocksArePublished'
  <2>1. \/ \E a \in Mutex, op \in Op : CallMutex(t, op, a)
        \/ MutexLock(t) \/ MutexUnlock(t) \/ MutexReadLock(t) \/ MutexReadUnlock(t) \/ MutexReadOrWriteUnlock(t)
    BY <1>2 DEF MutexCall, Op
  <2>2. QED BY <2>1, AccessPublishes, MutexLockPublishes, MutexReadLockPublishes, UnlockPublishes
<1>3. ASSUME NEW t \in Tid PROVE ~AtomicCall(t)
  BY DEF AtomicCall
<1>4. ASSUME NEW t \in Tid, ThreadCall(t) PROVE ClocksArePublished'
  BY <1>4, StartPublishes, CreatePublishes, FinishPublishes, JoinPublishes DEF ThreadCall
<1>5. CASE UNCHANGED vars
  BY <1>5, QuietStepPublishes DEF vars, threads
<1>6. QED BY <1>1, <1>2, <1>3, <1>4, <1>5 DEF Next

\* While a program uses no atomics, whose Release publishes without beginning a synch
\* epoch, no other thread knows of what a thread did in its synch epoch, so that an
\* access may be skipped for an older one of the same epoch (tsan_rtl.cc:342,
\* tsan_rtl.h:243-249): for any number of threads, mutexes and cells, slots reused.
THEOREM SynchEpochsAreSound == Atomic = {} => (Spec => []PublishedBeforeSynch)
<1> SUFFICES ASSUME Atomic = {} PROVE Spec => []PublishedBeforeSynch
  OBVIOUS
<1>1. Inv /\ ClocksArePublished => PublishedBeforeSynch
  <2> SUFFICES ASSUME Inv, ClocksArePublished, NEW t \in Tid, tctx[t].status = "running"
               PROVE  /\ \A u \in Tid \ {t} : thr[u].clock[t] <= thr[t].synch /\ tctx[u].sync[t] <= thr[t].synch
                      /\ \A a \in DOMAIN sync : /\ sync[a].clock[t] <= thr[t].synch
                                                /\ sync[a].read_clock[t] <= thr[t].synch
    BY DEF PublishedBeforeSynch
  <2>1. Published(t) = thr[t].synch /\ DOMAIN sync = Addr
    BY DEF Published, Running, Inv, FieldsTyped
  <2>2. QED BY <2>1 DEF ClocksArePublished, Below, BelowOthers
<1>2. Inv /\ Inv' /\ ClocksArePublished /\ [Next]_vars => ClocksArePublished'
  BY NextPublishes
<1>3. QED BY <1>1, <1>2, InvHolds, InitPublishes, PTL DEF Spec

-----------------------------------------------------------------------------
(* The thread a report names.                                               *)

\* From the first epoch of a slot's last thread on, the slot's accesses are that
\* thread's, once it has started.
NamesFit ==
  \A c \in AnyCell : \A a \in accesses[c] :
    tctx[a.tid].status # "created" /\ tctx[a.tid].epoch0 <= a.epoch => a.uid = tctx[a.tid].uid

LEMMA NamesStep ==
  ASSUME Inv, NamesFit,
         \A c \in AnyCell : \A a \in accesses'[c] : a \in accesses[c] \/ a.uid = tctx'[a.tid].uid,
         \A v \in Tid : \/ tctx'[v].status = "created"
                        \/ tctx'[v].epoch0 > Reached(v)
                        \/ /\ tctx[v].status # "created"
                           /\ tctx'[v].uid = tctx[v].uid /\ tctx'[v].epoch0 = tctx[v].epoch0,
         \A v \in Tid : tctx'[v].epoch0 \in Nat
  PROVE  NamesFit'
<1> SUFFICES ASSUME NEW c \in AnyCell, NEW a \in accesses'[c],
                    tctx'[a.tid].status # "created", tctx'[a.tid].epoch0 <= a.epoch,
                    a \in accesses[c]
             PROVE  a.uid = tctx'[a.tid].uid
  BY DEF NamesFit
<1>1. a.tid \in Tid /\ a.epoch \in Nat /\ a.epoch <= Reached(a.tid) /\ Reached(a.tid) \in Nat
  <2>1. a \in Word
    BY DEF Inv, FieldsTyped
  <2>2. a.tid \in Tid /\ a.epoch \in Nat
    BY <2>1 DEF Word
  <2>3. a.epoch <= Reached(a.tid)
    BY DEF Inv, AccessesArePast
  <2>4. QED BY <2>2, <2>3, SlotFacts
<1>2. ~(tctx'[a.tid].epoch0 > Reached(a.tid))
  BY <1>1
<1>3. /\ tctx[a.tid].status # "created"
      /\ tctx'[a.tid].uid = tctx[a.tid].uid /\ tctx'[a.tid].epoch0 = tctx[a.tid].epoch0
  BY <1>1, <1>2
<1>4. QED BY <1>3 DEF NamesFit

LEMMA ContextsStay ==
  ASSUME Inv, NamesFit, tctx' = tctx,
         \A c \in AnyCell : \A a \in accesses'[c] : a \in accesses[c] \/ a.uid = tctx[a.tid].uid
  PROVE  NamesFit'
<1>1. \A v \in Tid : tctx'[v].epoch0 \in Nat
  BY SlotFacts
<1>2. QED BY <1>1, NamesStep

\* A new access has the uid of its thread.
LEMMA AccessNames ==
  ASSUME Inv, NamesFit, NEW t \in Tid, NEW c, NEW range, NEW write, NEW call,
         StartScan(t, Mop(t, c, range, write), call)
  PROVE  NamesFit'
<1>1. Mop(t, c, range, write).uid = tctx[t].uid /\ Mop(t, c, range, write).tid = t
  BY DEF Mop
<1> DEFINE cur == Mop(t, c, range, write)
<1> HIDE DEF cur
<1>2. /\ tctx' = tctx /\ accesses' = [accesses EXCEPT ![cur.cell] = @ \cup {cur}]
      /\ cur.uid = tctx[t].uid /\ cur.tid = t
  BY <1>1 DEF StartScan, threads, cur
<1>3. accesses \in [AnyCell -> SUBSET Word]
  BY DEF Inv, FieldsTyped
<1>4. \A d \in AnyCell : \A a \in accesses'[d] : a \in accesses[d] \/ a = cur
  BY <1>2, <1>3
<1>5. QED BY <1>2, <1>4, ContextsStay

LEMMA ThreadsName ==
  ASSUME Inv, NamesFit, NEW t \in Tid, ThreadCall(t)
  PROVE  NamesFit'
<1>1. tctx \in [Tid -> Context] /\ \A v \in Tid : tctx[v].epoch0 \in Nat /\ tctx[v].epoch1 \in Nat
  BY SlotFacts DEF Inv, FieldsTyped
<1> DEFINE Fits(u) == \/ tctx'[u].status = "created"
                      \/ tctx'[u].epoch0 > Reached(u)
                      \/ /\ tctx[u].status # "created"
                         /\ tctx'[u].uid = tctx[u].uid /\ tctx'[u].epoch0 = tctx[u].epoch0
<1>2. ASSUME NEW u \in Tid, accesses' = accesses, \A v \in Tid \ {u} : tctx'[v] = tctx[v],
             tctx'[u].epoch0 \in Nat, Fits(u)
      PROVE  NamesFit'
  <2>1. \A v \in Tid : tctx'[v].epoch0 \in Nat
    BY <1>1, <1>2
  <2>2. \A v \in Tid : Fits(v)
    BY <1>2
  <2>3. QED BY <1>2, <2>1, <2>2, NamesStep
<1>3. ASSUME NEW detached \in BOOLEAN, ThreadCreate(t, detached) PROVE NamesFit'
  <2>1. PICK u \in Tid :
          u = (IF Reuse THEN Head(deadList) ELSE threadSeq) /\ tctx[u].status \in {"dead", "invalid"}
    BY <1>3, CreatedSlot
  <2>2. tctx' = [tctx EXCEPT ![u].status = "created", ![u].uid = uidSeq,
                             ![u].detached = detached, ![u].sync = OwnClock(t)]
        /\ accesses' = accesses
    BY <1>3, <2>1 DEF ThreadCreate
  <2>3. /\ tctx'[u].status = "created" /\ tctx'[u].epoch0 = tctx[u].epoch0
        /\ \A v \in Tid \ {u} : tctx'[v] = tctx[v]
    BY <1>1, <2>2 DEF Context
  <2>4. QED BY <1>1, <1>2, <2>2, <2>3
<1>4. ASSUME ThreadStart(t) PROVE NamesFit'
  <2> DEFINE first == tctx[t].epoch1 + 1
  <2>1. /\ tctx[t].status = "created" /\ accesses' = accesses
        /\ tctx' = [tctx EXCEPT ![t].status = "running", ![t].epoch0 = first, ![t].epoch1 = Forever]
    BY <1>4 DEF ThreadStart
  <2>2. Reached(t) = tctx[t].epoch1
    BY <2>1, SlotFacts DEF Running
  <2>3. first \in Nat /\ first > Reached(t)
    BY <1>1, <2>2
  <2> HIDE DEF first
  <2>4. tctx'[t].epoch0 = first /\ \A v \in Tid \ {t} : tctx'[v] = tctx[v]
    BY <1>1, <2>1 DEF Context
  <2>5. QED BY <1>2, <2>1, <2>3, <2>4
<1>5. ASSUME ThreadFinish(t) PROVE NamesFit'
  <2> DEFINE detached == tctx[t].detached
             last == IF detached THEN thr[t].epoch ELSE Epoch(t)
             joinable == [tctx[t] EXCEPT !.status = "finished", !.sync = Join(@, OwnClock(t))]
             ctx == [(IF detached THEN Dead(tctx[t]) ELSE joinable) EXCEPT !.epoch1 = last]
  <2>1. Idle(t) /\ accesses' = accesses /\ tctx' = [tctx EXCEPT ![t] = ctx]
    BY <1>5 DEF ThreadFinish
  <2>2. ctx.uid = tctx[t].uid /\ ctx.epoch0 = tctx[t].epoch0
    BY <1>1 DEF Dead, Context
  <2>3. tctx[t].status # "created"
    BY <2>1 DEF Idle
  <2> HIDE DEF ctx
  <2>4. tctx'[t] = ctx /\ \A v \in Tid \ {t} : tctx'[v] = tctx[v]
    BY <1>1, <2>1
  <2>5. QED BY <1>1, <1>2, <2>1, <2>2, <2>3, <2>4
<1>6. ASSUME NEW u \in Tid, ThreadJoin(t, u) \/ ThreadDetach(t, u) PROVE NamesFit'
  <2>1. /\ accesses' = accesses
        /\ \/ tctx' = [tctx EXCEPT ![u] = Dead(@)] /\ tctx[u].status = "finished"
           \/ tctx' = [tctx EXCEPT ![u] = [@ EXCEPT !.detached = TRUE]]
    BY <1>6 DEF ThreadJoin, ThreadDetach
  <2>2. /\ tctx'[u].uid = tctx[u].uid /\ tctx'[u].epoch0 = tctx[u].epoch0
        /\ tctx[u].status # "created" \/ tctx'[u].status = tctx[u].status
        /\ \A v \in Tid \ {u} : tctx'[v] = tctx[v]
    <3>1. CASE tctx' = [tctx EXCEPT ![u] = Dead(@)] /\ tctx[u].status = "finished"
      BY <1>1, <3>1 DEF Dead, Context
    <3>2. CASE tctx' = [tctx EXCEPT ![u] = [@ EXCEPT !.detached = TRUE]]
      BY <1>1, <3>2 DEF Context
    <3>3. QED BY <2>1, <3>1, <3>2
  <2>3. QED BY <1>1, <1>2, <2>1, <2>2
<1>7. QED BY <1>3, <1>4, <1>5, <1>6 DEF ThreadCall

LEMMA NextNames ==
  ASSUME Inv, NamesFit, [Next]_vars
  PROVE  NamesFit'
<1>1. ASSUME tctx' = tctx, accesses' = accesses PROVE NamesFit'
  BY <1>1, ContextsStay
<1>2. ASSUME NEW t \in Tid, Access(t) PROVE NamesFit'
  BY <1>2, AccessNames DEF Access, MemoryAccess
<1>3. ASSUME NEW t \in Tid, Scan(t) PROVE NamesFit'
  <2>1. tctx' = tctx /\ accesses' = accesses
    <3>1. ScanSlot(t) => tctx' = tctx /\ accesses' = accesses
      BY DEF ScanSlot, threads
    <3>2. StoreSlot(t) => tctx' = tctx /\ accesses' = accesses
      BY DEF StoreSlot, threads
    <3>3. EvictSlot(t) \/ ReportRace(t) => tctx' = tctx /\ accesses' = accesses
      BY DEF EvictSlot, ReportRace, threads
    <3>4. QED BY <1>3, <3>1, <3>2, <3>3 DEF Scan
  <2>2. QED BY <1>1, <2>1
<1>4. ASSUME NEW t \in Tid, MutexCall(t) PROVE NamesFit'
  <2>1. ASSUME NEW op, NEW a, CallMutex(t, op, a) PROVE NamesFit'
    <3>1. CASE a \in AppMem
      BY <2>1, <3>1, AccessNames DEF CallMutex
    <3>2. CASE a \notin AppMem
      <4>1. tctx' = tctx /\ accesses' = accesses
        BY <2>1, <3>2 DEF CallMutex, threads
      <4>2. QED BY <1>1, <4>1
    <3>3. QED BY <3>1, <3>2
  <2>2. ASSUME \/ MutexLock(t) \/ MutexUnlock(t) \/ MutexReadLock(t) \/ MutexReadUnlock(t)
               \/ MutexReadOrWriteUnlock(t)
        PROVE  NamesFit'
    <3>1. tctx' = tctx /\ accesses' = accesses
      <4>1. MutexLock(t) \/ MutexReadLock(t) => tctx' = tctx /\ accesses' = accesses
        BY DEF MutexLock, MutexReadLock, threads
      <4>2. MutexUnlock(t) \/ MutexReadUnlock(t) => tctx' = tctx /\ accesses' = accesses
        BY DEF MutexUnlock, MutexReadUnlock, threads
      <4>3. MutexReadOrWriteUnlock(t) => tctx' = tctx /\ accesses' = accesses
        BY DEF MutexReadOrWriteUnlock, threads
      <4>4. QED BY <2>2, <4>1, <4>2, <4>3
    <3>2. QED BY <1>1, <3>1
  <2>3. QED BY <1>4, <2>1, <2>2 DEF MutexCall
<1>5. ASSUME NEW t \in Tid, AtomicCall(t) PROVE NamesFit'
  <2>1. tctx' = tctx /\ accesses' = accesses
    BY <1>5 DEF AtomicCall, Acquire, Release, ReleaseStore, threads
  <2>2. QED BY <1>1, <2>1
<1>6. CASE UNCHANGED vars
  BY <1>1, <1>6 DEF vars, threads
<1>7. QED BY <1>2, <1>3, <1>4, <1>5, <1>6, ThreadsName DEF Next

\* A report names no thread but the one that made the access, however often the slot
\* was reused since, except between ThreadCreate and ThreadStart of the slot's next
\* thread (tsan_rtl_report.cc:438, tsan_rtl_thread.cc:141-190).
THEOREM NamesStayRight == Spec => []NamesAreRight
<1>1. Init => NamesFit
  BY DEF Init, NamesFit, AnyCell
<1>2. Inv /\ NamesFit => NamesAreRight
  <2> SUFFICES ASSUME Inv, NamesFit, NEW t \in Tid, thr[t].at = "report",
                      tctx[thr[t].old.tid].status # "created"
               PROVE  NamedThread(thr[t].old) \subseteq {thr[t].old.uid}
    BY DEF NamesAreRight
  <2> DEFINE old == thr[t].old
  <2>1. Scanning(t)
    BY DEF Scanning
  <2>2. old \in accesses[thr[t].cur.cell] /\ thr[t].cur.cell \in AnyCell
    BY <2>1, ScanFacts DEF Inv, ScansAreReal
  <2>3. tctx[old.tid].epoch0 <= old.epoch => old.uid = tctx[old.tid].uid
    BY <2>2 DEF NamesFit
  <2>4. QED BY <2>3 DEF NamedThread
<1>3. Inv /\ NamesFit /\ [Next]_vars => NamesFit'
  BY NextNames
<1>4. QED BY <1>1, <1>2, <1>3, InvHolds, PTL DEF Spec
=============================================================================
