------------------------------ MODULE TsanRace ------------------------------
(***************************************************************************)
(* The happens-before core of the ThreadSanitizer run-time: what the       *)
(* handlers of memory accesses, mutexes, acquire/release operations and    *)
(* thread creation, start, finish, join and detach do to the shadow memory *)
(* and to the clocks (tsan_rtl.cc, tsan_rtl_mutex.cc, tsan_rtl_thread.cc,  *)
(* tsan_clock.cc).  Beside them the model keeps, as history, what really   *)
(* happened: the accesses made, and for every thread the accesses that     *)
(* happen before what it does next.                                        *)
(*                                                                         *)
(* A handler that works under the lock of its object is one action.  A     *)
(* memory access takes no lock: it loads and stores the slots of a shadow  *)
(* cell one by one.                                                        *)
(***************************************************************************)
EXTENDS Integers, Sequences, FiniteSets

CONSTANTS
  MaxTid,        \* kMaxTid: thread slots
  Quarantine,    \* kThreadQuarantineSize
  ShadowCnt,     \* kShadowCnt
  Cell,          \* the 8-byte cells of application memory that are accessed
  Ranges,        \* the [addr0, size] accesses made within a cell
  Mutex, Atomic, \* the addresses used as mutexes and as atomics
  AppMem,        \* the mutexes for which IsAppMem(addr)
  Serial,        \* TRUE: no two handlers overlap in time
  MaxEpoch,      \* bound: a thread begins no operation at or past this epoch
  MaxThreads,    \* bound: the threads ever created
  MaxAccesses    \* bound: the accesses to one cell outside mutex handlers

ASSUME RaceAssumption ==
  /\ MaxTid \in Nat \ {0} /\ ShadowCnt \in Nat \ {0}
  /\ Quarantine \in Nat /\ MaxEpoch \in Nat /\ MaxThreads \in Nat /\ MaxAccesses \in Nat
  /\ Ranges \subseteq [addr0 : 0 .. 7, size : {1, 2, 4, 8}]
  /\ AppMem \subseteq Mutex
  /\ Mutex \cap Atomic = {}   \* no program accesses its mutex objects atomically
  /\ Serial \in BOOLEAN

VARIABLES
  tctx,        \* ctx->threads: status, uid, detached, sync, epoch0, epoch1
  thr,         \* ThreadState: epoch, synch, clock; the call in progress
  threadSeq,   \* ctx->thread_seq
  uidSeq,      \* ctx->unique_thread_seq
  deadList,    \* dead_list_head .. dead_list_tail
  sync,        \* SyncVar of each address: owner, recursion, clock, read_clock
  shadow,      \* shadow memory: ShadowCnt slots for each cell
  held,        \* the application's mutexes: writer, depth, readers
  reports,     \* history: the races reported
  knows,       \* history: per thread, the accesses that happen before now
  lifeKnows,   \* history: what precedes a thread's start, and its end
  syncKnows,   \* history: what precedes the releases of an address
  accesses,    \* history: every access made, per cell
  missed       \* history: some write raced with an earlier access

threads == <<tctx, threadSeq, uidSeq, deadList>>
history == <<knows, lifeKnows, syncKnows>>
vars == <<threads, thr, sync, shadow, held, reports, history, accesses, missed>>

Tid == 0 .. MaxTid - 1
NoTid == MaxTid             \* SyncVar::kInvalidTid
Addr == Mutex \cup Atomic
Clock == [Tid -> Nat]
ZeroClock == [i \in Tid |-> 0]

\* ThreadClock::acquire and ThreadClock::release
Join(c, d) == [i \in Tid |-> IF c[i] < d[i] THEN d[i] ELSE c[i]]
ReleaseStoreClock(c, d) == c

\* (u64)-1 in epoch1 of a running thread: past every epoch
Forever == MaxEpoch + 9

\* A shadow word: tid, epoch, range and write bit.  cell and uid are history.
Empty == [tid |-> NoTid]
Mop(t, c, range, write) ==
  [tid |-> t, epoch |-> thr[t].epoch + 1, range |-> range, write |-> write,
   uid |-> tctx[t].uid, cell |-> c]

Id(a) == <<a.tid, a.epoch>>

NoCall == [op |-> "none"]
NewThr(epoch, clock) ==
  [epoch |-> epoch, synch |-> epoch, clock |-> clock,
   at |-> "idle", call |-> NoCall, cur |-> Empty, old |-> Empty, idx |-> 0, stored |-> FALSE]
NoThr == NewThr(0, ZeroClock)
NewContext ==
  [status |-> "invalid", uid |-> 0, detached |-> FALSE, sync |-> ZeroClock,
   epoch0 |-> 0, epoch1 |-> 0]

Init ==
  /\ tctx = [t \in Tid |->
       IF t = 0 THEN [NewContext EXCEPT !.status = "running", !.epoch0 = 1, !.epoch1 = Forever]
                ELSE NewContext]
  /\ thr = [t \in Tid |-> IF t = 0 THEN NewThr(1, [ZeroClock EXCEPT ![0] = 1]) ELSE NoThr]
  /\ threadSeq = 1 /\ uidSeq = 1 /\ deadList = <<>>
  /\ sync = [a \in Addr |->
       [owner |-> NoTid, recursion |-> 0, clock |-> ZeroClock, read_clock |-> ZeroClock]]
  /\ shadow = [c \in Cell \cup AppMem |-> [i \in 0 .. ShadowCnt - 1 |-> Empty]]
  /\ held = [a \in Mutex |-> [writer |-> NoTid, depth |-> 0, readers |-> {}]]
  /\ reports = {}
  /\ knows = [t \in Tid |-> {}]
  /\ lifeKnows = [t \in Tid |-> {}]
  /\ syncKnows = [a \in Addr |-> [lock |-> {}, read |-> {}]]
  /\ accesses = [c \in Cell \cup AppMem |-> {}]
  /\ missed = FALSE

\* The thread of slot t is between operations and may begin one.
Idle(t) ==
  /\ tctx[t].status = "running"
  /\ thr[t].at = "idle"
  /\ thr[t].epoch < MaxEpoch
  /\ Serial => \A u \in Tid : thr[u].at = "idle"

-----------------------------------------------------------------------------
(* MemoryAccess *)

Intersect(r, s) ==
  IF r.addr0 < s.addr0 THEN r.size > s.addr0 - r.addr0 ELSE s.size > r.addr0 - s.addr0

Conflict(a, b) ==
  a.cell = b.cell /\ Intersect(a.range, b.range) /\ (a.write \/ b.write) /\ a.uid # b.uid

\* IncrementEpoch and the set-up of the scan.
StartScan(t, cur, call) ==
  /\ thr' = [thr EXCEPT ![t].epoch = @ + 1, ![t].at = "scan", ![t].call = call,
                        ![t].cur = cur, ![t].idx = 0, ![t].stored = FALSE]
  /\ accesses' = [accesses EXCEPT ![cur.cell] = @ \cup {cur}]
  /\ missed' = (missed \/ \E a \in accesses[cur.cell] :
                            cur.write /\ Conflict(a, cur) /\ Id(a) \notin knows[t])
  /\ knows' = [knows EXCEPT ![t] = @ \cup {Id(cur)}]
  /\ UNCHANGED <<threads, sync, shadow, reports, lifeKnows, syncKnows>>

MemoryAccess(t, c, range, write) ==
  /\ Idle(t)
  /\ Cardinality(accesses[c]) < MaxAccesses
  /\ StartScan(t, Mop(t, c, range, write), NoCall)
  /\ UNCHANGED held

\* The slot the scan looks at: it starts at the offset of the access.
Slot(t) == (thr[t].idx + thr[t].cur.range.addr0) % ShadowCnt

EndAccess(t) ==
  thr' = [thr EXCEPT ![t].at = IF thr[t].call = NoCall THEN "idle" ELSE "call",
                     ![t].cur = Empty, ![t].old = Empty, ![t].idx = 0, ![t].stored = FALSE]

NextSlot(t) ==
  IF thr[t].idx + 1 < ShadowCnt
  THEN thr' = [thr EXCEPT ![t].idx = @ + 1, ![t].at = "scan"]
  ELSE IF thr[t].stored THEN EndAccess(t)
  ELSE thr' = [thr EXCEPT ![t].at = "evict"]

StoreHere(t) == thr' = [thr EXCEPT ![t].at = "store"]
HandleRace(t, old) == thr' = [thr EXCEPT ![t].at = "report", ![t].old = old]

HappensBefore(old, t) == thr[t].clock[old.tid] >= old.epoch
BothReads(old, cur) == ~cur.write /\ ~old.write
OldIsInSameSynchEpoch(old, t) == old.epoch >= thr[t].synch
BugOldIsRWStronger(old, cur) == TRUE
OldIsRWStronger(old, cur) == old.write \/ ~cur.write
OldIsRWWeaker(old, cur) == ~old.write \/ cur.write

\* One round of tsan_update_shadow_word_inl.h, up to its store.
ScanSlot(t) ==
  LET cur == thr[t].cur
      old == shadow[cur.cell][Slot(t)]
      races == old.tid # cur.tid /\ ~HappensBefore(old, t) /\ ~BothReads(old, cur)
  IN
  /\ thr[t].at = "scan"
  /\ \/ /\ old = Empty
        /\ IF thr[t].stored THEN NextSlot(t) ELSE StoreHere(t)
     \/ /\ old # Empty /\ old.range = cur.range /\ old.tid = cur.tid
        /\ IF OldIsInSameSynchEpoch(old, t)
           THEN IF OldIsRWStronger(old, cur) THEN EndAccess(t) ELSE StoreHere(t)
           ELSE IF OldIsRWWeaker(old, cur) THEN StoreHere(t) ELSE NextSlot(t)
     \/ /\ old # Empty /\ old.range = cur.range /\ old.tid # cur.tid
        /\ IF races THEN HandleRace(t, old)
           ELSE IF HappensBefore(old, t) THEN StoreHere(t) ELSE NextSlot(t)
     \/ /\ old # Empty /\ old.range # cur.range
        /\ IF races /\ Intersect(old.range, cur.range) THEN HandleRace(t, old) ELSE NextSlot(t)
  /\ UNCHANGED <<threads, sync, shadow, held, reports, history, accesses, missed>>

\* StoreIfNotYetStored: a second store of the same access clears its slot.
StoreSlot(t) ==
  LET cur == thr[t].cur IN
  /\ thr[t].at = "store"
  /\ shadow' = [shadow EXCEPT ![cur.cell][Slot(t)] = IF thr[t].stored THEN Empty ELSE cur]
  /\ IF thr[t].idx + 1 = ShadowCnt
     THEN EndAccess(t)
     ELSE thr' = [thr EXCEPT ![t].stored = TRUE, ![t].idx = @ + 1, ![t].at = "scan"]
  /\ UNCHANGED <<threads, sync, held, reports, history, accesses, missed>>

\* No slot was free or replaceable: a "random" one gives way.
EvictSlot(t) ==
  LET cur == thr[t].cur IN
  /\ thr[t].at = "evict"
  /\ shadow' = [shadow EXCEPT ![cur.cell][cur.epoch % ShadowCnt] = cur]
  /\ EndAccess(t)
  /\ UNCHANGED <<threads, sync, held, reports, history, accesses, missed>>

\* The thread a report names: that in slot old.tid, unless the epoch is outside
\* that thread's life.
NamedThread(old) ==
  LET named == tctx[old.tid] IN
  IF named.epoch0 <= old.epoch /\ old.epoch <= named.epoch1 THEN {named.uid} ELSE {}

\* ReportRace, under ctx->thread_mtx.
ReportRace(t) ==
  /\ thr[t].at = "report"
  /\ reports' = reports \cup
       {[cur |-> thr[t].cur, old |-> thr[t].old,
         ordered |-> Id(thr[t].old) \in knows[t], thread |-> NamedThread(thr[t].old)]}
  /\ EndAccess(t)
  /\ UNCHANGED <<threads, sync, shadow, held, history, accesses, missed>>

-----------------------------------------------------------------------------
(* Mutexes.  The interceptor calls a lock handler after the application's   *)
(* mutex was taken and an unlock handler before it is given back.  Every    *)
(* handler first reads a byte of the mutex, if it is application memory.    *)

MayCall(t, op, a) ==
  LET m == held[a] IN
  CASE op = "lock" -> m.writer \in {NoTid, t} /\ m.readers = {}
    [] op = "read_lock" -> m.writer = NoTid /\ t \notin m.readers
    [] op = "unlock" -> m.writer = t
    [] op = "read_unlock" -> t \in m.readers
    [] op = "rw_unlock" -> m.writer = t \/ t \in m.readers

Taken(m, t, op) ==
  CASE op = "lock" -> [m EXCEPT !.writer = t, !.depth = @ + 1]
    [] op = "read_lock" -> [m EXCEPT !.readers = @ \cup {t}]
    [] OTHER -> m

GivenBack(m, t) ==
  IF m.writer # t THEN [m EXCEPT !.readers = @ \ {t}]
  ELSE IF m.depth > 1 THEN [m EXCEPT !.depth = @ - 1]
  ELSE [m EXCEPT !.writer = NoTid, !.depth = 0]

CallMutex(t, op, a) ==
  LET call == [op |-> op, addr |-> a] IN
  /\ Idle(t)
  /\ MayCall(t, op, a)
  /\ held' = [held EXCEPT ![a] = Taken(@, t, op)]
  /\ IF a \in AppMem
     THEN StartScan(t, Mop(t, a, [addr0 |-> 0, size |-> 1], FALSE), call)
     ELSE /\ thr' = [thr EXCEPT ![t].at = "call", ![t].call = call]
          /\ UNCHANGED <<threads, sync, shadow, reports, history, accesses, missed>>

Calling(t, op) == thr[t].at = "call" /\ thr[t].call.op = op

\* The handler's IncrementEpoch, and a clock that has the thread's own epoch.
Epoch(t) == thr[t].epoch + 1
OwnClock(t) == [thr[t].clock EXCEPT ![t] = Epoch(t)]

Return(t, clock, synch) ==
  thr' = [thr EXCEPT ![t].epoch = Epoch(t), ![t].clock = clock, ![t].synch = synch,
                     ![t].at = "idle", ![t].call = NoCall]

BugLockIgnoresReaders(t) ==
  LET a == thr[t].call.addr
      s == sync[a]
  IN
  /\ Calling(t, "lock")
  /\ sync' = [sync EXCEPT ![a].owner = IF @ = NoTid THEN t ELSE @, ![a].recursion = @ + 1]
  /\ Return(t, IF s.recursion = 0 THEN Join(OwnClock(t), s.clock) ELSE thr[t].clock, thr[t].synch)
  /\ knows' = [knows EXCEPT ![t] = @ \cup syncKnows[a].lock \cup syncKnows[a].read]
  /\ UNCHANGED <<threads, shadow, held, reports, lifeKnows, syncKnows, accesses, missed>>

MutexLock(t) ==
  LET a == thr[t].call.addr
      s == sync[a]
  IN
  /\ Calling(t, "lock")
  /\ sync' = [sync EXCEPT ![a].owner = IF @ = NoTid THEN t ELSE @, ![a].recursion = @ + 1]
  /\ Return(t, IF s.recursion = 0 THEN Join(Join(OwnClock(t), s.clock), s.read_clock)
               ELSE thr[t].clock, thr[t].synch)
  /\ knows' = [knows EXCEPT ![t] = @ \cup syncKnows[a].lock \cup syncKnows[a].read]
  /\ UNCHANGED <<threads, shadow, held, reports, lifeKnows, syncKnows, accesses, missed>>

\* What both unlock handlers do when the caller owns the mutex.
Unowned(s, t) ==
  IF s.recursion > 1 THEN [s EXCEPT !.recursion = @ - 1]
  ELSE [s EXCEPT !.recursion = 0, !.owner = NoTid, !.clock = ReleaseStoreClock(OwnClock(t), @)]

\* The application gives the mutex back once the handler has returned.
Unlocked(t, a) ==
  LET m == held[a] IN
  /\ held' = [held EXCEPT ![a] = GivenBack(m, t)]
  /\ syncKnows' =
       IF m.writer # t THEN [syncKnows EXCEPT ![a].read = @ \cup knows[t]]
       ELSE IF m.depth > 1 THEN syncKnows
       ELSE [syncKnows EXCEPT ![a].lock = @ \cup knows[t]]

MutexUnlock(t) ==
  LET a == thr[t].call.addr
      s == sync[a]
      owns == s.recursion > 0 /\ s.owner = t
      last == owns /\ s.recursion = 1
  IN
  /\ Calling(t, "unlock")
  /\ sync' = [sync EXCEPT ![a] = IF owns THEN Unowned(@, t) ELSE @]
  /\ Return(t, IF last THEN OwnClock(t) ELSE thr[t].clock,
               IF last THEN Epoch(t) ELSE thr[t].synch)
  /\ Unlocked(t, a)
  /\ UNCHANGED <<threads, shadow, reports, knows, lifeKnows, accesses, missed>>

MutexReadLock(t) ==
  LET a == thr[t].call.addr IN
  /\ Calling(t, "read_lock")
  /\ Return(t, Join(OwnClock(t), sync[a].clock), thr[t].synch)
  /\ knows' = [knows EXCEPT ![t] = @ \cup syncKnows[a].lock]
  /\ UNCHANGED <<threads, sync, shadow, held, reports, lifeKnows, syncKnows, accesses, missed>>

MutexReadUnlock(t) ==
  LET a == thr[t].call.addr IN
  /\ Calling(t, "read_unlock")
  /\ sync' = [sync EXCEPT ![a].read_clock = Join(@, OwnClock(t))]
  /\ Return(t, OwnClock(t), Epoch(t))
  /\ Unlocked(t, a)
  /\ UNCHANGED <<threads, shadow, reports, knows, lifeKnows, accesses, missed>>

\* The epoch is not advanced when an inner unlock of the owner only counts
\* down.  A caller that holds the mutex never finds another owner recorded.
MutexReadOrWriteUnlock(t) ==
  LET a == thr[t].call.addr
      s == sync[a]
  IN
  /\ Calling(t, "rw_unlock")
  /\ \/ /\ s.owner = NoTid
        /\ sync' = [sync EXCEPT ![a].read_clock = Join(@, OwnClock(t))]
        /\ Return(t, OwnClock(t), Epoch(t))
     \/ /\ s.owner = t
        /\ sync' = [sync EXCEPT ![a] = Unowned(@, t)]
        /\ IF s.recursion = 1 THEN Return(t, OwnClock(t), Epoch(t))
           ELSE thr' = [thr EXCEPT ![t].at = "idle", ![t].call = NoCall]
  /\ Unlocked(t, a)
  /\ UNCHANGED <<threads, shadow, reports, knows, lifeKnows, accesses, missed>>

-----------------------------------------------------------------------------
(* Acquire and release on an address: atomics and the other interceptors.   *)

\* Neither advances the epoch.
CurrentClock(t) == [thr[t].clock EXCEPT ![t] = thr[t].epoch]
SetClock(t, clock) == thr' = [thr EXCEPT ![t].clock = clock]

Acquire(t, a) ==
  /\ Idle(t)
  /\ SetClock(t, Join(CurrentClock(t), sync[a].clock))
  /\ knows' = [knows EXCEPT ![t] = @ \cup syncKnows[a].lock]
  /\ UNCHANGED <<threads, sync, shadow, held, reports, lifeKnows, syncKnows, accesses, missed>>

Release(t, a) ==
  /\ Idle(t)
  /\ SetClock(t, CurrentClock(t))
  /\ sync' = [sync EXCEPT ![a].clock = Join(@, CurrentClock(t))]
  /\ syncKnows' = [syncKnows EXCEPT ![a].lock = @ \cup knows[t]]
  /\ UNCHANGED <<threads, shadow, held, reports, knows, lifeKnows, accesses, missed>>

\* What an atomic store publishes replaces what earlier ones did.
ReleaseStore(t, a) ==
  /\ Idle(t)
  /\ SetClock(t, CurrentClock(t))
  /\ sync' = [sync EXCEPT ![a].clock = ReleaseStoreClock(CurrentClock(t), @)]
  /\ syncKnows' = [syncKnows EXCEPT ![a].lock = knows[t]]
  /\ UNCHANGED <<threads, shadow, held, reports, knows, lifeKnows, accesses, missed>>

-----------------------------------------------------------------------------
(* Threads.  Every handler works under ctx->thread_mtx. *)

Reuse == Len(deadList) > Quarantine \/ threadSeq >= MaxTid

\* The process dies when no slot is left, hence the guard on deadList.
ThreadCreate(t, detached) ==
  LET u == IF Reuse THEN Head(deadList) ELSE threadSeq IN
  /\ Idle(t)
  /\ Reuse => deadList # <<>>
  /\ uidSeq <= MaxThreads
  /\ deadList' = IF Reuse THEN Tail(deadList) ELSE deadList
  /\ threadSeq' = IF Reuse THEN threadSeq ELSE threadSeq + 1
  /\ uidSeq' = uidSeq + 1
  /\ tctx' = [tctx EXCEPT ![u].status = "created", ![u].uid = uidSeq,
                          ![u].detached = detached, ![u].sync = OwnClock(t)]
  /\ Return(t, OwnClock(t), Epoch(t))
  /\ lifeKnows' = [lifeKnows EXCEPT ![u] = knows[t]]
  /\ UNCHANGED <<sync, shadow, held, reports, knows, syncKnows, accesses, missed>>

BugStartAtOne(u) ==
  /\ tctx[u].status = "created"
  /\ tctx' = [tctx EXCEPT ![u].status = "running", ![u].epoch0 = 1, ![u].epoch1 = Forever]
  /\ thr' = [thr EXCEPT ![u] = NewThr(1, Join([ZeroClock EXCEPT ![u] = 1], tctx[u].sync))]
  /\ knows' = [knows EXCEPT ![u] = lifeKnows[u]]
  /\ UNCHANGED <<threadSeq, uidSeq, deadList, sync, shadow, held, reports,
                 lifeKnows, syncKnows, accesses, missed>>

ThreadStart(u) ==
  LET first == tctx[u].epoch1 + 1 IN
  /\ tctx[u].status = "created"
  /\ tctx' = [tctx EXCEPT ![u].status = "running", ![u].epoch0 = first, ![u].epoch1 = Forever]
  /\ thr' = [thr EXCEPT ![u] = NewThr(first, Join([ZeroClock EXCEPT ![u] = first], tctx[u].sync))]
  /\ knows' = [knows EXCEPT ![u] = lifeKnows[u]]
  /\ UNCHANGED <<threadSeq, uidSeq, deadList, sync, shadow, held, reports,
                 lifeKnows, syncKnows, accesses, missed>>

\* ThreadDead
Dead(context) == [context EXCEPT !.status = "dead", !.sync = ZeroClock]

BugFinishForgetsRelease(u) ==
  LET detached == tctx[u].detached
      last == IF detached THEN thr[u].epoch ELSE Epoch(u)
      joinable == [tctx[u] EXCEPT !.status = "finished"]
  IN
  /\ u # 0
  /\ Idle(u)
  /\ \A a \in Mutex : held[a].writer # u /\ u \notin held[a].readers
  /\ tctx' = [tctx EXCEPT ![u] =
       [(IF detached THEN Dead(@) ELSE joinable) EXCEPT !.epoch1 = last]]
  /\ deadList' = IF detached THEN Append(deadList, u) ELSE deadList
  /\ thr' = [thr EXCEPT ![u] = NoThr]
  /\ lifeKnows' = [lifeKnows EXCEPT ![u] = IF detached THEN {} ELSE knows[u]]
  /\ knows' = [knows EXCEPT ![u] = {}]
  /\ UNCHANGED <<threadSeq, uidSeq, sync, shadow, held, reports, syncKnows, accesses, missed>>

ThreadFinish(u) ==
  LET detached == tctx[u].detached
      last == IF detached THEN thr[u].epoch ELSE Epoch(u)
      joinable == [tctx[u] EXCEPT !.status = "finished", !.sync = Join(@, OwnClock(u))]
  IN
  /\ u # 0
  /\ Idle(u)
  /\ \A a \in Mutex : held[a].writer # u /\ u \notin held[a].readers
  /\ tctx' = [tctx EXCEPT ![u] =
       [(IF detached THEN Dead(@) ELSE joinable) EXCEPT !.epoch1 = last]]
  /\ deadList' = IF detached THEN Append(deadList, u) ELSE deadList
  /\ thr' = [thr EXCEPT ![u] = NoThr]
  /\ lifeKnows' = [lifeKnows EXCEPT ![u] = IF detached THEN {} ELSE knows[u]]
  /\ knows' = [knows EXCEPT ![u] = {}]
  /\ UNCHANGED <<threadSeq, uidSeq, sync, shadow, held, reports, syncKnows, accesses, missed>>

\* ThreadJoin, of a thread the application may still join.
ThreadJoin(t, u) ==
  /\ Idle(t)
  /\ tctx[u].status = "finished" /\ ~tctx[u].detached
  /\ SetClock(t, Join(thr[t].clock, tctx[u].sync))
  /\ tctx' = [tctx EXCEPT ![u] = Dead(@)]
  /\ deadList' = Append(deadList, u)
  /\ knows' = [knows EXCEPT ![t] = @ \cup lifeKnows[u]]
  /\ lifeKnows' = [lifeKnows EXCEPT ![u] = {}]
  /\ UNCHANGED <<threadSeq, uidSeq, sync, shadow, held, reports, syncKnows, accesses, missed>>

ThreadDetach(t, u) ==
  LET finished == tctx[u].status = "finished" IN
  /\ Idle(t)
  /\ u # 0
  /\ tctx[u].status \in {"created", "running", "finished"} /\ ~tctx[u].detached
  /\ tctx' = [tctx EXCEPT ![u] = IF finished THEN Dead(@) ELSE [@ EXCEPT !.detached = TRUE]]
  /\ deadList' = IF finished THEN Append(deadList, u) ELSE deadList
  /\ lifeKnows' = [lifeKnows EXCEPT ![u] = IF finished THEN {} ELSE @]
  /\ UNCHANGED <<threadSeq, uidSeq, thr, sync, shadow, held, reports,
                 knows, syncKnows, accesses, missed>>

-----------------------------------------------------------------------------
Scan(t) == ScanSlot(t) \/ StoreSlot(t) \/ EvictSlot(t) \/ ReportRace(t)

MutexCall(t) ==
  \/ \E a \in Mutex, op \in {"lock", "unlock", "read_lock", "read_unlock", "rw_unlock"} :
       CallMutex(t, op, a)
  \/ MutexLock(t) \/ MutexUnlock(t) \/ MutexReadLock(t) \/ MutexReadUnlock(t)
  \/ MutexReadOrWriteUnlock(t)

AtomicCall(t) == \E a \in Atomic : Acquire(t, a) \/ Release(t, a) \/ ReleaseStore(t, a)

ThreadCall(t) ==
  \/ \E detached \in BOOLEAN : ThreadCreate(t, detached)
  \/ ThreadStart(t) \/ ThreadFinish(t)
  \/ \E u \in Tid : ThreadJoin(t, u) \/ ThreadDetach(t, u)

Access(t) == \E c \in Cell, range \in Ranges, write \in BOOLEAN : MemoryAccess(t, c, range, write)

Next == \E t \in Tid : Access(t) \/ Scan(t) \/ MutexCall(t) \/ AtomicCall(t) \/ ThreadCall(t)

Spec == Init /\ [][Next]_vars

-----------------------------------------------------------------------------
AllAccesses == UNION {accesses[c] : c \in DOMAIN accesses}

\* The words, clocks and contexts have the values of the code's types.
TypeOK ==
  /\ \A t \in Tid :
       /\ tctx[t].status \in {"invalid", "created", "running", "finished", "dead"}
       /\ tctx[t].uid \in 0 .. uidSeq - 1
       /\ tctx[t].sync \in Clock
       /\ tctx[t].epoch0 < Forever /\ tctx[t].epoch1 <= Forever
       /\ thr[t].clock \in Clock
       /\ thr[t].synch <= thr[t].epoch /\ thr[t].epoch < Forever
       /\ thr[t].at \in {"idle", "call", "scan", "store", "evict", "report"}
       /\ \A c \in DOMAIN shadow : thr[t].idx \in DOMAIN shadow[c]
  /\ threadSeq \in 1 .. MaxTid
  /\ deadList \in Seq(Tid)
  /\ \A a \in DOMAIN sync : sync[a].clock \in Clock /\ sync[a].read_clock \in Clock

\* What a thread knows to have happened before is covered by its clock: an
\* access that really precedes is never taken for a concurrent one.
ClockCoversKnowledge ==
  \A t \in Tid : tctx[t].status = "running" =>
    \A id \in knows[t] :
      IF id[1] = t THEN id[2] <= thr[t].epoch ELSE id[2] <= thr[t].clock[id[1]]

\* Of what a thread did since its fast_synch_epoch no other clock knows: an
\* access skipped for an older one of the same synch epoch is ordered with
\* the same accesses as that one (tsan_rtl.h:243-249).
PublishedBeforeSynch ==
  \A t \in Tid : tctx[t].status = "running" =>
    /\ \A u \in Tid \ {t} : thr[u].clock[t] <= thr[t].synch /\ tctx[u].sync[t] <= thr[t].synch
    /\ \A a \in DOMAIN sync : sync[a].clock[t] <= thr[t].synch /\ sync[a].read_clock[t] <= thr[t].synch

\* Every report is of two conflicting accesses by different threads that
\* nothing orders, however the scans of one cell interleave
\* (tsan_update_shadow_word_inl.h).
NoFalseAlarm == \A r \in reports : Conflict(r.cur, r.old) /\ ~r.ordered

\* tid and epoch identify an access for ever, although slots are reused: what a
\* clock says of a dead thread does not apply to the next thread of its slot
\* (tsan_rtl_thread.cc:107).
EpochsAreUnique ==
  \A a, b \in AllAccesses : a.tid = b.tid /\ a.epoch = b.epoch => a = b

\* The owner that MutexLock and MutexUnlock record is the thread that holds the
\* application's mutex, outside the window between the two.
OwnerIsHolder ==
  \A a \in DOMAIN held :
    (\A t \in Tid : thr[t].call = NoCall \/ thr[t].call.addr # a) =>
      sync[a].owner = held[a].writer /\ sync[a].recursion = held[a].depth

\* A thread's clock covers all that happens before what it does next, by locks,
\* joins and releases alike, and a mutex is owned by its holder, so that the unlock
\* that releases the clock is the holder's (tsan_rtl_mutex.cc, tsan_rtl_thread.cc).
ClocksAreSound == TypeOK /\ ClockCoversKnowledge /\ OwnerIsHolder

\* A write that races with an earlier access does not stay unreported, if no
\* slot was reused for another thread and no access had to give way.
RaceReported == missed /\ (\A t \in Tid : thr[t].at = "idle") => reports # {}

\* Although slots are reused, the thread that is about to be named is the one that
\* made the access, unless the slot's next thread is created and has not started:
\* then the new uid stands beside the old epochs (tsan_rtl_thread.cc:141, 190).
NamesAreRight ==
  \A t \in Tid : thr[t].at = "report" /\ tctx[thr[t].old.tid].status # "created" =>
    NamedThread(thr[t].old) \subseteq {thr[t].old.uid}

\* A report names no thread but the one that made the access.
ReportNamesItsThread == \A r \in reports : r.thread \subseteq {r.old.uid}
=============================================================================
