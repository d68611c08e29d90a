------------------------------ MODULE TsanMutex ------------------------------
(***************************************************************************)
(* The reader-writer spin mutex of the ThreadSanitizer run-time            *)
(* (lib/tsan/rtl/tsan_mutex.cc): one machine word, state_, that holds      *)
(* kWriteLock when a writer is inside and kReadLock for every reader that  *)
(* is inside or waiting.  An action is one atomic access to state_.        *)
(***************************************************************************)
EXTENDS Integers, FiniteSets

CONSTANT Thread

ASSUME ThreadAssumption == IsFiniteSet(Thread)

VARIABLES
  state,     \* state_
  pc         \* where each thread is in Lock, Unlock, ReadLock, ReadUnlock

vars == <<state, pc>>

kUnlocked  == 0
kWriteLock == 1
kReadLock  == 2

\* prev & kWriteLock
WriteBit(word) == word % 2

Goto(t, label) == pc' = [pc EXCEPT ![t] = label]

Init ==
  /\ state = kUnlocked
  /\ pc = [t \in Thread |-> "idle"]

-----------------------------------------------------------------------------
(* Lock: a strong CAS, then a loop that loads state_ and, when it reads     *)
(* kUnlocked, tries the CAS again.  A load that reads anything else changes *)
(* nothing.                                                                 *)

\* A CAS that looks at the write bit only, and one that keeps the readers' units.
BugCasIgnoresReaders(t, retry) ==
  \/ WriteBit(state) = 0 /\ state' = kWriteLock /\ Goto(t, "writing")
  \/ WriteBit(state) # 0 /\ Goto(t, retry) /\ UNCHANGED state
BugCasJoinsReaders(t, retry) ==
  \/ WriteBit(state) = 0 /\ state' = state + kWriteLock /\ Goto(t, "writing")
  \/ WriteBit(state) # 0 /\ Goto(t, retry) /\ UNCHANGED state

CasUnlockedToWrite(t, retry) ==
  \/ /\ state = kUnlocked
     /\ state' = kWriteLock
     /\ Goto(t, "writing")
  \/ /\ state # kUnlocked
     /\ Goto(t, retry)
     /\ UNCHANGED state

LockFast(t) == pc[t] = "idle" /\ CasUnlockedToWrite(t, "lock_load")

LockLoad(t) ==
  /\ pc[t] = "lock_load"
  /\ state = kUnlocked
  /\ Goto(t, "lock_cas")
  /\ UNCHANGED state

LockCas(t) == pc[t] = "lock_cas" /\ CasUnlockedToWrite(t, "lock_load")

\* Unlock by a plain store.
BugUnlockStores(t) == pc[t] = "writing" /\ state' = kUnlocked /\ Goto(t, "idle")

Unlock(t) ==
  /\ pc[t] = "writing"
  /\ state' = state - kWriteLock
  /\ Goto(t, "idle")

-----------------------------------------------------------------------------
(* ReadLock: the reader is counted first and waits for the writer, if there *)
(* is one, afterwards.                                                      *)

\* ReadLock that never waits, and one that compares the word, not the bit.
BugReadLockNoWait(t) == pc[t] = "idle" /\ state' = state + kReadLock /\ Goto(t, "reading")
BugReadLockComparesWord(t) ==
  /\ pc[t] = "idle"
  /\ state' = state + kReadLock
  /\ Goto(t, IF state # kWriteLock THEN "reading" ELSE "read_load")

ReadLockAdd(t) ==
  /\ pc[t] = "idle"
  /\ state' = state + kReadLock
  /\ Goto(t, IF WriteBit(state) = 0 THEN "reading" ELSE "read_load")

\* A reader that waits for kUnlocked waits for its own unit to go.
BugReadLockWaitsForUnlocked(t) ==
  pc[t] = "read_load" /\ state = kUnlocked /\ Goto(t, "reading") /\ UNCHANGED state

ReadLockLoad(t) ==
  /\ pc[t] = "read_load"
  /\ WriteBit(state) = 0
  /\ Goto(t, "reading")
  /\ UNCHANGED state

ReadUnlock(t) ==
  /\ pc[t] = "reading"
  /\ state' = state - kReadLock
  /\ Goto(t, "idle")

Step(t) ==
  \/ LockFast(t) \/ LockLoad(t) \/ LockCas(t) \/ Unlock(t)
  \/ ReadLockAdd(t) \/ ReadLockLoad(t) \/ ReadUnlock(t)

Next == \E t \in Thread : Step(t)

Spec == Init /\ [][Next]_vars

(* A thread that spins or holds the mutex is eventually scheduled; no       *)
(* thread has to start a new Lock or ReadLock.                              *)
Fairness ==
  \A t \in Thread :
    WF_vars(LockLoad(t) \/ LockCas(t) \/ Unlock(t) \/ ReadLockLoad(t) \/ ReadUnlock(t))

FairSpec == Spec /\ Fairness

-----------------------------------------------------------------------------
Label == {"idle", "lock_load", "lock_cas", "writing", "read_load", "reading"}

Writing == {t \in Thread : pc[t] = "writing"}
Reading == {t \in Thread : pc[t] = "reading"}
\* The readers state_ counts: those inside and those that wait for a writer.
Counted == {t \in Thread : pc[t] \in {"read_load", "reading"}}

\* state_ is a natural number and every thread is at a label of the code.
TypeOK ==
  /\ state \in Nat
  /\ pc \in [Thread -> Label]

\* A thread inside the section Lock..Unlock is alone: no second writer and no
\* reader that ReadLock let in (tsan_mutex.cc Lock, ReadLock).
MutualExclusion ==
  \A t \in Writing : \A u \in Thread \ {t} : pc[u] \notin {"writing", "reading"}

\* state_ is exactly what the threads put into it; this is what the CAS on
\* kUnlocked and the test of the write bit rely on.
StateCountsHolders ==
  state = kWriteLock * Cardinality(Writing) + kReadLock * Cardinality(Counted)

\* The assertions of Unlock, ReadUnlock and ~Mutex never fire: the write bit
\* is set when a writer leaves, clear when a reader leaves and another unit of
\* kReadLock is there to take, and state_ is kUnlocked once every caller is out.
AssertionsHold ==
  /\ \A t \in Writing : WriteBit(state) # 0
  /\ \A t \in Reading : WriteBit(state) = 0 /\ state - WriteBit(state) > 0
  /\ (\A t \in Thread : pc[t] \in {"idle", "lock_load", "lock_cas"}) => state = kUnlocked

\* The inductive invariant: at most one writer, and while it is inside no
\* reader is past its loop.
Inv ==
  /\ TypeOK
  /\ StateCountsHolders
  /\ MutualExclusion

\* "Readers have preference" (tsan_mutex.cc:21): from the moment a reader has
\* added itself to state_, no thread enters the write section before it left.
ReadersHavePreference ==
  [][Counted # {} => Writing' \subseteq Writing]_vars

\* A reader that waits gets in: at most one writer is ahead of it.
WaitingReaderEnters ==
  \A t \in Thread : (pc[t] = "read_load") ~> (pc[t] = "reading")

\* A waiting writer may starve, but only because others keep getting in: while
\* threads wait, the mutex is granted to somebody again and again.
SomeWaiterEnters ==
  (\E t \in Thread : pc[t] \in {"lock_load", "lock_cas", "read_load"})
    ~> (Writing \cup Reading # {})

\* Spinning is not for ever: a waiting reader gets in, and while anybody waits
\* somebody gets in (tsan_mutex.cc, the loops of Lock and ReadLock).
WaitersEnter == WaitingReaderEnters /\ SomeWaiterEnters

Abstract == INSTANCE RWLock WITH writing <- Writing, reading <- Reading

\* The word protocol implements a reader-writer lock.
ImplementsRWLock == Abstract!Spec
=============================================================================
