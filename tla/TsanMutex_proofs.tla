--------------------------- MODULE TsanMutex_proofs ---------------------------
(***************************************************************************)
(* Proofs, for any finite set of threads, that the word protocol of        *)
(* TsanMutex keeps Inv, that Inv gives the properties the runs check, and  *)
(* that the protocol implements the abstract lock RWLock.                  *)
(***************************************************************************)
EXTENDS TsanMutex, FiniteSetTheorems, TLAPS

-----------------------------------------------------------------------------
(* How the sets of holders change when one thread moves.                    *)

\* A subset of Thread is finite and has a natural cardinality.
LEMMA SubsetCard ==
  ASSUME NEW S \in SUBSET Thread
  PROVE  IsFiniteSet(S) /\ Cardinality(S) \in Nat
  BY ThreadAssumption, FS_Subset, FS_CardinalityType

\* No writer, or one: what Cardinality(Writing) may be while writers exclude
\* each other.
LEMMA WritingCard ==
  ASSUME MutualExclusion
  PROVE  /\ \A t \in Writing : Writing = {t} /\ Cardinality(Writing) = 1
         /\ Writing = {} => Cardinality(Writing) = 0
<1>1. ASSUME NEW t \in Writing PROVE Writing = {t} /\ Cardinality(Writing) = 1
  <2>1. Writing = {t}
    BY <1>1 DEF MutualExclusion, Writing
  <2>2. QED BY <2>1, FS_Singleton
<1>2. QED BY <1>1, FS_EmptySet

\* What each step does to Writing and Counted: the sets the word counts.
LEMMA SetsAfterGoto ==
  ASSUME TypeOK, NEW t \in Thread, NEW label \in Label, Goto(t, label)
  PROVE  /\ pc' \in [Thread -> Label]
         /\ pc'[t] = label
         /\ \A u \in Thread \ {t} : pc'[u] = pc[u]
         /\ Writing' = IF label = "writing" THEN Writing \cup {t} ELSE Writing \ {t}
         /\ Reading' = IF label = "reading" THEN Reading \cup {t} ELSE Reading \ {t}
         /\ Counted' = IF label \in {"read_load", "reading"}
                       THEN Counted \cup {t} ELSE Counted \ {t}
  BY DEF TypeOK, Goto, Writing, Reading, Counted

\* The word is kUnlocked only when no one is inside or counted.
LEMMA UnlockedMeansNobody ==
  ASSUME Inv
  PROVE  /\ state = kUnlocked => Writing = {} /\ Counted = {}
         /\ WriteBit(state) = 0 <=> Writing = {}
         /\ Writing = {} => state = 2 * Cardinality(Counted)
         /\ Writing # {} => state = 1 + 2 * Cardinality(Counted)
         /\ Cardinality(Counted) \in Nat
         /\ Counted # {} => Cardinality(Counted) > 0
<1> DEFINE n == Cardinality(Counted)
<1>1. n \in Nat /\ IsFiniteSet(Counted)
  BY SubsetCard DEF Counted
<1>2. Counted # {} => n > 0
  BY <1>1, FS_EmptySet
<1>3. Writing = {} => state = 2 * n
  BY <1>1, WritingCard DEF Inv, StateCountsHolders, kWriteLock, kReadLock
<1>4. Writing # {} => state = 1 + 2 * n
  BY <1>1, WritingCard DEF Inv, StateCountsHolders, kWriteLock, kReadLock
<1> HIDE DEF n
<1>5. n \in Nat => (2 * n) % 2 = 0 /\ (1 + 2 * n) % 2 = 1
  OBVIOUS
<1>6. WriteBit(state) = 0 <=> Writing = {}
  BY <1>1, <1>3, <1>4, <1>5 DEF WriteBit
<1>7. state = kUnlocked => Writing = {} /\ Counted = {}
  BY <1>1, <1>2, <1>3, <1>4 DEF kUnlocked
<1>8. QED BY <1>1, <1>2, <1>3, <1>4, <1>6, <1>7 DEF n

\* Adding or removing one thread changes a cardinality by one.
LEMMA CardAfterGoto ==
  ASSUME NEW S \in SUBSET Thread, NEW t \in Thread
  PROVE  /\ t \notin S => Cardinality(S \cup {t}) = Cardinality(S) + 1
         /\ t \in S => Cardinality(S \ {t}) = Cardinality(S) - 1
  BY SubsetCard, FS_AddElement, FS_RemoveElement

-----------------------------------------------------------------------------
LEMMA InitEstablishesInv == Init => Inv
<1> SUFFICES ASSUME Init PROVE Inv
  OBVIOUS
<1>1. TypeOK
  BY DEF Init, TypeOK, Label, kUnlocked
<1>2. Writing = {} /\ Counted = {}
  BY DEF Init, Writing, Counted
<1>3. StateCountsHolders
  BY <1>2, FS_EmptySet DEF Init, StateCountsHolders, kUnlocked, kWriteLock, kReadLock
<1>4. QED
  BY <1>1, <1>2, <1>3 DEF Inv, MutualExclusion

\* Winning the CAS: nobody was inside or counted, so the thread is alone.
LEMMA CasKeepsInv ==
  ASSUME Inv, NEW t \in Thread, NEW retry \in {"lock_load"},
         pc[t] \in {"idle", "lock_cas"}, CasUnlockedToWrite(t, retry)
  PROVE  Inv'
<1>1. TypeOK BY DEF Inv
<1>2. CASE state = kUnlocked /\ state' = kWriteLock /\ Goto(t, "writing")
  <2>1. Writing' = {t} /\ Counted' = {}
    BY <1>1, <1>2, SetsAfterGoto, UnlockedMeansNobody DEF Label
  <2>2. TypeOK'
    BY <1>1, <1>2, SetsAfterGoto DEF TypeOK, Label, kWriteLock
  <2>6. Cardinality({t}) = 1 /\ Cardinality({}) = 0
    BY FS_Singleton, FS_EmptySet
  <2>3. StateCountsHolders'
    BY <1>2, <2>1, <2>6 DEF StateCountsHolders, kWriteLock, kReadLock
  <2>4. MutualExclusion'
    BY <2>1, <2>2 DEF MutualExclusion, Writing, Counted
  <2>5. QED BY <2>2, <2>3, <2>4 DEF Inv
<1>3. CASE state # kUnlocked /\ Goto(t, retry) /\ UNCHANGED state
  <2>1. Writing' = Writing /\ Counted' = Counted
    BY <1>1, <1>3, SetsAfterGoto DEF Label, Writing, Counted
  <2>2. TypeOK'
    BY <1>1, <1>3, SetsAfterGoto DEF TypeOK, Label
  <2>3. QED
    BY <1>1, <1>3, <2>1, <2>2, SetsAfterGoto
    DEF Inv, StateCountsHolders, MutualExclusion, Label, Writing
<1>4. QED BY <1>2, <1>3 DEF CasUnlockedToWrite

LEMMA LockLoadKeepsInv ==
  ASSUME Inv, NEW t \in Thread, LockLoad(t)
  PROVE  Inv'
<1>1. TypeOK /\ "lock_cas" \in Label BY DEF Inv, Label
<1>2. Writing' = Writing /\ Counted' = Counted
  BY <1>1, SetsAfterGoto DEF LockLoad, Writing, Counted
<1>3. QED
  BY <1>1, <1>2, SetsAfterGoto
  DEF Inv, TypeOK, StateCountsHolders, MutualExclusion, LockLoad, Writing

\* The only writer leaves: the word loses the unit the CAS put there.
LEMMA UnlockKeepsInv ==
  ASSUME Inv, NEW t \in Thread, Unlock(t)
  PROVE  Inv'
<1>1. TypeOK /\ "idle" \in Label BY DEF Inv, Label
<1>2. t \in Writing /\ t \notin Counted
  BY DEF Unlock, Writing, Counted
<1>3. Writing = {t} /\ state = 1 + 2 * Cardinality(Counted)
  BY <1>2, WritingCard, UnlockedMeansNobody DEF Inv
<1>4. Writing' = {} /\ Counted' = Counted
  BY <1>1, <1>2, <1>3, SetsAfterGoto DEF Unlock
<1>5. state' = 2 * Cardinality(Counted) /\ state' \in Nat
  BY <1>3, UnlockedMeansNobody DEF Unlock, kWriteLock
<1>6. StateCountsHolders'
  BY <1>4, <1>5, FS_EmptySet, UnlockedMeansNobody
  DEF StateCountsHolders, kWriteLock, kReadLock
<1>7. TypeOK' /\ MutualExclusion'
  BY <1>1, <1>4, <1>5, SetsAfterGoto DEF Unlock, TypeOK, MutualExclusion
<1>8. QED BY <1>6, <1>7 DEF Inv

\* A reader counts itself; it is inside at once only if no writer is.
LEMMA ReadLockAddKeepsInv ==
  ASSUME Inv, NEW t \in Thread, ReadLockAdd(t)
  PROVE  Inv'
<1> DEFINE label == IF WriteBit(state) = 0 THEN "reading" ELSE "read_load"
<1>1. TypeOK /\ label \in Label /\ Goto(t, label)
  BY DEF Inv, Label, ReadLockAdd
<1>2. t \notin Writing /\ t \notin Counted
  BY DEF ReadLockAdd, Writing, Counted
<1>3. Writing' = Writing /\ Counted' = Counted \cup {t}
  BY <1>1, <1>2, SetsAfterGoto
<1>4. Cardinality(Counted') = Cardinality(Counted) + 1
  BY <1>2, <1>3, CardAfterGoto DEF Counted
<1>5. Cardinality(Writing) \in Nat /\ Cardinality(Counted) \in Nat
  BY SubsetCard DEF Writing, Counted
<1>6. StateCountsHolders'
  BY <1>3, <1>4, <1>5 DEF Inv, StateCountsHolders, ReadLockAdd, kWriteLock, kReadLock
<1>7. TypeOK'
  BY <1>1, SetsAfterGoto DEF TypeOK, ReadLockAdd, kReadLock
<1>8. MutualExclusion'
  <2>1. Writing # {} => label = "read_load"
    BY UnlockedMeansNobody
  <2>2. QED
    BY <1>1, <1>3, <2>1, SetsAfterGoto DEF Inv, MutualExclusion, Writing
<1>9. QED BY <1>6, <1>7, <1>8 DEF Inv

\* The write bit a waiting reader finds clear says that no writer is inside.
LEMMA ReadLockLoadKeepsInv ==
  ASSUME Inv, NEW t \in Thread, ReadLockLoad(t)
  PROVE  Inv'
<1>1. TypeOK /\ "reading" \in Label BY DEF Inv, Label
<1>2. Writing = {}
  BY UnlockedMeansNobody DEF ReadLockLoad
<1>3. Writing' = Writing /\ Counted' = Counted
  BY <1>1, SetsAfterGoto DEF ReadLockLoad, Writing, Counted
<1>4. QED
  BY <1>1, <1>2, <1>3, SetsAfterGoto
  DEF Inv, TypeOK, StateCountsHolders, MutualExclusion, ReadLockLoad

LEMMA ReadUnlockKeepsInv ==
  ASSUME Inv, NEW t \in Thread, ReadUnlock(t)
  PROVE  Inv'
<1>1. TypeOK /\ "idle" \in Label BY DEF Inv, Label
<1>2. t \notin Writing /\ t \in Counted
  BY DEF ReadUnlock, Writing, Counted
<1>3. Writing' = Writing /\ Counted' = Counted \ {t}
  BY <1>1, <1>2, SetsAfterGoto DEF ReadUnlock
<1>4. Cardinality(Counted') = Cardinality(Counted) - 1
  BY <1>2, <1>3, CardAfterGoto DEF Counted
<1>5. /\ Cardinality(Writing) \in Nat /\ Cardinality(Counted) \in Nat
      /\ Cardinality(Counted') \in Nat
  BY <1>3, SubsetCard DEF Writing, Counted
<1>6. StateCountsHolders'
  BY <1>3, <1>4, <1>5 DEF Inv, StateCountsHolders, ReadUnlock, kWriteLock, kReadLock
<1>7. state' \in Nat
  BY <1>3, <1>5, <1>6 DEF StateCountsHolders, kWriteLock, kReadLock
<1>8. TypeOK' /\ MutualExclusion'
  BY <1>1, <1>3, <1>7, SetsAfterGoto DEF Inv, TypeOK, ReadUnlock, MutualExclusion, Writing
<1>9. QED BY <1>6, <1>8 DEF Inv

LEMMA NextKeepsInv == Inv /\ [Next]_vars => Inv'
<1> SUFFICES ASSUME Inv, [Next]_vars PROVE Inv'
  OBVIOUS
<1>1. CASE UNCHANGED vars
  BY <1>1 DEF vars, Inv, TypeOK, StateCountsHolders, MutualExclusion, Writing, Counted
<1>2. ASSUME NEW t \in Thread, Step(t) PROVE Inv'
  <2>1. CASE LockFast(t)     BY <2>1, CasKeepsInv DEF LockFast
  <2>2. CASE LockLoad(t)     BY <2>2, LockLoadKeepsInv
  <2>3. CASE LockCas(t)      BY <2>3, CasKeepsInv DEF LockCas
  <2>4. CASE Unlock(t)       BY <2>4, UnlockKeepsInv
  <2>5. CASE ReadLockAdd(t)  BY <2>5, ReadLockAddKeepsInv
  <2>6. CASE ReadLockLoad(t) BY <2>6, ReadLockLoadKeepsInv
  <2>7. CASE ReadUnlock(t)   BY <2>7, ReadUnlockKeepsInv
  <2>8. QED BY <1>2, <2>1, <2>2, <2>3, <2>4, <2>5, <2>6, <2>7 DEF Step
<1>3. QED BY <1>1, <1>2 DEF Next

-----------------------------------------------------------------------------
\* Inv holds in every reachable state.
THEOREM Invariance == Spec => []Inv
<1>1. QED BY InitEstablishesInv, NextKeepsInv, PTL DEF Spec

\* The variables keep their types in every run of Lock, Unlock, ReadLock and
\* ReadUnlock.
THEOREM TypeCorrect == Spec => []TypeOK
<1>1. Inv => TypeOK BY DEF Inv
<1>2. QED BY <1>1, Invariance, PTL

\* Two threads are never inside Lock..Unlock together, nor a writer beside a
\* reader inside ReadLock..ReadUnlock.
THEOREM MutualExclusionHolds == Spec => []MutualExclusion
<1>1. Inv => MutualExclusion BY DEF Inv
<1>2. QED BY <1>1, Invariance, PTL

\* state_ is what the threads inside and the waiting readers put there.
THEOREM CountsHold == Spec => []StateCountsHolders
<1>1. Inv => StateCountsHolders BY DEF Inv
<1>2. QED BY <1>1, Invariance, PTL

\* The assertions of Unlock, ReadUnlock and ~Mutex cannot fire.
THEOREM AssertionsNeverFire == Spec => []AssertionsHold
<1>1. Inv => AssertionsHold
  <2> SUFFICES ASSUME Inv PROVE AssertionsHold
    OBVIOUS
  <2>1. \A t \in Writing : WriteBit(state) # 0
    BY UnlockedMeansNobody
  <2>2. ASSUME NEW t \in Reading PROVE WriteBit(state) = 0 /\ state - WriteBit(state) > 0
    <3>1. Writing = {} /\ t \in Counted
      BY <2>2 DEF Inv, MutualExclusion, Writing, Reading, Counted
    <3>2. QED BY <3>1, UnlockedMeansNobody
  <2>3. ASSUME \A t \in Thread : pc[t] \in {"idle", "lock_load", "lock_cas"}
        PROVE  state = kUnlocked
    <3>1. Writing = {} /\ Counted = {}
      BY <2>3 DEF Writing, Counted
    <3>2. QED BY <3>1, FS_EmptySet, UnlockedMeansNobody DEF kUnlocked
  <2>4. QED BY <2>1, <2>2, <2>3 DEF AssertionsHold
<1>2. QED BY <1>1, Invariance, PTL

\* No thread enters the write section while a reader is inside or waiting: the
\* preference tsan_mutex.cc:21 promises, for any number of readers.
THEOREM ReadersPreferred == Spec => ReadersHavePreference
<1>1. Inv /\ [Next]_vars => [Counted # {} => Writing' \subseteq Writing]_vars
  <2> SUFFICES ASSUME Inv, Next, Counted # {} PROVE Writing' \subseteq Writing
    OBVIOUS
  <2>1. PICK t \in Thread : Step(t)
    BY DEF Next
  <2>2. TypeOK /\ state # kUnlocked
    BY UnlockedMeansNobody DEF Inv
  <2>3. \E label \in Label \ {"writing"} : Goto(t, label)
    BY <2>1, <2>2 DEF Step, LockFast, LockLoad, LockCas, CasUnlockedToWrite, Unlock,
                      ReadLockAdd, ReadLockLoad, ReadUnlock, Label
  <2>4. QED BY <2>2, <2>3, SetsAfterGoto
<1>2. QED BY <1>1, Invariance, PTL DEF Spec, ReadersHavePreference

-----------------------------------------------------------------------------
\* The protocol on state_ implements the reader-writer lock: waiting is
\* invisible to the abstract lock, entering and leaving are its four actions.
THEOREM Implementation == Spec => ImplementsRWLock
<1>1. Init => Abstract!Init
  BY DEF Init, Abstract!Init, Writing, Reading
<1>2. Inv /\ [Next]_vars => [Abstract!Next]_Abstract!vars
  <2> SUFFICES ASSUME Inv, [Next]_vars
               PROVE  Abstract!Next \/ UNCHANGED <<Writing, Reading>>
    BY DEF Abstract!vars
  <2>1. CASE UNCHANGED vars
    BY <2>1 DEF vars, Writing, Reading
  <2>2. ASSUME NEW t \in Thread, Step(t)
        PROVE  Abstract!Next \/ UNCHANGED <<Writing, Reading>>
    <3>1. TypeOK BY DEF Inv
    <3>2. ASSUME NEW retry \in {"lock_load"}, pc[t] \in {"idle", "lock_cas"},
                 CasUnlockedToWrite(t, retry)
          PROVE  Abstract!EnterWrite(t) \/ UNCHANGED <<Writing, Reading>>
      <4>1. CASE state = kUnlocked /\ Goto(t, "writing")
        <5>1. Writing = {} /\ Reading = {}
          BY <4>1, UnlockedMeansNobody DEF Reading, Counted
        <5>2. Writing' = {t} /\ Reading' = Reading
          BY <3>1, <4>1, <5>1, SetsAfterGoto DEF Label
        <5>3. QED BY <5>1, <5>2 DEF Abstract!EnterWrite
      <4>2. CASE Goto(t, retry)
        BY <3>1, <3>2, <4>2, SetsAfterGoto DEF Label, Writing, Reading
      <4>3. QED BY <3>2, <4>1, <4>2 DEF CasUnlockedToWrite
    <3>3. CASE LockFast(t) \/ LockCas(t)
      BY <2>2, <3>2, <3>3 DEF LockFast, LockCas, Abstract!Next
    <3>4. CASE LockLoad(t)
      BY <3>1, <3>4, SetsAfterGoto DEF LockLoad, Label, Writing, Reading
    <3>5. CASE Unlock(t)
      <4>1. t \in Writing /\ Writing' = Writing \ {t} /\ Reading' = Reading
        BY <3>1, <3>5, SetsAfterGoto DEF Unlock, Label, Writing, Reading
      <4>2. QED BY <4>1 DEF Abstract!Next, Abstract!LeaveWrite
    <3>6. CASE ReadLockAdd(t) \/ ReadLockLoad(t)
      <4>1. CASE Goto(t, "reading") /\ WriteBit(state) = 0
        <5>1. Writing = {} /\ t \notin Reading
          BY <3>6, <4>1, UnlockedMeansNobody DEF ReadLockAdd, ReadLockLoad, Reading
        <5>2. Writing' = Writing /\ Reading' = Reading \cup {t}
          BY <3>1, <4>1, <5>1, SetsAfterGoto DEF Label
        <5>3. QED BY <5>1, <5>2 DEF Abstract!Next, Abstract!EnterRead
      <4>2. CASE pc[t] = "idle" /\ Goto(t, "read_load")
        BY <3>1, <4>2, SetsAfterGoto DEF Label, Writing, Reading
      <4>3. QED BY <3>6, <4>1, <4>2 DEF ReadLockAdd, ReadLockLoad
    <3>7. CASE ReadUnlock(t)
      <4>1. t \in Reading /\ Writing' = Writing /\ Reading' = Reading \ {t}
        BY <3>1, <3>7, SetsAfterGoto DEF ReadUnlock, Label, Writing, Reading
      <4>2. QED BY <4>1 DEF Abstract!Next, Abstract!LeaveRead
    <3>8. QED BY <2>2, <3>3, <3>4, <3>5, <3>6, <3>7 DEF Step
  <2>3. QED BY <2>1, <2>2 DEF Next
<1>3. QED BY <1>1, <1>2, Invariance, PTL DEF Spec, ImplementsRWLock, Abstract!Spec
=============================================================================
