----------------------------- MODULE TsanLocks -----------------------------
(***************************************************************************)
(* Which mutexes of the run-time ThreadSanitizer's handlers take under     *)
(* which others (lib/tsan/rtl), the order tsan_mutex.cc allows and the     *)
(* DeadlockDetector that debug builds check it with.  thread_mtx also      *)
(* keeps the ThreadState of a thread, where its trace is, from going away  *)
(* while a report reads it.  A handler is a sequence of steps.  Locks for  *)
(* reading are taken as exclusive here, which can only add waiting.        *)
(***************************************************************************)
EXTENDS Integers, Sequences, SequencesExt

CONSTANTS
  Tids,                    \* the threads
  report_destroy_locked    \* the flag

VARIABLES
  path,            \* thread -> steps left of its handler
  locked,          \* thread -> mutexes it has, in the order it took them
  thread_status,   \* thread -> its context's status
  live             \* thread -> its ThreadState is constructed

lockVars == <<path, locked, thread_status, live>>

-----------------------------------------------------------------------------
(* The order: a mutex is a tuple that begins with its type.                *)

CanLockTab == [Trace |-> {"Leaf"}, Threads |-> {"Report"}, Report |-> {}, SyncVar |-> {},
               SyncTab |-> {"SyncVar"}, Slab |-> {"Leaf"}, Annotations |-> {},
               AtExit |-> {"SyncTab"}]
MutexTypes == DOMAIN CanLockTab
IsLeaf(type) == "Leaf" \in CanLockTab[type]
\* A leaf can be locked under everything that is not one.
CanLockAdj ==
  [e \in MutexTypes \X MutexTypes |->
     e[2] \in CanLockTab[e[1]] \/ (IsLeaf(e[2]) /\ ~IsLeaf(e[1]) /\ e[1] # e[2])]

\* DeadlockDetector::Lock looks at the mutex taken last only.  The mutex of a heap
\* block is zeroed memory and of no type: nothing is checked under it.
LockIsAllowed(held, m) ==
  LET last == Last(held)[1] IN
  held = << >> \/ last = "Invalid" \/ (m[1] # "Invalid" /\ CanLockAdj[<<last, m[1]>>])

-----------------------------------------------------------------------------
(* The handlers.                                                           *)

Under(m, steps) == <<<<"lock", m>>>> \o steps \o <<<<"unlock", m>>>>
Report == <<"Report">>
Part == <<"SyncTab">>
Block == <<"Invalid">>
ThreadMtx == <<"Threads">>
TraceMtx(t) == <<"Trace", t>>
Var(list) == <<"SyncVar", list>>

TraceSwitch(t) == Under(TraceMtx(t), << >>)
\* Only an event at the start of a part switches.
TraceAddEvent(t) == {<< >>, TraceSwitch(t)}
\* GetAndLock locks the SyncVar before it unlocks the list.
WithVar(list, steps) ==
  <<<<"lock", list>>, <<"lock", Var(list)>>, <<"unlock", list>>>> \o steps
  \o <<<<"unlock", Var(list)>>>>
\* GetAndRemove waits for the SyncVar after it has unlocked the list.
FindAndRemove(list) == Under(list, << >>) \o Under(Var(list), << >>)
RestoreStack(u) == <<<<"pick", u>>>> \o Under(TraceMtx(u), << >>)
AddLocation == <<<<"FindThread">>>>

\* Accesses, calls and returns.
MemoryAccess(t) == {TraceSwitch(t)}
MutexLock(t) == {event \o WithVar(list, << >>) : event \in TraceAddEvent(t), list \in {Part, Block}}
Acquire == {WithVar(list, << >>) : list \in {Part, Block}}
MutexReadOrWriteUnlock(t) ==
  {WithVar(list, event) : event \in TraceAddEvent(t), list \in {Part, Block}}
MutexDestroy == {FindAndRemove(list) : list \in {Part, Block}} \cup
  IF ~report_destroy_locked THEN {}
  ELSE {FindAndRemove(Part) \o Under(Report, RestoreStack(u)) : u \in Tids}
       \cup {FindAndRemove(Block) \o Under(Report, RestoreStack(u) \o AddLocation) : u \in Tids}
\* What ReportRace does under its locks: a suppressed race restores no stack.
Restoring(t) ==
  {<< >>} \cup {RestoreStack(u) \o location : u \in Tids \ {t}, location \in {<< >>, AddLocation}}
\* IsExpectedReport, and the report of a race that is not expected.
BugReportRace(t) ==
  LET expected == Under(<<"Annotations">>, << >>) IN
  {expected} \cup {expected \o Under(Report, Under(ThreadMtx, steps)) : steps \in Restoring(t)}
ReportRace(t) ==
  LET expected == Under(<<"Annotations">>, << >>) IN
  {expected} \cup {expected \o Under(ThreadMtx, Under(Report, steps)) : steps \in Restoring(t)}
\* user_free empties a block's list under its mutex; in a signal handler it reports.
user_free == {Under(Block, Under(Var(Block), << >>)) \o rep : rep \in {<< >>, Under(Report, << >>)}}
atexit == {Under(<<"AtExit">>, WithVar(Part, << >>))}
WriteMemoryProfile == {Under(ThreadMtx, << >>) \o Under(Part, << >>)}
\* ThreadCreate, ThreadJoin, ThreadDetach and what else asks the contexts.
ThreadHandlers == {Under(ThreadMtx, << >>)}
\* At the end of the program: it waits for reports, and reports leaked threads.
Finalize == {Under(Report, << >>) \o Under(ThreadMtx, Under(Report, << >>))}
ThreadFinish(t) ==
  {Under(ThreadMtx, event \o <<<<"finish">>, <<"destroy">>>>) : event \in TraceAddEvent(t)}
ThreadStart == {Under(ThreadMtx, <<<<"start">>, <<"construct">>>>)}

Handlers(t) ==
  IF thread_status[t] = "Finished" THEN ThreadStart
  ELSE UNION {MemoryAccess(t), MutexLock(t), Acquire, MutexReadOrWriteUnlock(t), MutexDestroy,
              ReportRace(t), user_free, atexit, WriteMemoryProfile, ThreadHandlers, Finalize,
              ThreadFinish(t)}

-----------------------------------------------------------------------------
Holders(m) == {t \in Tids : m \in ToSet(locked[t])}
At(t, step) == path[t] # << >> /\ path[t][1][1] = step
Done(t) == path' = [path EXCEPT ![t] = Tail(@)]

LocksInit ==
  /\ path = [t \in Tids |-> << >>] /\ locked = [t \in Tids |-> << >>]
  /\ thread_status = [t \in Tids |-> "Running"] /\ live = [t \in Tids |-> TRUE]

Call(t) ==
  /\ path[t] = << >> /\ path' \in {[path EXCEPT ![t] = p] : p \in Handlers(t)}
  /\ UNCHANGED <<locked, thread_status, live>>
LockMutex(t) ==
  /\ At(t, "lock") /\ Holders(path[t][1][2]) = {} /\ Done(t)
  /\ locked' = [locked EXCEPT ![t] = Append(@, path[t][1][2])]
  /\ UNCHANGED <<thread_status, live>>
UnlockMutex(t) ==
  /\ At(t, "unlock") /\ Done(t)
  /\ \E i \in DOMAIN locked[t] :
       locked[t][i] = path[t][1][2] /\ locked' = [locked EXCEPT ![t] = RemoveAt(@, i)]
  /\ UNCHANGED <<thread_status, live>>
\* RestoreStack: the trace of a finished thread is a copy nobody writes.
Pick(t) ==
  /\ At(t, "pick")
  /\ path' = [path EXCEPT ![t] = IF thread_status[path[t][1][2]] = "Running" THEN Tail(@)
                                 ELSE SubSeq(@, 4, Len(@))]
  /\ UNCHANGED <<locked, thread_status, live>>
FindThread(t) == At(t, "FindThread") /\ Done(t) /\ UNCHANGED <<locked, thread_status, live>>
SetStatus(t) ==
  /\ path[t] # << >> /\ path[t][1][1] \in {"finish", "start"} /\ Done(t)
  /\ thread_status' =
       [thread_status EXCEPT ![t] = IF path[t][1][1] = "finish" THEN "Finished" ELSE "Running"]
  /\ UNCHANGED <<locked, live>>
SetState(t) ==
  /\ path[t] # << >> /\ path[t][1][1] \in {"destroy", "construct"} /\ Done(t)
  /\ live' = [live EXCEPT ![t] = path[t][1][1] = "construct"]
  /\ UNCHANGED <<locked, thread_status>>

LocksNext ==
  \E t \in Tids : \/ Call(t) \/ LockMutex(t) \/ UnlockMutex(t) \/ Pick(t) \/ FindThread(t)
                     \/ SetStatus(t) \/ SetState(t)

LocksSpec == LocksInit /\ [][LocksNext]_lockVars

-----------------------------------------------------------------------------
\* InitializeMutex finds no type that can be locked under itself, however many
\* others lie between (tsan_mutex.cc:111-117), and a leaf has nothing under it:
\* every set of types has one that none of the set can be locked under.
TableIsAcyclic ==
  /\ \A S \in (SUBSET MutexTypes) \ {{}} : \E type \in S : \A other \in S : ~CanLockAdj[<<type, other>>]
  /\ \A type \in MutexTypes : IsLeaf(type) => CanLockTab[type] = {"Leaf"}

\* No handler takes a mutex under one the table does not allow it under
\* (tsan_mutex.cc:140).
NestingIsAllowed ==
  \A t \in Tids : At(t, "lock") => LockIsAllowed(locked[t], path[t][1][2])

\* Nobody waits in a circle, the mutexes of heap blocks, which the detector does
\* not know, included.
NobodyWaitsInACircle ==
  \A S \in (SUBSET Tids) \ {{}} :
    \E t \in S : ~At(t, "lock") \/ Holders(path[t][1][2]) \cap S = {}

\* While a report reads the trace of a running thread its ThreadState is not
\* destroyed, and a trace is destroyed unlocked (tsan_rtl_report.cc:249-265,
\* tsan_rtl_thread.cc:262, tsan_mutex.cc:197).
PickedTraceIsAlive ==
  /\ \A t \in Tids : \A u \in Tids :
       path[t] # << >> /\ path[t][1] \in {<<"lock", TraceMtx(u)>>, <<"unlock", TraceMtx(u)>>} => live[u]
  /\ \A t \in Tids : At(t, "destroy") => Holders(TraceMtx(t)) = {}

\* The mutexes of the run-time are taken in an order that cannot deadlock, and a
\* trace that a report reads stays (tsan_mutex.cc:31-136, tsan_rtl_report.cc:249).
LocksAreOrdered == TableIsAcyclic /\ NestingIsAllowed /\ NobodyWaitsInACircle /\ PickedTraceIsAlive

\* FindThread is called under thread_mtx (the assertion of tsan_rtl_report.cc:166).
FindThreadIsLocked == \A t \in Tids : At(t, "FindThread") => Holders(ThreadMtx) # {}
=============================================================================
