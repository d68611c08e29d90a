---------------------------- MODULE AsanThreads ----------------------------
(***************************************************************************)
(* The threads AddressSanitizer knows (asan_thread.cc,                     *)
(* asan_thread_registry.cc, the pthread_create interceptor) and the error  *)
(* report one of them prints before the process dies (asan_report.cc).     *)
(* A summary is never freed, its AsanThread is, so a report can name a     *)
(* thread that is gone.  Steps under AsanThreadRegistry::mu_ are atomic.   *)
(***************************************************************************)
EXTENDS Integers, FiniteSets, Sequences, TLC

CONSTANTS
  OSThreads,    \* threads of the process
  MainThread,   \* the one __asan_init runs on
  InvalidTid,   \* kInvalidTid
  FullHistory   \* flags()->print_full_thread_history

VARIABLES
  stage,        \* thread -> unborn, created, running, late (its AsanThread is
                \* destroyed, destructors still run), gone
  tsd,          \* thread -> the tid of the summary its TSD points to
  summary,      \* thread_summaries_: tid -> [os, thread, parent, announced]
  num_calls, reporting_thread_tid,   \* statics of ScopedInErrorReport
  report,       \* thread -> where it is in a report
  announced,    \* tids in the order the report describes them
  dead          \* "" or who ended the process and why

threadVars == <<stage, tsd, summary, num_calls, reporting_thread_tid, report,
                announced, dead>>

n_threads == Cardinality(DOMAIN summary)

\* GetCurrent: null when there is no TSD or the AsanThread is gone.
HasCurrent(t) == tsd[t] # InvalidTid /\ summary[tsd[t]].thread
GetCurrentTidOrInvalid(t) == IF HasCurrent(t) THEN tsd[t] ELSE InvalidTid

-----------------------------------------------------------------------------
(* Life of a thread.                                                       *)

NewSummary(u, parent) ==
  [os |-> u, thread |-> TRUE, parent |-> parent, announced |-> FALSE]

\* pthread_create: AsanThread::Create and RegisterThread come before the real
\* call, which may fail and leave the registered thread behind.
PthreadCreate(t, u) ==
  /\ dead = "" /\ report[t] = "none"
  /\ stage[t] \in {"running", "late"} /\ stage[u] = "unborn"
  /\ summary' = summary @@ (n_threads :> NewSummary(u, GetCurrentTidOrInvalid(t)))
  /\ stage' \in {[stage EXCEPT ![u] = "created"], [stage EXCEPT ![u] = "gone"]}
  /\ UNCHANGED <<tsd, num_calls, reporting_thread_tid, report, announced, dead>>

\* asan_thread_start: SetCurrent, then ThreadStart runs the start routine.
SetCurrent(u) ==
  /\ dead = "" /\ stage[u] = "created"
  /\ tsd' = [tsd EXCEPT ![u] = CHOOSE tid \in DOMAIN summary : summary[tid].os = u]
  /\ stage' = [stage EXCEPT ![u] = "running"]
  /\ UNCHANGED <<summary, num_calls, reporting_thread_tid, report, announced, dead>>

\* Destroy, from ThreadStart or from TSDDtor: UnregisterThread clears the
\* summary's thread.  The TSD destructor of a destroyed thread does nothing.
Destroy(t) ==
  /\ dead = "" /\ stage[t] = "running" /\ t # MainThread /\ report[t] = "none"
  /\ summary' = [summary EXCEPT ![tsd[t]].thread = FALSE]
  /\ stage' = [stage EXCEPT ![t] = "late"]
  /\ UNCHANGED <<tsd, num_calls, reporting_thread_tid, report, announced, dead>>

Exit(t) ==
  /\ dead = "" /\ stage[t] = "late" /\ report[t] = "none"
  /\ stage' = [stage EXCEPT ![t] = "gone"]
  /\ tsd' = [tsd EXCEPT ![t] = InvalidTid]
  /\ UNCHANGED <<summary, num_calls, reporting_thread_tid, report, announced, dead>>

-----------------------------------------------------------------------------
(* The error report.                                                       *)

\* A thread finds a bug, also while it reports one: the counter decides who
\* reports and who only dies.
FindBug(t) ==
  /\ dead = "" /\ stage[t] \in {"running", "late"} /\ report[t] \in {"none", "printing"}
  /\ num_calls < 3   \* bound on the bugs found
  /\ num_calls' = num_calls + 1
  /\ report' = [report EXCEPT ![t] = IF num_calls = 0 THEN "first" ELSE "another"]
  /\ UNCHANGED <<stage, tsd, summary, reporting_thread_tid, announced, dead>>

BugStartReport(t) ==
  /\ dead = "" /\ report[t] = "first"
  /\ reporting_thread_tid' = InvalidTid
  /\ report' = [report EXCEPT ![t] = "printing"]
  /\ UNCHANGED <<stage, tsd, summary, num_calls, announced, dead>>

StartReport(t) ==
  /\ dead = "" /\ report[t] = "first"
  /\ reporting_thread_tid' = GetCurrentTidOrInvalid(t)
  /\ report' = [report EXCEPT ![t] = "printing"]
  /\ UNCHANGED <<stage, tsd, summary, num_calls, announced, dead>>

\* "while reporting a bug found another one": a thread that is not the one
\* reporting sleeps, taken to be long enough for the report to finish.
AnotherBug(t) ==
  /\ dead = "" /\ report[t] = "another"
  /\ IF GetCurrentTidOrInvalid(t) # reporting_thread_tid
     THEN report' = [report EXCEPT ![t] = "sleeping"] /\ UNCHANGED dead
     ELSE dead' = "another bug" /\ UNCHANGED report
  /\ UNCHANGED <<stage, tsd, summary, num_calls, reporting_thread_tid, announced>>

\* DescribeThread of a tid and, with the full history, of its ancestors; a
\* missing ancestor is a CHECK in FindByTid.
Describe ==
  LET Ancestors[n \in 0 .. Cardinality(OSThreads), tid \in DOMAIN summary \cup {InvalidTid}] ==
        IF tid = InvalidTid THEN <<InvalidTid>>
        ELSE IF tid = 0 \/ summary[tid].announced \/ n = 0 THEN << >>
        ELSE <<tid>> \o (IF FullHistory THEN Ancestors[n - 1, summary[tid].parent] ELSE << >>)
  IN [tid \in DOMAIN summary |-> Ancestors[Cardinality(OSThreads), tid]]

\* Part of the report: the threads that made the accesses it is about.
DescribeThread(t) ==
  /\ dead = "" /\ report[t] = "printing"
  /\ \E tid \in DOMAIN summary :
       LET line == Describe[tid] IN
       /\ line # << >>
       /\ IF line[Len(line)] = InvalidTid
          THEN dead' = "CHECK(tid < n_threads_)" /\ UNCHANGED <<summary, announced>>
          ELSE /\ summary' = [i \in DOMAIN summary |->
                    IF \E j \in DOMAIN line : line[j] = i
                    THEN [summary[i] EXCEPT !.announced = TRUE] ELSE summary[i]]
               /\ announced' = announced \o line
               /\ UNCHANGED dead
  /\ UNCHANGED <<stage, tsd, num_calls, reporting_thread_tid, report>>

\* The destructor of ScopedInErrorReport announces the current thread and dies.
FinishReport(t) ==
  /\ dead = "" /\ report[t] = "printing"
  /\ LET line == IF HasCurrent(t) THEN Describe[tsd[t]] ELSE << >> IN
     IF line # << >> /\ line[Len(line)] = InvalidTid
     THEN dead' = "CHECK(tid < n_threads_)" /\ UNCHANGED announced
     ELSE dead' = "report printed" /\ announced' = announced \o line
  /\ UNCHANGED <<stage, tsd, summary, num_calls, reporting_thread_tid, report>>

ThreadsInit ==
  /\ stage = [t \in OSThreads |-> IF t = MainThread THEN "running" ELSE "unborn"]
  /\ tsd = [t \in OSThreads |-> IF t = MainThread THEN 0 ELSE InvalidTid]
  /\ summary = (0 :> NewSummary(MainThread, 0))
  /\ num_calls = 0 /\ reporting_thread_tid = 0
  /\ report = [t \in OSThreads |-> "none"]
  /\ announced = << >> /\ dead = ""

ThreadsNext ==
  \E t \in OSThreads :
    \/ \E u \in OSThreads : PthreadCreate(t, u)
    \/ SetCurrent(t) \/ Destroy(t) \/ Exit(t)
    \/ FindBug(t) \/ StartReport(t) \/ AnotherBug(t) \/ DescribeThread(t) \/ FinishReport(t)

-----------------------------------------------------------------------------
ThreadsTypeOK ==
  /\ DOMAIN summary = 0 .. n_threads - 1
  /\ \A t \in OSThreads : tsd[t] \in DOMAIN summary \cup {InvalidTid}
  /\ reporting_thread_tid \in DOMAIN summary \cup {InvalidTid}

\* A tid names one thread for good: every thread that runs finds its own
\* summary, and a parent's tid is known and older than its child's.
TidNamesThread ==
  /\ \A t \in OSThreads : stage[t] \in {"running", "late"} => summary[tsd[t]].os = t
  /\ \A i, j \in DOMAIN summary : summary[i].os = summary[j].os => i = j
  /\ \A i \in DOMAIN summary \ {0} :
       summary[i].parent = InvalidTid \/ summary[i].parent < i

\* A report describes a thread once, and a thread's creators after it.
AnnouncedOnce ==
  /\ \A i, j \in DOMAIN announced : announced[i] = announced[j] => i = j
  /\ FullHistory =>
       \A i \in DOMAIN announced :
         LET parent == summary[announced[i]].parent IN
         parent = 0 \/ \E j \in DOMAIN announced : announced[j] = parent

\* Once the first reporter has said who it is, nobody but that thread (finding
\* a bug in its own report) ends the process before the report is printed.
ReportIsPrinted ==
  [][dead' = "another bug" =>
       \A t \in OSThreads : report[t] \in {"first", "printing"} =>
         report[t] = "first" \/ GetCurrentTidOrInvalid(t) = InvalidTid]_threadVars
=============================================================================
