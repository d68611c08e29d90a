-------------------------- MODULE TsanInterceptors --------------------------
(***************************************************************************)
(* The wrappers of the synchronization functions                           *)
(* (lib/tsan/rtl/tsan_interceptors.cc).  A wrapper is a sequence of steps: *)
(* the real function, or its parts that block, and the clock operations    *)
(* before and after it.  truth and carried say what the real functions     *)
(* order: carried is what an object hands on.  Functions of one family     *)
(* work on one object; a program uses one family.                          *)
(***************************************************************************)
EXTENDS Integers, Sequences, FiniteSets, TLC

CONSTANTS
  Threads,
  BarrierCount,
  kMaxAtExit,
  MaxCalls       \* bound on the calls of a thread

VARIABLES
  family,        \* which functions the program uses
  clock, truth,  \* thread -> vector clock of tsan, and what is ordered before
  sync,          \* the object's SyncVar: its clock, and its read_clock
  carried,
  holder,        \* of the mutex, the guard or the once, 0 for none
  readers,       \* of the reader-writer lock
  state,         \* of the once or the guard 0, 1, 2; else a semaphore's value
  group, leaving,    \* threads at the barrier, or asleep on the condition
  atexit_stack,  \* who registered
  call,          \* thread -> steps left of its call
  calls

vars == <<family, clock, truth, sync, carried, holder, readers, state, group,
          leaving, atexit_stack, call, calls>>

-----------------------------------------------------------------------------
(* The wrappers.  "try" may fail and end the call.                         *)

Locking == [pthread_mutex_lock    |-> <<"lock", "wacquire">>,
            pthread_mutex_trylock |-> <<"trylock", "wacquire">>,
            pthread_mutex_unlock  |-> <<"store", "unlock">>]
Spinning == [pthread_spin_lock    |-> <<"lock", "wacquire">>,
             pthread_spin_trylock |-> <<"trylock", "wacquire">>,
             pthread_spin_unlock  |-> <<"store", "unlock">>]
Sharing == [pthread_rwlock_rdlock    |-> <<"rdlock", "acquire">>,
            pthread_rwlock_tryrdlock |-> <<"tryrdlock", "acquire">>,
            pthread_rwlock_wrlock    |-> <<"lock", "wacquire">>,
            pthread_rwlock_trywrlock |-> <<"trylock", "wacquire">>,
            pthread_rwlock_unlock    |-> <<"rwrelease", "rwunlock">>]
Waiting == [pthread_cond_wait      |-> <<"store", "sleep", "lock", "wacquire">>,
            pthread_cond_signal    |-> <<"signal">>,
            pthread_cond_broadcast |-> <<"broadcast">>]
BugPosting == [sem_post |-> <<"post", "release">>, sem_wait |-> <<"take", "acquire">>]
Posting == [sem_post |-> <<"release", "post">>, sem_wait |-> <<"take", "acquire">>,
            sem_trywait |-> <<"trytake", "acquire">>]
\* All descriptors have one address, and so have all paths (fd2addr, file2addr).
Reading == [read |-> <<"take", "acquire">>, recv |-> <<"take", "acquire">>,
            fopen |-> <<"take", "acquire">>, opendir |-> <<"take", "acquire">>,
            epoll_wait |-> <<"trytake", "acquire">>]
Writing == [write |-> <<"release", "post">>, send |-> <<"release", "post">>,
            unlink |-> <<"release", "post">>, rmdir |-> <<"release", "post">>,
            epoll_ctl |-> <<"release", "post">>]
Barrier == [pthread_barrier_wait |-> <<"release", "arrive", "leave", "acquire">>]
Once == [pthread_once |-> <<"once", "acquire">>]
Guard == [cxa_guard_acquire |-> <<"guard", "acquire">>,
          cxa_guard_release |-> <<"release", "guarded">>]
AtExit == [atexit |-> <<"register">>, exit |-> <<"run">>]

Families == [mutex |-> Locking, spin |-> Spinning, rwlock |-> Sharing, semaphore |-> Posting,
             file |-> Reading @@ Writing, condition |-> Locking @@ Waiting,
             barrier |-> Barrier, once |-> Once, guard |-> Guard, atexit |-> AtExit]

-----------------------------------------------------------------------------
Zero == [u \in Threads |-> 0]
Upper(c, d) == [u \in Threads |-> IF c[u] > d[u] THEN c[u] ELSE d[u]]
Below(c, d) == \A u \in Threads : c[u] <= d[u]
Nobody == 0

\* Which calls a program may make.
MayCall(t, fn) ==
  CASE fn = "pthread_rwlock_unlock" -> holder = t \/ t \in readers
    [] fn \in {"pthread_mutex_unlock", "pthread_spin_unlock", "pthread_cond_wait", "cxa_guard_release"} -> holder = t
    [] fn \in DOMAIN Locking \cup DOMAIN Spinning \cup DOMAIN Sharing \cup {"cxa_guard_acquire"} ->
         holder # t /\ t \notin readers
    [] OTHER -> TRUE

Call(t) ==
  /\ call[t] = << >> /\ calls[t] < MaxCalls /\ calls' = [calls EXCEPT ![t] = @ + 1]
  /\ clock' = [clock EXCEPT ![t][t] = @ + 1] /\ truth' = [truth EXCEPT ![t][t] = @ + 1]
  /\ \E fn \in DOMAIN Families[family] :
       MayCall(t, fn) /\ call' = [call EXCEPT ![t] = Families[family][fn]]
  /\ UNCHANGED <<family, sync, carried, holder, readers, state, group, leaving, atexit_stack>>

At(t, steps) == call[t] # << >> /\ call[t][1] \in steps
Done(t) == call' = [call EXCEPT ![t] = Tail(@)]
Return(t) == call' = [call EXCEPT ![t] = << >>]
\* A reader's unlock is ordered before a later writer only.
HandOver(t) == carried' = [carried EXCEPT !.write = Upper(@, truth[t])]
Receive(t) == truth' = [truth EXCEPT ![t] = Upper(@, carried.write)]
ReceiveAll(t) == truth' = [truth EXCEPT ![t] = Upper(Upper(@, carried.write), carried.read)]

\* Release, the ReleaseStore of MutexUnlock, and MutexReadOrWriteUnlock.
Release(t) ==
  LET step == call[t][1] IN
  /\ At(t, {"release", "store", "rwrelease"}) /\ Done(t)
  /\ sync' = CASE step = "release" -> [sync EXCEPT !.write = Upper(@, clock[t])]
              [] step = "rwrelease" /\ holder # t -> [sync EXCEPT !.read = Upper(@, clock[t])]
              [] OTHER -> [sync EXCEPT !.write = clock[t]]
  /\ UNCHANGED <<family, clock, truth, carried, holder, readers, state, group, leaving, atexit_stack, calls>>
\* Acquire and MutexReadLock; MutexLock takes over both clocks.
Acquire(t) ==
  /\ At(t, {"acquire", "wacquire"}) /\ Done(t)
  /\ clock' = [clock EXCEPT ![t] = IF call[t][1] = "acquire" THEN Upper(@, sync.write)
                                   ELSE Upper(Upper(@, sync.write), sync.read)]
  /\ UNCHANGED <<family, truth, sync, carried, holder, readers, state, group, leaving, atexit_stack, calls>>

(* The real functions.                                                     *)

Lock(t) ==
  /\ At(t, {"lock", "trylock"}) /\ holder = Nobody /\ readers = {} /\ t \notin group
  /\ holder' = t /\ ReceiveAll(t) /\ Done(t)
  /\ UNCHANGED <<family, clock, sync, carried, readers, state, group, leaving, atexit_stack, calls>>
ReadLock(t) ==
  /\ At(t, {"rdlock", "tryrdlock"}) /\ holder = Nobody
  /\ readers' = readers \cup {t} /\ Receive(t) /\ Done(t)
  /\ UNCHANGED <<family, clock, sync, carried, holder, state, group, leaving, atexit_stack, calls>>
TryFails(t) ==
  /\ At(t, {"trylock", "tryrdlock", "trytake"})
  /\ CASE call[t][1] = "trylock" -> holder # Nobody \/ readers # {}
       [] call[t][1] = "tryrdlock" -> holder # Nobody
       [] OTHER -> state = 0
  /\ Return(t)
  /\ UNCHANGED <<family, clock, truth, sync, carried, holder, readers, state, group, leaving, atexit_stack, calls>>
Unlock(t) ==
  /\ At(t, {"unlock", "sleep"}) /\ holder' = Nobody /\ HandOver(t) /\ Done(t)
  /\ group' = IF call[t][1] = "sleep" THEN group \cup {t} ELSE group
  /\ UNCHANGED <<family, clock, truth, sync, readers, state, leaving, atexit_stack, calls>>
ReadWriteUnlock(t) ==
  /\ At(t, {"rwunlock"}) /\ Done(t)
  /\ IF holder = t THEN holder' = Nobody /\ HandOver(t) /\ UNCHANGED readers
     ELSE /\ readers' = readers \ {t} /\ UNCHANGED holder
          /\ carried' = [carried EXCEPT !.read = Upper(@, truth[t])]
  /\ UNCHANGED <<family, clock, truth, sync, state, group, leaving, atexit_stack, calls>>
Signal(t) ==
  /\ At(t, {"signal", "broadcast"}) /\ Done(t)
  /\ IF group = {} \/ call[t][1] = "broadcast" THEN group' = {}
     ELSE \E u \in group : group' = group \ {u}
  /\ UNCHANGED <<family, clock, truth, sync, carried, holder, readers, state, leaving, atexit_stack, calls>>

Post(t) ==
  /\ At(t, {"post"}) /\ state' = state + 1 /\ HandOver(t) /\ Done(t)
  /\ UNCHANGED <<family, clock, truth, sync, holder, readers, group, leaving, atexit_stack, calls>>
Take(t) ==
  /\ At(t, {"take", "trytake"}) /\ state > 0 /\ state' = state - 1 /\ Receive(t) /\ Done(t)
  /\ UNCHANGED <<family, clock, sync, carried, holder, readers, group, leaving, atexit_stack, calls>>

\* A round ends when BarrierCount threads came; the next may begin at once.
Arrive(t) ==
  LET full == Cardinality(group) + 1 = BarrierCount IN
  /\ At(t, {"arrive"}) /\ leaving = {} /\ HandOver(t) /\ Done(t)
  /\ group' = IF full THEN {} ELSE group \cup {t}
  /\ leaving' = IF full THEN group \cup {t} ELSE leaving
  /\ UNCHANGED <<family, clock, truth, sync, holder, readers, state, atexit_stack, calls>>
Leave(t) ==
  /\ At(t, {"leave"}) /\ t \in leaving /\ leaving' = leaving \ {t} /\ Receive(t) /\ Done(t)
  /\ UNCHANGED <<family, clock, sync, carried, holder, readers, state, group, atexit_stack, calls>>

\* pthread_once is the wrapper's own: the thread that moves the control from 0
\* to 1 calls the function and releases before 2; the others wait for 2.
OnceBegins(t) ==
  /\ At(t, {"once"}) /\ state = 0 /\ state' = 1
  /\ call' = [call EXCEPT ![t] = <<"release", "initialized">>]
  /\ UNCHANGED <<family, clock, truth, sync, carried, holder, readers, group, leaving, atexit_stack, calls>>
OnceEnds(t) ==
  /\ At(t, {"initialized"}) /\ state' = 2 /\ HandOver(t) /\ Done(t)
  /\ UNCHANGED <<family, clock, truth, sync, holder, readers, group, leaving, atexit_stack, calls>>
SeesOnce(t) ==
  /\ At(t, {"once"}) /\ state = 2 /\ Receive(t) /\ Done(t)
  /\ UNCHANGED <<family, clock, sync, carried, holder, readers, state, group, leaving, atexit_stack, calls>>

\* The guard of a static variable: its first taker initializes, others wait.
GuardTaken(t) ==
  /\ At(t, {"guard"}) /\ state = 0 /\ state' = 1 /\ holder' = t /\ Return(t)
  /\ UNCHANGED <<family, clock, truth, sync, carried, readers, group, leaving, atexit_stack, calls>>
SeesGuard(t) ==
  /\ At(t, {"guard"}) /\ state = 2 /\ Receive(t) /\ Done(t)
  /\ UNCHANGED <<family, clock, sync, carried, holder, readers, state, group, leaving, atexit_stack, calls>>
GuardReleased(t) ==
  /\ At(t, {"guarded"}) /\ state' = 2 /\ holder' = Nobody /\ HandOver(t) /\ Done(t)
  /\ UNCHANGED <<family, clock, truth, sync, readers, group, leaving, atexit_stack, calls>>

\* AtExitContext, under its mutex: a function is registered with a release, and
\* run, the last first, after an acquire.
Register(t) ==
  /\ At(t, {"register"}) /\ Done(t)
  /\ IF Len(atexit_stack) = kMaxAtExit THEN UNCHANGED <<sync, carried, atexit_stack>>
     ELSE /\ sync' = [sync EXCEPT !.write = Upper(@, clock[t])] /\ HandOver(t)
          /\ atexit_stack' = Append(atexit_stack, t)
  /\ UNCHANGED <<family, clock, truth, holder, readers, state, group, leaving, calls>>
RunAtExit(t) ==
  /\ At(t, {"run"})
  /\ IF atexit_stack = << >> THEN Return(t) /\ UNCHANGED <<clock, truth, atexit_stack>>
     ELSE /\ atexit_stack' = SubSeq(atexit_stack, 1, Len(atexit_stack) - 1)
          /\ clock' = [clock EXCEPT ![t] = Upper(@, sync.write)] /\ Receive(t)
          /\ UNCHANGED call
  /\ UNCHANGED <<family, sync, carried, holder, readers, state, group, leaving, calls>>

-----------------------------------------------------------------------------
InterceptorsInit ==
  /\ family \in DOMAIN Families
  /\ clock = [t \in Threads |-> Zero] /\ truth = [t \in Threads |-> Zero]
  /\ sync = [write |-> Zero, read |-> Zero] /\ carried = [write |-> Zero, read |-> Zero]
  /\ holder = Nobody /\ readers = {} /\ state = 0
  /\ group = {} /\ leaving = {} /\ atexit_stack = << >>
  /\ call = [t \in Threads |-> << >>] /\ calls = [t \in Threads |-> 0]

InterceptorsNext ==
  \E t \in Threads :
    \/ Call(t) \/ Release(t) \/ Acquire(t)
    \/ Lock(t) \/ ReadLock(t) \/ TryFails(t) \/ Unlock(t) \/ ReadWriteUnlock(t) \/ Signal(t) \/ Post(t) \/ Take(t)
    \/ Arrive(t) \/ Leave(t) \/ OnceBegins(t) \/ OnceEnds(t) \/ SeesOnce(t)
    \/ GuardTaken(t) \/ SeesGuard(t) \/ GuardReleased(t) \/ Register(t) \/ RunAtExit(t)

\* What the real functions order before a thread's next step, its clock knows:
\* no race is reported between accesses that they order.
OrderIsSeen == \A t \in Threads : call[t] = << >> => Below(truth[t], clock[t])
=============================================================================
