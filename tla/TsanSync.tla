------------------------------ MODULE TsanSync ------------------------------
(***************************************************************************)
(* Where ThreadSanitizer keeps the SyncVar of an address                   *)
(* (lib/tsan/rtl/tsan_sync.cc, tsan_mman.cc): in the list of its heap      *)
(* block, or in one of the lists of SyncTab.  A thread that wants one      *)
(* searches its list under the list's mutex and locks the SyncVar before   *)
(* it lets that go; one that removes it unlinks it first and then waits    *)
(* for its last user.  SyncVars are memory that is used again.             *)
(***************************************************************************)
EXTENDS Integers, Sequences, FiniteSets, SequencesExt

CONSTANTS
  Threads,
  Addrs,        \* of synchronization objects
  Lists,        \* parts of the table and heap blocks
  ListOf,       \* address -> its list
  Blocks,       \* the lists that are heap blocks
  Vars,         \* memory for SyncVars
  MaxOps        \* bound on calls

\* 0 is the address of no object.
ASSUME SyncAssumption ==
  0 \notin Addrs /\ ListOf \in [Addrs -> Lists] /\ Blocks \subseteq Lists

VARIABLES
  list,          \* list -> sequence of SyncVars, head first
  var_addr,      \* SyncVar -> address, or 0: it is free memory
  linker_init,   \* SyncVar -> is_linker_init
  list_mtx,      \* list -> [writer, readers] : sets of threads
  var_mtx,       \* SyncVar -> the same
  at,            \* thread -> where its call is
  ops            \* how many calls there were

vars == <<list, var_addr, linker_init, list_mtx, var_mtx, at, ops>>

Unlocked == [writer |-> {}, readers |-> {}]
Idle == [in |-> "idle"]

CanLock(m) == m.writer = {} /\ m.readers = {}
CanReadLock(m) == m.writer = {}
Locked(m, t, write) ==
  IF write THEN [m EXCEPT !.writer = {t}] ELSE [m EXCEPT !.readers = @ \cup {t}]
Released(m, t) == [writer |-> m.writer \ {t}, readers |-> m.readers \ {t}]

Found(l, addr) == {v \in ToSet(list[l]) : var_addr[v] = addr}

-----------------------------------------------------------------------------
(* GetAndLock.                                                             *)

\* MutexCreate asks for the SyncVar like this and sets is_linker_init.
CallGetAndLock(t) ==
  /\ at[t] = Idle /\ ops < MaxOps
  /\ \E addr \in Addrs, write \in BOOLEAN, create \in BOOLEAN :
       /\ create => write
       /\ at' = [at EXCEPT ![t] =
            [in |-> IF ListOf[addr] \in Blocks THEN "insert" ELSE "search",
             addr |-> addr, write |-> write, create |-> create]]
  /\ ops' = ops + 1
  /\ UNCHANGED <<list, var_addr, linker_init, list_mtx, var_mtx>>

\* Of the table: under the part's mutex for reading first.
Search(t) ==
  LET l == ListOf[at[t].addr] found == Found(l, at[t].addr) IN
  /\ at[t].in = "search" /\ CanReadLock(list_mtx[l])
  /\ IF found = {} THEN at' = [at EXCEPT ![t].in = "insert"] /\ UNCHANGED list_mtx
     ELSE /\ list_mtx' = [list_mtx EXCEPT ![l] = Locked(@, t, FALSE)]
          /\ \E v \in found : at' = [at EXCEPT ![t] =
               [in |-> "lock", var |-> v, addr |-> @.addr, write |-> @.write, create |-> @.create]]
  /\ UNCHANGED <<list, var_addr, linker_init, var_mtx, ops>>

\* Searched again under the mutex, and added while there is memory.
Insert(t) ==
  LET addr == at[t].addr
      l == ListOf[addr]
      GoOn(v) == at' = [at EXCEPT ![t] =
        [in |-> "lock", var |-> v, addr |-> addr, write |-> @.write, create |-> @.create]]
  IN
  /\ at[t].in = "insert" /\ CanLock(list_mtx[l])
  /\ list_mtx' = [list_mtx EXCEPT ![l] = Locked(@, t, TRUE)]
  /\ \/ /\ Found(l, addr) # {} /\ \E v \in Found(l, addr) : GoOn(v)
        /\ UNCHANGED <<list, var_addr, linker_init>>
     \/ /\ Found(l, addr) = {} /\ \E x \in Vars : var_addr[x] = 0
        /\ LET v == CHOOSE x \in Vars : var_addr[x] = 0 IN
           /\ GoOn(v)
           /\ var_addr' = [var_addr EXCEPT ![v] = addr]
           /\ linker_init' = [linker_init EXCEPT ![v] = FALSE]
           /\ list' = [list EXCEPT ![l] = <<v>> \o @]
  /\ UNCHANGED <<var_mtx, ops>>

\* The SyncVar is locked, and only then is its list let go.
BugLockVar(t) ==
  LET v == at[t].var l == ListOf[at[t].addr] IN
  /\ at[t].in = "lock"
  /\ \/ /\ IF at[t].write THEN CanLock(var_mtx[v]) ELSE CanReadLock(var_mtx[v])
        /\ var_mtx' = [var_mtx EXCEPT ![v] = Locked(@, t, at[t].write)]
        /\ list_mtx' = [list_mtx EXCEPT ![l] = Released(@, t)]
        /\ at' = [at EXCEPT ![t].in = "use"]
     \/ /\ t \in list_mtx[l].readers
        /\ list_mtx' = [list_mtx EXCEPT ![l] = Released(@, t)]
        /\ UNCHANGED <<at, var_mtx>>
  /\ UNCHANGED <<list, var_addr, linker_init, ops>>
LockVar(t) ==
  LET v == at[t].var l == ListOf[at[t].addr] IN
  /\ at[t].in = "lock"
  /\ IF at[t].write THEN CanLock(var_mtx[v]) ELSE CanReadLock(var_mtx[v])
  /\ var_mtx' = [var_mtx EXCEPT ![v] = Locked(@, t, at[t].write)]
  /\ list_mtx' = [list_mtx EXCEPT ![l] = Released(@, t)]
  /\ at' = [at EXCEPT ![t].in = "use"]
  /\ UNCHANGED <<list, var_addr, linker_init, ops>>

\* The handler is done with it.
Unlock(t) ==
  LET v == at[t].var IN
  /\ at[t].in = "use"
  /\ var_mtx' = [var_mtx EXCEPT ![v] = Released(@, t)]
  /\ linker_init' = [linker_init EXCEPT ![v] =
       IF at[t].create THEN ListOf[at[t].addr] \notin Blocks ELSE @]
  /\ at' = [at EXCEPT ![t] = Idle]
  /\ UNCHANGED <<list, var_addr, list_mtx, ops>>

-----------------------------------------------------------------------------
(* GetAndRemove, for MutexDestroy.                                         *)

Unlink(t) ==
  /\ at[t] = Idle /\ ops < MaxOps
  /\ \E addr \in Addrs :
       LET l == ListOf[addr] IN
       /\ CanLock(list_mtx[l])
       /\ \E i \in DOMAIN list[l] :
            /\ var_addr[list[l][i]] = addr /\ ~linker_init[list[l][i]]
            /\ list' = [list EXCEPT ![l] = RemoveAt(@, i)]
            /\ at' = [at EXCEPT ![t] = [in |-> "drain", var |-> list[l][i]]]
  /\ ops' = ops + 1
  /\ UNCHANGED <<var_addr, linker_init, list_mtx, var_mtx>>

\* Locked and unlocked, then destroyed and freed.
Drain(t) ==
  LET v == at[t].var IN
  /\ at[t].in = "drain" /\ CanLock(var_mtx[v])
  /\ var_addr' = [var_addr EXCEPT ![v] = 0]
  /\ at' = [at EXCEPT ![t] = Idle]
  /\ UNCHANGED <<list, linker_init, list_mtx, var_mtx, ops>>

-----------------------------------------------------------------------------
(* user_free: the SyncVars of a block, each drained under its mutex.       *)

CallFree(t) ==
  /\ at[t] = Idle /\ ops < MaxOps
  /\ \E b \in Blocks :
       /\ list[b] # << >>                \* read without the mutex
       /\ at' = [at EXCEPT ![t] = [in |-> "free", block |-> b]]
  /\ ops' = ops + 1
  /\ UNCHANGED <<list, var_addr, linker_init, list_mtx, var_mtx>>

LockBlock(t) ==
  /\ at[t].in = "free" /\ CanLock(list_mtx[at[t].block])
  /\ list_mtx' = [list_mtx EXCEPT ![at[t].block] = Locked(@, t, TRUE)]
  /\ at' = [at EXCEPT ![t] = [in |-> "sweep", block |-> @.block, rest |-> list[@.block]]]
  /\ UNCHANGED <<list, var_addr, linker_init, var_mtx, ops>>

SweepNext(t) ==
  LET v == at[t].rest[1] IN
  /\ at[t].in = "sweep" /\ at[t].rest # << >> /\ CanLock(var_mtx[v])
  /\ var_addr' = [var_addr EXCEPT ![v] = 0]
  /\ at' = [at EXCEPT ![t].rest = Tail(@)]
  /\ UNCHANGED <<list, linker_init, list_mtx, var_mtx, ops>>

SweepEnd(t) ==
  /\ at[t].in = "sweep" /\ at[t].rest = << >>
  /\ list' = [list EXCEPT ![at[t].block] = << >>]
  /\ list_mtx' = [list_mtx EXCEPT ![at[t].block] = Released(@, t)]
  /\ at' = [at EXCEPT ![t] = Idle]
  /\ UNCHANGED <<var_addr, linker_init, var_mtx, ops>>

SyncInit ==
  /\ list = [l \in Lists |-> << >>] /\ var_addr = [v \in Vars |-> 0]
  /\ linker_init = [v \in Vars |-> FALSE]
  /\ list_mtx = [l \in Lists |-> Unlocked] /\ var_mtx = [v \in Vars |-> Unlocked]
  /\ at = [t \in Threads |-> Idle] /\ ops = 0

Continue(t) ==
  Search(t) \/ Insert(t) \/ LockVar(t) \/ Unlock(t) \/ Drain(t)
  \/ LockBlock(t) \/ SweepNext(t) \/ SweepEnd(t)
SyncNext == \E t \in Threads :
  CallGetAndLock(t) \/ Unlink(t) \/ CallFree(t) \/ Continue(t)
SyncSpec == SyncInit /\ [][SyncNext]_vars

-----------------------------------------------------------------------------
\* A SyncVar that a thread locks, waits for or uses is that of its address, and
\* not memory that was freed or given to another address.
UsedVarIsAlive ==
  \A t \in Threads :
    /\ at[t].in \in {"lock", "use"} => var_addr[at[t].var] = at[t].addr
    /\ at[t].in = "drain" => var_addr[at[t].var] # 0

Sweeping(l) == {t \in Threads : at[t].in = "sweep" /\ at[t].block = l}

\* An address has one SyncVar, in its own list, unless the list is being swept.
OneVarPerAddress ==
  \A l \in Lists :
    /\ IsInjective(list[l])
    /\ Sweeping(l) = {} =>
         /\ \A v \in ToSet(list[l]) : var_addr[v] # 0 /\ ListOf[var_addr[v]] = l
         /\ \A v, w \in ToSet(list[l]) : var_addr[v] = var_addr[w] => v = w

\* Two threads handle one object at a time only for reading, unless it is being
\* destroyed.
HandlersExclude ==
  \A t, u \in Threads :
    t # u /\ at[t].in = "use" /\ at[u].in = "use" /\ at[t].addr = at[u].addr =>
      \/ ~at[t].write /\ ~at[u].write
      \/ at[t].var # at[u].var
         /\ {at[t].var, at[u].var} \ ToSet(list[ListOf[at[t].addr]]) # {}

\* The mutexes of lists and SyncVars do not make threads wait for each other.
NoCircularWait ==
  (\E t \in Threads : at[t] # Idle) =>
    \E t \in Threads :
      CASE at[t].in = "search" -> CanReadLock(list_mtx[ListOf[at[t].addr]])
        [] at[t].in = "insert" -> CanLock(list_mtx[ListOf[at[t].addr]])
        [] at[t].in = "lock" -> IF at[t].write THEN CanLock(var_mtx[at[t].var])
                                ELSE CanReadLock(var_mtx[at[t].var])
        [] at[t].in = "drain" -> CanLock(var_mtx[at[t].var])
        [] at[t].in = "free" -> CanLock(list_mtx[at[t].block])
        [] at[t].in = "sweep" -> at[t].rest = << >> \/ CanLock(var_mtx[at[t].rest[1]])
        [] OTHER -> at[t].in = "use"

\* A SyncVar that a thread locks, waits for or uses belongs to its address and is
\* not freed, an address has one, and nobody waits in a circle (tsan_sync.cc:50-167,
\* tsan_mman.cc:80-91).
SyncVarsAreSound == UsedVarIsAlive /\ OneVarPerAddress /\ HandlersExclude /\ NoCircularWait
=============================================================================
