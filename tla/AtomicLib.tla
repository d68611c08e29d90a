------------------------------ MODULE AtomicLib ------------------------------
(***************************************************************************)
(* lib/atomic.c: the library behind C11 atomics that the compiler does not *)
(* inline.  An operation on an object whose size is lock-free is one       *)
(* machine instruction; any other takes the spinlock that the object's     *)
(* address hashes to and moves the object byte by byte.  The generic calls *)
(* (__atomic_load, _store, _exchange, _compare_exchange with a size        *)
(* argument) and the sized ones (__atomic_load_1 ... _8, and fetch_<op>_n) *)
(* decide separately which sizes are lock-free.                            *)
(***************************************************************************)
EXTENDS Integers

CONSTANTS
  Thread, Object,
  SizeOf,       \* SizeOf[o] = the size of the object in bytes
  Lock,         \* locks[SPINLOCK_COUNT]
  LockFor,      \* LockFor[o] = lock_for_pointer(&o)
  LockFree,     \* the n with IS_LOCK_FREE_n
  Calls,        \* the calls the program makes: [op, api, obj, val, exp] records
  NoCall, NoResult

Byte == 0 .. 1
Bytes(o) == 1 .. SizeOf[o]
Operation == {"load", "store", "exchange", "cas", "fetch"}
Answers == [ok : BOOLEAN, got : {<<>>} \cup UNION {[Bytes(o) -> Byte] : o \in Object}]

\* A target with an n-byte instruction has the narrower ones too, so no case of
\* LOCK_FREE_CASES falls through to a wider type.  A call passes values of the
\* size of its object.
ASSUME AtomicAssumption ==
  /\ SizeOf \in [Object -> Nat \ {0}]
  /\ LockFor \in [Object -> Lock]
  /\ LockFree \subseteq {1, 2, 4, 8}
  /\ \A m, n \in {1, 2, 4, 8} : m <= n /\ n \in LockFree => m \in LockFree
  /\ \A c \in Calls :
       /\ c.op \in Operation /\ c.api \in {"generic", "sized"} /\ c.obj \in Object
       /\ c.val \in [Bytes(c.obj) -> Byte] /\ c.exp \in [Bytes(c.obj) -> Byte]
  /\ NoCall \notin Calls /\ NoResult \notin Answers

VARIABLES
  memory,      \* memory[o][i]: the bytes of each object
  taken,       \* the word of each lock
  pc, reg      \* each thread's position and local variables

vars == <<memory, taken, pc, reg>>

Xor(v, w) == [i \in DOMAIN v |-> (v[i] + w[i]) % 2]

\* Whether a call bypasses the locks.  LOCK_FREE_CASES has no case 1.
BypassesLock(c) ==
  LET n == SizeOf[c.obj] IN n \in LockFree /\ (c.api = "sized" \/ n \in {2, 4, 8})

Goto(t, label) == pc' = [pc EXCEPT ![t] = label]
Obj(t) == reg[t].call.obj
Op(t)  == reg[t].call.op

\* The locals of an operation: the next byte to move, the bytes read so far, the
\* value to write, and what the object held when the lock was taken (history).
NoLocals == [call |-> NoCall, i |-> 1, got |-> <<>>, ok |-> TRUE, before |-> <<>>]

Init ==
  /\ memory = [o \in Object |-> [i \in Bytes(o) |-> 0]]
  /\ taken = [l \in Lock |-> FALSE]
  /\ pc = [t \in Thread |-> "idle"]
  /\ reg = [t \in Thread |-> NoLocals]

Enter(t, c) ==
  /\ pc[t] = "idle"
  /\ reg' = [reg EXCEPT ![t].call = c]
  /\ Goto(t, IF BypassesLock(c) THEN "direct" ELSE "lock")
  /\ UNCHANGED <<memory, taken>>

Leave(t) ==
  /\ pc[t] = "done"
  /\ reg' = [reg EXCEPT ![t] = NoLocals]
  /\ Goto(t, "idle")
  /\ UNCHANGED <<memory, taken>>

-----------------------------------------------------------------------------
(* The lock-free actions.                                                   *)

Finish(t, ok, got) ==
  /\ reg' = [reg EXCEPT ![t].ok = ok, ![t].got = got]
  /\ Goto(t, "done")

DirectLoad(t) == Op(t) = "load" /\ Finish(t, TRUE, memory[Obj(t)]) /\ UNCHANGED memory

\* The generic call stores *dest, the sized one its argument.
DirectStore(t) ==
  LET stored == IF reg[t].call.api = "generic" THEN memory[Obj(t)] ELSE reg[t].call.val IN
  /\ Op(t) = "store"
  /\ memory' = [memory EXCEPT ![Obj(t)] = stored]
  /\ Finish(t, TRUE, <<>>)

DirectExchange(t) ==
  /\ Op(t) = "exchange"
  /\ memory' = [memory EXCEPT ![Obj(t)] = reg[t].call.val]
  /\ Finish(t, TRUE, memory[Obj(t)])

DirectCompareExchange(t) ==
  /\ Op(t) = "cas"
  /\ \/ /\ memory[Obj(t)] = reg[t].call.exp
        /\ memory' = [memory EXCEPT ![Obj(t)] = reg[t].call.val]
        /\ Finish(t, TRUE, <<>>)
     \/ /\ memory[Obj(t)] # reg[t].call.exp
        /\ Finish(t, FALSE, memory[Obj(t)])
        /\ UNCHANGED memory

DirectFetchOp(t) ==
  /\ Op(t) = "fetch"
  /\ memory' = [memory EXCEPT ![Obj(t)] = Xor(@, reg[t].call.val)]
  /\ Finish(t, TRUE, memory[Obj(t)])

Direct(t) ==
  /\ pc[t] = "direct"
  /\ DirectLoad(t) \/ DirectStore(t) \/ DirectExchange(t) \/ DirectCompareExchange(t)
       \/ DirectFetchOp(t)
  /\ UNCHANGED taken

-----------------------------------------------------------------------------
(* The locked path: compare, read, write, unlock, one byte at a time.        *)

FirstPhase(op) == CASE op = "cas" -> "compare" [] op = "store" -> "write" [] OTHER -> "read"

AcquireLock(t) ==
  /\ pc[t] = "lock"
  /\ ~taken[LockFor[Obj(t)]]
  /\ taken' = [taken EXCEPT ![LockFor[Obj(t)]] = TRUE]
  /\ reg' = [reg EXCEPT ![t].before = memory[Obj(t)]]
  /\ Goto(t, FirstPhase(Op(t)))
  /\ UNCHANGED memory

\* The phase goes on with the next byte, or, after the last, to another phase.
Advance(t, next, set) ==
  LET last == reg[t].i = SizeOf[Obj(t)] IN
  /\ reg' = [reg EXCEPT ![t] = [set EXCEPT !.i = IF last THEN 1 ELSE @ + 1]]
  /\ IF last THEN Goto(t, next) ELSE UNCHANGED pc

\* memcmp(ptr, expected, size): stops at the first difference.
CompareByte(t) ==
  /\ pc[t] = "compare"
  /\ \/ /\ memory[Obj(t)][reg[t].i] = reg[t].call.exp[reg[t].i]
        /\ Advance(t, "write", reg[t])
     \/ /\ memory[Obj(t)][reg[t].i] # reg[t].call.exp[reg[t].i]
        /\ reg' = [reg EXCEPT ![t].ok = FALSE, ![t].i = 1]
        /\ Goto(t, "read")
  /\ UNCHANGED <<memory, taken>>

\* An operation that reads and writes gives the lock up in between.
BugReadUnlocks(t) ==
  LET next == IF Op(t) \in {"load", "cas"} THEN "unlock" ELSE "write"
      got  == [i \in 1 .. reg[t].i |->
                 IF i = reg[t].i THEN memory[Obj(t)][i] ELSE reg[t].got[i]]
  IN
  /\ pc[t] = "read" /\ Advance(t, next, [reg[t] EXCEPT !.got = got])
  /\ taken' = [taken EXCEPT ![LockFor[Obj(t)]] = ~(reg[t].i = SizeOf[Obj(t)] /\ next = "write")]
  /\ UNCHANGED memory

\* memcpy out of the object: to dest, old, expected or tmp.
ReadByte(t) ==
  LET next == IF Op(t) \in {"load", "cas"} THEN "unlock" ELSE "write"
      got  == [i \in 1 .. reg[t].i |->
                 IF i = reg[t].i THEN memory[Obj(t)][i] ELSE reg[t].got[i]]
  IN
  /\ pc[t] = "read"
  /\ Advance(t, next, [reg[t] EXCEPT !.got = got])
  /\ UNCHANGED <<memory, taken>>

\* memcpy into the object, or *ptr = tmp op val.
WriteByte(t) ==
  LET new == IF Op(t) = "fetch" THEN Xor(reg[t].got, reg[t].call.val) ELSE reg[t].call.val IN
  /\ pc[t] = "write"
  /\ memory' = [memory EXCEPT ![Obj(t)][reg[t].i] = new[reg[t].i]]
  /\ Advance(t, "unlock", reg[t])
  /\ UNCHANGED taken

\* A compare-exchange that failed returns without the unlock of line 192.
BugFailureKeepsLock(t) ==
  /\ pc[t] = "unlock"
  /\ taken' = [taken EXCEPT ![LockFor[Obj(t)]] = ~reg[t].ok]
  /\ Goto(t, "done")
  /\ UNCHANGED <<memory, reg>>

Unlock(t) ==
  /\ pc[t] = "unlock"
  /\ taken' = [taken EXCEPT ![LockFor[Obj(t)]] = FALSE]
  /\ Goto(t, "done")
  /\ UNCHANGED <<memory, reg>>

-----------------------------------------------------------------------------
Continue(t) ==
  \/ Direct(t) \/ AcquireLock(t) \/ CompareByte(t) \/ ReadByte(t) \/ WriteByte(t)
  \/ Unlock(t) \/ Leave(t)

Next == \E t \in Thread : Continue(t) \/ \E c \in Calls : Enter(t, c)

Spec == Init /\ [][Next]_vars

\* A thread inside a call is eventually scheduled.
FairSpec == Spec /\ \A t \in Thread : WF_vars(Continue(t))

-----------------------------------------------------------------------------
InSection == {"compare", "read", "write", "unlock"}
Label == {"idle", "direct", "lock", "done"} \cup InSection

\* Bytes stay bytes, and a thread's locals have the shapes the phases need.
TypeOK ==
  /\ \A o \in Object : memory[o] \in [Bytes(o) -> Byte]
  /\ taken \in [Lock -> BOOLEAN]
  /\ pc \in [Thread -> Label]
  /\ \A t \in Thread : pc[t] # "idle" =>
       /\ reg[t].call \in Calls
       /\ reg[t].i \in Bytes(Obj(t))
       /\ (\E n \in 0 .. SizeOf[Obj(t)] : reg[t].got \in [1 .. n -> Byte])

\* A lock word is set exactly while one thread is between lock and unlock, on
\* every path out of an operation, whatever objects hash to the lock.
LocksHeldOnce ==
  \A l \in Lock :
    LET holders == {t \in Thread : pc[t] \in InSection /\ LockFor[Obj(t)] = l}
    IN  IF taken[l] THEN \E t \in Thread : holders = {t} ELSE holders = {}

\* lock() is "potentially unbounded in the contended case" (atomic.c:79), but a
\* taken lock is always given back, so somebody goes on.
TakenLockIsReleased ==
  \A l \in Lock : taken[l] ~> ~taken[l]

\* Until it unlocks, a locked operation has not happened yet for the others.
Between(t, o) == pc[t] \in InSection /\ Obj(t) = o
SeenValue ==
  [o \in Object |-> IF \E t \in Thread : Between(t, o)
                    THEN reg[CHOOSE t \in Thread : Between(t, o)].before ELSE memory[o]]
SeenCall == [t \in Thread |-> reg[t].call]
SeenResult ==
  [t \in Thread |-> IF pc[t] = "done" THEN [ok |-> reg[t].ok, got |-> reg[t].got] ELSE NoResult]

Abstract == INSTANCE AtomicObjects WITH
  value <- SeenValue, call <- SeenCall, result <- SeenResult,
  InitialValue <- [o \in Object |-> [i \in Bytes(o) |-> 0]],
  Call <- Calls

\* "An atomic load operation", "an atomic store operation", ...: every call is
\* atomic on its object, although distinct objects share a lock and a locked
\* operation takes many steps (atomic.c:129-222).
CallsAreAtomic == Abstract!Spec
=============================================================================
