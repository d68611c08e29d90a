---------------------------- MODULE TsanAtomics ----------------------------
(***************************************************************************)
(* The instrumented atomic operations (tsan_interface_atomic.cc).  An      *)
(* operation is up to three steps: a release of the thread's clock into    *)
(* the atomic's SyncVar, the operation of the hardware, an acquire from    *)
(* the SyncVar.  Nothing keeps them together.  carried is what C++11 says  *)
(* of the same execution: a value carries the clocks of the releases that  *)
(* head and continue its release sequence, and who acquires it has them.   *)
(***************************************************************************)
EXTENDS Integers

CONSTANTS
  Threads, Atomics,
  Width,         \* bits of an atomic
  ForceSeqCst,   \* flags()->force_seq_cst_atomics
  MaxOps         \* bound on the operations of a thread

VARIABLES
  value, sync,         \* atomic -> its value, the clock of its SyncVar
  carried,             \* atomic -> clock its value carries by C++11
  overlapped,          \* atomic -> a releasing store overlapped another operation
  clock,               \* thread -> its clock
  op                   \* thread -> operation under way, or Idle

vars == <<value, sync, carried, overlapped, clock, op>>

-----------------------------------------------------------------------------
Relaxed == 0  Consume == 1  Acquire == 2
Release == 3  AcqRel == 4   SeqCst == 5
Orders == Relaxed .. SeqCst

IsLoadOrder(mo) == mo \in {Relaxed, Consume, Acquire, SeqCst}
IsStoreOrder(mo) == mo \in {Relaxed, Release, SeqCst}
IsReleaseOrder(mo) == mo \in {Release, AcqRel, SeqCst}
IsAcquireOrder(mo) == mo \in {Consume, Acquire, AcqRel, SeqCst}

\* Compilers number the orders in two ways; -1 stands for the failed CHECKs.
Flagged == 100500
ConvertOrder(mo) ==
  LET flags == mo - Flagged IN
  IF mo <= Flagged THEN IF mo \in Orders THEN mo ELSE -1
  ELSE IF \E k \in Orders : flags = 2 ^ k THEN CHOOSE k \in Orders : flags = 2 ^ k
  ELSE IF flags \in Orders THEN flags ELSE -1

\* SCOPED_ATOMIC.
Effective(mo) == IF ForceSeqCst THEN SeqCst ELSE ConvertOrder(mo)

Values == 0 .. (2 ^ Width - 1)
Bit(v, i) == (v \div 2 ^ i) % 2
Bitwise2(x, y, F(_, _)) ==
  LET sum[i \in 0 .. Width] ==
        IF i = 0 THEN 0 ELSE sum[i - 1] + F(Bit(x, i - 1), Bit(y, i - 1)) * 2 ^ (i - 1)
  IN sum[Width]

\* What the hardware stores; arg is <<operand>>, of CAS <<expected, desired>>.
Stored(kind, old, arg) ==
  CASE kind \in {"store", "exchange"} -> arg[1]
    [] kind = "add" -> (old + arg[1]) % 2 ^ Width
    [] kind = "sub" -> (old - arg[1]) % 2 ^ Width
    [] kind = "and" -> Bitwise2(old, arg[1], LAMBDA a, b : a * b)
    [] kind = "or"  -> Bitwise2(old, arg[1], LAMBDA a, b : IF a + b > 0 THEN 1 ELSE 0)
    [] kind = "xor" -> Bitwise2(old, arg[1], LAMBDA a, b : (a + b) % 2)
    [] kind = "cas" -> IF old = arg[1] THEN arg[2] ELSE old
    [] kind = "load" -> old

\* The orders an operation passes its CHECK with, and its operands.
MayHave(kind, mo) ==
  CASE kind = "load" -> IsLoadOrder(mo) [] kind = "store" -> IsStoreOrder(mo) [] OTHER -> TRUE
Operands(kind) ==
  CASE kind = "load" -> {<< >>} [] kind = "cas" -> Values \X Values [] OTHER -> {<<v>> : v \in Values}

-----------------------------------------------------------------------------
Zero == [u \in Threads |-> 0]
Upper(c, d) == [u \in Threads |-> IF c[u] > d[u] THEN c[u] ELSE d[u]]
Below(c, d) == \A u \in Threads : c[u] <= d[u]

Idle == [at |-> "idle"]
Running(t, at) == op[t].at = at
Go(t, at) == op' = [op EXCEPT ![t].at = at]

\* A thread accesses its memory, which advances its epoch, and starts an
\* operation of the kinds and orders the program uses.
Start(t, Kinds, Used) ==
  /\ Running(t, "idle") /\ clock[t][t] < MaxOps
  /\ clock' = [clock EXCEPT ![t][t] = @ + 1]
  /\ \E a \in Atomics, kind \in Kinds, mo \in Used : \E arg \in Operands(kind) :
       /\ MayHave(kind, Effective(mo))
       /\ op' = [op EXCEPT ![t] = [at |-> "release", kind |-> kind, a |-> a, mo |-> Effective(mo),
                                   arg |-> arg, got |-> Zero]]
  /\ UNCHANGED <<value, sync, carried, overlapped>>

IsReleasingStore(o) == o.kind = "store" /\ IsReleaseOrder(o.mo)
Overlaps(t) ==
  \E u \in Threads \ {t} :
    /\ op[u].at \in {"memory", "acquire"} /\ op[u].a = op[t].a
    /\ IsReleasingStore(op[u]) \/ IsReleasingStore(op[t])
Note(t) == overlapped' = [overlapped EXCEPT ![op[t].a] = @ \/ Overlaps(t)]

\* Release, or ReleaseStore for a store, under the SyncVar's lock.
ReleaseClock(t) ==
  LET o == op[t] IN
  /\ Running(t, "release")
  /\ IF ~IsReleaseOrder(o.mo) THEN UNCHANGED sync
     ELSE sync' = [sync EXCEPT ![o.a] = IF o.kind = "store" THEN clock[t] ELSE Upper(@, clock[t])]
  /\ Note(t) /\ Go(t, "memory")
  /\ UNCHANGED <<value, carried, clock>>

Operate(t) ==
  LET o == op[t]
      writes == o.kind # "load" /\ (o.kind = "cas" => value[o.a] = o.arg[1])
      own == IF IsReleaseOrder(o.mo) THEN clock[t] ELSE Zero
  IN
  /\ Running(t, "memory")
  /\ value' = [value EXCEPT ![o.a] = Stored(o.kind, @, o.arg)]
  /\ carried' = IF ~writes THEN carried
                ELSE [carried EXCEPT ![o.a] = IF o.kind = "store" THEN own ELSE Upper(@, own)]
  /\ op' = [op EXCEPT ![t].at = IF o.kind = "store" THEN "end" ELSE "acquire",
                      ![t].got = IF o.kind # "store" /\ IsAcquireOrder(o.mo)
                                 THEN carried[o.a] ELSE Zero]
  /\ Note(t)
  /\ UNCHANGED <<sync, clock>>

AcquireClock(t) ==
  LET o == op[t] IN
  /\ Running(t, "acquire")
  /\ IF IsAcquireOrder(o.mo) THEN clock' = [clock EXCEPT ![t] = Upper(@, sync[o.a])]
     ELSE UNCHANGED clock
  /\ Note(t) /\ Go(t, "end")
  /\ UNCHANGED <<value, sync, carried>>

End(t) ==
  /\ Running(t, "end") /\ op' = [op EXCEPT ![t] = Idle]
  /\ UNCHANGED <<value, sync, carried, overlapped, clock>>

AtomicsInit ==
  /\ value = [a \in Atomics |-> 0] /\ overlapped = [a \in Atomics |-> FALSE]
  /\ sync = [a \in Atomics |-> Zero] /\ carried = [a \in Atomics |-> Zero]
  /\ clock = [t \in Threads |-> Zero]
  /\ op = [t \in Threads |-> Idle]

AtomicsNext(Kinds, Used) ==
  \E t \in Threads : Start(t, Kinds, Used) \/ ReleaseClock(t) \/ Operate(t) \/ AcquireClock(t) \/ End(t)

-----------------------------------------------------------------------------
\* A thread that acquired a value knows what happened before it was released,
\* unless a releasing store of the atomic overlapped another operation on it.
AcquiresAreComplete ==
  \A t \in Threads :
    Running(t, "end") => Below(op[t].got, clock[t]) \/ overlapped[op[t].a]

\* Both numberings of the orders mean the same; anything else fails a CHECK.
OrdersConvert ==
  /\ \A mo \in Orders : {ConvertOrder(mo), ConvertOrder(Flagged + 2 ^ mo)} = {mo}
  /\ \A mo \in {-1, 6, Flagged, Flagged + 64} : ConvertOrder(mo) = -1
=============================================================================
