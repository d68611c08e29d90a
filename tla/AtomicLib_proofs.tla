-------------------------- MODULE AtomicLib_proofs --------------------------
(***************************************************************************)
(* Proofs, for any threads, objects, sizes and hash of objects to locks,   *)
(* that a lock has one holder and that every call is atomic, if the calls  *)
(* of one object agree on whether they take its lock.                      *)
(***************************************************************************)
EXTENDS AtomicLib, TLAPS

\* What the theorem on atomicity leaves out: a generic store of a lock-free size
\* (atomic.c:162 stores the object's own contents), and an object that is accessed
\* with and without its lock (a byte, since LOCK_FREE_CASES has no case 1).
CallsAgree ==
  /\ \A c \in Calls : BypassesLock(c) /\ c.op = "store" => c.api = "sized"
  /\ \A c, d \in Calls : c.obj = d.obj => BypassesLock(c) = BypassesLock(d)

Values(o) == [Bytes(o) -> Byte]
Partial == UNION {[1 .. n -> Byte] : n \in Nat}
Locals == [call : Calls \cup {NoCall}, i : Nat, got : Partial, ok : BOOLEAN, before : Partial]

FieldsTyped ==
  /\ memory \in [Object -> Partial]
  /\ \A o \in Object : memory[o] \in Values(o)
  /\ taken \in [Lock -> BOOLEAN] /\ pc \in [Thread -> Label] /\ reg \in [Thread -> Locals]

\* With the lock comes exclusion: a holder is alone, also among the threads whose
\* objects hash to the same lock.
Holding(t, l) == pc[t] \in InSection /\ LockFor[Obj(t)] = l
HoldersAreAlone ==
  /\ \A l \in Lock : taken[l] <=> \E t \in Thread : Holding(t, l)
  /\ \A l \in Lock, t, u \in Thread : Holding(t, l) /\ Holding(u, l) => t = u

\* The locals at each position.
LocalsFit(r, label) ==
  LET whole == {<<>>} \cup Values(r.call.obj) IN
  /\ label \in {"idle", "direct", "lock"} => r.i = 1 /\ r.got = <<>> /\ r.ok
  /\ label = "idle" => r.call = NoCall
  /\ label # "idle" => r.call \in Calls
  /\ label = "direct" => BypassesLock(r.call)
  /\ label \in {"lock"} \cup InSection => ~BypassesLock(r.call)
  /\ label \in InSection => r.i \in Bytes(r.call.obj) /\ r.before \in Values(r.call.obj)
  /\ label = "compare" => r.call.op = "cas" /\ r.got = <<>>
  /\ label = "read" => r.call.op # "store" /\ r.got \in [1 .. r.i - 1 -> Byte]
  /\ label = "write" => /\ r.call.op # "load" /\ r.got \in whole
                        /\ r.call.op = "fetch" => r.got \in Values(r.call.obj)
  /\ label \in {"unlock", "done"} => r.i = 1 /\ r.got \in whole

Inv == FieldsTyped /\ HoldersAreAlone /\ \A t \in Thread : LocalsFit(reg[t], pc[t])

\* What a call leaves in the object and answers, if the object held v.
Left(v, c) ==
  CASE c.op = "load" -> v
    [] c.op \in {"store", "exchange"} -> c.val
    [] c.op = "cas" -> IF v = c.exp THEN c.val ELSE v
    [] c.op = "fetch" -> Xor(v, c.val)
Ok(v, c) == c.op # "cas" \/ v = c.exp
Got(v, c) == IF c.op = "store" \/ (c.op = "cas" /\ v = c.exp) THEN <<>> ELSE v

\* How far a call is: what it has compared, read and written, against the value
\* the object had when the lock was taken.  m is the object now.
Follows(r, label, m) ==
  /\ label = "compare" =>
       m = r.before /\ r.ok /\ \A j \in 1 .. r.i - 1 : m[j] = r.call.exp[j]
  /\ label = "read" =>
       /\ m = r.before /\ r.ok = Ok(m, r.call) /\ (r.call.op = "cas" => m # r.call.exp)
       /\ \A j \in 1 .. r.i - 1 : r.got[j] = m[j]
  /\ label = "write" =>
       /\ r.call.op = "cas" => r.before = r.call.exp
       /\ r.ok /\ r.got = Got(r.before, r.call)
       /\ \A j \in Bytes(r.call.obj) :
            m[j] = IF j < r.i THEN Left(r.before, r.call)[j] ELSE r.before[j]
  /\ label = "unlock" =>
       m = Left(r.before, r.call) /\ r.ok = Ok(r.before, r.call) /\ r.got = Got(r.before, r.call)

CallsFollow == \A t \in Thread : Follows(reg[t], pc[t], memory[Obj(t)])

-----------------------------------------------------------------------------
(* Values.                                                                  *)

LEMMA ObjectsAreTyped ==
  /\ \A o \in Object : SizeOf[o] \in Nat \ {0} /\ LockFor[o] \in Lock /\ Bytes(o) = 1 .. SizeOf[o]
  /\ \A c \in Calls : /\ c.obj \in Object /\ c.op \in Operation
                      /\ c.val \in Values(c.obj) /\ c.exp \in Values(c.obj)
  /\ NoCall \notin Calls
  BY AtomicAssumption DEF Values, Bytes

LEMMA ValuesArePartial == \A o \in Object : Values(o) \subseteq Partial
  BY ObjectsAreTyped DEF Values, Partial

LEMMA EmptyIsPartial == <<>> \in [1 .. 0 -> Byte] /\ <<>> \in Partial
<1>1. <<>> \in [1 .. 0 -> Byte]
  OBVIOUS
<1>2. QED BY <1>1 DEF Partial

LEMMA XorIsValue ==
  ASSUME NEW o \in Object, NEW v \in Values(o), NEW w \in Values(o)
  PROVE  Xor(v, w) \in Values(o)
<1>1. DOMAIN v = Bytes(o) /\ \A j \in Bytes(o) : v[j] \in Byte /\ w[j] \in Byte
  BY DEF Values
<1>2. \A a, b \in Byte : (a + b) % 2 \in Byte
  BY DEF Byte
<1>3. QED BY <1>1, <1>2 DEF Xor, Values

LEMMA LeftIsValue ==
  ASSUME NEW c \in Calls, NEW v \in Values(c.obj)
  PROVE  Left(v, c) \in Values(c.obj) /\ Got(v, c) \in {<<>>} \cup Values(c.obj)
<1>1. c.obj \in Object /\ c.op \in Operation /\ c.val \in Values(c.obj)
  BY ObjectsAreTyped
<1>2. Xor(v, c.val) \in Values(c.obj)
  BY <1>1, XorIsValue
<1>3. QED BY <1>1, <1>2 DEF Left, Got, Operation

-----------------------------------------------------------------------------
(* One thread moves.                                                        *)

LEMMA ThreadMoves ==
  ASSUME FieldsTyped, \A u \in Thread : LocalsFit(reg[u], pc[u]),
         NEW t \in Thread, NEW r \in Locals, NEW label \in Label, LocalsFit(r, label),
         reg' = [reg EXCEPT ![t] = r], pc' = [pc EXCEPT ![t] = label]
  PROVE  /\ reg' \in [Thread -> Locals] /\ pc' \in [Thread -> Label]
         /\ reg'[t] = r /\ pc'[t] = label
         /\ \A u \in Thread \ {t} : reg'[u] = reg[u] /\ pc'[u] = pc[u]
         /\ (\A u \in Thread : LocalsFit(reg[u], pc[u]))'
<1>1. /\ reg' \in [Thread -> Locals] /\ pc' \in [Thread -> Label]
      /\ reg'[t] = r /\ pc'[t] = label
      /\ \A u \in Thread \ {t} : reg'[u] = reg[u] /\ pc'[u] = pc[u]
  BY DEF FieldsTyped
<1>2. \A u \in Thread : LocalsFit(reg'[u], pc'[u])
  BY <1>1
<1>3. QED BY <1>1, <1>2

LEMMA HoldersStay ==
  ASSUME HoldersAreAlone, taken' = taken, \A u \in Thread, l \in Lock : Holding(u, l)' = Holding(u, l)
  PROVE  HoldersAreAlone'
  BY DEF HoldersAreAlone

\* A step of one thread that neither takes nor drops a lock.
LEMMA QuietStep ==
  ASSUME Inv, NEW t \in Thread, NEW r \in Locals, NEW label \in Label, LocalsFit(r, label),
         reg' = [reg EXCEPT ![t] = r], pc' = [pc EXCEPT ![t] = label],
         taken' = taken, pc[t] \in InSection <=> label \in InSection,
         label \in InSection => r.call = reg[t].call,
         memory' \in [Object -> Partial], \A o \in Object : memory'[o] \in Values(o)
  PROVE  Inv'
<1>1. /\ reg' \in [Thread -> Locals] /\ pc' \in [Thread -> Label]
      /\ reg'[t] = r /\ pc'[t] = label
      /\ \A u \in Thread \ {t} : reg'[u] = reg[u] /\ pc'[u] = pc[u]
      /\ (\A u \in Thread : LocalsFit(reg[u], pc[u]))'
  BY ThreadMoves DEF Inv
<1>2. FieldsTyped'
  BY <1>1 DEF Inv, FieldsTyped
<1>3. \A u \in Thread, l \in Lock : Holding(u, l)' = Holding(u, l)
  BY <1>1 DEF Holding, Obj
<1>4. HoldersAreAlone'
  BY <1>3, HoldersStay DEF Inv
<1>5. QED BY <1>1, <1>2, <1>4 DEF Inv

LEMMA CallIsTyped ==
  ASSUME Inv, NEW t \in Thread, pc[t] # "idle"
  PROVE  /\ reg[t] \in Locals /\ LocalsFit(reg[t], pc[t]) /\ reg[t].call \in Calls
         /\ Obj(t) \in Object /\ Obj(t) = reg[t].call.obj /\ LockFor[Obj(t)] \in Lock
         /\ Op(t) \in Operation /\ Op(t) = reg[t].call.op
         /\ memory[Obj(t)] \in Values(Obj(t))
         /\ reg[t].call.val \in Values(Obj(t)) /\ reg[t].call.exp \in Values(Obj(t))
  BY ObjectsAreTyped DEF Inv, FieldsTyped, LocalsFit, Obj, Op

LEMMA EnterKeepsInv ==
  ASSUME Inv, NEW t \in Thread, NEW c \in Calls, Enter(t, c)
  PROVE  Inv'
<1> DEFINE r == [reg[t] EXCEPT !.call = c]
           label == IF BypassesLock(c) THEN "direct" ELSE "lock"
<1>1. reg[t] \in Locals /\ LocalsFit(reg[t], "idle") /\ label \in Label /\ label \notin InSection
  BY DEF Inv, FieldsTyped, Enter, Label, InSection
<1>2. r \in Locals /\ r.call = c /\ r.i = reg[t].i /\ r.got = reg[t].got /\ r.ok = reg[t].ok
  BY <1>1 DEF Locals
<1>3. LocalsFit(r, label)
  BY <1>1, <1>2 DEF LocalsFit, InSection
<1>4. /\ reg' = [reg EXCEPT ![t] = r] /\ pc' = [pc EXCEPT ![t] = label]
      /\ taken' = taken /\ memory' = memory /\ pc[t] \notin InSection
  BY DEF Enter, Goto, InSection
<1> HIDE DEF r, label
<1>5. QED BY <1>1, <1>2, <1>3, <1>4, QuietStep DEF Inv, FieldsTyped

LEMMA LeaveKeepsInv ==
  ASSUME Inv, NEW t \in Thread, Leave(t)
  PROVE  Inv'
<1>1. NoLocals \in Locals /\ LocalsFit(NoLocals, "idle")
  BY EmptyIsPartial DEF NoLocals, Locals, LocalsFit, InSection
<1>2. /\ reg' = [reg EXCEPT ![t] = NoLocals] /\ pc' = [pc EXCEPT ![t] = "idle"]
      /\ taken' = taken /\ memory' = memory /\ pc[t] \notin InSection
      /\ "idle" \in Label /\ "idle" \notin InSection
  BY DEF Leave, Goto, InSection, Label
<1>3. QED BY <1>1, <1>2, QuietStep DEF Inv, FieldsTyped

\* The value a call writes, with or without the lock.
LEMMA StoringKeepsTypes ==
  ASSUME FieldsTyped, NEW o \in Object, NEW v \in Values(o), memory' = [memory EXCEPT ![o] = v]
  PROVE  memory' \in [Object -> Partial] /\ \A p \in Object : memory'[p] \in Values(p)
  BY ValuesArePartial DEF FieldsTyped

LEMMA DirectKeepsInv ==
  ASSUME Inv, NEW t \in Thread, Direct(t)
  PROVE  Inv'
<1> DEFINE m == memory[Obj(t)]
           c == reg[t].call
<1>1. /\ pc[t] # "idle" /\ pc[t] \notin InSection /\ "done" \in Label /\ "done" \notin InSection
      /\ pc[t] = "direct" /\ taken' = taken
  BY DEF Direct, InSection, Label
<1>2. PICK ok \in BOOLEAN, got \in {<<>>} \cup Values(Obj(t)) : Finish(t, ok, got)
  BY <1>1, CallIsTyped DEF Direct, DirectLoad, DirectStore, DirectExchange, DirectCompareExchange,
     DirectFetchOp
<1>3. \/ memory' = memory
      \/ \E v \in Values(Obj(t)) : memory' = [memory EXCEPT ![Obj(t)] = v]
  <2>1. Xor(m, c.val) \in Values(Obj(t))
    BY <1>1, CallIsTyped, XorIsValue
  <2>2. QED BY <1>1, <2>1, CallIsTyped DEF Direct, DirectLoad, DirectStore, DirectExchange,
     DirectCompareExchange, DirectFetchOp
<1>4. memory' \in [Object -> Partial] /\ \A p \in Object : memory'[p] \in Values(p)
  BY <1>1, <1>3, CallIsTyped, StoringKeepsTypes DEF Inv, FieldsTyped
<1> DEFINE r == [reg[t] EXCEPT !.ok = ok, !.got = got]
<1>5. got \in Partial
  BY <1>1, CallIsTyped, ValuesArePartial, EmptyIsPartial
<1>6. reg[t] \in Locals /\ LocalsFit(reg[t], "direct")
  BY <1>1, CallIsTyped
<1>7. r \in Locals /\ r.call = c /\ r.i = reg[t].i /\ r.got = got
  BY <1>5, <1>6 DEF Locals
<1>8. LocalsFit(r, "done")
  BY <1>6, <1>7 DEF LocalsFit, InSection, Obj
<1>9. reg' = [reg EXCEPT ![t] = r] /\ pc' = [pc EXCEPT ![t] = "done"]
  BY <1>2, <1>6 DEF Finish, Goto, Inv, FieldsTyped
<1> HIDE DEF r, m, c
<1>10. QED BY <1>1, <1>4, <1>7, <1>8, <1>9, QuietStep

\* A phase goes on, or ends with the last byte.
LEMMA AdvanceMoves ==
  ASSUME Inv, NEW t \in Thread, pc[t] \in InSection,
         NEW set \in Locals, set.call = reg[t].call, set.i = reg[t].i,
         NEW next \in Label, Advance(t, next, set)
  PROVE  \E r \in Locals, label \in Label :
           /\ reg' = [reg EXCEPT ![t] = r] /\ pc' = [pc EXCEPT ![t] = label]
           /\ r.call = set.call /\ r.got = set.got /\ r.ok = set.ok /\ r.before = set.before
           /\ r.i \in Bytes(Obj(t))
           /\ \/ reg[t].i = SizeOf[Obj(t)] /\ label = next /\ r.i = 1
              \/ reg[t].i # SizeOf[Obj(t)] /\ label = pc[t] /\ r.i = reg[t].i + 1
<1> DEFINE last == reg[t].i = SizeOf[Obj(t)]
           r == [set EXCEPT !.i = IF last THEN 1 ELSE @ + 1]
           label == IF last THEN next ELSE pc[t]
<1>1. /\ Obj(t) \in Object /\ SizeOf[Obj(t)] \in Nat \ {0} /\ Bytes(Obj(t)) = 1 .. SizeOf[Obj(t)]
      /\ LocalsFit(reg[t], pc[t]) /\ Obj(t) = reg[t].call.obj
  BY CallIsTyped, ObjectsAreTyped DEF InSection
<1>2. reg[t].i \in 1 .. SizeOf[Obj(t)]
  BY <1>1 DEF LocalsFit
<1>3. /\ r \in Locals /\ r.call = set.call /\ r.got = set.got /\ r.ok = set.ok /\ r.before = set.before
      /\ r.i = IF last THEN 1 ELSE set.i + 1
  BY <1>1, <1>2 DEF Locals
<1>4. r.i \in Bytes(Obj(t))
  BY <1>1, <1>2, <1>3
<1>5. reg' = [reg EXCEPT ![t] = r]
  BY DEF Advance
<1>6. pc' = [pc EXCEPT ![t] = label] /\ label \in Label
  BY DEF Advance, Goto, Inv, FieldsTyped
<1> HIDE DEF r
<1>7. QED BY <1>3, <1>4, <1>5, <1>6

LEMMA AcquireLockKeepsInv ==
  ASSUME Inv, NEW t \in Thread, AcquireLock(t)
  PROVE  Inv'
<1> DEFINE lk == LockFor[Obj(t)]
           r == [reg[t] EXCEPT !.before = memory[Obj(t)]]
           label == FirstPhase(Op(t))
<1>1. pc[t] = "lock" /\ ~taken[lk] /\ taken' = [taken EXCEPT ![lk] = TRUE] /\ memory' = memory
  BY DEF AcquireLock
<1>2. /\ reg[t] \in Locals /\ LocalsFit(reg[t], "lock") /\ reg[t].call \in Calls /\ lk \in Lock
      /\ Obj(t) \in Object /\ Obj(t) = reg[t].call.obj /\ Op(t) \in Operation /\ Op(t) = reg[t].call.op
      /\ memory[Obj(t)] \in Values(Obj(t)) /\ memory[Obj(t)] \in Partial
  BY <1>1, CallIsTyped, ValuesArePartial
<1>3. /\ r \in Locals /\ r.call = reg[t].call /\ r.i = reg[t].i /\ r.got = reg[t].got /\ r.ok = reg[t].ok
      /\ r.before = memory[Obj(t)]
  BY <1>2 DEF Locals
<1>4. label \in {"compare", "write", "read"} /\ label \in InSection /\ label \in Label
      /\ (label = "compare" => Op(t) = "cas") /\ (label = "write" => Op(t) = "store")
      /\ (label = "read" => Op(t) # "store")
  BY <1>2 DEF FirstPhase, InSection, Label, Operation
<1>5. 1 \in Bytes(Obj(t))
  BY <1>2, ObjectsAreTyped
<1>6. LocalsFit(r, label)
  <2>1. r.i = 1 /\ r.got = <<>> /\ ~BypassesLock(r.call)
    BY <1>2, <1>3 DEF LocalsFit
  <2>2. <<>> \in [1 .. r.i - 1 -> Byte]
    BY <2>1, EmptyIsPartial
  <2>3. QED BY <1>2, <1>3, <1>4, <1>5, <2>1, <2>2 DEF LocalsFit
<1>7. reg' = [reg EXCEPT ![t] = r] /\ pc' = [pc EXCEPT ![t] = label]
  BY DEF AcquireLock, Goto
<1> HIDE DEF r, label
<1>8. /\ reg' \in [Thread -> Locals] /\ pc' \in [Thread -> Label]
      /\ reg'[t] = r /\ pc'[t] = label
      /\ \A u \in Thread \ {t} : reg'[u] = reg[u] /\ pc'[u] = pc[u]
      /\ (\A u \in Thread : LocalsFit(reg[u], pc[u]))'
  BY <1>3, <1>4, <1>6, <1>7, ThreadMoves DEF Inv
<1>9. FieldsTyped'
  BY <1>1, <1>2, <1>8 DEF Inv, FieldsTyped
<1>10. /\ \A u \in Thread \ {t}, l \in Lock : (Holding(u, l)' <=> Holding(u, l))
       /\ \A l \in Lock : (Holding(t, l)' <=> l = lk) /\ ~Holding(t, l)
       /\ \A u \in Thread : ~Holding(u, lk)
  <2>1. \A l \in Lock : ~Holding(t, l)
    BY <1>1 DEF Holding, InSection
  <2>2. \A u \in Thread \ {t}, l \in Lock : (Holding(u, l)' <=> Holding(u, l))
    BY <1>8 DEF Holding, Obj
  <2>3. \A l \in Lock : (Holding(t, l)' <=> l = lk)
    BY <1>2, <1>3, <1>4, <1>8 DEF Holding, Obj
  <2>4. QED BY <1>1, <1>2, <2>1, <2>2, <2>3 DEF Inv, HoldersAreAlone
<1>11. \A l \in Lock : taken'[l] = IF l = lk THEN TRUE ELSE taken[l]
  BY <1>1 DEF Inv, FieldsTyped
<1> HIDE DEF lk
<1>12. HoldersAreAlone'
  <2>1. \A l \in Lock : (taken[l] <=> \E u \in Thread : Holding(u, l)) /\ taken[l] \in BOOLEAN
    BY DEF Inv, HoldersAreAlone, FieldsTyped
  <2>2. ASSUME NEW l \in Lock PROVE taken'[l] <=> \E u \in Thread : Holding(u, l)'
    <3>1. CASE l = lk
      BY <1>10, <1>11, <3>1
    <3>2. CASE l # lk
      BY <1>10, <1>11, <2>1, <3>2
    <3>3. QED BY <3>1, <3>2
  <2>3. \A l \in Lock, u, v \in Thread : Holding(u, l)' /\ Holding(v, l)' => u = v
    BY <1>10 DEF Inv, HoldersAreAlone
  <2>4. QED BY <2>2, <2>3 DEF HoldersAreAlone
<1>13. QED BY <1>8, <1>9, <1>12 DEF Inv

LEMMA UnlockKeepsInv ==
  ASSUME Inv, NEW t \in Thread, Unlock(t)
  PROVE  Inv'
<1> DEFINE lk == LockFor[Obj(t)]
<1>1. /\ pc[t] = "unlock" /\ pc[t] \in InSection /\ taken' = [taken EXCEPT ![lk] = FALSE]
      /\ memory' = memory /\ "done" \in Label /\ "done" \notin InSection
  BY DEF Unlock, InSection, Label
<1>2. reg[t] \in Locals /\ LocalsFit(reg[t], "unlock") /\ lk \in Lock
  BY <1>1, CallIsTyped
<1>3. LocalsFit(reg[t], "done")
  BY <1>2 DEF LocalsFit, InSection
<1>4. reg' = [reg EXCEPT ![t] = reg[t]] /\ pc' = [pc EXCEPT ![t] = "done"]
  BY DEF Unlock, Goto, Inv, FieldsTyped
<1>5. /\ reg' \in [Thread -> Locals] /\ pc' \in [Thread -> Label]
      /\ reg'[t] = reg[t] /\ pc'[t] = "done"
      /\ \A u \in Thread \ {t} : reg'[u] = reg[u] /\ pc'[u] = pc[u]
      /\ (\A u \in Thread : LocalsFit(reg[u], pc[u]))'
  BY <1>1, <1>2, <1>3, <1>4, ThreadMoves DEF Inv
<1>6. FieldsTyped'
  BY <1>1, <1>2, <1>5 DEF Inv, FieldsTyped
<1>7. /\ \A u \in Thread \ {t}, l \in Lock : (Holding(u, l)' <=> Holding(u, l))
      /\ \A l \in Lock : (Holding(t, l) <=> l = lk) /\ ~Holding(t, l)'
      /\ \A u \in Thread \ {t} : ~Holding(u, lk)
  <2>1. \A l \in Lock : ~Holding(t, l)' /\ (Holding(t, l) <=> l = lk)
    BY <1>1, <1>5 DEF Holding
  <2>2. \A u \in Thread \ {t}, l \in Lock : (Holding(u, l)' <=> Holding(u, l))
    BY <1>5 DEF Holding, Obj
  <2>3. QED BY <1>2, <2>1, <2>2 DEF Inv, HoldersAreAlone
<1>8. \A l \in Lock : taken'[l] = IF l = lk THEN FALSE ELSE taken[l]
  BY <1>1 DEF Inv, FieldsTyped
<1> HIDE DEF lk
<1>9. HoldersAreAlone'
  <2>1. \A l \in Lock : (taken[l] <=> \E u \in Thread : Holding(u, l)) /\ taken[l] \in BOOLEAN
    BY DEF Inv, HoldersAreAlone, FieldsTyped
  <2>2. ASSUME NEW l \in Lock PROVE taken'[l] <=> \E u \in Thread : Holding(u, l)'
    <3>1. CASE l = lk
      BY <1>7, <1>8, <3>1
    <3>2. CASE l # lk
      BY <1>7, <1>8, <2>1, <3>2
    <3>3. QED BY <3>1, <3>2
  <2>3. \A l \in Lock, u, v \in Thread : Holding(u, l)' /\ Holding(v, l)' => u = v
    BY <1>7 DEF Inv, HoldersAreAlone
  <2>4. QED BY <2>2, <2>3 DEF HoldersAreAlone
<1>10. QED BY <1>5, <1>6, <1>9 DEF Inv

LEMMA CompareByteKeepsInv ==
  ASSUME Inv, NEW t \in Thread, CompareByte(t)
  PROVE  Inv'
<1>1. /\ pc[t] = "compare" /\ pc[t] \in InSection /\ taken' = taken /\ memory' = memory
      /\ {"read", "write"} \subseteq InSection \cap Label
  BY DEF CompareByte, InSection, Label
<1>2. reg[t] \in Locals /\ LocalsFit(reg[t], "compare") /\ Obj(t) = reg[t].call.obj
  BY <1>1, CallIsTyped
<1>3. CASE Advance(t, "write", reg[t])
  <2>1. PICK r \in Locals, label \in Label :
           /\ reg' = [reg EXCEPT ![t] = r] /\ pc' = [pc EXCEPT ![t] = label]
           /\ r.call = reg[t].call /\ r.got = reg[t].got /\ r.ok = reg[t].ok /\ r.before = reg[t].before
           /\ r.i \in Bytes(Obj(t)) /\ label \in {"compare", "write"}
    BY <1>1, <1>2, <1>3, AdvanceMoves
  <2>2. LocalsFit(r, label)
    BY <1>2, <2>1 DEF LocalsFit, InSection
  <2>3. QED BY <1>1, <2>1, <2>2, QuietStep DEF Inv, FieldsTyped, InSection
<1>4. CASE /\ reg' = [reg EXCEPT ![t].ok = FALSE, ![t].i = 1]
           /\ Goto(t, "read")
  <2> DEFINE r == [reg[t] EXCEPT !.ok = FALSE, !.i = 1]
  <2>1. r \in Locals /\ r.call = reg[t].call /\ r.got = reg[t].got /\ r.i = 1 /\ r.before = reg[t].before
    BY <1>2 DEF Locals
  <2>2. 1 \in Bytes(Obj(t)) /\ <<>> \in [1 .. r.i - 1 -> Byte]
    BY <1>1, <2>1, CallIsTyped, ObjectsAreTyped, EmptyIsPartial
  <2>3. LocalsFit(r, "read")
    BY <1>2, <2>1, <2>2 DEF LocalsFit, InSection
  <2>4. reg' = [reg EXCEPT ![t] = r] /\ pc' = [pc EXCEPT ![t] = "read"]
    BY <1>4 DEF Goto, Inv, FieldsTyped
  <2> HIDE DEF r
  <2>5. QED BY <1>1, <2>1, <2>3, <2>4, QuietStep DEF Inv, FieldsTyped
<1>5. QED BY <1>3, <1>4 DEF CompareByte

\* What ReadByte has read after the step.
ReadSoFar(t) == [j \in 1 .. reg[t].i |-> IF j = reg[t].i THEN memory[Obj(t)][j] ELSE reg[t].got[j]]
AfterRead(t) == IF Op(t) \in {"load", "cas"} THEN "unlock" ELSE "write"

LEMMA ReadByteMoves ==
  ASSUME Inv, NEW t \in Thread, ReadByte(t)
  PROVE  /\ ReadSoFar(t) \in [1 .. reg[t].i -> Byte]
         /\ \E r \in Locals, label \in Label :
              /\ reg' = [reg EXCEPT ![t] = r] /\ pc' = [pc EXCEPT ![t] = label]
              /\ r.call = reg[t].call /\ r.got = ReadSoFar(t) /\ r.ok = reg[t].ok
              /\ r.before = reg[t].before /\ r.i \in Bytes(Obj(t))
              /\ \/ reg[t].i = SizeOf[Obj(t)] /\ label = AfterRead(t) /\ r.i = 1
                 \/ reg[t].i # SizeOf[Obj(t)] /\ label = "read" /\ r.i = reg[t].i + 1
<1>1. pc[t] = "read" /\ pc[t] \in InSection /\ {"unlock", "write"} \subseteq Label
  BY DEF ReadByte, InSection, Label
<1>2. reg[t] \in Locals /\ LocalsFit(reg[t], "read") /\ Obj(t) = reg[t].call.obj /\ Obj(t) \in Object
  BY <1>1, CallIsTyped
<1>3. /\ reg[t].i \in 1 .. SizeOf[Obj(t)] /\ SizeOf[Obj(t)] \in Nat \ {0}
      /\ reg[t].got \in [1 .. reg[t].i - 1 -> Byte]
  BY <1>1, <1>2, ObjectsAreTyped DEF LocalsFit, InSection
<1>4. \A j \in 1 .. SizeOf[Obj(t)] : memory[Obj(t)][j] \in Byte
  BY <1>1, CallIsTyped, ObjectsAreTyped DEF Values
<1>5. ReadSoFar(t) \in [1 .. reg[t].i -> Byte]
  BY <1>3, <1>4 DEF ReadSoFar
<1>6. ReadSoFar(t) \in Partial
  BY <1>3, <1>5 DEF Partial
<1> DEFINE set == [reg[t] EXCEPT !.got = ReadSoFar(t)]
<1>7. /\ set \in Locals /\ set.call = reg[t].call /\ set.i = reg[t].i /\ set.got = ReadSoFar(t)
      /\ set.ok = reg[t].ok /\ set.before = reg[t].before
  BY <1>2, <1>6 DEF Locals
<1>8. AfterRead(t) \in Label
  BY <1>1 DEF AfterRead
<1>9. Advance(t, AfterRead(t), set)
  <2>1. [j \in 1 .. reg[t].i |-> IF j = reg[t].i THEN memory[Obj(t)][j] ELSE reg[t].got[j]] = ReadSoFar(t)
    BY DEF ReadSoFar
  <2>2. QED BY <2>1 DEF ReadByte, AfterRead
<1> HIDE DEF set
<1>10. QED BY <1>1, <1>5, <1>7, <1>8, <1>9, AdvanceMoves

LEMMA ReadByteKeepsInv ==
  ASSUME Inv, NEW t \in Thread, ReadByte(t)
  PROVE  Inv'
<1>1. /\ pc[t] = "read" /\ pc[t] \in InSection /\ taken' = taken /\ memory' = memory
      /\ {"read", "unlock", "write"} \subseteq InSection
  BY DEF ReadByte, InSection
<1>2. /\ reg[t] \in Locals /\ LocalsFit(reg[t], "read") /\ Obj(t) = reg[t].call.obj /\ Obj(t) \in Object
      /\ Op(t) = reg[t].call.op /\ Op(t) \in Operation
  BY <1>1, CallIsTyped
<1>3. PICK r \in Locals, label \in Label :
        /\ reg' = [reg EXCEPT ![t] = r] /\ pc' = [pc EXCEPT ![t] = label]
        /\ r.call = reg[t].call /\ r.got = ReadSoFar(t) /\ r.ok = reg[t].ok
        /\ r.before = reg[t].before /\ r.i \in Bytes(Obj(t))
        /\ \/ reg[t].i = SizeOf[Obj(t)] /\ label = AfterRead(t) /\ r.i = 1
           \/ reg[t].i # SizeOf[Obj(t)] /\ label = "read" /\ r.i = reg[t].i + 1
  BY ReadByteMoves
<1>4. ReadSoFar(t) \in [1 .. reg[t].i -> Byte] /\ reg[t].i \in Nat
  BY <1>2, ReadByteMoves DEF Locals
<1>5. LocalsFit(r, label)
  <2>1. CASE label = "read"
    <3>1. AfterRead(t) # "read"
      BY DEF AfterRead
    <3>2. r.i = reg[t].i + 1
      BY <1>3, <2>1, <3>1
    <3>3. reg[t].i = r.i - 1
      BY <1>4, <3>2
    <3>4. QED BY <1>2, <1>3, <1>4, <2>1, <3>3 DEF LocalsFit, InSection
  <2>2. CASE label # "read"
    <3>1. ReadSoFar(t) \in Values(Obj(t))
      BY <1>2, <1>3, <1>4, <2>2, ObjectsAreTyped DEF Values
    <3>2. label = AfterRead(t) /\ r.i = 1
      BY <1>3, <2>2
    <3>3. QED BY <1>2, <1>3, <3>1, <3>2 DEF LocalsFit, InSection, AfterRead
  <2>3. QED BY <2>1, <2>2
<1>6. label \in InSection
  BY <1>1, <1>3 DEF AfterRead
<1>7. QED BY <1>1, <1>3, <1>5, <1>6, QuietStep DEF Inv, FieldsTyped

\* What WriteByte writes.
New(t) == IF Op(t) = "fetch" THEN Xor(reg[t].got, reg[t].call.val) ELSE reg[t].call.val

LEMMA WriteByteMoves ==
  ASSUME Inv, NEW t \in Thread, WriteByte(t)
  PROVE  /\ New(t) \in Values(Obj(t))
         /\ memory' = [memory EXCEPT ![Obj(t)] = [@ EXCEPT ![reg[t].i] = New(t)[reg[t].i]]]
         /\ [memory[Obj(t)] EXCEPT ![reg[t].i] = New(t)[reg[t].i]] \in Values(Obj(t))
         /\ \E r \in Locals, label \in Label :
              /\ reg' = [reg EXCEPT ![t] = r] /\ pc' = [pc EXCEPT ![t] = label]
              /\ r.call = reg[t].call /\ r.got = reg[t].got /\ r.ok = reg[t].ok
              /\ r.before = reg[t].before /\ r.i \in Bytes(Obj(t))
              /\ \/ reg[t].i = SizeOf[Obj(t)] /\ label = "unlock" /\ r.i = 1
                 \/ reg[t].i # SizeOf[Obj(t)] /\ label = "write" /\ r.i = reg[t].i + 1
<1>1. pc[t] = "write" /\ pc[t] \in InSection /\ "unlock" \in Label
  BY DEF WriteByte, InSection, Label
<1>2. /\ reg[t] \in Locals /\ LocalsFit(reg[t], "write") /\ Obj(t) = reg[t].call.obj /\ Obj(t) \in Object
      /\ Op(t) = reg[t].call.op /\ reg[t].call.val \in Values(Obj(t)) /\ memory[Obj(t)] \in Values(Obj(t))
  BY <1>1, CallIsTyped
<1>3. New(t) \in Values(Obj(t))
  BY <1>2, XorIsValue DEF New, LocalsFit
<1>4. memory' = [memory EXCEPT ![Obj(t)] = [@ EXCEPT ![reg[t].i] = New(t)[reg[t].i]]]
  BY DEF WriteByte, New
<1>5. reg[t].i \in Bytes(Obj(t))
  BY <1>1, <1>2 DEF LocalsFit
<1>6. [memory[Obj(t)] EXCEPT ![reg[t].i] = New(t)[reg[t].i]] \in Values(Obj(t))
  BY <1>2, <1>3, <1>5 DEF Values
<1>7. Advance(t, "unlock", reg[t])
  BY DEF WriteByte
<1>8. QED BY <1>1, <1>2, <1>3, <1>4, <1>6, <1>7, AdvanceMoves

LEMMA WriteByteKeepsInv ==
  ASSUME Inv, NEW t \in Thread, WriteByte(t)
  PROVE  Inv'
<1>1. /\ pc[t] = "write" /\ pc[t] \in InSection /\ taken' = taken
      /\ {"unlock", "write"} \subseteq InSection
  BY DEF WriteByte, InSection
<1>2. LocalsFit(reg[t], "write") /\ Obj(t) = reg[t].call.obj /\ Obj(t) \in Object
  BY <1>1, CallIsTyped
<1>3. PICK r \in Locals, label \in Label :
        /\ reg' = [reg EXCEPT ![t] = r] /\ pc' = [pc EXCEPT ![t] = label]
        /\ r.call = reg[t].call /\ r.got = reg[t].got /\ r.ok = reg[t].ok
        /\ r.before = reg[t].before /\ r.i \in Bytes(Obj(t))
        /\ \/ reg[t].i = SizeOf[Obj(t)] /\ label = "unlock" /\ r.i = 1
           \/ reg[t].i # SizeOf[Obj(t)] /\ label = "write" /\ r.i = reg[t].i + 1
  BY WriteByteMoves
<1>4. LocalsFit(r, label)
  BY <1>2, <1>3 DEF LocalsFit, InSection
<1>5. memory' \in [Object -> Partial] /\ \A o \in Object : memory'[o] \in Values(o)
  <2>1. PICK v \in Values(Obj(t)) : memory' = [memory EXCEPT ![Obj(t)] = v]
    BY WriteByteMoves
  <2>2. QED BY <1>2, <2>1, StoringKeepsTypes DEF Inv
<1>6. QED BY <1>1, <1>3, <1>4, <1>5, QuietStep

LEMMA SpecKeepsInv == Spec => []Inv
<1>1. Init => Inv
  <2> SUFFICES ASSUME Init PROVE Inv
    OBVIOUS
  <2>1. NoLocals \in Locals /\ LocalsFit(NoLocals, "idle") /\ "idle" \in Label /\ "idle" \notin InSection
    BY EmptyIsPartial DEF NoLocals, Locals, LocalsFit, InSection, Label
  <2>2. \A o \in Object : memory[o] \in Values(o)
    BY DEF Init, Values, Byte
  <2>3. FieldsTyped
    BY <2>1, <2>2, ValuesArePartial DEF Init, FieldsTyped
  <2>4. HoldersAreAlone
    BY <2>1 DEF Init, HoldersAreAlone, Holding
  <2>5. QED BY <2>1, <2>3, <2>4 DEF Init, Inv
<1>2. Inv /\ [Next]_vars => Inv'
  <2> SUFFICES ASSUME Inv, [Next]_vars PROVE Inv'
    OBVIOUS
  <2>1. CASE UNCHANGED vars
    BY <2>1 DEF vars, Inv, FieldsTyped, HoldersAreAlone, Holding, Obj
  <2>2. CASE Next
    <3>1. PICK t \in Thread : Continue(t) \/ \E c \in Calls : Enter(t, c)
      BY <2>2 DEF Next
    <3>2. QED BY <3>1, EnterKeepsInv, LeaveKeepsInv, DirectKeepsInv, AcquireLockKeepsInv, UnlockKeepsInv,
                 CompareByteKeepsInv, ReadByteKeepsInv, WriteByteKeepsInv DEF Continue
  <2>3. QED BY <2>1, <2>2
<1>3. QED BY <1>1, <1>2, PTL DEF Spec

\* A lock word is set exactly while one call is between lock and unlock, on every
\* path out of every operation, whatever objects hash to the lock (atomic.c:71-84);
\* and the bytes and locals keep their shapes.
THEOREM LocksAreHeldOnce == Spec => [](TypeOK /\ LocksHeldOnce)
<1>1. Inv => TypeOK
  <2> SUFFICES ASSUME Inv PROVE TypeOK
    OBVIOUS
  <2>1. ASSUME NEW t \in Thread, pc[t] # "idle"
        PROVE  /\ reg[t].call \in Calls /\ reg[t].i \in Bytes(Obj(t))
               /\ \E n \in 0 .. SizeOf[Obj(t)] : reg[t].got \in [1 .. n -> Byte]
    <3>1. /\ LocalsFit(reg[t], pc[t]) /\ Obj(t) = reg[t].call.obj /\ pc[t] \in Label /\ reg[t].call \in Calls
          /\ SizeOf[Obj(t)] \in Nat \ {0} /\ Bytes(Obj(t)) = 1 .. SizeOf[Obj(t)]
      BY <2>1, CallIsTyped, ObjectsAreTyped DEF Inv, FieldsTyped
    <3>2. reg[t].i \in Bytes(Obj(t))
      BY <2>1, <3>1 DEF LocalsFit, Label
    <3>3. CASE pc[t] = "read"
      BY <3>1, <3>2, <3>3 DEF LocalsFit
    <3>4. CASE pc[t] # "read"
      <4>1. reg[t].got = <<>> \/ reg[t].got \in [1 .. SizeOf[Obj(t)] -> Byte]
        BY <2>1, <3>1, <3>4 DEF LocalsFit, Label, InSection, Values
      <4>2. CASE reg[t].got = <<>>
        BY <3>1, <3>2, <4>2, EmptyIsPartial
      <4>3. CASE reg[t].got \in [1 .. SizeOf[Obj(t)] -> Byte]
        BY <3>1, <3>2, <4>3
      <4>4. QED BY <4>1, <4>2, <4>3
    <3>5. QED BY <3>1, <3>2, <3>3, <3>4
  <2>2. QED BY <2>1 DEF TypeOK, Inv, FieldsTyped, Values
<1>2. Inv => LocksHeldOnce
  <2> SUFFICES ASSUME Inv, NEW l \in Lock
        PROVE  LET holders == {t \in Thread : pc[t] \in InSection /\ LockFor[Obj(t)] = l}
               IN  IF taken[l] THEN \E t \in Thread : holders = {t} ELSE holders = {}
    BY DEF LocksHeldOnce
  <2>1. CASE taken[l]
    <3>1. PICK t \in Thread : Holding(t, l)
      BY <2>1 DEF Inv, HoldersAreAlone
    <3>2. \A u \in Thread : Holding(u, l) => u = t
      BY <3>1 DEF Inv, HoldersAreAlone
    <3>3. {u \in Thread : pc[u] \in InSection /\ LockFor[Obj(u)] = l} = {t}
      BY <3>1, <3>2 DEF Holding
    <3>4. QED BY <2>1, <3>3
  <2>2. CASE ~taken[l]
    <3>1. {u \in Thread : pc[u] \in InSection /\ LockFor[Obj(u)] = l} = {}
      BY <2>2 DEF Inv, HoldersAreAlone, Holding
    <3>2. QED BY <2>2, <3>1
  <2>3. QED BY <2>1, <2>2
<1>3. QED BY <1>1, <1>2, SpecKeepsInv, PTL

-----------------------------------------------------------------------------
(* What a call has done so far.                                             *)

\* Nobody else is between lock and unlock of an object that a thread moves.
LEMMA AloneOnObject ==
  ASSUME CallsAgree, Inv, NEW t \in Thread, pc[t] \in {"direct"} \cup InSection,
         NEW u \in Thread \ {t}, pc[u] \in InSection
  PROVE  Obj(u) # Obj(t)
<1>1. /\ reg[t].call \in Calls /\ reg[u].call \in Calls /\ Obj(t) = reg[t].call.obj /\ Obj(u) = reg[u].call.obj
      /\ LockFor[Obj(t)] \in Lock /\ LocalsFit(reg[t], pc[t]) /\ LocalsFit(reg[u], pc[u])
  BY CallIsTyped DEF InSection
<1>2. ASSUME Obj(u) = Obj(t) PROVE FALSE
  <2>1. ~BypassesLock(reg[u].call)
    BY <1>1 DEF LocalsFit
  <2>2. ~BypassesLock(reg[t].call)
    BY <1>1, <1>2, <2>1 DEF CallsAgree, BypassesLock
  <2>3. pc[t] # "direct"
    BY <1>1, <2>2 DEF LocalsFit
  <2>4. Holding(t, LockFor[Obj(t)]) /\ Holding(u, LockFor[Obj(t)])
    BY <1>2, <2>3 DEF Holding
  <2>5. QED BY <1>1, <2>4 DEF Inv, HoldersAreAlone
<1>3. QED BY <1>2

LEMMA OthersFollow ==
  ASSUME Inv, CallsFollow, NEW t \in Thread,
         NEW r \in Locals, NEW label \in Label,
         reg' = [reg EXCEPT ![t] = r], pc' = [pc EXCEPT ![t] = label],
         \A u \in Thread \ {t} : pc[u] \in InSection => memory'[Obj(u)] = memory[Obj(u)],
         Follows(r, label, memory'[r.call.obj])
  PROVE  CallsFollow'
<1>1. /\ reg'[t] = r /\ pc'[t] = label
      /\ \A u \in Thread \ {t} : reg'[u] = reg[u] /\ pc'[u] = pc[u]
  BY DEF Inv, FieldsTyped
<1>2. ASSUME NEW u \in Thread PROVE Follows(reg'[u], pc'[u], memory'[reg'[u].call.obj])
  <2>1. CASE u = t
    BY <1>1, <2>1
  <2>2. CASE u # t /\ pc[u] \in InSection
    <3>1. memory'[reg'[u].call.obj] = memory[Obj(u)]
      BY <1>1, <2>2 DEF Obj
    <3>2. QED BY <1>1, <2>2, <3>1 DEF CallsFollow
  <2>3. CASE u # t /\ pc[u] \notin InSection
    BY <1>1, <2>3 DEF Follows, InSection
  <2>4. QED BY <2>1, <2>2, <2>3
<1>3. QED BY <1>2 DEF CallsFollow, Obj

LEMMA AcquireLockFollows ==
  ASSUME Inv, CallsFollow, NEW t \in Thread, AcquireLock(t)
  PROVE  CallsFollow'
<1> DEFINE r == [reg[t] EXCEPT !.before = memory[Obj(t)]]
           label == FirstPhase(Op(t))
<1>1. pc[t] = "lock" /\ memory' = memory
  BY DEF AcquireLock
<1>2. /\ reg[t] \in Locals /\ LocalsFit(reg[t], "lock") /\ Obj(t) = reg[t].call.obj
      /\ Op(t) \in Operation /\ Op(t) = reg[t].call.op /\ memory[Obj(t)] \in Partial
      /\ Obj(t) \in Object
  BY <1>1, CallIsTyped, ValuesArePartial
<1>3. /\ r \in Locals /\ r.call = reg[t].call /\ r.i = 1 /\ r.got = <<>> /\ r.ok /\ r.before = memory[Obj(t)]
  BY <1>2 DEF Locals, LocalsFit
<1>4. /\ label \in {"compare", "write", "read"} /\ label \in Label
      /\ (label = "compare" => Op(t) = "cas") /\ (label = "write" => Op(t) = "store")
      /\ (label = "read" => Op(t) \notin {"store", "cas"})
  BY <1>2 DEF FirstPhase, InSection, Label, Operation
<1>5. reg' = [reg EXCEPT ![t] = r] /\ pc' = [pc EXCEPT ![t] = label]
  BY DEF AcquireLock, Goto
<1> HIDE DEF r, label
<1>6. \A j \in Bytes(Obj(t)) : ~(j < 1)
  BY <1>2, ObjectsAreTyped
<1>7. Follows(r, label, memory[Obj(t)])
  <2>1. CASE label = "compare"
    BY <1>3, <2>1 DEF Follows
  <2>2. CASE label = "read"
    <3>1. Ok(memory[Obj(t)], r.call) = TRUE /\ r.ok = TRUE
      BY <1>2, <1>3, <1>4, <2>2 DEF Ok, Locals
    <3>2. \A j \in 1 .. r.i - 1 : FALSE
      BY <1>3
    <3>3. QED BY <1>2, <1>3, <1>4, <2>2, <3>1, <3>2 DEF Follows
  <2>3. CASE label = "write"
    BY <1>2, <1>3, <1>4, <1>6, <2>3 DEF Follows, Got
  <2>4. QED BY <1>4, <2>1, <2>2, <2>3
<1>8. QED BY <1>1, <1>2, <1>3, <1>4, <1>5, <1>7, OthersFollow

LEMMA CompareByteFollows ==
  ASSUME Inv, CallsFollow, NEW t \in Thread, CompareByte(t)
  PROVE  CallsFollow'
<1> DEFINE m == memory[Obj(t)]
           c == reg[t].call
<1>1. pc[t] = "compare" /\ pc[t] \in InSection /\ memory' = memory /\ {"write", "read"} \subseteq Label
  BY DEF CompareByte, InSection, Label
<1>2. /\ reg[t] \in Locals /\ LocalsFit(reg[t], "compare") /\ Obj(t) = c.obj /\ Obj(t) \in Object
      /\ c \in Calls /\ m \in Values(Obj(t)) /\ c.exp \in Values(Obj(t))
  BY <1>1, CallIsTyped
<1>3. Follows(reg[t], "compare", m)
  BY <1>1 DEF CallsFollow
<1>4. /\ c.op = "cas" /\ m = reg[t].before /\ reg[t].ok = TRUE /\ reg[t].got = <<>>
      /\ reg[t].i \in 1 .. SizeOf[Obj(t)] /\ SizeOf[Obj(t)] \in Nat \ {0}
      /\ \A j \in 1 .. reg[t].i - 1 : m[j] = c.exp[j]
  BY <1>2, <1>3, ObjectsAreTyped DEF Follows, LocalsFit, InSection, Locals
<1>5. CASE m[reg[t].i] = c.exp[reg[t].i] /\ Advance(t, "write", reg[t])
  <2>1. PICK r \in Locals, label \in Label :
           /\ reg' = [reg EXCEPT ![t] = r] /\ pc' = [pc EXCEPT ![t] = label]
           /\ r.call = c /\ r.got = reg[t].got /\ r.ok = reg[t].ok /\ r.before = reg[t].before
           /\ r.i \in Bytes(Obj(t))
           /\ \/ reg[t].i = SizeOf[Obj(t)] /\ label = "write" /\ r.i = 1
              \/ reg[t].i # SizeOf[Obj(t)] /\ label = "compare" /\ r.i = reg[t].i + 1
    BY <1>1, <1>2, <1>5, AdvanceMoves
  <2>2. \A j \in 1 .. reg[t].i : m[j] = c.exp[j]
    BY <1>4, <1>5
  <2>3. ASSUME label = "compare" PROVE Follows(r, label, m)
    <3>1. \A j \in 1 .. r.i - 1 : m[j] = c.exp[j]
      BY <1>4, <2>1, <2>2, <2>3
    <3>2. QED BY <1>4, <2>1, <2>3, <3>1 DEF Follows
  <2>4. ASSUME label = "write" PROVE Follows(r, label, m)
    <3>1. \A j \in Bytes(Obj(t)) : m[j] = c.exp[j] /\ ~(j < 1)
      BY <1>2, <1>4, <2>1, <2>2, <2>4, ObjectsAreTyped
    <3>2. m = c.exp
      BY <1>2, <3>1 DEF Values
    <3>3. QED BY <1>2, <1>4, <2>1, <2>4, <3>1, <3>2 DEF Follows, Got
  <2>5. Follows(r, label, m)
    BY <2>1, <2>3, <2>4
  <2>6. QED BY <1>1, <1>2, <2>1, <2>5, OthersFollow
<1>6. CASE /\ m[reg[t].i] # c.exp[reg[t].i]
           /\ reg' = [reg EXCEPT ![t].ok = FALSE, ![t].i = 1]
           /\ Goto(t, "read")
  <2> DEFINE r == [reg[t] EXCEPT !.ok = FALSE, !.i = 1]
  <2>1. r \in Locals /\ r.call = c /\ r.i = 1 /\ r.before = reg[t].before /\ r.ok = FALSE
    BY <1>2 DEF Locals
  <2>2. reg' = [reg EXCEPT ![t] = r] /\ pc' = [pc EXCEPT ![t] = "read"]
    BY <1>6 DEF Goto, Inv, FieldsTyped
  <2> HIDE DEF r
  <2>3. Follows(r, "read", m)
    <3>1. m # c.exp /\ Ok(m, c) = FALSE
      BY <1>4, <1>6 DEF Ok
    <3>2. \A j \in 1 .. r.i - 1 : FALSE
      BY <2>1
    <3>3. QED BY <1>4, <2>1, <3>1, <3>2 DEF Follows
  <2>4. QED BY <1>1, <1>2, <2>1, <2>2, <2>3, OthersFollow
<1>7. QED BY <1>5, <1>6 DEF CompareByte

LEMMA ReadByteFollows ==
  ASSUME Inv, CallsFollow, NEW t \in Thread, ReadByte(t)
  PROVE  CallsFollow'
<1> DEFINE m == memory[Obj(t)]
           c == reg[t].call
<1>1. pc[t] = "read" /\ pc[t] \in InSection /\ memory' = memory
  BY DEF ReadByte, InSection
<1>2. /\ reg[t] \in Locals /\ LocalsFit(reg[t], "read") /\ Obj(t) = c.obj /\ Obj(t) \in Object
      /\ Op(t) = c.op /\ Op(t) \in Operation /\ m \in Values(Obj(t))
  BY <1>1, CallIsTyped
<1>3. Follows(reg[t], "read", m)
  BY <1>1 DEF CallsFollow
<1>4. /\ c.op # "store" /\ m = reg[t].before /\ reg[t].ok = Ok(m, c) /\ (c.op = "cas" => m # c.exp)
      /\ reg[t].i \in 1 .. SizeOf[Obj(t)] /\ SizeOf[Obj(t)] \in Nat \ {0}
      /\ \A j \in 1 .. reg[t].i - 1 : reg[t].got[j] = m[j]
  BY <1>2, <1>3, ObjectsAreTyped DEF Follows, LocalsFit, InSection
<1>5. PICK r \in Locals, label \in Label :
        /\ reg' = [reg EXCEPT ![t] = r] /\ pc' = [pc EXCEPT ![t] = label]
        /\ r.call = reg[t].call /\ r.got = ReadSoFar(t) /\ r.ok = reg[t].ok
        /\ r.before = reg[t].before /\ r.i \in Bytes(Obj(t))
        /\ \/ reg[t].i = SizeOf[Obj(t)] /\ label = AfterRead(t) /\ r.i = 1
           \/ reg[t].i # SizeOf[Obj(t)] /\ label = "read" /\ r.i = reg[t].i + 1
  BY ReadByteMoves
<1>6. ReadSoFar(t) \in [1 .. reg[t].i -> Byte] /\ \A j \in 1 .. reg[t].i : ReadSoFar(t)[j] = m[j]
  BY <1>4, ReadByteMoves DEF ReadSoFar
<1>7. ASSUME reg[t].i # SizeOf[Obj(t)] PROVE Follows(r, label, m)
  <2>1. label = "read" /\ \A j \in 1 .. r.i - 1 : r.got[j] = m[j]
    BY <1>4, <1>5, <1>6, <1>7
  <2>2. QED BY <1>4, <1>5, <2>1 DEF Follows
<1>8. ASSUME reg[t].i = SizeOf[Obj(t)] PROVE Follows(r, label, m)
  <2>1. label = AfterRead(t) /\ r.i = 1
    BY <1>5, <1>8
  <2>2. r.got = m
    BY <1>2, <1>5, <1>6, <1>8, ObjectsAreTyped DEF Values
  <2>3. \A j \in Bytes(Obj(t)) : ~(j < 1)
    BY <1>2, ObjectsAreTyped
  <2>4. ASSUME label = "unlock" PROVE Follows(r, label, m)
    <3>1. c.op \in {"load", "cas"}
      BY <1>2, <2>1, <2>4 DEF AfterRead
    <3>2. Left(m, c) = m /\ Got(m, c) = m
      BY <1>4, <3>1 DEF Left, Got
    <3>3. QED BY <1>4, <1>5, <2>2, <2>4, <3>2 DEF Follows
  <2>5. ASSUME label = "write" PROVE Follows(r, label, m)
    <3>1. c.op \in {"exchange", "fetch"}
      BY <1>2, <1>4, <2>1, <2>5 DEF AfterRead, Operation
    <3>2. Ok(m, c) = TRUE /\ Got(m, c) = m
      BY <3>1 DEF Ok, Got
    <3>3. QED BY <1>2, <1>4, <1>5, <2>1, <2>2, <2>3, <2>5, <3>1, <3>2 DEF Follows
  <2>6. QED BY <2>1, <2>4, <2>5 DEF AfterRead
<1>9. Follows(r, label, m)
  BY <1>7, <1>8
<1>10. QED BY <1>1, <1>2, <1>5, <1>9, OthersFollow

LEMMA WriteByteFollows ==
  ASSUME CallsAgree, Inv, CallsFollow, NEW t \in Thread, WriteByte(t)
  PROVE  CallsFollow'
<1> DEFINE m == memory[Obj(t)]
           c == reg[t].call
           b == reg[t].before
           n == [m EXCEPT ![reg[t].i] = New(t)[reg[t].i]]
<1>1. pc[t] = "write" /\ pc[t] \in InSection
  BY DEF WriteByte, InSection
<1>2. /\ reg[t] \in Locals /\ LocalsFit(reg[t], "write") /\ Obj(t) = c.obj /\ Obj(t) \in Object
      /\ Op(t) = c.op /\ Op(t) \in Operation /\ m \in Values(Obj(t)) /\ c \in Calls
  BY <1>1, CallIsTyped
<1>3. Follows(reg[t], "write", m)
  BY <1>1 DEF CallsFollow
<1>4. /\ c.op # "load" /\ (c.op = "cas" => b = c.exp) /\ reg[t].ok = TRUE /\ reg[t].got = Got(b, c)
      /\ reg[t].i \in 1 .. SizeOf[Obj(t)] /\ SizeOf[Obj(t)] \in Nat \ {0} /\ b \in Values(Obj(t))
      /\ \A j \in Bytes(Obj(t)) : m[j] = IF j < reg[t].i THEN Left(b, c)[j] ELSE b[j]
  BY <1>2, <1>3, ObjectsAreTyped DEF Follows, LocalsFit, InSection, Locals
<1>5. New(t) = Left(b, c) /\ Ok(b, c) = TRUE
  BY <1>2, <1>4 DEF New, Left, Got, Ok, Operation
<1>6. PICK r \in Locals, label \in Label :
        /\ reg' = [reg EXCEPT ![t] = r] /\ pc' = [pc EXCEPT ![t] = label]
        /\ r.call = reg[t].call /\ r.got = reg[t].got /\ r.ok = reg[t].ok
        /\ r.before = reg[t].before /\ r.i \in Bytes(Obj(t))
        /\ \/ reg[t].i = SizeOf[Obj(t)] /\ label = "unlock" /\ r.i = 1
           \/ reg[t].i # SizeOf[Obj(t)] /\ label = "write" /\ r.i = reg[t].i + 1
  BY WriteByteMoves
<1>7. memory' = [memory EXCEPT ![Obj(t)] = n] /\ n \in Values(Obj(t))
  BY WriteByteMoves
<1>8. memory'[Obj(t)] = n /\ \A o \in Object : o # Obj(t) => memory'[o] = memory[o]
  BY <1>2, <1>7 DEF Inv, FieldsTyped
<1>9. /\ \A j \in Bytes(Obj(t)) : n[j] = IF j < reg[t].i + 1 THEN Left(b, c)[j] ELSE b[j]
      /\ Bytes(Obj(t)) = 1 .. SizeOf[Obj(t)]
  <2>1. Bytes(Obj(t)) = 1 .. SizeOf[Obj(t)]
    BY <1>2, ObjectsAreTyped
  <2>2. \A j \in Bytes(Obj(t)) : n[j] = IF j = reg[t].i THEN New(t)[j] ELSE m[j]
    BY <1>2 DEF Values
  <2>3. QED BY <1>4, <1>5, <2>1, <2>2
<1> HIDE DEF n, b, m
<1>10. ASSUME label = "write" PROVE Follows(r, label, n)
  <2>1. r.i = reg[t].i + 1
    BY <1>6, <1>10
  <2>2. QED BY <1>2, <1>4, <1>6, <1>9, <1>10, <2>1 DEF Follows, b
<1>11. ASSUME label = "unlock" PROVE Follows(r, label, n)
  <2>1. reg[t].i = SizeOf[Obj(t)]
    BY <1>6, <1>11
  <2>2. \A j \in Bytes(Obj(t)) : n[j] = Left(b, c)[j]
    BY <1>4, <1>9, <2>1
  <2>3. Left(b, c) \in Values(Obj(t))
    BY <1>2, <1>4, LeftIsValue
  <2>4. n = Left(b, c)
    BY <1>7, <2>2, <2>3 DEF Values
  <2>5. QED BY <1>4, <1>5, <1>6, <1>11, <2>4 DEF Follows, b
<1>12. Follows(r, label, n)
  BY <1>6, <1>10, <1>11
<1>13. \A u \in Thread \ {t} : pc[u] \in InSection => memory'[Obj(u)] = memory[Obj(u)]
  BY <1>1, <1>8, AloneOnObject, CallIsTyped DEF InSection
<1>14. QED BY <1>2, <1>6, <1>8, <1>12, <1>13, OthersFollow

LEMMA StepFollows ==
  ASSUME CallsAgree, Inv, CallsFollow, [Next]_vars
  PROVE  CallsFollow'
<1>1. CASE UNCHANGED vars
  BY <1>1 DEF vars, CallsFollow, Obj
<1>2. CASE Next
  <2>1. PICK t \in Thread : Continue(t) \/ \E c \in Calls : Enter(t, c)
    BY <1>2 DEF Next
  <2>2. ASSUME NEW label \in Label \ InSection, pc' = [pc EXCEPT ![t] = label],
               \A u \in Thread \ {t} : reg'[u] = reg[u],
               \A u \in Thread \ {t} : pc[u] \in InSection => memory'[Obj(u)] = memory[Obj(u)]
        PROVE  CallsFollow'
    <3>1. pc'[t] = label /\ \A u \in Thread \ {t} : pc'[u] = pc[u]
      BY <2>2 DEF Inv, FieldsTyped
    <3>2. ASSUME NEW u \in Thread PROVE Follows(reg'[u], pc'[u], memory'[reg'[u].call.obj])
      <4>1. CASE pc'[u] \in InSection
        <5>1. u # t /\ pc[u] \in InSection /\ reg'[u] = reg[u] /\ memory'[Obj(u)] = memory[Obj(u)]
          BY <2>2, <3>1, <4>1
        <5>2. QED BY <3>1, <5>1 DEF CallsFollow, Obj
      <4>2. CASE pc'[u] \notin InSection
        BY <4>2 DEF Follows, InSection
      <4>3. QED BY <4>1, <4>2
    <3>3. QED BY <3>2 DEF CallsFollow, Obj
  <2>3. ASSUME NEW c \in Calls, Enter(t, c) PROVE CallsFollow'
    <3>1. PICK label \in Label \ InSection : pc' = [pc EXCEPT ![t] = label]
      BY <2>3 DEF Enter, Goto, Label, InSection
    <3>2. memory' = memory /\ \A u \in Thread \ {t} : reg'[u] = reg[u]
      BY <2>3 DEF Enter, Inv, FieldsTyped
    <3>3. QED BY <2>2, <3>1, <3>2
  <2>4. CASE Leave(t) \/ Unlock(t)
    <3>1. PICK label \in Label \ InSection : pc' = [pc EXCEPT ![t] = label]
      BY <2>4 DEF Leave, Unlock, Goto, Label, InSection
    <3>2. memory' = memory /\ \A u \in Thread \ {t} : reg'[u] = reg[u]
      BY <2>4 DEF Leave, Unlock, Inv, FieldsTyped
    <3>3. QED BY <2>2, <3>1, <3>2
  <2>5. CASE Direct(t)
    <3>1. "done" \in Label \ InSection /\ pc' = [pc EXCEPT ![t] = "done"] /\ pc[t] = "direct"
      BY <2>5 DEF Direct, DirectLoad, DirectStore, DirectExchange, DirectCompareExchange, DirectFetchOp,
         Finish, Goto, Label, InSection
    <3>2. \A u \in Thread \ {t} : reg'[u] = reg[u]
      BY <2>5 DEF Direct, DirectLoad, DirectStore, DirectExchange, DirectCompareExchange, DirectFetchOp,
         Finish, Inv, FieldsTyped
    <3>3. Obj(t) \in Object /\ \A o \in Object : o # Obj(t) => memory'[o] = memory[o]
      BY <2>5, <3>1, CallIsTyped DEF Direct, DirectLoad, DirectStore, DirectExchange,
         DirectCompareExchange, DirectFetchOp, Inv, FieldsTyped
    <3>4. \A u \in Thread \ {t} : pc[u] \in InSection => memory'[Obj(u)] = memory[Obj(u)]
      BY <3>1, <3>3, AloneOnObject, CallIsTyped DEF InSection
    <3>5. QED BY <2>2, <3>1, <3>2, <3>4
  <2>6. QED BY <2>1, <2>3, <2>4, <2>5, AcquireLockFollows, CompareByteFollows, ReadByteFollows,
               WriteByteFollows DEF Continue
<1>3. QED BY <1>1, <1>2

-----------------------------------------------------------------------------
(* The refinement.                                                          *)

\* What SeenValue is, by who is between lock and unlock of an object.
SeenAsSaid ==
  \A o \in Object :
    /\ \A t \in Thread : Between(t, o) => SeenValue[o] = reg[t].before
    /\ (\A t \in Thread : ~Between(t, o)) => SeenValue[o] = memory[o]

LEMMA ValueIsSeen == Inv => SeenAsSaid
<1> SUFFICES ASSUME Inv, NEW o \in Object
    PROVE /\ \A t \in Thread : Between(t, o) => SeenValue[o] = reg[t].before
          /\ (\A t \in Thread : ~Between(t, o)) => SeenValue[o] = memory[o]
  BY DEF SeenAsSaid
<1>1. ASSUME NEW t \in Thread, Between(t, o) PROVE SeenValue[o] = reg[t].before
  <2>1. \A u \in Thread : Between(u, o) => u = t
    <3>1. \A u \in Thread : Between(u, o) => Holding(u, LockFor[o])
      BY DEF Between, Holding
    <3>2. QED BY <1>1, <3>1, ObjectsAreTyped DEF Inv, HoldersAreAlone
  <2>2. (CHOOSE u \in Thread : Between(u, o)) = t
    BY <1>1, <2>1
  <2>3. QED BY <1>1, <2>2 DEF SeenValue
<1>2. ASSUME \A t \in Thread : ~Between(t, o) PROVE SeenValue[o] = memory[o]
  BY <1>2 DEF SeenValue
<1>3. QED BY <1>1, <1>2

LEMMA ValueStays ==
  ASSUME Inv, SeenAsSaid, SeenAsSaid', NEW t \in Thread, NEW r, NEW label,
         reg' = [reg EXCEPT ![t] = r], pc' = [pc EXCEPT ![t] = label],
         NEW o \in Object, memory'[o] = memory[o],
         ~Between(t, o), label \in InSection => r.call.obj # o
  PROVE  SeenValue'[o] = SeenValue[o]
<1>1. reg'[t] = r /\ pc'[t] = label /\ \A u \in Thread \ {t} : reg'[u] = reg[u] /\ pc'[u] = pc[u]
  BY DEF Inv, FieldsTyped
<1>2. ~Between(t, o)'
  BY <1>1 DEF Between, Obj
<1>3. \A u \in Thread \ {t} : Between(u, o)' <=> Between(u, o)
  BY <1>1 DEF Between, Obj
<1>4. CASE \E u \in Thread : Between(u, o)
  <2>1. PICK u \in Thread : Between(u, o)
    BY <1>4
  <2>2. u # t /\ Between(u, o)' /\ reg'[u].before = reg[u].before
    BY <1>1, <1>3, <2>1
  <2>3. SeenValue[o] = reg[u].before
    BY <2>1 DEF SeenAsSaid
  <2>4. SeenValue'[o] = reg'[u].before
    BY <2>2 DEF SeenAsSaid
  <2>5. QED BY <2>2, <2>3, <2>4
<1>5. CASE \A u \in Thread : ~Between(u, o)
  <2>1. \A u \in Thread : ~Between(u, o)'
    BY <1>2, <1>3, <1>5
  <2>2. SeenValue[o] = memory[o]
    BY <1>5 DEF SeenAsSaid
  <2>3. SeenValue'[o] = memory'[o]
    BY <2>1 DEF SeenAsSaid
  <2>4. QED BY <2>2, <2>3
<1>6. QED BY <1>4, <1>5

LEMMA CallAndResultSeen ==
  ASSUME Inv, NEW t \in Thread, NEW r, NEW label,
         reg' = [reg EXCEPT ![t] = r], pc' = [pc EXCEPT ![t] = label]
  PROVE  /\ SeenCall' = [SeenCall EXCEPT ![t] = r.call]
         /\ SeenResult' = [SeenResult EXCEPT ![t] =
                            IF label = "done" THEN [ok |-> r.ok, got |-> r.got] ELSE NoResult]
         /\ r.call = reg[t].call => SeenCall' = SeenCall
         /\ label # "done" /\ pc[t] # "done" => SeenResult' = SeenResult
<1>1. reg'[t] = r /\ pc'[t] = label /\ \A u \in Thread \ {t} : reg'[u] = reg[u] /\ pc'[u] = pc[u]
  BY DEF Inv, FieldsTyped
<1>2. SeenCall' = [SeenCall EXCEPT ![t] = r.call]
  <2>1. \A u \in Thread : reg'[u].call = IF u = t THEN r.call ELSE reg[u].call
    BY <1>1
  <2>2. SeenCall' = [u \in Thread |-> IF u = t THEN r.call ELSE reg[u].call]
    BY <2>1 DEF SeenCall
  <2>3. QED BY <2>2 DEF SeenCall
<1>3. SeenResult' = [SeenResult EXCEPT ![t] =
                      IF label = "done" THEN [ok |-> r.ok, got |-> r.got] ELSE NoResult]
  BY <1>1 DEF SeenResult
<1>4. r.call = reg[t].call => SeenCall' = SeenCall
  BY <1>1 DEF SeenCall
<1>5. label # "done" /\ pc[t] # "done" => SeenResult' = SeenResult
  BY <1>1 DEF SeenResult
<1>6. QED BY <1>2, <1>3, <1>4, <1>5

\* The abstract call of what is left and answered.
LEMMA EffectIsLeft ==
  ASSUME NEW c \in Calls, NEW v
  PROVE  /\ Abstract!After(v, c) = Left(v, c)
         /\ Abstract!Answer(v, c) = [ok |-> Ok(v, c), got |-> Got(v, c)]
  BY DEF Abstract!After, Abstract!Answer, Left, Ok, Got

\* The step at which a call takes effect.
LEMMA EffectStep ==
  ASSUME Inv, SeenAsSaid, SeenAsSaid', NEW t \in Thread, pc[t] \in {"direct", "unlock"},
         NEW r \in Locals, r.call = reg[t].call,
         reg' = [reg EXCEPT ![t] = r], pc' = [pc EXCEPT ![t] = "done"],
         \A o \in Object : o # Obj(t) => memory'[o] = memory[o],
         memory'[Obj(t)] = Left(SeenValue[Obj(t)], r.call),
         r.ok = Ok(SeenValue[Obj(t)], r.call), r.got = Got(SeenValue[Obj(t)], r.call),
         \A u \in Thread \ {t} : ~Between(u, Obj(t))
  PROVE  Abstract!Effect(t)
<1>1. PICK o \in Object, c \in Calls : o = Obj(t) /\ c = reg[t].call /\ o = c.obj
  BY CallIsTyped
<1>2. pc[t] # "done" /\ c # NoCall /\ SeenCall[t] = c /\ SeenResult[t] = NoResult
  BY <1>1, ObjectsAreTyped DEF SeenCall, SeenResult
<1>3. \A p \in Object \ {o} : SeenValue'[p] = SeenValue[p]
  <2>1. \A p \in Object \ {o} : memory'[p] = memory[p] /\ ~Between(t, p)
    BY <1>1 DEF Between
  <2>2. "done" \notin InSection
    BY DEF InSection
  <2>3. QED BY <2>1, <2>2, ValueStays
<1>4. SeenValue'[o] = Left(SeenValue[o], c)
  <2>1. pc'[t] = "done" /\ \A u \in Thread \ {t} : pc'[u] = pc[u] /\ reg'[u] = reg[u]
    BY DEF Inv, FieldsTyped
  <2>2. \A u \in Thread \ {t} : ~Between(u, o)'
    BY <1>1, <2>1 DEF Between, Obj
  <2>3. ~Between(t, o)'
    BY <2>1 DEF Between, InSection
  <2>4. \A u \in Thread : ~Between(u, o)'
    BY <2>2, <2>3
  <2>5. SeenValue'[o] = memory'[o]
    BY <2>4 DEF SeenAsSaid
  <2>6. QED BY <1>1, <2>5
<1>5. SeenValue' = [SeenValue EXCEPT ![o] = Left(SeenValue[o], c)]
  <2>1. \A p \in Object : SeenValue'[p] = IF p = o THEN Left(SeenValue[o], c) ELSE SeenValue[p]
    BY <1>3, <1>4
  <2>2. DOMAIN SeenValue' = Object /\ DOMAIN SeenValue = Object
    BY DEF SeenValue
  <2>3. SeenValue' = [p \in Object |-> SeenValue'[p]] /\ SeenValue = [p \in Object |-> SeenValue[p]]
    BY DEF SeenValue
  <2>4. SeenValue' = [p \in Object |-> IF p = o THEN Left(SeenValue[o], c) ELSE SeenValue[p]]
    BY <2>1, <2>3
  <2>5. QED BY <2>2, <2>3, <2>4
<1>6. /\ SeenCall' = SeenCall
      /\ SeenResult' = [SeenResult EXCEPT ![t] = [ok |-> Ok(SeenValue[o], c), got |-> Got(SeenValue[o], c)]]
  <2>1. SeenCall' = SeenCall /\ SeenResult' = [SeenResult EXCEPT ![t] = [ok |-> r.ok, got |-> r.got]]
    BY CallAndResultSeen
  <2>2. r.ok = Ok(SeenValue[o], c) /\ r.got = Got(SeenValue[o], c)
    BY <1>1
  <2>3. QED BY <2>1, <2>2
<1>7. /\ SeenValue' = [SeenValue EXCEPT ![c.obj] = Abstract!After(@, c)]
      /\ SeenResult' = [SeenResult EXCEPT ![t] = Abstract!Answer(SeenValue[c.obj], c)]
  BY <1>1, <1>5, <1>6, EffectIsLeft
<1>8. QED BY <1>2, <1>6, <1>7 DEF Abstract!Effect

\* Where a call enters or returns, no value changes.
LEMMA ValuesStay ==
  ASSUME Inv, SeenAsSaid, SeenAsSaid', NEW t \in Thread, NEW r, NEW label,
         reg' = [reg EXCEPT ![t] = r], pc' = [pc EXCEPT ![t] = label],
         memory' = memory, pc[t] \notin InSection, label \notin InSection
  PROVE  SeenValue' = SeenValue
<1>1. \A o \in Object : SeenValue'[o] = SeenValue[o]
  BY ValueStays DEF Between
<1>2. QED BY <1>1 DEF SeenValue

\* Between AcquireLock and Unlock the others see no change.
LEMMA HiddenStep ==
  ASSUME Inv, SeenAsSaid, SeenAsSaid', NEW t \in Thread, NEW r \in Locals, NEW label \in InSection,
         pc[t] \in {"lock"} \cup InSection, r.call = reg[t].call,
         reg' = [reg EXCEPT ![t] = r], pc' = [pc EXCEPT ![t] = label],
         \A o \in Object : o # Obj(t) => memory'[o] = memory[o],
         r.before = SeenValue[Obj(t)]
  PROVE  UNCHANGED <<SeenValue, SeenCall, SeenResult>>
<1>1. PICK o \in Object : o = Obj(t) /\ o = r.call.obj
  BY CallIsTyped DEF InSection
<1>2. SeenCall' = SeenCall /\ SeenResult' = SeenResult
  BY CallAndResultSeen DEF InSection
<1>3. \A p \in Object \ {o} : SeenValue'[p] = SeenValue[p]
  <2> TAKE p \in Object \ {o}
  <2>1. p \in Object /\ memory'[p] = memory[p] /\ ~Between(t, p) /\ r.call.obj # p
    BY <1>1 DEF Between
  <2>2. QED BY <2>1, ValueStays
<1>4. SeenValue'[o] = SeenValue[o]
  <2>1. pc'[t] = label /\ reg'[t] = r
    BY DEF Inv, FieldsTyped
  <2>2. Between(t, o)'
    BY <1>1, <2>1 DEF Between, Obj
  <2>3. SeenValue'[o] = reg'[t].before
    BY <2>2 DEF SeenAsSaid
  <2>4. QED BY <1>1, <2>1, <2>3
<1>5. SeenValue' = SeenValue
  BY <1>3, <1>4 DEF SeenValue
<1>6. QED BY <1>2, <1>5

LEMMA DirectTakesEffect ==
  ASSUME CallsAgree, Inv, SeenAsSaid, SeenAsSaid', NEW t \in Thread, Direct(t)
  PROVE  Abstract!Effect(t)
<1>1. pc[t] = "direct" /\ pc[t] \notin InSection
  BY DEF Direct, InSection
<1>0. PICK o \in Object, c \in Calls :
        o = Obj(t) /\ c = reg[t].call /\ o = c.obj /\ c.op = Op(t) /\ c.op \in Operation
  BY <1>1, CallIsTyped
<1>2. PICK m \in Values(o) : m = memory[o]
  BY <1>0, <1>1, CallIsTyped
<1>3. reg[t] \in Locals /\ LocalsFit(reg[t], "direct")
  BY <1>1, CallIsTyped
<1>4. \A u \in Thread \ {t} : ~Between(u, o)
  BY <1>1, <1>0, <1>2, AloneOnObject DEF Between
<1>5. SeenValue[o] = m
  BY <1>1, <1>0, <1>2, <1>4 DEF SeenAsSaid, Between
<1>6. c.op = "store" => c.api = "sized"
  BY <1>0, <1>2, <1>3 DEF CallsAgree, LocalsFit
<1>7. /\ memory' = [memory EXCEPT ![o] = Left(m, c)]
      /\ Finish(t, Ok(m, c), Got(m, c))
  <2>1. memory = [memory EXCEPT ![o] = m]
    BY <1>0, <1>2 DEF Inv, FieldsTyped
  <2>2. CASE c.op = "load"
    BY <1>0, <1>2, <2>1, <2>2 DEF Direct, DirectLoad, DirectStore, DirectExchange, DirectCompareExchange,
       DirectFetchOp, Left, Ok, Got
  <2>3. CASE c.op = "store"
    BY <1>0, <1>2, <1>6, <2>3 DEF Direct, DirectLoad, DirectStore, DirectExchange, DirectCompareExchange,
       DirectFetchOp, Left, Ok, Got
  <2>4. CASE c.op = "exchange"
    BY <1>0, <1>2, <2>4 DEF Direct, DirectLoad, DirectStore, DirectExchange, DirectCompareExchange,
       DirectFetchOp, Left, Ok, Got
  <2>5. CASE c.op = "cas"
    BY <1>0, <1>2, <2>1, <2>5 DEF Direct, DirectLoad, DirectStore, DirectExchange, DirectCompareExchange,
       DirectFetchOp, Left, Ok, Got
  <2>6. CASE c.op = "fetch"
    BY <1>0, <1>2, <2>6 DEF Direct, DirectLoad, DirectStore, DirectExchange, DirectCompareExchange,
       DirectFetchOp, Left, Ok, Got
  <2>7. QED BY <1>0, <1>2, <2>2, <2>3, <2>4, <2>5, <2>6 DEF Operation
<1> DEFINE r == [reg[t] EXCEPT !.ok = Ok(m, c), !.got = Got(m, c)]
<1>8. Ok(m, c) \in BOOLEAN /\ Got(m, c) \in Partial
  BY <1>0, <1>2, LeftIsValue, ValuesArePartial, EmptyIsPartial DEF Ok
<1>9. r \in Locals /\ r.call = c /\ r.ok = Ok(m, c) /\ r.got = Got(m, c)
  BY <1>0, <1>2, <1>3, <1>8 DEF Locals
<1>10. reg' = [reg EXCEPT ![t] = r] /\ pc' = [pc EXCEPT ![t] = "done"]
  BY <1>7 DEF Finish, Goto, Inv, FieldsTyped
<1>11. /\ \A p \in Object : p # o => memory'[p] = memory[p]
       /\ memory'[o] = Left(m, c)
  BY <1>0, <1>2, <1>7 DEF Inv, FieldsTyped
<1> HIDE DEF r
<1>12. QED BY <1>1, <1>0, <1>2, <1>4, <1>5, <1>9, <1>10, <1>11, EffectStep

LEMMA UnlockTakesEffect ==
  ASSUME CallsAgree, Inv, CallsFollow, SeenAsSaid, SeenAsSaid', NEW t \in Thread, Unlock(t)
  PROVE  Abstract!Effect(t)
<1>1. pc[t] = "unlock" /\ pc[t] \in InSection /\ memory' = memory
  BY DEF Unlock, InSection
<1>2. PICK o \in Object, c \in Calls : o = Obj(t) /\ c = reg[t].call /\ o = c.obj
  BY <1>1, CallIsTyped
<1>3. reg[t] \in Locals
  BY <1>1, CallIsTyped
<1>4. SeenValue[o] = reg[t].before
  BY <1>1, <1>2 DEF SeenAsSaid, Between
<1>5. Follows(reg[t], "unlock", memory[o])
  BY <1>1, <1>2 DEF CallsFollow
<1>6. /\ memory[o] = Left(SeenValue[o], c)
      /\ reg[t].ok = Ok(SeenValue[o], c) /\ reg[t].got = Got(SeenValue[o], c)
  BY <1>2, <1>4, <1>5 DEF Follows
<1>7. \A u \in Thread \ {t} : ~Between(u, o)
  BY <1>1, <1>2, AloneOnObject DEF Between
<1>8. reg' = [reg EXCEPT ![t] = reg[t]] /\ pc' = [pc EXCEPT ![t] = "done"]
  BY DEF Unlock, Goto, Inv, FieldsTyped
<1>9. QED BY <1>1, <1>2, <1>3, <1>6, <1>7, <1>8, EffectStep

\* What a locked operation does before it unlocks is not seen.
LEMMA LockedStepsAreHidden ==
  ASSUME CallsAgree, Inv, SeenAsSaid, SeenAsSaid', NEW t \in Thread,
         AcquireLock(t) \/ CompareByte(t) \/ ReadByte(t) \/ WriteByte(t)
  PROVE  UNCHANGED <<SeenValue, SeenCall, SeenResult>>
<1>1. CASE AcquireLock(t)
  <2> DEFINE r == [reg[t] EXCEPT !.before = memory[Obj(t)]]
             label == FirstPhase(Op(t))
  <2>1. pc[t] = "lock" /\ memory' = memory /\ ~taken[LockFor[Obj(t)]]
    BY <1>1 DEF AcquireLock
  <2>2. /\ reg[t] \in Locals /\ Obj(t) \in Object /\ memory[Obj(t)] \in Partial /\ LockFor[Obj(t)] \in Lock
    BY <2>1, CallIsTyped, ValuesArePartial
  <2>3. r \in Locals /\ r.call = reg[t].call /\ r.before = memory[Obj(t)]
    BY <2>2 DEF Locals
  <2>4. label \in InSection
    BY DEF FirstPhase, InSection
  <2>5. reg' = [reg EXCEPT ![t] = r] /\ pc' = [pc EXCEPT ![t] = label]
    BY <1>1 DEF AcquireLock, Goto
  <2>6. \A u \in Thread : ~Between(u, Obj(t))
    BY <2>1, <2>2 DEF Inv, HoldersAreAlone, Holding, Between
  <2>7. SeenValue[Obj(t)] = memory[Obj(t)]
    BY <2>2, <2>6 DEF SeenAsSaid
  <2> HIDE DEF r, label
  <2>8. QED BY <2>1, <2>3, <2>4, <2>5, <2>7, HiddenStep
<1>2. ASSUME pc[t] \in InSection PROVE SeenValue[Obj(t)] = reg[t].before
  <2>1. Between(t, Obj(t)) /\ Obj(t) \in Object
    BY <1>2, CallIsTyped DEF Between, InSection
  <2>2. QED BY <2>1 DEF SeenAsSaid
<1>3. CASE CompareByte(t)
  <2>1. pc[t] = "compare" /\ pc[t] \in InSection /\ memory' = memory /\ {"write", "read"} \subseteq InSection \cap Label
    BY <1>3 DEF CompareByte, InSection, Label
  <2>2. reg[t] \in Locals
    BY <2>1, CallIsTyped
  <2>3. PICK r \in Locals, label \in InSection :
          /\ reg' = [reg EXCEPT ![t] = r] /\ pc' = [pc EXCEPT ![t] = label]
          /\ r.call = reg[t].call /\ r.before = reg[t].before
    <3>1. CASE Advance(t, "write", reg[t])
      BY <2>1, <2>2, <3>1, AdvanceMoves
    <3>2. CASE /\ reg' = [reg EXCEPT ![t].ok = FALSE, ![t].i = 1]
               /\ Goto(t, "read")
      <4> DEFINE r == [reg[t] EXCEPT !.ok = FALSE, !.i = 1]
      <4>1. r \in Locals /\ r.call = reg[t].call /\ r.before = reg[t].before
        BY <2>2 DEF Locals
      <4>2. reg' = [reg EXCEPT ![t] = r] /\ pc' = [pc EXCEPT ![t] = "read"]
        BY <3>2 DEF Goto, Inv, FieldsTyped
      <4> HIDE DEF r
      <4>3. QED BY <2>1, <4>1, <4>2
    <3>3. QED BY <1>3, <3>1, <3>2 DEF CompareByte
  <2>4. QED BY <1>2, <2>1, <2>3, HiddenStep
<1>4. CASE ReadByte(t)
  <2>1. pc[t] = "read" /\ pc[t] \in InSection /\ memory' = memory /\ {"write", "read", "unlock"} \subseteq InSection
    BY <1>4 DEF ReadByte, InSection
  <2>2. PICK r \in Locals, label \in InSection :
          /\ reg' = [reg EXCEPT ![t] = r] /\ pc' = [pc EXCEPT ![t] = label]
          /\ r.call = reg[t].call /\ r.before = reg[t].before
    BY <1>4, <2>1, ReadByteMoves DEF AfterRead
  <2>3. QED BY <1>2, <2>1, <2>2, HiddenStep
<1>5. CASE WriteByte(t)
  <2>1. pc[t] = "write" /\ pc[t] \in InSection /\ {"write", "unlock"} \subseteq InSection
    BY <1>5 DEF WriteByte, InSection
  <2>2. PICK r \in Locals, label \in Label :
          /\ reg' = [reg EXCEPT ![t] = r] /\ pc' = [pc EXCEPT ![t] = label]
          /\ r.call = reg[t].call /\ r.got = reg[t].got /\ r.ok = reg[t].ok
          /\ r.before = reg[t].before /\ r.i \in Bytes(Obj(t))
          /\ \/ reg[t].i = SizeOf[Obj(t)] /\ label = "unlock" /\ r.i = 1
             \/ reg[t].i # SizeOf[Obj(t)] /\ label = "write" /\ r.i = reg[t].i + 1
    BY <1>5, WriteByteMoves
  <2>3. \A o \in Object : o # Obj(t) => memory'[o] = memory[o]
    BY <1>5 DEF WriteByte, Inv, FieldsTyped
  <2>4. QED BY <1>2, <2>1, <2>2, <2>3, HiddenStep
<1>6. QED BY <1>1, <1>3, <1>4, <1>5

\* "An atomic load operation", "an atomic store operation", ... (atomic.c:143-275): a
\* call takes effect at one instant between its invocation and its return, for any
\* threads, objects, sizes and any hash of objects to locks, if the calls of one
\* object agree.
THEOREM CallsStayAtomic ==
  ASSUME CallsAgree
  PROVE  Spec => CallsAreAtomic
<1>1. Init => CallsFollow
  <2>1. Init => \A t \in Thread : pc[t] = "idle"
    BY DEF Init
  <2>2. QED BY <2>1 DEF CallsFollow, Follows
<1>2. Init => Abstract!Init
  <2> SUFFICES ASSUME Init PROVE Abstract!Init
    OBVIOUS
  <2>1. \A t \in Thread : pc[t] = "idle" /\ reg[t].call = NoCall
    <3>1. \A t \in Thread : pc[t] = "idle" /\ reg[t] = NoLocals
      BY DEF Init
    <3>2. NoLocals.call = NoCall
      BY DEF NoLocals
    <3>3. QED BY <3>1, <3>2
  <2>2. SeenCall = [t \in Thread |-> NoCall] /\ SeenResult = [t \in Thread |-> NoResult]
    BY <2>1 DEF SeenCall, SeenResult
  <2>3. \A o \in Object : \A t \in Thread : ~Between(t, o)
    BY <2>1 DEF Between, InSection
  <2>4. SeenValue = [o \in Object |-> [i \in Bytes(o) |-> 0]]
    BY <2>3 DEF SeenValue, Init
  <2>5. QED BY <2>2, <2>4 DEF Abstract!Init
<1>3. Inv /\ Inv' /\ CallsFollow /\ SeenAsSaid /\ SeenAsSaid' /\ [Next]_vars
        => [Abstract!Next]_(Abstract!vars)
  <2> SUFFICES ASSUME Inv, CallsFollow, SeenAsSaid, SeenAsSaid', [Next]_vars
      PROVE  [Abstract!Next]_(Abstract!vars)
    OBVIOUS
  <2>1. ASSUME UNCHANGED <<SeenValue, SeenCall, SeenResult>> PROVE [Abstract!Next]_(Abstract!vars)
    BY <2>1 DEF Abstract!vars
  <2>2. CASE UNCHANGED vars
    <3>1. UNCHANGED <<SeenValue, SeenCall, SeenResult>>
      BY <2>2 DEF vars, SeenValue, SeenCall, SeenResult, Between, Obj
    <3>2. QED BY <2>1, <3>1
  <2>3. CASE Next
    <3>1. PICK t \in Thread : Continue(t) \/ \E c \in Calls : Enter(t, c)
      BY <2>3 DEF Next
    <3>2. ASSUME NEW c \in Calls, Enter(t, c) PROVE Abstract!Invoke(t, c)
      <4> DEFINE r == [reg[t] EXCEPT !.call = c]
                 label == IF BypassesLock(c) THEN "direct" ELSE "lock"
      <4>1. reg[t] \in Locals /\ pc[t] = "idle" /\ reg[t].call = NoCall
        BY <3>2 DEF Enter, Inv, FieldsTyped, LocalsFit
      <4>2. r.call = c
        BY <4>1 DEF Locals
      <4>3. /\ reg' = [reg EXCEPT ![t] = r] /\ pc' = [pc EXCEPT ![t] = label] /\ memory' = memory
            /\ pc[t] \notin InSection /\ label \notin InSection /\ label # "done" /\ pc[t] # "done"
        BY <3>2, <4>1 DEF Enter, Goto, InSection
      <4> HIDE DEF r, label
      <4>4. SeenCall' = [SeenCall EXCEPT ![t] = c] /\ SeenResult' = SeenResult
        BY <4>2, <4>3, CallAndResultSeen
      <4>5. SeenValue' = SeenValue
        BY <4>3, ValuesStay
      <4>6. SeenCall[t] = NoCall
        BY <4>1 DEF SeenCall
      <4>7. QED BY <4>4, <4>5, <4>6 DEF Abstract!Invoke
    <3>3. ASSUME Leave(t) PROVE Abstract!Return(t)
      <4>1. /\ reg' = [reg EXCEPT ![t] = NoLocals] /\ pc' = [pc EXCEPT ![t] = "idle"] /\ memory' = memory
            /\ pc[t] = "done" /\ pc[t] \notin InSection /\ "idle" \notin InSection
        BY <3>3 DEF Leave, Goto, InSection
      <4>2. /\ SeenCall' = [SeenCall EXCEPT ![t] = NoCall]
            /\ SeenResult' = [SeenResult EXCEPT ![t] = NoResult]
        <5>1. NoLocals.call = NoCall
          BY DEF NoLocals
        <5>2. PICK r, label : r = NoLocals /\ label = "idle"
          OBVIOUS
        <5>3. /\ SeenCall' = [SeenCall EXCEPT ![t] = r.call]
              /\ SeenResult' = [SeenResult EXCEPT ![t] =
                                 IF label = "done" THEN [ok |-> r.ok, got |-> r.got] ELSE NoResult]
          BY <4>1, <5>2, CallAndResultSeen
        <5>4. QED BY <5>1, <5>2, <5>3
      <4>3. SeenValue' = SeenValue
        BY <4>1, ValuesStay
      <4>4. SeenResult[t] # NoResult
        <5>1. SeenResult[t] = [ok |-> reg[t].ok, got |-> reg[t].got]
          BY <4>1 DEF SeenResult
        <5>2. reg[t] \in Locals /\ LocalsFit(reg[t], "done") /\ reg[t].call.obj \in Object
          BY <4>1, CallIsTyped
        <5>3. reg[t].ok \in BOOLEAN /\ reg[t].got \in {<<>>} \cup Values(reg[t].call.obj)
          BY <5>2 DEF Locals, LocalsFit
        <5>4. SeenResult[t] \in Answers
          BY <5>1, <5>2, <5>3 DEF Answers, Values
        <5>5. QED BY <5>4, AtomicAssumption
      <4>5. QED BY <4>2, <4>3, <4>4 DEF Abstract!Return
    <3>4. ASSUME Direct(t) \/ Unlock(t) PROVE Abstract!Effect(t)
      BY <3>4, DirectTakesEffect, UnlockTakesEffect
    <3>5. ASSUME AcquireLock(t) \/ CompareByte(t) \/ ReadByte(t) \/ WriteByte(t)
          PROVE  UNCHANGED <<SeenValue, SeenCall, SeenResult>>
      BY <3>5, LockedStepsAreHidden
    <3>6. QED BY <2>1, <3>1, <3>2, <3>3, <3>4, <3>5 DEF Continue, Abstract!Next
  <2>4. QED BY <2>2, <2>3
<1>4. Inv /\ CallsFollow /\ [Next]_vars => CallsFollow'
  BY StepFollows
<1>5. QED BY <1>1, <1>2, <1>3, <1>4, SpecKeepsInv, ValueIsSeen, PTL DEF Spec, CallsAreAtomic, Abstract!Spec
=============================================================================
