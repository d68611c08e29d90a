-------------------------- MODULE StackDepot_proofs --------------------------
(***************************************************************************)
(* Proofs, for any set of threads and stacks, any hash function and any    *)
(* size of the table, its parts and the ids, that the depot of StackDepot  *)
(* keeps Inv, that Inv gives the properties the run checks, that what      *)
(* readers rely on without a lock never changes, and that the depot        *)
(* implements the atomic intern table of Interning.                        *)
(***************************************************************************)
EXTENDS StackDepot, SequenceTheorems, WellFoundedInduction, TLAPS

Node == [stack : Stack \cup {NoStack}, hash : Nat, id : Nat]
Locals == [stack : Stack \cup {NoStack}, seen : Seq(Nat), id : Nat, node : Nat, list : Bucket]

FieldsTyped ==
  /\ mem \in Seq(Node)
  /\ reg \in [Thread -> Locals]
  /\ putAnswers \subseteq Stack \X Nat
  /\ \A k \in Part : died \/ seq[k] < MaxId

On(n, i) == \E j \in DOMAIN bucket[i] : bucket[i][j] = n

\* The ids given out in part k; 0 and the multiples of kMaxId are none.
GoodId(id, k) == k * MaxId < id /\ id <= k * MaxId + seq[k] /\ id < k * MaxId + MaxId

\* A node that a reader can reach is filled in and is in the list of its stack.
NodesFilled ==
  \A i \in Bucket, n \in DOMAIN mem : On(n, i) =>
    /\ mem[n].stack \in Stack
    /\ Idx(mem[n].stack) = i
    /\ mem[n].hash = HashOf[mem[n].stack]
    /\ GoodId(mem[n].id, PartOf(i))

\* The list a Put has searched only grows since, so once the stack is not in the
\* list under the lock, it is nowhere.
PutSearched(t) ==
  /\ pc[t] \notin {"idle", "get"} => reg[t].stack \in Stack
  /\ pc[t] \in {"find", "lock"} => \A j \in DOMAIN reg[t].seen : On(reg[t].seen[j], Idx(reg[t].stack))
  /\ pc[t] \in {"lock", "newid", "alloc", "fill", "publish"} =>
       \A j \in DOMAIN reg[t].seen : mem[reg[t].seen[j]].stack # reg[t].stack
  /\ pc[t] = "unlock" => \E n \in Published : mem[n].stack = reg[t].stack /\ mem[n].id = reg[t].id

\* An id that is not published yet is nobody else's: parts are shared by lists, so
\* the list's lock is not enough and the counter of the part must be atomic.
HasId(t) == pc[t] \in {"alloc", "fill", "publish"}
FreshIds ==
  ~died => \A t \in Thread : HasId(t) =>
    /\ GoodId(reg[t].id, PartOf(Idx(reg[t].stack)))
    /\ \A n \in Published : mem[n].id # reg[t].id
    /\ \A u \in Thread \ {t} : HasId(u) => reg[u].id # reg[t].id

\* So is a node, which its thread fills before it publishes it.
HasNode(t) == pc[t] \in {"fill", "publish"}
FreshNodes ==
  \A t \in Thread : HasNode(t) =>
    /\ reg[t].node \in DOMAIN mem \ Published
    /\ \A u \in Thread \ {t} : HasNode(u) => reg[u].node # reg[t].node
    /\ pc[t] = "publish" =>
         mem[reg[t].node] = [stack |-> reg[t].stack, hash |-> HashOf[reg[t].stack], id |-> reg[t].id]

AnswersStored ==
  \A a \in putAnswers : \E n \in Published : mem[n].stack = a[1] /\ mem[n].id = a[2]

\* A Get has not passed the list of the stack it looks for.
GetInPart(t) ==
  pc[t] = "get" =>
    \E n \in Published :
      /\ mem[n].id = reg[t].id
      /\ <<mem[n].stack, mem[n].id>> \in putAnswers
      /\ PartOf(reg[t].list) = PartOf(Idx(mem[n].stack))
      /\ reg[t].list <= Idx(mem[n].stack)

Inv ==
  /\ TypeOK /\ FieldsTyped
  /\ HolderOwnsList /\ NoTwoNodesAlike
  /\ NodesFilled /\ FreshIds /\ FreshNodes /\ AnswersStored
  /\ \A t \in Thread : PutSearched(t) /\ GetInPart(t)

-----------------------------------------------------------------------------
(* Lists, parts and ids.                                                    *)

LEMMA SmallestMember ==
  ASSUME NEW S \in SUBSET Nat, S # {}
  PROVE  \E x \in S : \A y \in S : x <= y
<1>1. PICK x \in S : \A y \in S : ~(<<y, x>> \in OpToRel(<, Nat))
  BY NatLessThanWellFounded, WFMin
<1>2. \A y \in S : ~(y < x)
  BY <1>1 DEF OpToRel
<1>3. QED BY <1>2

LEMMA Division ==
  ASSUME NEW n \in Nat, NEW d \in Nat \ {0}
  PROVE  n % d \in 0 .. d - 1 /\ n \div d \in Nat /\ n = d * (n \div d) + (n % d)
  OBVIOUS

LEMMA Recomposition ==
  ASSUME NEW n \in Nat, NEW d \in Nat \ {0}, NEW r \in 0 .. d - 1
  PROVE  (n * d + r) \div d = n /\ (n * d + r) % d = r
  OBVIOUS

\* A number below another in the same group of d is not the last of the group.
LEMMA NextInGroup ==
  ASSUME NEW d \in Nat \ {0}, NEW l \in Nat, NEW i \in Nat, l \div d = i \div d, l < i
  PROVE  (l + 1) % d # 0 /\ (l + 1) \div d = i \div d
<1> DEFINE q == i \div d  r == l % d
<1>1. q \in Nat /\ r \in 0 .. d - 1 /\ l = d * q + r
  BY Division, Zenon
<1>2. i % d \in 0 .. d - 1 /\ i = d * q + (i % d)
  BY Division, Zenon
<1> HIDE DEF q, r
<1>3. r + 1 \in 1 .. d - 1 /\ l + 1 = q * d + (r + 1)
  BY <1>1, <1>2
<1>4. (l + 1) % d # 0 /\ (l + 1) \div d = q
  BY <1>1, <1>3
<1>5. QED BY <1>4 DEF q

LEMMA DepotSizes ==
  /\ TabSize \in Nat \ {0} /\ PartSize \in Nat \ {0} /\ MaxId \in Nat \ {0}
  /\ TabSize \div PartSize \in Nat /\ TabSize = PartSize * (TabSize \div PartSize)
  BY DepotAssumption

LEMMA ListsHaveParts ==
  /\ 0 \in Bucket /\ \A i \in Bucket : i \in Nat /\ PartOf(i) \in Part
  /\ \A k \in Part : k \in Nat
  /\ \A st \in Stack : Idx(st) \in Bucket
<1>1. ASSUME NEW i \in Bucket PROVE i \in Nat /\ PartOf(i) \in Part
  <2>1. i \in Nat /\ i < TabSize
    BY DepotSizes, <1>1 DEF Bucket
  <2>2. i \div PartSize \in Nat /\ i % PartSize \in Nat /\ i = PartSize * (i \div PartSize) + (i % PartSize)
    BY <2>1, DepotSizes
  <2>3. i \div PartSize < TabSize \div PartSize
    BY <2>1, <2>2, DepotSizes
  <2>4. QED BY <2>1, <2>2, <2>3, DepotSizes DEF PartOf, Part
<1>2. \A st \in Stack : HashOf[st] \in Nat
  BY DepotAssumption
<1>3. \A st \in Stack : Idx(st) \in Bucket
  BY <1>2, DepotSizes DEF Idx, Bucket
<1>4. 0 \in Bucket /\ \A k \in Part : k \in Nat
  BY DepotSizes DEF Bucket, Part
<1>5. QED BY <1>1, <1>3, <1>4

\* An id names the part it was given out in: no two parts share one.
LEMMA IdsNameParts ==
  ASSUME NEW k \in Nat, NEW id \in Nat, k * MaxId < id, id < k * MaxId + MaxId
  PROVE  id % MaxId # 0 /\ id \div MaxId = k
<1>1. k * MaxId \in Nat
  BY DepotSizes
<1>2. id - k * MaxId \in 1 .. MaxId - 1 /\ id = k * MaxId + (id - k * MaxId)
  BY <1>1, DepotSizes
<1>3. \A r \in 0 .. MaxId - 1 : (k * MaxId + r) \div MaxId = k /\ (k * MaxId + r) % MaxId = r
  BY Recomposition, DepotSizes
<1>4. QED BY <1>1, <1>2, <1>3, DepotSizes

\* The scan of a part goes from its first list to its last.
LEMMA ScanOfPart ==
  ASSUME NEW i \in Bucket
  PROVE  /\ PartOf(i) * PartSize \in Bucket /\ PartOf(i) * PartSize <= i
         /\ PartOf(PartOf(i) * PartSize) = PartOf(i)
         /\ \A l \in Bucket : PartOf(l) = PartOf(i) /\ l < i =>
              /\ (l + 1) % PartSize # 0
              /\ l + 1 \in Bucket /\ PartOf(l + 1) = PartOf(i) /\ l + 1 <= i
<1>1. i \in Nat /\ i < TabSize /\ PartOf(i) \in Nat
  BY DepotSizes DEF Bucket, PartOf
<1>2. PartOf(i) * PartSize \in 0 .. i
  BY <1>1, DepotSizes DEF PartOf
<1>3. PartOf(PartOf(i) * PartSize) = PartOf(i)
  BY <1>1, DepotSizes DEF PartOf
<1>4. ASSUME NEW l \in Bucket, PartOf(l) = PartOf(i), l < i
      PROVE  (l + 1) % PartSize # 0 /\ PartOf(l + 1) = PartOf(i)
  <2>1. l \in Nat
    BY DepotSizes DEF Bucket
  <2>2. QED BY <1>1, <1>4, <2>1, DepotSizes, NextInGroup DEF PartOf
<1>5. QED BY <1>1, <1>2, <1>3, <1>4, DepotSizes DEF Bucket

-----------------------------------------------------------------------------
(* What is in the lists.                                                    *)

LEMMA OnIsPublished ==
  /\ \A n, i : i \in Bucket /\ On(n, i) => n \in Published
  /\ \A n \in Published : \E i \in Bucket : On(n, i)
  BY DEF Published, On

LEMMA NodesAreKept ==
  ASSUME TypeOK, FieldsTyped
  PROVE  /\ \A n : \A i \in Bucket : On(n, i) => n \in DOMAIN mem
         /\ \A n \in Published : n \in DOMAIN mem /\ mem[n] \in Node
         /\ DOMAIN mem = 1 .. Len(mem) /\ Len(mem) \in Nat
<1>1. DOMAIN mem = 1 .. Len(mem) /\ Len(mem) \in Nat /\ \A n \in DOMAIN mem : mem[n] \in Node
  BY LenProperties DEF FieldsTyped
<1>2. ASSUME NEW i \in Bucket, NEW n, On(n, i) PROVE n \in DOMAIN mem
  <2>1. bucket[i] \in Seq(DOMAIN mem)
    BY DEF TypeOK
  <2>2. \A j \in DOMAIN bucket[i] : bucket[i][j] \in DOMAIN mem
    BY <2>1, LenProperties
  <2>3. QED BY <1>2, <2>2 DEF On
<1>3. QED BY <1>1, <1>2, OnIsPublished

\* find returns 0 exactly when the stack is not in the list: ids are never 0.
LEMMA FindDecides ==
  ASSUME Inv, NEW t \in Thread, pc[t] \in {"find", "refind"}
  PROVE  LET id == Find(reg[t].seen, reg[t].stack) IN
         /\ id = 0 => \A j \in DOMAIN reg[t].seen : mem[reg[t].seen[j]].stack # reg[t].stack
         /\ id # 0 => \E n \in Published : mem[n].stack = reg[t].stack /\ mem[n].id = id
<1> DEFINE list == reg[t].seen
           st == reg[t].stack
           hits == {j \in DOMAIN list : mem[list[j]].hash = HashOf[st] /\ mem[list[j]].stack = st}
           first == CHOOSE j \in hits : \A k \in hits : j <= k
<1>1. st \in Stack /\ Idx(st) \in Bucket
  BY ListsHaveParts DEF Inv, PutSearched
<1>2. \A j \in DOMAIN list : On(list[j], Idx(st))
  <2>1. CASE pc[t] = "find"
    BY <2>1 DEF Inv, PutSearched
  <2>2. CASE pc[t] = "refind"
    BY <2>2 DEF Inv, HolderOwnsList, Holding, On
  <2>3. QED BY <2>1, <2>2
<1>3. \A j \in DOMAIN list : /\ list[j] \in Published
                             /\ mem[list[j]].id \in Nat /\ mem[list[j]].id # 0
                             /\ mem[list[j]].stack = st => mem[list[j]].hash = HashOf[st]
  <2>1. ASSUME NEW n, On(n, Idx(st))
        PROVE  n \in Published /\ mem[n].id \in Nat /\ mem[n].id # 0
               /\ (mem[n].stack = st => mem[n].hash = HashOf[st])
    <3>1. n \in Published /\ n \in DOMAIN mem /\ mem[n].id \in Nat
      BY <1>1, <2>1, OnIsPublished, NodesAreKept DEF Inv, Node
    <3>2. GoodId(mem[n].id, PartOf(Idx(st))) /\ mem[n].hash = HashOf[mem[n].stack]
      BY <1>1, <2>1, <3>1 DEF Inv, NodesFilled
    <3>3. PartOf(Idx(st)) * MaxId \in Nat
      BY <1>1, ListsHaveParts, DepotSizes
    <3>4. QED BY <3>1, <3>2, <3>3 DEF GoodId
  <2>2. QED BY <1>2, <2>1
<1>4. ASSUME hits # {} PROVE first \in hits
  <2>1. DOMAIN list \subseteq Nat
    BY LenProperties DEF Inv, FieldsTyped, Locals
  <2>2. hits \subseteq Nat
    BY <2>1
  <2>3. \E j \in hits : \A k \in hits : j <= k
    BY <1>4, <2>2, SmallestMember
  <2>4. QED BY <2>3, Zenon
<1>5. Find(list, st) = IF hits = {} THEN 0 ELSE mem[list[first]].id
  BY DEF Find
<1>6. hits = {} => \A j \in DOMAIN list : mem[list[j]].stack # st
  BY <1>3
<1> HIDE DEF first
<1>7. hits # {} => first \in DOMAIN list /\ mem[list[first]].stack = st
  BY <1>4
<1> HIDE DEF hits
<1>8. QED BY <1>3, <1>5, <1>6, <1>7

-----------------------------------------------------------------------------
LEMMA NoCallTyped == NoCall \in Locals /\ NoCall.stack = NoStack /\ NoCall.seen = <<>>
                     /\ NoCall.id = 0 /\ NoCall.node = 0 /\ NoCall.list = 0
<1>1. 0 \in Bucket /\ <<>> \in Seq(Nat)
  BY ListsHaveParts, EmptySeq
<1>2. QED BY <1>1 DEF NoCall, Locals

LEMMA InitEstablishesInv == Init => Inv
<1> SUFFICES ASSUME Init PROVE Inv
  OBVIOUS
<1>1. mem = <<>> /\ mem \in Seq(Node) /\ DOMAIN mem = {}
  <2>1. mem = <<>> /\ mem \in Seq(Node) /\ Len(mem) = 0
    BY EmptySeq DEF Init
  <2>2. QED BY <2>1, LenProperties
<1>2. \A S : <<>> \in Seq(S) /\ DOMAIN <<>> = {}
  BY EmptySeq
<1>3. \A i \in Bucket : bucket[i] = <<>> /\ \A n : ~On(n, i)
  BY <1>2 DEF Init, On
<1>4. Published = {}
  BY <1>3, OnIsPublished
<1>5. \A t \in Thread : pc[t] = "idle" /\ reg[t] = NoCall
  BY DEF Init
<1>6. TypeOK
  <2>1. bucket \in [Bucket -> Seq(DOMAIN mem)]
    BY <1>2 DEF Init
  <2>2. seq \in [Part -> 0 .. MaxId]
    BY DepotSizes DEF Init
  <2>3. \A t \in Thread : reg[t].seen \in Seq(DOMAIN mem) /\ reg[t].list \in Bucket
                          /\ reg[t].stack \in Stack \cup {NoStack} /\ reg[t].node = 0
    BY <1>2, <1>5, NoCallTyped, ListsHaveParts
  <2>4. QED BY <1>1, <2>1, <2>2, <2>3 DEF Init, TypeOK, Label
<1>7. FieldsTyped
  <2>1. \A k \in Part : seq[k] < MaxId
    BY DepotSizes DEF Init
  <2>2. reg \in [Thread -> Locals]
    BY NoCallTyped DEF Init
  <2>3. QED BY <1>1, <2>1, <2>2 DEF Init, FieldsTyped
<1>8. HolderOwnsList /\ FreshIds /\ FreshNodes
  BY <1>5 DEF HolderOwnsList, Holding, FreshIds, HasId, FreshNodes, HasNode
<1>9. NoTwoNodesAlike /\ NodesFilled /\ AnswersStored
  BY <1>3, <1>4 DEF NoTwoNodesAlike, NodesFilled, AnswersStored, Init
<1>10. \A t \in Thread : PutSearched(t) /\ GetInPart(t)
  BY <1>5 DEF PutSearched, GetInPart
<1>11. QED BY <1>6, <1>7, <1>8, <1>9, <1>10 DEF Inv

-----------------------------------------------------------------------------
(* Steps that leave lists, nodes and counters alone: it is enough that what *)
(* they claim for the thread that moves is so.                              *)

LEMMA ThreadMoves ==
  ASSUME TypeOK, FieldsTyped, NEW t \in Thread, NEW label \in Label, Goto(t, label),
         NEW r \in Locals, reg' = [reg EXCEPT ![t] = r]
  PROVE  /\ pc' \in [Thread -> Label] /\ reg' \in [Thread -> Locals]
         /\ pc'[t] = label /\ reg'[t] = r
         /\ \A u \in Thread \ {t} : pc'[u] = pc[u] /\ reg'[u] = reg[u]
  BY DEF TypeOK, FieldsTyped, Goto

LEMMA SetIsUpdate ==
  ASSUME FieldsTyped, NEW t \in Thread, NEW v
  PROVE  /\ v \in Seq(Nat) /\ Set(t, "seen", v) =>
              [reg[t] EXCEPT !.seen = v] \in Locals /\ reg' = [reg EXCEPT ![t] = [reg[t] EXCEPT !.seen = v]]
         /\ v \in Nat /\ Set(t, "id", v) =>
              [reg[t] EXCEPT !.id = v] \in Locals /\ reg' = [reg EXCEPT ![t] = [reg[t] EXCEPT !.id = v]]
         /\ v \in Nat /\ Set(t, "node", v) =>
              [reg[t] EXCEPT !.node = v] \in Locals /\ reg' = [reg EXCEPT ![t] = [reg[t] EXCEPT !.node = v]]
         /\ v \in Bucket /\ Set(t, "list", v) =>
              [reg[t] EXCEPT !.list = v] \in Locals /\ reg' = [reg EXCEPT ![t] = [reg[t] EXCEPT !.list = v]]
  BY DEF FieldsTyped, Set, Locals

LEMMA QuietStepKeepsInv ==
  ASSUME Inv, NEW t \in Thread, NEW label \in Label, Goto(t, label),
         NEW r \in Locals, reg' = [reg EXCEPT ![t] = r],
         UNCHANGED <<bucket, seq, mem, died>>, locked' \in [Bucket -> BOOLEAN],
         r.seen \in Seq(DOMAIN mem), r.node \in {0} \cup DOMAIN mem,
         ~HasId(t)', putAnswers \subseteq putAnswers', putAnswers' \subseteq Stack \X Nat,
         HolderOwnsList', AnswersStored', PutSearched(t)', GetInPart(t)'
  PROVE  Inv'
<1>1. /\ pc' \in [Thread -> Label] /\ reg' \in [Thread -> Locals]
      /\ pc'[t] = label /\ reg'[t] = r
      /\ \A u \in Thread \ {t} : pc'[u] = pc[u] /\ reg'[u] = reg[u]
  BY ThreadMoves DEF Inv
<1>2. Published' = Published /\ \A n, i : On(n, i)' <=> On(n, i)
  BY DEF Published, On
<1>3. TypeOK'
  <2>1. reg'[t].stack \in Stack \cup {NoStack} /\ reg'[t].list \in Bucket
    BY <1>1 DEF Locals
  <2>2. QED BY <1>1, <2>1 DEF Inv, TypeOK
<1>4. FieldsTyped'
  BY <1>1 DEF Inv, FieldsTyped
<1>5. (NoTwoNodesAlike /\ NodesFilled)'
  BY <1>2 DEF Inv, NoTwoNodesAlike, NodesFilled, GoodId
<1>6. ~HasNode(t)'
  BY DEF HasId, HasNode
<1>7. \A u \in Thread \ {t} : (HasId(u)' <=> HasId(u)) /\ (HasNode(u)' <=> HasNode(u))
  BY <1>1 DEF HasId, HasNode
<1>8. FreshIds'
  BY <1>1, <1>2, <1>7 DEF Inv, FreshIds, GoodId
<1>9. FreshNodes'
  BY <1>1, <1>2, <1>6, <1>7 DEF Inv, FreshNodes
<1>10. ASSUME NEW u \in Thread \ {t} PROVE (PutSearched(u) /\ GetInPart(u))'
  BY <1>1, <1>2 DEF Inv, PutSearched, GetInPart
<1>11. QED BY <1>3, <1>4, <1>5, <1>8, <1>9, <1>10 DEF Inv

\* Returning: the locals are reset and the answer is of a published node.
LEMMA ReturnKeepsInv ==
  ASSUME Inv, NEW t \in Thread, NEW id, ReturnId(t, id), reg[t].stack \in Stack,
         \E n \in Published : mem[n].stack = reg[t].stack /\ mem[n].id = id,
         UNCHANGED <<bucket, seq, mem, died>>, locked' \in [Bucket -> BOOLEAN], HolderOwnsList'
  PROVE  Inv'
<1>1. /\ Goto(t, "idle") /\ reg' = [reg EXCEPT ![t] = NoCall] /\ "idle" \in Label
      /\ putAnswers' = putAnswers \cup {<<reg[t].stack, id>>}
  BY DEF ReturnId, Label
<1>2. pc'[t] = "idle" /\ ~HasId(t)'
  BY <1>1, NoCallTyped, ThreadMoves DEF Inv, HasId
<1>3. NoCall.seen \in Seq(DOMAIN mem) /\ NoCall.node \in {0} \cup DOMAIN mem
  BY NoCallTyped, EmptySeq
<1>4. id \in Nat
  BY NodesAreKept DEF Inv, Node
<1>5. Published' = Published
  BY DEF Published
<1>6. AnswersStored' /\ putAnswers' \subseteq Stack \X Nat
  BY <1>1, <1>4, <1>5 DEF Inv, AnswersStored, FieldsTyped
<1>7. PutSearched(t)' /\ GetInPart(t)'
  BY <1>2 DEF PutSearched, GetInPart
<1>8. QED BY <1>1, <1>2, <1>3, <1>6, <1>7, NoCallTyped, QuietStepKeepsInv

LEMMA PutLoadKeepsInv ==
  ASSUME Inv, NEW t \in Thread, NEW st \in Stack, PutLoad(t, st), UNCHANGED died
  PROVE  Inv'
<1> DEFINE r == [NoCall EXCEPT !.stack = st, !.seen = bucket[Idx(st)]]
<1>1. /\ pc[t] = "idle" /\ Goto(t, "find") /\ reg' = [reg EXCEPT ![t] = r] /\ "find" \in Label
      /\ UNCHANGED <<bucket, locked, seq, mem, putAnswers>>
  BY DEF PutLoad, Label, shared, history
<1>2. Idx(st) \in Bucket /\ bucket[Idx(st)] \in Seq(DOMAIN mem)
  BY ListsHaveParts DEF Inv, TypeOK
<1>3. bucket[Idx(st)] \in Seq(Nat)
  <2>1. DOMAIN mem \subseteq Nat
    BY NodesAreKept DEF Inv
  <2>2. QED BY <1>2, <2>1, SeqMonotonic
<1>4. /\ r \in Locals /\ r.seen = bucket[Idx(st)] /\ r.stack = st /\ r.node = 0
  BY <1>3, NoCallTyped DEF Locals
<1> HIDE DEF r
<1>5. /\ pc'[t] = "find" /\ reg'[t] = r
      /\ \A u \in Thread \ {t} : pc'[u] = pc[u] /\ reg'[u] = reg[u]
  BY <1>1, <1>4, ThreadMoves DEF Inv
<1>6. HolderOwnsList'
  BY <1>1, <1>5 DEF Inv, HolderOwnsList, Holding
<1>7. PutSearched(t)' /\ GetInPart(t)' /\ ~HasId(t)'
  BY <1>1, <1>4, <1>5 DEF PutSearched, GetInPart, HasId, On
<1>8. AnswersStored' /\ putAnswers' \subseteq Stack \X Nat
  BY <1>1 DEF Inv, AnswersStored, FieldsTyped, Published
<1>9. locked' \in [Bucket -> BOOLEAN]
  BY <1>1 DEF Inv, TypeOK
<1>10. QED BY <1>1, <1>2, <1>4, <1>6, <1>7, <1>8, <1>9, QuietStepKeepsInv

LEMMA PutFindKeepsInv ==
  ASSUME Inv, NEW t \in Thread, PutFind(t), UNCHANGED died
  PROVE  Inv'
<1> DEFINE id == Find(reg[t].seen, reg[t].stack)
<1>1. /\ pc[t] = "find" /\ UNCHANGED <<bucket, locked, seq, mem>>
      /\ reg[t].stack \in Stack /\ locked' \in [Bucket -> BOOLEAN]
      /\ (id # 0 /\ ReturnId(t, id)) \/ (id = 0 /\ Goto(t, "lock") /\ UNCHANGED <<reg, history>>)
  BY DEF PutFind, shared, Inv, PutSearched, TypeOK
<1> HIDE DEF id
<1>2. /\ id = 0 => \A j \in DOMAIN reg[t].seen : mem[reg[t].seen[j]].stack # reg[t].stack
      /\ id # 0 => \E n \in Published : mem[n].stack = reg[t].stack /\ mem[n].id = id
  BY <1>1, FindDecides DEF id
<1>3. CASE id # 0 /\ ReturnId(t, id)
  <2>1. /\ pc'[t] = "idle"
        /\ \A u \in Thread \ {t} : pc'[u] = pc[u] /\ reg'[u] = reg[u]
    BY <1>3, NoCallTyped, ThreadMoves DEF Inv, ReturnId, Label
  <2>2. HolderOwnsList'
    BY <1>1, <2>1 DEF Inv, HolderOwnsList, Holding
  <2>3. QED BY <1>1, <1>2, <1>3, <2>2, ReturnKeepsInv
<1>4. CASE id = 0 /\ Goto(t, "lock") /\ UNCHANGED <<reg, history>>
  <2>1. reg[t] \in Locals /\ reg' = [reg EXCEPT ![t] = reg[t]] /\ "lock" \in Label
    BY <1>4 DEF Inv, FieldsTyped, Label
  <2>2. /\ pc'[t] = "lock" /\ reg'[t] = reg[t]
        /\ \A u \in Thread \ {t} : pc'[u] = pc[u] /\ reg'[u] = reg[u]
    <3>1. pc \in [Thread -> Label]
      BY DEF Inv, TypeOK
    <3>2. QED BY <1>4, <3>1 DEF Goto
  <2>3. HolderOwnsList'
    BY <1>1, <2>2 DEF Inv, HolderOwnsList, Holding
  <2>4. PutSearched(t)' /\ GetInPart(t)' /\ ~HasId(t)'
    BY <1>1, <1>2, <1>4, <2>2 DEF Inv, PutSearched, GetInPart, HasId, On
  <2>5. AnswersStored' /\ UNCHANGED putAnswers /\ putAnswers' \subseteq Stack \X Nat
    BY <1>1, <1>4 DEF Inv, AnswersStored, FieldsTyped, Published, history
  <2>6. reg[t].seen \in Seq(DOMAIN mem) /\ reg[t].node \in {0} \cup DOMAIN mem
    BY DEF Inv, TypeOK
  <2>7. QED BY <1>1, <1>4, <2>1, <2>3, <2>4, <2>5, <2>6, QuietStepKeepsInv
<1>5. QED BY <1>1, <1>3, <1>4

\* Under the lock: the list is the one searched, or it is searched again.
LEMMA PutLockKeepsInv ==
  ASSUME Inv, NEW t \in Thread, PutLock(t), UNCHANGED died
  PROVE  Inv'
<1> DEFINE i == Idx(reg[t].stack)
           label == IF bucket[i] # reg[t].seen THEN "refind" ELSE "newid"
           r == [reg[t] EXCEPT !.seen = bucket[i]]
<1>1. /\ pc[t] = "lock" /\ ~locked[i] /\ locked' = [locked EXCEPT ![i] = TRUE]
      /\ Goto(t, label) /\ Set(t, "seen", bucket[i]) /\ label \in Label
      /\ UNCHANGED <<bucket, seq, mem, putAnswers>>
  BY DEF PutLock, history, Label
<1>2. reg[t].stack \in Stack /\ i \in Bucket /\ bucket[i] \in Seq(DOMAIN mem)
  BY <1>1, ListsHaveParts DEF Inv, PutSearched, TypeOK
<1>3. bucket[i] \in Seq(Nat)
  <2>1. DOMAIN mem \subseteq Nat
    BY NodesAreKept DEF Inv
  <2>2. QED BY <1>2, <2>1, SeqMonotonic
<1>4. r \in Locals /\ reg' = [reg EXCEPT ![t] = r]
  BY <1>1, <1>3, SetIsUpdate DEF Inv
<1>5. r.seen = bucket[i] /\ r.stack = reg[t].stack /\ r.node = reg[t].node
  BY DEF Inv, FieldsTyped, Locals
<1>6. label = "newid" => bucket[i] = reg[t].seen
  OBVIOUS
<1>7. label \in {"refind", "newid"}
  OBVIOUS
<1> HIDE DEF r, label
<1>8. /\ pc'[t] = label /\ reg'[t] = r
      /\ \A u \in Thread \ {t} : pc'[u] = pc[u] /\ reg'[u] = reg[u]
  BY <1>1, <1>4, ThreadMoves DEF Inv
<1>9. HolderOwnsList'
  <2>1. \A u \in Thread : Holding(u) => Idx(reg[u].stack) # i
    BY <1>1 DEF Inv, HolderOwnsList
  <2>2. Idx(reg'[t].stack) = i /\ bucket'[i] = reg'[t].seen /\ locked'[i]
    BY <1>1, <1>2, <1>5, <1>8 DEF Inv, TypeOK
  <2>3. \A u \in Thread \ {t} : Holding(u)' => locked'[Idx(reg[u].stack)] /\ Holding(u)
    BY <1>1, <1>2, <1>8 DEF Inv, HolderOwnsList, Holding, TypeOK
  <2>4. QED BY <1>1, <1>8, <2>1, <2>2, <2>3 DEF Inv, HolderOwnsList
<1>10. PutSearched(t)' /\ GetInPart(t)' /\ ~HasId(t)'
  BY <1>1, <1>2, <1>5, <1>6, <1>7, <1>8 DEF Inv, PutSearched, GetInPart, HasId
<1>11. AnswersStored' /\ putAnswers' \subseteq Stack \X Nat
  BY <1>1 DEF Inv, AnswersStored, FieldsTyped, Published
<1>12. locked' \in [Bucket -> BOOLEAN]
  BY <1>1 DEF Inv, TypeOK
<1>13. r.seen \in Seq(DOMAIN mem) /\ r.node \in {0} \cup DOMAIN mem
  BY <1>2, <1>5 DEF Inv, TypeOK
<1>14. QED BY <1>1, <1>4, <1>9, <1>10, <1>11, <1>12, <1>13, QuietStepKeepsInv

LEMMA PutRefindKeepsInv ==
  ASSUME Inv, NEW t \in Thread, PutRefind(t), UNCHANGED died
  PROVE  Inv'
<1> DEFINE id == Find(reg[t].seen, reg[t].stack)
           r == [reg[t] EXCEPT !.id = id]
<1>1. /\ pc[t] = "refind" /\ UNCHANGED <<bucket, locked, seq, mem, putAnswers>>
      /\ reg[t].stack \in Stack /\ locked' \in [Bucket -> BOOLEAN]
      /\ (id # 0 /\ Set(t, "id", id) /\ Goto(t, "unlock")) \/ (id = 0 /\ Goto(t, "newid") /\ UNCHANGED reg)
  BY DEF PutRefind, shared, history, Inv, PutSearched, TypeOK
<1> HIDE DEF id
<1>2. /\ id = 0 => \A j \in DOMAIN reg[t].seen : mem[reg[t].seen[j]].stack # reg[t].stack
      /\ id # 0 => \E n \in Published : mem[n].stack = reg[t].stack /\ mem[n].id = id
  BY <1>1, FindDecides DEF id
<1>3. PICK q \in Locals, label \in {"unlock", "newid"} :
        /\ reg' = [reg EXCEPT ![t] = q] /\ Goto(t, label)
        /\ q.seen = reg[t].seen /\ q.stack = reg[t].stack /\ q.node = reg[t].node
        /\ label = "unlock" => id # 0 /\ q.id = id
        /\ label = "newid" => id = 0
  <2>1. CASE id # 0 /\ Set(t, "id", id) /\ Goto(t, "unlock")
    <3>1. id \in Nat
      BY <1>2, <2>1, NodesAreKept DEF Inv, Node
    <3>2. r \in Locals /\ reg' = [reg EXCEPT ![t] = r]
      BY <2>1, <3>1, SetIsUpdate DEF Inv
    <3>3. r.seen = reg[t].seen /\ r.stack = reg[t].stack /\ r.node = reg[t].node /\ r.id = id
      BY DEF Inv, FieldsTyped, Locals
    <3>4. QED BY <2>1, <3>2, <3>3
  <2>2. CASE id = 0 /\ Goto(t, "newid") /\ UNCHANGED reg
    <3>1. reg[t] \in Locals /\ reg' = [reg EXCEPT ![t] = reg[t]]
      BY <2>2 DEF Inv, FieldsTyped
    <3>2. QED BY <2>2, <3>1
  <2>3. QED BY <1>1, <2>1, <2>2
<1>4. /\ pc'[t] = label /\ reg'[t] = q /\ label \in Label
      /\ \A u \in Thread \ {t} : pc'[u] = pc[u] /\ reg'[u] = reg[u]
  BY <1>3, ThreadMoves DEF Inv, Label
<1>5. HolderOwnsList'
  BY <1>1, <1>3, <1>4 DEF Inv, HolderOwnsList, Holding
<1>6. PutSearched(t)' /\ GetInPart(t)' /\ ~HasId(t)'
  <2>1. Published' = Published
    BY <1>1 DEF Published
  <2>2. QED BY <1>1, <1>2, <1>3, <1>4, <2>1 DEF PutSearched, GetInPart, HasId
<1>7. AnswersStored' /\ putAnswers' \subseteq Stack \X Nat
  BY <1>1 DEF Inv, AnswersStored, FieldsTyped, Published
<1>8. q.seen \in Seq(DOMAIN mem) /\ q.node \in {0} \cup DOMAIN mem
  BY <1>3 DEF Inv, TypeOK
<1>9. QED BY <1>1, <1>3, <1>4, <1>5, <1>6, <1>7, <1>8, QuietStepKeepsInv

\* The list is stored back as it was found: nobody else has changed it.
LEMMA PutUnlockKeepsInv ==
  ASSUME Inv, NEW t \in Thread, PutUnlock(t), UNCHANGED died
  PROVE  Inv' /\ UNCHANGED bucket
<1> DEFINE i == Idx(reg[t].stack)
<1>1. /\ pc[t] = "unlock" /\ bucket' = [bucket EXCEPT ![i] = reg[t].seen]
      /\ locked' = [locked EXCEPT ![i] = FALSE] /\ ReturnId(t, reg[t].id)
      /\ UNCHANGED <<seq, mem>>
  BY DEF PutUnlock
<1>2. /\ reg[t].stack \in Stack /\ i \in Bucket /\ bucket[i] = reg[t].seen
      /\ \E n \in Published : mem[n].stack = reg[t].stack /\ mem[n].id = reg[t].id
      /\ \A u \in Thread \ {t} : Holding(u) => Idx(reg[u].stack) # i
  BY <1>1, ListsHaveParts DEF Inv, PutSearched, HolderOwnsList, Holding
<1>3. UNCHANGED bucket /\ locked' \in [Bucket -> BOOLEAN]
  BY <1>1, <1>2 DEF Inv, TypeOK
<1>4. /\ pc'[t] = "idle"
      /\ \A u \in Thread \ {t} : pc'[u] = pc[u] /\ reg'[u] = reg[u]
  BY <1>1, NoCallTyped, ThreadMoves DEF Inv, ReturnId, Label
<1>5. HolderOwnsList'
  <2>1. \A u \in Thread : Holding(u)' => u # t /\ Holding(u)
    BY <1>4 DEF Holding
  <2>2. \A k \in Bucket : k # i => locked'[k] = locked[k]
    BY <1>1 DEF Inv, TypeOK
  <2>3. \A u \in Thread : Holding(u) => Idx(reg[u].stack) \in Bucket
    BY ListsHaveParts DEF Inv, PutSearched, Holding
  <2>4. QED BY <1>2, <1>3, <1>4, <2>1, <2>2, <2>3 DEF Inv, HolderOwnsList
<1>6. QED BY <1>1, <1>2, <1>3, <1>5, ReturnKeepsInv

-----------------------------------------------------------------------------
(* Steps that give out an id or a node, or publish one.                     *)

\* The counter of a part goes up by one per id, whichever list the id is for.
LEMMA PutNewIdKeepsInv ==
  ASSUME Inv, ~died, NEW t \in Thread, PutNewId(t)
  PROVE  Inv'
<1>0. PICK k, id : k = PartOf(Idx(reg[t].stack)) /\ id = seq'[k] + k * MaxId
  OBVIOUS
<1> DEFINE r == [reg[t] EXCEPT !.id = id]
<1>1. /\ pc[t] = "newid" /\ seq' = [seq EXCEPT ![k] = @ + 1]
      /\ seq'[k] >= MaxId => died'
      /\ died' \in BOOLEAN
      /\ Set(t, "id", id) /\ Goto(t, "alloc") /\ "alloc" \in Label
      /\ UNCHANGED <<bucket, locked, mem, putAnswers>>
  <2>1. /\ pc[t] = "newid" /\ seq' = [seq EXCEPT ![k] = @ + 1]
        /\ Set(t, "id", id) /\ Goto(t, "alloc") /\ "alloc" \in Label
        /\ UNCHANGED <<bucket, locked, mem, putAnswers>>
    BY <1>0 DEF PutNewId, history, Label
  <2>2. died' = (seq'[k] >= MaxId)
    BY <1>0 DEF PutNewId
  <2>3. seq'[k] >= MaxId => died' = TRUE
    BY <2>2
  <2>4. died' \in BOOLEAN
    BY <2>2
  <2>5. QED BY <2>1, <2>3, <2>4
<1>2. reg[t].stack \in Stack /\ k \in Part /\ k \in Nat
  BY <1>0, <1>1, ListsHaveParts DEF Inv, PutSearched
<1>3. seq[k] \in Nat /\ seq[k] < MaxId /\ seq'[k] = seq[k] + 1 /\ \A l \in Part \ {k} : seq'[l] = seq[l]
  BY <1>1, <1>2 DEF Inv, TypeOK, FieldsTyped
<1>4. k * MaxId \in Nat /\ id \in Nat /\ id = k * MaxId + seq[k] + 1
  BY <1>0, <1>2, <1>3, DepotSizes
<1>5. r \in Locals /\ reg' = [reg EXCEPT ![t] = r]
  BY <1>1, <1>4, SetIsUpdate DEF Inv
<1>6. r.seen = reg[t].seen /\ r.stack = reg[t].stack /\ r.node = reg[t].node /\ r.id = id
      /\ r.list = reg[t].list
  BY DEF Inv, FieldsTyped, Locals
<1> HIDE DEF r
<1>7. /\ pc' \in [Thread -> Label] /\ reg' \in [Thread -> Locals]
      /\ pc'[t] = "alloc" /\ reg'[t] = r
      /\ \A u \in Thread \ {t} : pc'[u] = pc[u] /\ reg'[u] = reg[u]
  BY <1>1, <1>5, ThreadMoves DEF Inv
<1>8. Published' = Published /\ (\A n, i : On(n, i)' <=> On(n, i)) /\ DOMAIN mem' = DOMAIN mem
  BY <1>1 DEF Published, On
<1>9. TypeOK'
  <2>1. seq' \in [Part -> 0 .. MaxId]
    <3>1. seq[k] + 1 \in 0 .. MaxId
      BY <1>3, DepotSizes
    <3>2. QED BY <1>1, <1>2, <3>1 DEF Inv, TypeOK
  <2>2. \A u \in Thread : /\ reg'[u].stack \in Stack \cup {NoStack} /\ reg'[u].seen \in Seq(DOMAIN mem)
                          /\ reg'[u].node \in {0} \cup DOMAIN mem /\ reg'[u].list \in Bucket
    BY <1>6, <1>7 DEF Inv, TypeOK
  <2>3. QED BY <1>1, <1>7, <2>1, <2>2 DEF Inv, TypeOK
<1>10. FieldsTyped'
  <2>1. \A l \in Part : died' \/ seq'[l] < MaxId
    <3>1. died' \/ seq'[k] < MaxId
      BY <1>1, <1>3, DepotSizes
    <3>2. QED BY <1>3, <3>1 DEF Inv, FieldsTyped
  <2>2. QED BY <1>1, <1>7, <2>1 DEF Inv, FieldsTyped
<1>11. (HolderOwnsList /\ NoTwoNodesAlike /\ AnswersStored)'
  BY <1>1, <1>6, <1>7, <1>8 DEF Inv, HolderOwnsList, Holding, NoTwoNodesAlike, AnswersStored
<1>12. \A n \in Nat, l \in Part : GoodId(n, l) => GoodId(n, l)'
  <2>1. ASSUME NEW n \in Nat, NEW l \in Part, GoodId(n, l) PROVE GoodId(n, l)'
    <3>1. l * MaxId \in Nat /\ seq[l] \in Nat /\ seq'[l] \in Nat /\ seq[l] <= seq'[l]
      BY <1>3, ListsHaveParts, DepotSizes DEF Inv, TypeOK
    <3>2. QED BY <2>1, <3>1 DEF GoodId
  <2>2. QED BY <2>1
<1>13. \A n \in DOMAIN mem : mem[n].id \in Nat
  BY DEF Inv, TypeOK
<1>14. NodesFilled'
  BY <1>1, <1>8, <1>12, <1>13, ListsHaveParts DEF Inv, NodesFilled
<1>15. ASSUME ~died' PROVE GoodId(id, k)' /\ \A n \in Nat, l \in Part : GoodId(n, l) => n # id
  <2>1. id < k * MaxId + MaxId
    BY <1>1, <1>3, <1>4, <1>15, DepotSizes
  <2>2. GoodId(id, k)'
    BY <1>3, <1>4, <2>1 DEF GoodId
  <2>3. ASSUME NEW l \in Part, GoodId(id, l) PROVE FALSE
    <3>1. id \div MaxId = k
      BY <1>2, <1>3, <1>4, <2>1, IdsNameParts
    <3>2. id \div MaxId = l
      BY <1>4, <2>3, IdsNameParts, ListsHaveParts DEF GoodId
    <3>3. QED BY <1>3, <1>4, <2>3, <3>1, <3>2 DEF GoodId
  <2>4. QED BY <2>2, <2>3
<1>16. FreshIds'
  <2> SUFFICES ASSUME ~died' PROVE FreshIds'
    BY DEF FreshIds
  <2>1. \A n \in Published : mem[n].id # id
    BY <1>13, <1>15, NodesAreKept, OnIsPublished, ListsHaveParts DEF Inv, NodesFilled
  <2>2. \A u \in Thread \ {t} : HasId(u) => GoodId(reg[u].id, PartOf(Idx(reg[u].stack))) /\ reg[u].id # id
                                        /\ reg[u].id \in Nat /\ PartOf(Idx(reg[u].stack)) \in Part
    <3>1. ASSUME NEW u \in Thread \ {t}, HasId(u)
          PROVE  /\ GoodId(reg[u].id, PartOf(Idx(reg[u].stack)))
                 /\ reg[u].id \in Nat /\ PartOf(Idx(reg[u].stack)) \in Part
      BY <3>1, ListsHaveParts DEF Inv, FreshIds, PutSearched, HasId, FieldsTyped, Locals
    <3>2. QED BY <1>15, <3>1
  <2>3. \A u \in Thread : HasId(u)' => u = t \/ HasId(u)
    BY <1>7 DEF HasId
  <2>4. \A u \in Thread \ {t} : HasId(u) => GoodId(reg[u].id, PartOf(Idx(reg[u].stack)))'
    BY <1>7, <1>12, <2>2
  <2>5. QED BY <1>0, <1>1, <1>6, <1>7, <1>8, <1>15, <2>1, <2>2, <2>3, <2>4 DEF Inv, FreshIds
<1>17. FreshNodes'
  <2>1. \A u \in Thread : HasNode(u)' <=> HasNode(u) /\ u # t
    BY <1>1, <1>7 DEF HasNode
  <2>2. QED BY <1>1, <1>7, <1>8, <2>1 DEF Inv, FreshNodes
<1>18. ASSUME NEW u \in Thread PROVE (PutSearched(u) /\ GetInPart(u))'
  <2>1. CASE u = t
    BY <1>1, <1>2, <1>6, <1>7, <2>1 DEF Inv, PutSearched, GetInPart
  <2>2. CASE u # t
    BY <1>1, <1>7, <1>8, <2>2 DEF Inv, PutSearched, GetInPart
  <2>3. QED BY <2>1, <2>2
<1>19. QED BY <1>9, <1>10, <1>11, <1>14, <1>16, <1>17, <1>18 DEF Inv

\* Memory may change where nothing is published: lists, answers and the other
\* threads' searches do not notice.
LEMMA PrivateWrite ==
  ASSUME Inv, NEW t \in Thread,
         UNCHANGED <<bucket, locked, seq, putAnswers, died>>,
         mem' \in Seq(Node), DOMAIN mem \subseteq DOMAIN mem',
         \A n \in Published : mem'[n] = mem[n],
         pc' \in [Thread -> Label], reg' \in [Thread -> Locals],
         \A u \in Thread \ {t} : pc'[u] = pc[u] /\ reg'[u] = reg[u],
         HasId(t) /\ HasId(t)',
         reg'[t].stack = reg[t].stack, reg'[t].seen = reg[t].seen, reg'[t].id = reg[t].id,
         reg'[t].node \in DOMAIN mem', FreshNodes'
  PROVE  Inv'
<1>1. Published' = Published /\ (\A n, i : On(n, i)' <=> On(n, i))
  BY DEF Published, On
<1>2. \A S : S \in {Seq(DOMAIN mem)} => \A x \in S : x \in Seq(DOMAIN mem')
  BY SeqMonotonic
<1>3. \A u \in Thread : /\ reg'[u].seen = reg[u].seen /\ reg'[u].stack = reg[u].stack
                        /\ reg'[u].id = reg[u].id
  OBVIOUS
<1>4. TypeOK'
  <2>1. bucket' \in [Bucket -> Seq(DOMAIN mem')]
    BY <1>2 DEF Inv, TypeOK
  <2>2. \A n \in DOMAIN mem' : mem'[n].stack \in Stack \cup {NoStack} /\ mem'[n].id \in Nat
    <3>1. \A n \in DOMAIN mem' : mem'[n] \in Node
      BY LenProperties
    <3>2. QED BY <3>1 DEF Node
  <2>3. \A u \in Thread : /\ reg'[u].stack \in Stack \cup {NoStack} /\ reg'[u].seen \in Seq(DOMAIN mem')
                          /\ reg'[u].node \in {0} \cup DOMAIN mem' /\ reg'[u].list \in Bucket
    <3>1. ASSUME NEW u \in Thread
          PROVE  reg'[u].seen \in Seq(DOMAIN mem') /\ reg'[u].node \in {0} \cup DOMAIN mem'
      BY <1>2, <1>3 DEF Inv, TypeOK
    <3>2. QED BY <3>1 DEF Locals
  <2>4. QED BY <2>1, <2>2, <2>3 DEF Inv, TypeOK
<1>5. FieldsTyped'
  BY DEF Inv, FieldsTyped
<1>6. \A n \in Published : n \in DOMAIN mem /\ n \in DOMAIN mem'
  BY NodesAreKept DEF Inv
<1>7. HolderOwnsList'
  <2>1. \A u \in Thread : Holding(u)' => Holding(u)
    BY DEF HasId, Holding
  <2>2. QED BY <1>3, <2>1 DEF Inv, HolderOwnsList
<1>8. (NoTwoNodesAlike /\ AnswersStored)'
  BY <1>1 DEF Inv, NoTwoNodesAlike, AnswersStored
<1>9. NodesFilled'
  <2>1. ASSUME NEW i \in Bucket, NEW n, On(n, i)
        PROVE  n \in DOMAIN mem /\ mem'[n] = mem[n]
    BY <1>6, <2>1, OnIsPublished
  <2>2. QED BY <1>1, <2>1 DEF Inv, NodesFilled, GoodId
<1>10. FreshIds'
  <2>1. \A u \in Thread : HasId(u)' <=> HasId(u)
    BY DEF HasId
  <2>2. QED BY <1>1, <1>3, <2>1 DEF Inv, FreshIds, GoodId
<1>11. \A u \in Thread : pc[u] \in {"lock", "newid", "alloc", "fill", "publish"} =>
         \A j \in DOMAIN reg[u].seen : reg[u].seen[j] \in Published
  <2>1. ASSUME NEW u \in Thread, pc[u] = "lock", NEW j \in DOMAIN reg[u].seen
        PROVE  reg[u].seen[j] \in Published
    BY <2>1, OnIsPublished, ListsHaveParts DEF Inv, PutSearched
  <2>2. ASSUME NEW u \in Thread, pc[u] \in {"newid", "alloc", "fill", "publish"}, NEW j \in DOMAIN reg[u].seen
        PROVE  reg[u].seen[j] \in Published
    BY <2>2, OnIsPublished, ListsHaveParts DEF Inv, PutSearched, HolderOwnsList, Holding, On
  <2>3. QED BY <2>1, <2>2
<1>12. ASSUME NEW u \in Thread PROVE (PutSearched(u) /\ GetInPart(u))'
  <2>1. CASE u = t
    BY <1>3, <1>11, <2>1 DEF Inv, PutSearched, GetInPart, HasId
  <2>2. CASE u # t
    <3>1. pc'[u] = pc[u] /\ reg'[u] = reg[u] /\ PutSearched(u) /\ GetInPart(u)
      BY <2>2 DEF Inv
    <3>2. PutSearched(u)'
      BY <1>1, <1>11, <3>1 DEF PutSearched
    <3>3. GetInPart(u)'
      BY <1>1, <3>1 DEF GetInPart
    <3>4. QED BY <3>2, <3>3
  <2>3. QED BY <2>1, <2>2
<1>13. QED BY <1>4, <1>5, <1>7, <1>8, <1>9, <1>10, <1>12 DEF Inv

LEMMA PutAllocKeepsInv ==
  ASSUME Inv, NEW t \in Thread, PutAlloc(t), UNCHANGED died
  PROVE  Inv'
<1>1. PICK new : new = Len(mem) + 1
  OBVIOUS
<1> DEFINE r == [reg[t] EXCEPT !.node = new]
<1>2. /\ pc[t] = "alloc" /\ mem' = Append(mem, Raw) /\ Set(t, "node", new)
      /\ Goto(t, "fill") /\ "fill" \in Label
      /\ UNCHANGED <<bucket, locked, seq, putAnswers, died>>
  BY <1>1 DEF PutAlloc, history, Label
<1>3. Len(mem) \in Nat /\ DOMAIN mem = 1 .. Len(mem) /\ Raw \in Node
  BY NodesAreKept DEF Inv, Raw, Node
<1>4. /\ mem' \in Seq(Node) /\ DOMAIN mem' = 1 .. new /\ new \in Nat
      /\ \A n \in DOMAIN mem : mem'[n] = mem[n]
  <2>1. mem \in Seq(Node)
    BY DEF Inv, FieldsTyped
  <2>2. mem' \in Seq(Node) /\ Len(mem') = new /\ \A n \in 1 .. Len(mem) : mem'[n] = mem[n]
    BY <1>1, <1>2, <1>3, <2>1, AppendProperties
  <2>3. QED BY <1>1, <1>3, <2>2, LenProperties
<1>5. r \in Locals /\ reg' = [reg EXCEPT ![t] = r]
  BY <1>2, <1>4, SetIsUpdate DEF Inv
<1>6. r.seen = reg[t].seen /\ r.stack = reg[t].stack /\ r.id = reg[t].id /\ r.node = new
  BY DEF Inv, FieldsTyped, Locals
<1> HIDE DEF r
<1>7. /\ pc' \in [Thread -> Label] /\ reg' \in [Thread -> Locals]
      /\ pc'[t] = "fill" /\ reg'[t] = r
      /\ \A u \in Thread \ {t} : pc'[u] = pc[u] /\ reg'[u] = reg[u]
  BY <1>2, <1>5, ThreadMoves DEF Inv
<1>8. Published' = Published /\ (\A n \in Published : n \in DOMAIN mem)
  BY <1>2, NodesAreKept DEF Published, Inv
<1>9. new \in DOMAIN mem' /\ new \notin DOMAIN mem /\ DOMAIN mem \subseteq DOMAIN mem'
  BY <1>1, <1>3, <1>4
<1>10. FreshNodes'
  <2>1. \A u \in Thread \ {t} : HasNode(u)' <=> HasNode(u)
    BY <1>7 DEF HasNode
  <2>2. \A u \in Thread : HasNode(u) => reg[u].node \in DOMAIN mem \ Published
    BY DEF Inv, FreshNodes
  <2>3. \A u \in Thread \ {t} : HasNode(u) => mem'[reg[u].node] = mem[reg[u].node] /\ reg[u].node # new
    BY <1>4, <1>9, <2>2
  <2>4. ASSUME NEW u \in Thread, HasNode(u)'
        PROVE  /\ (reg[u].node \in DOMAIN mem \ Published)'
               /\ \A w \in Thread \ {u} : HasNode(w)' => reg'[w].node # reg'[u].node
               /\ pc'[u] = "publish" =>
                    mem'[reg'[u].node] = [stack |-> reg'[u].stack, hash |-> HashOf[reg'[u].stack], id |-> reg'[u].id]
    <3>1. CASE u = t
      BY <1>6, <1>7, <1>8, <1>9, <2>1, <2>3, <3>1
    <3>2. CASE u # t
      BY <1>6, <1>7, <1>8, <1>9, <2>1, <2>2, <2>3, <2>4, <3>2 DEF Inv, FreshNodes
    <3>3. QED BY <3>1, <3>2
  <2>5. QED BY <2>4 DEF FreshNodes
<1>11. HasId(t) /\ HasId(t)'
  BY <1>2, <1>7 DEF HasId
<1>12. reg'[t].stack = reg[t].stack /\ reg'[t].seen = reg[t].seen /\ reg'[t].id = reg[t].id
       /\ reg'[t].node \in DOMAIN mem'
  BY <1>6, <1>7, <1>9
<1>13. \A n \in Published : mem'[n] = mem[n]
  BY <1>4, <1>8
<1>14. QED BY <1>2, <1>4, <1>7, <1>9, <1>10, <1>11, <1>12, <1>13, PrivateWrite

LEMMA PutFillKeepsInv ==
  ASSUME Inv, NEW t \in Thread, PutFill(t), UNCHANGED died
  PROVE  Inv'
<1>1. PICK n, v : /\ n = reg[t].node
                  /\ v = [stack |-> reg[t].stack, hash |-> HashOf[reg[t].stack], id |-> reg[t].id]
  OBVIOUS
<1>2. /\ pc[t] = "fill" /\ mem' = [mem EXCEPT ![n] = v] /\ Goto(t, "publish") /\ "publish" \in Label
      /\ UNCHANGED <<bucket, locked, seq, reg, putAnswers, died>>
  BY <1>1 DEF PutFill, history, Label
<1>3. /\ n \in DOMAIN mem /\ n \notin Published
      /\ \A u \in Thread \ {t} : HasNode(u) => reg[u].node # n
  BY <1>1, <1>2 DEF Inv, FreshNodes, HasNode
<1>4. v \in Node
  <2>1. reg[t].stack \in Stack /\ reg[t].id \in Nat
    BY <1>2 DEF Inv, PutSearched, FieldsTyped, Locals
  <2>2. HashOf[reg[t].stack] \in Nat
    BY <2>1, DepotAssumption
  <2>3. QED BY <1>1, <2>1, <2>2 DEF Node
<1>5. /\ mem' \in Seq(Node) /\ DOMAIN mem' = DOMAIN mem /\ mem'[n] = v
      /\ \A m \in DOMAIN mem \ {n} : mem'[m] = mem[m]
  BY <1>2, <1>3, <1>4, NodesAreKept, ExceptSeq DEF Inv, FieldsTyped
<1>6. reg' = [reg EXCEPT ![t] = reg[t]] /\ reg[t] \in Locals
  BY <1>2 DEF Inv, FieldsTyped
<1>7. /\ pc' \in [Thread -> Label] /\ reg' \in [Thread -> Locals]
      /\ pc'[t] = "publish" /\ reg'[t] = reg[t]
      /\ \A u \in Thread \ {t} : pc'[u] = pc[u] /\ reg'[u] = reg[u]
  BY <1>2, <1>6, ThreadMoves DEF Inv
<1>8. Published' = Published /\ (\A m \in Published : m \in DOMAIN mem)
  BY <1>2, NodesAreKept DEF Published, Inv
<1>9. FreshNodes'
  <2>1. \A u \in Thread : HasNode(u)' <=> HasNode(u)
    BY <1>2, <1>7 DEF HasNode
  <2>2. \A u \in Thread \ {t} : HasNode(u) => mem'[reg[u].node] = mem[reg[u].node]
    BY <1>3, <1>5 DEF Inv, FreshNodes
  <2>3. QED BY <1>1, <1>2, <1>5, <1>7, <1>8, <2>1, <2>2 DEF Inv, FreshNodes
<1>10. HasId(t) /\ HasId(t)'
  BY <1>2, <1>7 DEF HasId
<1>11. \A m \in Published : mem'[m] = mem[m]
  BY <1>3, <1>5, <1>8
<1>12. reg'[t].node \in DOMAIN mem'
  BY <1>1, <1>3, <1>5, <1>7
<1>13. QED BY <1>2, <1>5, <1>7, <1>9, <1>10, <1>11, <1>12, PrivateWrite

\* One store links the node in front of the list and gives up the lock.
LEMMA PublishLinks ==
  ASSUME Inv, NEW t \in Thread, PutPublish(t)
  PROVE  LET i == Idx(reg[t].stack) IN
         /\ reg[t].stack \in Stack /\ i \in Bucket /\ bucket[i] = reg[t].seen /\ reg[t].node \in DOMAIN mem
         /\ bucket' \in [Bucket -> Seq(DOMAIN mem)]
         /\ bucket'[i] = <<reg[t].node>> \o bucket[i]
         /\ \A k \in Bucket \ {i} : bucket'[k] = bucket[k]
         /\ \A n, k : k \in Bucket => (On(n, k)' <=> (On(n, k) \/ (k = i /\ n = reg[t].node)))
         /\ Published' = Published \cup {reg[t].node}
<1>1. PICK i, n : i = Idx(reg[t].stack) /\ n = reg[t].node
  OBVIOUS
<1>2. pc[t] = "publish" /\ bucket' = [bucket EXCEPT ![i] = <<n>> \o reg[t].seen] /\ UNCHANGED mem
  BY <1>1 DEF PutPublish
<1>3. reg[t].stack \in Stack /\ i \in Bucket /\ bucket[i] = reg[t].seen /\ n \in DOMAIN mem
  BY <1>1, <1>2, ListsHaveParts DEF Inv, PutSearched, HolderOwnsList, Holding, FreshNodes, HasNode
<1>4. PICK list : list = bucket[i] /\ list \in Seq(DOMAIN mem)
  BY <1>3 DEF Inv, TypeOK
<1>5. <<n>> \in Seq(DOMAIN mem) /\ Len(<<n>>) = 1 /\ <<n>>[1] = n
  BY <1>3
<1>6. /\ <<n>> \o list \in Seq(DOMAIN mem)
      /\ Len(<<n>> \o list) = 1 + Len(list)
      /\ \A j \in 1 .. 1 + Len(list) : (<<n>> \o list)[j] = IF j <= 1 THEN n ELSE list[j - 1]
  <2>1. \A j \in 1 .. 1 + Len(list) : (<<n>> \o list)[j] = IF j <= 1 THEN <<n>>[j] ELSE list[j - 1]
    BY <1>4, <1>5, ConcatProperties
  <2>2. \A j \in 1 .. 1 + Len(list) : j <= 1 => j = 1
    BY <1>4, LenProperties
  <2>3. QED BY <1>4, <1>5, <2>1, <2>2, ConcatProperties
<1>7. /\ DOMAIN list = 1 .. Len(list) /\ Len(list) \in Nat
      /\ DOMAIN (<<n>> \o list) = 1 .. 1 + Len(list)
  BY <1>4, <1>6, LenProperties
<1>8. \A m : (\E j \in DOMAIN (<<n>> \o list) : (<<n>> \o list)[j] = m) <=>
              ((\E j \in DOMAIN list : list[j] = m) \/ m = n)
  <2>1. \A j \in DOMAIN list : j + 1 \in DOMAIN (<<n>> \o list) /\ (<<n>> \o list)[j + 1] = list[j]
    BY <1>6, <1>7
  <2>2. 1 \in DOMAIN (<<n>> \o list) /\ (<<n>> \o list)[1] = n
    BY <1>6, <1>7
  <2>3. \A j \in DOMAIN (<<n>> \o list) : (<<n>> \o list)[j] = n \/ (j - 1 \in DOMAIN list /\ (<<n>> \o list)[j] = list[j - 1])
    BY <1>6, <1>7
  <2>4. PICK longer : longer = <<n>> \o list
    OBVIOUS
  <2>5. \A m : (\E j \in DOMAIN longer : longer[j] = m) => ((\E j \in DOMAIN list : list[j] = m) \/ m = n)
    BY <2>3, <2>4
  <2>6. \A m : ((\E j \in DOMAIN list : list[j] = m) \/ m = n) => \E j \in DOMAIN longer : longer[j] = m
    BY <2>1, <2>2, <2>4
  <2>7. QED BY <2>4, <2>5, <2>6
<1>9. bucket'[i] = <<n>> \o list /\ \A k \in Bucket \ {i} : bucket'[k] = bucket[k]
  BY <1>2, <1>3, <1>4 DEF Inv, TypeOK
<1>10. bucket' \in [Bucket -> Seq(DOMAIN mem)]
  BY <1>2, <1>3, <1>4, <1>6 DEF Inv, TypeOK
<1>11. \A m, k : k \in Bucket => (On(m, k)' <=> (On(m, k) \/ (k = i /\ m = n)))
  <2>1. PICK longer : longer = <<n>> \o list
    OBVIOUS
  <2>2. \A m : (\E j \in DOMAIN longer : longer[j] = m) <=> ((\E j \in DOMAIN list : list[j] = m) \/ m = n)
    BY <1>8, <2>1
  <2>3. bucket'[i] = longer /\ bucket[i] = list
    BY <1>4, <1>9, <2>1
  <2>4. \A m : On(m, i)' <=> (On(m, i) \/ m = n)
    BY <2>2, <2>3 DEF On
  <2>5. \A m, k : k \in Bucket \ {i} => (On(m, k)' <=> On(m, k))
    BY <1>9 DEF On
  <2>6. QED BY <2>4, <2>5
<1>12. /\ \A m, k : k \in Bucket /\ On(m, k)' => m \in Published'
       /\ \A m \in Published' : \E k \in Bucket : On(m, k)'
  BY DEF Published, On
<1>13. Published' = Published \cup {n}
  BY <1>3, <1>11, <1>12, OnIsPublished
<1>14. QED BY <1>1, <1>3, <1>4, <1>9, <1>10, <1>11, <1>13

LEMMA PutPublishKeepsInv ==
  ASSUME Inv, ~died, NEW t \in Thread, PutPublish(t), UNCHANGED died
  PROVE  Inv'
<1>1. PICK i, n, st, id : i = Idx(reg[t].stack) /\ n = reg[t].node /\ st = reg[t].stack /\ id = reg[t].id
  OBVIOUS
<1>2. /\ pc[t] = "publish" /\ locked' = [locked EXCEPT ![i] = FALSE]
      /\ Goto(t, "idle") /\ "idle" \in Label /\ reg' = [reg EXCEPT ![t] = NoCall]
      /\ putAnswers' = putAnswers \cup {<<st, id>>}
      /\ UNCHANGED <<seq, mem>>
  BY <1>1 DEF PutPublish, ReturnId, Label
<1>3. /\ st \in Stack /\ i \in Bucket /\ bucket[i] = reg[t].seen /\ n \in DOMAIN mem
      /\ bucket' \in [Bucket -> Seq(DOMAIN mem)]
      /\ \A k \in Bucket \ {i} : bucket'[k] = bucket[k]
      /\ \A m, k : k \in Bucket => (On(m, k)' <=> (On(m, k) \/ (k = i /\ m = n)))
      /\ Published' = Published \cup {n}
  BY <1>1, PublishLinks
<1>4. /\ mem[n] = [stack |-> st, hash |-> HashOf[st], id |-> id]
      /\ n \notin Published /\ id \in Nat /\ i = Idx(st)
      /\ GoodId(id, PartOf(i)) /\ (\A m \in Published : mem[m].id # id)
      /\ \A u \in Thread \ {t} : HasId(u) => reg[u].id # id
      /\ \A u \in Thread \ {t} : HasNode(u) => reg[u].node # n
      /\ \A u \in Thread \ {t} : Holding(u) => Idx(reg[u].stack) # i
  <2>1. HasId(t) /\ HasNode(t) /\ Holding(t)
    BY <1>2 DEF HasId, HasNode, Holding
  <2>2. /\ GoodId(id, PartOf(i)) /\ (\A m \in Published : mem[m].id # id)
        /\ \A u \in Thread \ {t} : HasId(u) => reg[u].id # id
    BY <1>1, <2>1 DEF Inv, FreshIds
  <2>3. /\ mem[n] = [stack |-> st, hash |-> HashOf[st], id |-> id] /\ n \notin Published
        /\ \A u \in Thread \ {t} : HasNode(u) => reg[u].node # n
    BY <1>1, <1>2, <2>1 DEF Inv, FreshNodes
  <2>4. \A u \in Thread \ {t} : Holding(u) => Idx(reg[u].stack) # i
    BY <1>1, <2>1 DEF Inv, HolderOwnsList
  <2>5. QED BY <1>1, <2>2, <2>3, <2>4 DEF Inv, FieldsTyped, Locals
<1>5. \A m \in Published : mem[m].stack # st
  <2>1. \A j \in DOMAIN bucket[i] : mem[bucket[i][j]].stack # st
    BY <1>1, <1>2, <1>3 DEF Inv, PutSearched
  <2>2. ASSUME NEW m \in Published, mem[m].stack = st PROVE FALSE
    <3>1. PICK k \in Bucket : On(m, k)
      BY OnIsPublished
    <3>2. k = i
      BY <1>1, <2>2, <3>1, NodesAreKept DEF Inv, NodesFilled
    <3>3. QED BY <2>1, <2>2, <3>1, <3>2 DEF On
  <2>3. QED BY <2>2
<1>6. /\ pc' \in [Thread -> Label] /\ reg' \in [Thread -> Locals]
      /\ pc'[t] = "idle" /\ reg'[t] = NoCall
      /\ \A u \in Thread \ {t} : pc'[u] = pc[u] /\ reg'[u] = reg[u]
  BY <1>2, NoCallTyped, ThreadMoves DEF Inv
<1>7. TypeOK'
  <2>1. \A u \in Thread : /\ reg'[u].stack \in Stack \cup {NoStack} /\ reg'[u].seen \in Seq(DOMAIN mem)
                          /\ reg'[u].node \in {0} \cup DOMAIN mem /\ reg'[u].list \in Bucket
    <3>1. \A u \in Thread \ {t} : reg'[u].seen \in Seq(DOMAIN mem) /\ reg'[u].node \in {0} \cup DOMAIN mem
      BY <1>6 DEF Inv, TypeOK
    <3>2. reg'[t].seen \in Seq(DOMAIN mem) /\ reg'[t].node \in {0} \cup DOMAIN mem
      BY <1>6, NoCallTyped, EmptySeq
    <3>3. QED BY <1>6, <3>1, <3>2 DEF Locals
  <2>2. locked' \in [Bucket -> BOOLEAN]
    BY <1>2 DEF Inv, TypeOK
  <2>3. QED BY <1>2, <1>3, <1>6, <2>1, <2>2 DEF Inv, TypeOK
<1>8. FieldsTyped'
  BY <1>2, <1>3, <1>4, <1>6 DEF Inv, FieldsTyped
<1>9. HolderOwnsList'
  <2>1. \A u \in Thread : Holding(u)' => u # t /\ Holding(u)
    BY <1>6 DEF Holding
  <2>2. \A k \in Bucket : k # i => locked'[k] = locked[k]
    BY <1>2 DEF Inv, TypeOK
  <2>3. \A u \in Thread : Holding(u) => Idx(reg[u].stack) \in Bucket
    BY ListsHaveParts DEF Inv, PutSearched, Holding
  <2>4. ASSUME NEW u \in Thread, Holding(u)'
        PROVE  LET k == Idx(reg'[u].stack) IN
               /\ locked'[k] /\ bucket'[k] = reg'[u].seen
               /\ \A w \in Thread \ {u} : Holding(w)' => Idx(reg'[w].stack) # k
    <3>1. u # t /\ Holding(u) /\ reg'[u] = reg[u] /\ Idx(reg[u].stack) \in Bucket \ {i}
      BY <1>4, <1>6, <2>1, <2>3, <2>4
    <3>2. PICK k \in Bucket \ {i} : k = Idx(reg[u].stack)
      BY <3>1
    <3>3. locked[k] /\ bucket[k] = reg[u].seen
          /\ \A w \in Thread \ {u} : Holding(w) => Idx(reg[w].stack) # k
      BY <3>1, <3>2 DEF Inv, HolderOwnsList
    <3>4. locked'[k] /\ bucket'[k] = reg'[u].seen
      BY <1>3, <2>2, <3>1, <3>3
    <3>5. \A w \in Thread \ {u} : Holding(w)' => Idx(reg'[w].stack) # k
      BY <1>6, <2>1, <3>3
    <3>6. Idx(reg'[u].stack) = k
      BY <3>1, <3>2
    <3>7. QED BY <3>4, <3>5, <3>6
  <2>5. QED BY <2>4 DEF HolderOwnsList
<1>10. NoTwoNodesAlike'
  BY <1>2, <1>3, <1>4, <1>5 DEF Inv, NoTwoNodesAlike
<1>11. NodesFilled'
  BY <1>2, <1>3, <1>4 DEF Inv, NodesFilled, GoodId
<1>12. FreshIds'
  <2>1. \A u \in Thread : HasId(u)' => u # t /\ HasId(u)
    BY <1>6 DEF HasId
  <2>2. QED BY <1>2, <1>3, <1>4, <1>6, <2>1 DEF Inv, FreshIds, GoodId
<1>13. FreshNodes'
  <2>1. \A u \in Thread : HasNode(u)' => u # t /\ HasNode(u)
    BY <1>6 DEF HasNode
  <2>2. \A u \in Thread : HasNode(u) /\ u # t => reg[u].node \in DOMAIN mem' \ Published'
    BY <1>2, <1>3, <1>4 DEF Inv, FreshNodes
  <2>3. \A u \in Thread : HasNode(u)' => reg'[u] = reg[u] /\ pc'[u] = pc[u]
    BY <1>6, <2>1
  <2>4. QED BY <1>2, <2>1, <2>2, <2>3 DEF Inv, FreshNodes
<1>14. AnswersStored'
  <2>1. ASSUME NEW a \in putAnswers' PROVE \E m \in Published' : mem'[m].stack = a[1] /\ mem'[m].id = a[2]
    <3>1. CASE a \in putAnswers
      BY <1>2, <1>3, <3>1 DEF Inv, AnswersStored
    <3>2. CASE a = <<st, id>>
      <4>1. n \in Published' /\ mem'[n].stack = st /\ mem'[n].id = id
        BY <1>2, <1>3, <1>4
      <4>2. QED BY <3>2, <4>1
    <3>3. QED BY <1>2, <2>1, <3>1, <3>2
  <2>2. QED BY <2>1 DEF AnswersStored
<1>15. ASSUME NEW u \in Thread PROVE (PutSearched(u) /\ GetInPart(u))'
  <2>1. CASE u = t
    BY <1>6, <2>1 DEF PutSearched, GetInPart
  <2>2. CASE u # t
    <3>1. pc'[u] = pc[u] /\ reg'[u] = reg[u] /\ PutSearched(u) /\ GetInPart(u)
      BY <1>6, <2>2 DEF Inv
    <3>2. PutSearched(u)'
      BY <1>2, <1>3, <3>1, ListsHaveParts DEF PutSearched
    <3>3. GetInPart(u)'
      BY <1>2, <1>3, <3>1 DEF GetInPart
    <3>4. QED BY <3>2, <3>3
  <2>3. QED BY <2>1, <2>2
<1>16. QED BY <1>7, <1>8, <1>9, <1>10, <1>11, <1>12, <1>13, <1>14, <1>15 DEF Inv

-----------------------------------------------------------------------------
(* StackDepotGet.                                                           *)

\* What is stored under an id that names a part is in a list of that part.
LEMMA StoredWhereNamed ==
  ASSUME TypeOK, FieldsTyped, NodesFilled, NEW n \in Published
  PROVE  /\ mem[n].stack \in Stack /\ mem[n].id \in Nat
         /\ On(n, Idx(mem[n].stack)) /\ Idx(mem[n].stack) \in Bucket
         /\ PartOf(Idx(mem[n].stack)) \in Part
         /\ GoodId(mem[n].id, PartOf(Idx(mem[n].stack)))
         /\ mem[n].id % MaxId # 0 /\ mem[n].id \div MaxId = PartOf(Idx(mem[n].stack))
<1>1. n \in DOMAIN mem /\ mem[n].id \in Nat
  BY NodesAreKept DEF Node
<1>2. PICK i \in Bucket : On(n, i)
  BY OnIsPublished
<1>3. mem[n].stack \in Stack /\ Idx(mem[n].stack) = i /\ GoodId(mem[n].id, PartOf(i))
  BY <1>1, <1>2 DEF NodesFilled
<1>4. PartOf(i) \in Part /\ PartOf(i) \in Nat
  BY ListsHaveParts
<1>5. mem[n].id % MaxId # 0 /\ mem[n].id \div MaxId = PartOf(i)
  BY <1>1, <1>3, <1>4, IdsNameParts DEF GoodId
<1>6. QED BY <1>1, <1>2, <1>3, <1>4, <1>5

LEMMA GetStartKeepsInv ==
  ASSUME Inv, NEW t \in Thread, NEW a \in putAnswers, GetStart(t, a[2]), UNCHANGED died
  PROVE  Inv'
<1>1. PICK n \in Published : mem[n].stack = a[1] /\ mem[n].id = a[2]
  BY DEF Inv, AnswersStored
<1>2. PICK i, id, first : i = Idx(mem[n].stack) /\ id = a[2] /\ first = (id \div MaxId) * PartSize
  OBVIOUS
<1>3. i \in Bucket /\ id \in Nat /\ id \div MaxId = PartOf(i) /\ <<mem[n].stack, mem[n].id>> \in putAnswers
  <2>1. a = <<a[1], a[2]>>
    BY DEF Inv, FieldsTyped
  <2>2. QED BY <1>1, <1>2, <2>1, StoredWhereNamed DEF Inv
<1>4. first \in Bucket /\ first <= i /\ PartOf(first) = PartOf(i)
  BY <1>2, <1>3, ScanOfPart
<1> DEFINE r == [NoCall EXCEPT !.id = id, !.list = first]
<1>5. /\ pc[t] = "idle" /\ Goto(t, "get") /\ reg' = [reg EXCEPT ![t] = r] /\ "get" \in Label
      /\ UNCHANGED <<bucket, locked, seq, mem, putAnswers>>
  BY <1>2 DEF GetStart, Label, shared, history
<1>6. r \in Locals /\ r.seen = <<>> /\ r.node = 0 /\ r.id = id /\ r.list = first
  BY <1>3, <1>4, NoCallTyped DEF Locals
<1> HIDE DEF r
<1>7. /\ pc'[t] = "get" /\ reg'[t] = r
      /\ \A u \in Thread \ {t} : pc'[u] = pc[u] /\ reg'[u] = reg[u]
  BY <1>5, <1>6, ThreadMoves DEF Inv
<1>8. HolderOwnsList'
  BY <1>5, <1>7 DEF Inv, HolderOwnsList, Holding
<1>9. Published' = Published
  BY <1>5 DEF Published
<1>10. PutSearched(t)' /\ ~HasId(t)'
  BY <1>7 DEF PutSearched, HasId
<1>11. GetInPart(t)'
  <2>1. n \in Published' /\ mem'[n] = mem[n] /\ mem[n].id = reg'[t].id /\ reg'[t].list = first
    BY <1>1, <1>2, <1>5, <1>6, <1>7, <1>9
  <2>2. QED BY <1>2, <1>3, <1>4, <1>5, <2>1 DEF GetInPart
<1>12. AnswersStored' /\ putAnswers' \subseteq Stack \X Nat
  BY <1>5 DEF Inv, AnswersStored, FieldsTyped, Published
<1>13. locked' \in [Bucket -> BOOLEAN] /\ r.seen \in Seq(DOMAIN mem)
  BY <1>5, <1>6, EmptySeq DEF Inv, TypeOK
<1>14. QED BY <1>5, <1>6, <1>8, <1>10, <1>11, <1>12, <1>13, QuietStepKeepsInv

\* A Get answers the stack of the id, or has more of the part to scan.
LEMMA GetFinds ==
  ASSUME Inv, NEW t \in Thread, GetList(t)
  PROVE  \E n \in Published :
           /\ mem[n].id = reg[t].id
           /\ <<mem[n].stack, mem[n].id>> \in putAnswers
           /\ \/ AnswerGet(t, mem[n].stack)
              \/ /\ Set(t, "list", reg[t].list + 1) /\ UNCHANGED <<pc, history>>
                 /\ reg[t].list + 1 \in Bucket
                 /\ PartOf(reg[t].list + 1) = PartOf(Idx(mem[n].stack))
                 /\ reg[t].list + 1 <= Idx(mem[n].stack)
<1>1. PICK l, id : l = reg[t].list /\ id = reg[t].id
  OBVIOUS
<1>2. PICK list : list = bucket[l]
  OBVIOUS
<1> DEFINE hits == {j \in DOMAIN list : mem[list[j]].id = id}
<1>3. /\ pc[t] = "get"
      /\ hits # {} => \E j \in hits : AnswerGet(t, mem[list[j]].stack)
      /\ hits = {} /\ (l + 1) % PartSize # 0 => Set(t, "list", l + 1) /\ UNCHANGED <<pc, history>>
  BY <1>1, <1>2 DEF GetList
<1>4. PICK n \in Published : /\ mem[n].id = id
                             /\ <<mem[n].stack, mem[n].id>> \in putAnswers
                             /\ PartOf(l) = PartOf(Idx(mem[n].stack))
                             /\ l <= Idx(mem[n].stack)
  BY <1>1, <1>3 DEF Inv, GetInPart
<1>5. l \in Bucket
  BY <1>1 DEF Inv, TypeOK
<1>6. \A j \in DOMAIN list : list[j] \in Published
  BY <1>2, <1>5 DEF Published
<1>7. CASE hits # {}
  <2>1. PICK j \in hits : AnswerGet(t, mem[list[j]].stack)
    BY <1>3, <1>7
  <2>2. list[j] = n
    BY <1>4, <1>6, <2>1 DEF Inv, NoTwoNodesAlike
  <2>3. QED BY <1>1, <1>4, <2>1, <2>2
<1>8. CASE hits = {}
  <2>1. On(n, Idx(mem[n].stack)) /\ Idx(mem[n].stack) \in Bucket
    BY StoredWhereNamed DEF Inv
  <2>2. l # Idx(mem[n].stack)
    BY <1>2, <1>4, <1>8, <2>1 DEF On
  <2>3. l \in Nat /\ Idx(mem[n].stack) \in Nat
    BY <1>5, <2>1, ListsHaveParts
  <2>4. l < Idx(mem[n].stack)
    BY <1>4, <2>2, <2>3
  <2>5. /\ (l + 1) % PartSize # 0 /\ l + 1 \in Bucket
        /\ PartOf(l + 1) = PartOf(Idx(mem[n].stack)) /\ l + 1 <= Idx(mem[n].stack)
    BY <1>4, <1>5, <2>1, <2>4, ScanOfPart
  <2>6. QED BY <1>1, <1>3, <1>4, <1>8, <2>5
<1>9. QED BY <1>7, <1>8

LEMMA GetListKeepsInv ==
  ASSUME Inv, NEW t \in Thread, GetList(t), UNCHANGED died
  PROVE  Inv'
<1>1. PICK n \in Published :
           /\ mem[n].id = reg[t].id
           /\ <<mem[n].stack, mem[n].id>> \in putAnswers
           /\ \/ AnswerGet(t, mem[n].stack)
              \/ /\ Set(t, "list", reg[t].list + 1) /\ UNCHANGED <<pc, history>>
                 /\ reg[t].list + 1 \in Bucket
                 /\ PartOf(reg[t].list + 1) = PartOf(Idx(mem[n].stack))
                 /\ reg[t].list + 1 <= Idx(mem[n].stack)
  BY GetFinds
<1>2. pc[t] = "get" /\ UNCHANGED <<bucket, locked, seq, mem, putAnswers>>
  BY <1>1 DEF GetList, AnswerGet, shared, history
<1>3. /\ locked' \in [Bucket -> BOOLEAN] /\ Published' = Published
      /\ AnswersStored' /\ putAnswers' \subseteq Stack \X Nat
  <2>1. Published' = Published
    BY <1>2 DEF Published
  <2>2. locked' \in [Bucket -> BOOLEAN]
    BY <1>2 DEF Inv, TypeOK
  <2>3. AnswersStored' /\ putAnswers' \subseteq Stack \X Nat
    BY <1>2, <2>1 DEF Inv, AnswersStored, FieldsTyped
  <2>4. QED BY <2>1, <2>2, <2>3
<1>4. CASE AnswerGet(t, mem[n].stack)
  <2>1. Goto(t, "idle") /\ reg' = [reg EXCEPT ![t] = NoCall] /\ "idle" \in Label
    BY <1>4 DEF AnswerGet, Label
  <2>2. /\ pc'[t] = "idle"
        /\ \A u \in Thread \ {t} : pc'[u] = pc[u] /\ reg'[u] = reg[u]
    BY <2>1, NoCallTyped, ThreadMoves DEF Inv
  <2>3. HolderOwnsList'
    BY <1>2, <2>2 DEF Inv, HolderOwnsList, Holding
  <2>4. PutSearched(t)' /\ GetInPart(t)' /\ ~HasId(t)'
    BY <2>2 DEF PutSearched, GetInPart, HasId
  <2>5. NoCall.seen \in Seq(DOMAIN mem) /\ NoCall.node \in {0} \cup DOMAIN mem
    BY NoCallTyped, EmptySeq
  <2>6. QED BY <1>2, <1>3, <2>1, <2>3, <2>4, <2>5, NoCallTyped, QuietStepKeepsInv
<1>5. CASE /\ Set(t, "list", reg[t].list + 1) /\ UNCHANGED <<pc, history>>
           /\ reg[t].list + 1 \in Bucket
           /\ PartOf(reg[t].list + 1) = PartOf(Idx(mem[n].stack))
           /\ reg[t].list + 1 <= Idx(mem[n].stack)
  <2>1. PICK l : l = reg[t].list + 1
    OBVIOUS
  <2> DEFINE r == [reg[t] EXCEPT !.list = l]
  <2>2. r \in Locals /\ reg' = [reg EXCEPT ![t] = r]
    BY <1>5, <2>1, SetIsUpdate DEF Inv
  <2>3. r.id = reg[t].id /\ r.list = l /\ r.seen = reg[t].seen /\ r.node = reg[t].node
    BY DEF Inv, FieldsTyped, Locals
  <2> HIDE DEF r
  <2>4. Goto(t, "get") /\ "get" \in Label
    BY <1>2, <1>5 DEF Goto, Inv, TypeOK, Label
  <2>5. /\ pc'[t] = "get" /\ reg'[t] = r
        /\ \A u \in Thread \ {t} : pc'[u] = pc[u] /\ reg'[u] = reg[u]
    BY <2>2, <2>4, ThreadMoves DEF Inv
  <2>6. HolderOwnsList'
    BY <1>2, <2>5 DEF Inv, HolderOwnsList, Holding
  <2>7. PutSearched(t)' /\ ~HasId(t)'
    BY <2>5 DEF PutSearched, HasId
  <2>8. GetInPart(t)'
    BY <1>1, <1>2, <1>3, <1>5, <2>1, <2>3, <2>5 DEF GetInPart
  <2>9. r.seen \in Seq(DOMAIN mem) /\ r.node \in {0} \cup DOMAIN mem
    BY <2>3 DEF Inv, TypeOK
  <2>10. QED BY <1>2, <1>3, <2>2, <2>4, <2>6, <2>7, <2>8, <2>9, QuietStepKeepsInv
<1>6. QED BY <1>1, <1>4, <1>5

LEMMA NextKeepsInv == Inv /\ [Next]_vars => Inv'
<1> SUFFICES ASSUME Inv, [Next]_vars PROVE Inv'
  OBVIOUS
<1>1. CASE UNCHANGED vars
  <2>1. UNCHANGED <<bucket, locked, seq, mem, pc, reg, putAnswers, died>>
    BY <1>1 DEF vars, shared, history
  <2>2. Published' = Published /\ \A n, i : On(n, i)' <=> On(n, i)
    BY <2>1 DEF Published, On
  <2>3. TypeOK' /\ FieldsTyped'
    BY <2>1 DEF Inv, TypeOK, FieldsTyped
  <2>4. HolderOwnsList' /\ NoTwoNodesAlike'
    BY <2>1, <2>2 DEF Inv, HolderOwnsList, Holding, NoTwoNodesAlike
  <2>5. NodesFilled' /\ AnswersStored'
    BY <2>1, <2>2 DEF Inv, NodesFilled, GoodId, AnswersStored
  <2>6. FreshIds'
    BY <2>1, <2>2 DEF Inv, FreshIds, HasId, GoodId
  <2>7. FreshNodes'
    BY <2>1, <2>2 DEF Inv, FreshNodes, HasNode
  <2>8. ASSUME NEW u \in Thread PROVE (PutSearched(u) /\ GetInPart(u))'
    BY <2>1, <2>2 DEF Inv, PutSearched, GetInPart
  <2>9. QED BY <2>3, <2>4, <2>5, <2>6, <2>7, <2>8 DEF Inv
<1>2. CASE Next
  <2>1. PICK t \in Thread : ~died /\ (((Call(t) \/ Continue(t)) /\ UNCHANGED died) \/ PutNewId(t))
    BY <1>2 DEF Next
  <2>2. CASE PutNewId(t)
    BY <2>1, <2>2, PutNewIdKeepsInv
  <2>3. CASE Call(t) /\ UNCHANGED died
    BY <2>3, PutLoadKeepsInv, GetStartKeepsInv DEF Call
  <2>4. CASE Continue(t) /\ UNCHANGED died
    BY <2>1, <2>4, PutFindKeepsInv, PutLockKeepsInv, PutRefindKeepsInv, PutUnlockKeepsInv, PutAllocKeepsInv,
       PutFillKeepsInv, PutPublishKeepsInv, GetListKeepsInv DEF Continue
  <2>5. QED BY <2>1, <2>2, <2>3, <2>4
<1>3. QED BY <1>1, <1>2

-----------------------------------------------------------------------------
LEMMA SpecKeepsInv == Spec => []Inv
<1>1. QED BY InitEstablishesInv, NextKeepsInv, PTL DEF Spec

\* The depot is sound for any threads, stacks, hash function and table size: a
\* list's lock has one holder, no stack and no id is stored twice, and an id names
\* the part of its stack (StackDepotPut, StackDepotGet).
THEOREM DepotStaysSound == Spec => []DepotIsSound
<1>1. Inv => DepotIsSound
  <2> SUFFICES ASSUME Inv PROVE IdNamesPart
    BY DEF Inv, DepotIsSound
  <2>1. ASSUME NEW a \in putAnswers
        PROVE  a[2] % MaxId # 0 /\ a[2] \div MaxId = PartOf(Idx(a[1]))
    <3>1. PICK n \in Published : mem[n].stack = a[1] /\ mem[n].id = a[2]
      BY DEF Inv, AnswersStored
    <3>2. mem[n].id % MaxId # 0 /\ mem[n].id \div MaxId = PartOf(Idx(mem[n].stack))
      BY StoredWhereNamed DEF Inv
    <3>3. QED BY <3>1, <3>2
  <2>2. QED BY <2>1 DEF IdNamesPart
<1>2. QED BY <1>1, SpecKeepsInv, PTL

-----------------------------------------------------------------------------
(* What a reader without a lock relies on.                                  *)

\* A step leaves the lists and the nodes in them alone, or publishes a node in
\* front of one list.
LEMMA ListsOnlyGrow ==
  ASSUME Inv, Next
  PROVE  /\ \A n \in Published : mem'[n] = mem[n]
         /\ \/ UNCHANGED bucket
            \/ \E i \in Bucket, n \in DOMAIN mem :
                 /\ bucket'[i] = <<n>> \o bucket[i]
                 /\ \A k \in Bucket \ {i} : bucket'[k] = bucket[k]
<1>1. PICK t \in Thread : ~died /\ (((Call(t) \/ Continue(t)) /\ UNCHANGED died) \/ PutNewId(t))
  BY DEF Next
<1>2. \A n \in Published : n \in DOMAIN mem
  BY NodesAreKept DEF Inv
<1>3. CASE PutAlloc(t)
  <2>1. mem \in Seq(Node) /\ Raw \in Node /\ mem' = Append(mem, Raw) /\ UNCHANGED bucket
    BY <1>3 DEF Inv, FieldsTyped, PutAlloc, Raw, Node
  <2>2. \A n \in DOMAIN mem : mem'[n] = mem[n]
    BY <2>1, AppendProperties, LenProperties
  <2>3. QED BY <1>2, <2>1, <2>2
<1>4. CASE PutFill(t)
  <2>1. reg[t].node \notin Published
    BY <1>4 DEF PutFill, Inv, FreshNodes, HasNode
  <2>2. QED BY <1>2, <1>4, <2>1, NodesAreKept DEF PutFill, Inv
<1>5. CASE PutPublish(t)
  <2>1. UNCHANGED mem
    BY <1>5 DEF PutPublish
  <2>2. QED BY <1>5, <2>1, PublishLinks DEF Inv
<1>6. CASE PutUnlock(t)
  <2>1. UNCHANGED mem
    BY <1>6 DEF PutUnlock
  <2>2. CASE UNCHANGED died
    BY <1>6, <2>1, <2>2, PutUnlockKeepsInv
  <2>3. QED BY <1>1, <1>6, <2>1, <2>2 DEF PutNewId, PutUnlock
<1>7. CASE PutNewId(t) \/ Call(t) \/ PutFind(t) \/ PutLock(t) \/ PutRefind(t) \/ GetList(t)
  <2>1. PutNewId(t) \/ PutLock(t) => UNCHANGED <<bucket, mem>>
    BY DEF PutNewId, PutLock
  <2>2. Call(t) => UNCHANGED <<bucket, mem>>
    <3>1. \A st \in Stack : PutLoad(t, st) => UNCHANGED <<bucket, mem>>
      BY DEF PutLoad, shared
    <3>2. \A a \in putAnswers : GetStart(t, a[2]) => UNCHANGED <<bucket, mem>>
      BY DEF GetStart, shared
    <3>3. QED BY <3>1, <3>2 DEF Call
  <2>3. PutFind(t) \/ PutRefind(t) \/ GetList(t) => UNCHANGED <<bucket, mem>>
    <3>1. PutFind(t) => UNCHANGED <<bucket, mem>>
      BY DEF PutFind, shared
    <3>2. PutRefind(t) => UNCHANGED <<bucket, mem>>
      BY DEF PutRefind, shared
    <3>3. GetList(t) => UNCHANGED <<bucket, mem>>
      BY DEF GetList, shared
    <3>4. QED BY <3>1, <3>2, <3>3
  <2>4. QED BY <1>7, <2>1, <2>2, <2>3
<1>8. QED BY <1>1, <1>3, <1>4, <1>5, <1>6, <1>7 DEF Continue

\* A node that a reader reaches is filled in and keeps its contents, and no list
\* loses a node, for any threads and lists: what find and StackDepotGet walk
\* without the lock never changes behind them.
THEOREM ListsAreForGood == Spec => PublishedForGood
<1>1. Inv /\ [Next]_vars =>
        [/\ \A n \in Published : mem[n] # Raw /\ mem'[n] = mem[n]
         /\ \A i \in Bucket :
              LET grown == Len(bucket'[i]) - Len(bucket[i])
              IN  grown \in {0, 1} /\ SubSeq(bucket'[i], grown + 1, Len(bucket'[i])) = bucket[i]
        ]_vars
  <2> SUFFICES ASSUME Inv, Next
               PROVE  /\ \A n \in Published : mem[n] # Raw /\ mem'[n] = mem[n]
                      /\ \A i \in Bucket :
                           LET grown == Len(bucket'[i]) - Len(bucket[i])
                           IN  grown \in {0, 1} /\ SubSeq(bucket'[i], grown + 1, Len(bucket'[i])) = bucket[i]
    OBVIOUS
  <2>1. /\ \A n \in Published : mem'[n] = mem[n]
        /\ \/ UNCHANGED bucket
           \/ \E i \in Bucket, n \in DOMAIN mem :
                /\ bucket'[i] = <<n>> \o bucket[i]
                /\ \A k \in Bucket \ {i} : bucket'[k] = bucket[k]
    BY ListsOnlyGrow
  <2>2. \A n \in Published : mem[n] # Raw
    BY StoredWhereNamed, DepotAssumption DEF Inv, Raw
  <2>3. ASSUME NEW S, NEW list \in Seq(S), NEW n \in S, NEW longer, longer = list \/ longer = <<n>> \o list
        PROVE  LET grown == Len(longer) - Len(list)
               IN  grown \in {0, 1} /\ SubSeq(longer, grown + 1, Len(longer)) = list
    <3>1. Len(list) \in Nat
      BY LenProperties
    <3>2. CASE longer = list
      BY <3>1, <3>2
    <3>3. CASE longer = <<n>> \o list
      BY <3>1, <3>3
    <3>4. QED BY <2>3, <3>2, <3>3
  <2>4. ASSUME NEW i \in Bucket
        PROVE  LET grown == Len(bucket'[i]) - Len(bucket[i])
               IN  grown \in {0, 1} /\ SubSeq(bucket'[i], grown + 1, Len(bucket'[i])) = bucket[i]
    <3>1. bucket[i] \in Seq(DOMAIN mem)
      BY DEF Inv, TypeOK
    <3>2. CASE bucket'[i] = bucket[i]
      <4>1. bucket[i] \in Seq(Nat) /\ 0 \in Nat
        BY <3>1, SeqMonotonic, NodesAreKept DEF Inv
      <4>2. QED BY <2>3, <3>2, <4>1
    <3>3. CASE \E n \in DOMAIN mem : bucket'[i] = <<n>> \o bucket[i]
      BY <2>3, <3>1, <3>3
    <3>4. QED BY <2>1, <3>2, <3>3
  <2>5. QED BY <2>1, <2>2, <2>4
<1>2. QED BY <1>1, SpecKeepsInv, PTL DEF PublishedForGood, Spec

-----------------------------------------------------------------------------
(* The intern table.                                                        *)

Table == {<<mem[n].stack, mem[n].id>> : n \in Published}
TableTyped ==
  \A n \in Published : mem[n].stack \in Stack /\ mem[n].id \in 1 .. MaxId * (TabSize \div PartSize)

\* No id exceeds the last one of the last part.
LEMMA IdsInRange ==
  ASSUME TypeOK, NEW id \in Nat, NEW k \in Part, GoodId(id, k)
  PROVE  id \in 1 .. MaxId * (TabSize \div PartSize)
<1>1. PICK parts \in Nat : parts = TabSize \div PartSize /\ k \in Nat /\ k + 1 <= parts
  BY DepotSizes DEF Part
<1>2. (k + 1) * MaxId <= parts * MaxId /\ k * MaxId \in Nat /\ (k + 1) * MaxId = k * MaxId + MaxId
  BY <1>1, DepotSizes
<1>3. parts * MaxId = MaxId * parts /\ parts * MaxId \in Nat
  BY <1>1, DepotSizes
<1>4. k * MaxId < id /\ id < k * MaxId + MaxId
  BY DEF GoodId
<1>5. PICK low \in Nat, high \in Nat : low = k * MaxId /\ high = parts * MaxId /\ low + MaxId <= high
  BY <1>2, <1>3
<1>6. 1 <= id /\ id <= high
  BY <1>4, <1>5, DepotSizes
<1>7. QED BY <1>1, <1>3, <1>5, <1>6

\* What a step of the depot is for the table: nothing, the answer of a Put, or of
\* a Get, of what is stored, or the insertion and answer of a Put.
LEMMA StepsOfTheTable ==
  ASSUME Inv, Next
  PROVE  \/ Table' = Table /\ UNCHANGED history
         \/ \E n \in Published :
              /\ Table' = Table /\ UNCHANGED getAnswers
              /\ putAnswers' = putAnswers \cup {<<mem[n].stack, mem[n].id>>}
         \/ \E n \in Published :
              /\ Table' = Table /\ UNCHANGED putAnswers /\ <<mem[n].stack, mem[n].id>> \in putAnswers
              /\ getAnswers' = getAnswers \cup {<<mem[n].id, mem[n].stack>>}
         \/ \E n \in Published' :
              /\ n \notin Published /\ Published' = Published \cup {n} /\ UNCHANGED <<mem, getAnswers>>
              /\ Table' = Table \cup {<<mem'[n].stack, mem'[n].id>>}
              /\ putAnswers' = putAnswers \cup {<<mem'[n].stack, mem'[n].id>>}
<1>1. PICK t \in Thread : ~died /\ (((Call(t) \/ Continue(t)) /\ UNCHANGED died) \/ PutNewId(t))
  BY DEF Next
<1>2. \A n \in Published : mem'[n] = mem[n]
  BY ListsOnlyGrow
<1>3. ASSUME UNCHANGED bucket PROVE Published' = Published /\ Table' = Table
  <2>1. Published' = Published
    BY <1>3 DEF Published
  <2>2. QED BY <1>2, <2>1 DEF Table
<1>4. CASE Call(t)
  <2>1. \A st \in Stack : PutLoad(t, st) => UNCHANGED <<bucket, history>>
    BY DEF PutLoad, shared
  <2>2. \A a \in putAnswers : GetStart(t, a[2]) => UNCHANGED <<bucket, history>>
    BY DEF GetStart, shared
  <2>3. QED BY <1>3, <1>4, <2>1, <2>2 DEF Call
<1>5. CASE PutNewId(t) \/ PutLock(t) \/ PutRefind(t) \/ PutAlloc(t) \/ PutFill(t)
  <2>1. UNCHANGED <<bucket, history>>
    BY <1>5 DEF PutNewId, PutLock, PutRefind, PutAlloc, PutFill, shared
  <2>2. QED BY <1>3, <2>1
<1>6. CASE PutFind(t)
  <2>1. UNCHANGED bucket
    BY <1>6 DEF PutFind, shared
  <2>2. PICK id : id = Find(reg[t].seen, reg[t].stack)
    OBVIOUS
  <2>3. (id # 0 /\ ReturnId(t, id)) \/ (id = 0 /\ UNCHANGED history)
    BY <1>6, <2>2 DEF PutFind
  <2>4. pc[t] = "find"
    BY <1>6 DEF PutFind
  <2>5. id # 0 => \E n \in Published : mem[n].stack = reg[t].stack /\ mem[n].id = id
    BY <2>2, <2>4, FindDecides
  <2>6. CASE id = 0
    BY <1>3, <2>1, <2>3, <2>6
  <2>7. CASE id # 0
    <3>1. PICK n \in Published : mem[n].stack = reg[t].stack /\ mem[n].id = id
      BY <2>5, <2>7
    <3>2. putAnswers' = putAnswers \cup {<<mem[n].stack, mem[n].id>>} /\ UNCHANGED getAnswers
      BY <2>3, <2>7, <3>1 DEF ReturnId
    <3>3. QED BY <1>3, <2>1, <3>2
  <2>8. QED BY <2>6, <2>7
<1>7. CASE PutUnlock(t)
  <2>1. UNCHANGED bucket
    BY <1>1, <1>7, PutUnlockKeepsInv, ListsOnlyGrow DEF PutUnlock, PutNewId
  <2>2. PICK n \in Published : mem[n].stack = reg[t].stack /\ mem[n].id = reg[t].id
    BY <1>7 DEF PutUnlock, Inv, PutSearched
  <2>3. putAnswers' = putAnswers \cup {<<mem[n].stack, mem[n].id>>} /\ UNCHANGED getAnswers
    BY <1>7, <2>2 DEF PutUnlock, ReturnId
  <2>4. QED BY <1>3, <2>1, <2>3
<1>8. CASE PutPublish(t)
  <2>1. PICK n : n = reg[t].node
    OBVIOUS
  <2>2. UNCHANGED mem /\ Published' = Published \cup {n}
    BY <1>8, <2>1, PublishLinks DEF PutPublish
  <2>3. n \notin Published /\ mem[n].stack = reg[t].stack /\ mem[n].id = reg[t].id
    <3>1. pc[t] = "publish" /\ HasNode(t)
      BY <1>8 DEF PutPublish, HasNode
    <3>2. /\ n \notin Published
          /\ mem[n] = [stack |-> reg[t].stack, hash |-> HashOf[reg[t].stack], id |-> reg[t].id]
      BY <2>1, <3>1 DEF Inv, FreshNodes
    <3>3. QED BY <3>2
  <2>4. Table' = Table \cup {<<mem'[n].stack, mem'[n].id>>}
    BY <2>2 DEF Table
  <2>5. putAnswers' = putAnswers \cup {<<mem'[n].stack, mem'[n].id>>} /\ UNCHANGED getAnswers
    BY <1>8, <2>2, <2>3 DEF PutPublish, ReturnId
  <2>6. QED BY <2>2, <2>3, <2>4, <2>5
<1>9. CASE GetList(t)
  <2>1. UNCHANGED bucket
    BY <1>9 DEF GetList, shared
  <2>2. PICK n \in Published :
          /\ mem[n].id = reg[t].id /\ <<mem[n].stack, mem[n].id>> \in putAnswers
          /\ AnswerGet(t, mem[n].stack) \/ UNCHANGED history
    BY <1>9, GetFinds
  <2>3. CASE UNCHANGED history
    BY <1>3, <2>1, <2>3
  <2>4. CASE AnswerGet(t, mem[n].stack)
    BY <1>3, <2>1, <2>2, <2>4 DEF AnswerGet
  <2>5. QED BY <2>2, <2>3, <2>4
<1>10. QED BY <1>1, <1>4, <1>5, <1>6, <1>7, <1>8, <1>9 DEF Continue

\* Any number of threads that put and get stacks concurrently see one atomic
\* table: a stack has one id for good, and the id of a Put gets the stack back.
THEOREM DepotImplementsInterning == Spec => ImplementsInterning
<1>1. Init => Abstract!Init
  <2> SUFFICES ASSUME Init PROVE Abstract!Init
    OBVIOUS
  <2>1. \A i \in Bucket : bucket[i] = <<>> /\ DOMAIN bucket[i] = {}
    BY EmptySeq DEF Init
  <2>2. Published = {}
    BY <2>1 DEF Published
  <2>3. QED BY <2>2 DEF Init, Abstract!Init
<1>2. Inv => TableTyped
  BY StoredWhereNamed, IdsInRange DEF Inv, TableTyped
<1>3. TableTyped /\ TableTyped' /\ Inv /\ Inv' /\ [Next]_vars => [Abstract!Next]_(Abstract!vars)
  <2> SUFFICES ASSUME TableTyped, TableTyped', Inv, Inv', [Next]_vars PROVE [Abstract!Next]_(Abstract!vars)
    OBVIOUS
  <2>1. /\ \A n \in Published : mem[n].stack \in Stack /\ mem[n].id \in 1 .. MaxId * (TabSize \div PartSize)
        /\ TableTyped'
    BY DEF TableTyped
  <2>2. CASE UNCHANGED vars
    <3>1. Table' = Table /\ UNCHANGED history
      BY <2>2 DEF vars, shared, history, Table, Published
    <3>2. QED BY <3>1 DEF Abstract!vars, Table, history
  <2>3. CASE Next
    <3>1. CASE Table' = Table /\ UNCHANGED history
      BY <3>1 DEF Abstract!vars, Table, history
    <3>2. CASE \E n \in Published :
              /\ Table' = Table /\ UNCHANGED getAnswers
              /\ putAnswers' = putAnswers \cup {<<mem[n].stack, mem[n].id>>}
      <4>1. PICK n \in Published : 
              /\ Table' = Table /\ UNCHANGED getAnswers
              /\ putAnswers' = putAnswers \cup {<<mem[n].stack, mem[n].id>>}
        BY <3>2
      <4>2. PICK st, id : st = mem[n].stack /\ id = mem[n].id
        OBVIOUS
      <4>3. <<st, id>> \in Table'
        BY <4>1, <4>2 DEF Table
      <4>4. Abstract!Put(st, id)
        BY <4>1, <4>2, <4>3 DEF Abstract!Put, Abstract!AnswerPut, Table
      <4>5. st \in Stack /\ id \in 1 .. MaxId * (TabSize \div PartSize)
        BY <2>1, <4>1, <4>2
      <4>6. QED BY <4>4, <4>5 DEF Abstract!Next
    <3>3. CASE \E n \in Published :
              /\ Table' = Table /\ UNCHANGED putAnswers /\ <<mem[n].stack, mem[n].id>> \in putAnswers
              /\ getAnswers' = getAnswers \cup {<<mem[n].id, mem[n].stack>>}
      <4>1. PICK n \in Published :
              /\ Table' = Table /\ UNCHANGED putAnswers /\ <<mem[n].stack, mem[n].id>> \in putAnswers
              /\ getAnswers' = getAnswers \cup {<<mem[n].id, mem[n].stack>>}
        BY <3>3
      <4>2. Abstract!Get(mem[n].stack, mem[n].id)
        BY <4>1 DEF Abstract!Get, Table
      <4>3. QED BY <2>1, <4>2 DEF Abstract!Next
    <3>4. CASE \E n \in Published' :
              /\ n \notin Published /\ Published' = Published \cup {n} /\ UNCHANGED <<mem, getAnswers>>
              /\ Table' = Table \cup {<<mem'[n].stack, mem'[n].id>>}
              /\ putAnswers' = putAnswers \cup {<<mem'[n].stack, mem'[n].id>>}
      <4>1. PICK n \in Published' :
              /\ n \notin Published /\ Published' = Published \cup {n} /\ UNCHANGED <<mem, getAnswers>>
              /\ Table' = Table \cup {<<mem'[n].stack, mem'[n].id>>}
              /\ putAnswers' = putAnswers \cup {<<mem'[n].stack, mem'[n].id>>}
        BY <3>4
      <4>2. PICK st, id : st = mem'[n].stack /\ id = mem'[n].id
        OBVIOUS
      <4>3. st \in Stack /\ id \in 1 .. MaxId * (TabSize \div PartSize)
        BY <2>1, <4>1, <4>2 DEF TableTyped
      <4>4. \A e \in Table : e[1] # st /\ e[2] # id
        BY <4>1, <4>2 DEF Inv, NoTwoNodesAlike, Table
      <4>5. Abstract!Put(st, id)
        BY <4>1, <4>2, <4>4 DEF Abstract!Put, Abstract!AnswerPut, Abstract!Insert, Table
      <4>6. QED BY <4>3, <4>5 DEF Abstract!Next
    <3>5. QED BY <2>3, <3>1, <3>2, <3>3, <3>4, StepsOfTheTable
  <2>4. QED BY <2>2, <2>3
<1>4. QED BY <1>1, <1>2, <1>3, SpecKeepsInv, PTL DEF Spec, ImplementsInterning, Abstract!Spec
=============================================================================
