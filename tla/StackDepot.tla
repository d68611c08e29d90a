------------------------------ MODULE StackDepot ------------------------------
(***************************************************************************)
(* sanitizer_stackdepot.cc: a hash table of stack traces that threads fill *)
(* (StackDepotPut) and read (StackDepotGet) concurrently.  The low bit of  *)
(* a bucket's head pointer is its lock; readers take no lock.  A bucket is *)
(* the sequence of nodes that following link from its head visits; mem is  *)
(* what the nodes hold.  An action is one atomic access to a shared word,  *)
(* with the code on private or immutable data that goes with it; a find    *)
(* over a list of published nodes is one step.                             *)
(***************************************************************************)
EXTENDS Integers, Sequences

CONSTANTS
  Thread, Stack,
  HashOf,      \* HashOf[st] = the murmur2 hash of a stack
  TabSize,     \* kTabSize
  PartSize,    \* kPartSize
  MaxId,       \* kMaxId = 1 << kPartShift
  NoStack      \* the null pointer StackDepotGet returns

ASSUME DepotAssumption ==
  /\ HashOf \in [Stack -> Nat]
  /\ PartSize \in Nat \ {0} /\ TabSize \in Nat \ {0}
  /\ TabSize % PartSize = 0
  /\ MaxId \in Nat \ {0}
  /\ NoStack \notin Stack

VARIABLES
  bucket,      \* depot.tab: the nodes of each list, head first
  locked,      \* the low bit of each depot.tab word
  seq,         \* depot.seq: the last id given out in each part
  mem,         \* what each StackDesc handed out by allocDesc holds
  pc, reg,     \* each thread's position and local variables
  putAnswers, getAnswers,  \* history: what Put and Get returned
  died         \* a CHECK failed and the process is gone

shared == <<bucket, locked, seq, mem>>
history == <<putAnswers, getAnswers>>
vars == <<shared, pc, reg, history, died>>

Idx(st)   == HashOf[st] % TabSize
PartOf(i) == i \div PartSize
Bucket    == 0 .. TabSize - 1
Part      == 0 .. TabSize \div PartSize - 1

\* A node no one has filled in yet: find and Get see no stack and no id in it.
Raw == [stack |-> NoStack, hash |-> 0, id |-> 0]

\* find: the id of the first node of the list that holds the stack, or 0.
Find(list, st) ==
  LET hits == {i \in DOMAIN list : mem[list[i]].hash = HashOf[st] /\ mem[list[i]].stack = st}
  IN IF hits = {} THEN 0
     ELSE mem[list[CHOOSE i \in hits : \A j \in hits : i <= j]].id

Goto(t, label) == pc' = [pc EXCEPT ![t] = label]
Set(t, field, value) == reg' = [reg EXCEPT ![t][field] = value]

\* The local variables a call starts with.
NoCall == [stack |-> NoStack, seen |-> <<>>, id |-> 0, node |-> 0, list |-> 0]

Init ==
  /\ bucket = [i \in Bucket |-> <<>>]
  /\ locked = [i \in Bucket |-> FALSE]
  /\ seq = [k \in Part |-> 0]
  /\ mem = <<>>
  /\ pc = [t \in Thread |-> "idle"]
  /\ reg = [t \in Thread |-> NoCall]
  /\ putAnswers = {} /\ getAnswers = {}
  /\ died = FALSE

\* Put returns: the caller learns the id.
ReturnId(t, id) ==
  /\ putAnswers' = putAnswers \cup {<<reg[t].stack, id>>}
  /\ reg' = [reg EXCEPT ![t] = NoCall]
  /\ Goto(t, "idle")
  /\ UNCHANGED getAnswers

-----------------------------------------------------------------------------
(* StackDepotPut *)

\* v = atomic_load(p): the list as it is now, whoever holds its lock.
PutLoad(t, st) ==
  /\ pc[t] = "idle"
  /\ reg' = [reg EXCEPT ![t] = [NoCall EXCEPT !.stack = st, !.seen = bucket[Idx(st)]]]
  /\ Goto(t, "find")
  /\ UNCHANGED <<shared, history>>

\* The search without the lock.
PutFind(t) ==
  /\ pc[t] = "find"
  /\ LET id == Find(reg[t].seen, reg[t].stack) IN
       \/ id # 0 /\ ReturnId(t, id)
       \/ id = 0 /\ Goto(t, "lock") /\ UNCHANGED <<reg, history>>
  /\ UNCHANGED shared

\* The second search left out, the lock bit ignored, and the node linked to
\* the list as it was at the load.
BugNoRefind(t) ==
  LET i == Idx(reg[t].stack) IN
  /\ pc[t] = "lock" /\ ~locked[i] /\ locked' = [locked EXCEPT ![i] = TRUE]
  /\ Goto(t, "newid") /\ Set(t, "seen", bucket[i])
  /\ UNCHANGED <<bucket, seq, mem, history>>
BugLockIgnoresBit(t) ==
  LET i == Idx(reg[t].stack) IN
  /\ pc[t] = "lock" /\ locked' = [locked EXCEPT ![i] = TRUE]
  /\ Goto(t, IF bucket[i] # reg[t].seen THEN "refind" ELSE "newid") /\ Set(t, "seen", bucket[i])
  /\ UNCHANGED <<bucket, seq, mem, history>>

\* lock(): the load finds the low bit clear and the CAS finds the word unchanged.
PutLock(t) ==
  LET i == Idx(reg[t].stack) IN
  /\ pc[t] = "lock"
  /\ ~locked[i]
  /\ locked' = [locked EXCEPT ![i] = TRUE]
  /\ Goto(t, IF bucket[i] # reg[t].seen THEN "refind" ELSE "newid")
  /\ Set(t, "seen", bucket[i])
  /\ UNCHANGED <<bucket, seq, mem, history>>

\* The search with the lock, when the list has changed since the load.
PutRefind(t) ==
  /\ pc[t] = "refind"
  /\ LET id == Find(reg[t].seen, reg[t].stack) IN
       \/ id # 0 /\ Set(t, "id", id) /\ Goto(t, "unlock")
       \/ id = 0 /\ Goto(t, "newid") /\ UNCHANGED reg
  /\ UNCHANGED <<shared, history>>

\* A return that forgets the lock.
BugReturnLocked(t) ==
  /\ pc[t] = "unlock" /\ ReturnId(t, reg[t].id) /\ UNCHANGED <<bucket, locked, seq, mem>>

\* unlock(p, s2): the id was there after all.
PutUnlock(t) ==
  LET i == Idx(reg[t].stack) IN
  /\ pc[t] = "unlock"
  /\ bucket' = [bucket EXCEPT ![i] = reg[t].seen]
  /\ locked' = [locked EXCEPT ![i] = FALSE]
  /\ ReturnId(t, reg[t].id)
  /\ UNCHANGED <<seq, mem>>

\* The next id of the part; the CHECK on kMaxId comes after the increment.
PutNewId(t) ==
  LET k == PartOf(Idx(reg[t].stack)) IN
  /\ pc[t] = "newid"
  /\ seq' = [seq EXCEPT ![k] = @ + 1]
  /\ died' = (seq'[k] >= MaxId)
  /\ Set(t, "id", seq'[k] + k * MaxId)
  /\ Goto(t, "alloc")
  /\ UNCHANGED <<bucket, locked, mem, history>>

\* allocDesc: a block nobody else has, zero as mmap gave it.
PutAlloc(t) ==
  /\ pc[t] = "alloc"
  /\ mem' = Append(mem, Raw)
  /\ Set(t, "node", Len(mem) + 1)
  /\ Goto(t, "fill")
  /\ UNCHANGED <<bucket, locked, seq, history>>

PutFill(t) ==
  /\ pc[t] = "fill"
  /\ mem' = [mem EXCEPT ![reg[t].node] =
               [stack |-> reg[t].stack, hash |-> HashOf[reg[t].stack], id |-> reg[t].id]]
  /\ Goto(t, "publish")
  /\ UNCHANGED <<bucket, locked, seq, reg, history>>

\* unlock(p, s): one store both publishes the node, in front of the list its
\* link points to, and releases the lock.
PutPublish(t) ==
  LET i == Idx(reg[t].stack) IN
  /\ pc[t] = "publish"
  /\ bucket' = [bucket EXCEPT ![i] = <<reg[t].node>> \o reg[t].seen]
  /\ locked' = [locked EXCEPT ![i] = FALSE]
  /\ ReturnId(t, reg[t].id)
  /\ UNCHANGED <<seq, mem>>

-----------------------------------------------------------------------------
(* StackDepotGet, of an id that some Put has returned.                      *)

GetStart(t, id) ==
  /\ pc[t] = "idle"
  /\ reg' = [reg EXCEPT ![t] = [NoCall EXCEPT !.id = id, !.list = (id \div MaxId) * PartSize]]
  /\ Goto(t, "get")
  /\ UNCHANGED <<shared, history>>

AnswerGet(t, st) ==
  /\ getAnswers' = getAnswers \cup {<<reg[t].id, st>>}
  /\ reg' = [reg EXCEPT ![t] = NoCall]
  /\ Goto(t, "idle")
  /\ UNCHANGED putAnswers

\* The last list of the part is not scanned.
BugGetSkipsLast(t) ==
  LET list == bucket[reg[t].list]
      hits == {i \in DOMAIN list : mem[list[i]].id = reg[t].id}
  IN
  /\ pc[t] = "get"
  /\ \/ \E i \in hits : AnswerGet(t, mem[list[i]].stack)
     \/ /\ hits = {} /\ (reg[t].list + 2) % PartSize # 0
        /\ Set(t, "list", reg[t].list + 1) /\ UNCHANGED <<pc, history>>
     \/ hits = {} /\ (reg[t].list + 2) % PartSize = 0 /\ AnswerGet(t, NoStack)
  /\ UNCHANGED shared

\* One list of the part: the load of its head and the walk.
GetList(t) ==
  LET list == bucket[reg[t].list]
      hits == {i \in DOMAIN list : mem[list[i]].id = reg[t].id}
  IN
  /\ pc[t] = "get"
  /\ IF hits # {}
     THEN \E i \in hits : (\A j \in hits : i <= j) /\ AnswerGet(t, mem[list[i]].stack)
     ELSE IF (reg[t].list + 1) % PartSize = 0 THEN AnswerGet(t, NoStack)
     ELSE Set(t, "list", reg[t].list + 1) /\ UNCHANGED <<pc, history>>
  /\ UNCHANGED shared

-----------------------------------------------------------------------------
\* What a thread does next in the call it is in.
Continue(t) ==
  \/ PutFind(t) \/ PutLock(t) \/ PutRefind(t) \/ PutUnlock(t) \/ PutAlloc(t)
  \/ PutFill(t) \/ PutPublish(t) \/ GetList(t)

Call(t) ==
  \/ \E st \in Stack : PutLoad(t, st)
  \/ \E a \in putAnswers : GetStart(t, a[2])

\* A failed CHECK ends the process: nothing happens after it.
Next ==
  /\ ~died
  /\ \E t \in Thread :
       \/ (Call(t) \/ Continue(t)) /\ UNCHANGED died
       \/ PutNewId(t)

Spec == Init /\ [][Next]_vars

\* Every thread inside Put or Get is eventually scheduled.
FairSpec ==
  Spec /\ \A t \in Thread :
            WF_vars(~died /\ ((Continue(t) /\ UNCHANGED died) \/ PutNewId(t)))

-----------------------------------------------------------------------------
Published == UNION {{bucket[i][j] : j \in DOMAIN bucket[i]} : i \in Bucket}
Label == {"idle", "find", "lock", "refind", "unlock", "newid", "alloc", "fill", "publish", "get"}
Holding(t) == pc[t] \in {"refind", "unlock", "newid", "alloc", "fill", "publish"}

\* Lists, node contents and locals have the types of the code's fields.
TypeOK ==
  /\ bucket \in [Bucket -> Seq(DOMAIN mem)]
  /\ locked \in [Bucket -> BOOLEAN]
  /\ seq \in [Part -> 0 .. MaxId]
  /\ \A n \in DOMAIN mem : mem[n].stack \in Stack \cup {NoStack} /\ mem[n].id \in Nat
  /\ pc \in [Thread -> Label]
  /\ \A t \in Thread :
       /\ reg[t].stack \in Stack \cup {NoStack}
       /\ reg[t].seen \in Seq(DOMAIN mem)
       /\ reg[t].node \in {0} \cup DOMAIN mem
       /\ reg[t].list \in Bucket
  /\ died \in BOOLEAN

\* The low bit is a mutex for the list: its holder is alone and links its node
\* to the list as it is (StackDepotPut between lock and unlock).
HolderOwnsList ==
  \A t \in Thread : Holding(t) =>
    LET i == Idx(reg[t].stack) IN
    /\ locked[i]
    /\ bucket[i] = reg[t].seen
    /\ \A u \in Thread \ {t} : Holding(u) => Idx(reg[u].stack) # i

\* The depot holds a stack once and an id once, although the search that
\* decides to insert begins without the lock.
NoTwoNodesAlike ==
  \A m, n \in Published :
    m # n => mem[m].stack # mem[n].stack /\ mem[m].id # mem[n].id

\* What a lock-free reader relies on: once reachable, a node is filled in, it
\* keeps its contents, and no list ever loses a node.
PublishedForGood ==
  [][/\ \A n \in Published : mem[n] # Raw /\ mem'[n] = mem[n]
     /\ \A i \in Bucket :
          LET grown == Len(bucket'[i]) - Len(bucket[i])
          IN  grown \in {0, 1} /\ SubSeq(bucket'[i], grown + 1, Len(bucket'[i])) = bucket[i]
    ]_vars

\* StackDepotGet scans only the lists of the part the id names, so an id must
\* name the part its stack lives in, also when a part runs out of ids.
IdNamesPart ==
  \A a \in putAnswers : a[2] % MaxId # 0 /\ a[2] \div MaxId = PartOf(Idx(a[1]))

\* Lists, locks, ids and nodes fit together: a list's lock has one holder, a
\* stack is inserted once although the search for it begins unlocked, and an id
\* names the part of its stack, also at the last id of a part (StackDepotPut).
DepotIsSound == TypeOK /\ HolderOwnsList /\ NoTwoNodesAlike /\ IdNamesPart

\* A Put returns: the list locks are unfair, but a thread takes one only to
\* insert a stack and each stack is inserted once.
PutReturns ==
  \A t \in Thread : (pc[t] = "find") ~> (pc[t] = "idle" \/ died)

\* Every interleaving of Puts and Gets answers like an atomic intern table:
\* one id per stack for good, and Get of a returned id finds the stack.
Abstract == INSTANCE Interning WITH
  table <- {<<mem[n].stack, mem[n].id>> : n \in Published},
  Id <- 1 .. MaxId * (TabSize \div PartSize)

ImplementsInterning == Abstract!Spec
=============================================================================
