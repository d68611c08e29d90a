-------------------------- MODULE TsanSync_proofs ---------------------------
(***************************************************************************)
(* Proofs, for any threads, addresses, lists and memory, that the SyncVars *)
(* a thread locks, waits for or uses are alive and of its address, that an *)
(* address has one, and that nobody waits in a circle.                     *)
(***************************************************************************)
EXTENDS TsanSync, SequenceTheorems, TLAPS

Mutexes == [writer : SUBSET Threads, readers : SUBSET Threads]
Asking == [in : {"search", "insert"}, addr : Addrs, write : BOOLEAN, create : BOOLEAN]
Having == [in : {"lock", "use"}, var : Vars, addr : Addrs, write : BOOLEAN, create : BOOLEAN]
Draining == [in : {"drain"}, var : Vars]
Freeing == [in : {"free"}, block : Blocks]
SweepingAt == [in : {"sweep"}, block : Blocks, rest : Seq(Vars)]

Positions == {Idle} \cup Asking \cup Having \cup Draining \cup Freeing \cup SweepingAt

FieldsTyped ==
  /\ list \in [Lists -> Seq(Vars)] /\ var_addr \in [Vars -> Addrs \cup {0}]
  /\ list_mtx \in [Lists -> Mutexes] /\ var_mtx \in [Vars -> Mutexes]
  /\ at \in [Threads -> Positions]

\* A mutex has one writer or some readers.
Excludes(m) ==
  /\ m.writer # {} => m.readers = {}
  /\ \A t, u \in m.writer : t = u
Holders(m) == m.writer \cup m.readers

\* A list is held by those who look for a SyncVar's mutex under it and by the
\* thread that sweeps it.
Sweeps(r, l) == r.in = "sweep" /\ r.block = l
Locks(r, l) == r.in = "lock" /\ ListOf[r.addr] = l
ListsAreHeld == \A l \in Lists :
  /\ Excludes(list_mtx[l])
  /\ \A t \in Threads : t \in Holders(list_mtx[l]) <=> Sweeps(at[t], l) \/ Locks(at[t], l)
  /\ \A t \in Threads : Sweeps(at[t], l) => t \in list_mtx[l].writer

\* A SyncVar is held by those who use it.
Uses(r, v) == r.in = "use" /\ r.var = v
VarsAreHeld == \A v \in Vars :
  /\ Excludes(var_mtx[v])
  /\ \A t \in Threads : t \in Holders(var_mtx[v]) <=> Uses(at[t], v)
  /\ \A t \in Threads : Uses(at[t], v) /\ at[t].write => t \in var_mtx[v].writer

\* What a list has that is not swept yet.  Memory that has been swept may be in
\* use again, for another list.
Live(l, v) ==
  /\ v \in ToSet(list[l])
  /\ \A t \in Threads : Sweeps(at[t], l) => v \in ToSet(at[t].rest)
OneVarEach ==
  /\ \A l \in Lists : IsInjective(list[l])
  /\ \A l \in Lists, v \in Vars : Live(l, v) => var_addr[v] # 0 /\ ListOf[var_addr[v]] = l
  /\ \A l \in Lists, v, w \in Vars :
       Live(l, v) /\ Live(l, w) /\ var_addr[v] = var_addr[w] => v = w
  /\ \A l \in Lists, v \in Vars :
       v \in ToSet(list[l]) /\ ~Live(l, v) => var_addr[v] = 0 \/ ListOf[var_addr[v]] # l
SweepsFit == \A t \in Threads : at[t].in = "sweep" =>
  IsInjective(at[t].rest) /\ ToSet(at[t].rest) \subseteq ToSet(list[at[t].block])

\* Who waits for a SyncVar's mutex has one that is in its list; one that is waited
\* for to be freed is in no list, and one thread does.
UsersFit ==
  /\ \A t \in Threads : at[t].in \in {"lock", "use"} => var_addr[at[t].var] = at[t].addr
  /\ \A t \in Threads : at[t].in = "lock" => Live(ListOf[at[t].addr], at[t].var)
DrainersFit ==
  /\ \A t \in Threads : at[t].in = "drain" =>
       var_addr[at[t].var] # 0 /\ \A l \in Lists : ~Live(l, at[t].var)
  /\ \A t, u \in Threads :
       at[t].in = "drain" /\ at[u].in = "drain" /\ at[t].var = at[u].var => t = u

Inv ==
  FieldsTyped /\ ListsAreHeld /\ VarsAreHeld /\ OneVarEach /\ SweepsFit /\ UsersFit /\ DrainersFit

-----------------------------------------------------------------------------
(* Lists.                                                                   *)

\* What a sequence holds, by its positions.
LEMMA HeldAtPosition ==
  ASSUME NEW S, NEW s \in Seq(S)
  PROVE  /\ DOMAIN s = 1 .. Len(s) /\ Len(s) \in Nat
         /\ \A v : v \in ToSet(s) <=> \E i \in 1 .. Len(s) : s[i] = v
         /\ ToSet(s) \subseteq S
         /\ s = << >> <=> ToSet(s) = {}
BY DEF ToSet

\* The rest of a sweep (tsan_mman.cc:82-84).
LEMMA TailIsRest ==
  ASSUME NEW S, NEW s \in Seq(S), s # << >>, IsInjective(s)
  PROVE  /\ Tail(s) \in Seq(S) /\ IsInjective(Tail(s))
         /\ ToSet(Tail(s)) = ToSet(s) \ {s[1]}
         /\ s[1] \in ToSet(s) /\ s[1] \in S
<1>1. /\ Tail(s) \in Seq(S) /\ Len(s) \in Nat /\ Len(s) > 0 /\ Len(Tail(s)) = Len(s) - 1
      /\ \A i \in 1 .. Len(s) - 1 : Tail(s)[i] = s[i + 1]
      /\ DOMAIN s = 1 .. Len(s) /\ DOMAIN Tail(s) = 1 .. Len(s) - 1
  OBVIOUS
<1>2. IsInjective(Tail(s))
  BY <1>1 DEF IsInjective
<1>3. ToSet(Tail(s)) = ToSet(s) \ {s[1]}
  <2>1. ASSUME NEW v \in ToSet(Tail(s)) PROVE v \in ToSet(s) \ {s[1]}
    <3>1. PICK i \in 1 .. Len(s) - 1 : v = s[i + 1]
      BY <1>1 DEF ToSet
    <3>2. i + 1 \in 1 .. Len(s) /\ i + 1 # 1 /\ 1 \in 1 .. Len(s)
      BY <1>1
    <3>3. QED BY <1>1, <3>1, <3>2 DEF ToSet, IsInjective
  <2>2. ASSUME NEW v \in ToSet(s), v # s[1] PROVE v \in ToSet(Tail(s))
    <3>1. PICK i \in 1 .. Len(s) : v = s[i]
      BY <1>1 DEF ToSet
    <3>2. i - 1 \in 1 .. Len(s) - 1 /\ Tail(s)[i - 1] = s[i]
      BY <1>1, <2>2, <3>1
    <3>3. QED BY <1>1, <3>1, <3>2 DEF ToSet
  <2>3. QED BY <2>1, <2>2
<1>4. s[1] \in ToSet(s) /\ s[1] \in S
  BY <1>1 DEF ToSet
<1>5. QED BY <1>1, <1>2, <1>3, <1>4

\* res->next = b->head; b->head = res (tsan_sync.cc:71).
LEMMA HeadIsAdded ==
  ASSUME NEW S, NEW s \in Seq(S), NEW v \in S, v \notin ToSet(s), IsInjective(s)
  PROVE  /\ <<v>> \o s \in Seq(S) /\ IsInjective(<<v>> \o s)
         /\ ToSet(<<v>> \o s) = ToSet(s) \cup {v}
<1>1. /\ <<v>> \o s \in Seq(S) /\ Len(s) \in Nat /\ Len(<<v>> \o s) = Len(s) + 1
      /\ DOMAIN s = 1 .. Len(s) /\ DOMAIN (<<v>> \o s) = 1 .. Len(s) + 1
      /\ (<<v>> \o s)[1] = v
      /\ \A i \in 1 .. Len(s) : (<<v>> \o s)[i + 1] = s[i]
  OBVIOUS
<1>2. PICK u : u = <<v>> \o s
  OBVIOUS
<1>3. \A i \in 1 .. Len(s) + 1 : i = 1 \/ (i - 1 \in 1 .. Len(s) /\ u[i] = s[i - 1])
  BY <1>1, <1>2
<1>4. \A i \in 1 .. Len(s) : s[i] # v
  BY <1>1 DEF ToSet
<1>5. IsInjective(u)
  BY <1>1, <1>2, <1>3, <1>4 DEF IsInjective
<1>6. ToSet(u) = ToSet(s) \cup {v}
  <2>1. ToSet(u) \subseteq ToSet(s) \cup {v}
    BY <1>1, <1>2, <1>3 DEF ToSet
  <2>2. v \in ToSet(u)
    BY <1>1, <1>2 DEF ToSet
  <2>3. \A i \in 1 .. Len(s) : i + 1 \in DOMAIN u /\ u[i + 1] = s[i]
    BY <1>1, <1>2
  <2>4. ToSet(s) \subseteq ToSet(u)
    BY <1>1, <2>3 DEF ToSet
  <2>5. QED BY <2>1, <2>2, <2>4
<1>7. QED BY <1>1, <1>2, <1>5, <1>6

\* *prev = res->next (tsan_sync.cc:128, 154).
LEMMA OneIsRemoved ==
  ASSUME NEW S, NEW s \in Seq(S), NEW k \in DOMAIN s, IsInjective(s)
  PROVE  /\ RemoveAt(s, k) \in Seq(S) /\ IsInjective(RemoveAt(s, k))
         /\ ToSet(RemoveAt(s, k)) = ToSet(s) \ {s[k]}
         /\ s[k] \in ToSet(s) /\ s[k] \in S
<1>1. PICK u : u = RemoveAt(s, k)
  OBVIOUS
<1>2. Len(s) \in Nat /\ DOMAIN s = 1 .. Len(s) /\ k \in 1 .. Len(s)
  OBVIOUS
<1>3. PICK p : p = SubSeq(s, 1, k - 1)
  OBVIOUS
<1>4. PICK q : q = SubSeq(s, k + 1, Len(s))
  OBVIOUS
<1>5. p \in Seq(S) /\ Len(p) = k - 1 /\ \A i \in 1 .. k - 1 : p[i] = s[i]
  <2>1. 1 \in 1 .. Len(s) /\ k - 1 \in 0 .. Len(s)
    BY <1>2
  <2>2. \A i \in 1 .. k - 1 : i \in 1 .. Len(s) /\ s[i] \in S
    BY <1>2
  <2>3. p = [i \in 1 .. k - 1 |-> s[i]]
    BY <1>2, <1>3
  <2>4. QED BY <1>2, <2>2, <2>3
<1>6. q \in Seq(S) /\ Len(q) = Len(s) - k /\ \A i \in 1 .. Len(s) - k : q[i] = s[k + i]
  <2>1. \A i \in 1 .. Len(s) - k : k + i \in 1 .. Len(s) /\ s[k + i] \in S
    BY <1>2
  <2>2. q = [i \in 1 .. Len(s) - k |-> s[k + i]]
    BY <1>2, <1>4
  <2>3. QED BY <1>2, <2>1, <2>2
<1>7. /\ u \in Seq(S) /\ Len(u) = Len(s) - 1 /\ DOMAIN u = 1 .. Len(s) - 1
      /\ \A i \in 1 .. Len(s) - 1 : u[i] = IF i < k THEN s[i] ELSE s[i + 1]
      /\ IsInjective(u)
  <2>1. u = p \o q
    BY <1>1, <1>3, <1>4 DEF RemoveAt
  <2>2. u \in Seq(S) /\ Len(u) = Len(s) - 1 /\ DOMAIN u = 1 .. Len(s) - 1
    <3>1. u \in Seq(S) /\ Len(u) = Len(p) + Len(q)
      BY <1>5, <1>6, <2>1, ConcatProperties
    <3>2. Len(u) = Len(s) - 1
      BY <1>2, <1>5, <1>6, <3>1
    <3>3. QED BY <3>1, <3>2
  <2>3. ASSUME NEW i \in 1 .. Len(s) - 1 PROVE u[i] = IF i < k THEN s[i] ELSE s[i + 1]
    <3>1. CASE i < k
      BY <1>2, <1>5, <1>6, <2>1, <3>1
    <3>2. CASE i >= k
      <4>1. u[i] = q[i - (k - 1)] /\ i - (k - 1) \in 1 .. Len(s) - k
        BY <1>2, <1>5, <1>6, <2>1, <3>2
      <4>2. k + (i - (k - 1)) = i + 1
        BY <1>2, <3>2
      <4>3. q[i - (k - 1)] = s[i + 1]
        BY <1>6, <4>1, <4>2
      <4>4. ~(i < k)
        BY <1>2, <3>2
      <4>5. QED BY <4>1, <4>3, <4>4
    <3>3. QED BY <1>2, <3>1, <3>2
  <2>4. \A i, j \in 1 .. Len(s) : s[i] = s[j] => i = j
    BY <1>2 DEF IsInjective
  <2>5. IsInjective(u)
    BY <1>2, <2>2, <2>3, <2>4 DEF IsInjective
  <2>6. QED BY <2>2, <2>3, <2>5
<1>8. ToSet(u) = ToSet(s) \ {s[k]}
  <2>1. ASSUME NEW i \in 1 .. Len(s) - 1 PROVE u[i] \in ToSet(s) \ {s[k]}
    BY <1>2, <1>7 DEF ToSet, IsInjective
  <2>2. ASSUME NEW i \in 1 .. Len(s), s[i] # s[k] PROVE s[i] \in ToSet(u)
    <3>1. CASE i < k
      BY <1>2, <1>7, <3>1 DEF ToSet
    <3>2. CASE i > k
      <4>1. i - 1 \in 1 .. Len(s) - 1 /\ u[i - 1] = s[i]
        BY <1>2, <1>7, <3>2
      <4>2. QED BY <1>7, <4>1 DEF ToSet
    <3>3. QED BY <1>2, <2>2, <3>1, <3>2
  <2>3. QED BY <1>2, <1>7, <2>1, <2>2 DEF ToSet
<1>9. s[k] \in ToSet(s) /\ s[k] \in S
  BY <1>2 DEF ToSet
<1>10. QED BY <1>1, <1>7, <1>8, <1>9

-----------------------------------------------------------------------------
(* Threads, mutexes and steps that touch no list.                           *)

LEMMA PositionsAreTyped ==
  ASSUME FieldsTyped, NEW t \in Threads
  PROVE  /\ at[t] \in Positions
         /\ at[t] = Idle => at[t].in = "idle"
         /\ at[t].in \in {"search", "insert"} => at[t] \in Asking
         /\ at[t].in \in {"lock", "use"} => at[t] \in Having
         /\ at[t].in = "drain" => at[t] \in Draining
         /\ at[t].in = "free" => at[t] \in Freeing
         /\ at[t].in = "sweep" => at[t] \in SweepingAt
BY DEF FieldsTyped, Positions, Idle, Asking, Having, Draining, Freeing, SweepingAt

\* The thread that moves, and the others.
LEMMA ThreadMoves ==
  ASSUME FieldsTyped, NEW t \in Threads, NEW r \in Positions, at' = [at EXCEPT ![t] = r]
  PROVE  /\ at' \in [Threads -> Positions] /\ at'[t] = r
         /\ \A u \in Threads : u # t => at'[u] = at[u]
BY DEF FieldsTyped

LEMMA MutexLocked ==
  ASSUME NEW m \in Mutexes, Excludes(m), NEW t \in Threads, t \notin Holders(m),
         NEW write \in BOOLEAN, IF write THEN CanLock(m) ELSE CanReadLock(m)
  PROVE  /\ Locked(m, t, write) \in Mutexes /\ Excludes(Locked(m, t, write))
         /\ Holders(Locked(m, t, write)) = Holders(m) \cup {t}
         /\ write => t \in Locked(m, t, write).writer
         /\ m.writer = {}
BY DEF Mutexes, Excludes, Holders, CanLock, CanReadLock, Locked

LEMMA MutexReleased ==
  ASSUME NEW m \in Mutexes, Excludes(m), NEW t \in Threads
  PROVE  /\ Released(m, t) \in Mutexes /\ Excludes(Released(m, t))
         /\ Holders(Released(m, t)) = Holders(m) \ {t}
         /\ \A u : u # t /\ u \in m.writer => u \in Released(m, t).writer
BY DEF Mutexes, Excludes, Holders, Released

\* A mutex that can be locked has nobody, one that can be read-locked no writer.
LEMMA NobodyHolds ==
  ASSUME NEW m \in Mutexes
  PROVE  /\ CanLock(m) => Holders(m) = {}
         /\ CanReadLock(m) => m.writer = {}
BY DEF Mutexes, Holders, CanLock, CanReadLock

LEMMA ListsStayHeld ==
  ASSUME Inv, NEW t \in Threads, NEW r \in Positions, at' = [at EXCEPT ![t] = r],
         list_mtx' = list_mtx,
         \A l \in Lists : /\ Sweeps(r, l) <=> Sweeps(at[t], l)
                          /\ Locks(r, l) <=> Locks(at[t], l)
  PROVE  ListsAreHeld'
<1>1. at'[t] = r /\ \A u \in Threads : u # t => at'[u] = at[u]
  BY ThreadMoves DEF Inv
<1>2. \A l \in Lists, u \in Threads : /\ Sweeps(at'[u], l) <=> Sweeps(at[u], l)
                                      /\ Locks(at'[u], l) <=> Locks(at[u], l)
  BY <1>1
<1>3. QED BY <1>2 DEF Inv, ListsAreHeld

LEMMA VarsStayHeld ==
  ASSUME Inv, NEW t \in Threads, NEW r \in Positions, at' = [at EXCEPT ![t] = r],
         var_mtx' = var_mtx, r.in # "use", at[t].in # "use"
  PROVE  VarsAreHeld'
<1>1. at'[t] = r /\ \A u \in Threads : u # t => at'[u] = at[u]
  BY ThreadMoves DEF Inv
<1>2. \A v \in Vars, u \in Threads : /\ Uses(at'[u], v) <=> Uses(at[u], v)
                                     /\ Uses(at'[u], v) => at'[u].write = at[u].write
  BY <1>1 DEF Uses
<1>3. QED BY <1>2 DEF Inv, VarsAreHeld

LEMMA ListIsTaken ==
  ASSUME Inv, NEW t \in Threads, NEW r \in Positions, at' = [at EXCEPT ![t] = r],
         NEW l \in Lists, NEW write \in BOOLEAN,
         IF write THEN CanLock(list_mtx[l]) ELSE CanReadLock(list_mtx[l]),
         list_mtx' = [list_mtx EXCEPT ![l] = Locked(@, t, write)],
         at[t].in \notin {"lock", "sweep"},
         \A k \in Lists : Sweeps(r, k) \/ Locks(r, k) <=> k = l,
         \A k \in Lists : Sweeps(r, k) => write
  PROVE  ListsAreHeld' /\ list_mtx' \in [Lists -> Mutexes]
<1>1. at'[t] = r /\ \A u \in Threads : u # t => at'[u] = at[u]
  BY ThreadMoves DEF Inv
<1>2. list_mtx \in [Lists -> Mutexes] /\ ListsAreHeld
  BY DEF Inv, FieldsTyped
<1>3. \A k \in Lists : ~Sweeps(at[t], k) /\ ~Locks(at[t], k)
  BY DEF Sweeps, Locks
<1>4. t \notin Holders(list_mtx[l])
  BY <1>2, <1>3 DEF ListsAreHeld
<1>5. PICK m : m = Locked(list_mtx[l], t, write)
  OBVIOUS
<1>6. m \in Mutexes /\ Excludes(m) /\ Holders(m) = Holders(list_mtx[l]) \cup {t}
      /\ (write => t \in m.writer) /\ list_mtx[l].writer = {}
  BY <1>2, <1>4, <1>5, MutexLocked DEF ListsAreHeld
<1>7. list_mtx' = [list_mtx EXCEPT ![l] = m]
  BY <1>5
<1>8. list_mtx' \in [Lists -> Mutexes] /\ list_mtx'[l] = m
      /\ \A k \in Lists : k # l => list_mtx'[k] = list_mtx[k]
  BY <1>2, <1>6, <1>7
<1>9. ASSUME NEW k \in Lists
      PROVE  /\ Excludes(list_mtx'[k])
             /\ \A u \in Threads : u \in Holders(list_mtx'[k]) <=> Sweeps(at'[u], k) \/ Locks(at'[u], k)
             /\ \A u \in Threads : Sweeps(at'[u], k) => u \in list_mtx'[k].writer
  <2>1. CASE k = l
    BY <1>1, <1>2, <1>6, <1>8, <2>1 DEF ListsAreHeld
  <2>2. CASE k # l
    BY <1>1, <1>2, <1>3, <1>8, <2>2 DEF ListsAreHeld
  <2>3. QED BY <2>1, <2>2
<1>10. QED BY <1>8, <1>9 DEF ListsAreHeld

LEMMA ListIsLetGo ==
  ASSUME Inv, NEW t \in Threads, NEW r \in Positions, at' = [at EXCEPT ![t] = r],
         NEW l \in Lists, list_mtx' = [list_mtx EXCEPT ![l] = Released(@, t)],
         \A k \in Lists : Sweeps(at[t], k) \/ Locks(at[t], k) <=> k = l,
         r.in \notin {"lock", "sweep"}
  PROVE  ListsAreHeld' /\ list_mtx' \in [Lists -> Mutexes]
<1>1. at'[t] = r /\ \A u \in Threads : u # t => at'[u] = at[u]
  BY ThreadMoves DEF Inv
<1>2. list_mtx \in [Lists -> Mutexes] /\ ListsAreHeld
  BY DEF Inv, FieldsTyped
<1>3. \A k \in Lists : ~Sweeps(r, k) /\ ~Locks(r, k)
  BY DEF Sweeps, Locks
<1>5. PICK m : m = Released(list_mtx[l], t)
  OBVIOUS
<1>6. m \in Mutexes /\ Excludes(m) /\ Holders(m) = Holders(list_mtx[l]) \ {t}
      /\ \A u : u # t /\ u \in list_mtx[l].writer => u \in m.writer
  BY <1>2, <1>5, MutexReleased DEF ListsAreHeld
<1>7. list_mtx' = [list_mtx EXCEPT ![l] = m]
  BY <1>5
<1>8. list_mtx' \in [Lists -> Mutexes] /\ list_mtx'[l] = m
      /\ \A k \in Lists : k # l => list_mtx'[k] = list_mtx[k]
  BY <1>2, <1>6, <1>7
<1>9. ASSUME NEW k \in Lists
      PROVE  /\ Excludes(list_mtx'[k])
             /\ \A u \in Threads : u \in Holders(list_mtx'[k]) <=> Sweeps(at'[u], k) \/ Locks(at'[u], k)
             /\ \A u \in Threads : Sweeps(at'[u], k) => u \in list_mtx'[k].writer
  <2>1. CASE k = l
    BY <1>1, <1>2, <1>3, <1>6, <1>8, <2>1 DEF ListsAreHeld
  <2>2. CASE k # l
    BY <1>1, <1>2, <1>3, <1>8, <2>2 DEF ListsAreHeld
  <2>3. QED BY <2>1, <2>2
<1>10. QED BY <1>8, <1>9 DEF ListsAreHeld

\* A step that leaves lists and memory alone keeps what is said of them.
LEMMA QuietStep ==
  ASSUME Inv, NEW t \in Threads, NEW r \in Positions, at' = [at EXCEPT ![t] = r],
         list' = list, var_addr' = var_addr,
         at[t].in # "sweep", r.in \notin {"sweep", "drain"},
         r.in \in {"lock", "use"} => var_addr[r.var] = r.addr,
         r.in = "lock" => Live(ListOf[r.addr], r.var)
  PROVE  OneVarEach' /\ SweepsFit' /\ UsersFit' /\ DrainersFit'
<1>1. at'[t] = r /\ \A u \in Threads : u # t => at'[u] = at[u]
  BY ThreadMoves DEF Inv
<1>2. \A u \in Threads, l \in Lists : Sweeps(at'[u], l) <=> Sweeps(at[u], l)
  BY <1>1 DEF Sweeps
<1>3. \A u \in Threads, l \in Lists : Sweeps(at'[u], l) => at'[u] = at[u]
  BY <1>1 DEF Sweeps
<1>4. \A l, v : l \in Lists => (Live(l, v)' <=> Live(l, v))
  BY <1>2, <1>3 DEF Live
<1>5. OneVarEach'
  BY <1>4 DEF OneVarEach, Inv
<1>6. SweepsFit'
  BY <1>1 DEF SweepsFit, Inv
<1>7. UsersFit'
  <2>1. \A u \in Threads : at'[u].in \in {"lock", "use"} => var_addr'[at'[u].var] = at'[u].addr
    BY <1>1 DEF UsersFit, Inv
  <2>2. ASSUME NEW u \in Threads, NEW l, NEW v, at'[u].in = "lock", l = ListOf[at'[u].addr], v = at'[u].var
        PROVE  Live(l, v)'
    <3>1. at'[u] \in Positions
      BY ThreadMoves DEF Inv
    <3>2. at'[u] \in Having
      BY <2>2, <3>1 DEF Positions, Idle, Asking, Having, Draining, Freeing, SweepingAt
    <3>3. l \in Lists
      BY <2>2, <3>2, SyncAssumption DEF Having
    <3>4. Live(l, v)
      BY <1>1, <2>2 DEF UsersFit, Inv
    <3>5. QED BY <1>4, <3>3, <3>4
  <2>3. QED BY <2>1, <2>2 DEF UsersFit, Live
<1>8. DrainersFit'
  <2>1. \A u \in Threads : at'[u].in = "drain" => at'[u] = at[u]
    BY <1>1
  <2>2. QED BY <1>4, <2>1 DEF DrainersFit, Inv
<1>9. QED BY <1>5, <1>6, <1>7, <1>8

LEMMA CallGetAndLockKeepsInv ==
  ASSUME Inv, NEW t \in Threads, CallGetAndLock(t)
  PROVE  Inv'
<1>1. PICK addr \in Addrs, write \in BOOLEAN, create \in BOOLEAN :
        at' = [at EXCEPT ![t] =
            [in |-> IF ListOf[addr] \in Blocks THEN "insert" ELSE "search",
             addr |-> addr, write |-> write, create |-> create]]
  BY DEF CallGetAndLock
<1>2. PICK r : r = [in |-> IF ListOf[addr] \in Blocks THEN "insert" ELSE "search",
                    addr |-> addr, write |-> write, create |-> create]
  OBVIOUS
<1>3. r \in Asking /\ r \in Positions /\ r.in \in {"search", "insert"} /\ at' = [at EXCEPT ![t] = r]
  BY <1>1, <1>2 DEF Asking, Positions
<1>4. at[t].in = "idle"
  BY DEF CallGetAndLock, Idle
<1>5. UNCHANGED <<list, var_addr, list_mtx, var_mtx>>
  BY DEF CallGetAndLock
<1>6. FieldsTyped'
  BY <1>3, <1>5, ThreadMoves DEF FieldsTyped, Inv
<1>7. \A l \in Lists : ~Sweeps(r, l) /\ ~Locks(r, l) /\ ~Sweeps(at[t], l) /\ ~Locks(at[t], l)
  BY <1>3, <1>4 DEF Sweeps, Locks
<1>8. ListsAreHeld'
  BY <1>3, <1>5, <1>7, ListsStayHeld
<1>9. VarsAreHeld'
  BY <1>3, <1>4, <1>5, VarsStayHeld
<1>10. OneVarEach' /\ SweepsFit' /\ UsersFit' /\ DrainersFit'
  BY <1>3, <1>4, <1>5, QuietStep
<1>11. QED BY <1>6, <1>8, <1>9, <1>10 DEF Inv

LEMMA CallFreeKeepsInv ==
  ASSUME Inv, NEW t \in Threads, CallFree(t)
  PROVE  Inv'
<1>1. PICK b \in Blocks : at' = [at EXCEPT ![t] = [in |-> "free", block |-> b]]
  BY DEF CallFree
<1>2. PICK r : r = [in |-> "free", block |-> b]
  OBVIOUS
<1>3. r \in Positions /\ r.in = "free" /\ at' = [at EXCEPT ![t] = r]
  BY <1>1, <1>2 DEF Freeing, Positions
<1>4. at[t].in = "idle"
  BY DEF CallFree, Idle
<1>5. UNCHANGED <<list, var_addr, list_mtx, var_mtx>>
  BY DEF CallFree
<1>6. FieldsTyped'
  BY <1>3, <1>5, ThreadMoves DEF FieldsTyped, Inv
<1>7. \A l \in Lists : ~Sweeps(r, l) /\ ~Locks(r, l) /\ ~Sweeps(at[t], l) /\ ~Locks(at[t], l)
  BY <1>3, <1>4 DEF Sweeps, Locks
<1>8. ListsAreHeld'
  BY <1>3, <1>5, <1>7, ListsStayHeld
<1>9. VarsAreHeld'
  BY <1>3, <1>4, <1>5, VarsStayHeld
<1>10. OneVarEach' /\ SweepsFit' /\ UsersFit' /\ DrainersFit'
  BY <1>3, <1>4, <1>5, QuietStep
<1>11. QED BY <1>6, <1>8, <1>9, <1>10 DEF Inv

\* What a thread finds in a list that nobody sweeps is the one SyncVar of the address.
LEMMA FoundIsLive ==
  ASSUME Inv, NEW l \in Lists, list_mtx[l].writer = {}
  PROVE  /\ \A t \in Threads : ~Sweeps(at[t], l)
         /\ \A v : Live(l, v) <=> v \in ToSet(list[l])
         /\ ToSet(list[l]) \subseteq Vars
         /\ \A addr, v : v \in Found(l, addr) => v \in Vars /\ Live(l, v) /\ var_addr[v] = addr
<1>1. \A t \in Threads : ~Sweeps(at[t], l)
  BY DEF Inv, ListsAreHeld
<1>2. \A v : Live(l, v) <=> v \in ToSet(list[l])
  BY <1>1 DEF Live
<1>3. ToSet(list[l]) \subseteq Vars
  BY HeldAtPosition DEF Inv, FieldsTyped
<1>4. QED BY <1>1, <1>2, <1>3 DEF Found

LEMMA SearchKeepsInv ==
  ASSUME Inv, NEW t \in Threads, Search(t)
  PROVE  Inv'
<1>1. at[t] \in Asking /\ at[t].in = "search" /\ at[t].addr \in Addrs /\ ListOf[at[t].addr] \in Lists
  BY PositionsAreTyped, SyncAssumption DEF Search, Inv, Asking
<1>2. UNCHANGED <<list, var_addr, var_mtx>>
  BY DEF Search
<1>3. PICK l \in Lists : l = ListOf[at[t].addr]
  BY <1>1
<1>4. CanReadLock(list_mtx[l]) /\ list_mtx[l].writer = {}
  BY <1>3 DEF Search, CanReadLock
<1>5. CASE Found(l, at[t].addr) = {}
  <2>1. list_mtx' = list_mtx /\ at' = [at EXCEPT ![t].in = "insert"]
    BY <1>3, <1>5 DEF Search
  <2>2. PICK r : r = [at[t] EXCEPT !.in = "insert"]
    OBVIOUS
  <2>3. r \in Positions /\ r.in = "insert" /\ at' = [at EXCEPT ![t] = r]
    BY <1>1, <2>1, <2>2 DEF Asking, Positions
  <2>4. FieldsTyped'
    BY <1>2, <2>1, <2>3, ThreadMoves DEF FieldsTyped, Inv
  <2>5. \A k \in Lists : ~Sweeps(r, k) /\ ~Locks(r, k) /\ ~Sweeps(at[t], k) /\ ~Locks(at[t], k)
    BY <1>1, <2>3 DEF Sweeps, Locks
  <2>6. ListsAreHeld'
    BY <2>1, <2>3, <2>5, ListsStayHeld
  <2>7. VarsAreHeld'
    BY <1>1, <1>2, <2>3, VarsStayHeld
  <2>8. OneVarEach' /\ SweepsFit' /\ UsersFit' /\ DrainersFit'
    BY <1>1, <1>2, <2>3, QuietStep
  <2>9. QED BY <2>4, <2>6, <2>7, <2>8 DEF Inv
<1>6. CASE Found(l, at[t].addr) # {}
  <2>1. PICK v \in Found(l, at[t].addr) :
          at' = [at EXCEPT ![t] = [in |-> "lock", var |-> v, addr |-> at[t].addr,
                                   write |-> at[t].write, create |-> at[t].create]]
    BY <1>3, <1>6 DEF Search
  <2>2. list_mtx' = [list_mtx EXCEPT ![l] = Locked(@, t, FALSE)]
    BY <1>3, <1>6 DEF Search
  <2>3. v \in Vars /\ Live(l, v) /\ var_addr[v] = at[t].addr
    BY <1>4, FoundIsLive
  <2>4. PICK r : r = [in |-> "lock", var |-> v, addr |-> at[t].addr,
                      write |-> at[t].write, create |-> at[t].create]
    OBVIOUS
  <2>5. /\ r \in Positions /\ r.in = "lock" /\ r.var = v /\ r.addr = at[t].addr
        /\ at' = [at EXCEPT ![t] = r]
    BY <1>1, <2>1, <2>3, <2>4 DEF Asking, Having, Positions
  <2>6. \A k \in Lists : ~Sweeps(r, k) /\ (Locks(r, k) <=> k = l)
    BY <1>3, <2>5 DEF Sweeps, Locks
  <2>7. ListsAreHeld' /\ list_mtx' \in [Lists -> Mutexes]
    BY <1>1, <1>4, <2>2, <2>5, <2>6, ListIsTaken
  <2>8. FieldsTyped'
    BY <1>2, <2>5, <2>7, ThreadMoves DEF FieldsTyped, Inv
  <2>9. VarsAreHeld'
    BY <1>1, <1>2, <2>5, VarsStayHeld
  <2>10. OneVarEach' /\ SweepsFit' /\ UsersFit' /\ DrainersFit'
    BY <1>1, <1>2, <1>3, <2>3, <2>5, QuietStep
  <2>11. QED BY <2>7, <2>8, <2>9, <2>10 DEF Inv
<1>7. QED BY <1>5, <1>6

LEMMA LockVarKeepsInv ==
  ASSUME Inv, NEW t \in Threads, LockVar(t)
  PROVE  Inv'
<1>1. /\ at[t] \in Having /\ at[t].in = "lock" /\ ListOf[at[t].addr] \in Lists
      /\ at[t].var \in Vars /\ at[t].write \in BOOLEAN
  BY PositionsAreTyped, SyncAssumption DEF LockVar, Inv, Having
<1>2. PICK l \in Lists, v \in Vars, write \in BOOLEAN :
        l = ListOf[at[t].addr] /\ v = at[t].var /\ write = at[t].write
  BY <1>1
<1>3. /\ IF write THEN CanLock(var_mtx[v]) ELSE CanReadLock(var_mtx[v])
      /\ var_mtx' = [var_mtx EXCEPT ![v] = Locked(@, t, write)]
      /\ list_mtx' = [list_mtx EXCEPT ![l] = Released(@, t)]
      /\ at' = [at EXCEPT ![t].in = "use"]
      /\ UNCHANGED <<list, var_addr>>
  BY <1>2 DEF LockVar
<1>4. PICK r : r = [at[t] EXCEPT !.in = "use"]
  OBVIOUS
<1>5. /\ r \in Positions /\ r.in = "use" /\ r.var = v /\ r.addr = at[t].addr /\ r.write = write
      /\ at' = [at EXCEPT ![t] = r]
  BY <1>1, <1>2, <1>3, <1>4 DEF Having, Positions
<1>6. \A k \in Lists : Sweeps(at[t], k) \/ Locks(at[t], k) <=> k = l
  BY <1>1, <1>2 DEF Sweeps, Locks
<1>7. ListsAreHeld' /\ list_mtx' \in [Lists -> Mutexes]
  BY <1>3, <1>5, <1>6, ListIsLetGo
<1>8. at'[t] = r /\ \A u \in Threads : u # t => at'[u] = at[u]
  BY <1>5, ThreadMoves DEF Inv
<1>9. VarsAreHeld' /\ var_mtx' \in [Vars -> Mutexes]
  <2>1. var_mtx \in [Vars -> Mutexes] /\ VarsAreHeld
    BY DEF Inv, FieldsTyped
  <2>2. \A w \in Vars : ~Uses(at[t], w)
    BY <1>1 DEF Uses
  <2>3. PICK m : m = Locked(var_mtx[v], t, write)
    OBVIOUS
  <2>4. t \notin Holders(var_mtx[v])
    BY <2>1, <2>2 DEF VarsAreHeld
  <2>5. /\ m \in Mutexes /\ Excludes(m) /\ Holders(m) = Holders(var_mtx[v]) \cup {t}
        /\ (write => t \in m.writer) /\ var_mtx[v].writer = {}
    BY <1>3, <2>1, <2>3, <2>4, MutexLocked DEF VarsAreHeld
  <2>6. /\ var_mtx' \in [Vars -> Mutexes] /\ var_mtx'[v] = m
        /\ \A w \in Vars : w # v => var_mtx'[w] = var_mtx[w]
    BY <1>3, <2>1, <2>3, <2>5
  <2>7. ASSUME NEW w \in Vars
        PROVE  /\ Excludes(var_mtx'[w])
               /\ \A u \in Threads : u \in Holders(var_mtx'[w]) <=> Uses(at'[u], w)
               /\ \A u \in Threads : Uses(at'[u], w) /\ at'[u].write => u \in var_mtx'[w].writer
    <3>1. Uses(at'[t], w) <=> w = v
      BY <1>5, <1>8 DEF Uses
    <3>2. CASE w = v
      BY <1>5, <1>8, <2>1, <2>2, <2>5, <2>6, <3>1, <3>2 DEF VarsAreHeld
    <3>3. CASE w # v
      BY <1>8, <2>1, <2>2, <2>6, <3>1, <3>3 DEF VarsAreHeld
    <3>4. QED BY <3>2, <3>3
  <2>8. QED BY <2>6, <2>7 DEF VarsAreHeld
<1>10. FieldsTyped'
  BY <1>3, <1>5, <1>7, <1>9, ThreadMoves DEF FieldsTyped, Inv
<1>11. var_addr[r.var] = r.addr
  BY <1>1, <1>2, <1>5 DEF Inv, UsersFit
<1>12. OneVarEach' /\ SweepsFit' /\ UsersFit' /\ DrainersFit'
  BY <1>1, <1>3, <1>5, <1>11, QuietStep
<1>13. QED BY <1>7, <1>9, <1>10, <1>12 DEF Inv

LEMMA UnlockKeepsInv ==
  ASSUME Inv, NEW t \in Threads, Unlock(t)
  PROVE  Inv'
<1>1. at[t] \in Having /\ at[t].in = "use" /\ at[t].var \in Vars
  BY PositionsAreTyped DEF Unlock, Inv, Having
<1>2. PICK v \in Vars : v = at[t].var
  BY <1>1
<1>3. /\ var_mtx' = [var_mtx EXCEPT ![v] = Released(@, t)]
      /\ UNCHANGED <<list, var_addr, list_mtx>>
  BY <1>2 DEF Unlock
<1>4. PICK r : r = Idle
  OBVIOUS
<1>5. r \in Positions /\ r.in = "idle" /\ at' = [at EXCEPT ![t] = r]
  BY <1>4 DEF Idle, Positions, Unlock
<1>6. \A k \in Lists : ~Sweeps(r, k) /\ ~Locks(r, k) /\ ~Sweeps(at[t], k) /\ ~Locks(at[t], k)
  BY <1>1, <1>5 DEF Sweeps, Locks
<1>7. ListsAreHeld'
  BY <1>3, <1>5, <1>6, ListsStayHeld
<1>8. at'[t] = r /\ \A u \in Threads : u # t => at'[u] = at[u]
  BY <1>5, ThreadMoves DEF Inv
<1>9. VarsAreHeld' /\ var_mtx' \in [Vars -> Mutexes]
  <2>1. var_mtx \in [Vars -> Mutexes] /\ VarsAreHeld
    BY DEF Inv, FieldsTyped
  <2>2. \A w \in Vars : ~Uses(at'[t], w) /\ (Uses(at[t], w) <=> w = v)
    BY <1>1, <1>2, <1>5, <1>8 DEF Uses
  <2>3. PICK m : m = Released(var_mtx[v], t)
    OBVIOUS
  <2>4. /\ m \in Mutexes /\ Excludes(m) /\ Holders(m) = Holders(var_mtx[v]) \ {t}
        /\ \A u : u # t /\ u \in var_mtx[v].writer => u \in m.writer
    BY <2>1, <2>3, MutexReleased DEF VarsAreHeld
  <2>5. /\ var_mtx' \in [Vars -> Mutexes] /\ var_mtx'[v] = m
        /\ \A w \in Vars : w # v => var_mtx'[w] = var_mtx[w]
    BY <1>3, <2>1, <2>3, <2>4
  <2>6. ASSUME NEW w \in Vars
        PROVE  /\ Excludes(var_mtx'[w])
               /\ \A u \in Threads : u \in Holders(var_mtx'[w]) <=> Uses(at'[u], w)
               /\ \A u \in Threads : Uses(at'[u], w) /\ at'[u].write => u \in var_mtx'[w].writer
    <3>1. CASE w = v
      BY <1>8, <2>1, <2>2, <2>4, <2>5, <3>1 DEF VarsAreHeld
    <3>2. CASE w # v
      BY <1>8, <2>1, <2>2, <2>5, <3>2 DEF VarsAreHeld
    <3>3. QED BY <3>1, <3>2
  <2>7. QED BY <2>5, <2>6 DEF VarsAreHeld
<1>10. FieldsTyped'
  BY <1>3, <1>5, <1>9, ThreadMoves DEF FieldsTyped, Inv
<1>11. OneVarEach' /\ SweepsFit' /\ UsersFit' /\ DrainersFit'
  BY <1>1, <1>3, <1>5, QuietStep
<1>12. QED BY <1>7, <1>9, <1>10, <1>11 DEF Inv

-----------------------------------------------------------------------------
(* Steps that change what a list has.                                       *)

LEMMA UsersFitNext ==
  ASSUME FieldsTyped',
         \A u \in Threads : at'[u].in \in {"lock", "use"} => var_addr'[at'[u].var] = at'[u].addr,
         \A u \in Threads, l \in Lists, v \in Vars :
           at'[u].in = "lock" /\ l = ListOf[at'[u].addr] /\ v = at'[u].var => Live(l, v)'
  PROVE  UsersFit'
<1>1. ASSUME NEW u \in Threads, NEW l, NEW v, at'[u].in = "lock", l = ListOf[at'[u].addr], v = at'[u].var
      PROVE  Live(l, v)'
  <2>1. at'[u] \in Having
    BY <1>1 DEF FieldsTyped, Positions, Idle, Asking, Having, Draining, Freeing, SweepingAt
  <2>2. l \in Lists /\ v \in Vars
    BY <1>1, <2>1, SyncAssumption DEF Having
  <2>3. QED BY <1>1, <2>2
<1>2. QED BY <1>1 DEF UsersFit, Live

\* Nobody waits under a list whose mutex is free, or looks for a SyncVar in it.
LEMMA NobodyInList ==
  ASSUME Inv, NEW l \in Lists, CanLock(list_mtx[l])
  PROVE  list_mtx[l].writer = {} /\ \A t \in Threads : ~Sweeps(at[t], l) /\ ~Locks(at[t], l)
<1>1. Holders(list_mtx[l]) = {} /\ list_mtx[l].writer = {}
  BY NobodyHolds DEF Inv, FieldsTyped, Holders
<1>2. QED BY <1>1 DEF Inv, ListsAreHeld

\* Where the variable of a thread that waits or uses is, and the list.
LEMMA PlaceIsTyped ==
  ASSUME Inv, NEW t \in Threads
  PROVE  /\ at[t].in \in {"lock", "use", "drain"} => at[t].var \in Vars
         /\ at[t].in \in {"search", "insert", "lock", "use"} =>
              at[t].addr \in Addrs /\ ListOf[at[t].addr] \in Lists
         /\ at[t].in = "sweep" => /\ at[t].block \in Blocks /\ at[t].block \in Lists
                                  /\ at[t].rest \in Seq(Vars)
BY PositionsAreTyped, SyncAssumption DEF Inv, Asking, Having, Draining, SweepingAt

LEMMA InsertKeepsInv ==
  ASSUME Inv, NEW t \in Threads, Insert(t)
  PROVE  Inv'
<1>1. /\ at[t] \in Asking /\ at[t].in = "insert" /\ at[t].addr \in Addrs /\ ListOf[at[t].addr] \in Lists
      /\ at[t].write \in BOOLEAN /\ at[t].create \in BOOLEAN
  <2>1. PICK l, addr : ListOf[addr] = l /\ at[t].addr = addr
    OBVIOUS
  <2>2. QED BY <2>1, PositionsAreTyped, SyncAssumption DEF Insert, Inv, Asking
<1>2. PICK l \in Lists, addr \in Addrs : ListOf[addr] = l /\ at[t].addr = addr
  BY <1>1
<1>3. CanLock(list_mtx[l]) /\ list_mtx' = [list_mtx EXCEPT ![l] = Locked(@, t, TRUE)]
      /\ var_mtx' = var_mtx
  BY <1>2 DEF Insert
<1>4. list_mtx[l].writer = {} /\ \A u \in Threads : ~Sweeps(at[u], l) /\ ~Locks(at[u], l)
  BY <1>3, NobodyInList
<1>5. ASSUME NEW v \in Vars,
             at' = [at EXCEPT ![t] = [in |-> "lock", var |-> v, addr |-> addr,
                                      write |-> at[t].write, create |-> at[t].create]]
      PROVE  \E r \in Positions :
               /\ r.in = "lock" /\ r.var = v /\ r.addr = addr /\ at' = [at EXCEPT ![t] = r]
               /\ ListsAreHeld' /\ list_mtx' \in [Lists -> Mutexes] /\ VarsAreHeld'
  <2>1. PICK r : r = [in |-> "lock", var |-> v, addr |-> addr,
                      write |-> at[t].write, create |-> at[t].create]
    OBVIOUS
  <2>2. /\ r \in Positions /\ r.in = "lock" /\ r.var = v /\ r.addr = addr
        /\ at' = [at EXCEPT ![t] = r]
    BY <1>1, <1>5, <2>1 DEF Having, Positions
  <2>3. \A k \in Lists : ~Sweeps(r, k) /\ (Locks(r, k) <=> k = l)
    BY <1>2, <2>2 DEF Sweeps, Locks
  <2>4. ListsAreHeld' /\ list_mtx' \in [Lists -> Mutexes]
    BY <1>1, <1>3, <2>2, <2>3, ListIsTaken
  <2>5. VarsAreHeld'
    BY <1>1, <1>3, <2>2, VarsStayHeld
  <2>6. QED BY <2>2, <2>4, <2>5
<1>6. CASE Found(l, addr) # {}
  <2>1. PICK v \in Found(l, addr) :
          /\ at' = [at EXCEPT ![t] = [in |-> "lock", var |-> v, addr |-> addr,
                                      write |-> at[t].write, create |-> at[t].create]]
          /\ UNCHANGED <<list, var_addr>>
    BY <1>2, <1>6 DEF Insert
  <2>2. v \in Vars /\ Live(l, v) /\ var_addr[v] = addr
    BY <1>4, FoundIsLive
  <2>3. PICK r \in Positions :
          /\ r.in = "lock" /\ r.var = v /\ r.addr = addr /\ at' = [at EXCEPT ![t] = r]
          /\ ListsAreHeld' /\ list_mtx' \in [Lists -> Mutexes] /\ VarsAreHeld'
    BY <1>5, <2>1, <2>2
  <2>4. FieldsTyped'
    BY <1>3, <2>1, <2>3, ThreadMoves DEF FieldsTyped, Inv
  <2>5. OneVarEach' /\ SweepsFit' /\ UsersFit' /\ DrainersFit'
    BY <1>1, <1>2, <2>1, <2>2, <2>3, QuietStep
  <2>6. QED BY <2>3, <2>4, <2>5 DEF Inv
<1>7. CASE Found(l, addr) = {}
  <2>1. PICK v \in Vars :
          /\ var_addr[v] = 0
          /\ at' = [at EXCEPT ![t] = [in |-> "lock", var |-> v, addr |-> addr,
                                      write |-> at[t].write, create |-> at[t].create]]
          /\ var_addr' = [var_addr EXCEPT ![v] = addr]
          /\ list' = [list EXCEPT ![l] = <<v>> \o @]
    BY <1>2, <1>7 DEF Insert
  <2>2. PICK r \in Positions :
          /\ r.in = "lock" /\ r.var = v /\ r.addr = addr /\ at' = [at EXCEPT ![t] = r]
          /\ ListsAreHeld' /\ list_mtx' \in [Lists -> Mutexes] /\ VarsAreHeld'
    BY <1>5, <2>1
  <2>3. at'[t] = r /\ \A u \in Threads : u # t => at'[u] = at[u]
    BY <2>2, ThreadMoves DEF Inv
  <2>4. /\ \A k \in Lists : ~Live(k, v)
        /\ \A w : w \in ToSet(list[l]) <=> Live(l, w)
        /\ \A w \in Vars : Live(l, w) => var_addr[w] # addr
        /\ ToSet(list[l]) \subseteq Vars
    BY <1>4, <1>7, <2>1, FoundIsLive DEF Inv, OneVarEach, Found
  <2>5. /\ list[l] \in Seq(Vars) /\ IsInjective(list[l]) /\ v \notin ToSet(list[l])
    BY <2>4 DEF Inv, FieldsTyped, OneVarEach
  <2>6. PICK s : s = <<v>> \o list[l]
    OBVIOUS
  <2>7. s \in Seq(Vars) /\ IsInjective(s) /\ ToSet(s) = ToSet(list[l]) \cup {v}
    BY <2>5, <2>6, HeadIsAdded
  <2>8. list' \in [Lists -> Seq(Vars)] /\ list'[l] = s /\ \A k \in Lists : k # l => list'[k] = list[k]
    BY <2>1, <2>6, <2>7 DEF Inv, FieldsTyped
  <2>9. /\ var_addr' \in [Vars -> Addrs \cup {0}] /\ var_addr'[v] = addr /\ addr # 0
        /\ \A w \in Vars : w # v => var_addr'[w] = var_addr[w]
    BY <2>1, SyncAssumption DEF Inv, FieldsTyped
  <2>10. FieldsTyped'
    BY <1>3, <2>2, <2>8, <2>9, ThreadMoves DEF FieldsTyped, Inv
  <2>11. \A u \in Threads, k \in Lists :
           (Sweeps(at'[u], k) <=> Sweeps(at[u], k)) /\ (Sweeps(at'[u], k) => at'[u] = at[u])
    BY <1>1, <2>2, <2>3 DEF Sweeps
  <2>12. \A k, w : k \in Lists => (Live(k, w)' <=> Live(k, w) \/ (k = l /\ w = v))
    <3>1. ASSUME NEW k \in Lists, NEW w PROVE Live(k, w)' <=> Live(k, w) \/ (k = l /\ w = v)
      <4>1. CASE k = l
        BY <1>4, <2>7, <2>8, <2>11, <4>1 DEF Live
      <4>2. CASE k # l
        BY <2>8, <2>11, <4>2 DEF Live
      <4>3. QED BY <4>1, <4>2
    <3>2. QED BY <3>1
  <2>13. OneVarEach'
    <3>1. \A k \in Lists : IsInjective(list'[k])
      BY <2>7, <2>8 DEF Inv, OneVarEach
    <3>2. \A k \in Lists, w \in Vars : Live(k, w)' => var_addr'[w] # 0 /\ ListOf[var_addr'[w]] = k
      BY <1>2, <2>4, <2>9, <2>12 DEF Inv, OneVarEach
    <3>3. \A k \in Lists, w, x \in Vars :
            Live(k, w)' /\ Live(k, x)' /\ var_addr'[w] = var_addr'[x] => w = x
      BY <2>4, <2>9, <2>12 DEF Inv, OneVarEach
    <3>4. ASSUME NEW k \in Lists, NEW w \in Vars, w \in ToSet(list'[k]), ~Live(k, w)'
          PROVE  var_addr'[w] = 0 \/ ListOf[var_addr'[w]] # k
      <4>1. k # l
        BY <2>4, <2>7, <2>8, <2>12, <3>4
      <4>2. w \in ToSet(list[k]) /\ ~Live(k, w)
        BY <2>8, <2>12, <3>4, <4>1
      <4>3. QED BY <1>2, <2>9, <4>1, <4>2 DEF Inv, OneVarEach
    <3>5. QED BY <3>1, <3>2, <3>3, <3>4 DEF OneVarEach
  <2>14. SweepsFit'
    <3>1. ASSUME NEW u \in Threads, at'[u].in = "sweep"
          PROVE  IsInjective(at'[u].rest) /\ ToSet(at'[u].rest) \subseteq ToSet(list'[at'[u].block])
      <4>1. at'[u] = at[u] /\ at[u].block \in Lists
        BY <2>2, <2>3, <3>1, PlaceIsTyped
      <4>2. at[u].block # l
        BY <1>4, <3>1, <4>1 DEF Sweeps
      <4>3. QED BY <2>8, <3>1, <4>1, <4>2 DEF Inv, SweepsFit
    <3>2. QED BY <3>1 DEF SweepsFit
  <2>15. UsersFit'
    <3>1. ASSUME NEW u \in Threads, at'[u].in \in {"lock", "use"}
          PROVE  var_addr'[at'[u].var] = at'[u].addr
      <4>1. CASE u = t
        BY <2>2, <2>3, <2>9, <4>1
      <4>2. CASE u # t
        <5>1. at'[u] = at[u] /\ var_addr[at[u].var] = at[u].addr /\ at[u].addr # 0 /\ at[u].var \in Vars
          BY <2>3, <3>1, <4>2, PlaceIsTyped, SyncAssumption DEF Inv, UsersFit
        <5>2. QED BY <2>1, <2>9, <5>1
      <4>3. QED BY <4>1, <4>2
    <3>2. ASSUME NEW u \in Threads, NEW k \in Lists, NEW w \in Vars,
                 at'[u].in = "lock", k = ListOf[at'[u].addr], w = at'[u].var
          PROVE  Live(k, w)'
      <4>1. CASE u = t
        BY <1>2, <2>2, <2>3, <2>12, <3>2, <4>1
      <4>2. CASE u # t
        BY <2>3, <2>12, <3>2, <4>2 DEF Inv, UsersFit
      <4>3. QED BY <4>1, <4>2
    <3>3. QED BY <2>10, <3>1, <3>2, UsersFitNext
  <2>16. DrainersFit'
    <3>1. \A u \in Threads : at'[u].in = "drain" => at'[u] = at[u] /\ at[u].var \in Vars /\ at[u].var # v
      BY <2>1, <2>2, <2>3, PlaceIsTyped DEF Inv, DrainersFit
    <3>2. QED BY <2>9, <2>12, <3>1 DEF Inv, DrainersFit
  <2>17. QED BY <2>2, <2>10, <2>13, <2>14, <2>15, <2>16 DEF Inv
<1>8. QED BY <1>6, <1>7

LEMMA UnlinkKeepsInv ==
  ASSUME Inv, NEW t \in Threads, Unlink(t)
  PROVE  Inv'
<1>1. PICK addr \in Addrs :
        /\ CanLock(list_mtx[ListOf[addr]])
        /\ \E i \in DOMAIN list[ListOf[addr]] :
             /\ var_addr[list[ListOf[addr]][i]] = addr
             /\ list' = [list EXCEPT ![ListOf[addr]] = RemoveAt(@, i)]
             /\ at' = [at EXCEPT ![t] = [in |-> "drain", var |-> list[ListOf[addr]][i]]]
  BY DEF Unlink
<1>2. PICK l \in Lists : l = ListOf[addr]
  BY SyncAssumption
<1>3. PICK i \in DOMAIN list[l] :
        /\ var_addr[list[l][i]] = addr
        /\ list' = [list EXCEPT ![l] = RemoveAt(@, i)]
        /\ at' = [at EXCEPT ![t] = [in |-> "drain", var |-> list[l][i]]]
  BY <1>1, <1>2
<1>4. UNCHANGED <<var_addr, list_mtx, var_mtx>> /\ at[t].in = "idle"
  BY DEF Unlink, Idle
<1>5. list_mtx[l].writer = {} /\ \A u \in Threads : ~Sweeps(at[u], l) /\ ~Locks(at[u], l)
  BY <1>1, <1>2, NobodyInList
<1>6. list[l] \in Seq(Vars) /\ IsInjective(list[l])
  BY DEF Inv, FieldsTyped, OneVarEach
<1>7. PICK v, s : v = list[l][i] /\ s = RemoveAt(list[l], i)
  OBVIOUS
<1>8. v \in Vars /\ v \in ToSet(list[l]) /\ s \in Seq(Vars) /\ IsInjective(s)
      /\ ToSet(s) = ToSet(list[l]) \ {v}
  BY <1>6, <1>7, OneIsRemoved
<1>9. list' \in [Lists -> Seq(Vars)] /\ list'[l] = s /\ \A k \in Lists : k # l => list'[k] = list[k]
  BY <1>3, <1>7, <1>8 DEF Inv, FieldsTyped
<1>10. PICK r : r = [in |-> "drain", var |-> v]
  OBVIOUS
<1>11. r \in Positions /\ r.in = "drain" /\ r.var = v /\ at' = [at EXCEPT ![t] = r]
  BY <1>3, <1>7, <1>8, <1>10 DEF Draining, Positions
<1>12. at'[t] = r /\ \A u \in Threads : u # t => at'[u] = at[u]
  BY <1>11, ThreadMoves DEF Inv
<1>13. FieldsTyped'
  BY <1>4, <1>9, <1>11, ThreadMoves DEF FieldsTyped, Inv
<1>14. ListsAreHeld'
  <2>1. \A k \in Lists : ~Sweeps(r, k) /\ ~Locks(r, k) /\ ~Sweeps(at[t], k) /\ ~Locks(at[t], k)
    BY <1>4, <1>11 DEF Sweeps, Locks
  <2>2. QED BY <1>4, <1>11, <2>1, ListsStayHeld
<1>15. VarsAreHeld'
  BY <1>4, <1>11, VarsStayHeld
<1>16. Live(l, v) /\ var_addr[v] # 0 /\ ListOf[var_addr[v]] = l
  BY <1>5, <1>8, FoundIsLive DEF Inv, OneVarEach
<1>17. \A u \in Threads, k \in Lists :
         (Sweeps(at'[u], k) <=> Sweeps(at[u], k)) /\ (Sweeps(at'[u], k) => at'[u] = at[u])
  BY <1>4, <1>11, <1>12 DEF Sweeps
<1>18. \A k, w : k \in Lists => (Live(k, w)' <=> Live(k, w) /\ w # v)
  <2>1. ASSUME NEW k \in Lists, NEW w PROVE Live(k, w)' <=> Live(k, w) /\ w # v
    <3>1. CASE k = l
      BY <1>5, <1>8, <1>9, <1>17, <3>1 DEF Live
    <3>2. CASE k # l
      <4>1. ~Live(k, v)
        BY <1>8, <1>16, <3>2 DEF Inv, OneVarEach
      <4>2. Live(k, w)' <=> Live(k, w)
        BY <1>9, <1>17, <3>2 DEF Live
      <4>3. QED BY <4>1, <4>2
    <3>3. QED BY <3>1, <3>2
  <2>2. QED BY <2>1
<1>19. OneVarEach'
  <2>1. \A k \in Lists : IsInjective(list'[k])
    BY <1>8, <1>9 DEF Inv, OneVarEach
  <2>2. ASSUME NEW k \in Lists, NEW w \in Vars, w \in ToSet(list'[k]), ~Live(k, w)'
        PROVE  var_addr'[w] = 0 \/ ListOf[var_addr'[w]] # k
    <3>1. w \in ToSet(list[k])
      BY <1>8, <1>9, <2>2
    <3>2. CASE w = v
      <4>1. k # l
        BY <1>8, <1>9, <2>2, <3>2
      <4>2. QED BY <1>4, <1>16, <3>2, <4>1
    <3>3. CASE w # v
      BY <1>4, <1>18, <2>2, <3>1, <3>3 DEF Inv, OneVarEach
    <3>4. QED BY <3>2, <3>3
  <2>3. QED BY <1>4, <1>18, <2>1, <2>2 DEF Inv, OneVarEach
<1>20. SweepsFit'
  <2>1. ASSUME NEW u \in Threads, at'[u].in = "sweep"
        PROVE  IsInjective(at'[u].rest) /\ ToSet(at'[u].rest) \subseteq ToSet(list'[at'[u].block])
    <3>1. at'[u] = at[u] /\ at[u].block \in Lists
      BY <1>11, <1>12, <2>1, PlaceIsTyped
    <3>2. at[u].block # l
      BY <1>5, <2>1, <3>1 DEF Sweeps
    <3>3. QED BY <1>9, <2>1, <3>1, <3>2 DEF Inv, SweepsFit
  <2>2. QED BY <2>1 DEF SweepsFit
<1>21. UsersFit'
  <2>1. \A u \in Threads : at'[u].in \in {"lock", "use"} => at'[u] = at[u] /\ u # t
    BY <1>11, <1>12
  <2>2. \A u \in Threads : at'[u].in \in {"lock", "use"} => var_addr'[at'[u].var] = at'[u].addr
    BY <1>4, <2>1 DEF Inv, UsersFit
  <2>3. ASSUME NEW u \in Threads, NEW k \in Lists, NEW w \in Vars,
               at'[u].in = "lock", k = ListOf[at'[u].addr], w = at'[u].var
        PROVE  Live(k, w)'
    <3>1. at'[u] = at[u] /\ Live(k, w)
      BY <2>1, <2>3 DEF Inv, UsersFit
    <3>2. k # l
      BY <1>5, <2>3, <3>1 DEF Locks
    <3>3. w # v
      BY <1>16, <3>1, <3>2 DEF Inv, OneVarEach
    <3>4. QED BY <1>18, <3>1, <3>3
  <2>4. QED BY <1>13, <2>2, <2>3, UsersFitNext
<1>22. DrainersFit'
  <2>1. \A u \in Threads : u # t /\ at'[u].in = "drain" => at[u].in = "drain" /\ at[u].var # v
    BY <1>12, <1>16 DEF Inv, DrainersFit
  <2>2. ASSUME NEW u \in Threads, at'[u].in = "drain" PROVE var_addr'[at'[u].var] # 0
    <3>1. CASE u = t
      BY <1>4, <1>11, <1>12, <1>16, <3>1
    <3>2. CASE u # t
      BY <1>4, <1>12, <2>2, <3>2 DEF Inv, DrainersFit
    <3>3. QED BY <3>1, <3>2
  <2>3. ASSUME NEW u \in Threads, NEW k \in Lists, NEW w, at'[u].in = "drain", w = at'[u].var
        PROVE  ~Live(k, w)'
    <3>1. CASE u = t
      BY <1>11, <1>12, <1>18, <2>3, <3>1
    <3>2. CASE u # t
      BY <1>12, <1>18, <2>3, <3>2 DEF Inv, DrainersFit
    <3>3. QED BY <3>1, <3>2
  <2>4. \A u, x \in Threads :
          at'[u].in = "drain" /\ at'[x].in = "drain" /\ at'[u].var = at'[x].var => u = x
    BY <1>11, <1>12, <2>1 DEF Inv, DrainersFit
  <2>5. QED BY <2>2, <2>3, <2>4 DEF DrainersFit, Live
<1>23. QED BY <1>13, <1>14, <1>15, <1>19, <1>20, <1>21, <1>22 DEF Inv

\* A SyncVar whose mutex was free after it had left its list is no one's.
LEMMA DrainKeepsInv ==
  ASSUME Inv, NEW t \in Threads, Drain(t)
  PROVE  Inv'
<1>1. at[t].in = "drain" /\ at[t].var \in Vars
  BY PlaceIsTyped DEF Drain
<1>2. PICK v \in Vars : v = at[t].var
  BY <1>1
<1>3. /\ CanLock(var_mtx[v]) /\ var_addr' = [var_addr EXCEPT ![v] = 0]
      /\ UNCHANGED <<list, list_mtx, var_mtx>>
  BY <1>2 DEF Drain
<1>4. PICK r : r = Idle
  OBVIOUS
<1>5. r \in Positions /\ r.in = "idle" /\ at' = [at EXCEPT ![t] = r]
  BY <1>4 DEF Drain, Idle, Positions
<1>6. at'[t] = r /\ \A u \in Threads : u # t => at'[u] = at[u]
  BY <1>5, ThreadMoves DEF Inv
<1>7. /\ var_addr' \in [Vars -> Addrs \cup {0}] /\ var_addr'[v] = 0
      /\ \A w \in Vars : w # v => var_addr'[w] = var_addr[w]
  BY <1>3 DEF Inv, FieldsTyped
<1>8. FieldsTyped'
  BY <1>3, <1>5, <1>7, ThreadMoves DEF FieldsTyped, Inv
<1>9. ListsAreHeld'
  <2>1. \A k \in Lists : ~Sweeps(r, k) /\ ~Locks(r, k) /\ ~Sweeps(at[t], k) /\ ~Locks(at[t], k)
    BY <1>1, <1>5 DEF Sweeps, Locks
  <2>2. QED BY <1>3, <1>5, <2>1, ListsStayHeld
<1>10. VarsAreHeld'
  BY <1>1, <1>3, <1>5, VarsStayHeld
<1>11. /\ \A k \in Lists : ~Live(k, v)
       /\ \A u \in Threads : u # t /\ at[u].in = "drain" => at[u].var # v
  BY <1>1, <1>2 DEF Inv, DrainersFit
<1>12. \A u \in Threads : at[u].in \in {"lock", "use"} => at[u].var # v /\ at[u].var \in Vars
  <2>1. \A u \in Threads : ~Uses(at[u], v)
    <3>1. Holders(var_mtx[v]) = {}
      BY <1>3, NobodyHolds DEF Inv, FieldsTyped
    <3>2. QED BY <3>1 DEF Inv, VarsAreHeld
  <2>2. \A u \in Threads : at[u].in = "lock" => at[u].var # v
    BY <1>11, PlaceIsTyped DEF Inv, UsersFit
  <2>3. QED BY <2>1, <2>2, PlaceIsTyped DEF Uses
<1>13. \A u \in Threads, k \in Lists :
         (Sweeps(at'[u], k) <=> Sweeps(at[u], k)) /\ (Sweeps(at'[u], k) => at'[u] = at[u])
  BY <1>1, <1>5, <1>6 DEF Sweeps
<1>14. \A k, w : k \in Lists => (Live(k, w)' <=> Live(k, w))
  BY <1>3, <1>13 DEF Live
<1>15. OneVarEach'
  <2>1. \A k \in Lists, w \in Vars :
          w \in ToSet(list'[k]) /\ ~Live(k, w)' => var_addr'[w] = 0 \/ ListOf[var_addr'[w]] # k
    BY <1>3, <1>7, <1>14 DEF Inv, OneVarEach
  <2>2. \A k \in Lists, w \in Vars : Live(k, w)' => Live(k, w) /\ var_addr'[w] = var_addr[w]
    BY <1>7, <1>11, <1>14
  <2>3. \A k \in Lists, w, x \in Vars :
          Live(k, w)' /\ Live(k, x)' /\ var_addr'[w] = var_addr'[x] => w = x
    BY <2>2 DEF Inv, OneVarEach
  <2>4. \A k \in Lists, w \in Vars : Live(k, w)' => var_addr'[w] # 0 /\ ListOf[var_addr'[w]] = k
    BY <2>2 DEF Inv, OneVarEach
  <2>5. QED BY <1>3, <2>1, <2>3, <2>4 DEF Inv, OneVarEach
<1>16. SweepsFit'
  BY <1>3, <1>5, <1>6 DEF Inv, SweepsFit
<1>17. UsersFit'
  <2>1. \A u \in Threads : at'[u].in \in {"lock", "use"} => at'[u] = at[u]
    BY <1>5, <1>6
  <2>2. \A u \in Threads : at'[u].in \in {"lock", "use"} => var_addr'[at'[u].var] = at'[u].addr
    BY <1>7, <1>12, <2>1 DEF Inv, UsersFit
  <2>3. \A u \in Threads, k \in Lists, w \in Vars :
          at'[u].in = "lock" /\ k = ListOf[at'[u].addr] /\ w = at'[u].var => Live(k, w)'
    BY <1>14, <2>1 DEF Inv, UsersFit
  <2>4. QED BY <1>8, <2>2, <2>3, UsersFitNext
<1>18. DrainersFit'
  <2>1. \A u \in Threads : at'[u].in = "drain" =>
          at'[u] = at[u] /\ at[u].in = "drain" /\ at[u].var # v /\ at[u].var \in Vars
    BY <1>5, <1>6, <1>11, PlaceIsTyped
  <2>2. QED BY <1>7, <1>14, <2>1 DEF Inv, DrainersFit
<1>19. QED BY <1>8, <1>9, <1>10, <1>15, <1>16, <1>17, <1>18 DEF Inv

-----------------------------------------------------------------------------
(* user_free.                                                               *)

LEMMA LockBlockKeepsInv ==
  ASSUME Inv, NEW t \in Threads, LockBlock(t)
  PROVE  Inv'
<1>1. at[t] \in Freeing /\ at[t].in = "free" /\ at[t].block \in Blocks /\ at[t].block \in Lists
  BY PositionsAreTyped, SyncAssumption DEF LockBlock, Inv, Freeing
<1>2. PICK b \in Lists : b = at[t].block /\ b \in Blocks
  BY <1>1
<1>3. /\ CanLock(list_mtx[b]) /\ list_mtx' = [list_mtx EXCEPT ![b] = Locked(@, t, TRUE)]
      /\ at' = [at EXCEPT ![t] = [in |-> "sweep", block |-> b, rest |-> list[b]]]
      /\ UNCHANGED <<list, var_addr, var_mtx>>
  BY <1>2 DEF LockBlock
<1>4. PICK r : r = [in |-> "sweep", block |-> b, rest |-> list[b]]
  OBVIOUS
<1>5. /\ r \in Positions /\ r.in = "sweep" /\ r.block = b /\ r.rest = list[b]
      /\ at' = [at EXCEPT ![t] = r]
  BY <1>2, <1>3, <1>4 DEF SweepingAt, Positions, Inv, FieldsTyped
<1>6. at'[t] = r /\ \A u \in Threads : u # t => at'[u] = at[u]
  BY <1>5, ThreadMoves DEF Inv
<1>7. ListsAreHeld' /\ list_mtx' \in [Lists -> Mutexes]
  <2>1. \A k \in Lists : Sweeps(r, k) \/ Locks(r, k) <=> k = b
    BY <1>5 DEF Sweeps, Locks
  <2>2. QED BY <1>1, <1>3, <1>5, <2>1, ListIsTaken
<1>8. FieldsTyped'
  BY <1>3, <1>5, <1>7, ThreadMoves DEF FieldsTyped, Inv
<1>9. VarsAreHeld'
  BY <1>1, <1>3, <1>5, VarsStayHeld
<1>10. \A k, v : k \in Lists => (Live(k, v)' <=> Live(k, v))
  <2>1. \A u \in Threads : ~Sweeps(at[u], b)
    BY <1>3, NobodyInList
  <2>2. \A u \in Threads, k \in Lists : u # t => at'[u] = at[u]
    BY <1>6
  <2>3. \A k \in Lists : ~Sweeps(at[t], k) /\ (Sweeps(at'[t], k) <=> k = b)
    BY <1>1, <1>5, <1>6 DEF Sweeps
  <2>4. ASSUME NEW k \in Lists, NEW v PROVE Live(k, v)' <=> Live(k, v)
    <3>1. CASE k = b
      BY <1>3, <1>5, <1>6, <2>1, <2>3, <3>1 DEF Live
    <3>2. CASE k # b
      BY <1>3, <1>6, <2>3, <3>2 DEF Live
    <3>3. QED BY <3>1, <3>2
  <2>5. QED BY <2>4
<1>11. OneVarEach'
  BY <1>3, <1>10 DEF Inv, OneVarEach
<1>12. SweepsFit'
  BY <1>2, <1>3, <1>5, <1>6 DEF Inv, SweepsFit, OneVarEach
<1>13. UsersFit'
  <2>1. \A u \in Threads : at'[u].in \in {"lock", "use"} => at'[u] = at[u]
    BY <1>5, <1>6
  <2>2. \A u \in Threads : at'[u].in \in {"lock", "use"} => var_addr'[at'[u].var] = at'[u].addr
    BY <1>3, <2>1 DEF Inv, UsersFit
  <2>3. \A u \in Threads, k \in Lists, w \in Vars :
          at'[u].in = "lock" /\ k = ListOf[at'[u].addr] /\ w = at'[u].var => Live(k, w)'
    BY <1>10, <2>1 DEF Inv, UsersFit
  <2>4. QED BY <1>8, <2>2, <2>3, UsersFitNext
<1>14. DrainersFit'
  <2>1. \A u \in Threads : at'[u].in = "drain" => at'[u] = at[u]
    BY <1>5, <1>6
  <2>2. QED BY <1>3, <1>10, <2>1 DEF Inv, DrainersFit
<1>15. QED BY <1>7, <1>8, <1>9, <1>11, <1>12, <1>13, <1>14 DEF Inv

\* A list has one sweeper, and nobody waits under it.
LEMMA SweeperIsAlone ==
  ASSUME Inv, NEW t \in Threads, NEW b \in Lists, Sweeps(at[t], b)
  PROVE  \A u \in Threads : (Sweeps(at[u], b) => u = t) /\ ~Locks(at[u], b)
<1>1. t \in list_mtx[b].writer /\ Excludes(list_mtx[b])
  BY DEF Inv, ListsAreHeld
<1>2. \A u : u \in Holders(list_mtx[b]) => u = t
  BY <1>1 DEF Excludes, Holders
<1>3. \A u \in Threads : Sweeps(at[u], b) \/ Locks(at[u], b) => u = t
  BY <1>2 DEF Inv, ListsAreHeld
<1>4. ~Locks(at[t], b)
  BY DEF Sweeps, Locks
<1>5. QED BY <1>3, <1>4

LEMMA SweepNextKeepsInv ==
  ASSUME Inv, NEW t \in Threads, SweepNext(t)
  PROVE  Inv'
<1>1. /\ at[t] \in SweepingAt /\ at[t].in = "sweep" /\ at[t].block \in Blocks /\ at[t].block \in Lists
      /\ at[t].rest \in Seq(Vars) /\ at[t].rest # << >>
  BY PositionsAreTyped, SyncAssumption DEF SweepNext, Inv, SweepingAt
<1>2. PICK b \in Lists, s \in Seq(Vars) : b = at[t].block /\ s = at[t].rest
  BY <1>1
<1>3. s # << >> /\ IsInjective(s) /\ ToSet(s) \subseteq ToSet(list[b]) /\ Sweeps(at[t], b)
  BY <1>1, <1>2 DEF Inv, SweepsFit, Sweeps
<1>4. PICK v, z : v = s[1] /\ z = Tail(s)
  OBVIOUS
<1>5. z \in Seq(Vars) /\ IsInjective(z) /\ ToSet(z) = ToSet(s) \ {v} /\ v \in ToSet(s) /\ v \in Vars
  BY <1>3, <1>4, TailIsRest
<1>6. /\ CanLock(var_mtx[v]) /\ var_addr' = [var_addr EXCEPT ![v] = 0]
      /\ at' = [at EXCEPT ![t].rest = Tail(@)]
      /\ UNCHANGED <<list, list_mtx, var_mtx>>
  BY <1>2, <1>4 DEF SweepNext
<1>7. PICK r : r = [at[t] EXCEPT !.rest = z]
  OBVIOUS
<1>8. r \in Positions /\ r.in = "sweep" /\ r.block = b /\ r.rest = z /\ at' = [at EXCEPT ![t] = r]
  BY <1>1, <1>2, <1>4, <1>5, <1>6, <1>7 DEF SweepingAt, Positions
<1>9. at'[t] = r /\ \A u \in Threads : u # t => at'[u] = at[u]
  BY <1>8, ThreadMoves DEF Inv
<1>10. /\ var_addr' \in [Vars -> Addrs \cup {0}] /\ var_addr'[v] = 0
       /\ \A w \in Vars : w # v => var_addr'[w] = var_addr[w]
  BY <1>5, <1>6 DEF Inv, FieldsTyped
<1>11. FieldsTyped'
  BY <1>6, <1>8, <1>10, ThreadMoves DEF FieldsTyped, Inv
<1>12. ListsAreHeld'
  <2>1. \A k \in Lists : (Sweeps(r, k) <=> Sweeps(at[t], k)) /\ (Locks(r, k) <=> Locks(at[t], k))
    BY <1>1, <1>2, <1>8 DEF Sweeps, Locks
  <2>2. QED BY <1>6, <1>8, <2>1, ListsStayHeld
<1>13. VarsAreHeld'
  BY <1>1, <1>6, <1>8, VarsStayHeld
<1>14. Live(b, v) /\ var_addr[v] # 0 /\ ListOf[var_addr[v]] = b
  <2>1. \A u \in Threads : Sweeps(at[u], b) => at[u].rest = s
    BY <1>2, <1>3, SweeperIsAlone
  <2>2. Live(b, v)
    BY <1>3, <1>5, <2>1 DEF Live
  <2>3. QED BY <1>5, <2>2 DEF Inv, OneVarEach
<1>15. \A k \in Lists : k # b => ~Live(k, v)
  BY <1>5, <1>14 DEF Inv, OneVarEach
<1>16. \A u \in Threads, k \in Lists : Sweeps(at'[u], k) <=> Sweeps(at[u], k)
  BY <1>1, <1>2, <1>8, <1>9 DEF Sweeps
<1>17. \A k, w : k \in Lists => (Live(k, w)' <=> Live(k, w) /\ w # v)
  <2>1. ASSUME NEW k \in Lists, NEW w PROVE Live(k, w)' <=> Live(k, w) /\ w # v
    <3>1. CASE k = b
      <4>1. \A u \in Threads : Sweeps(at'[u], b) <=> u = t
        BY <1>3, <1>16, SweeperIsAlone
      <4>2. Live(b, w) <=> w \in ToSet(list[b]) /\ w \in ToSet(s)
        BY <1>2, <1>3, SweeperIsAlone DEF Live
      <4>3. Live(b, w)' <=> w \in ToSet(list[b]) /\ w \in ToSet(z)
        BY <1>6, <1>8, <1>9, <4>1 DEF Live
      <4>4. QED BY <1>5, <3>1, <4>2, <4>3
    <3>2. CASE k # b
      <4>1. \A u \in Threads : Sweeps(at'[u], k) => at'[u] = at[u]
        BY <1>8, <1>9, <3>2 DEF Sweeps
      <4>2. Live(k, w)' <=> Live(k, w)
        BY <1>6, <1>16, <4>1 DEF Live
      <4>3. QED BY <1>15, <3>2, <4>2
    <3>3. QED BY <3>1, <3>2
  <2>2. QED BY <2>1
<1>18. OneVarEach'
  <2>1. \A k \in Lists, w \in Vars : Live(k, w)' => Live(k, w) /\ var_addr'[w] = var_addr[w]
    BY <1>10, <1>17
  <2>2. \A k \in Lists, w \in Vars :
          w \in ToSet(list'[k]) /\ ~Live(k, w)' => var_addr'[w] = 0 \/ ListOf[var_addr'[w]] # k
    BY <1>6, <1>10, <1>17 DEF Inv, OneVarEach
  <2>3. \A k \in Lists, w, x \in Vars :
          Live(k, w)' /\ Live(k, x)' /\ var_addr'[w] = var_addr'[x] => w = x
    BY <2>1 DEF Inv, OneVarEach
  <2>4. \A k \in Lists, w \in Vars : Live(k, w)' => var_addr'[w] # 0 /\ ListOf[var_addr'[w]] = k
    BY <2>1 DEF Inv, OneVarEach
  <2>5. QED BY <1>6, <2>2, <2>3, <2>4 DEF Inv, OneVarEach
<1>19. SweepsFit'
  <2>1. ASSUME NEW u \in Threads, at'[u].in = "sweep"
        PROVE  IsInjective(at'[u].rest) /\ ToSet(at'[u].rest) \subseteq ToSet(list'[at'[u].block])
    <3>1. CASE u = t
      BY <1>3, <1>5, <1>6, <1>8, <1>9, <3>1
    <3>2. CASE u # t
      BY <1>6, <1>9, <2>1, <3>2 DEF Inv, SweepsFit
    <3>3. QED BY <3>1, <3>2
  <2>2. QED BY <2>1 DEF SweepsFit
<1>20. \A u \in Threads : at'[u].in # "sweep" => at'[u] = at[u] /\ u # t
  BY <1>8, <1>9
<1>21. \A u \in Threads : at[u].in \in {"lock", "use", "drain"} => at[u].var # v /\ at[u].var \in Vars
  <2>1. \A u \in Threads : ~Uses(at[u], v)
    <3>1. Holders(var_mtx[v]) = {}
      BY <1>5, <1>6, NobodyHolds DEF Inv, FieldsTyped
    <3>2. QED BY <1>5, <3>1 DEF Inv, VarsAreHeld
  <2>2. ASSUME NEW u \in Threads, at[u].in = "lock" PROVE at[u].var # v
    <3>1. Live(ListOf[at[u].addr], at[u].var) /\ ListOf[at[u].addr] \in Lists
      BY <2>2, PlaceIsTyped DEF Inv, UsersFit
    <3>2. ListOf[at[u].addr] # b
      BY <1>3, <2>2, SweeperIsAlone DEF Locks
    <3>3. QED BY <1>15, <3>1, <3>2
  <2>3. \A u \in Threads : at[u].in = "drain" => at[u].var # v
    BY <1>14 DEF Inv, DrainersFit
  <2>4. QED BY <2>1, <2>2, <2>3, PlaceIsTyped DEF Uses
<1>22. UsersFit'
  <2>1. \A u \in Threads : at'[u].in \in {"lock", "use"} => var_addr'[at'[u].var] = at'[u].addr
    BY <1>10, <1>20, <1>21 DEF Inv, UsersFit
  <2>2. \A u \in Threads, k \in Lists, w \in Vars :
          at'[u].in = "lock" /\ k = ListOf[at'[u].addr] /\ w = at'[u].var => Live(k, w)'
    BY <1>17, <1>20, <1>21 DEF Inv, UsersFit
  <2>3. QED BY <1>11, <2>1, <2>2, UsersFitNext
<1>23. DrainersFit'
  BY <1>10, <1>17, <1>20, <1>21 DEF Inv, DrainersFit
<1>24. QED BY <1>11, <1>12, <1>13, <1>18, <1>19, <1>22, <1>23 DEF Inv

LEMMA SweepEndKeepsInv ==
  ASSUME Inv, NEW t \in Threads, SweepEnd(t)
  PROVE  Inv'
<1>1. /\ at[t].in = "sweep" /\ at[t].block \in Lists /\ at[t].rest = << >>
  BY PlaceIsTyped DEF SweepEnd
<1>2. PICK b \in Lists : b = at[t].block
  BY <1>1
<1>3. /\ list' = [list EXCEPT ![b] = << >>]
      /\ list_mtx' = [list_mtx EXCEPT ![b] = Released(@, t)]
      /\ UNCHANGED <<var_addr, var_mtx>>
  BY <1>2 DEF SweepEnd
<1>4. PICK r : r = Idle
  OBVIOUS
<1>5. r \in Positions /\ r.in = "idle" /\ at' = [at EXCEPT ![t] = r]
  BY <1>4 DEF SweepEnd, Idle, Positions
<1>6. at'[t] = r /\ \A u \in Threads : u # t => at'[u] = at[u]
  BY <1>5, ThreadMoves DEF Inv
<1>7. ListsAreHeld' /\ list_mtx' \in [Lists -> Mutexes]
  <2>1. \A k \in Lists : Sweeps(at[t], k) \/ Locks(at[t], k) <=> k = b
    BY <1>1, <1>2 DEF Sweeps, Locks
  <2>2. QED BY <1>3, <1>5, <2>1, ListIsLetGo
<1>8. list' \in [Lists -> Seq(Vars)] /\ list'[b] = << >> /\ \A k \in Lists : k # b => list'[k] = list[k]
  BY <1>3 DEF Inv, FieldsTyped
<1>9. FieldsTyped'
  BY <1>3, <1>5, <1>7, <1>8, ThreadMoves DEF FieldsTyped, Inv
<1>10. VarsAreHeld'
  BY <1>1, <1>3, <1>5, VarsStayHeld
<1>11. Sweeps(at[t], b) /\ \A v : v \notin ToSet(at[t].rest)
  BY <1>1, <1>2 DEF Sweeps, ToSet
<1>12. IsInjective(list'[b]) /\ \A v : v \notin ToSet(list'[b])
  BY <1>8 DEF IsInjective, ToSet
<1>13. \A u \in Threads, k \in Lists : k # b =>
         (Sweeps(at'[u], k) <=> Sweeps(at[u], k)) /\ (Sweeps(at'[u], k) => at'[u] = at[u])
  BY <1>1, <1>2, <1>5, <1>6 DEF Sweeps
<1>14. \A k, v : k \in Lists => (Live(k, v)' <=> Live(k, v))
  <2>1. ASSUME NEW k \in Lists, NEW v PROVE Live(k, v)' <=> Live(k, v)
    <3>1. CASE k = b
      BY <1>11, <1>12, <3>1 DEF Live
    <3>2. CASE k # b
      BY <1>8, <1>13, <3>2 DEF Live
    <3>3. QED BY <3>1, <3>2
  <2>2. QED BY <2>1
<1>15. OneVarEach'
  <2>1. \A k \in Lists : IsInjective(list'[k])
    BY <1>8, <1>12 DEF Inv, OneVarEach
  <2>2. \A k \in Lists, w \in Vars :
          w \in ToSet(list'[k]) /\ ~Live(k, w)' => var_addr'[w] = 0 \/ ListOf[var_addr'[w]] # k
    BY <1>3, <1>8, <1>12, <1>14 DEF Inv, OneVarEach
  <2>3. QED BY <1>3, <1>14, <2>1, <2>2 DEF Inv, OneVarEach
<1>16. SweepsFit'
  <2>1. ASSUME NEW u \in Threads, at'[u].in = "sweep"
        PROVE  IsInjective(at'[u].rest) /\ ToSet(at'[u].rest) \subseteq ToSet(list'[at'[u].block])
    <3>1. u # t /\ at'[u] = at[u] /\ at[u].block \in Lists
      BY <1>5, <1>6, <2>1, PlaceIsTyped
    <3>2. at[u].block # b
      BY <1>11, <2>1, <3>1, SweeperIsAlone DEF Sweeps
    <3>3. QED BY <1>8, <2>1, <3>1, <3>2 DEF Inv, SweepsFit
  <2>2. QED BY <2>1 DEF SweepsFit
<1>17. UsersFit'
  <2>1. \A u \in Threads : at'[u].in \in {"lock", "use"} => at'[u] = at[u]
    BY <1>5, <1>6
  <2>2. \A u \in Threads : at'[u].in \in {"lock", "use"} => var_addr'[at'[u].var] = at'[u].addr
    BY <1>3, <2>1 DEF Inv, UsersFit
  <2>3. \A u \in Threads, k \in Lists, w \in Vars :
          at'[u].in = "lock" /\ k = ListOf[at'[u].addr] /\ w = at'[u].var => Live(k, w)'
    BY <1>14, <2>1 DEF Inv, UsersFit
  <2>4. QED BY <1>9, <2>2, <2>3, UsersFitNext
<1>18. DrainersFit'
  <2>1. \A u \in Threads : at'[u].in = "drain" => at'[u] = at[u]
    BY <1>5, <1>6
  <2>2. QED BY <1>3, <1>14, <2>1 DEF Inv, DrainersFit
<1>19. QED BY <1>7, <1>9, <1>10, <1>15, <1>16, <1>17, <1>18 DEF Inv

-----------------------------------------------------------------------------
(* The theorems.                                                            *)

LEMMA InitHasInv == SyncInit => Inv
<1> SUFFICES ASSUME SyncInit PROVE Inv
  OBVIOUS
<1>1. \A t \in Threads : at[t].in = "idle"
  BY DEF SyncInit, Idle
<1>2. FieldsTyped
  BY DEF SyncInit, FieldsTyped, Unlocked, Mutexes, Positions
<1>3. \A m : m = Unlocked => Excludes(m) /\ Holders(m) = {}
  BY DEF Unlocked, Excludes, Holders
<1>4. ListsAreHeld /\ VarsAreHeld
  BY <1>1, <1>3 DEF SyncInit, ListsAreHeld, VarsAreHeld, Sweeps, Locks, Uses
<1>5. \A l \in Lists : IsInjective(list[l]) /\ \A v : v \notin ToSet(list[l])
  BY DEF SyncInit, IsInjective, ToSet
<1>6. OneVarEach
  BY <1>5 DEF OneVarEach, Live
<1>7. SweepsFit /\ UsersFit /\ DrainersFit
  BY <1>1 DEF SweepsFit, UsersFit, DrainersFit
<1>8. QED BY <1>2, <1>4, <1>6, <1>7 DEF Inv

LEMMA SpecKeepsInv == SyncSpec => []Inv
<1>1. Inv /\ [SyncNext]_vars => Inv'
  <2> SUFFICES ASSUME Inv, [SyncNext]_vars PROVE Inv'
    OBVIOUS
  <2>1. CASE UNCHANGED vars
    <3>1. OneVarEach' /\ UsersFit' /\ DrainersFit'
      BY <2>1 DEF vars, Inv, OneVarEach, UsersFit, DrainersFit, Live
    <3>2. FieldsTyped' /\ ListsAreHeld' /\ VarsAreHeld' /\ SweepsFit'
      BY <2>1 DEF vars, Inv, FieldsTyped, ListsAreHeld, VarsAreHeld, SweepsFit
    <3>3. QED BY <3>1, <3>2 DEF Inv
  <2>2. CASE SyncNext
    <3>1. PICK t \in Threads : CallGetAndLock(t) \/ Unlink(t) \/ CallFree(t) \/ Continue(t)
      BY <2>2 DEF SyncNext
    <3>2. QED BY <3>1, CallGetAndLockKeepsInv, UnlinkKeepsInv, CallFreeKeepsInv, SearchKeepsInv,
                 InsertKeepsInv, LockVarKeepsInv, UnlockKeepsInv, DrainKeepsInv, LockBlockKeepsInv,
                 SweepNextKeepsInv, SweepEndKeepsInv DEF Continue
  <2>3. QED BY <2>1, <2>2
<1>2. QED BY <1>1, InitHasInv, PTL DEF SyncSpec

LEMMA OneVarIsSeen == Inv => OneVarPerAddress
<1> SUFFICES ASSUME Inv, NEW l \in Lists
    PROVE  /\ IsInjective(list[l])
           /\ Sweeping(l) = {} =>
                /\ \A v \in ToSet(list[l]) : var_addr[v] # 0 /\ ListOf[var_addr[v]] = l
                /\ \A v, w \in ToSet(list[l]) : var_addr[v] = var_addr[w] => v = w
  BY DEF OneVarPerAddress
<1>1. ToSet(list[l]) \subseteq Vars
  BY HeldAtPosition DEF Inv, FieldsTyped
<1>2. Sweeping(l) = {} => \A v \in ToSet(list[l]) : Live(l, v)
  BY DEF Sweeping, Live, Sweeps
<1>3. QED BY <1>1, <1>2 DEF Inv, OneVarEach

LEMMA UsersExclude == Inv => HandlersExclude
<1> SUFFICES ASSUME Inv, NEW t \in Threads, NEW u \in Threads, t # u,
                    at[t].in = "use", at[u].in = "use", at[t].addr = at[u].addr
    PROVE  \/ ~at[t].write /\ ~at[u].write
           \/ /\ at[t].var # at[u].var
              /\ {at[t].var, at[u].var} \ ToSet(list[ListOf[at[t].addr]]) # {}
  BY DEF HandlersExclude
<1>1. PICK v \in Vars, w \in Vars, addr \in Addrs, l \in Lists :
        v = at[t].var /\ w = at[u].var /\ addr = at[t].addr /\ l = ListOf[addr]
  BY PlaceIsTyped
<1>2. var_addr[v] = addr /\ var_addr[w] = addr /\ addr # 0
  BY <1>1, SyncAssumption DEF Inv, UsersFit
<1>3. CASE v = w
  <2>1. Uses(at[t], v) /\ Uses(at[u], v) /\ Excludes(var_mtx[v])
    BY <1>1, <1>3 DEF Uses, Inv, VarsAreHeld
  <2>2. t \in Holders(var_mtx[v]) /\ u \in Holders(var_mtx[v])
    BY <2>1 DEF Inv, VarsAreHeld
  <2>3. t \notin var_mtx[v].writer /\ u \notin var_mtx[v].writer
    BY <2>1, <2>2 DEF Excludes, Holders
  <2>4. QED BY <2>1, <2>3 DEF Inv, VarsAreHeld
<1>4. CASE v # w
  <2>1. ASSUME v \in ToSet(list[l]), w \in ToSet(list[l]) PROVE FALSE
    <3>1. Live(l, v) /\ Live(l, w)
      BY <1>1, <1>2, <2>1 DEF Inv, OneVarEach
    <3>2. QED BY <1>2, <1>4, <3>1 DEF Inv, OneVarEach
  <2>2. QED BY <1>1, <1>4, <2>1
<1>5. QED BY <1>3, <1>4

\* Users wait for nobody, who waits for a SyncVar waits for its users, and who
\* waits for a list waits for one of those.
LEMMA SomebodyGoesOn == Inv => NoCircularWait
<1> SUFFICES ASSUME Inv, NEW t0 \in Threads, at[t0] # Idle
    PROVE  \E t \in Threads :
      CASE at[t].in = "search" -> CanReadLock(list_mtx[ListOf[at[t].addr]])
        [] at[t].in = "insert" -> CanLock(list_mtx[ListOf[at[t].addr]])
        [] at[t].in = "lock" -> IF at[t].write THEN CanLock(var_mtx[at[t].var])
                                ELSE CanReadLock(var_mtx[at[t].var])
        [] at[t].in = "drain" -> CanLock(var_mtx[at[t].var])
        [] at[t].in = "free" -> CanLock(list_mtx[at[t].block])
        [] at[t].in = "sweep" -> at[t].rest = << >> \/ CanLock(var_mtx[at[t].rest[1]])
        [] OTHER -> at[t].in = "use"
  BY DEF NoCircularWait
<1>1. \A m : Holders(m) = {} => CanLock(m) /\ CanReadLock(m)
  BY DEF Holders, CanLock, CanReadLock
<1>2. CASE \E t \in Threads : at[t].in = "use"
  BY <1>2
<1>3. CASE /\ \A t \in Threads : at[t].in # "use"
           /\ \E t \in Threads : at[t].in \in {"lock", "drain", "sweep"}
  <2>1. \A v \in Vars : CanLock(var_mtx[v]) /\ CanReadLock(var_mtx[v])
    <3>1. ASSUME NEW v \in Vars PROVE Holders(var_mtx[v]) = {}
      <4>1. Holders(var_mtx[v]) \subseteq Threads
        BY DEF Inv, FieldsTyped, Holders, Mutexes
      <4>2. QED BY <1>3, <4>1 DEF Inv, VarsAreHeld, Uses
    <3>2. QED BY <1>1, <3>1
  <2>2. PICK t \in Threads : at[t].in \in {"lock", "drain", "sweep"}
    BY <1>3
  <2>3. CASE at[t].in \in {"lock", "drain"}
    BY <2>1, <2>3, PlaceIsTyped
  <2>4. CASE at[t].in = "sweep"
    <3>1. at[t].rest = << >> \/ at[t].rest[1] \in Vars
      BY <2>4, PlaceIsTyped
    <3>2. QED BY <2>1, <2>4, <3>1
  <2>5. QED BY <2>2, <2>3, <2>4
<1>4. CASE \A t \in Threads : at[t].in \notin {"use", "lock", "drain", "sweep"}
  <2>1. \A l \in Lists : CanLock(list_mtx[l]) /\ CanReadLock(list_mtx[l])
    <3>1. ASSUME NEW l \in Lists PROVE Holders(list_mtx[l]) = {}
      <4>1. Holders(list_mtx[l]) \subseteq Threads
        BY DEF Inv, FieldsTyped, Holders, Mutexes
      <4>2. QED BY <1>4, <4>1 DEF Inv, ListsAreHeld, Sweeps, Locks
    <3>2. QED BY <1>1, <3>1
  <2>2. at[t0].in \in {"search", "insert", "free"}
    BY <1>4, PositionsAreTyped DEF Inv, Positions, Idle, Asking, Having, Draining, Freeing, SweepingAt
  <2>3. at[t0].in = "free" => at[t0].block \in Lists
    BY PositionsAreTyped, SyncAssumption DEF Inv, Freeing
  <2>4. QED BY <2>1, <2>2, <2>3, PlaceIsTyped
<1>5. QED BY <1>2, <1>3, <1>4

\* For any number of threads, addresses and lists: a SyncVar that a thread locks, waits
\* for or uses belongs to its address and is not freed, an address has one, its
\* handlers exclude each other, and nobody waits in a circle (tsan_sync.cc:50-167,
\* tsan_mman.cc:80-91).
THEOREM SyncVarsStaySound == SyncSpec => []SyncVarsAreSound
<1>1. Inv => UsedVarIsAlive
  BY DEF Inv, UsersFit, DrainersFit, UsedVarIsAlive
<1>2. Inv => SyncVarsAreSound
  BY <1>1, OneVarIsSeen, UsersExclude, SomebodyGoesOn DEF SyncVarsAreSound
<1>3. QED BY <1>2, SpecKeepsInv, PTL
=============================================================================
