-------------------------- MODULE TsanLocks_proofs --------------------------
(***************************************************************************)
(* Proofs, for any number of threads, that every handler takes the         *)
(* mutexes of the run-time in the order of the table, that therefore       *)
(* nobody waits in a circle, and that a trace stays while a report reads   *)
(* it.  A handler is put together from fragments; what a fragment does to  *)
(* the thread's own state is composed from what its parts do.              *)
(***************************************************************************)
EXTENDS TsanLocks, SequenceTheorems, TLAPS

Annotations == <<"Annotations">>
AtExit == <<"AtExit">>
Traces == {TraceMtx(u) : u \in Tids}
Mutexes == {Report, Part, Block, ThreadMtx, Annotations, AtExit, Var(Part), Var(Block)} \cup Traces

\* Mutexes are taken upwards.
Ranks == [Threads |-> 1, Annotations |-> 1, Report |-> 2, AtExit |-> 3, SyncTab |-> 4,
          Invalid |-> 4, SyncVar |-> 5, Trace |-> 6]
Rank(m) == Ranks[m[1]]

\* What a thread's own steps depend on and change.
States == [held : Seq(Mutexes), run : BOOLEAN, live : BOOLEAN]
State(held, run, alive) == [held |-> held, run |-> run, live |-> alive]
Now(t) == State(locked[t], thread_status[t] = "Running", live[t])

Has(s, m) == m \in ToSet(s.held)
MayLock(s, m) ==
  /\ m \in Mutexes /\ LockIsAllowed(s.held, m)
  /\ \A i \in DOMAIN s.held : Rank(s.held[i]) < Rank(m)

\* A step of thread t, taken in state s, leads to state r.
Leads(t, s, step, r) ==
  \/ \E m \in Mutexes :
       /\ step = <<"lock", m>> /\ MayLock(s, m) /\ (m = TraceMtx(t) => s.live)
       /\ r = State(Append(s.held, m), s.run, s.live)
  \/ \E m \in Mutexes : \E i \in DOMAIN s.held :
       /\ step = <<"unlock", m>> /\ s.held[i] = m
       /\ m = TraceMtx(t) => s.live
       /\ m = ThreadMtx => s.run = s.live
       /\ r = State(RemoveAt(s.held, i), s.run, s.live)
  \/ \E u \in Tids :
       /\ step = <<"pick", u>> /\ r = s
       /\ Has(s, ThreadMtx) \/ report_destroy_locked
  \/ step = <<"FindThread">> /\ r = s /\ (Has(s, ThreadMtx) \/ report_destroy_locked)
  \/ /\ step \in {<<"finish">>, <<"start">>} /\ Has(s, ThreadMtx)
     /\ r = State(s.held, step = <<"start">>, s.live)
  \/ /\ step \in {<<"destroy">>, <<"construct">>} /\ Has(s, ThreadMtx)
     /\ r = State(s.held, s.run, step = <<"construct">>)

\* A trace is locked for nothing but itself, and another thread's only if picked.
GoesOn(p, i) ==
  /\ \A u \in Tids : p[i] = <<"lock", TraceMtx(u)>> =>
       i < Len(p) /\ p[i + 1] = <<"unlock", TraceMtx(u)>>
  /\ \A u \in Tids : p[i] = <<"pick", u>> =>
       i < Len(p) /\ p[i + 1] = <<"lock", TraceMtx(u)>>
ComesFrom(t, p, i) ==
  /\ \A u \in Tids \ {t} : p[i] = <<"lock", TraceMtx(u)>> =>
       i > 1 /\ p[i - 1] = <<"pick", u>>
  /\ \A u \in Tids : p[i] = <<"unlock", TraceMtx(u)>> =>
       i > 1 /\ p[i - 1] = <<"lock", TraceMtx(u)>>

\* f is what thread t goes through in the steps p.
Steps == {<<"lock", m>> : m \in Mutexes} \cup {<<"unlock", m>> : m \in Mutexes}
         \cup {<<"pick", u>> : u \in Tids}
         \cup {<<"FindThread">>, <<"finish">>, <<"start">>, <<"destroy">>, <<"construct">>}
Passes(t, p, f) ==
  /\ p \in Seq(Steps) /\ f \in [0 .. Len(p) -> States]
  /\ \A i \in 1 .. Len(p) : Leads(t, f[i - 1], p[i], f[i]) /\ GoesOn(p, i)

\* Steps that can stand anywhere in a handler, and what is left of one.
Fragment(t, p, s, r) ==
  \E f : Passes(t, p, f) /\ f[0] = s /\ f[Len(p)] = r /\ \A i \in 1 .. Len(p) : ComesFrom(t, p, i)
Rest(t, p, s, r) ==
  \E f : Passes(t, p, f) /\ f[0] = s /\ f[Len(p)] = r /\ \A i \in 2 .. Len(p) : ComesFrom(t, p, i)

-----------------------------------------------------------------------------
(* Fragments.                                                              *)

LEMMA Joined ==
  ASSUME NEW t \in Tids, NEW p, NEW q, NEW s, NEW r, NEW v,
         Fragment(t, p, s, r), Fragment(t, q, r, v)
  PROVE  Fragment(t, p \o q, s, v)
<1>1. PICK f : Passes(t, p, f) /\ f[0] = s /\ f[Len(p)] = r /\ \A i \in 1 .. Len(p) : ComesFrom(t, p, i)
  BY DEF Fragment
<1>2. PICK g : Passes(t, q, g) /\ g[0] = r /\ g[Len(q)] = v /\ \A i \in 1 .. Len(q) : ComesFrom(t, q, i)
  BY DEF Fragment
<1> DEFINE o == p \o q
           h == [i \in 0 .. Len(o) |-> IF i <= Len(p) THEN f[i] ELSE g[i - Len(p)]]
<1>3. /\ p \in Seq(Steps) /\ q \in Seq(Steps) /\ f \in [0 .. Len(p) -> States]
      /\ g \in [0 .. Len(q) -> States] /\ Len(p) \in Nat /\ Len(q) \in Nat
  BY <1>1, <1>2 DEF Passes
<1>4. o \in Seq(Steps) /\ Len(o) = Len(p) + Len(q)
  BY <1>3
<1>5. /\ \A i \in 1 .. Len(p) : o[i] = p[i]
      /\ \A i \in 1 .. Len(q) : o[Len(p) + i] = q[i]
  BY <1>3
<1>6. h \in [0 .. Len(o) -> States] /\ h[0] = s /\ h[Len(o)] = v
  <2>1. h \in [0 .. Len(o) -> States]
    <3> SUFFICES ASSUME NEW i \in 0 .. Len(o)
                 PROVE  (IF i <= Len(p) THEN f[i] ELSE g[i - Len(p)]) \in States
      OBVIOUS
    <3>1. CASE i <= Len(p)
      BY <1>3, <3>1
    <3>2. CASE i > Len(p)
      <4>1. i - Len(p) \in 0 .. Len(q)
        BY <1>3, <1>4, <3>2
      <4> QED BY <1>3, <3>2, <4>1
    <3> QED BY <1>3, <3>1, <3>2
  <2>2. 0 \in 0 .. Len(o) /\ 0 <= Len(p) /\ Len(o) \in 0 .. Len(o) /\ Len(o) - Len(p) = Len(q)
    BY <1>3, <1>4
  <2>3. h[0] = s
    BY <1>1, <2>2
  <2>4. h[Len(o)] = v
    <3>1. CASE Len(q) = 0
      BY <1>1, <1>2, <1>3, <1>4, <2>2, <3>1
    <3>2. CASE Len(q) # 0
      <4>1. ~(Len(o) <= Len(p))
        BY <1>3, <1>4, <3>2
      <4> QED BY <1>2, <2>2, <4>1
    <3> QED BY <3>1, <3>2
  <2> QED BY <2>1, <2>3, <2>4
<1>7. /\ \A i \in 0 .. Len(p) : h[i] = f[i]
      /\ \A i \in 0 .. Len(q) : h[Len(p) + i] = g[i]
  <2>1. \A i \in 0 .. Len(p) : i \in 0 .. Len(o) /\ h[i] = f[i]
    BY <1>3, <1>4
  <2>2. ASSUME NEW i \in 0 .. Len(q) PROVE h[Len(p) + i] = g[i]
    <3>1. Len(p) + i \in 0 .. Len(o) /\ (Len(p) + i) - Len(p) = i
      BY <1>3, <1>4
    <3>2. CASE i = 0
      BY <1>1, <1>2, <1>3, <2>1, <3>2
    <3>3. CASE i # 0
      <4>1. ~(Len(p) + i <= Len(p))
        BY <1>3, <3>3
      <4> QED BY <3>1, <4>1
    <3> QED BY <3>2, <3>3
  <2> QED BY <2>1, <2>2
<1> HIDE DEF o, h
<1>8. ASSUME NEW i \in 1 .. Len(o)
      PROVE  Leads(t, h[i - 1], o[i], h[i]) /\ GoesOn(o, i) /\ ComesFrom(t, o, i)
  <2>1. CASE i <= Len(p)
    <3>1. i \in 1 .. Len(p) /\ i - 1 \in 0 .. Len(p) /\ i \in 0 .. Len(p)
      BY <1>3, <2>1
    <3>2. Leads(t, f[i - 1], p[i], f[i]) /\ GoesOn(p, i) /\ ComesFrom(t, p, i)
      BY <1>1, <3>1 DEF Passes
    <3>3. o[i] = p[i] /\ (i > 1 => o[i - 1] = p[i - 1]) /\ (i < Len(p) => o[i + 1] = p[i + 1])
      BY <1>3, <1>5, <3>1
    <3>4. GoesOn(o, i)
      BY <1>3, <1>4, <3>1, <3>2, <3>3 DEF GoesOn
    <3>5. ComesFrom(t, o, i)
      BY <3>2, <3>3 DEF ComesFrom
    <3> QED BY <1>7, <3>1, <3>2, <3>3, <3>4, <3>5
  <2>2. CASE i > Len(p)
    <3>1. PICK k \in 1 .. Len(q) : i = Len(p) + k
      <4>1. i - Len(p) \in 1 .. Len(q) /\ i = Len(p) + (i - Len(p))
        BY <1>3, <1>4, <2>2
      <4> QED BY <4>1
    <3>2. Leads(t, g[k - 1], q[k], g[k]) /\ GoesOn(q, k) /\ ComesFrom(t, q, k)
      BY <1>2, <3>1 DEF Passes
    <3>3. /\ o[i] = q[k] /\ (k > 1 => o[i - 1] = q[k - 1])
          /\ k < Len(q) => o[i + 1] = q[k + 1]
      <4>1. k > 1 => k - 1 \in 1 .. Len(q) /\ i - 1 = Len(p) + (k - 1)
        BY <1>3, <3>1
      <4>2. k < Len(q) => k + 1 \in 1 .. Len(q) /\ i + 1 = Len(p) + (k + 1)
        BY <1>3, <3>1
      <4> QED BY <1>5, <3>1, <4>1, <4>2
    <3>4. h[i] = g[k] /\ h[i - 1] = g[k - 1]
      <4>1. k \in 0 .. Len(q) /\ k - 1 \in 0 .. Len(q) /\ i - 1 = Len(p) + (k - 1)
        BY <1>3, <3>1
      <4> QED BY <1>7, <3>1, <4>1
    <3>5. GoesOn(o, i)
      <4>1. k < Len(q) => i < Len(o)
        BY <1>3, <1>4, <3>1
      <4> QED BY <3>2, <3>3, <4>1 DEF GoesOn
    <3>6. ComesFrom(t, o, i)
      <4>1. k > 1 => i > 1
        BY <1>3, <3>1
      <4> QED BY <3>2, <3>3, <4>1 DEF ComesFrom
    <3> QED BY <3>2, <3>3, <3>4, <3>5, <3>6
  <2> QED BY <1>3, <2>1, <2>2
<1>9. Passes(t, o, h)
  BY <1>4, <1>6, <1>8 DEF Passes
<1> QED BY <1>6, <1>8, <1>9 DEF Fragment, o

LEMMA Nothing ==
  ASSUME NEW t \in Tids, NEW s \in States
  PROVE  Fragment(t, << >>, s, s)
<1> DEFINE f == [i \in 0 .. 0 |-> s]
<1>1. Passes(t, << >>, f) /\ f[0] = s /\ Len(<< >>) = 0
  BY DEF Passes
<1> QED BY <1>1 DEF Fragment

LEMMA One ==
  ASSUME NEW t \in Tids, NEW s \in States, NEW r \in States, NEW step \in Steps,
         Leads(t, s, step, r),
         \A u \in Tids : step \notin {<<"pick", u>>, <<"lock", TraceMtx(u)>>, <<"unlock", TraceMtx(u)>>}
  PROVE  Fragment(t, <<step>>, s, r)
<1> DEFINE f == [i \in 0 .. 1 |-> IF i = 0 THEN s ELSE r]
           p == <<step>>
<1>1. /\ p \in Seq(Steps) /\ Len(p) = 1 /\ p[1] = step
      /\ f \in [0 .. 1 -> States] /\ f[0] = s /\ f[1] = r
  OBVIOUS
<1> HIDE DEF f, p
<1>2. GoesOn(p, 1) /\ ComesFrom(t, p, 1)
  BY <1>1 DEF GoesOn, ComesFrom
<1>3. \A i \in 1 .. 1 : i = 1 /\ i - 1 = 0
  OBVIOUS
<1>4. Passes(t, p, f)
  BY <1>1, <1>2, <1>3 DEF Passes
<1>5. Fragment(t, p, s, r)
  BY <1>1, <1>2, <1>3, <1>4 DEF Fragment
<1> QED BY <1>5 DEF p

\* What a state is after a mutex is locked, and unlocked again.
LEMMA StatesOfMutex ==
  ASSUME NEW s \in States, NEW m \in Mutexes
  PROVE  LET r == State(Append(s.held, m), s.run, s.live) IN
         /\ r \in States /\ r.held = Append(s.held, m) /\ r.run = s.run /\ r.live = s.live
         /\ Len(s.held) + 1 \in DOMAIN r.held /\ r.held[Len(s.held) + 1] = m
         /\ RemoveAt(r.held, Len(s.held) + 1) = s.held
         /\ State(s.held, s.run, s.live) = s
<1>1. /\ s.held \in Seq(Mutexes) /\ s.run \in BOOLEAN /\ s.live \in BOOLEAN
      /\ s = [held |-> s.held, run |-> s.run, live |-> s.live]
  BY DEF States
<1> DEFINE h == Append(s.held, m)
<1>2. /\ h \in Seq(Mutexes) /\ Len(h) = Len(s.held) + 1 /\ h[Len(s.held) + 1] = m
      /\ Len(s.held) \in Nat /\ Len(s.held) + 1 \in DOMAIN h
      /\ \A i \in 1 .. Len(s.held) : h[i] = s.held[i]
  BY <1>1
<1>3. RemoveAt(h, Len(s.held) + 1) = s.held
  <2> DEFINE a == SubSeq(h, 1, (Len(s.held) + 1) - 1)
             b == SubSeq(h, (Len(s.held) + 1) + 1, Len(h))
  <2>1. a \in Seq(Mutexes) /\ Len(a) = Len(s.held) /\ \A i \in 1 .. Len(s.held) : a[i] = s.held[i]
    BY <1>1, <1>2
  <2>2. b = << >>
    BY <1>2
  <2>3. a = s.held
    BY <1>1, <2>1
  <2> HIDE DEF a
  <2>4. a \o b = a
    BY <2>1, <2>2, ConcatEmptySeq
  <2>5. RemoveAt(h, Len(s.held) + 1) = a \o b
    BY Zenon DEF RemoveAt, a
  <2> QED BY <2>3, <2>4, <2>5
<1> QED BY <1>1, <1>2, <1>3 DEF State, States

LEMMA MutexesDiffer ==
  /\ \A u, v \in Tids : TraceMtx(u) = TraceMtx(v) => u = v
  /\ \A u \in Tids : TraceMtx(u) \notin {Report, Part, Block, ThreadMtx, Annotations, AtExit, Var(Part), Var(Block)}
  /\ ThreadMtx \notin {Report, Part, Block, Annotations, AtExit, Var(Part), Var(Block)}
  /\ ThreadMtx \in Mutexes /\ \A u \in Tids : TraceMtx(u) \in Mutexes
BY DEF TraceMtx, Report, Part, Block, ThreadMtx, Annotations, AtExit, Var, Mutexes, Traces

\* Locking and unlocking a mutex that is no trace.
LEMMA LockOne ==
  ASSUME NEW t \in Tids, NEW s \in States, NEW m \in Mutexes \ Traces, MayLock(s, m)
  PROVE  Fragment(t, <<<<"lock", m>>>>, s, State(Append(s.held, m), s.run, s.live))
<1>1. State(Append(s.held, m), s.run, s.live) \in States
  BY StatesOfMutex
<1>2. \A u \in Tids : m # TraceMtx(u)
  BY DEF Traces
<1>3. Leads(t, s, <<"lock", m>>, State(Append(s.held, m), s.run, s.live))
  BY <1>2 DEF Leads
<1>4. <<"lock", m>> \in Steps
  BY DEF Steps
<1>5. \A u \in Tids : <<"lock", m>> \notin {<<"pick", u>>, <<"lock", TraceMtx(u)>>, <<"unlock", TraceMtx(u)>>}
  BY <1>2
<1> QED BY <1>1, <1>3, <1>4, <1>5, One

LEMMA UnlockOne ==
  ASSUME NEW t \in Tids, NEW s \in States, NEW m \in Mutexes \ Traces, NEW i \in DOMAIN s.held,
         s.held[i] = m, m = ThreadMtx => s.run = s.live, NEW h \in Seq(Mutexes), RemoveAt(s.held, i) = h
  PROVE  Fragment(t, <<<<"unlock", m>>>>, s, State(h, s.run, s.live))
<1>1. State(h, s.run, s.live) \in States
  BY DEF State, States
<1>2. \A u \in Tids : m # TraceMtx(u)
  BY DEF Traces
<1>3. Leads(t, s, <<"unlock", m>>, State(h, s.run, s.live))
  BY <1>2 DEF Leads
<1>4. <<"unlock", m>> \in Steps
  BY DEF Steps
<1>5. \A u \in Tids : <<"unlock", m>> \notin {<<"pick", u>>, <<"lock", TraceMtx(u)>>, <<"unlock", TraceMtx(u)>>}
  BY <1>2
<1> QED BY <1>1, <1>3, <1>4, <1>5, One

\* What runs under a mutex.
LEMMA UnderAMutex ==
  ASSUME NEW t \in Tids, NEW s \in States, NEW m \in Mutexes \ Traces, MayLock(s, m), NEW steps,
         NEW run \in BOOLEAN, NEW alive \in BOOLEAN, m = ThreadMtx => run = alive,
         Fragment(t, steps, State(Append(s.held, m), s.run, s.live), State(Append(s.held, m), run, alive))
  PROVE  Fragment(t, Under(m, steps), s, State(s.held, run, alive))
<1> DEFINE h == Append(s.held, m)
           r == State(h, s.run, s.live)
           v == State(h, run, alive)
<1>1. Fragment(t, <<<<"lock", m>>>>, s, r)
  BY LockOne
<1>2. /\ h \in Seq(Mutexes) /\ Len(s.held) + 1 \in DOMAIN h /\ h[Len(s.held) + 1] = m
      /\ RemoveAt(h, Len(s.held) + 1) = s.held /\ s.held \in Seq(Mutexes)
  BY StatesOfMutex DEF State, States
<1>3. v \in States /\ v.held = h /\ v.run = run /\ v.live = alive
  BY <1>2 DEF State, States
<1> HIDE DEF h, r, v
<1>4. Fragment(t, <<<<"unlock", m>>>>, v, State(s.held, run, alive))
  BY <1>2, <1>3, UnlockOne
<1>5. Fragment(t, steps, r, v)
  BY DEF h, r, v
<1>6. Fragment(t, <<<<"lock", m>>>> \o steps, s, v)
  BY <1>1, <1>5, Joined
<1> QED BY <1>4, <1>6, Joined DEF Under

\* Short sequences.
LEMMA Pairs ==
  ASSUME NEW S, NEW x \in S, NEW y \in S, NEW z \in S
  PROVE  /\ <<x>> \o <<y>> = <<x, y>>
         /\ <<x>> \o <<y, z>> = <<x, y, z>>
<1>1. /\ <<x>> \in Seq(S) /\ <<y>> \in Seq(S) /\ <<x, y>> \in Seq(S) /\ <<y, z>> \in Seq(S)
      /\ <<x, y, z>> \in Seq(S)
  OBVIOUS
<1>2. /\ <<x>> \o <<y>> \in Seq(S) /\ Len(<<x>> \o <<y>>) = 2
      /\ (<<x>> \o <<y>>)[1] = x /\ (<<x>> \o <<y>>)[2] = y
  BY <1>1
<1>3. /\ <<x>> \o <<y, z>> \in Seq(S) /\ Len(<<x>> \o <<y, z>>) = 3
      /\ (<<x>> \o <<y, z>>)[1] = x /\ (<<x>> \o <<y, z>>)[2] = y /\ (<<x>> \o <<y, z>>)[3] = z
  BY <1>1
<1>4. <<x>> \o <<y>> = <<x, y>>
  <2> DEFINE l == <<x>> \o <<y>>
             r == <<x, y>>
  <2>1. Len(r) = 2 /\ r[1] = x /\ r[2] = y
    OBVIOUS
  <2> HIDE DEF l, r
  <2>2. \A i \in 1 .. Len(l) : l[i] = r[i]
    BY <1>2, <2>1 DEF l
  <2> QED BY <1>1, <1>2, <2>1, <2>2, SeqEqual DEF l, r
<1>5. <<x>> \o <<y, z>> = <<x, y, z>>
  <2> DEFINE l == <<x>> \o <<y, z>>
             r == <<x, y, z>>
  <2>1. Len(r) = 3 /\ r[1] = x /\ r[2] = y /\ r[3] = z
    OBVIOUS
  <2> HIDE DEF l, r
  <2>2. \A i \in 1 .. Len(l) : l[i] = r[i]
    BY <1>3, <2>1 DEF l
  <2> QED BY <1>1, <1>3, <2>1, <2>2, SeqEqual DEF l, r
<1> QED BY <1>4, <1>5

LEMMA UnderNothing ==
  ASSUME NEW m
  PROVE  Under(m, << >>) = <<<<"lock", m>>, <<"unlock", m>>>>
<1> DEFINE a == <<"lock", m>>
           b == <<"unlock", m>>
<1> HIDE DEF a, b
<1>1. <<a>> \o << >> = <<a>>
  BY ConcatEmptySeq, <<a>> \in Seq({a})
<1>2. <<a>> \o <<b>> = <<a, b>>
  BY Pairs, a \in {a, b}, b \in {a, b}
<1> QED BY <1>1, <1>2, Zenon DEF Under, a, b

\* The steps of a trace's mutex, the second of which gives it back.
LEMMA TraceLeads ==
  ASSUME NEW t \in Tids, NEW u \in Tids, NEW s \in States, MayLock(s, TraceMtx(u)), u = t => s.live
  PROVE  LET r == State(Append(s.held, TraceMtx(u)), s.run, s.live) IN
         /\ r \in States
         /\ Leads(t, s, <<"lock", TraceMtx(u)>>, r)
         /\ Leads(t, r, <<"unlock", TraceMtx(u)>>, s)
<1> DEFINE m == TraceMtx(u)
           r == State(Append(s.held, m), s.run, s.live)
<1>1. m \in Mutexes /\ m # ThreadMtx /\ (m = TraceMtx(t) => u = t)
  BY MutexesDiffer
<1>2. /\ r \in States /\ r.held = Append(s.held, m) /\ r.run = s.run /\ r.live = s.live
      /\ Len(s.held) + 1 \in DOMAIN r.held /\ r.held[Len(s.held) + 1] = m
      /\ RemoveAt(r.held, Len(s.held) + 1) = s.held
      /\ State(s.held, s.run, s.live) = s
  BY <1>1, StatesOfMutex
<1> HIDE DEF m
<1>3. Leads(t, s, <<"lock", m>>, r)
  BY <1>1 DEF Leads, m
<1> HIDE DEF r
<1>4. Leads(t, r, <<"unlock", m>>, s)
  BY <1>1, <1>2 DEF Leads
<1> QED BY <1>2, <1>3, <1>4 DEF m, r

LEMMA StepsDiffer ==
  ASSUME NEW u \in Tids
  PROVE  /\ <<"lock", TraceMtx(u)>> \in Steps /\ <<"unlock", TraceMtx(u)>> \in Steps /\ <<"pick", u>> \in Steps
         /\ \A v \in Tids : <<"lock", TraceMtx(v)>> = <<"lock", TraceMtx(u)>> => v = u
         /\ \A v \in Tids : <<"unlock", TraceMtx(v)>> = <<"unlock", TraceMtx(u)>> => v = u
         /\ \A v \in Tids : <<"pick", v>> = <<"pick", u>> => v = u
         /\ \A v \in Tids : /\ <<"lock", TraceMtx(u)>> \notin {<<"unlock", TraceMtx(v)>>, <<"pick", v>>}
                            /\ <<"unlock", TraceMtx(u)>> \notin {<<"lock", TraceMtx(v)>>, <<"pick", v>>}
                            /\ <<"pick", u>> \notin {<<"lock", TraceMtx(v)>>, <<"unlock", TraceMtx(v)>>}
BY MutexesDiffer DEF Steps

\* A thread locks its own trace.
LEMMA SwitchFragment ==
  ASSUME NEW t \in Tids, NEW s \in States, MayLock(s, TraceMtx(t)), s.live
  PROVE  Fragment(t, TraceSwitch(t), s, s)
<1> DEFINE m == TraceMtx(t)
           a == <<"lock", m>>
           b == <<"unlock", m>>
           p == <<a, b>>
           r == State(Append(s.held, m), s.run, s.live)
           f == [i \in 0 .. 2 |-> IF i = 1 THEN r ELSE s]
<1>1. /\ r \in States /\ Leads(t, s, a, r) /\ Leads(t, r, b, s) /\ a \in Steps /\ b \in Steps
  BY TraceLeads, StepsDiffer
<1> HIDE DEF r
<1>2. /\ p \in Seq(Steps) /\ Len(p) = 2 /\ p[1] = a /\ p[2] = b
      /\ f \in [0 .. 2 -> States] /\ f[0] = s /\ f[1] = r /\ f[2] = s
  <2> HIDE DEF a, b
  <2> QED BY <1>1
<1> HIDE DEF f, p
<1>3. GoesOn(p, 1) /\ GoesOn(p, 2) /\ ComesFrom(t, p, 1) /\ ComesFrom(t, p, 2)
  <2>1. /\ \A u \in Tids : a = <<"lock", TraceMtx(u)>> => u = t
        /\ \A u \in Tids : b = <<"unlock", TraceMtx(u)>> => u = t
        /\ \A u \in Tids : a \notin {<<"unlock", TraceMtx(u)>>, <<"pick", u>>}
        /\ \A u \in Tids : b \notin {<<"lock", TraceMtx(u)>>, <<"pick", u>>}
    BY StepsDiffer
  <2>2. a = <<"lock", TraceMtx(t)>> /\ b = <<"unlock", TraceMtx(t)>>
    OBVIOUS
  <2> HIDE DEF a, b
  <2>3. GoesOn(p, 1) /\ GoesOn(p, 2)
    BY <1>2, <2>1, <2>2 DEF GoesOn
  <2>4. ComesFrom(t, p, 1) /\ ComesFrom(t, p, 2)
    BY <1>2, <2>1, <2>2 DEF ComesFrom
  <2> QED BY <2>3, <2>4
<1>4. \A i \in 1 .. 2 : (i = 1 /\ i - 1 = 0) \/ (i = 2 /\ i - 1 = 1)
  OBVIOUS
<1>5. Passes(t, p, f)
  BY <1>1, <1>2, <1>3, <1>4 DEF Passes
<1>6. Fragment(t, p, s, s)
  BY <1>2, <1>3, <1>4, <1>5 DEF Fragment
<1> QED BY <1>6, UnderNothing DEF TraceSwitch, p

\* RestoreStack locks another one's.
LEMMA RestoreFragment ==
  ASSUME NEW t \in Tids, NEW u \in Tids, NEW s \in States, MayLock(s, TraceMtx(u)), u = t => s.live,
         Has(s, ThreadMtx) \/ report_destroy_locked
  PROVE  Fragment(t, RestoreStack(u), s, s)
<1> DEFINE m == TraceMtx(u)
           a == <<"pick", u>>
           b == <<"lock", m>>
           c == <<"unlock", m>>
           p == <<a, b, c>>
           r == State(Append(s.held, m), s.run, s.live)
           f == [i \in 0 .. 3 |-> IF i = 2 THEN r ELSE s]
<1>1. /\ r \in States /\ Leads(t, s, b, r) /\ Leads(t, r, c, s)
  BY TraceLeads
<1>2. Leads(t, s, a, s)
  BY DEF Leads
<1>3. a \in Steps /\ b \in Steps /\ c \in Steps
  BY StepsDiffer
<1> HIDE DEF r
<1>4. RestoreStack(u) = p
  <2> HIDE DEF a, b, c
  <2>1. <<a>> \o <<b, c>> = <<a, b, c>>
    BY <1>3, Pairs
  <2>2. RestoreStack(u) = <<a>> \o <<b, c>>
    BY UnderNothing, Zenon DEF RestoreStack, a, b, c
  <2> QED BY <2>1, <2>2
<1>5. /\ p \in Seq(Steps) /\ Len(p) = 3 /\ p[1] = a /\ p[2] = b /\ p[3] = c
      /\ f \in [0 .. 3 -> States] /\ f[0] = s /\ f[1] = s /\ f[2] = r /\ f[3] = s
  <2> HIDE DEF a, b, c
  <2> QED BY <1>1, <1>3
<1> HIDE DEF f, p
<1>6. /\ GoesOn(p, 1) /\ GoesOn(p, 2) /\ GoesOn(p, 3)
      /\ ComesFrom(t, p, 1) /\ ComesFrom(t, p, 2) /\ ComesFrom(t, p, 3)
  BY <1>5, StepsDiffer DEF GoesOn, ComesFrom
<1>7. \A i \in 1 .. 3 : (i = 1 /\ i - 1 = 0) \/ (i = 2 /\ i - 1 = 1) \/ (i = 3 /\ i - 1 = 2)
  OBVIOUS
<1> HIDE DEF a, b, c
<1>8. Passes(t, p, f)
  BY <1>1, <1>2, <1>5, <1>6, <1>7 DEF Passes
<1>9. Fragment(t, p, s, s)
  BY <1>5, <1>6, <1>7, <1>8 DEF Fragment
<1> QED BY <1>4, <1>9

-----------------------------------------------------------------------------
(* The order.                                                              *)

\* m can be taken directly under l.
Allowed(l, m) ==
  /\ Rank(l) < Rank(m)
  /\ l[1] = "Invalid" \/ (m[1] # "Invalid" /\ CanLockAdj[<<l[1], m[1]>>])

LEMMA TableAllows ==
  /\ Allowed(ThreadMtx, Report) /\ Allowed(AtExit, Part)
  /\ Allowed(Part, Var(Part)) /\ Allowed(Block, Var(Block))
  /\ \A u \in Tids : /\ Allowed(ThreadMtx, TraceMtx(u)) /\ Allowed(Report, TraceMtx(u))
                     /\ Allowed(Var(Part), TraceMtx(u)) /\ Allowed(Var(Block), TraceMtx(u))
<1>1. /\ MutexTypes = {"Trace", "Threads", "Report", "SyncVar", "SyncTab", "Slab", "Annotations", "AtExit"}
      /\ IsLeaf("Trace") /\ ~IsLeaf("Threads") /\ ~IsLeaf("Report") /\ ~IsLeaf("SyncVar")
      /\ "Report" \in CanLockTab["Threads"] /\ "SyncTab" \in CanLockTab["AtExit"]
      /\ "SyncVar" \in CanLockTab["SyncTab"]
  BY DEF MutexTypes, IsLeaf, CanLockTab
<1>2. /\ CanLockAdj[<<"Threads", "Report">>] /\ CanLockAdj[<<"AtExit", "SyncTab">>]
      /\ CanLockAdj[<<"SyncTab", "SyncVar">>] /\ CanLockAdj[<<"Threads", "Trace">>]
      /\ CanLockAdj[<<"Report", "Trace">>] /\ CanLockAdj[<<"SyncVar", "Trace">>]
  BY <1>1 DEF CanLockAdj
<1>3. /\ Rank(ThreadMtx) = 1 /\ Rank(Report) = 2 /\ Rank(AtExit) = 3 /\ Rank(Part) = 4 /\ Rank(Block) = 4
      /\ Rank(Var(Part)) = 5 /\ Rank(Var(Block)) = 5 /\ \A u \in Tids : Rank(TraceMtx(u)) = 6
  BY DEF Rank, Ranks, ThreadMtx, Report, AtExit, Part, Block, Var, TraceMtx
<1>4. /\ ThreadMtx[1] = "Threads" /\ Report[1] = "Report" /\ AtExit[1] = "AtExit" /\ Part[1] = "SyncTab"
      /\ Block[1] = "Invalid" /\ \A list : Var(list)[1] = "SyncVar" /\ \A u \in Tids : TraceMtx(u)[1] = "Trace"
  BY DEF ThreadMtx, Report, AtExit, Part, Block, Var, TraceMtx
<1> QED BY <1>2, <1>3, <1>4 DEF Allowed

LEMMA RanksAreNumbers == \A m \in Mutexes : Rank(m) \in 1 .. 6
<1>1. \A m \in Mutexes \ Traces : Rank(m) \in 1 .. 6
  BY DEF Mutexes, Rank, Ranks, ThreadMtx, Report, AtExit, Annotations, Part, Block, Var
<1>2. \A m \in Traces : Rank(m) \in 1 .. 6
  BY DEF Traces, Rank, Ranks, TraceMtx
<1> QED BY <1>1, <1>2

LEMMA FirstOfAll ==
  ASSUME NEW s \in States, s.held = << >>, NEW m \in Mutexes
  PROVE  MayLock(s, m)
BY DEF MayLock, LockIsAllowed

LEMMA NextInOrder ==
  ASSUME NEW r \in States, NEW s \in States, NEW l \in Mutexes, NEW m \in Mutexes,
         MayLock(r, l), Allowed(l, m), s.held = Append(r.held, l)
  PROVE  MayLock(s, m)
<1>1. r.held \in Seq(Mutexes) /\ s.held \in Seq(Mutexes)
  BY DEF States
<1>2. /\ Len(s.held) = Len(r.held) + 1 /\ s.held[Len(s.held)] = l /\ Len(r.held) \in Nat
      /\ \A i \in 1 .. Len(r.held) : s.held[i] = r.held[i]
  BY <1>1
<1>3. Last(s.held) = l
  BY <1>2 DEF Last
<1>4. ASSUME NEW i \in DOMAIN s.held PROVE Rank(s.held[i]) < Rank(m)
  <2>1. Rank(l) \in 1 .. 6 /\ Rank(m) \in 1 .. 6 /\ Rank(l) < Rank(m)
    BY RanksAreNumbers DEF Allowed
  <2>2. CASE i = Len(s.held)
    BY <1>2, <2>1, <2>2
  <2>3. CASE i # Len(s.held)
    <3>1. i \in DOMAIN r.held /\ s.held[i] = r.held[i]
      BY <1>1, <1>2, <2>3
    <3>2. Rank(s.held[i]) < Rank(l) /\ Rank(s.held[i]) \in 1 .. 6
      BY <1>1, <3>1, RanksAreNumbers DEF MayLock
    <3> QED BY <2>1, <3>2
  <2> QED BY <2>2, <2>3
<1> QED BY <1>3, <1>4 DEF MayLock, LockIsAllowed, Allowed

-----------------------------------------------------------------------------
(* The handlers.                                                           *)

\* A state that holds one more mutex.
Plus(s, m) == State(Append(s.held, m), s.run, s.live)

LEMMA PlusIsState ==
  ASSUME NEW s \in States, NEW m \in Mutexes
  PROVE  /\ Plus(s, m) \in States /\ Plus(s, m).held = Append(s.held, m)
         /\ Plus(s, m).run = s.run /\ Plus(s, m).live = s.live /\ Has(Plus(s, m), m)
         /\ \A n : Has(s, n) => Has(Plus(s, m), n)
<1>1. /\ Plus(s, m) \in States /\ Plus(s, m).held = Append(s.held, m)
      /\ Plus(s, m).run = s.run /\ Plus(s, m).live = s.live
  BY StatesOfMutex DEF Plus
<1>2. s.held \in Seq(Mutexes)
  BY DEF States
<1>3. \A n : n \in ToSet(Append(s.held, m)) <=> n = m \/ n \in ToSet(s.held)
  <2> DEFINE h == Append(s.held, m)
  <2>1. /\ DOMAIN h = 1 .. Len(s.held) + 1 /\ h[Len(s.held) + 1] = m /\ Len(s.held) \in Nat
        /\ DOMAIN s.held = 1 .. Len(s.held) /\ \A i \in 1 .. Len(s.held) : h[i] = s.held[i]
    BY <1>2
  <2>2. \A i \in 1 .. Len(s.held) + 1 : i = Len(s.held) + 1 \/ i \in 1 .. Len(s.held)
    BY <2>1
  <2>3. Len(s.held) + 1 \in 1 .. Len(s.held) + 1 /\ 1 .. Len(s.held) \subseteq 1 .. Len(s.held) + 1
    BY <2>1
  <2> HIDE DEF h
  <2>4. \A n : n \in ToSet(h) <=> n = m \/ n \in ToSet(s.held)
    BY <2>1, <2>2, <2>3 DEF ToSet
  <2> QED BY <2>4 DEF h
<1> QED BY <1>1, <1>3 DEF Has

\* What runs under a mutex that is no trace and leaves the thread's status.
LEMMA UnderKeeps ==
  ASSUME NEW t \in Tids, NEW s \in States, NEW m \in Mutexes \ Traces, MayLock(s, m), NEW steps,
         m = ThreadMtx => s.run = s.live, Fragment(t, steps, Plus(s, m), Plus(s, m))
  PROVE  Fragment(t, Under(m, steps), s, s)
<1>1. s.run \in BOOLEAN /\ s.live \in BOOLEAN /\ State(s.held, s.run, s.live) = s
  BY DEF State, States
<1> QED BY <1>1, UnderAMutex DEF Plus

\* The list is unlocked under the SyncVar.
LEMMA ListIsUnlocked ==
  ASSUME NEW s \in States, NEW l \in Mutexes, NEW m \in Mutexes
  PROVE  LET r == Plus(Plus(s, l), m) IN
         /\ Len(s.held) + 1 \in DOMAIN r.held /\ r.held[Len(s.held) + 1] = l
         /\ RemoveAt(r.held, Len(s.held) + 1) = Append(s.held, m)
<1> DEFINE n == Len(s.held)
           h == Append(Append(s.held, l), m)
           a == SubSeq(h, 1, (n + 1) - 1)
           b == SubSeq(h, (n + 1) + 1, Len(h))
<1>1. Plus(Plus(s, l), m).held = h
  <2>1. Plus(s, l) \in States /\ Plus(s, l).held = Append(s.held, l)
    BY PlusIsState
  <2> QED BY <2>1, PlusIsState
<1>2. s.held \in Seq(Mutexes) /\ n \in Nat
  BY DEF States
<1>3. /\ h \in Seq(Mutexes) /\ Len(h) = n + 2 /\ h[n + 1] = l /\ h[n + 2] = m /\ n + 1 \in DOMAIN h
      /\ \A i \in 1 .. n : h[i] = s.held[i]
  BY <1>2
<1>4. RemoveAt(h, n + 1) = a \o b
  BY Zenon DEF RemoveAt
<1> HIDE DEF n, h
<1>5. a = s.held
  <2>1. a \in Seq(Mutexes) /\ Len(a) = n /\ \A i \in 1 .. n : a[i] = s.held[i]
    BY <1>2, <1>3
  <2> HIDE DEF a
  <2> QED BY <1>2, <2>1, SeqEqual DEF n
<1>6. b = <<m>>
  <2>1. b \in Seq(Mutexes) /\ Len(b) = 1 /\ b[1] = m
    BY <1>2, <1>3
  <2> HIDE DEF b
  <2> QED BY <2>1
<1>7. a \o b = Append(s.held, m)
  <2>1. s.held \o <<m>> = Append(s.held, m)
    BY <1>2, AppendIsConcat
  <2> QED BY <1>5, <1>6, <2>1
<1> QED BY <1>1, <1>3, <1>4, <1>7 DEF n

LEMMA WithAVar ==
  ASSUME NEW t \in Tids, NEW s \in States, NEW list \in {Part, Block}, MayLock(s, list), NEW steps,
         Fragment(t, steps, Plus(s, Var(list)), Plus(s, Var(list)))
  PROVE  Fragment(t, WithVar(list, steps), s, s)
<1> DEFINE v == Var(list)
           a == <<"lock", list>>
           b == <<"lock", v>>
           c == <<"unlock", list>>
           d == <<"unlock", v>>
<1>1. list \in Mutexes \ Traces /\ v \in Mutexes \ Traces /\ list # ThreadMtx /\ v # ThreadMtx
  <2>1. list \in Mutexes /\ v \in Mutexes
    BY DEF Mutexes
  <2>2. list \notin Traces /\ v \notin Traces /\ list # ThreadMtx /\ v # ThreadMtx
    BY MutexesDiffer DEF Traces
  <2> QED BY <2>1, <2>2
<1>2. Plus(s, list) \in States /\ Plus(s, list).held = Append(s.held, list)
  BY <1>1, PlusIsState
<1>3. MayLock(Plus(s, list), v)
  BY <1>1, <1>2, TableAllows, NextInOrder
<1> HIDE DEF v
<1>4. Fragment(t, <<a>>, s, Plus(s, list))
  BY <1>1, LockOne DEF Plus
<1>5. Fragment(t, <<b>>, Plus(s, list), Plus(Plus(s, list), v))
  BY <1>1, <1>2, <1>3, LockOne DEF Plus
<1>6. Fragment(t, <<c>>, Plus(Plus(s, list), v), Plus(s, v))
  <2> DEFINE r == Plus(Plus(s, list), v)
  <2>1. r \in States /\ r.run = s.run /\ r.live = s.live
    BY <1>1, <1>2, PlusIsState
  <2>2. /\ Len(s.held) + 1 \in DOMAIN r.held /\ r.held[Len(s.held) + 1] = list
        /\ RemoveAt(r.held, Len(s.held) + 1) = Append(s.held, v)
    BY <1>1, ListIsUnlocked
  <2>3. Append(s.held, v) \in Seq(Mutexes)
    BY <1>1 DEF States
  <2> HIDE DEF r
  <2>4. Fragment(t, <<c>>, r, State(Append(s.held, v), r.run, r.live))
    BY <1>1, <2>1, <2>2, <2>3, UnlockOne
  <2> QED BY <2>1, <2>4 DEF Plus, r
<1>7. Fragment(t, <<d>>, Plus(s, v), s)
  <2>1. /\ Plus(s, v) \in States /\ Len(s.held) + 1 \in DOMAIN Plus(s, v).held
        /\ Plus(s, v).held[Len(s.held) + 1] = v /\ RemoveAt(Plus(s, v).held, Len(s.held) + 1) = s.held
        /\ Plus(s, v).run = s.run /\ Plus(s, v).live = s.live /\ State(s.held, s.run, s.live) = s
    BY <1>1, StatesOfMutex DEF Plus
  <2>2. s.held \in Seq(Mutexes)
    BY DEF States
  <2>3. Fragment(t, <<d>>, Plus(s, v), State(s.held, Plus(s, v).run, Plus(s, v).live))
    BY <1>1, <2>1, <2>2, UnlockOne
  <2> QED BY <2>1, <2>3
<1> HIDE DEF a, b, c, d
<1>8. Fragment(t, <<b>> \o <<c>>, Plus(s, list), Plus(s, v))
  BY <1>5, <1>6, Joined
<1>9. Fragment(t, <<a>> \o (<<b>> \o <<c>>), s, Plus(s, v))
  BY <1>4, <1>8, Joined
<1>10. <<a>> \o (<<b>> \o <<c>>) = <<a, b, c>>
  <2> DEFINE S == {a, b, c}
  <2>1. a \in S /\ b \in S /\ c \in S
    OBVIOUS
  <2> HIDE DEF S
  <2>2. <<b>> \o <<c>> = <<b, c>> /\ <<a>> \o <<b, c>> = <<a, b, c>>
    BY <2>1, Pairs
  <2> QED BY <2>2
<1>11. Fragment(t, <<a, b, c>> \o steps, s, Plus(s, v))
  <2>1. Fragment(t, steps, Plus(s, v), Plus(s, v))
    BY DEF v
  <2> QED BY <1>9, <1>10, <2>1, Joined
<1>12. Fragment(t, <<a, b, c>> \o steps \o <<d>>, s, s)
  BY <1>7, <1>11, Joined
<1> QED BY <1>12, Zenon DEF WithVar, a, b, c, d, v

LEMMA NoTraces ==
  /\ {Report, Part, Block, ThreadMtx, Annotations, AtExit, Var(Part), Var(Block)} \subseteq Mutexes \ Traces
  /\ ThreadMtx \notin {Report, Part, Block, Annotations, AtExit, Var(Part), Var(Block)}
  /\ \A u \in Tids : TraceMtx(u) \in Mutexes
<1>1. {Report, Part, Block, ThreadMtx, Annotations, AtExit, Var(Part), Var(Block)} \subseteq Mutexes
  BY DEF Mutexes
<1> QED BY <1>1, MutexesDiffer DEF Traces

LEMMA Alone ==
  ASSUME NEW t \in Tids, NEW s \in States, NEW m \in Mutexes \ Traces, MayLock(s, m),
         m = ThreadMtx => s.run = s.live
  PROVE  Fragment(t, Under(m, << >>), s, s)
<1>1. Fragment(t, << >>, Plus(s, m), Plus(s, m))
  BY PlusIsState, Nothing
<1> QED BY <1>1, UnderKeeps

LEMMA EventFragment ==
  ASSUME NEW t \in Tids, NEW s \in States, MayLock(s, TraceMtx(t)), s.live, NEW event \in TraceAddEvent(t)
  PROVE  Fragment(t, event, s, s)
BY Nothing, SwitchFragment DEF TraceAddEvent

LEMMA VarFragments ==
  ASSUME NEW t \in Tids, NEW s \in States, s.held = << >>, s.live,
         NEW event \in TraceAddEvent(t), NEW list \in {Part, Block}
  PROVE  /\ Fragment(t, event \o WithVar(list, << >>), s, s)
         /\ Fragment(t, WithVar(list, << >>), s, s)
         /\ Fragment(t, WithVar(list, event), s, s)
         /\ Fragment(t, FindAndRemove(list), s, s)
<1>1. /\ list \in Mutexes \ Traces /\ Var(list) \in Mutexes \ Traces /\ TraceMtx(t) \in Mutexes
      /\ list # ThreadMtx /\ Var(list) # ThreadMtx
  BY NoTraces
<1>2. MayLock(s, list) /\ MayLock(s, Var(list)) /\ MayLock(s, TraceMtx(t))
  BY <1>1, FirstOfAll
<1>3. /\ Plus(s, Var(list)) \in States /\ Plus(s, Var(list)).live
      /\ Plus(s, Var(list)).held = Append(s.held, Var(list))
  BY <1>1, PlusIsState
<1>4. MayLock(Plus(s, Var(list)), TraceMtx(t))
  BY <1>1, <1>2, <1>3, TableAllows, NextInOrder
<1>5. Fragment(t, WithVar(list, << >>), s, s)
  BY <1>2, <1>3, Nothing, WithAVar
<1>6. Fragment(t, WithVar(list, event), s, s)
  BY <1>2, <1>3, <1>4, EventFragment, WithAVar
<1>7. Fragment(t, event, s, s)
  BY <1>2, EventFragment
<1>8. Fragment(t, Under(list, << >>), s, s) /\ Fragment(t, Under(Var(list), << >>), s, s)
  BY <1>1, <1>2, Alone
<1>9. Fragment(t, FindAndRemove(list), s, s)
  BY <1>8, Joined DEF FindAndRemove
<1> QED BY <1>5, <1>6, <1>7, <1>9, Joined

\* What a report does under its mutex.
LEMMA ReportFragments ==
  ASSUME NEW t \in Tids, NEW s \in States, MayLock(s, Report), NEW u \in Tids, u = t => s.live,
         Has(s, ThreadMtx) \/ report_destroy_locked
  PROVE  /\ Fragment(t, Under(Report, << >>), s, s)
         /\ Fragment(t, Under(Report, RestoreStack(u)), s, s)
         /\ Fragment(t, Under(Report, RestoreStack(u) \o << >>), s, s)
         /\ Fragment(t, Under(Report, RestoreStack(u) \o AddLocation), s, s)
<1> DEFINE r == Plus(s, Report)
<1>1. Report \in Mutexes \ Traces /\ Report # ThreadMtx /\ TraceMtx(u) \in Mutexes
  BY NoTraces
<1>2. r \in States /\ r.held = Append(s.held, Report) /\ r.live = s.live /\ (Has(s, ThreadMtx) => Has(r, ThreadMtx))
  BY <1>1, PlusIsState
<1>3. MayLock(r, TraceMtx(u))
  BY <1>1, <1>2, TableAllows, NextInOrder
<1>4. Fragment(t, RestoreStack(u), r, r)
  BY <1>2, <1>3, RestoreFragment
<1>5. Fragment(t, << >>, r, r)
  BY <1>2, Nothing
<1>6. Fragment(t, AddLocation, r, r)
  <2>1. Leads(t, r, <<"FindThread">>, r) /\ <<"FindThread">> \in Steps
    BY <1>2 DEF Leads, Steps
  <2>2. \A v \in Tids : <<"FindThread">> \notin {<<"pick", v>>, <<"lock", TraceMtx(v)>>, <<"unlock", TraceMtx(v)>>}
    OBVIOUS
  <2> QED BY <1>2, <2>1, <2>2, One DEF AddLocation
<1>7. Fragment(t, RestoreStack(u) \o << >>, r, r) /\ Fragment(t, RestoreStack(u) \o AddLocation, r, r)
  BY <1>4, <1>5, <1>6, Joined
<1> HIDE DEF r
<1>8. \A steps : Fragment(t, steps, r, r) => Fragment(t, Under(Report, steps), s, s)
  BY <1>1, UnderKeeps DEF r
<1> QED BY <1>4, <1>5, <1>7, <1>8

\* A thread's status and the life of its ThreadState change together under thread_mtx.
LEMMA StatusFragments ==
  ASSUME NEW t \in Tids, NEW s \in States, s.held = << >>, NEW event,
         \/ s.live /\ event \in TraceAddEvent(t)
         \/ event = << >>
  PROVE  /\ \E r \in States : /\ Fragment(t, Under(ThreadMtx, event \o <<<<"finish">>, <<"destroy">>>>), s, r)
                              /\ r.held = << >> /\ r.run = r.live
         /\ \E r \in States : /\ Fragment(t, Under(ThreadMtx, <<<<"start">>, <<"construct">>>>), s, r)
                              /\ r.held = << >> /\ r.run = r.live
<1> DEFINE m == ThreadMtx
           q == Plus(s, m)
<1>1. m \in Mutexes \ Traces /\ TraceMtx(t) \in Mutexes
  BY NoTraces
<1>2. MayLock(s, m)
  BY <1>1, FirstOfAll
<1>3. /\ q \in States /\ q.held = Append(s.held, m) /\ q.run = s.run /\ q.live = s.live /\ Has(q, m)
      /\ q.held \in Seq(Mutexes)
  <2>1. q \in States
    BY <1>1, PlusIsState
  <2> QED BY <1>1, <2>1, PlusIsState DEF States
<1>4. Fragment(t, event, q, q)
  <2>1. CASE event = << >>
    BY <1>3, <2>1, Nothing
  <2>2. CASE s.live /\ event \in TraceAddEvent(t)
    <3>1. MayLock(q, TraceMtx(t))
      BY <1>1, <1>2, <1>3, TableAllows, NextInOrder
    <3> QED BY <1>3, <2>2, <3>1, EventFragment
  <2> QED BY <2>1, <2>2
<1>5. \A run \in BOOLEAN, alive \in BOOLEAN :
        LET r == State(q.held, run, alive) IN
        r \in States /\ r.held = q.held /\ r.run = run /\ r.live = alive /\ Has(r, m)
  <2>1. \A run \in BOOLEAN, alive \in BOOLEAN :
          LET r == State(q.held, run, alive) IN
          r \in States /\ r.held = q.held /\ r.run = run /\ r.live = alive
    BY <1>3 DEF State, States
  <2> QED BY <1>3, <2>1 DEF Has
<1> HIDE DEF q
<1>6. /\ {<<"finish">>, <<"destroy">>, <<"start">>, <<"construct">>} \subseteq Steps
      /\ \A u \in Tids, step \in {<<"finish">>, <<"destroy">>, <<"start">>, <<"construct">>} :
           step \notin {<<"pick", u>>, <<"lock", TraceMtx(u)>>, <<"unlock", TraceMtx(u)>>}
  BY DEF Steps
<1>7. ASSUME NEW run \in BOOLEAN, NEW one \in {<<"finish">>, <<"start">>},
             NEW two \in {<<"destroy">>, <<"construct">>},
             run <=> one = <<"start">>, run <=> two = <<"construct">>
      PROVE  Fragment(t, <<one, two>>, q, State(q.held, run, run))
  <2> DEFINE r == State(q.held, run, q.live)
             v == State(q.held, run, run)
  <2>1. /\ r \in States /\ v \in States /\ r.held = q.held /\ r.run = run /\ r.live = q.live /\ Has(r, m)
    <3>1. q.live \in BOOLEAN
      BY <1>3 DEF States
    <3> QED BY <1>5, <3>1
  <2>2. Leads(t, q, one, r)
    <3>1. r = State(q.held, one = <<"start">>, q.live)
      BY <1>7
    <3> HIDE DEF r
    <3> QED BY <1>3, <3>1 DEF Leads
  <2> HIDE DEF r
  <2>3. Leads(t, r, two, v)
    <3>1. v = State(r.held, r.run, two = <<"construct">>)
      BY <1>7, <2>1
    <3> HIDE DEF v
    <3> QED BY <2>1, <3>1 DEF Leads
  <2> HIDE DEF v
  <2>4. Fragment(t, <<one>>, q, r)
    BY <1>3, <1>6, <2>1, <2>2, One
  <2>5. Fragment(t, <<two>>, r, v)
    BY <1>6, <2>1, <2>3, One
  <2>6. Fragment(t, <<one>> \o <<two>>, q, v)
    BY <2>4, <2>5, Joined
  <2>7. <<one>> \o <<two>> = <<one, two>>
    <3>1. one \in Steps /\ two \in Steps
      BY <1>6
    <3> QED BY <3>1, Pairs
  <2> QED BY <2>6, <2>7 DEF v
<1>8. \A steps : \A run \in BOOLEAN : Fragment(t, steps, q, State(q.held, run, run)) =>
        \E r \in States : Fragment(t, Under(m, steps), s, r) /\ r.held = << >> /\ r.run = r.live
  <2> SUFFICES ASSUME NEW steps, NEW run \in BOOLEAN, Fragment(t, steps, q, State(q.held, run, run))
               PROVE  \E r \in States : Fragment(t, Under(m, steps), s, r) /\ r.held = << >> /\ r.run = r.live
    OBVIOUS
  <2>1. Fragment(t, Under(m, steps), s, State(s.held, run, run))
    BY <1>1, <1>2, <1>3, UnderAMutex DEF q, Plus
  <2>2. State(s.held, run, run) \in States /\ State(s.held, run, run).held = << >>
        /\ State(s.held, run, run).run = State(s.held, run, run).live
    BY DEF State, States
  <2> QED BY <2>1, <2>2
<1>9. Fragment(t, <<<<"start">>, <<"construct">>>>, q, State(q.held, TRUE, TRUE))
  BY <1>7
<1>10. Fragment(t, event \o <<<<"finish">>, <<"destroy">>>>, q, State(q.held, FALSE, FALSE))
  <2>1. <<"finish">> # <<"start">> /\ <<"destroy">> # <<"construct">>
    OBVIOUS
  <2>2. Fragment(t, <<<<"finish">>, <<"destroy">>>>, q, State(q.held, FALSE, FALSE))
    BY <1>7, <2>1
  <2> QED BY <1>4, <2>2, Joined
<1>11. TRUE \in BOOLEAN /\ FALSE \in BOOLEAN
  OBVIOUS
<1> HIDE DEF m
<1>12. \E r \in States : /\ Fragment(t, Under(m, event \o <<<<"finish">>, <<"destroy">>>>), s, r)
                         /\ r.held = << >> /\ r.run = r.live
  BY <1>8, <1>10, <1>11
<1>13. \E r \in States : /\ Fragment(t, Under(m, <<<<"start">>, <<"construct">>>>), s, r)
                         /\ r.held = << >> /\ r.run = r.live
  BY <1>8, <1>9, <1>11
<1> QED BY <1>12, <1>13 DEF m

\* Every handler begins and ends with nothing locked.
LEMMA HandlersFit ==
  ASSUME NEW t \in Tids, NEW s \in States, s.held = << >>, s.run = s.live,
         s.run <=> thread_status[t] = "Running", thread_status[t] \in {"Running", "Finished"},
         NEW p \in Handlers(t)
  PROVE  \E r \in States : Fragment(t, p, s, r) /\ r.held = << >> /\ r.run = r.live
<1> DEFINE Keeps(q) == Fragment(t, q, s, s)
<1>1. CASE thread_status[t] = "Finished"
  <2>1. p = Under(ThreadMtx, <<<<"start">>, <<"construct">>>>)
    BY <1>1 DEF Handlers, ThreadStart
  <2> QED BY <2>1, StatusFragments
<1>2. CASE thread_status[t] = "Running"
  <2>0. s.live = TRUE /\ s.run = TRUE
    BY <1>2 DEF States
  <2>1. \A m \in {Report, Part, Block, ThreadMtx, Annotations, AtExit, Var(Part), Var(Block)} :
          m \in Mutexes \ Traces /\ MayLock(s, m) /\ Keeps(Under(m, << >>))
    <3>1. \A m \in {Report, Part, Block, ThreadMtx, Annotations, AtExit, Var(Part), Var(Block)} :
            m \in Mutexes \ Traces /\ MayLock(s, m)
      BY NoTraces, FirstOfAll
    <3> QED BY <3>1, Alone
  <2>2. Keeps(TraceSwitch(t))
    BY <2>0, NoTraces, FirstOfAll, SwitchFragment
  <2>3. \A event \in TraceAddEvent(t), list \in {Part, Block} :
          /\ Keeps(event \o WithVar(list, << >>)) /\ Keeps(WithVar(list, << >>))
          /\ Keeps(WithVar(list, event)) /\ Keeps(FindAndRemove(list))
    BY <2>0, VarFragments
  <2>4. << >> \in TraceAddEvent(t)
    BY DEF TraceAddEvent
  <2>5. \A a, b : Keeps(a) /\ Keeps(b) => Keeps(a \o b)
    BY Joined
  <2>6. CASE p \in MemoryAccess(t) \cup MutexLock(t) \cup Acquire \cup MutexReadOrWriteUnlock(t)
    <3>1. CASE p \in MemoryAccess(t)
      BY <2>0, <2>2, <3>1 DEF MemoryAccess
    <3>2. CASE p \in MutexLock(t)
      <4>1. PICK event \in TraceAddEvent(t), list \in {Part, Block} : p = event \o WithVar(list, << >>)
        BY <3>2 DEF MutexLock
      <4> QED BY <2>0, <2>3, <4>1
    <3>3. CASE p \in Acquire
      BY <2>0, <2>3, <2>4, <3>3 DEF Acquire
    <3>4. CASE p \in MutexReadOrWriteUnlock(t)
      BY <2>0, <2>3, <3>4 DEF MutexReadOrWriteUnlock
    <3> QED BY <2>6, <3>1, <3>2, <3>3, <3>4
  <2>7. CASE p \in MutexDestroy
    <3>1. \A list \in {Part, Block} : Keeps(FindAndRemove(list))
      BY <2>3, <2>4
    <3>2. report_destroy_locked => \A u \in Tids :
            Keeps(Under(Report, RestoreStack(u))) /\ Keeps(Under(Report, RestoreStack(u) \o AddLocation))
      BY <2>0, <2>1, ReportFragments
    <3>3. \/ \E list \in {Part, Block} : p = FindAndRemove(list)
          \/ /\ report_destroy_locked
             /\ \E u \in Tids : \/ p = FindAndRemove(Part) \o Under(Report, RestoreStack(u))
                                \/ p = FindAndRemove(Block) \o Under(Report, RestoreStack(u) \o AddLocation)
      BY <2>7 DEF MutexDestroy
    <3> HIDE DEF Keeps
    <3>4. Keeps(p)
      BY <2>5, <3>1, <3>2, <3>3
    <3> QED BY <2>0, <3>4 DEF Keeps
  <2>8. CASE p \in ReportRace(t)
    <3> DEFINE e == Under(Annotations, << >>)
               h == Plus(s, ThreadMtx)
    <3>1. ThreadMtx \in Mutexes \ Traces /\ Report \in Mutexes \ Traces /\ MayLock(s, ThreadMtx)
      BY <2>1
    <3>2. /\ h \in States /\ h.held = Append(s.held, ThreadMtx) /\ h.run = s.run /\ h.live = s.live
          /\ Has(h, ThreadMtx)
      BY <3>1, PlusIsState
    <3>3. MayLock(h, Report)
      BY <3>1, <3>2, TableAllows, NextInOrder
    <3>4. ASSUME NEW steps \in Restoring(t) PROVE Fragment(t, Under(Report, steps), h, h)
      <4>1. \/ steps = << >>
            \/ \E u \in Tids \ {t}, location \in {<< >>, AddLocation} : steps = RestoreStack(u) \o location
        BY DEF Restoring
      <4> HIDE DEF h
      <4>2. \A u \in Tids : /\ Fragment(t, Under(Report, << >>), h, h)
                            /\ Fragment(t, Under(Report, RestoreStack(u) \o << >>), h, h)
                            /\ Fragment(t, Under(Report, RestoreStack(u) \o AddLocation), h, h)
        BY <2>0, <3>2, <3>3, ReportFragments
      <4> QED BY <4>1, <4>2
    <3>5. \A steps \in Restoring(t) : Keeps(Under(ThreadMtx, Under(Report, steps)))
      BY <2>0, <3>1, <3>4, UnderKeeps
    <3>6. p = e \/ \E steps \in Restoring(t) : p = e \o Under(ThreadMtx, Under(Report, steps))
      BY <2>8, Zenon DEF ReportRace, Annotations
    <3>7. Keeps(e)
      BY <2>1
    <3> HIDE DEF Keeps, e
    <3>8. Keeps(p)
      BY <2>5, <3>5, <3>6, <3>7
    <3> QED BY <2>0, <3>8 DEF Keeps
  <2>9. CASE p \in user_free
    <3>1. MayLock(Plus(s, Block), Var(Block)) /\ Plus(s, Block) \in States
      <4>1. Plus(s, Block) \in States /\ Plus(s, Block).held = Append(s.held, Block)
        BY <2>1, PlusIsState
      <4> QED BY <2>1, <4>1, TableAllows, NextInOrder
    <3>2. Fragment(t, Under(Var(Block), << >>), Plus(s, Block), Plus(s, Block))
      BY <2>1, <3>1, NoTraces, Alone
    <3>3. Keeps(Under(Block, Under(Var(Block), << >>)))
      BY <2>0, <2>1, <3>2, UnderKeeps
    <3>4. Keeps(<< >>) /\ Keeps(Under(Report, << >>))
      BY <2>1, Nothing
    <3>5. \E rep \in {<< >>, Under(Report, << >>)} : p = Under(Block, Under(Var(Block), << >>)) \o rep
      BY <2>9 DEF user_free
    <3> HIDE DEF Keeps
    <3>6. Keeps(p)
      BY <2>5, <3>3, <3>4, <3>5
    <3> QED BY <2>0, <3>6 DEF Keeps
  <2>10. CASE p \in atexit
    <3>1. Plus(s, AtExit) \in States /\ Plus(s, AtExit).held = Append(s.held, AtExit)
      BY <2>1, PlusIsState
    <3>2. MayLock(Plus(s, AtExit), Part)
      BY <2>1, <3>1, TableAllows, NextInOrder
    <3>3. \A q \in States : Fragment(t, << >>, q, q)
      BY Nothing
    <3>4. Plus(Plus(s, AtExit), Var(Part)) \in States
      BY <2>1, <3>1, PlusIsState
    <3>5. Fragment(t, WithVar(Part, << >>), Plus(s, AtExit), Plus(s, AtExit))
      BY <3>1, <3>2, <3>3, <3>4, WithAVar
    <3>6. Keeps(Under(AtExit, WithVar(Part, << >>)))
      BY <2>0, <2>1, <3>5, UnderKeeps
    <3>7. p = Under(AtExit, WithVar(Part, << >>))
      BY <2>10 DEF atexit, AtExit
    <3> QED BY <2>0, <3>6, <3>7
  <2>11. CASE p \in WriteMemoryProfile \cup ThreadHandlers \cup Finalize
    <3>1. MayLock(Plus(s, ThreadMtx), Report) /\ Plus(s, ThreadMtx) \in States
      <4>1. Plus(s, ThreadMtx) \in States /\ Plus(s, ThreadMtx).held = Append(s.held, ThreadMtx)
        BY <2>1, PlusIsState
      <4> QED BY <2>1, <4>1, TableAllows, NextInOrder
    <3>2. Fragment(t, Under(Report, << >>), Plus(s, ThreadMtx), Plus(s, ThreadMtx))
      BY <2>1, <3>1, NoTraces, Alone
    <3>3. Keeps(Under(ThreadMtx, Under(Report, << >>)))
      BY <2>0, <2>1, <3>2, UnderKeeps
    <3>4. Keeps(Under(ThreadMtx, << >>)) /\ Keeps(Under(Part, << >>)) /\ Keeps(Under(Report, << >>))
      BY <2>1
    <3>5. p \in {Under(ThreadMtx, << >>) \o Under(Part, << >>), Under(ThreadMtx, << >>),
                 Under(Report, << >>) \o Under(ThreadMtx, Under(Report, << >>))}
      BY <2>11 DEF WriteMemoryProfile, ThreadHandlers, Finalize
    <3> HIDE DEF Keeps
    <3>6. Keeps(p)
      BY <2>5, <3>3, <3>4, <3>5
    <3> QED BY <2>0, <3>6 DEF Keeps
  <2>12. CASE p \in ThreadFinish(t)
    <3>1. \E event \in TraceAddEvent(t) : p = Under(ThreadMtx, event \o <<<<"finish">>, <<"destroy">>>>)
      BY <2>12 DEF ThreadFinish
    <3> QED BY <2>0, <3>1, StatusFragments
  <2> QED BY <1>2, <2>6, <2>7, <2>8, <2>9, <2>10, <2>11, <2>12 DEF Handlers
<1> QED BY <1>1, <1>2

-----------------------------------------------------------------------------
(* The invariant.                                                          *)

Typed ==
  /\ path \in [Tids -> Seq(Steps)] /\ locked \in [Tids -> Seq(Mutexes)]
  /\ thread_status \in [Tids -> {"Running", "Finished"}] /\ live \in [Tids -> BOOLEAN]

\* What a thread still has to do is the rest of a handler.
PathFits(t) == \E r \in States : Rest(t, path[t], Now(t), r) /\ r.held = << >> /\ r.run = r.live
\* A mutex is locked once, by one thread.
LockedOnce ==
  /\ \A t \in Tids : IsInjective(locked[t])
  /\ \A t, u \in Tids : t # u => ToSet(locked[t]) \cap ToSet(locked[u]) = {}
\* Who does not have thread_mtx is running if its ThreadState is constructed.
StatusFits(t) == ThreadMtx \in ToSet(locked[t]) \/ (thread_status[t] = "Running" <=> live[t])
\* Nothing is done under a trace's mutex.
TracesFit(t) == \A u \in Tids : TraceMtx(u) \in ToSet(locked[t]) =>
  path[t] # << >> /\ path[t][1] = <<"unlock", TraceMtx(u)>>
\* Who is at another thread's trace has thread_mtx, and it is there.
HeadIsSafe(t) == \A u \in Tids \ {t} :
  path[t] # << >> /\ path[t][1] \in {<<"lock", TraceMtx(u)>>, <<"unlock", TraceMtx(u)>>} =>
    report_destroy_locked \/ (ThreadMtx \in ToSet(locked[t]) /\ live[u])
Inv ==
  /\ Typed /\ LockedOnce
  /\ \A t \in Tids : PathFits(t) /\ StatusFits(t) /\ TracesFit(t) /\ HeadIsSafe(t)

LEMMA NowIsState == ASSUME Typed, NEW t \in Tids PROVE Now(t) \in States
BY DEF Typed, Now, State, States

\* After a step, the rest of the rest.
LEMMA RestStep ==
  ASSUME NEW t \in Tids, NEW p, NEW s, NEW r, Rest(t, p, s, r), p # << >>
  PROVE  /\ \E v \in States : Leads(t, s, p[1], v) /\ Rest(t, Tail(p), v, r)
         /\ p \in Seq(Steps) /\ Tail(p) \in Seq(Steps) /\ p[1] \in Steps /\ GoesOn(p, 1)
         /\ Len(p) \in Nat /\ Len(p) > 0
         /\ Tail(p) # << >> <=> Len(p) > 1
         /\ Len(p) > 1 => Tail(p)[1] = p[2] /\ ComesFrom(t, p, 2)
<1>1. PICK f : Passes(t, p, f) /\ f[0] = s /\ f[Len(p)] = r /\ \A i \in 2 .. Len(p) : ComesFrom(t, p, i)
  BY DEF Rest
<1>2. p \in Seq(Steps) /\ f \in [0 .. Len(p) -> States] /\ Len(p) \in Nat /\ Len(p) > 0
  BY <1>1 DEF Passes
<1> DEFINE q == Tail(p)
           g == [i \in 0 .. Len(q) |-> f[i + 1]]
<1>3. /\ q \in Seq(Steps) /\ Len(q) = Len(p) - 1 /\ p[1] \in Steps
      /\ \A i \in 1 .. Len(q) : q[i] = p[i + 1]
  BY <1>2
<1>4. \A i \in 0 .. Len(q) : i + 1 \in 1 .. Len(p) /\ i + 1 \in 0 .. Len(p)
  BY <1>2, <1>3
<1>5. g \in [0 .. Len(q) -> States] /\ \A i \in 0 .. Len(q) : g[i] = f[i + 1]
  BY <1>2, <1>4
<1>6. f[1] \in States /\ Leads(t, s, p[1], f[1]) /\ GoesOn(p, 1)
  <2>1. 1 \in 1 .. Len(p) /\ 1 \in 0 .. Len(p) /\ 1 - 1 = 0
    BY <1>2
  <2> QED BY <1>1, <1>2, <2>1 DEF Passes
<1> HIDE DEF q, g
<1>7. ASSUME NEW i \in 1 .. Len(q)
      PROVE  Leads(t, g[i - 1], q[i], g[i]) /\ GoesOn(q, i) /\ (i > 1 => ComesFrom(t, q, i))
  <2>1. /\ i + 1 \in 1 .. Len(p) /\ i - 1 \in 0 .. Len(q) /\ i \in 0 .. Len(q) /\ (i + 1) - 1 = i
        /\ (i - 1) + 1 = i /\ i + 1 \in 2 .. Len(p)
    BY <1>2, <1>3
  <2>2. Leads(t, f[i], p[i + 1], f[i + 1]) /\ GoesOn(p, i + 1) /\ ComesFrom(t, p, i + 1)
    BY <1>1, <2>1 DEF Passes
  <2>3. q[i] = p[i + 1] /\ g[i] = f[i + 1] /\ g[i - 1] = f[i]
    BY <1>3, <1>5, <2>1
  <2>4. GoesOn(q, i)
    <3>1. i + 1 < Len(p) => i < Len(q) /\ q[i + 1] = p[(i + 1) + 1]
      <4>1. i + 1 < Len(p) => i < Len(q) /\ i + 1 \in 1 .. Len(q)
        BY <1>2, <1>3, <2>1
      <4> QED BY <1>3, <4>1
    <3> QED BY <2>2, <2>3, <3>1 DEF GoesOn
  <2>5. i > 1 => ComesFrom(t, q, i)
    <3>1. i > 1 => q[i - 1] = p[(i + 1) - 1]
      BY <1>2, <1>3, <2>1
    <3> QED BY <2>2, <2>3, <3>1 DEF ComesFrom
  <2> QED BY <2>2, <2>3, <2>4, <2>5
<1>8. Passes(t, q, g)
  BY <1>3, <1>5, <1>7 DEF Passes
<1>9. g[0] = f[1] /\ g[Len(q)] = r
  <2>1. 0 \in 0 .. Len(q) /\ Len(q) \in 0 .. Len(q) /\ Len(q) + 1 = Len(p) /\ 0 + 1 = 1
    BY <1>2, <1>3
  <2> QED BY <1>1, <1>5, <2>1
<1>10. \A i \in 2 .. Len(q) : ComesFrom(t, q, i)
  <2>1. \A i \in 2 .. Len(q) : i \in 1 .. Len(q) /\ i > 1
    BY <1>2, <1>3
  <2> QED BY <1>7, <2>1
<1>11. Rest(t, q, f[1], r)
  BY <1>8, <1>9, <1>10 DEF Rest
<1>12. q # << >> <=> Len(p) > 1
  BY <1>2, <1>3
<1>13. Len(p) > 1 => q[1] = p[2] /\ ComesFrom(t, p, 2)
  <2>1. Len(p) > 1 => 1 \in 1 .. Len(q) /\ 2 \in 2 .. Len(p) /\ 1 + 1 = 2
    BY <1>2, <1>3
  <2> QED BY <1>1, <1>3, <2>1
<1> QED BY <1>2, <1>3, <1>6, <1>11, <1>12, <1>13 DEF q

\* A step of t, and the rest stays.
LEMMA OneMoves ==
  ASSUME Inv, NEW t \in Tids,
         path' \in [Tids -> Seq(Steps)], locked' \in [Tids -> Seq(Mutexes)],
         thread_status' \in [Tids -> {"Running", "Finished"}], live' \in [Tids -> BOOLEAN],
         \A u \in Tids \ {t} : /\ path'[u] = path[u] /\ locked'[u] = locked[u]
                               /\ thread_status'[u] = thread_status[u] /\ live'[u] = live[u],
         PathFits(t)', StatusFits(t)', TracesFit(t)', HeadIsSafe(t)',
         IsInjective(locked'[t]),
         \A u \in Tids \ {t} : (ToSet(locked'[t]) \ ToSet(locked[t])) \cap ToSet(locked[u]) = {},
         live'[t] = live[t] \/ ThreadMtx \in ToSet(locked[t])
  PROVE  Inv'
<1>1. Typed /\ LockedOnce /\ \A u \in Tids : PathFits(u) /\ StatusFits(u) /\ TracesFit(u) /\ HeadIsSafe(u)
  BY DEF Inv
<1>2. Typed'
  BY DEF Typed
<1>3. LockedOnce'
  <2>1. \A u \in Tids \ {t} : ToSet(locked'[t]) \cap ToSet(locked'[u]) = {} /\ IsInjective(locked'[u])
    BY <1>1 DEF LockedOnce
  <2>2. \A u, v \in Tids \ {t} : u # v => ToSet(locked'[u]) \cap ToSet(locked'[v]) = {}
    BY <1>1 DEF LockedOnce
  <2> QED BY <2>1, <2>2 DEF LockedOnce
<1>4. ASSUME NEW u \in Tids \ {t} PROVE PathFits(u)' /\ StatusFits(u)' /\ TracesFit(u)' /\ HeadIsSafe(u)'
  <2>1. /\ path'[u] = path[u] /\ locked'[u] = locked[u]
        /\ thread_status'[u] = thread_status[u] /\ live'[u] = live[u] /\ Now(u)' = Now(u)
    BY DEF Now
  <2>2. PathFits(u)' /\ StatusFits(u)' /\ TracesFit(u)'
    <3>1. PathFits(u)'
      <4>1. PICK r \in States : Rest(u, path[u], Now(u), r) /\ r.held = << >> /\ r.run = r.live
        BY <1>1 DEF PathFits
      <4>2. Rest(u, path'[u], Now(u)', r)
        BY <2>1, <4>1
      <4> QED BY <4>1, <4>2 DEF PathFits, Rest, Passes, Leads
    <3> QED BY <1>1, <2>1, <3>1 DEF StatusFits, TracesFit
  <2>3. HeadIsSafe(u)'
    <3> SUFFICES ASSUME NEW v \in Tids \ {u}, path'[u] # << >>,
                        path'[u][1] \in {<<"lock", TraceMtx(v)>>, <<"unlock", TraceMtx(v)>>},
                        ~report_destroy_locked
                 PROVE  ThreadMtx \in ToSet(locked'[u]) /\ live'[v]
      BY DEF HeadIsSafe
    <3>1. ThreadMtx \in ToSet(locked[u]) /\ live[v]
      BY <1>1, <2>1 DEF HeadIsSafe
    <3>2. ThreadMtx \notin ToSet(locked[t])
      BY <1>1, <3>1 DEF LockedOnce
    <3> QED BY <2>1, <3>1, <3>2
  <2> QED BY <2>2, <2>3
<1> QED BY <1>2, <1>3, <1>4 DEF Inv

\* What the head of a thread's path does, in the places of its actions.
LEMMA HeadLeads ==
  ASSUME Inv, NEW t \in Tids, path[t] # << >>
  PROVE  \E v \in States, r \in States :
           /\ Leads(t, Now(t), path[t][1], v) /\ Rest(t, Tail(path[t]), v, r)
           /\ r.held = << >> /\ r.run = r.live
           /\ path[t] \in Seq(Steps) /\ Tail(path[t]) \in Seq(Steps) /\ path[t][1] \in Steps
           /\ GoesOn(path[t], 1) /\ Len(path[t]) \in Nat /\ Len(path[t]) > 0
           /\ Tail(path[t]) # << >> <=> Len(path[t]) > 1
           /\ Len(path[t]) > 1 => Tail(path[t])[1] = path[t][2] /\ ComesFrom(t, path[t], 2)
           /\ Now(t) \in States /\ Now(t).held = locked[t]
           /\ Now(t).run = (thread_status[t] = "Running") /\ Now(t).live = live[t]
<1>1. PICK r \in States : Rest(t, path[t], Now(t), r) /\ r.held = << >> /\ r.run = r.live
  BY DEF Inv, PathFits
<1>2. Now(t) \in States /\ Now(t).held = locked[t]
      /\ Now(t).run = (thread_status[t] = "Running") /\ Now(t).live = live[t]
  BY NowIsState DEF Inv, Now, State
<1> QED BY <1>1, <1>2, RestStep

\* The first part of a step tells the kinds apart.
LEMMA KindsDiffer ==
  ASSUME NEW t, NEW s, NEW v, NEW step, Leads(t, s, step, v)
  PROVE  /\ step[1] = "lock" => \E m \in Mutexes :
              /\ step = <<"lock", m>> /\ MayLock(s, m) /\ (m = TraceMtx(t) => s.live)
              /\ v = State(Append(s.held, m), s.run, s.live)
         /\ step[1] = "unlock" => \E m \in Mutexes, i \in DOMAIN s.held :
              /\ step = <<"unlock", m>> /\ s.held[i] = m /\ (m = TraceMtx(t) => s.live)
              /\ m = ThreadMtx => s.run = s.live
              /\ v = State(RemoveAt(s.held, i), s.run, s.live)
         /\ step[1] = "pick" => \E u \in Tids :
              step = <<"pick", u>> /\ v = s /\ (Has(s, ThreadMtx) \/ report_destroy_locked)
         /\ step[1] = "FindThread" => v = s /\ (Has(s, ThreadMtx) \/ report_destroy_locked)
         /\ step[1] \in {"finish", "start"} =>
              Has(s, ThreadMtx) /\ v = State(s.held, step[1] = "start", s.live)
         /\ step[1] \in {"destroy", "construct"} =>
              Has(s, ThreadMtx) /\ v = State(s.held, s.run, step[1] = "construct")
         /\ step[1] \in {"lock", "unlock", "pick", "FindThread", "finish", "start", "destroy", "construct"}
BY DEF Leads

\* No trace is held unless its mutex is unlocked next.
LEMMA NoTraceHeld ==
  ASSUME Inv, NEW t \in Tids, path[t] = << >> \/ path[t][1][1] # "unlock"
  PROVE  \A u \in Tids : TraceMtx(u) \notin ToSet(locked[t])
BY DEF Inv, TracesFit

LEMMA CallStep ==
  ASSUME Inv, NEW t \in Tids, Call(t)
  PROVE  Inv'
<1>1. Typed /\ PathFits(t) /\ StatusFits(t) /\ LockedOnce
  BY DEF Inv
<1>2. PICK p \in Handlers(t) : path' = [path EXCEPT ![t] = p]
  BY DEF Call
<1>3. path[t] = << >> /\ locked' = locked /\ thread_status' = thread_status /\ live' = live
  BY DEF Call
<1>4. PICK r \in States : Rest(t, << >>, Now(t), r) /\ r.held = << >> /\ r.run = r.live
  BY <1>1, <1>3 DEF PathFits
<1>5. r = Now(t)
  BY <1>4 DEF Rest
<1>6. Now(t) \in States /\ Now(t).held = locked[t]
      /\ Now(t).run = (thread_status[t] = "Running") /\ Now(t).live = live[t] /\ Now(t)' = Now(t)
  BY <1>1, <1>3, NowIsState DEF Now, State
<1>7. PICK v \in States : Fragment(t, p, Now(t), v) /\ v.held = << >> /\ v.run = v.live
  <2>1. thread_status[t] \in {"Running", "Finished"}
    BY <1>1 DEF Typed
  <2> QED BY <1>4, <1>5, <1>6, <2>1, HandlersFit
<1>8. PICK f : Passes(t, p, f) /\ f[0] = Now(t) /\ f[Len(p)] = v /\ \A i \in 1 .. Len(p) : ComesFrom(t, p, i)
  BY <1>7 DEF Fragment
<1>9. p \in Seq(Steps) /\ path'[t] = p
  BY <1>1, <1>2, <1>8 DEF Passes, Typed
<1>10. PathFits(t)'
  <2>1. \A i \in 2 .. Len(p) : i \in 1 .. Len(p)
    BY <1>9
  <2>2. Rest(t, p, Now(t), v)
    BY <1>8, <2>1 DEF Rest
  <2>3. Rest(t, path'[t], Now(t)', v)
    BY <1>6, <1>9, <2>2
  <2> QED BY <1>7, <2>3 DEF PathFits, Rest, Passes, Leads
<1>11. TracesFit(t)'
  BY <1>3, NoTraceHeld DEF TracesFit
<1>12. HeadIsSafe(t)'
  <2>1. p # << >> => ComesFrom(t, p, 1)
    <3>1. p # << >> => 1 \in 1 .. Len(p)
      BY <1>9
    <3> QED BY <1>8, <3>1
  <2>2. \A u \in Tids \ {t} : p # << >> => p[1] \notin {<<"lock", TraceMtx(u)>>, <<"unlock", TraceMtx(u)>>}
    BY <2>1 DEF ComesFrom
  <2> QED BY <1>9, <2>2 DEF HeadIsSafe
<1>13. StatusFits(t)'
  BY <1>1, <1>3 DEF StatusFits
<1>14. /\ path' \in [Tids -> Seq(Steps)] /\ locked' \in [Tids -> Seq(Mutexes)]
       /\ thread_status' \in [Tids -> {"Running", "Finished"}] /\ live' \in [Tids -> BOOLEAN]
       /\ \A u \in Tids \ {t} : path'[u] = path[u]
  BY <1>1, <1>2, <1>3, <1>9 DEF Typed
<1>15. IsInjective(locked'[t])
  BY <1>1, <1>3 DEF LockedOnce
<1>16. \A u \in Tids \ {t} : (ToSet(locked'[t]) \ ToSet(locked[t])) \cap ToSet(locked[u]) = {}
  BY <1>3
<1> QED BY <1>3, <1>10, <1>11, <1>12, <1>13, <1>14, <1>15, <1>16, OneMoves

\* A step that locks and unlocks nothing and picks no trace.
Quiet(t, run, alive) ==
  /\ path[t] # << >> /\ path[t][1][1] \notin {"lock", "unlock", "pick"}
  /\ path' = [path EXCEPT ![t] = Tail(@)] /\ locked' = locked
  /\ run \in {"Running", "Finished"} /\ alive \in BOOLEAN
  /\ thread_status' = [thread_status EXCEPT ![t] = run] /\ live' = [live EXCEPT ![t] = alive]
  /\ \A w \in States : Leads(t, Now(t), path[t][1], w) => w = State(locked[t], run = "Running", alive)
  /\ ThreadMtx \in ToSet(locked[t]) \/ (run = thread_status[t] /\ alive = live[t])

LEMMA QuietStep ==
  ASSUME Inv, NEW t \in Tids, NEW run, NEW alive, Quiet(t, run, alive)
  PROVE  Inv'
<1> DEFINE v == State(locked[t], run = "Running", alive)
<1>0. /\ path[t] # << >> /\ path[t][1][1] \notin {"lock", "unlock", "pick"}
      /\ path' = [path EXCEPT ![t] = Tail(@)] /\ locked' = locked
      /\ run \in {"Running", "Finished"} /\ alive \in BOOLEAN
      /\ thread_status' = [thread_status EXCEPT ![t] = run] /\ live' = [live EXCEPT ![t] = alive]
      /\ \A w \in States : Leads(t, Now(t), path[t][1], w) => w = v
      /\ ThreadMtx \in ToSet(locked[t]) \/ (run = thread_status[t] /\ alive = live[t])
  BY DEF Quiet
<1> HIDE DEF v
<1>1. Typed /\ StatusFits(t) /\ LockedOnce
  BY DEF Inv
<1>2. PICK r \in States :
        /\ Rest(t, Tail(path[t]), v, r) /\ r.held = << >> /\ r.run = r.live
        /\ path[t] \in Seq(Steps) /\ Tail(path[t]) \in Seq(Steps) /\ path[t][1] \in Steps
        /\ Tail(path[t]) # << >> <=> Len(path[t]) > 1
        /\ Len(path[t]) > 1 => Tail(path[t])[1] = path[t][2] /\ ComesFrom(t, path[t], 2)
  BY <1>0, HeadLeads
<1>3. /\ path'[t] = Tail(path[t]) /\ thread_status'[t] = run /\ live'[t] = alive
      /\ \A u \in Tids \ {t} : path'[u] = path[u] /\ thread_status'[u] = thread_status[u] /\ live'[u] = live[u]
      /\ path' \in [Tids -> Seq(Steps)] /\ locked' \in [Tids -> Seq(Mutexes)]
      /\ thread_status' \in [Tids -> {"Running", "Finished"}] /\ live' \in [Tids -> BOOLEAN]
  BY <1>0, <1>1, <1>2 DEF Typed
<1>4. Now(t)' = v
  BY <1>0, <1>3 DEF Now, v
<1>5. PathFits(t)'
  <2>1. Rest(t, path'[t], Now(t)', r)
    BY <1>2, <1>3, <1>4
  <2> QED BY <1>2, <2>1 DEF PathFits, Rest, Passes, Leads
<1>6. TracesFit(t)'
  BY <1>0, NoTraceHeld DEF TracesFit
<1>7. HeadIsSafe(t)'
  <2>1. \A u \in Tids : Len(path[t]) > 1 =>
          path[t][2] \notin {<<"unlock", TraceMtx(u)>>} /\ (u # t => path[t][2] # <<"lock", TraceMtx(u)>>)
    <3>1. 2 - 1 = 1
      OBVIOUS
    <3>2. \A u \in Tids : path[t][1] # <<"pick", u>> /\ path[t][1] # <<"lock", TraceMtx(u)>>
      BY <1>0
    <3> QED BY <1>2, <3>1, <3>2 DEF ComesFrom
  <2> QED BY <1>2, <1>3, <2>1 DEF HeadIsSafe
<1>8. StatusFits(t)'
  BY <1>0, <1>1, <1>3 DEF StatusFits
<1>9. IsInjective(locked'[t])
  BY <1>0, <1>1 DEF LockedOnce
<1>10. \A u \in Tids \ {t} : (ToSet(locked'[t]) \ ToSet(locked[t])) \cap ToSet(locked[u]) = {}
  BY <1>0
<1>11. live'[t] = live[t] \/ ThreadMtx \in ToSet(locked[t])
  BY <1>0, <1>3
<1>12. \A u \in Tids \ {t} : locked'[u] = locked[u]
  BY <1>0
<1> QED BY <1>3, <1>5, <1>6, <1>7, <1>8, <1>9, <1>10, <1>11, <1>12, OneMoves

LEMMA QuietSteps ==
  ASSUME Inv, NEW t \in Tids, FindThread(t) \/ SetStatus(t) \/ SetState(t)
  PROVE  Inv'
<1>1. Typed
  BY DEF Inv
<1>2. path[t] # << >> /\ path' = [path EXCEPT ![t] = Tail(@)] /\ locked' = locked
      /\ path[t][1][1] \in {"FindThread", "finish", "start", "destroy", "construct"}
  BY DEF FindThread, SetStatus, SetState, At, Done
<1>3. PICK v \in States : Leads(t, Now(t), path[t][1], v)
  BY <1>2, HeadLeads
<1>4. /\ Now(t).held = locked[t] /\ Now(t).run = (thread_status[t] = "Running") /\ Now(t).live = live[t]
      /\ Now(t) = State(locked[t], thread_status[t] = "Running", live[t])
  BY DEF Now, State
<1>5. thread_status[t] \in {"Running", "Finished"} /\ live[t] \in BOOLEAN
  BY <1>1 DEF Typed
<1>6. CASE FindThread(t)
  <2>1. path[t][1][1] = "FindThread" /\ thread_status' = thread_status /\ live' = live
    BY <1>6 DEF FindThread, At
  <2>2. v = Now(t) /\ \A w \in States : Leads(t, Now(t), path[t][1], w) => w = v
    BY <1>3, <2>1, KindsDiffer
  <2>3. thread_status' = [thread_status EXCEPT ![t] = thread_status[t]] /\ live' = [live EXCEPT ![t] = live[t]]
    BY <1>1, <2>1 DEF Typed
  <2>4. v = State(locked[t], thread_status[t] = "Running", live[t])
    BY <1>4, <2>2
  <2>5. Quiet(t, thread_status[t], live[t])
    BY <1>2, <1>5, <2>1, <2>2, <2>3, <2>4 DEF Quiet
  <2> QED BY <2>5, QuietStep
<1>7. CASE SetStatus(t)
  <2> DEFINE run == IF path[t][1][1] = "finish" THEN "Finished" ELSE "Running"
  <2>1. /\ path[t][1][1] \in {"finish", "start"} /\ live' = live
        /\ thread_status' = [thread_status EXCEPT ![t] = run]
    BY <1>7 DEF SetStatus
  <2>2. /\ Has(Now(t), ThreadMtx) /\ v = State(Now(t).held, path[t][1][1] = "start", Now(t).live)
        /\ \A w \in States : Leads(t, Now(t), path[t][1], w) => w = v
    BY <1>3, <2>1, KindsDiffer
  <2>3. run \in {"Running", "Finished"} /\ (run = "Running") = (path[t][1][1] = "start")
    BY <2>1
  <2>4. live' = [live EXCEPT ![t] = live[t]]
    BY <1>1, <2>1 DEF Typed
  <2>5. ThreadMtx \in ToSet(locked[t]) /\ v = State(locked[t], run = "Running", live[t])
    BY <1>4, <2>2, <2>3 DEF Has
  <2> HIDE DEF run
  <2>6. Quiet(t, run, live[t])
    BY <1>2, <1>5, <2>1, <2>2, <2>3, <2>4, <2>5 DEF Quiet
  <2> QED BY <2>6, QuietStep
<1>8. CASE SetState(t)
  <2> DEFINE alive == path[t][1][1] = "construct"
  <2>1. /\ path[t][1][1] \in {"destroy", "construct"} /\ thread_status' = thread_status
        /\ live' = [live EXCEPT ![t] = alive]
    BY <1>8 DEF SetState
  <2>2. /\ Has(Now(t), ThreadMtx) /\ v = State(Now(t).held, Now(t).run, alive)
        /\ \A w \in States : Leads(t, Now(t), path[t][1], w) => w = v
    BY <1>3, <2>1, KindsDiffer
  <2>3. alive \in BOOLEAN
    OBVIOUS
  <2>4. thread_status' = [thread_status EXCEPT ![t] = thread_status[t]]
    BY <1>1, <2>1 DEF Typed
  <2>5. ThreadMtx \in ToSet(locked[t]) /\ v = State(locked[t], thread_status[t] = "Running", alive)
    BY <1>4, <2>2 DEF Has
  <2> HIDE DEF alive
  <2>6. Quiet(t, thread_status[t], alive)
    BY <1>2, <1>5, <2>1, <2>2, <2>3, <2>4, <2>5 DEF Quiet
  <2> QED BY <2>6, QuietStep
<1> QED BY <1>6, <1>7, <1>8

\* A sequence without one of its elements.
LEMMA Removed ==
  ASSUME NEW S, NEW h \in Seq(S), IsInjective(h), NEW i \in DOMAIN h
  PROVE  /\ RemoveAt(h, i) \in Seq(S) /\ IsInjective(RemoveAt(h, i))
         /\ ToSet(RemoveAt(h, i)) = ToSet(h) \ {h[i]}
<1> DEFINE n == Len(h)
           a == SubSeq(h, 1, i - 1)
           b == SubSeq(h, i + 1, n)
           o == a \o b
<1>1. n \in Nat /\ i \in 1 .. n /\ DOMAIN h = 1 .. n
  OBVIOUS
<1>2. /\ a \in Seq(S) /\ Len(a) = i - 1 /\ \A j \in 1 .. i - 1 : a[j] = h[j]
  BY <1>1
<1>3. /\ b \in Seq(S) /\ Len(b) = n - i /\ \A j \in 1 .. n - i : b[j] = h[i + j]
  <2>1. b \in Seq(S) /\ Len(b) = n - i
    BY <1>1
  <2>2. \A j \in 1 .. n - i : b[j] = h[(i + 1 + j) - 1]
    BY <1>1
  <2>3. \A j \in 1 .. n - i : (i + 1 + j) - 1 = i + j
    BY <1>1
  <2> QED BY <2>1, <2>2, <2>3
<1> HIDE DEF a, b
<1>4. /\ o \in Seq(S) /\ Len(o) = n - 1 /\ DOMAIN o = 1 .. n - 1
      /\ \A j \in 1 .. i - 1 : o[j] = h[j]
      /\ \A j \in 1 .. n - i : o[(i - 1) + j] = h[i + j]
  <2>1. o \in Seq(S) /\ Len(o) = Len(a) + Len(b)
    BY <1>2, <1>3, ConcatProperties
  <2>2. Len(o) = n - 1 /\ DOMAIN o = 1 .. n - 1
    <3>1. (i - 1) + (n - i) = n - 1
      BY <1>1
    <3>2. Len(o) = n - 1
      BY <1>2, <1>3, <2>1, <3>1
    <3> HIDE DEF o
    <3> QED BY <2>1, <3>2
  <2>3. \A j \in 1 .. Len(a) : o[j] = a[j]
    BY <1>2, <1>3
  <2>4. \A j \in 1 .. Len(b) : o[Len(a) + j] = b[j]
    BY <1>2, <1>3
  <2>5. \A j \in 1 .. i - 1 : o[j] = h[j]
    BY <1>2, <2>3
  <2>6. \A j \in 1 .. n - i : o[(i - 1) + j] = h[i + j]
    BY <1>2, <1>3, <2>4
  <2> QED BY <2>1, <2>2, <2>5, <2>6
<1> HIDE DEF o
<1> DEFINE At1(j) == IF j < i THEN j ELSE j + 1
<1>5. \A j \in 1 .. n - 1 : o[j] = h[At1(j)] /\ At1(j) \in (1 .. n) \ {i}
  <2> SUFFICES ASSUME NEW j \in 1 .. n - 1 PROVE o[j] = h[At1(j)] /\ At1(j) \in (1 .. n) \ {i}
    OBVIOUS
  <2>1. CASE j < i
    BY <1>1, <1>4, <2>1
  <2>2. CASE j >= i
    <3>1. (j - i) + 1 \in 1 .. n - i /\ (i - 1) + ((j - i) + 1) = j /\ i + ((j - i) + 1) = j + 1
      BY <1>1, <2>2
    <3>2. o[(i - 1) + ((j - i) + 1)] = h[i + ((j - i) + 1)]
      BY <1>4, <3>1
    <3> QED BY <1>1, <2>2, <3>1, <3>2
  <2> QED BY <1>1, <2>1, <2>2
<1>6. \A j, k \in 1 .. n - 1 : At1(j) = At1(k) => j = k
  BY <1>1
<1>7. \A k \in (1 .. n) \ {i} : \E j \in 1 .. n - 1 : At1(j) = k
  <2> SUFFICES ASSUME NEW k \in (1 .. n) \ {i} PROVE \E j \in 1 .. n - 1 : At1(j) = k
    OBVIOUS
  <2>1. CASE k < i
    BY <1>1, <2>1
  <2>2. CASE k > i
    <3>1. k - 1 \in 1 .. n - 1 /\ At1(k - 1) = k
      BY <1>1, <2>2
    <3> QED BY <3>1
  <2> QED BY <1>1, <2>1, <2>2
<1> HIDE DEF At1
<1>8. \A j, k \in 1 .. n : h[j] = h[k] => j = k
  BY <1>1 DEF IsInjective
<1>9. IsInjective(o)
  BY <1>4, <1>5, <1>6, <1>8 DEF IsInjective
<1>10. ToSet(o) = ToSet(h) \ {h[i]}
  <2>1. \A x \in ToSet(o) : x \in ToSet(h) /\ x # h[i]
    BY <1>1, <1>4, <1>5, <1>8 DEF ToSet
  <2>2. \A x \in ToSet(h) \ {h[i]} : x \in ToSet(o)
    <3> SUFFICES ASSUME NEW x \in ToSet(h) \ {h[i]} PROVE x \in ToSet(o)
      OBVIOUS
    <3>1. PICK k \in (1 .. n) \ {i} : x = h[k]
      BY <1>1 DEF ToSet
    <3>2. PICK j \in 1 .. n - 1 : At1(j) = k
      BY <1>7, <3>1
    <3> QED BY <1>4, <1>5, <3>1, <3>2 DEF ToSet
  <2> QED BY <2>1, <2>2
<1> QED BY <1>4, <1>9, <1>10 DEF RemoveAt, o, a, b

\* A sequence with one element more.
LEMMA Added ==
  ASSUME NEW S, NEW h \in Seq(S), IsInjective(h), NEW m \in S, m \notin ToSet(h)
  PROVE  /\ Append(h, m) \in Seq(S) /\ IsInjective(Append(h, m))
         /\ ToSet(Append(h, m)) = ToSet(h) \cup {m}
<1> DEFINE o == Append(h, m)
<1>1. /\ o \in Seq(S) /\ DOMAIN o = 1 .. Len(h) + 1 /\ DOMAIN h = 1 .. Len(h) /\ Len(h) \in Nat
      /\ o[Len(h) + 1] = m /\ \A i \in 1 .. Len(h) : o[i] = h[i]
  OBVIOUS
<1> HIDE DEF o
<1>2. \A i \in 1 .. Len(h) + 1 : i \in 1 .. Len(h) \/ i = Len(h) + 1
  BY <1>1
<1>3. \A i \in 1 .. Len(h) : h[i] # m /\ \A j \in 1 .. Len(h) : h[i] = h[j] => i = j
  BY <1>1 DEF ToSet, IsInjective
<1>4. IsInjective(o)
  BY <1>1, <1>2, <1>3 DEF IsInjective
<1>5. ToSet(o) = ToSet(h) \cup {m}
  <2>1. \A x \in ToSet(o) : x \in ToSet(h) \cup {m}
    BY <1>1, <1>2 DEF ToSet
  <2>2. \A i \in 1 .. Len(h) : i \in 1 .. Len(h) + 1
    BY <1>1
  <2>3. Len(h) + 1 \in 1 .. Len(h) + 1
    BY <1>1
  <2>4. \A x \in ToSet(h) \cup {m} : x \in ToSet(o)
    BY <1>1, <2>2, <2>3 DEF ToSet
  <2> QED BY <2>1, <2>4
<1> QED BY <1>1, <1>4, <1>5 DEF o

LEMMA LockStep ==
  ASSUME Inv, NEW t \in Tids, LockMutex(t)
  PROVE  Inv'
<1>1. Typed /\ StatusFits(t) /\ LockedOnce /\ HeadIsSafe(t)
  BY DEF Inv
<1>2. /\ path[t] # << >> /\ path[t][1][1] = "lock" /\ Holders(path[t][1][2]) = {}
      /\ path' = [path EXCEPT ![t] = Tail(@)] /\ thread_status' = thread_status /\ live' = live
      /\ locked' = [locked EXCEPT ![t] = Append(@, path[t][1][2])]
  BY DEF LockMutex, At, Done
<1>3. PICK v \in States, r \in States :
        /\ Leads(t, Now(t), path[t][1], v) /\ Rest(t, Tail(path[t]), v, r) /\ r.held = << >> /\ r.run = r.live
        /\ path[t] \in Seq(Steps) /\ Tail(path[t]) \in Seq(Steps) /\ GoesOn(path[t], 1)
        /\ Tail(path[t]) # << >> <=> Len(path[t]) > 1
        /\ Len(path[t]) > 1 => Tail(path[t])[1] = path[t][2] /\ ComesFrom(t, path[t], 2)
        /\ Now(t).held = locked[t] /\ Now(t).run = (thread_status[t] = "Running") /\ Now(t).live = live[t]
  BY <1>2, HeadLeads
<1>4. PICK m \in Mutexes :
        /\ path[t][1] = <<"lock", m>> /\ MayLock(Now(t), m)
        /\ v = State(Append(Now(t).held, m), Now(t).run, Now(t).live)
  BY <1>2, <1>3, KindsDiffer
<1>5. path[t][1][2] = m
  BY <1>4
<1>6. locked[t] \in Seq(Mutexes) /\ IsInjective(locked[t]) /\ m \notin ToSet(locked[t])
      /\ \A u \in Tids : m \notin ToSet(locked[u])
  BY <1>1, <1>2, <1>5 DEF Typed, LockedOnce, Holders
<1>7. locked'[t] = Append(locked[t], m) /\ path'[t] = Tail(path[t])
  BY <1>1, <1>2, <1>5 DEF Typed
<1>8. locked'[t] \in Seq(Mutexes) /\ IsInjective(locked'[t]) /\ ToSet(locked'[t]) = ToSet(locked[t]) \cup {m}
  BY <1>6, <1>7, Added
<1>9. /\ path' \in [Tids -> Seq(Steps)] /\ locked' \in [Tids -> Seq(Mutexes)]
      /\ thread_status' \in [Tids -> {"Running", "Finished"}] /\ live' \in [Tids -> BOOLEAN]
      /\ \A u \in Tids \ {t} : /\ path'[u] = path[u] /\ locked'[u] = locked[u]
                               /\ thread_status'[u] = thread_status[u] /\ live'[u] = live[u]
  <2>1. path' \in [Tids -> Seq(Steps)] /\ \A u \in Tids \ {t} : path'[u] = path[u]
    BY <1>1, <1>2, <1>3 DEF Typed
  <2>2. \A u \in Tids \ {t} : locked'[u] = locked[u]
    BY <1>1, <1>2 DEF Typed
  <2>3. locked' \in [Tids -> Seq(Mutexes)]
    BY <1>1, <1>2, <1>7, <1>8 DEF Typed
  <2> QED BY <1>1, <1>2, <2>1, <2>2, <2>3 DEF Typed
<1>10. PathFits(t)'
  <2>1. Now(t)' = v
    BY <1>2, <1>3, <1>4, <1>7 DEF Now
  <2>2. Rest(t, path'[t], Now(t)', r)
    BY <1>3, <1>7, <2>1
  <2> QED BY <1>3, <2>2 DEF PathFits, Rest, Passes, Leads
<1>11. TracesFit(t)'
  <2> SUFFICES ASSUME NEW u \in Tids, TraceMtx(u) \in ToSet(locked'[t])
               PROVE  path'[t] # << >> /\ path'[t][1] = <<"unlock", TraceMtx(u)>>
    BY DEF TracesFit
  <2>1. TraceMtx(u) \notin ToSet(locked[t])
    BY <1>2, NoTraceHeld
  <2>2. path[t][1] = <<"lock", TraceMtx(u)>>
    BY <1>4, <1>8, <2>1
  <2>3. 1 < Len(path[t]) /\ path[t][2] = <<"unlock", TraceMtx(u)>>
    <3>1. 1 + 1 = 2
      OBVIOUS
    <3> QED BY <1>3, <2>2, <3>1 DEF GoesOn
  <2>4. Len(path[t]) > 1
    BY <1>3, <2>3
  <2> QED BY <1>3, <1>7, <2>3, <2>4
<1>12. HeadIsSafe(t)'
  <2> SUFFICES ASSUME NEW u \in Tids \ {t}, path'[t] # << >>,
                      path'[t][1] \in {<<"lock", TraceMtx(u)>>, <<"unlock", TraceMtx(u)>>},
                      ~report_destroy_locked
               PROVE  ThreadMtx \in ToSet(locked'[t]) /\ live'[u]
    BY DEF HeadIsSafe
  <2>1. Len(path[t]) > 1 /\ path'[t][1] = path[t][2] /\ ComesFrom(t, path[t], 2)
    BY <1>3, <1>7
  <2>2. 2 - 1 = 1 /\ path[t][1] # <<"pick", u>>
    BY <1>4
  <2>3. path[t][2] = <<"unlock", TraceMtx(u)>>
    BY <2>1, <2>2 DEF ComesFrom
  <2>4. path[t][1] = <<"lock", TraceMtx(u)>>
    BY <2>1, <2>2, <2>3 DEF ComesFrom
  <2>5. ThreadMtx \in ToSet(locked[t]) /\ live[u]
    BY <1>1, <1>2, <2>4 DEF HeadIsSafe
  <2> QED BY <1>2, <1>8, <2>5
<1>13. StatusFits(t)'
  BY <1>1, <1>2, <1>8 DEF StatusFits
<1>14. \A u \in Tids \ {t} : (ToSet(locked'[t]) \ ToSet(locked[t])) \cap ToSet(locked[u]) = {}
  BY <1>6, <1>8
<1>15. live'[t] = live[t]
  BY <1>2
<1> QED BY <1>8, <1>9, <1>10, <1>11, <1>12, <1>13, <1>14, <1>15, OneMoves

LEMMA UnlockStep ==
  ASSUME Inv, NEW t \in Tids, UnlockMutex(t)
  PROVE  Inv'
<1>1. Typed /\ StatusFits(t) /\ LockedOnce /\ TracesFit(t)
  BY DEF Inv
<1>2. /\ path[t] # << >> /\ path[t][1][1] = "unlock"
      /\ path' = [path EXCEPT ![t] = Tail(@)] /\ thread_status' = thread_status /\ live' = live
  BY DEF UnlockMutex, At, Done
<1>3. PICK v \in States, r \in States :
        /\ Leads(t, Now(t), path[t][1], v) /\ Rest(t, Tail(path[t]), v, r) /\ r.held = << >> /\ r.run = r.live
        /\ path[t] \in Seq(Steps) /\ Tail(path[t]) \in Seq(Steps)
        /\ Tail(path[t]) # << >> <=> Len(path[t]) > 1
        /\ Len(path[t]) > 1 => Tail(path[t])[1] = path[t][2] /\ ComesFrom(t, path[t], 2)
        /\ Now(t).held = locked[t] /\ Now(t).run = (thread_status[t] = "Running") /\ Now(t).live = live[t]
  BY <1>2, HeadLeads
<1>4. PICK m \in Mutexes, i \in DOMAIN Now(t).held :
        /\ path[t][1] = <<"unlock", m>> /\ Now(t).held[i] = m /\ (m = ThreadMtx => Now(t).run = Now(t).live)
        /\ v = State(RemoveAt(Now(t).held, i), Now(t).run, Now(t).live)
  BY <1>2, <1>3, KindsDiffer
<1>5. /\ path[t][1][2] = m /\ i \in DOMAIN locked[t] /\ locked[t][i] = m
      /\ locked[t] \in Seq(Mutexes) /\ IsInjective(locked[t])
  BY <1>1, <1>3, <1>4 DEF Typed, LockedOnce
<1>6. PICK j \in DOMAIN locked[t] :
        locked[t][j] = path[t][1][2] /\ locked' = [locked EXCEPT ![t] = RemoveAt(@, j)]
  BY DEF UnlockMutex
<1>7. j = i
  BY <1>5, <1>6 DEF IsInjective
<1>8. locked'[t] = RemoveAt(locked[t], i) /\ path'[t] = Tail(path[t])
  BY <1>1, <1>2, <1>6, <1>7 DEF Typed
<1>9. /\ locked'[t] \in Seq(Mutexes) /\ IsInjective(locked'[t])
      /\ ToSet(locked'[t]) = ToSet(locked[t]) \ {m}
  BY <1>5, <1>8, Removed
<1>10. /\ path' \in [Tids -> Seq(Steps)] /\ locked' \in [Tids -> Seq(Mutexes)]
       /\ thread_status' \in [Tids -> {"Running", "Finished"}] /\ live' \in [Tids -> BOOLEAN]
       /\ \A u \in Tids \ {t} : /\ path'[u] = path[u] /\ locked'[u] = locked[u]
                                /\ thread_status'[u] = thread_status[u] /\ live'[u] = live[u]
  <2>1. path' \in [Tids -> Seq(Steps)] /\ \A u \in Tids \ {t} : path'[u] = path[u]
    BY <1>1, <1>2, <1>3 DEF Typed
  <2>2. \A u \in Tids \ {t} : locked'[u] = locked[u]
    BY <1>1, <1>6 DEF Typed
  <2>3. locked' \in [Tids -> Seq(Mutexes)]
    BY <1>1, <1>6, <1>8, <1>9 DEF Typed
  <2> QED BY <1>1, <1>2, <2>1, <2>2, <2>3 DEF Typed
<1>11. PathFits(t)'
  <2>1. Now(t)' = v
    BY <1>2, <1>3, <1>4, <1>8 DEF Now
  <2>2. Rest(t, path'[t], Now(t)', r)
    BY <1>3, <1>8, <2>1
  <2> QED BY <1>3, <2>2 DEF PathFits, Rest, Passes, Leads
<1>12. TracesFit(t)'
  <2> SUFFICES ASSUME NEW u \in Tids, TraceMtx(u) \in ToSet(locked'[t])
               PROVE  FALSE
    BY DEF TracesFit
  <2>1. TraceMtx(u) \in ToSet(locked[t]) /\ TraceMtx(u) # m
    BY <1>9
  <2>2. path[t][1] = <<"unlock", TraceMtx(u)>>
    BY <1>1, <2>1 DEF TracesFit
  <2> QED BY <1>4, <2>1, <2>2
<1>13. HeadIsSafe(t)'
  <2> SUFFICES ASSUME NEW u \in Tids \ {t}, path'[t] # << >>,
                      path'[t][1] \in {<<"lock", TraceMtx(u)>>, <<"unlock", TraceMtx(u)>>}
               PROVE  FALSE
    BY DEF HeadIsSafe
  <2>1. Len(path[t]) > 1 /\ path'[t][1] = path[t][2] /\ ComesFrom(t, path[t], 2)
    BY <1>3, <1>8
  <2>2. 2 - 1 = 1 /\ path[t][1] # <<"pick", u>> /\ path[t][1] # <<"lock", TraceMtx(u)>>
    BY <1>4
  <2> QED BY <2>1, <2>2 DEF ComesFrom
<1>14. StatusFits(t)'
  <2>1. m = ThreadMtx => (thread_status[t] = "Running" <=> live[t])
    BY <1>1, <1>3, <1>4 DEF Typed
  <2>2. m # ThreadMtx => (ThreadMtx \in ToSet(locked'[t]) <=> ThreadMtx \in ToSet(locked[t]))
    BY <1>9
  <2> QED BY <1>1, <1>2, <2>1, <2>2 DEF StatusFits
<1>15. \A u \in Tids \ {t} : (ToSet(locked'[t]) \ ToSet(locked[t])) \cap ToSet(locked[u]) = {}
  BY <1>9
<1>16. live'[t] = live[t]
  BY <1>2
<1> QED BY <1>9, <1>10, <1>11, <1>12, <1>13, <1>14, <1>15, <1>16, OneMoves

\* Three steps less.
LEMMA ThreeLess ==
  ASSUME NEW S, NEW p \in Seq(S), Len(p) > 2
  PROVE  SubSeq(p, 4, Len(p)) = Tail(Tail(Tail(p)))
<1> DEFINE n == Len(p)
           a == Tail(p)
           b == Tail(a)
           c == Tail(b)
           o == SubSeq(p, 4, n)
<1>1. n \in Nat /\ n > 2
  OBVIOUS
<1>2. a \in Seq(S) /\ Len(a) = n - 1 /\ \A i \in 1 .. n - 1 : a[i] = p[i + 1]
  BY <1>1
<1> HIDE DEF a
<1>3. b \in Seq(S) /\ Len(b) = n - 2 /\ \A i \in 1 .. n - 2 : b[i] = a[i + 1]
  BY <1>1, <1>2
<1> HIDE DEF b
<1>4. c \in Seq(S) /\ Len(c) = n - 3 /\ \A i \in 1 .. n - 3 : c[i] = b[i + 1]
  BY <1>1, <1>3
<1> HIDE DEF c
<1>5. \A i \in 1 .. n - 3 : c[i] = p[i + 3]
  <2> SUFFICES ASSUME NEW i \in 1 .. n - 3 PROVE c[i] = p[i + 3]
    OBVIOUS
  <2>1. i + 1 \in 1 .. n - 2 /\ (i + 1) + 1 \in 1 .. n - 1 /\ ((i + 1) + 1) + 1 = i + 3
    BY <1>1
  <2> QED BY <1>2, <1>3, <1>4, <2>1
<1>6. o \in Seq(S) /\ Len(o) = n - 3
  <2>1. \A i \in 4 .. n : p[i] \in S
    BY <1>1
  <2>2. o \in Seq(S) /\ Len(o) = (IF 4 <= n THEN n - 4 + 1 ELSE 0)
    BY <1>1, <2>1, SubSeqProperties
  <2>3. (IF 4 <= n THEN n - 4 + 1 ELSE 0) = n - 3
    <3> HIDE DEF n
    <3>1. CASE n = 3
      BY <3>1
    <3>2. CASE n > 3
      <4>1. 4 <= n /\ (n - 4) + 1 = n - 3
        BY <1>1, <3>2
      <4> QED BY <4>1
    <3> QED BY <1>1, <3>1, <3>2
  <2> QED BY <2>2, <2>3
<1>7. \A i \in 1 .. n - 3 : o[i] = p[i + 3]
  <2>1. \A i \in 1 .. n - 3 : o[i] = p[(4 + i) - 1]
    BY <1>1
  <2>2. \A i \in 1 .. n - 3 : (4 + i) - 1 = i + 3
    OBVIOUS
  <2> QED BY <2>1, <2>2
<1> HIDE DEF o
<1>8. o = c
  <2>1. \A i \in 1 .. Len(o) : o[i] = c[i]
    BY <1>5, <1>6, <1>7
  <2> QED BY <1>4, <1>6, <2>1, SeqEqual
<1> QED BY <1>8 DEF o, a, b, c

\* A mutex that may be locked is not locked.
LEMMA NotYet ==
  ASSUME NEW s \in States, NEW m, MayLock(s, m), NEW i \in DOMAIN Append(s.held, m), Append(s.held, m)[i] = m
  PROVE  i = Len(s.held) + 1
<1>1. /\ s.held \in Seq(Mutexes) /\ Len(s.held) \in Nat /\ DOMAIN s.held = 1 .. Len(s.held)
      /\ DOMAIN Append(s.held, m) = 1 .. Len(s.held) + 1
      /\ \A j \in 1 .. Len(s.held) : Append(s.held, m)[j] = s.held[j] /\ s.held[j] \in Mutexes
  BY DEF States
<1>2. \A j \in 1 .. Len(s.held) : s.held[j] # m
  <2>1. \A j \in 1 .. Len(s.held) : Rank(s.held[j]) < Rank(m) /\ Rank(s.held[j]) \in 1 .. 6
    BY <1>1, RanksAreNumbers DEF MayLock
  <2> QED BY <2>1
<1> QED BY <1>1, <1>2

\* A trace that is picked is locked, unlocked, and left.
LEMMA PickedPath ==
  ASSUME Inv, NEW t \in Tids, NEW u \in Tids, path[t] # << >>, path[t][1] = <<"pick", u>>
  PROVE  /\ \E r \in States : /\ r.held = << >> /\ r.run = r.live
                              /\ Rest(t, Tail(path[t]), Now(t), r)
                              /\ Rest(t, Tail(Tail(Tail(path[t]))), Now(t), r)
         /\ Has(Now(t), ThreadMtx) \/ report_destroy_locked
         /\ Tail(path[t]) \in Seq(Steps) /\ Tail(Tail(Tail(path[t]))) \in Seq(Steps)
         /\ Tail(path[t])[1] = <<"lock", TraceMtx(u)>> /\ Len(path[t]) > 2
         /\ Tail(Tail(Tail(path[t]))) # << >> => \A w \in Tids \ {t} :
              Tail(Tail(Tail(path[t])))[1] \notin {<<"lock", TraceMtx(w)>>, <<"unlock", TraceMtx(w)>>}
<1> DEFINE p == path[t]
           q == Tail(p)
           o == Tail(q)
           e == Tail(o)
<1>0. p # << >> /\ p[1] = <<"pick", u>> /\ p[1][1] = "pick" /\ p[1][2] = u
  OBVIOUS
<1>1. PICK v1 \in States, r \in States :
        /\ Leads(t, Now(t), p[1], v1) /\ Rest(t, q, v1, r) /\ r.held = << >> /\ r.run = r.live
        /\ p \in Seq(Steps) /\ q \in Seq(Steps) /\ GoesOn(p, 1) /\ Len(p) \in Nat /\ Len(p) > 0
        /\ q # << >> <=> Len(p) > 1
        /\ Len(p) > 1 => q[1] = p[2]
        /\ Now(t) \in States
  BY HeadLeads
<1>2. v1 = Now(t) /\ (Has(Now(t), ThreadMtx) \/ report_destroy_locked)
  BY <1>0, <1>1, KindsDiffer
<1>3. 1 < Len(p) /\ p[2] = <<"lock", TraceMtx(u)>>
  <2>1. 1 + 1 = 2
    OBVIOUS
  <2> QED BY <1>0, <1>1, <2>1 DEF GoesOn
<1>4. q # << >> /\ q[1] = <<"lock", TraceMtx(u)>> /\ q[1][1] = "lock"
  BY <1>1, <1>3
<1> HIDE DEF p, q, o, e
<1>5. Rest(t, q, Now(t), r)
  BY <1>1, <1>2
<1>6. PICK v2 \in States :
        /\ Leads(t, Now(t), q[1], v2) /\ Rest(t, o, v2, r) /\ GoesOn(q, 1) /\ Len(q) \in Nat
        /\ o # << >> <=> Len(q) > 1
        /\ Len(q) > 1 => o[1] = q[2]
  BY <1>4, <1>5, RestStep DEF o
<1>7. MayLock(Now(t), TraceMtx(u)) /\ v2 = State(Append(Now(t).held, TraceMtx(u)), Now(t).run, Now(t).live)
  <2>1. PICK m \in Mutexes :
          /\ q[1] = <<"lock", m>> /\ MayLock(Now(t), m)
          /\ v2 = State(Append(Now(t).held, m), Now(t).run, Now(t).live)
    BY <1>4, <1>6, KindsDiffer
  <2>2. m = TraceMtx(u)
    BY <1>4, <2>1
  <2> QED BY <2>1, <2>2
<1>8. 1 < Len(q) /\ q[2] = <<"unlock", TraceMtx(u)>>
  <2>1. 1 + 1 = 2
    OBVIOUS
  <2> QED BY <1>4, <1>6, <2>1 DEF GoesOn
<1>9. o # << >> /\ o[1] = <<"unlock", TraceMtx(u)>> /\ o[1][1] = "unlock"
  BY <1>6, <1>8
<1>10. PICK v3 \in States :
        /\ Leads(t, v2, o[1], v3) /\ Rest(t, e, v3, r) /\ e \in Seq(Steps)
        /\ e # << >> <=> Len(o) > 1
        /\ Len(o) > 1 => e[1] = o[2] /\ ComesFrom(t, o, 2)
  BY <1>6, <1>9, RestStep DEF e
<1>11. v3 = Now(t)
  <2>1. PICK m \in Mutexes, i \in DOMAIN v2.held :
          /\ o[1] = <<"unlock", m>> /\ v2.held[i] = m
          /\ v3 = State(RemoveAt(v2.held, i), v2.run, v2.live)
    BY <1>9, <1>10, KindsDiffer
  <2>2. m = TraceMtx(u) /\ TraceMtx(u) \in Mutexes
    BY <1>9, <2>1, MutexesDiffer
  <2>3. /\ v2.held = Append(Now(t).held, TraceMtx(u)) /\ v2.run = Now(t).run /\ v2.live = Now(t).live
        /\ RemoveAt(v2.held, Len(Now(t).held) + 1) = Now(t).held
        /\ State(Now(t).held, Now(t).run, Now(t).live) = Now(t)
    BY <1>1, <1>7, <2>2, StatesOfMutex
  <2>4. i = Len(Now(t).held) + 1
    BY <1>1, <1>7, <2>1, <2>2, <2>3, NotYet
  <2> QED BY <2>1, <2>3, <2>4
<1>12. Len(p) > 2
  <2>1. Len(q) = Len(p) - 1
    BY <1>1, <1>3 DEF q
  <2> QED BY <1>1, <1>6, <1>8, <2>1
<1>13. e # << >> => \A w \in Tids \ {t} : e[1] \notin {<<"lock", TraceMtx(w)>>, <<"unlock", TraceMtx(w)>>}
  <2>1. 2 - 1 = 1 /\ \A w \in Tids : o[1] # <<"pick", w>> /\ o[1] # <<"lock", TraceMtx(w)>>
    BY <1>9
  <2> QED BY <1>10, <2>1 DEF ComesFrom
<1>14. Rest(t, e, Now(t), r)
  BY <1>10, <1>11
<1> QED BY <1>1, <1>2, <1>4, <1>5, <1>10, <1>12, <1>13, <1>14 DEF p, q, o, e

LEMMA PickStep ==
  ASSUME Inv, NEW t \in Tids, Pick(t)
  PROVE  Inv'
<1>1. Typed /\ StatusFits(t) /\ LockedOnce /\ \A w \in Tids : StatusFits(w)
  BY DEF Inv
<1>2. /\ path[t] # << >> /\ path[t][1][1] = "pick"
      /\ path' = [path EXCEPT ![t] = IF thread_status[path[t][1][2]] = "Running" THEN Tail(@)
                                     ELSE SubSeq(@, 4, Len(@))]
      /\ locked' = locked /\ thread_status' = thread_status /\ live' = live
  BY DEF Pick, At
<1>3. PICK u \in Tids : path[t][1] = <<"pick", u>>
  <2>1. \E v \in States : Leads(t, Now(t), path[t][1], v)
    BY <1>2, HeadLeads
  <2> QED BY <1>2, <2>1, KindsDiffer
<1> DEFINE e == Tail(Tail(Tail(path[t])))
<1>4. PICK r \in States :
        /\ r.held = << >> /\ r.run = r.live
        /\ Rest(t, Tail(path[t]), Now(t), r) /\ Rest(t, e, Now(t), r)
  BY <1>2, <1>3, PickedPath
<1>5. /\ Has(Now(t), ThreadMtx) \/ report_destroy_locked
      /\ Tail(path[t]) \in Seq(Steps) /\ e \in Seq(Steps)
      /\ Tail(path[t])[1] = <<"lock", TraceMtx(u)>> /\ Len(path[t]) > 2
      /\ e # << >> => \A w \in Tids \ {t} : e[1] \notin {<<"lock", TraceMtx(w)>>, <<"unlock", TraceMtx(w)>>}
  BY <1>2, <1>3, PickedPath
<1>6. SubSeq(path[t], 4, Len(path[t])) = e /\ path[t] \in Seq(Steps)
  <2>1. path[t] \in Seq(Steps)
    BY <1>1 DEF Typed
  <2> QED BY <1>5, <2>1, ThreeLess
<1> HIDE DEF e
<1>7. /\ \A w \in Tids \ {t} : path'[w] = path[w]
      /\ path'[t] = IF thread_status[u] = "Running" THEN Tail(path[t]) ELSE e
  <2>1. path[t][1][2] = u /\ path \in [Tids -> Seq(Steps)]
    BY <1>1, <1>3 DEF Typed
  <2> QED BY <1>2, <1>6, <2>1
<1>8. path' \in [Tids -> Seq(Steps)]
  <2>1. path'[t] \in Seq(Steps)
    BY <1>5, <1>7
  <2>2. \A w \in Tids : path'[w] \in Seq(Steps)
    BY <1>1, <1>7, <2>1 DEF Typed
  <2> QED BY <1>1, <1>2, <2>2 DEF Typed
<1>9. PathFits(t)'
  <2>1. Now(t)' = Now(t)
    BY <1>2 DEF Now
  <2>2. Rest(t, path'[t], Now(t)', r)
    BY <1>4, <1>7, <2>1
  <2> QED BY <1>4, <2>2 DEF PathFits, Rest, Passes, Leads
<1>10. TracesFit(t)'
  BY <1>2, NoTraceHeld DEF TracesFit
<1>11. HeadIsSafe(t)'
  <2> SUFFICES ASSUME NEW w \in Tids \ {t}, path'[t] # << >>,
                      path'[t][1] \in {<<"lock", TraceMtx(w)>>, <<"unlock", TraceMtx(w)>>},
                      ~report_destroy_locked
               PROVE  ThreadMtx \in ToSet(locked'[t]) /\ live'[w]
    BY DEF HeadIsSafe
  <2>1. thread_status[u] = "Running" /\ path'[t] = Tail(path[t])
    BY <1>5, <1>7
  <2>2. w = u
    BY <1>5, <2>1, MutexesDiffer
  <2>3. ThreadMtx \in ToSet(locked[t])
    BY <1>5 DEF Has, Now, State
  <2>4. ThreadMtx \notin ToSet(locked[u])
    BY <1>1, <2>2, <2>3 DEF LockedOnce
  <2> QED BY <1>1, <1>2, <2>1, <2>2, <2>3, <2>4 DEF StatusFits
<1>12. StatusFits(t)'
  BY <1>1, <1>2 DEF StatusFits
<1>13. IsInjective(locked'[t])
  BY <1>1, <1>2 DEF LockedOnce
<1>14. /\ \A w \in Tids \ {t} : (ToSet(locked'[t]) \ ToSet(locked[t])) \cap ToSet(locked[w]) = {}
       /\ live'[t] = live[t]
       /\ \A w \in Tids \ {t} : /\ path'[w] = path[w] /\ locked'[w] = locked[w]
                                /\ thread_status'[w] = thread_status[w] /\ live'[w] = live[w]
       /\ locked' \in [Tids -> Seq(Mutexes)]
       /\ thread_status' \in [Tids -> {"Running", "Finished"}] /\ live' \in [Tids -> BOOLEAN]
  BY <1>1, <1>2, <1>7 DEF Typed
<1> QED BY <1>8, <1>9, <1>10, <1>11, <1>12, <1>13, <1>14, OneMoves

LEMMA InvInit ==
  LocksInit => Inv
<1> SUFFICES ASSUME LocksInit PROVE Inv
  OBVIOUS
<1>1. \A t \in Tids : path[t] = << >> /\ locked[t] = << >> /\ thread_status[t] = "Running" /\ live[t] = TRUE
  BY DEF LocksInit
<1>2. Typed
  BY DEF LocksInit, Typed
<1>3. ToSet(<< >>) = {} /\ IsInjective(<< >>)
  BY DEF ToSet, IsInjective
<1>4. LockedOnce
  BY <1>1, <1>3 DEF LockedOnce
<1>5. ASSUME NEW t \in Tids PROVE PathFits(t)
  <2>1. Now(t) \in States /\ Now(t).held = << >> /\ Now(t).run = Now(t).live
    BY <1>1, <1>2, NowIsState DEF Now, State
  <2>2. Fragment(t, << >>, Now(t), Now(t))
    BY <2>1, Nothing
  <2>3. PICK f : /\ Passes(t, << >>, f) /\ f[0] = Now(t) /\ f[Len(<< >>)] = Now(t)
                 /\ \A i \in 1 .. Len(<< >>) : ComesFrom(t, << >>, i)
    BY <2>2 DEF Fragment
  <2>4. \A i \in 2 .. Len(<< >>) : ComesFrom(t, << >>, i)
    OBVIOUS
  <2>5. Rest(t, << >>, Now(t), Now(t))
    BY <2>3, <2>4 DEF Rest
  <2>6. Rest(t, path[t], Now(t), Now(t))
    BY <1>1, <2>5
  <2> QED BY <2>1, <2>6 DEF PathFits
<1>6. \A t \in Tids : StatusFits(t) /\ TracesFit(t) /\ HeadIsSafe(t)
  BY <1>1, <1>3 DEF StatusFits, TracesFit, HeadIsSafe
<1> QED BY <1>2, <1>4, <1>5, <1>6 DEF Inv

LEMMA InvNext ==
  Inv /\ [LocksNext]_lockVars => Inv'
<1> SUFFICES ASSUME Inv, [LocksNext]_lockVars PROVE Inv'
  OBVIOUS
<1>1. CASE UNCHANGED lockVars
  <2>1. path' = path /\ locked' = locked /\ thread_status' = thread_status /\ live' = live
    BY <1>1 DEF lockVars
  <2>2. \A t \in Tids : PathFits(t)'
    <3> SUFFICES ASSUME NEW t \in Tids PROVE PathFits(t)'
      OBVIOUS
    <3>1. PICK r \in States : Rest(t, path[t], Now(t), r) /\ r.held = << >> /\ r.run = r.live
      BY DEF Inv, PathFits
    <3>2. Now(t)' = Now(t)
      BY <2>1 DEF Now
    <3>3. Rest(t, path'[t], Now(t)', r)
      BY <2>1, <3>1, <3>2
    <3> QED BY <3>1, <3>3 DEF PathFits, Rest, Passes, Leads
  <2>3. Typed' /\ LockedOnce' /\ \A t \in Tids : StatusFits(t)' /\ TracesFit(t)' /\ HeadIsSafe(t)'
    BY <2>1 DEF Inv, Typed, LockedOnce, StatusFits, TracesFit, HeadIsSafe
  <2> QED BY <2>2, <2>3 DEF Inv
<1>2. CASE LocksNext
  <2>1. PICK t \in Tids : Call(t) \/ LockMutex(t) \/ UnlockMutex(t) \/ Pick(t) \/ FindThread(t)
                          \/ SetStatus(t) \/ SetState(t)
    BY <1>2 DEF LocksNext
  <2> QED BY <2>1, CallStep, LockStep, UnlockStep, PickStep, QuietSteps
<1> QED BY <1>1, <1>2

LEMMA InvHolds == LocksSpec => []Inv
BY InvInit, InvNext, PTL DEF LocksSpec

-----------------------------------------------------------------------------
(* What follows.                                                           *)

LEMMA TableHasNoCycle == TableIsAcyclic
<1> DEFINE Leaves == {"Trace", "Slab"}
<1>1. MutexTypes = {"Trace", "Threads", "Report", "SyncVar", "SyncTab", "Slab", "Annotations", "AtExit"}
  BY DEF MutexTypes, CanLockTab
<1>2. /\ \A x \in Leaves : CanLockTab[x] = {"Leaf"}
      /\ CanLockTab["Report"] = {} /\ CanLockTab["SyncVar"] = {} /\ CanLockTab["SyncTab"] = {"SyncVar"}
      /\ CanLockTab["Threads"] = {"Report"} /\ CanLockTab["AtExit"] = {"SyncTab"}
      /\ CanLockTab["Annotations"] = {}
  <2>1. CanLockTab["Trace"] = {"Leaf"} /\ CanLockTab["Slab"] = {"Leaf"} /\ CanLockTab["Annotations"] = {}
    BY DEF CanLockTab
  <2>2. CanLockTab["Report"] = {} /\ CanLockTab["SyncVar"] = {} /\ CanLockTab["SyncTab"] = {"SyncVar"}
    BY DEF CanLockTab
  <2>3. CanLockTab["Threads"] = {"Report"} /\ CanLockTab["AtExit"] = {"SyncTab"}
    BY DEF CanLockTab
  <2> QED BY <2>1, <2>2, <2>3
<1>3. \A x \in MutexTypes : IsLeaf(x) <=> x \in Leaves
  BY <1>1, <1>2 DEF IsLeaf
<1>4. \A x \in MutexTypes, y \in MutexTypes :
        CanLockAdj[<<x, y>>] <=> (y \in CanLockTab[x] \/ (IsLeaf(y) /\ ~IsLeaf(x) /\ x # y))
  BY DEF CanLockAdj
<1>5. \A x \in Leaves, y \in MutexTypes : ~CanLockAdj[<<x, y>>]
  BY <1>1, <1>2, <1>3, <1>4
<1>6. \A y \in MutexTypes \ Leaves :
        /\ ~CanLockAdj[<<"Report", y>>] /\ ~CanLockAdj[<<"SyncVar", y>>] /\ ~CanLockAdj[<<"Annotations", y>>]
        /\ y # "SyncVar" => ~CanLockAdj[<<"SyncTab", y>>]
        /\ y # "Report" => ~CanLockAdj[<<"Threads", y>>]
        /\ y # "SyncTab" => ~CanLockAdj[<<"AtExit", y>>]
  BY <1>1, <1>2, <1>3, <1>4
<1>7. ASSUME NEW S \in (SUBSET MutexTypes) \ {{}}
      PROVE  \E type \in S : \A other \in S : ~CanLockAdj[<<type, other>>]
  <2>1. CASE S \cap Leaves # {}
    BY <1>5, <2>1
  <2>2. CASE S \cap Leaves = {}
    <3>1. S \subseteq MutexTypes \ Leaves
      BY <2>2
    <3>2. CASE "Report" \in S
      BY <1>6, <3>1, <3>2
    <3>8. CASE "Annotations" \in S
      BY <1>6, <3>1, <3>8
    <3>3. CASE "SyncVar" \in S
      BY <1>6, <3>1, <3>3
    <3>4. CASE "SyncVar" \notin S /\ "SyncTab" \in S
      BY <1>6, <3>1, <3>4
    <3>5. CASE "Report" \notin S /\ "Threads" \in S
      BY <1>6, <3>1, <3>5
    <3>6. CASE "SyncTab" \notin S /\ "AtExit" \in S
      BY <1>6, <3>1, <3>6
    <3>7. \/ "Report" \in S \/ "SyncVar" \in S \/ "SyncTab" \in S \/ "Threads" \in S \/ "AtExit" \in S
          \/ "Annotations" \in S
      <4>1. PICK x \in S : TRUE
        OBVIOUS
      <4>2. x \in {"Threads", "Report", "SyncVar", "SyncTab", "AtExit", "Annotations"}
        BY <1>1, <3>1
      <4> QED BY <4>1, <4>2
    <3> QED BY <3>2, <3>3, <3>4, <3>5, <3>6, <3>7, <3>8
  <2> QED BY <2>1, <2>2
<1>8. \A type \in MutexTypes : IsLeaf(type) => CanLockTab[type] = {"Leaf"}
  BY <1>2, <1>3
<1> QED BY <1>7, <1>8 DEF TableIsAcyclic

\* What a thread that locks may lock.
LEMMA HeadMayLock ==
  ASSUME Inv, NEW t \in Tids, At(t, "lock")
  PROVE  /\ path[t][1][2] \in Mutexes /\ LockIsAllowed(locked[t], path[t][1][2])
         /\ \A m \in ToSet(locked[t]) : m \in Mutexes /\ Rank(m) < Rank(path[t][1][2])
<1>1. path[t] # << >> /\ path[t][1][1] = "lock"
  BY DEF At
<1>2. PICK v : Leads(t, Now(t), path[t][1], v)
  BY <1>1, HeadLeads
<1>3. PICK m \in Mutexes : path[t][1] = <<"lock", m>> /\ MayLock(Now(t), m)
  BY <1>1, <1>2, KindsDiffer
<1>4. path[t][1][2] = m /\ Now(t).held = locked[t] /\ locked[t] \in Seq(Mutexes)
  BY <1>3 DEF Now, State, Inv, Typed
<1>5. \A l \in ToSet(locked[t]) : \E i \in DOMAIN locked[t] : locked[t][i] = l
  BY DEF ToSet
<1>6. \A i \in DOMAIN locked[t] : locked[t][i] \in Mutexes
  BY <1>4
<1> QED BY <1>3, <1>4, <1>5, <1>6 DEF MayLock

LEMMA NestingFollows == Inv => NestingIsAllowed
BY HeadMayLock DEF NestingIsAllowed

LEMMA CircleFollows == Inv => NobodyWaitsInACircle
<1> SUFFICES ASSUME Inv, NEW S \in (SUBSET Tids) \ {{}},
                    \A t \in S : At(t, "lock") /\ Holders(path[t][1][2]) \cap S # {}
             PROVE  FALSE
  BY DEF NobodyWaitsInACircle
<1> DEFINE R == [t \in S |-> Rank(path[t][1][2])]
<1>1. R \in [S -> 1 .. 6]
  BY HeadMayLock, RanksAreNumbers
<1>2. \A t \in S : \E u \in S : R[t] < R[u]
  <2> SUFFICES ASSUME NEW t \in S PROVE \E u \in S : R[t] < R[u]
    OBVIOUS
  <2>1. PICK u \in S : path[t][1][2] \in ToSet(locked[u])
    BY DEF Holders
  <2>2. Rank(path[t][1][2]) < Rank(path[u][1][2])
    BY <2>1, HeadMayLock
  <2> QED BY <2>2
<1> HIDE DEF R
<1>3. \E t \in S : R[t] >= 1
  BY <1>1
<1>4. ASSUME NEW k \in 1 .. 6, \E t \in S : R[t] >= k
      PROVE  \E t \in S : R[t] >= k + 1
  <2>1. PICK t \in S : R[t] >= k
    BY <1>4
  <2>2. PICK u \in S : R[t] < R[u]
    BY <1>2
  <2>3. R[t] \in 1 .. 6 /\ R[u] \in 1 .. 6
    BY <1>1, <2>1, <2>2
  <2>4. R[u] >= k + 1
    BY <2>1, <2>2, <2>3
  <2> QED BY <2>2, <2>4
<1>5. \E t \in S : R[t] >= 2
  BY <1>3, <1>4
<1>6. \E t \in S : R[t] >= 3
  BY <1>4, <1>5
<1>7. \E t \in S : R[t] >= 4
  BY <1>4, <1>6
<1>8. \E t \in S : R[t] >= 5
  BY <1>4, <1>7
<1>9. \E t \in S : R[t] >= 6
  BY <1>4, <1>8
<1>10. \E t \in S : R[t] >= 7
  BY <1>4, <1>9
<1>11. \A t \in S : R[t] \in 1 .. 6
  BY <1>1
<1> QED BY <1>10, <1>11

LEMMA TracesFollow ==
  ASSUME ~report_destroy_locked
  PROVE  Inv => PickedTraceIsAlive
<1> SUFFICES ASSUME Inv PROVE PickedTraceIsAlive
  OBVIOUS
<1>1. ASSUME NEW t \in Tids, NEW u \in Tids, path[t] # << >>,
             path[t][1] \in {<<"lock", TraceMtx(u)>>, <<"unlock", TraceMtx(u)>>}
      PROVE  live[u]
  <2>1. CASE u # t
    BY <1>1, <2>1 DEF Inv, HeadIsSafe
  <2>2. CASE u = t
    <3>1. PICK v : Leads(t, Now(t), path[t][1], v)
      BY <1>1, HeadLeads
    <3>2. Now(t).live
      <4>1. CASE path[t][1] = <<"lock", TraceMtx(u)>>
        <5>1. PICK m \in Mutexes : path[t][1] = <<"lock", m>> /\ (m = TraceMtx(t) => Now(t).live)
          BY <3>1, <4>1, KindsDiffer
        <5> QED BY <2>2, <4>1, <5>1
      <4>2. CASE path[t][1] = <<"unlock", TraceMtx(u)>>
        <5>1. PICK m \in Mutexes : path[t][1] = <<"unlock", m>> /\ (m = TraceMtx(t) => Now(t).live)
          BY <3>1, <4>2, KindsDiffer
        <5> QED BY <2>2, <4>2, <5>1
      <4> QED BY <1>1, <4>1, <4>2
    <3> QED BY <2>2, <3>2 DEF Now, State
  <2> QED BY <2>1, <2>2
<1>2. ASSUME NEW t \in Tids, At(t, "destroy")
      PROVE  Holders(TraceMtx(t)) = {}
  <2> SUFFICES ASSUME NEW w \in Tids, TraceMtx(t) \in ToSet(locked[w]) PROVE FALSE
    BY DEF Holders
  <2>1. path[w] # << >> /\ path[w][1] = <<"unlock", TraceMtx(t)>>
    BY DEF Inv, TracesFit
  <2>2. path[t] # << >> /\ path[t][1][1] = "destroy"
    BY <1>2 DEF At
  <2>3. w # t
    BY <2>1, <2>2
  <2>4. ThreadMtx \in ToSet(locked[w])
    BY <2>1, <2>3 DEF Inv, HeadIsSafe
  <2>5. ThreadMtx \in ToSet(locked[t])
    <3>1. PICK v : Leads(t, Now(t), path[t][1], v)
      BY <2>2, HeadLeads
    <3>2. Has(Now(t), ThreadMtx)
      BY <2>2, <3>1, KindsDiffer
    <3> QED BY <3>2 DEF Has, Now, State
  <2> QED BY <2>3, <2>4, <2>5 DEF Inv, LockedOnce
<1> QED BY <1>1, <1>2 DEF PickedTraceIsAlive

-----------------------------------------------------------------------------
(* The theorems.                                                           *)

(***************************************************************************)
(* Whatever the flag, no handler takes a mutex the table does not allow,   *)
(* or one that closes a circle (tsan_mutex.cc:31-140).                     *)
(***************************************************************************)
THEOREM LocksStayNested ==
  LocksSpec => [](TableIsAcyclic /\ NestingIsAllowed /\ NobodyWaitsInACircle)
<1>1. Inv => TableIsAcyclic /\ NestingIsAllowed /\ NobodyWaitsInACircle
  BY TableHasNoCycle, NestingFollows, CircleFollows
<1> QED BY <1>1, InvHolds, PTL

(***************************************************************************)
(* Without report_destroy_locked FindThread is called under thread_mtx     *)
(* (the assertion of tsan_rtl_report.cc:166): it is that report alone that *)
(* fails it.                                                               *)
(***************************************************************************)
THEOREM FindThreadStaysLocked ==
  ASSUME ~report_destroy_locked
  PROVE  LocksSpec => []FindThreadIsLocked
<1>1. Inv => FindThreadIsLocked
  <2> SUFFICES ASSUME Inv, NEW t \in Tids, At(t, "FindThread") PROVE Holders(ThreadMtx) # {}
    BY DEF FindThreadIsLocked
  <2>1. path[t] # << >> /\ path[t][1][1] = "FindThread"
    BY DEF At
  <2>2. PICK v : Leads(t, Now(t), path[t][1], v)
    BY <2>1, HeadLeads
  <2>3. Has(Now(t), ThreadMtx)
    BY <2>1, <2>2, KindsDiffer
  <2> QED BY <2>3 DEF Has, Now, State, Holders
<1> QED BY <1>1, InvHolds, PTL

(***************************************************************************)
(* The mutexes are taken in an order that cannot deadlock, and a trace     *)
(* that a report reads stays (tsan_rtl_report.cc:249-265).  Without        *)
(* report_destroy_locked: that report reads traces without thread_mtx.     *)
(***************************************************************************)
THEOREM LocksStayOrdered ==
  ASSUME ~report_destroy_locked
  PROVE  LocksSpec => []LocksAreOrdered
<1>1. Inv => LocksAreOrdered
  BY TableHasNoCycle, NestingFollows, CircleFollows, TracesFollow DEF LocksAreOrdered
<1> QED BY <1>1, InvHolds, PTL
=============================================================================
