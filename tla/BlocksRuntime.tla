--------------------------- MODULE BlocksRuntime ---------------------------
(***************************************************************************)
(* Blocks and __block variables (BlocksRuntime/runtime.c) without a        *)
(* garbage collector.  A function's blocks start on its stack; copying one *)
(* moves it, the blocks it captured and the __block variables it uses to   *)
(* the heap, where they are counted.  Counts latch: one that reached its   *)
(* maximum stays there.  Each compare-and-swap of a count is an action; a  *)
(* call's remaining work is the sequence todo.                             *)
(***************************************************************************)
EXTENDS Integers, Sequences, FiniteSets, SequencesExt

CONSTANTS
  Threads, Owner,      \* Owner runs the function
  StackBlocks,         \* its blocks
  Captures,            \* stack block -> sequence of [kind, to]
  Heap,                \* 1 .. n: memory for heap copies
  RefcountMask,        \* BLOCK_REFCOUNT_MASK
  MaxCalls             \* bound on calls; an allocation never fails

VARIABLES
  alive, of, count, fields,   \* heap copy -> whether allocated, what it copies,
                              \* its count, what its captures point to
  forwarding,                 \* __block variable's copy, or 0
  in_scope,
  retained,                   \* of the captured object
  held,                       \* thread -> heap block -> references
  todo, calls

vars == <<alive, of, count, fields, forwarding, in_scope, retained, held, todo, calls>>

IsBlock(h) == of[h] \in StackBlocks
Variable == "__block"

-----------------------------------------------------------------------------
latching_incr_int(n) == IF n = RefcountMask THEN RefcountMask ELSE n + 1
latching_decr_int(n) == IF n \in {0, RefcountMask} THEN n ELSE n - 1

Work(t, now, rest) == todo' = [todo EXCEPT ![t] = now \o rest]
\* Memory for all that copying one block can allocate.
HasRoom == Cardinality({h \in Heap : ~alive[h]}) > Cardinality(StackBlocks)
Free == CHOOSE h \in Heap : ~alive[h] /\ \A g \in Heap : g < h => alive[g]

\* The part of _Block_copy_internal for a block of the stack: a bitwise copy
\* with one reference, then the copy helper, which fixes up every capture.
CopyStackBlock(t, s, then, rest) ==
  LET h == Free IN
  /\ alive' = [alive EXCEPT ![h] = TRUE]
  /\ of' = [of EXCEPT ![h] = s]
  /\ count' = [count EXCEPT ![h] = 1]
  /\ fields' = [fields EXCEPT ![h] = [i \in DOMAIN Captures[s] |-> 0]]
  /\ Work(t, [i \in DOMAIN Captures[s] |-> [op |-> "assign", in |-> h, field |-> i]]
             \o <<[then EXCEPT !.ref = h]>>, rest)

CallCopy(t) ==
  /\ todo[t] = << >> /\ calls < MaxCalls /\ calls' = calls + 1
  /\ \/ /\ t = Owner /\ in_scope /\ HasRoom
        /\ \E s \in StackBlocks : CopyStackBlock(t, s, [op |-> "hold", ref |-> 0], << >>)
        /\ UNCHANGED held
     \/ \E h \in Heap :
          /\ held[t][h] > 0
          /\ count' = [count EXCEPT ![h] = latching_incr_int(@)]
          /\ held' = [held EXCEPT ![t][h] = @ + 1]
          /\ UNCHANGED <<alive, of, fields, todo>>
  /\ UNCHANGED <<forwarding, in_scope, retained>>

Hold(t) ==
  LET w == todo[t][1] IN
  /\ todo[t] # << >> /\ w.op = "hold"
  /\ held' = [held EXCEPT ![t][w.ref] = @ + 1]
  /\ Work(t, << >>, Tail(todo[t]))
  /\ UNCHANGED <<alive, of, count, fields, forwarding, in_scope, retained, calls>>

SetField(t) ==
  LET w == todo[t][1] IN
  /\ todo[t] # << >> /\ w.op = "set"
  /\ fields' = [fields EXCEPT ![w.in][w.field] = w.ref]
  /\ Work(t, << >>, Tail(todo[t]))
  /\ UNCHANGED <<alive, of, count, forwarding, in_scope, retained, held, calls>>

\* _Block_object_assign, for a captured block.
AssignBlock(t) ==
  LET w == todo[t][1] capture == Captures[of[w.in]][w.field] IN
  /\ todo[t] # << >> /\ w.op = "assign" /\ capture.kind = "block"
  /\ CopyStackBlock(t, capture.to, [op |-> "set", in |-> w.in, field |-> w.field, ref |-> 0],
                    Tail(todo[t]))
  /\ UNCHANGED <<forwarding, in_scope, retained, held, calls>>

\* For a captured object: the retain function of _Block_use_RR.
AssignObject(t) ==
  LET w == todo[t][1] IN
  /\ todo[t] # << >> /\ w.op = "assign" /\ Captures[of[w.in]][w.field].kind = "object"
  /\ retained' = retained + 1
  /\ fields' = [fields EXCEPT ![w.in][w.field] = -1]
  /\ Work(t, << >>, Tail(todo[t]))
  /\ UNCHANGED <<alive, of, count, forwarding, in_scope, held, calls>>

\* For a __block variable, _Block_byref_assign_copy: the first copy has a
\* reference for the block and one for the stack.
AssignByref(t) ==
  LET w == todo[t][1] h == IF forwarding = 0 THEN Free ELSE forwarding IN
  /\ todo[t] # << >> /\ w.op = "assign" /\ Captures[of[w.in]][w.field].kind = "byref"
  /\ IF forwarding = 0
     THEN /\ alive' = [alive EXCEPT ![h] = TRUE]
          /\ of' = [of EXCEPT ![h] = Variable]
          /\ count' = [count EXCEPT ![h] = 2]
          /\ forwarding' = h
     ELSE /\ count' = [count EXCEPT ![h] = latching_incr_int(@)]
          /\ UNCHANGED <<alive, of, forwarding>>
  /\ fields' = [fields EXCEPT ![w.in][w.field] = h]
  /\ Work(t, << >>, Tail(todo[t]))
  /\ UNCHANGED <<in_scope, retained, held, calls>>

-----------------------------------------------------------------------------
CallRelease(t) ==
  /\ todo[t] = << >>
  /\ \E h \in Heap :
       /\ held[t][h] > 0
       /\ held' = [held EXCEPT ![t][h] = @ - 1]
       /\ Work(t, <<[op |-> "release", ref |-> h]>>, << >>)
  /\ UNCHANGED <<alive, of, count, fields, forwarding, in_scope, retained, calls>>

\* _Block_release and _Block_byref_release: the count, and when it falls to 0
\* the dispose helper's work.
BugRelease(t) ==
  LET w == todo[t][1]
      h == w.ref
      n == latching_decr_int(count[h])
  IN
  /\ todo[t] # << >> /\ w.op = "release"
  /\ count' = [count EXCEPT ![h] = n]
  /\ IF n > 0 THEN Work(t, << >>, Tail(todo[t])) /\ UNCHANGED fields
     ELSE /\ Work(t, <<[op |-> "free", ref |-> h]>>, Tail(todo[t])) /\ UNCHANGED fields
  /\ UNCHANGED <<alive, of, forwarding, in_scope, retained, held, calls>>
Release(t) ==
  LET w == todo[t][1]
      h == w.ref
      n == latching_decr_int(count[h])
  IN
  /\ todo[t] # << >> /\ w.op = "release"
  /\ count' = [count EXCEPT ![h] = n]
  /\ IF n > 0 THEN Work(t, << >>, Tail(todo[t])) /\ UNCHANGED fields
     ELSE /\ Work(t, [i \in DOMAIN fields[h] |->
                        [op |-> IF fields[h][i] = -1 THEN "objrelease" ELSE "release",
                         ref |-> fields[h][i]]]
                     \o <<[op |-> "free", ref |-> h]>>, Tail(todo[t]))
          /\ fields' = [fields EXCEPT ![h] = << >>]
  /\ UNCHANGED <<alive, of, forwarding, in_scope, retained, held, calls>>

ReleaseObject(t) ==
  /\ todo[t] # << >> /\ todo[t][1].op = "objrelease"
  /\ retained' = retained - 1
  /\ Work(t, << >>, Tail(todo[t]))
  /\ UNCHANGED <<alive, of, count, fields, forwarding, in_scope, held, calls>>

Deallocate(t) ==
  LET h == todo[t][1].ref IN
  /\ todo[t] # << >> /\ todo[t][1].op = "free"
  /\ alive' = [alive EXCEPT ![h] = FALSE]
  /\ Work(t, << >>, Tail(todo[t]))
  /\ UNCHANGED <<of, count, fields, forwarding, in_scope, retained, held, calls>>

\* The owner passes a block to a thread; the function returns, and disposes of
\* its __block variable.
Pass(t, u) ==
  /\ todo[t] = << >>
  /\ \E h \in Heap : held[t][h] > 0
       /\ held' = [held EXCEPT ![t][h] = @ - 1, ![u][h] = @ + 1]
  /\ UNCHANGED <<alive, of, count, fields, forwarding, in_scope, retained, todo, calls>>
LeaveScope ==
  /\ in_scope /\ todo[Owner] = << >> /\ in_scope' = FALSE
  /\ Work(Owner, IF forwarding = 0 THEN << >> ELSE <<[op |-> "release", ref |-> forwarding]>>, << >>)
  /\ UNCHANGED <<alive, of, count, fields, forwarding, retained, held, calls>>

BlocksInit ==
  /\ alive = [h \in Heap |-> FALSE] /\ of = [h \in Heap |-> Variable]
  /\ count = [h \in Heap |-> 0] /\ fields = [h \in Heap |-> << >>]
  /\ forwarding = 0 /\ in_scope = TRUE /\ retained = 0
  /\ held = [t \in Threads |-> [h \in Heap |-> 0]]
  /\ todo = [t \in Threads |-> << >>] /\ calls = 0

Carry(t) ==
  \/ Hold(t) \/ SetField(t) \/ AssignBlock(t) \/ AssignObject(t) \/ AssignByref(t)
  \/ Release(t) \/ ReleaseObject(t) \/ Deallocate(t)
BlocksNext ==
  \/ \E t \in Threads : CallCopy(t) \/ CallRelease(t) \/ Carry(t)
  \/ \E u \in Threads \ {Owner} : Pass(Owner, u)
  \/ LeaveScope

-----------------------------------------------------------------------------
NumberOf(S) == Cardinality(S)

\* Those who have a reference to a heap copy.
InFields(h) == {<<g, i>> \in Heap \X (1 .. 4) : alive[g] /\ i \in DOMAIN fields[g] /\ fields[g][i] = h}
InTodo(h) == {<<t, i>> \in Threads \X (1 .. 12) :
                i \in DOMAIN todo[t] /\ todo[t][i].op \in {"hold", "set", "release"} /\ todo[t][i].ref = h}
Held(h) == {<<t, i>> \in Threads \X (1 .. MaxCalls) : i <= held[t][h]}
OnStack(h) == IF in_scope /\ forwarding = h THEN 1 ELSE 0
References(h) == NumberOf(InFields(h)) + NumberOf(InTodo(h)) + NumberOf(Held(h)) + OnStack(h)

\* What is referred to is allocated; a count is the number of references unless
\* it has latched; what nobody refers to is being freed or latched.
CountsAreExact ==
  /\ \A h \in Heap :
       /\ References(h) > 0 => alive[h]
       /\ alive[h] /\ count[h] # RefcountMask => count[h] = References(h)
       /\ alive[h] /\ References(h) = 0 /\ count[h] # RefcountMask =>
            \E t \in Threads : \E i \in DOMAIN todo[t] : todo[t][i] = [op |-> "free", ref |-> h]
  /\ retained = NumberOf(InFields(-1)) + NumberOf({<<t, i>> \in Threads \X (1 .. 12) :
                  i \in DOMAIN todo[t] /\ todo[t][i].op = "objrelease"})

\* All blocks that use the function's variable share one copy of it.
VariableIsShared ==
  \A g \in Heap : alive[g] /\ IsBlock(g) =>
    \A i \in DOMAIN fields[g] :
      Captures[of[g]][i].kind = "byref" /\ fields[g][i] # 0 =>
        fields[g][i] = forwarding /\ alive[forwarding]
=============================================================================
