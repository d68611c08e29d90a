---------------------------- MODULE AtomicObjects ----------------------------
(***************************************************************************)
(* What the __atomic_* library calls promise: every call takes effect on   *)
(* its object, and learns its answer, at one instant between its           *)
(* invocation and its return.  A value is a function from the bytes of the *)
(* object.                                                                 *)
(***************************************************************************)
CONSTANTS Thread, Object, Call, NoCall, NoResult, InitialValue,
          Xor(_, _)      \* stands for the operation of __atomic_fetch_<op>

VARIABLES value, call, result

vars == <<value, call, result>>

After(v, c) ==
  CASE c.op = "load" -> v
    [] c.op \in {"store", "exchange"} -> c.val
    [] c.op = "cas" -> IF v = c.exp THEN c.val ELSE v
    [] c.op = "fetch" -> Xor(v, c.val)

\* A store answers nothing; a compare-and-exchange that fails hands back the
\* value it found.
Answer(v, c) ==
  [ok  |-> c.op # "cas" \/ v = c.exp,
   got |-> IF c.op = "store" \/ (c.op = "cas" /\ v = c.exp) THEN <<>> ELSE v]

Init ==
  /\ value = InitialValue
  /\ call = [t \in Thread |-> NoCall]
  /\ result = [t \in Thread |-> NoResult]

Invoke(t, c) ==
  /\ call[t] = NoCall
  /\ call' = [call EXCEPT ![t] = c]
  /\ UNCHANGED <<value, result>>

Effect(t) ==
  LET c == call[t] IN
  /\ c # NoCall /\ result[t] = NoResult
  /\ value' = [value EXCEPT ![c.obj] = After(@, c)]
  /\ result' = [result EXCEPT ![t] = Answer(value[c.obj], c)]
  /\ UNCHANGED call

Return(t) ==
  /\ result[t] # NoResult
  /\ call' = [call EXCEPT ![t] = NoCall]
  /\ result' = [result EXCEPT ![t] = NoResult]
  /\ UNCHANGED value

Next == \E t \in Thread : Effect(t) \/ Return(t) \/ \E c \in Call : Invoke(t, c)

Spec == Init /\ [][Next]_vars
=============================================================================
