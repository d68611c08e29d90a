------------------------------ MODULE Interning ------------------------------
(***************************************************************************)
(* What a stack depot promises: an intern table that gives every stack one *)
(* non-zero id, for good, and gives the stack back for the id.             *)
(***************************************************************************)
CONSTANTS Stack, Id, NoStack

VARIABLES
  table,      \* the set of <<stack, id>> stored so far
  putAnswers, \* the set of <<stack, id>> that Put has returned
  getAnswers  \* the set of <<id, stack>> that Get has returned

vars == <<table, putAnswers, getAnswers>>

Init == table = {} /\ putAnswers = {} /\ getAnswers = {}

Insert(st, id) ==
  /\ \A e \in table : e[1] # st /\ e[2] # id
  /\ table' = table \cup {<<st, id>>}
  /\ UNCHANGED getAnswers

AnswerPut(st, id) ==
  /\ <<st, id>> \in table'
  /\ putAnswers' = putAnswers \cup {<<st, id>>}

\* Put stores the stack and answers in one step, or answers what is stored.
Put(st, id) ==
  /\ AnswerPut(st, id)
  /\ Insert(st, id) \/ UNCHANGED <<table, getAnswers>>

\* Get of an id that Put has returned answers its stack, never NoStack.
Get(st, id) ==
  /\ <<st, id>> \in putAnswers
  /\ getAnswers' = getAnswers \cup {<<id, st>>}
  /\ UNCHANGED <<table, putAnswers>>

Next == \E st \in Stack, id \in Id : Put(st, id) \/ Get(st, id)

Spec == Init /\ [][Next]_vars
=============================================================================
