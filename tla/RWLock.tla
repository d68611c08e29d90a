------------------------------- MODULE RWLock -------------------------------
(***************************************************************************)
(* What a reader-writer mutex promises its callers: the set of threads     *)
(* inside the write section and the set inside the read section, and the   *)
(* condition under which a thread may enter each.  Nothing is said of how  *)
(* a thread waits.                                                         *)
(***************************************************************************)
CONSTANT Thread

VARIABLES writing, reading     \* the threads that hold the mutex, by mode

vars == <<writing, reading>>

Init == writing = {} /\ reading = {}

EnterWrite(t) ==
  /\ writing = {} /\ reading = {}
  /\ writing' = {t}
  /\ UNCHANGED reading

LeaveWrite(t) ==
  /\ t \in writing
  /\ writing' = writing \ {t}
  /\ UNCHANGED reading

EnterRead(t) ==
  /\ writing = {} /\ t \notin reading
  /\ reading' = reading \cup {t}
  /\ UNCHANGED writing

LeaveRead(t) ==
  /\ t \in reading
  /\ reading' = reading \ {t}
  /\ UNCHANGED writing

Next == \E t \in Thread : EnterWrite(t) \/ LeaveWrite(t) \/ EnterRead(t) \/ LeaveRead(t)

Spec == Init /\ [][Next]_vars
=============================================================================
