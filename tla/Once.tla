-------------------------------- MODULE Once --------------------------------
(***************************************************************************)
(* What CallOnce promises to its callers, without epochs, locks or         *)
(* conditions: for each flag one thread at a time runs Func, none does     *)
(* after a run has succeeded, and a call returns only when one has.  A run *)
(* that throws leaves the flag as it was.                                  *)
(***************************************************************************)
CONSTANTS Threads, Flags

VARIABLES
  running,   \* the pairs <<t, f>> of a thread that runs Func and its flag
  done,      \* the flags for which Func has succeeded
  returned   \* the flags for which a call of each thread has returned

vars == <<running, done, returned>>

Init ==
  /\ running = {}
  /\ done = {}
  /\ returned = [t \in Threads |-> {}]

Start(t, f) ==
  /\ f \notin done
  /\ \A p \in running : p[1] # t /\ p[2] # f
  /\ running' = running \cup {<<t, f>>}
  /\ UNCHANGED <<done, returned>>

Succeed(t, f) ==
  /\ <<t, f>> \in running
  /\ running' = running \ {<<t, f>>}
  /\ done' = done \cup {f}
  /\ returned' = [returned EXCEPT ![t] = @ \cup {f}]

Throw(t, f) ==
  /\ <<t, f>> \in running
  /\ running' = running \ {<<t, f>>}
  /\ UNCHANGED <<done, returned>>

Return(t, f) ==
  /\ f \in done
  /\ returned' = [returned EXCEPT ![t] = @ \cup {f}]
  /\ UNCHANGED <<running, done>>

Next ==
  \E t \in Threads, f \in Flags :
    Start(t, f) \/ Succeed(t, f) \/ Throw(t, f) \/ Return(t, f)

Spec == Init /\ [][Next]_vars
=============================================================================
