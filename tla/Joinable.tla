------------------------------- MODULE Joinable -------------------------------
(***************************************************************************)
(* What the owner of a Thread may count on, without mutexes, conditions    *)
(* and signals: a thread that has been interrupted begins at most one more *)
(* blocking call, which it had decided on before, and the owner is done    *)
(* with a Thread only when its thread has ended.                           *)
(*                                                                         *)
(* The threads have nothing to do with each other: in a step, each of them *)
(* may do something.                                                       *)
(***************************************************************************)
CONSTANT Threads

VARIABLES
  life,   \* "new", "running", "blocked" in a call, or "ended"
  calls,  \* how many blocking calls each thread may still begin
  gone    \* the threads that have been joined

vars == <<life, calls, gone>>

\* Some may have been started.
Init ==
  /\ life \in [Threads -> {"new", "running"}]
  /\ calls = [t \in Threads |-> "any"]
  /\ gone = {}

Live(t, from, to) == life[t] = from /\ life'[t] = to

Same(t) == calls'[t] = calls[t] /\ (t \in gone' <=> t \in gone)

Start(t) == Live(t, "new", "running") /\ Same(t)

Block(t) ==
  /\ calls[t] # "none"
  /\ Live(t, "running", "blocked")
  /\ calls'[t] = IF calls[t] = "one" THEN "none" ELSE calls[t]
  /\ t \in gone' <=> t \in gone

Unblock(t) == Live(t, "blocked", "running") /\ Same(t)

\* The thread ends, after its routine or by the exception of an interruption
\* point, which may be the one behind a blocking call.
End(t) ==
  /\ \E from \in {"running", "blocked"} : Live(t, from, "ended")
  /\ calls'[t] = "none"
  /\ t \in gone' <=> t \in gone

\* A running thread may have decided on a call; a blocked one is woken, and may
\* be seen when it has ended.
Interrupt(t) ==
  /\ calls[t] = "any"
  /\ \/ Live(t, "running", "running") /\ calls'[t] \in {"one", "none"}
     \/ (\E to \in {"running", "ended"} : Live(t, "blocked", to)) /\ calls'[t] = "none"
  /\ t \in gone' <=> t \in gone

Release(t) ==
  /\ Live(t, "ended", "ended")
  /\ t \notin gone /\ t \in gone'
  /\ calls'[t] = calls[t]

Idle(t) == life'[t] = life[t] /\ Same(t)

Next ==
  /\ life' \in [Threads -> {"new", "running", "blocked", "ended"}]
  /\ calls' \in [Threads -> {"any", "one", "none"}]
  /\ gone' \subseteq Threads
  /\ \A t \in Threads :
       Start(t) \/ Block(t) \/ Unblock(t) \/ End(t) \/ Interrupt(t) \/ Release(t) \/ Idle(t)

Spec == Init /\ [][Next]_vars
=============================================================================
