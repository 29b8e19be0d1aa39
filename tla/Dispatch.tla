------------------------------ MODULE Dispatch ------------------------------
(***************************************************************************)
(* What a Poller promises to its handler thread, without containers, queue *)
(* or iterator: each report is about what Add and Remove add up to at that *)
(* moment, and is handed over once, as it was reported, or given up with   *)
(* all the others before the next one.                                     *)
(***************************************************************************)
EXTENDS Sequences

CONSTANTS FDs, Requests, Errors

VARIABLES
  interest,  \* the events asked for, of each FD
  pending,   \* the events reported and not handed over, of each FD
  given      \* the <<FD, events>> handed over since the report

vars == <<interest, pending, given>>

Nothing == [f \in FDs |-> {}]

Init ==
  /\ interest = Nothing
  /\ pending = Nothing
  /\ given = <<>>

Ask(f, events) ==
  /\ interest' = [interest EXCEPT ![f] = @ \cup events]
  /\ UNCHANGED <<pending, given>>

Withdraw(f, events) ==
  /\ interest' = [interest EXCEPT ![f] = @ \ events]
  /\ UNCHANGED <<pending, given>>

Report ==
  /\ pending = Nothing
  /\ pending' \in [FDs -> SUBSET (Requests \cup Errors)]
  /\ \A f \in FDs :
       pending'[f] \subseteq IF interest[f] = {} THEN {} ELSE interest[f] \cup Errors
  /\ given' = <<>>
  /\ UNCHANGED interest

HandOver(f) ==
  /\ pending[f] # {}
  /\ given' = Append(given, <<f, pending[f]>>)
  /\ pending' = [pending EXCEPT ![f] = {}]
  /\ UNCHANGED interest

GiveUp ==
  /\ pending' = Nothing
  /\ given' = <<>>
  /\ UNCHANGED interest

Next ==
  \/ \E f \in FDs, events \in SUBSET Requests : Ask(f, events) \/ Withdraw(f, events)
  \/ Report
  \/ \E f \in FDs : HandOver(f)
  \/ GiveUp

Spec == Init /\ [][Next]_vars
=============================================================================
