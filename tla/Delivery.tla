------------------------------ MODULE Delivery ------------------------------
(***************************************************************************)
(* What a cached response promises to the clients that read it.  A growing *)
(* stream of blocks is delivered to each client from its beginning, in     *)
(* order, at the client's own pace.  Once the stream is closed it never    *)
(* changes again, and only a client that was delivered all of a closed     *)
(* stream ends as "complete"; any other end is "partial" (the client is    *)
(* handed over to an end-to-end connection) or "failed".                   *)
(***************************************************************************)
EXTENDS Integers, Sequences

CONSTANTS Clients, Sizes

VARIABLES stream, closed, got, outcome

vars == <<stream, closed, got, outcome>>

Init ==
  /\ stream = <<>>
  /\ closed = FALSE
  /\ got = [c \in Clients |-> 0]
  /\ outcome = [c \in Clients |-> "open"]

Produce(s) ==
  /\ ~closed
  /\ stream' = Append(stream, s)
  /\ UNCHANGED <<closed, got, outcome>>

Close ==
  /\ ~closed
  /\ closed' = TRUE
  /\ UNCHANGED <<stream, got, outcome>>

Deliver(c, n) ==
  /\ outcome[c] = "open"
  /\ got[c] < n
  /\ got' = [got EXCEPT ![c] = n]
  /\ UNCHANGED <<stream, closed, outcome>>

Complete(c) ==
  /\ outcome[c] = "open"
  /\ closed
  /\ got[c] = Len(stream)
  /\ outcome' = [outcome EXCEPT ![c] = "complete"]
  /\ UNCHANGED <<stream, closed, got>>

GiveUp(c, how) ==
  /\ outcome[c] = "open"
  /\ outcome' = [outcome EXCEPT ![c] = how]
  /\ UNCHANGED <<stream, closed, got>>

Next ==
  \/ \E s \in Sizes : Produce(s)
  \/ Close
  \/ \E c \in Clients :
       \/ \E n \in 1..Len(stream) : Deliver(c, n)
       \/ Complete(c)
       \/ \E how \in {"partial", "failed"} : GiveUp(c, how)

Spec == Init /\ [][Next]_vars
=============================================================================
