------------------------------- MODULE Poller -------------------------------
(***************************************************************************)
(* The Poller of one handler thread: the vector PollFDs that is passed to  *)
(* poll(2), the map Clients beside it, the queue of Add and Remove calls   *)
(* that only Poll flushes, and the iterator over the polled descriptors,   *)
(* during which Handle may call Add and Remove again.  All of it is used   *)
(* by one thread, and a step is one call.                                  *)
(***************************************************************************)
EXTENDS Integers, Sequences, FiniteSets

CONSTANTS
  FDs,        \* file descriptors
  Requests,   \* events that can be asked for (POLLIN, POLLOUT)
  Errors,     \* events that poll(2) reports unasked (POLLHUP, POLLERR, POLLNVAL)
  MaxUpdates  \* bound on the calls of Add and Remove between two flushes

ASSUME PollerAssumption ==
  /\ Requests \cap Errors = {}
  /\ MaxUpdates \in Nat

VARIABLES
  PollFDs,      \* sequence of pollfd: [fd, events, revents]
  Clients,      \* FD -> PollClient::ReceivedEvents, for the FDs in the map; its
                \* PollEvents are written only
  PollUpdates,  \* queue of [type, fd, events]
  iter,         \* index in PollFDs of the iterator, or 0 outside the loop
  watched,      \* history: the events that Add and Remove have asked for
  ready,        \* history: what the last poll(2) reported of each FD
  handled       \* history: the <<FD, events>> given to Handle since then

vars == <<PollFDs, Clients, PollUpdates, iter, watched, ready, handled>>

EventSets == (SUBSET Requests) \ {{}}

-----------------------------------------------------------------------------
Init ==
  /\ PollFDs = <<>>
  /\ Clients = << >>
  /\ PollUpdates = <<>>
  /\ iter = 0
  /\ watched = [f \in FDs |-> {}]
  /\ ready = [f \in FDs |-> {}]
  /\ handled = <<>>

Present(pfds) == {pfds[i].fd : i \in DOMAIN pfds}

\* The containers that Flush works on.
Containers == [pfds |-> PollFDs, clients |-> Clients]

\* The entry of the FD asks for more events.
Widened(pfds, u) ==
  [i \in DOMAIN pfds |-> IF pfds[i].fd = u.fd
                           THEN [pfds[i] EXCEPT !.events = @ \cup u.events] ELSE pfds[i]]

\* Poller::AddClient: widen the entry of the FD, or push a new one.
AddClient(state, u) ==
  IF u.fd \in Present(state.pfds)
    THEN [state EXCEPT !.pfds = Widened(@, u)]
    ELSE [pfds    |-> Append(state.pfds, [fd |-> u.fd, events |-> u.events, revents |-> {}]),
          clients |-> [f \in DOMAIN state.clients \cup {u.fd} |->
                         IF f = u.fd THEN {} ELSE state.clients[f]]]

\* The entry of the FD asks for fewer events.
Narrowed(pfds, u) ==
  [i \in DOMAIN pfds |-> IF pfds[i].fd = u.fd
                           THEN [pfds[i] EXCEPT !.events = @ \ u.events] ELSE pfds[i]]

\* Mutant of RemoveClient: an entry without events stays.
MutRemoveKeepsEntry(state, u) == [state EXCEPT !.pfds = Narrowed(@, u)]

\* The loop over PollFDs with its erase: no entry of f stays without events.
WithoutEmpty(pfds, f) ==
  LET Kept[i \in 0..Len(pfds)] ==
        IF i = 0 THEN <<>>
        ELSE IF pfds[i].fd = f /\ pfds[i].events = {} THEN Kept[i - 1]
        ELSE Append(Kept[i - 1], pfds[i])
  IN Kept[Len(pfds)]

\* Poller::RemoveClient: narrow the entry of the FD, and erase it from both
\* containers when no event is left.
RemoveClient(state, u) ==
  LET pfds == WithoutEmpty(Narrowed(state.pfds, u), u.fd)
  IN [pfds    |-> pfds,
      clients |-> [f \in DOMAIN state.clients \ (Present(state.pfds) \ Present(pfds)) |->
                     state.clients[f]]]

Apply(state, u) ==
  IF u.type = "AddClient" THEN AddClient(state, u) ELSE RemoveClient(state, u)

\* The containers after the updates of a queue, in order.
Flushed(state, queue) ==
  LET After[i \in 0..Len(queue)] ==
        IF i = 0 THEN state ELSE Apply(After[i - 1], queue[i])
  IN After[Len(queue)]

\* Mutant of Flush: the removals come first.
MutFlushRemovalsFirst ==
  LET Removal(u)  == u.type = "RemoveClient"
      Addition(u) == u.type = "AddClient"
  IN Flushed(Containers, SelectSeq(PollUpdates, Removal) \o SelectSeq(PollUpdates, Addition))

\* Poller::Flush: the queued updates are applied in order.
Flush == Flushed(Containers, PollUpdates)

\* Poller::ResetReceivedEvents.
ResetReceivedEvents(state) ==
  [pfds    |-> [i \in DOMAIN state.pfds |-> [state.pfds[i] EXCEPT !.revents = {}]],
   clients |-> [f \in DOMAIN state.clients |-> {}]]

\* Mutant of NextPolled: the iterator does not skip, and does not end.
MutNextUnbounded(pfds, i) == i

\* The first index from i on whose FD was polled, or 0 at the end.
NextPolled(pfds, i) ==
  LET polled == {j \in i..Len(pfds) : pfds[j].revents # {}}
  IN IF polled = {} THEN 0 ELSE CHOOSE j \in polled : \A k \in polled : j <= k

-----------------------------------------------------------------------------
\* Poller::Add, between two polls or out of Handle.
Add(f, events) ==
  /\ Len(PollUpdates) < MaxUpdates
  /\ PollUpdates' = Append(PollUpdates, [type |-> "AddClient", fd |-> f, events |-> events])
  /\ watched' = [watched EXCEPT ![f] = @ \cup events]
  /\ UNCHANGED <<PollFDs, Clients, iter, ready, handled>>

\* Poller::Remove.
Remove(f, events) ==
  /\ Len(PollUpdates) < MaxUpdates
  /\ PollUpdates' = Append(PollUpdates, [type |-> "RemoveClient", fd |-> f, events |-> events])
  /\ watched' = [watched EXCEPT ![f] = @ \ events]
  /\ UNCHANGED <<PollFDs, Clients, iter, ready, handled>>

\* What poll(2) may report: some of the events asked for, and errors.
Reports(pfds) ==
  {r \in [DOMAIN pfds -> SUBSET (Requests \cup Errors)] :
     \A i \in DOMAIN pfds : r[i] \subseteq pfds[i].events \cup Errors}

\* Poller::Poll.  The updates are flushed.  When there is nothing to poll, or
\* poll(2) is interrupted or fails, every report is empty.  Afterwards the
\* first Status entries are copied to Clients, whether they were polled or not.
Poll ==
  /\ iter = 0
  /\ \E state \in {ResetReceivedEvents(Flush)} : \E report \in Reports(state.pfds) :
       LET status == Cardinality({i \in DOMAIN report : report[i] # {}})
           Reported(f, entries) ==
             UNION {report[i] : i \in {j \in entries : state.pfds[j].fd = f}}
       IN /\ PollFDs' = [i \in DOMAIN report |->
                           [state.pfds[i] EXCEPT !.revents = report[i]]]
          /\ Clients' = [f \in DOMAIN state.clients |-> Reported(f, 1..status)]
          /\ ready' = [f \in FDs |-> Reported(f, DOMAIN report)]
  /\ iter' = NextPolled(PollFDs', 1)
  /\ PollUpdates' = <<>>
  /\ handled' = <<>>
  /\ UNCHANGED watched

\* Mutant of Visit: operator* does not refresh the received events.
MutVisitStale ==
  LET p == PollFDs[iter]
  IN /\ iter # 0
     /\ handled' = Append(handled, <<p.fd, Clients[p.fd]>>)
     /\ iter' = NextPolled(PollFDs, iter + 1)
     /\ UNCHANGED <<Clients, PollFDs, PollUpdates, watched, ready>>

\* One round of the loop over the Poller: operator*, Handle, operator++.  What
\* Handle adds and removes is queued by the actions above.
Visit ==
  LET p == PollFDs[iter]
  IN /\ iter # 0
     /\ Clients' = [Clients EXCEPT ![p.fd] = p.revents]
     /\ handled' = Append(handled, <<p.fd, Clients'[p.fd]>>)
     /\ iter' = NextPolled(PollFDs, iter + 1)
     /\ UNCHANGED <<PollFDs, PollUpdates, watched, ready>>

\* A handler leaves the loop early.
Break ==
  /\ iter # 0
  /\ iter' = 0
  /\ ready' = [f \in FDs |-> {}]
  /\ handled' = <<>>
  /\ UNCHANGED <<PollFDs, Clients, PollUpdates, watched>>

Next ==
  \/ \E f \in FDs, events \in EventSets : Add(f, events) \/ Remove(f, events)
  \/ Poll
  \/ Visit
  \/ Break

Spec == Init /\ [][Next]_vars

-----------------------------------------------------------------------------
(* Properties *)

Events == SUBSET (Requests \cup Errors)
Pollfd == [fd : FDs, events : SUBSET Requests, revents : Events]
ClientMaps == UNION {[S -> Events] : S \in SUBSET FDs}
Updates == [type : {"AddClient", "RemoveClient"}, fd : FDs, events : EventSets]

\* Every variable keeps its type.
TypeOK ==
  /\ PollFDs \in Seq(Pollfd)
  /\ Clients \in ClientMaps
  /\ PollUpdates \in Seq(Updates)
  /\ iter \in 0..Len(PollFDs)
  /\ watched \in [FDs -> SUBSET Requests]
  /\ ready \in [FDs -> Events]
  /\ handled \in Seq(FDs \X Events)

\* Vector and map agree: one entry in each for every FD that is polled, and
\* none without events (Poller.cpp:51, "remove it completely"), so Clients[fd]
\* in Poll and operator* never makes a default PollClient.
ContainersAgree ==
  /\ DOMAIN Clients = Present(PollFDs)
  /\ Cardinality(Present(PollFDs)) = Len(PollFDs)
  /\ \A i \in DOMAIN PollFDs : PollFDs[i].events # {}

\* The queue hides nothing: once it is flushed, poll(2) is asked for exactly
\* what the Add and Remove calls add up to, whatever Handle queued meanwhile.
PollsWhatWasAsked ==
  LET after == Flush.pfds
  IN \A f \in FDs :
       watched[f] = IF f \in Present(after)
                      THEN after[CHOOSE i \in DOMAIN after : after[i].fd = f].events
                      ELSE {}

\* The places the iterator has still to come to, and the FDs that were handled.
Left == {j \in DOMAIN PollFDs : iter # 0 /\ j >= iter /\ PollFDs[j].revents # {}}
Seen == {handled[k][1] : k \in DOMAIN handled}

\* Every FD that poll(2) reported is handled once, with the events reported
\* now and not those of an earlier poll, and no other FD is handled.
HandledOnceFresh ==
  /\ \A k \in DOMAIN handled : handled[k][2] = ready[handled[k][1]]
  /\ Cardinality(Seen) = Len(handled)
  /\ Seen \cup {PollFDs[j].fd : j \in Left} = {f \in FDs : ready[f] # {}}

-----------------------------------------------------------------------------
(* The inductive invariant, in parts *)

Distinct(pfds) == \A i, j \in DOMAIN pfds : pfds[i].fd = pfds[j].fd => i = j

\* Vector and map, in the containers of a state.
Agree(state) ==
  /\ Distinct(state.pfds)
  /\ DOMAIN state.clients = Present(state.pfds)
  /\ \A i \in DOMAIN state.pfds : state.pfds[i].events # {}

\* The events that poll(2) is asked to watch f for.
Wanted(pfds, f) ==
  {e \in Requests : \E i \in DOMAIN pfds : pfds[i].fd = f /\ e \in pfds[i].events}

WantedInv == \A f \in FDs : watched[f] = Wanted(Flush.pfds, f)

\* What is left to handle is fresh, and was not handled yet.
HandledInv ==
  /\ iter # 0 => PollFDs[iter].revents # {}
  /\ \A j \in Left : /\ ready[PollFDs[j].fd] = PollFDs[j].revents
                     /\ PollFDs[j].fd \notin Seen
  /\ \A k \in DOMAIN handled : handled[k][2] = ready[handled[k][1]]
  /\ \A k, l \in DOMAIN handled : handled[k][1] = handled[l][1] => k = l
  /\ Seen \cup {PollFDs[j].fd : j \in Left} = {f \in FDs : ready[f] # {}}

IInv == TypeOK /\ Agree(Containers) /\ WantedInv /\ HandledInv

-----------------------------------------------------------------------------
\* The reports in these places, by FD.
ReportsAt(pfds, places) ==
  [f \in FDs |-> UNION {pfds[j].revents : j \in {k \in places : pfds[k].fd = f}}]

\* What poll(2) reported of each FD and the iterator has still to come to.
Pending == ReportsAt(PollFDs, Left)

\* What the poller promises to its thread, in the terms of module Dispatch.
Promise == INSTANCE Dispatch WITH
  interest <- watched,
  pending  <- Pending,
  given    <- handled

\* The poller implements Dispatch: through the queue, the two containers and the
\* iterator (Poller.cpp, Poller.hpp:60-93) nothing is polled for but what is
\* wanted at that moment, and each report is handed to Handle once and unchanged,
\* whatever Handle queues meanwhile, or given up with all others.
DispatchSpec == Promise!Spec
=============================================================================
