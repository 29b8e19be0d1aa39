---------------------------- MODULE PollerProofs ----------------------------
(***************************************************************************)
(* Proofs about Poller, for any file descriptors and events and for queues *)
(* of any length: Flush is computed along its queue, the erasing loop of   *)
(* RemoveClient along the vector, and both are reasoned about by induction *)
(* (module Recursion).                                                     *)
(***************************************************************************)
EXTENDS Poller, Recursion, SequenceTheorems, TLAPS

-----------------------------------------------------------------------------
(* Entries *)

\* The entries of a vector.
LEMMA Entries ==
  ASSUME NEW p \in Seq(Pollfd)
  PROVE  /\ Len(p) \in Nat /\ DOMAIN p = 1..Len(p)
         /\ \A i \in 1..Len(p) :
              /\ p[i] \in Pollfd /\ p[i].fd \in FDs /\ p[i].events \subseteq Requests
              /\ p[i].revents \in Events
<1>1. Len(p) \in Nat /\ DOMAIN p = 1..Len(p)
  BY LenProperties
<1>2. \A i \in 1..Len(p) : p[i] \in Pollfd
  BY ElementOfSeq
<1> QED
  BY <1>1, <1>2 DEF Pollfd

\* A vector made place by place.
LEMMA MadeOf ==
  ASSUME NEW n \in Nat, NEW T, NEW s \in [1..n -> T]
  PROVE  s \in Seq(T) /\ Len(s) = n /\ DOMAIN s = 1..n
  OBVIOUS

\* Narrowed leaves the FDs in their places.
LEMMA NarrowedEntries ==
  ASSUME NEW p \in Seq(Pollfd), NEW u \in Updates
  PROVE  /\ Narrowed(p, u) \in Seq(Pollfd) /\ Len(Narrowed(p, u)) = Len(p)
         /\ \A i \in 1..Len(p) :
              /\ Narrowed(p, u)[i].fd = p[i].fd
              /\ Narrowed(p, u)[i].events =
                   IF p[i].fd = u.fd THEN p[i].events \ u.events ELSE p[i].events
<1> DEFINE q == Narrowed(p, u)
<1>1. Len(p) \in Nat /\ DOMAIN p = 1..Len(p)
  BY Entries
<1>2. \A i \in 1..Len(p) : p[i] \in Pollfd
  BY Entries
<1>3. q = [i \in 1..Len(p) |-> IF p[i].fd = u.fd
                                 THEN [p[i] EXCEPT !.events = @ \ u.events] ELSE p[i]]
  BY <1>1 DEF Narrowed
<1> HIDE DEF q
<1>4. ASSUME NEW i \in 1..Len(p)
      PROVE  /\ q[i] \in Pollfd /\ q[i].fd = p[i].fd
             /\ q[i].events = IF p[i].fd = u.fd THEN p[i].events \ u.events ELSE p[i].events
  BY <1>2, <1>3 DEF Pollfd
<1>5. q \in [1..Len(p) -> Pollfd]
  BY <1>3, <1>4
<1>6. q \in Seq(Pollfd) /\ Len(q) = Len(p)
  BY <1>1, <1>5, MadeOf
<1> QED
  BY <1>4, <1>6 DEF q

-----------------------------------------------------------------------------
(* The erasing loop of RemoveClient *)

\* The vector as the loop has made it, place after place.
Kept(g, p, f) ==
  g = [i \in 0..Len(p) |->
         IF i = 0 THEN <<>>
         ELSE IF p[i].fd = f /\ p[i].events = {} THEN g[i - 1]
         ELSE Append(g[i - 1], p[i])]

LEMMA KeptExists ==
  ASSUME NEW p \in Seq(Pollfd), NEW f
  PROVE  \E g : Kept(g, p, f)
<1> DEFINE n == Len(p)
           step == [x \in (1..n) \X Seq(Pollfd) |->
                      IF p[x[1]].fd = f /\ p[x[1]].events = {} THEN x[2]
                      ELSE Append(x[2], p[x[1]])]
<1>1. n \in Nat /\ \A i \in 1..n : p[i] \in Pollfd
  BY Entries
<1>2. PICK g : Computes(g, n, <<>>, step)
  BY <1>1, ComputesExists
<1>3. \A i \in 1..n, v \in Seq(Pollfd) :
        /\ step[<<i, v>>] = IF p[i].fd = f /\ p[i].events = {} THEN v ELSE Append(v, p[i])
        /\ step[<<i, v>>] \in Seq(Pollfd)
  BY <1>1
<1> HIDE DEF step
<1>4. g \in [0..n -> Seq(Pollfd)]
  BY <1>1, <1>2, <1>3, ComputesType, EmptySeq
<1>5. g[0] = <<>> /\ \A i \in 1..n : g[i] = step[<<i, g[i - 1]>>]
  BY <1>1, <1>2, ComputesValues
<1>6. ASSUME NEW i \in 1..n
      PROVE  g[i] = IF p[i].fd = f /\ p[i].events = {} THEN g[i - 1]
                    ELSE Append(g[i - 1], p[i])
  <2>1. g[i - 1] \in Seq(Pollfd)
    BY <1>1, <1>4
  <2> QED
    BY <1>3, <1>5, <2>1
<1>7. \A i \in 0..n :
        g[i] = IF i = 0 THEN <<>>
               ELSE IF p[i].fd = f /\ p[i].events = {} THEN g[i - 1]
               ELSE Append(g[i - 1], p[i])
  BY <1>5, <1>6
<1> QED
  BY <1>4, <1>7 DEF Kept

\* What the loop has made of the first i entries of a vector without repetition.
KeptSoFar(r, p, f, i) ==
  /\ r \in Seq(Pollfd)
  /\ \A k \in 1..Len(r) :
       \E j \in 1..i : r[k] = p[j] /\ ~(p[j].fd = f /\ p[j].events = {})
  /\ \A j \in 1..i :
       ~(p[j].fd = f /\ p[j].events = {}) => \E k \in 1..Len(r) : r[k] = p[j]
  /\ \A k, l \in 1..Len(r) : r[k].fd = r[l].fd => k = l

LEMMA KeptStep ==
  ASSUME NEW p \in Seq(Pollfd), NEW f, Distinct(p), NEW i \in 1..Len(p),
         NEW r, KeptSoFar(r, p, f, i - 1)
  PROVE  KeptSoFar(IF p[i].fd = f /\ p[i].events = {} THEN r ELSE Append(r, p[i]), p, f, i)
<1>1. Len(p) \in Nat /\ DOMAIN p = 1..Len(p) /\ p[i] \in Pollfd
  BY Entries
<1>2. CASE p[i].fd = f /\ p[i].events = {}
  <2>1. \A j \in 1..i : j \in 1..(i - 1) \/ j = i
    BY <1>1
  <2>2. \A j \in 1..(i - 1) : j \in 1..i
    BY <1>1
  <2> QED
    BY <1>2, <2>1, <2>2 DEF KeptSoFar
<1>3. CASE ~(p[i].fd = f /\ p[i].events = {})
  <2> DEFINE t == Append(r, p[i])
             m == Len(r)
  <2>1. r \in Seq(Pollfd)
    BY DEF KeptSoFar
  <2>2. /\ t \in Seq(Pollfd) /\ m \in Nat /\ Len(t) = m + 1 /\ t[m + 1] = p[i]
        /\ \A k \in 1..m : t[k] = r[k]
    BY <1>1, <2>1, AppendProperties, LenProperties
  <2> HIDE DEF t, m
  <2>3. \A k \in 1..m : \E j \in 1..(i - 1) : r[k] = p[j] /\ ~(p[j].fd = f /\ p[j].events = {})
    BY DEF KeptSoFar, m
  <2>4. ASSUME NEW k \in 1..Len(t)
        PROVE  \E j \in 1..i : t[k] = p[j] /\ ~(p[j].fd = f /\ p[j].events = {})
    <3>1. CASE k = m + 1
      BY <1>1, <1>3, <2>2, <3>1
    <3>2. CASE k \in 1..m
      BY <1>1, <2>2, <2>3, <3>2
    <3> QED
      BY <2>2, <3>1, <3>2
  <2>5. ASSUME NEW j \in 1..i, ~(p[j].fd = f /\ p[j].events = {})
        PROVE  \E k \in 1..Len(t) : t[k] = p[j]
    <3>1. CASE j = i
      BY <2>2, <3>1
    <3>2. CASE j \in 1..(i - 1)
      <4>1. PICK k \in 1..m : r[k] = p[j]
        BY <2>5, <3>2 DEF KeptSoFar, m
      <4> QED
        BY <2>2, <4>1
    <3> QED
      BY <3>1, <3>2
  <2>6. \A k \in 1..m : r[k].fd # p[i].fd
    <3> SUFFICES ASSUME NEW k \in 1..m, r[k].fd = p[i].fd
                 PROVE  FALSE
      OBVIOUS
    <3>1. PICK j \in 1..(i - 1) : r[k] = p[j]
      BY <2>3
    <3>2. j \in DOMAIN p /\ i \in DOMAIN p /\ j # i
      BY <1>1
    <3> QED
      BY <3>1, <3>2 DEF Distinct
  <2>7. ASSUME NEW k \in 1..Len(t), NEW l \in 1..Len(t), t[k].fd = t[l].fd
        PROVE  k = l
    <3>1. k \in 1..m \/ k = m + 1
      BY <2>2
    <3>2. l \in 1..m \/ l = m + 1
      BY <2>2
    <3>3. \A a, b \in 1..m : r[a].fd = r[b].fd => a = b
      BY DEF KeptSoFar, m
    <3> QED
      BY <2>2, <2>6, <2>7, <3>1, <3>2, <3>3
  <2>8. KeptSoFar(t, p, f, i)
    BY <2>2, <2>4, <2>5, <2>7 DEF KeptSoFar
  <2> QED
    BY <1>3, <2>8 DEF t
<1> QED
  BY <1>2, <1>3

\* No entry is lost but those that the loop erases.
LEMMA WithoutEmptyKeeps ==
  ASSUME NEW p \in Seq(Pollfd), NEW f, Distinct(p)
  PROVE  KeptSoFar(WithoutEmpty(p, f), p, f, Len(p))
<1> DEFINE g == CHOOSE g : g = [i \in 0..Len(p) |->
                                  IF i = 0 THEN <<>>
                                  ELSE IF p[i].fd = f /\ p[i].events = {} THEN g[i - 1]
                                  ELSE Append(g[i - 1], p[i])]
<1>1. \E h : Kept(h, p, f)
  BY KeptExists
<1>2. Kept(g, p, f)
  BY <1>1 DEF Kept
<1>3. WithoutEmpty(p, f) = g[Len(p)]
  BY DEF WithoutEmpty
<1> HIDE DEF g
<1>4. Len(p) \in Nat
  BY Entries
<1>5. \A i \in 0..Len(p) :
        g[i] = IF i = 0 THEN <<>>
               ELSE IF p[i].fd = f /\ p[i].events = {} THEN g[i - 1]
               ELSE Append(g[i - 1], p[i])
  BY <1>2 DEF Kept
<1> DEFINE S == {i \in 0..Len(p) : KeptSoFar(g[i], p, f, i)}
<1>6. 0 \in S
  <2>1. g[0] = <<>>
    BY <1>2, <1>4 DEF Kept
  <2>2. KeptSoFar(<<>>, p, f, 0)
    BY DEF KeptSoFar
  <2> QED
    BY <1>4, <2>1, <2>2
<1>7. ASSUME NEW i \in 1..Len(p), i - 1 \in S PROVE i \in S
  <2>1. g[i] = IF p[i].fd = f /\ p[i].events = {} THEN g[i - 1] ELSE Append(g[i - 1], p[i])
    BY <1>4, <1>5
  <2>2. KeptSoFar(g[i - 1], p, f, i - 1)
    BY <1>7
  <2> DEFINE r == IF p[i].fd = f /\ p[i].events = {} THEN g[i - 1] ELSE Append(g[i - 1], p[i])
  <2>3. KeptSoFar(r, p, f, i)
    BY <2>2, KeptStep
  <2> HIDE DEF r
  <2>4. g[i] = r /\ i \in 0..Len(p)
    BY <2>1 DEF r
  <2> QED
    BY <2>3, <2>4
<1> HIDE DEF S
<1>8. 0..Len(p) \subseteq S
  BY <1>4, <1>6, <1>7, Induction
<1> QED
  BY <1>3, <1>4, <1>8 DEF S

-----------------------------------------------------------------------------
(* One update *)

States == {st \in [pfds : Seq(Pollfd), clients : ClientMaps] : Agree(st)}

LEMMA StateFields ==
  ASSUME NEW st \in States
  PROVE  /\ st.pfds \in Seq(Pollfd) /\ st.clients \in ClientMaps
         /\ st.clients \in [Present(st.pfds) -> Events]
         /\ Distinct(st.pfds) /\ DOMAIN st.clients = Present(st.pfds)
         /\ \A i \in 1..Len(st.pfds) : st.pfds[i].events # {}
<1>1. st.pfds \in Seq(Pollfd) /\ st.clients \in ClientMaps /\ Agree(st)
  BY DEF States
<1>2. DOMAIN st.pfds = 1..Len(st.pfds)
  BY <1>1, Entries
<1>3. PICK S \in SUBSET FDs : st.clients \in [S -> Events]
  BY <1>1 DEF ClientMaps
<1>4. S = Present(st.pfds)
  BY <1>1, <1>3 DEF Agree
<1> QED
  BY <1>1, <1>2, <1>3, <1>4 DEF Agree

\* What makes a state.
LEMMA StateFrom ==
  ASSUME NEW p \in Seq(Pollfd), NEW m, m \in [Present(p) -> Events], Distinct(p),
         \A i \in 1..Len(p) : p[i].events # {}
  PROVE  [pfds |-> p, clients |-> m] \in States
<1>1. DOMAIN p = 1..Len(p) /\ \A i \in 1..Len(p) : p[i].fd \in FDs
  BY Entries
<1>2. Present(p) \in SUBSET FDs
  BY <1>1 DEF Present
<1>3. m \in ClientMaps
  BY <1>2 DEF ClientMaps
<1> DEFINE st == [pfds |-> p, clients |-> m]
<1>4. st \in [pfds : Seq(Pollfd), clients : ClientMaps] /\ st.pfds = p /\ st.clients = m
  BY <1>3
<1> HIDE DEF st
<1>5. Agree(st)
  BY <1>1, <1>4 DEF Agree
<1> QED
  BY <1>4, <1>5 DEF States, st

LEMMA UpdateFields ==
  ASSUME NEW u \in Updates
  PROVE  u.fd \in FDs /\ u.events \subseteq Requests /\ u.events # {}
  BY DEF Updates, EventSets

\* AddClient adds the events of its FD.
LEMMA AddClientAsks ==
  ASSUME NEW st \in States, NEW u \in Updates
  PROVE  /\ AddClient(st, u) \in States
         /\ \A f \in FDs : Wanted(AddClient(st, u).pfds, f) =
              IF f = u.fd THEN Wanted(st.pfds, f) \cup u.events ELSE Wanted(st.pfds, f)
<1> DEFINE p == st.pfds
           n == Len(p)
<1>1. /\ p \in Seq(Pollfd) /\ Distinct(p) /\ n \in Nat /\ DOMAIN p = 1..n
      /\ \A i \in 1..n : p[i] \in Pollfd /\ p[i].fd \in FDs /\ p[i].events \subseteq Requests
  BY StateFields, Entries
<1>2. /\ \A i \in 1..n : p[i].events # {}
      /\ st.clients \in [Present(p) -> Events]
      /\ st = [pfds |-> p, clients |-> st.clients]
  BY StateFields DEF States
<1>3. u.fd \in FDs /\ u.events \subseteq Requests /\ u.events # {}
  BY UpdateFields
<1>4. CASE u.fd \in Present(p)
  <2> DEFINE q == Widened(p, u)
  <2>1. AddClient(st, u) = [pfds |-> q, clients |-> st.clients]
    BY <1>2, <1>4 DEF AddClient
  <2>2. q = [i \in 1..n |-> IF p[i].fd = u.fd
                              THEN [p[i] EXCEPT !.events = @ \cup u.events] ELSE p[i]]
    BY <1>1 DEF Widened
  <2> HIDE DEF q
  <2>3. ASSUME NEW i \in 1..n
        PROVE  /\ q[i] \in Pollfd /\ q[i].fd = p[i].fd
               /\ q[i].events = IF p[i].fd = u.fd THEN p[i].events \cup u.events
                                                  ELSE p[i].events
    BY <1>1, <1>3, <2>2 DEF Pollfd
  <2>4. q \in Seq(Pollfd) /\ Len(q) = n /\ DOMAIN q = 1..n
    <3>1. q \in [1..n -> Pollfd]
      BY <2>3, <2>2
    <3> QED
      BY <1>1, <3>1, MadeOf
  <2>5. Present(q) = Present(p)
    BY <1>1, <2>3, <2>4 DEF Present
  <2>6. Distinct(q) /\ \A i \in 1..n : q[i].events # {}
    BY <1>1, <1>2, <1>3, <2>3, <2>4 DEF Distinct
  <2>7. [pfds |-> q, clients |-> st.clients] \in States
    BY <1>2, <2>4, <2>5, <2>6, StateFrom
  <2>8. ASSUME NEW f \in FDs
        PROVE  Wanted(q, f) = IF f = u.fd THEN Wanted(p, f) \cup u.events ELSE Wanted(p, f)
    <3>1. PICK i \in 1..n : p[i].fd = u.fd
      BY <1>1, <1>4 DEF Present
    <3>2. CASE f = u.fd
      <4>1. Wanted(q, f) = p[i].events \cup u.events
        BY <1>1, <1>3, <2>3, <2>4, <3>1, <3>2 DEF Wanted, Distinct
      <4>2. Wanted(p, f) = p[i].events
        BY <1>1, <3>1, <3>2 DEF Wanted, Distinct
      <4> QED
        BY <3>2, <4>1, <4>2
    <3>3. CASE f # u.fd
      BY <1>1, <2>3, <2>4, <3>3 DEF Wanted
    <3> QED
      BY <3>2, <3>3
  <2> QED
    BY <2>1, <2>7, <2>8
<1>5. CASE u.fd \notin Present(p)
  <2> DEFINE e == [fd |-> u.fd, events |-> u.events, revents |-> {}]
             q == Append(p, e)
             m == [f \in Present(p) \cup {u.fd} |-> IF f = u.fd THEN {} ELSE st.clients[f]]
  <2>1. AddClient(st, u) = [pfds |-> q, clients |-> m]
    BY <1>2, <1>5 DEF AddClient
  <2>2. e \in Pollfd /\ e.fd = u.fd /\ e.events = u.events
    BY <1>3 DEF Pollfd, Events
  <2> HIDE DEF e
  <2>3. /\ q \in Seq(Pollfd) /\ Len(q) = n + 1 /\ DOMAIN q = 1..(n + 1) /\ q[n + 1] = e
        /\ \A i \in 1..n : q[i] = p[i]
    BY <1>1, <2>2, AppendProperties, LenProperties
  <2>4. \A i \in DOMAIN q : i \in 1..n \/ i = n + 1
    BY <1>1, <2>3
  <2>5. 1..n \subseteq DOMAIN q /\ n + 1 \in DOMAIN q
    BY <1>1, <2>3
  <2> HIDE DEF q, n
  <2>6. \A i \in 1..n : q[i].fd # u.fd
    BY <1>1, <1>5, <2>3 DEF Present
  <2>7. Present(q) = Present(p) \cup {u.fd}
    BY <1>1, <2>2, <2>3, <2>4, <2>5 DEF Present
  <2>8. m \in [Present(q) -> Events]
    BY <1>2, <2>7 DEF Events
  <2>9. Distinct(q)
    BY <1>1, <2>2, <2>3, <2>4, <2>6 DEF Distinct
  <2>10. \A i \in 1..Len(q) : q[i].events # {}
    BY <1>2, <1>3, <2>2, <2>3, <2>4
  <2> HIDE DEF m
  <2>11. [pfds |-> q, clients |-> m] \in States
    BY <2>3, <2>8, <2>9, <2>10, StateFrom
  <2>12. ASSUME NEW f \in FDs
         PROVE  Wanted(q, f) = IF f = u.fd THEN Wanted(p, f) \cup u.events ELSE Wanted(p, f)
    <3>1. CASE f = u.fd
      <4>1. Wanted(q, f) = u.events
        BY <1>3, <2>2, <2>3, <2>4, <2>5, <2>6, <3>1 DEF Wanted
      <4>2. Wanted(p, f) = {}
        BY <1>1, <2>3, <2>6, <3>1 DEF Wanted
      <4> QED
        BY <3>1, <4>1, <4>2
    <3>2. CASE f # u.fd
      BY <1>1, <2>2, <2>3, <2>4, <2>5, <3>2 DEF Wanted
    <3> QED
      BY <3>1, <3>2
  <2> QED
    BY <2>1, <2>11, <2>12
<1> QED
  BY <1>4, <1>5

\* RemoveClient takes them away, and what asks for nothing is gone.
LEMMA RemoveClientAsks ==
  ASSUME NEW st \in States, NEW u \in Updates
  PROVE  /\ RemoveClient(st, u) \in States
         /\ \A f \in FDs : Wanted(RemoveClient(st, u).pfds, f) =
              IF f = u.fd THEN Wanted(st.pfds, f) \ u.events ELSE Wanted(st.pfds, f)
<1> DEFINE p == st.pfds
           q == Narrowed(p, u)
           r == WithoutEmpty(q, u.fd)
           m == [f \in Present(p) \ (Present(p) \ Present(r)) |-> st.clients[f]]
<1>1. /\ p \in Seq(Pollfd) /\ Distinct(p) /\ Len(p) \in Nat /\ DOMAIN p = 1..Len(p)
      /\ \A i \in 1..Len(p) : p[i].events \subseteq Requests /\ p[i].events # {}
      /\ st.clients \in [Present(p) -> Events] /\ DOMAIN st.clients = Present(p)
  BY StateFields, Entries
<1>2. u.fd \in FDs /\ u.events \subseteq Requests /\ u.events # {}
  BY UpdateFields
<1>3. RemoveClient(st, u) = [pfds |-> r, clients |-> m]
  BY <1>1 DEF RemoveClient
<1>4. /\ q \in Seq(Pollfd) /\ Len(q) = Len(p)
      /\ \A i \in 1..Len(p) :
           /\ q[i].fd = p[i].fd
           /\ q[i].events = IF p[i].fd = u.fd THEN p[i].events \ u.events ELSE p[i].events
  BY <1>1, NarrowedEntries
<1>5. DOMAIN q = 1..Len(p)
  BY <1>4, Entries
<1> HIDE DEF q
<1>6. Distinct(q)
  BY <1>1, <1>4, <1>5 DEF Distinct
<1>7. KeptSoFar(r, q, u.fd, Len(p))
  BY <1>4, <1>6, WithoutEmptyKeeps
<1> HIDE DEF r
<1>8. r \in Seq(Pollfd) /\ DOMAIN r = 1..Len(r)
  BY <1>7, Entries DEF KeptSoFar
<1>9. /\ \A k \in 1..Len(r) :
           \E j \in 1..Len(p) : r[k] = q[j] /\ ~(q[j].fd = u.fd /\ q[j].events = {})
      /\ \A j \in 1..Len(p) :
           ~(q[j].fd = u.fd /\ q[j].events = {}) => \E k \in 1..Len(r) : r[k] = q[j]
      /\ Distinct(r)
  BY <1>7, <1>8 DEF KeptSoFar, Distinct
<1>10. ASSUME NEW k \in 1..Len(r) PROVE r[k].events # {}
  <2>1. PICK j \in 1..Len(p) : r[k] = q[j] /\ ~(q[j].fd = u.fd /\ q[j].events = {})
    BY <1>9
  <2> QED
    BY <1>1, <1>4, <2>1
<1>11. Present(r) \subseteq Present(p)
  <2> SUFFICES ASSUME NEW k \in 1..Len(r)
               PROVE  \E j \in 1..Len(p) : p[j].fd = r[k].fd
    BY <1>1, <1>8 DEF Present
  <2>1. PICK j \in 1..Len(p) : r[k] = q[j]
    BY <1>9
  <2> QED
    BY <1>4, <2>1
<1>12. m \in [Present(r) -> Events]
  BY <1>1, <1>11
<1> HIDE DEF m
<1>13. [pfds |-> r, clients |-> m] \in States
  BY <1>8, <1>9, <1>10, <1>12, StateFrom
<1>14. ASSUME NEW f \in FDs
       PROVE  Wanted(r, f) = IF f = u.fd THEN Wanted(p, f) \ u.events ELSE Wanted(p, f)
  <2>1. Wanted(q, f) = IF f = u.fd THEN Wanted(p, f) \ u.events ELSE Wanted(p, f)
    <3>1. CASE f # u.fd
      BY <1>1, <1>4, <1>5, <3>1 DEF Wanted
    <3>2. CASE f = u.fd
      <4>1. ASSUME NEW e \in Requests
            PROVE  e \in Wanted(q, f) <=> e \in Wanted(p, f) /\ e \notin u.events
        BY <1>1, <1>4, <1>5, <3>2 DEF Wanted
      <4>2. Wanted(q, f) \subseteq Requests /\ Wanted(p, f) \subseteq Requests
        BY DEF Wanted
      <4> QED
        BY <3>2, <4>1, <4>2
    <3> QED
      BY <3>1, <3>2
  <2>2. Wanted(r, f) \subseteq Wanted(q, f)
    BY <1>5, <1>8, <1>9 DEF Wanted
  <2>3. Wanted(q, f) \subseteq Wanted(r, f)
    BY <1>5, <1>8, <1>9 DEF Wanted
  <2> QED
    BY <2>1, <2>2, <2>3
<1> QED
  BY <1>3, <1>13, <1>14

\* One update, of either kind.
Asked(before, u, f) ==
  IF f # u.fd THEN before
  ELSE IF u.type = "AddClient" THEN before \cup u.events ELSE before \ u.events

LEMMA ApplyAsks ==
  ASSUME NEW st \in States, NEW u \in Updates
  PROVE  /\ Apply(st, u) \in States
         /\ \A f \in FDs : Wanted(Apply(st, u).pfds, f) = Asked(Wanted(st.pfds, f), u, f)
<1>1. CASE u.type = "AddClient"
  BY <1>1, AddClientAsks DEF Apply, Asked
<1>2. CASE u.type # "AddClient"
  BY <1>2, RemoveClientAsks DEF Apply, Asked
<1> QED
  BY <1>1, <1>2

-----------------------------------------------------------------------------
(* A queue of updates *)

\* The containers after each update of a queue.
Run(g, st, queue) ==
  /\ g \in [0..Len(queue) -> States]
  /\ g[0] = st
  /\ \A i \in 1..Len(queue) : g[i] = Apply(g[i - 1], queue[i])

LEMMA RunExists ==
  ASSUME NEW st \in States, NEW queue \in Seq(Updates)
  PROVE  \E g : /\ g = [i \in 0..Len(queue) |->
                          IF i = 0 THEN st ELSE Apply(g[i - 1], queue[i])]
                /\ Run(g, st, queue)
<1> DEFINE n == Len(queue)
           step == [x \in (1..n) \X States |-> Apply(x[2], queue[x[1]])]
<1>1. n \in Nat /\ \A i \in 1..n : queue[i] \in Updates
  BY ElementOfSeq, LenProperties
<1>2. PICK g : Computes(g, n, st, step)
  BY <1>1, ComputesExists
<1>3. \A i \in 1..n, v \in States :
        step[<<i, v>>] = Apply(v, queue[i]) /\ step[<<i, v>>] \in States
  BY <1>1, ApplyAsks
<1> HIDE DEF step
<1>4. g \in [0..n -> States]
  BY <1>1, <1>2, <1>3, ComputesType
<1>5. g[0] = st /\ \A i \in 1..n : g[i] = step[<<i, g[i - 1]>>]
  BY <1>1, <1>2, ComputesValues
<1>6. ASSUME NEW i \in 1..n PROVE g[i] = Apply(g[i - 1], queue[i])
  <2>1. g[i - 1] \in States
    BY <1>1, <1>4
  <2> QED
    BY <1>3, <1>5, <2>1
<1>7. \A i \in 0..n : g[i] = IF i = 0 THEN st ELSE Apply(g[i - 1], queue[i])
  BY <1>5, <1>6
<1>8. g = [i \in 0..n |-> IF i = 0 THEN st ELSE Apply(g[i - 1], queue[i])]
  BY <1>4, <1>7
<1>9. Run(g, st, queue)
  BY <1>4, <1>5, <1>6 DEF Run
<1> QED
  BY <1>8, <1>9

\* Two runs whose first n updates are the same, from containers that ask for the
\* same events, ask for the same events after each of them.
LEMMA RunsAgree ==
  ASSUME NEW a \in States, NEW b \in States,
         NEW q \in Seq(Updates), NEW r \in Seq(Updates), NEW g, NEW h,
         Run(g, a, q), Run(h, b, r),
         NEW n \in Nat, n <= Len(q), n <= Len(r), \A i \in 1..n : q[i] = r[i],
         \A f \in FDs : Wanted(a.pfds, f) = Wanted(b.pfds, f)
  PROVE  \A f \in FDs : Wanted(g[n].pfds, f) = Wanted(h[n].pfds, f)
<1> DEFINE S == {i \in 0..n : \A f \in FDs : Wanted(g[i].pfds, f) = Wanted(h[i].pfds, f)}
<1>1. Len(q) \in Nat /\ Len(r) \in Nat
  BY LenProperties
<1>2. 0 \in S
  BY DEF Run
<1>3. ASSUME NEW i \in 1..n, i - 1 \in S PROVE i \in S
  <2>1. /\ i \in 1..Len(q) /\ i \in 1..Len(r)
        /\ i - 1 \in 0..Len(q) /\ i - 1 \in 0..Len(r)
    BY <1>1
  <2>2. g[i] = Apply(g[i - 1], q[i]) /\ h[i] = Apply(h[i - 1], q[i])
    BY <2>1 DEF Run
  <2>3. q[i] \in Updates /\ g[i - 1] \in States /\ h[i - 1] \in States
    BY <2>1, ElementOfSeq DEF Run
  <2>4. \A f \in FDs : Wanted(g[i - 1].pfds, f) = Wanted(h[i - 1].pfds, f)
    BY <1>3
  <2>5. \A f \in FDs : Wanted(g[i].pfds, f) = Wanted(h[i].pfds, f)
    <3>1. \A f \in FDs : Wanted(Apply(g[i - 1], q[i]).pfds, f) =
                          Asked(Wanted(g[i - 1].pfds, f), q[i], f)
      BY <2>3, ApplyAsks
    <3>2. \A f \in FDs : Wanted(Apply(h[i - 1], q[i]).pfds, f) =
                          Asked(Wanted(h[i - 1].pfds, f), q[i], f)
      BY <2>3, ApplyAsks
    <3>3. q[i] = r[i]
      OBVIOUS
    <3> QED
      BY <2>2, <2>4, <3>1, <3>2, <3>3
  <2> QED
    BY <2>5
<1> HIDE DEF S
<1>4. 0..n \subseteq S
  BY <1>2, <1>3, Induction
<1> QED
  BY <1>4 DEF S

\* Flush runs the queue.
LEMMA FlushedRun ==
  ASSUME NEW st \in States, NEW queue \in Seq(Updates)
  PROVE  \E g : Run(g, st, queue) /\ Flushed(st, queue) = g[Len(queue)]
<1> DEFINE g == CHOOSE g : g = [i \in 0..Len(queue) |->
                                  IF i = 0 THEN st ELSE Apply(g[i - 1], queue[i])]
<1>1. \E h : h = [i \in 0..Len(queue) |-> IF i = 0 THEN st ELSE Apply(h[i - 1], queue[i])]
  BY RunExists
<1>2. g = [i \in 0..Len(queue) |-> IF i = 0 THEN st ELSE Apply(g[i - 1], queue[i])]
  BY <1>1
<1>3. Flushed(st, queue) = g[Len(queue)]
  BY DEF Flushed
<1> HIDE DEF g
<1>4. PICK h : /\ h = [i \in 0..Len(queue) |->
                         IF i = 0 THEN st ELSE Apply(h[i - 1], queue[i])]
               /\ Run(h, st, queue)
  BY RunExists
<1>5. Len(queue) \in Nat
  BY LenProperties
<1> DEFINE S == {i \in 0..Len(queue) : g[i] = h[i]}
<1>6. 0 \in S
  BY <1>2, <1>4, <1>5
<1>7. ASSUME NEW i \in 1..Len(queue), i - 1 \in S PROVE i \in S
  <2>1. g[i] = Apply(g[i - 1], queue[i])
    BY <1>2, <1>5
  <2>2. h[i] = Apply(h[i - 1], queue[i])
    BY <1>4, <1>5
  <2> QED
    BY <1>7, <2>1, <2>2
<1> HIDE DEF S
<1>8. 0..Len(queue) \subseteq S
  BY <1>5, <1>6, <1>7, Induction
<1>9. g[Len(queue)] = h[Len(queue)]
  BY <1>5, <1>8 DEF S
<1> QED
  BY <1>3, <1>4, <1>9

LEMMA FlushedStates ==
  ASSUME NEW st \in States, NEW queue \in Seq(Updates)
  PROVE  Flushed(st, queue) \in States
<1>1. Len(queue) \in 0..Len(queue)
  BY LenProperties
<1> QED
  BY <1>1, FlushedRun DEF Run

\* What an empty queue does, and the last update of another.
LEMMA FlushedEmpty ==
  ASSUME NEW st \in States
  PROVE  Flushed(st, <<>>) = st
<1>1. <<>> \in Seq(Updates) /\ Len(<<>>) = 0
  BY EmptySeq
<1>2. PICK g : Run(g, st, <<>>) /\ Flushed(st, <<>>) = g[Len(<<>>)]
  BY <1>1, FlushedRun
<1>3. g[0] = st
  BY <1>2 DEF Run
<1> QED
  BY <1>1, <1>2, <1>3

LEMMA FlushedAppend ==
  ASSUME NEW st \in States, NEW queue \in Seq(Updates), NEW u \in Updates, NEW f \in FDs
  PROVE  Wanted(Flushed(st, Append(queue, u)).pfds, f) =
           Asked(Wanted(Flushed(st, queue).pfds, f), u, f)
<1> DEFINE n == Len(queue)
           longer == Append(queue, u)
<1>1. /\ longer \in Seq(Updates) /\ n \in Nat /\ Len(longer) = n + 1
      /\ longer[n + 1] = u /\ \A i \in 1..n : longer[i] = queue[i]
  BY AppendProperties, LenProperties
<1>2. PICK g : Run(g, st, queue) /\ Flushed(st, queue) = g[n]
  BY FlushedRun
<1> HIDE DEF longer
<1>3. PICK h : Run(h, st, longer) /\ Flushed(st, longer) = h[Len(longer)]
  BY <1>1, FlushedRun
<1> HIDE DEF n
<1>4. n <= Len(queue) /\ n <= Len(longer)
  BY <1>1 DEF n
<1>5. Wanted(g[n].pfds, f) = Wanted(h[n].pfds, f)
  BY <1>1, <1>2, <1>3, <1>4, RunsAgree
<1>6. n + 1 \in 1..Len(longer) /\ n \in 0..Len(longer) /\ (n + 1) - 1 = n
  BY <1>1
<1>7. h[n + 1] = Apply(h[n], u) /\ h[n] \in States
  BY <1>1, <1>3, <1>6 DEF Run
<1>8. Wanted(h[n + 1].pfds, f) = Asked(Wanted(h[n].pfds, f), u, f)
  BY <1>7, ApplyAsks
<1> QED
  BY <1>1, <1>2, <1>3, <1>5, <1>8 DEF longer

\* Containers that ask for the same do so after the same queue.
LEMMA FlushedSame ==
  ASSUME NEW a \in States, NEW b \in States, NEW queue \in Seq(Updates),
         \A f \in FDs : Wanted(a.pfds, f) = Wanted(b.pfds, f), NEW f \in FDs
  PROVE  Wanted(Flushed(a, queue).pfds, f) = Wanted(Flushed(b, queue).pfds, f)
<1>1. PICK g : Run(g, a, queue) /\ Flushed(a, queue) = g[Len(queue)]
  BY FlushedRun
<1>2. PICK h : Run(h, b, queue) /\ Flushed(b, queue) = h[Len(queue)]
  BY FlushedRun
<1>3. Len(queue) \in Nat
  BY LenProperties
<1> QED
  BY <1>1, <1>2, <1>3, RunsAgree

-----------------------------------------------------------------------------
(* The iterator *)

\* From the place that NextPolled gives there is to come exactly what there was
\* from i on.
LEMMA NextPolledLeft ==
  ASSUME NEW p \in Seq(Pollfd), NEW i \in Nat \ {0}
  PROVE  LET n == NextPolled(p, i)
             polled == {j \in i..Len(p) : p[j].revents # {}}
         IN /\ n \in 0..Len(p) /\ (n # 0 => p[n].revents # {})
            /\ {j \in DOMAIN p : n # 0 /\ j >= n /\ p[j].revents # {}} = polled
<1> DEFINE n == NextPolled(p, i)
           polled == {j \in i..Len(p) : p[j].revents # {}}
<1>1. Len(p) \in Nat /\ DOMAIN p = 1..Len(p)
  BY Entries
<1>2. n = IF polled = {} THEN 0 ELSE CHOOSE j \in polled : \A k \in polled : j <= k
  BY DEF NextPolled
<1> HIDE DEF n
<1>3. CASE polled = {}
  <2>1. n = 0
    BY <1>2, <1>3
  <2> QED
    BY <1>1, <1>3, <2>1 DEF n
<1>4. CASE polled # {}
  <2>1. polled \in SUBSET Nat
    OBVIOUS
  <2>2. \E j \in polled : \A k \in polled : j <= k
    BY <1>4, <2>1, LeastNumber
  <2>3. n \in polled /\ \A k \in polled : n <= k
    BY <1>2, <1>4, <2>2
  <2>4. n \in i..Len(p) /\ p[n].revents # {}
    BY <2>3
  <2>5. ASSUME NEW j \in DOMAIN p, p[j].revents # {}
        PROVE  j >= n <=> j \in i..Len(p)
    BY <1>1, <2>3, <2>4, <2>5
  <2>6. polled = {j \in DOMAIN p : j \in i..Len(p) /\ p[j].revents # {}}
    BY <1>1
  <2>7. {j \in DOMAIN p : n # 0 /\ j >= n /\ p[j].revents # {}} = polled
    BY <2>4, <2>5, <2>6
  <2> HIDE DEF polled
  <2>8. n \in 0..Len(p)
    BY <1>1, <2>4
  <2> QED
    BY <2>4, <2>7, <2>8 DEF n, polled
<1> QED
  BY <1>3, <1>4

-----------------------------------------------------------------------------
(* The invariant *)

LEMMA ContainersFields ==
  ASSUME TypeOK, Agree(Containers)
  PROVE  /\ Containers \in States
         /\ Containers.pfds = PollFDs /\ Containers.clients = Clients
         /\ Distinct(PollFDs) /\ DOMAIN Clients = Present(PollFDs)
         /\ Clients \in [Present(PollFDs) -> Events]
         /\ \A i \in 1..Len(PollFDs) : PollFDs[i].events # {}
         /\ Len(PollFDs) \in Nat /\ DOMAIN PollFDs = 1..Len(PollFDs)
<1>1. Containers \in [pfds : Seq(Pollfd), clients : ClientMaps]
  BY DEF Containers, TypeOK
<1>2. Containers \in States
  BY <1>1 DEF States
<1>3. Containers.pfds = PollFDs /\ Containers.clients = Clients
  BY DEF Containers
<1>4. Len(PollFDs) \in Nat /\ DOMAIN PollFDs = 1..Len(PollFDs)
  BY Entries DEF TypeOK
<1> QED
  BY <1>2, <1>3, <1>4, StateFields

LEMMA InitIInv ==
  Init => IInv
<1> SUFFICES ASSUME Init
             PROVE  IInv
  OBVIOUS
<1> USE DEF Init
<1>1. << >> \in [{} -> Events]
  OBVIOUS
<1>2. Clients \in ClientMaps
  BY <1>1 DEF ClientMaps
<1>3. TypeOK
  BY <1>2 DEF TypeOK, Events
<1>4. DOMAIN PollFDs = {} /\ DOMAIN Clients = {} /\ DOMAIN handled = {}
  OBVIOUS
<1>5. Agree(Containers)
  BY <1>4 DEF Agree, Containers, Distinct, Present
<1>6. WantedInv
  <2>1. Flush = Containers /\ Flush.pfds = PollFDs
    BY <1>3, <1>5, ContainersFields, FlushedEmpty DEF Flush
  <2> QED
    BY <1>4, <2>1 DEF WantedInv, Wanted
<1>7. HandledInv
  <2>1. Left = {} /\ Seen = {}
    BY <1>4 DEF Left, Seen
  <2> QED
    BY <1>4, <2>1 DEF HandledInv
<1> QED
  BY <1>3, <1>5, <1>6, <1>7 DEF IInv

\* Add and Remove append an update and note what it asks for.
LEMMA QueueStep ==
  ASSUME IInv, NEW u \in Updates,
         PollUpdates' = Append(PollUpdates, u),
         watched' = [watched EXCEPT ![u.fd] = Asked(@, u, u.fd)],
         UNCHANGED <<PollFDs, Clients, iter, ready, handled>>
  PROVE  IInv'
<1>1. TypeOK /\ Agree(Containers) /\ WantedInv /\ HandledInv
  BY DEF IInv
<1>2. u.fd \in FDs /\ u.events \subseteq Requests
  BY UpdateFields
<1>3. TypeOK'
  <2>1. PollUpdates' \in Seq(Updates)
    BY <1>1, AppendProperties DEF TypeOK
  <2>2. watched' \in [FDs -> SUBSET Requests]
    BY <1>1, <1>2 DEF TypeOK, Asked
  <2> QED
    BY <1>1, <2>1, <2>2 DEF TypeOK
<1>4. Containers' = Containers
  BY DEF Containers
<1>5. WantedInv'
  <2> SUFFICES ASSUME NEW f \in FDs
               PROVE  watched'[f] = Wanted(Flushed(Containers, PollUpdates').pfds, f)
    BY <1>4 DEF WantedInv, Flush
  <2>1. watched[f] = Wanted(Flushed(Containers, PollUpdates).pfds, f)
    BY <1>1 DEF WantedInv, Flush
  <2>2. Wanted(Flushed(Containers, PollUpdates').pfds, f) = Asked(watched[f], u, f)
    BY <1>1, <2>1, ContainersFields, FlushedAppend DEF TypeOK
  <2>3. watched'[f] = Asked(watched[f], u, f)
    BY <1>1, <1>2 DEF TypeOK, Asked
  <2> QED
    BY <2>2, <2>3
<1>6. HandledInv'
  <2>1. Left' = Left /\ Seen' = Seen
    BY DEF Left, Seen
  <2> QED
    BY <1>1, <2>1 DEF HandledInv
<1> QED
  BY <1>1, <1>3, <1>4, <1>5, <1>6 DEF IInv

LEMMA AddStep ==
  ASSUME IInv, NEW f \in FDs, NEW events \in EventSets, Add(f, events)
  PROVE  IInv'
<1> DEFINE u == [type |-> "AddClient", fd |-> f, events |-> events]
<1>1. u \in Updates /\ u.fd = f /\ u.events = events /\ u.type = "AddClient"
  BY DEF Updates
<1>2. PollUpdates' = Append(PollUpdates, u)
  BY DEF Add
<1> HIDE DEF u
<1>3. watched' = [watched EXCEPT ![u.fd] = Asked(@, u, u.fd)]
  BY <1>1 DEF Add, Asked
<1> QED
  BY <1>1, <1>2, <1>3, QueueStep DEF Add

LEMMA RemoveStep ==
  ASSUME IInv, NEW f \in FDs, NEW events \in EventSets, Remove(f, events)
  PROVE  IInv'
<1> DEFINE u == [type |-> "RemoveClient", fd |-> f, events |-> events]
<1>1. u \in Updates /\ u.fd = f /\ u.events = events /\ u.type # "AddClient"
  BY DEF Updates
<1>2. PollUpdates' = Append(PollUpdates, u)
  BY DEF Remove
<1> HIDE DEF u
<1>3. watched' = [watched EXCEPT ![u.fd] = Asked(@, u, u.fd)]
  BY <1>1 DEF Remove, Asked
<1> QED
  BY <1>1, <1>2, <1>3, QueueStep DEF Remove

\* Visit hands over the entry under the iterator, with the events in it, and
\* takes it from those to come.
LEMMA VisitMoves ==
  ASSUME IInv, Visit
  PROVE  LET p == PollFDs[iter]
         IN /\ p.fd \in FDs /\ p.revents \in Events /\ p.fd \in Present(PollFDs)
            /\ iter \in Left /\ Left' = Left \ {iter} /\ PollFDs' = PollFDs
            /\ iter' \in 0..Len(PollFDs) /\ (iter' # 0 => PollFDs[iter'].revents # {})
            /\ Clients' = [Clients EXCEPT ![p.fd] = p.revents]
            /\ Clients' \in [Present(PollFDs) -> Events]
            /\ handled' = Append(handled, <<p.fd, p.revents>>)
<1> DEFINE p == PollFDs[iter]
           i == iter + 1
<1>1. /\ Clients \in [Present(PollFDs) -> Events] /\ PollFDs \in Seq(Pollfd)
      /\ Len(PollFDs) \in Nat /\ DOMAIN PollFDs = 1..Len(PollFDs)
      /\ iter \in 1..Len(PollFDs)
  BY ContainersFields DEF IInv, TypeOK, Visit
<1>2. p.fd \in FDs /\ p.revents \in Events /\ p.revents # {} /\ p.fd \in Present(PollFDs)
  BY <1>1, Entries DEF IInv, HandledInv, Visit, Present
<1>3. Clients' = [Clients EXCEPT ![p.fd] = p.revents] /\ Clients' \in [Present(PollFDs) -> Events]
  BY <1>1, <1>2 DEF Visit
<1>4. handled' = Append(handled, <<p.fd, p.revents>>)
  BY <1>1, <1>2, <1>3 DEF Visit
<1>5. iter' = NextPolled(PollFDs, i) /\ PollFDs' = PollFDs /\ i \in Nat \ {0}
  BY <1>1 DEF Visit
<1> HIDE DEF i
<1>6. /\ iter' \in 0..Len(PollFDs) /\ (iter' # 0 => PollFDs[iter'].revents # {})
      /\ {j \in DOMAIN PollFDs : iter' # 0 /\ j >= iter' /\ PollFDs[j].revents # {}} =
           {j \in i..Len(PollFDs) : PollFDs[j].revents # {}}
  <2>1. /\ NextPolled(PollFDs, i) \in 0..Len(PollFDs)
        /\ NextPolled(PollFDs, i) # 0 => PollFDs[NextPolled(PollFDs, i)].revents # {}
        /\ {j \in DOMAIN PollFDs : /\ NextPolled(PollFDs, i) # 0
                                   /\ j >= NextPolled(PollFDs, i)
                                   /\ PollFDs[j].revents # {}} =
             {j \in i..Len(PollFDs) : PollFDs[j].revents # {}}
    BY <1>1, <1>5, NextPolledLeft
  <2> QED
    BY <1>5, <2>1
<1>7. Left = {j \in 1..Len(PollFDs) : j >= iter /\ PollFDs[j].revents # {}}
  BY <1>1 DEF Left
<1>8. iter \in Left
  BY <1>1, <1>2, <1>7
<1>9. Left' = {j \in i..Len(PollFDs) : PollFDs[j].revents # {}}
  BY <1>5, <1>6 DEF Left
<1>10. /\ i..Len(PollFDs) \subseteq 1..Len(PollFDs)
       /\ \A j \in 1..Len(PollFDs) : j \in i..Len(PollFDs) <=> j >= iter /\ j # iter
  BY <1>1 DEF i
<1>11. Left' = Left \ {iter}
  BY <1>7, <1>8, <1>9, <1>10
<1> QED
  BY <1>2, <1>3, <1>4, <1>5, <1>6, <1>8, <1>11

LEMMA VisitStep ==
  ASSUME IInv, Visit
  PROVE  IInv'
<1> DEFINE p == PollFDs[iter]
           pair == <<p.fd, p.revents>>
           m == Len(handled)
<1>1. TypeOK /\ Agree(Containers) /\ WantedInv /\ HandledInv
  BY DEF IInv
<1>2. /\ Containers \in States /\ Containers.pfds = PollFDs /\ Distinct(PollFDs)
      /\ \A i \in 1..Len(PollFDs) : PollFDs[i].events # {}
      /\ DOMAIN PollFDs = 1..Len(PollFDs)
  BY <1>1, ContainersFields
<1>3. PollFDs \in Seq(Pollfd) /\ handled \in Seq(FDs \X Events)
  BY <1>1 DEF TypeOK
<1>4. /\ p.fd \in FDs /\ p.revents \in Events /\ p.fd \in Present(PollFDs)
      /\ iter \in Left /\ Left' = Left \ {iter}
      /\ iter' \in 0..Len(PollFDs) /\ (iter' # 0 => PollFDs[iter'].revents # {})
      /\ Clients' \in [Present(PollFDs) -> Events]
      /\ handled' = Append(handled, pair)
  BY VisitMoves
<1>5. /\ pair \in FDs \X Events /\ pair[1] = p.fd /\ pair[2] = p.revents
  BY <1>4
<1> HIDE DEF pair
<1>6. /\ handled' \in Seq(FDs \X Events) /\ m \in Nat /\ Len(handled') = m + 1
      /\ DOMAIN handled = 1..m /\ DOMAIN handled' = 1..(m + 1)
      /\ handled'[m + 1] = pair /\ \A k \in 1..m : handled'[k] = handled[k]
  BY <1>3, <1>4, <1>5, AppendProperties, LenProperties
<1> HIDE DEF m
<1>7. /\ PollFDs' = PollFDs /\ PollUpdates' = PollUpdates
      /\ watched' = watched /\ ready' = ready
  BY DEF Visit
<1>8. TypeOK'
  <2>1. Clients' \in ClientMaps
    <3>1. Present(PollFDs) \in SUBSET FDs
      BY <1>2, <1>3, Entries DEF Present
    <3> QED
      BY <1>4, <3>1 DEF ClientMaps
  <2> QED
    BY <1>1, <1>4, <1>6, <1>7, <2>1 DEF TypeOK
<1>9. Containers' \in States /\ Containers'.pfds = PollFDs /\ Agree(Containers')
  <2>1. Containers' = [pfds |-> PollFDs, clients |-> Clients']
    BY <1>7 DEF Containers
  <2>2. [pfds |-> PollFDs, clients |-> Clients'] \in States
    BY <1>2, <1>3, <1>4, StateFrom
  <2> QED
    BY <2>1, <2>2 DEF States
<1>10. WantedInv'
  <2> SUFFICES ASSUME NEW f \in FDs
               PROVE  watched[f] = Wanted(Flushed(Containers', PollUpdates).pfds, f)
    BY <1>7 DEF WantedInv, Flush
  <2>1. watched[f] = Wanted(Flushed(Containers, PollUpdates).pfds, f)
    BY <1>1 DEF WantedInv, Flush
  <2>2. \A e \in FDs : Wanted(Containers.pfds, e) = Wanted(Containers'.pfds, e)
    BY <1>2, <1>9
  <2>3. Wanted(Flushed(Containers, PollUpdates).pfds, f) =
          Wanted(Flushed(Containers', PollUpdates).pfds, f)
    BY <1>1, <1>2, <1>9, <2>2, FlushedSame DEF TypeOK
  <2> QED
    BY <2>1, <2>3
<1>11. HandledInv'
  <2>1. Seen' = Seen \cup {p.fd}
    <3>1. Seen = {handled[k][1] : k \in 1..m}
      BY <1>6 DEF Seen
    <3>2. Seen' = {handled'[k][1] : k \in 1..(m + 1)}
      BY <1>6 DEF Seen
    <3>3. \A k \in 1..(m + 1) : k \in 1..m \/ k = m + 1
      BY <1>6
    <3>4. 1..m \subseteq 1..(m + 1) /\ m + 1 \in 1..(m + 1)
      BY <1>6
    <3>5. /\ \A k \in 1..m : handled'[k][1] = handled[k][1]
          /\ handled'[m + 1][1] = p.fd
      BY <1>5, <1>6
    <3> QED
      BY <3>1, <3>2, <3>3, <3>4, <3>5
  <2>2. p.fd \notin Seen /\ ready[p.fd] = p.revents
    BY <1>1, <1>4 DEF HandledInv
  <2>3. ASSUME NEW j \in Left'
        PROVE  ready[PollFDs[j].fd] = PollFDs[j].revents /\ PollFDs[j].fd \notin Seen'
    <3>1. j \in Left /\ j \in DOMAIN PollFDs /\ iter \in DOMAIN PollFDs /\ j # iter
      BY <1>4 DEF Left
    <3>2. PollFDs[j].fd # p.fd
      BY <1>2, <3>1 DEF Distinct
    <3> QED
      BY <1>1, <2>1, <3>1, <3>2 DEF HandledInv
  <2>4. ASSUME NEW k \in 1..(m + 1)
        PROVE  handled'[k][2] = ready[handled'[k][1]]
    <3>1. CASE k = m + 1
      BY <1>5, <1>6, <2>2, <3>1
    <3>2. CASE k \in 1..m
      BY <1>1, <1>6, <3>2 DEF HandledInv
    <3> QED
      BY <1>6, <3>1, <3>2
  <2>5. ASSUME NEW k \in 1..(m + 1), NEW l \in 1..(m + 1), handled'[k][1] = handled'[l][1]
        PROVE  k = l
    <3>1. \A i \in 1..m : handled[i][1] \in Seen
      BY <1>6 DEF Seen
    <3>2. \A i, j \in 1..m : handled[i][1] = handled[j][1] => i = j
      BY <1>1, <1>6 DEF HandledInv
    <3>3. (k \in 1..m \/ k = m + 1) /\ (l \in 1..m \/ l = m + 1)
      BY <1>6
    <3> QED
      BY <1>5, <1>6, <2>2, <2>5, <3>1, <3>2, <3>3
  <2>6. Seen' \cup {PollFDs[j].fd : j \in Left'} = Seen \cup {PollFDs[j].fd : j \in Left}
    BY <1>4, <2>1
  <2>7. iter' # 0 => PollFDs'[iter'].revents # {}
    BY <1>4, <1>7
  <2>8. Seen' \cup {PollFDs'[j].fd : j \in Left'} = {f \in FDs : ready'[f] # {}}
    BY <1>1, <1>7, <2>6 DEF HandledInv
  <2> QED
    BY <1>6, <1>7, <2>3, <2>4, <2>5, <2>7, <2>8 DEF HandledInv
<1> QED
  BY <1>8, <1>9, <1>10, <1>11 DEF IInv

\* Break leaves the loop.
LEMMA BreakStep ==
  ASSUME IInv, Break
  PROVE  IInv'
<1>1. TypeOK /\ Agree(Containers) /\ WantedInv /\ HandledInv
  BY DEF IInv
<1>2. /\ iter' = 0 /\ ready' = [f \in FDs |-> {}] /\ handled' = <<>>
      /\ PollFDs' = PollFDs /\ Clients' = Clients
      /\ PollUpdates' = PollUpdates /\ watched' = watched
  BY DEF Break
<1>3. Len(PollFDs) \in Nat
  BY <1>1, ContainersFields
<1>4. TypeOK'
  BY <1>1, <1>2, <1>3 DEF TypeOK, Events
<1>5. Containers' = Containers
  BY <1>2 DEF Containers
<1>6. WantedInv'
  BY <1>1, <1>2, <1>5 DEF WantedInv, Flush
<1>7. DOMAIN handled' = {}
  BY <1>2
<1>8. Left' = {} /\ Seen' = {}
  BY <1>2, <1>7 DEF Left, Seen
<1>9. HandledInv'
  BY <1>2, <1>7, <1>8 DEF HandledInv
<1> QED
  BY <1>1, <1>4, <1>5, <1>6, <1>9 DEF IInv

\* New reports in the entries of a vector change nothing else.
LEMMA ReportedEntries ==
  ASSUME NEW p \in Seq(Pollfd), Distinct(p), \A i \in 1..Len(p) : p[i].events # {},
         NEW report \in [1..Len(p) -> Events]
  PROVE  LET q == [i \in 1..Len(p) |-> [p[i] EXCEPT !.revents = report[i]]]
         IN /\ q \in Seq(Pollfd) /\ Len(q) = Len(p) /\ Present(q) = Present(p)
            /\ \A i \in 1..Len(p) : q[i].fd = p[i].fd /\ q[i].revents = report[i]
            /\ Distinct(q) /\ \A i \in 1..Len(q) : q[i].events # {}
            /\ \A f \in FDs : Wanted(q, f) = Wanted(p, f)
<1> DEFINE q == [i \in 1..Len(p) |-> [p[i] EXCEPT !.revents = report[i]]]
<1>1. /\ Len(p) \in Nat /\ DOMAIN p = 1..Len(p)
      /\ \A i \in 1..Len(p) : p[i] \in Pollfd
  BY Entries
<1>2. ASSUME NEW i \in 1..Len(p)
      PROVE  /\ q[i] \in Pollfd /\ q[i].fd = p[i].fd
             /\ q[i].events = p[i].events /\ q[i].revents = report[i]
  BY <1>1 DEF Pollfd
<1>3. q \in [1..Len(p) -> Pollfd]
  BY <1>2
<1> HIDE DEF q
<1>4. q \in Seq(Pollfd) /\ Len(q) = Len(p) /\ DOMAIN q = 1..Len(p)
  BY <1>1, <1>3, MadeOf
<1>5. Present(q) = Present(p)
  BY <1>1, <1>2, <1>4 DEF Present
<1>6. Distinct(q) /\ \A i \in 1..Len(q) : q[i].events # {}
  BY <1>1, <1>2, <1>4 DEF Distinct
<1>7. \A f \in FDs : Wanted(q, f) = Wanted(p, f)
  BY <1>1, <1>2, <1>4 DEF Wanted
<1> QED
  BY <1>2, <1>4, <1>5, <1>6, <1>7 DEF q

LEMMA ResetState ==
  ASSUME NEW st \in States
  PROVE  /\ ResetReceivedEvents(st) \in States
         /\ \A f \in FDs : Wanted(ResetReceivedEvents(st).pfds, f) = Wanted(st.pfds, f)
<1> DEFINE p == st.pfds
           none == [i \in 1..Len(p) |-> {}]
           q == [i \in 1..Len(p) |-> [p[i] EXCEPT !.revents = none[i]]]
           m == [f \in Present(p) |-> {}]
<1>1. /\ p \in Seq(Pollfd) /\ Distinct(p) /\ DOMAIN st.clients = Present(p)
      /\ DOMAIN p = 1..Len(p) /\ \A i \in 1..Len(p) : p[i].events # {}
  BY StateFields, Entries
<1>2. none \in [1..Len(p) -> Events]
  BY DEF Events
<1>3. ResetReceivedEvents(st) = [pfds |-> q, clients |-> m]
  BY <1>1 DEF ResetReceivedEvents
<1> HIDE DEF none
<1>4. /\ q \in Seq(Pollfd) /\ Present(q) = Present(p)
      /\ Distinct(q) /\ \A i \in 1..Len(q) : q[i].events # {}
      /\ \A f \in FDs : Wanted(q, f) = Wanted(p, f)
  BY <1>1, <1>2, ReportedEntries
<1> HIDE DEF q
<1>5. m \in [Present(q) -> Events]
  BY <1>4 DEF Events
<1> HIDE DEF m
<1>6. [pfds |-> q, clients |-> m] \in States
  BY <1>4, <1>5, StateFrom
<1>7. ResetReceivedEvents(st).pfds = q
  BY <1>3
<1> QED
  BY <1>3, <1>4, <1>6, <1>7

\* Poll flushes the queue, and hands out what poll(2) reports.
LEMMA PollStep ==
  ASSUME IInv, Poll
  PROVE  IInv'
<1>1. TypeOK /\ Agree(Containers) /\ WantedInv /\ HandledInv
  BY DEF IInv
<1>2. Flush \in States
  BY <1>1, ContainersFields, FlushedStates DEF Flush, TypeOK
<1>3. PICK state \in {ResetReceivedEvents(Flush)} : \E report \in Reports(state.pfds) :
        LET status == Cardinality({i \in DOMAIN report : report[i] # {}})
            Reported(f, entries) ==
              UNION {report[i] : i \in {j \in entries : state.pfds[j].fd = f}}
        IN /\ PollFDs' = [i \in DOMAIN report |->
                            [state.pfds[i] EXCEPT !.revents = report[i]]]
           /\ Clients' = [f \in DOMAIN state.clients |-> Reported(f, 1..status)]
           /\ ready' = [f \in FDs |-> Reported(f, DOMAIN report)]
  BY DEF Poll
<1> DEFINE p == state.pfds
           n == Len(p)
<1>4. PICK report \in Reports(p) :
        LET status == Cardinality({i \in DOMAIN report : report[i] # {}})
            Reported(f, entries) ==
              UNION {report[i] : i \in {j \in entries : p[j].fd = f}}
        IN /\ PollFDs' = [i \in DOMAIN report |-> [p[i] EXCEPT !.revents = report[i]]]
           /\ Clients' = [f \in DOMAIN state.clients |-> Reported(f, 1..status)]
           /\ ready' = [f \in FDs |-> Reported(f, DOMAIN report)]
  BY <1>3
<1> DEFINE status == Cardinality({i \in DOMAIN report : report[i] # {}})
           Reported(f, entries) == UNION {report[i] : i \in {j \in entries : p[j].fd = f}}
<1>5. /\ p \in Seq(Pollfd) /\ n \in Nat /\ DOMAIN p = 1..n
      /\ \A i \in 1..n : p[i].fd \in FDs /\ p[i].events # {}
      /\ Distinct(p) /\ DOMAIN state.clients = Present(p)
      /\ \A f \in FDs : Wanted(p, f) = Wanted(Flush.pfds, f)
  <2>1. state = ResetReceivedEvents(Flush)
    BY <1>3
  <2>2. state \in States /\ \A f \in FDs : Wanted(p, f) = Wanted(Flush.pfds, f)
    BY <1>2, <2>1, ResetState
  <2> QED
    BY <2>2, StateFields, Entries
<1>6. report \in [1..n -> Events] /\ DOMAIN report = 1..n
  BY <1>5 DEF Reports, Events
<1>7. /\ PollFDs' = [i \in 1..n |-> [p[i] EXCEPT !.revents = report[i]]]
      /\ Clients' = [f \in Present(p) |-> Reported(f, 1..status)]
      /\ ready' = [f \in FDs |-> Reported(f, 1..n)]
  BY <1>4, <1>5, <1>6
<1>8. /\ PollFDs' \in Seq(Pollfd) /\ Len(PollFDs') = n /\ Present(PollFDs') = Present(p)
      /\ \A i \in 1..n : PollFDs'[i].fd = p[i].fd /\ PollFDs'[i].revents = report[i]
      /\ Distinct(PollFDs') /\ \A i \in 1..Len(PollFDs') : PollFDs'[i].events # {}
      /\ \A f \in FDs : Wanted(PollFDs', f) = Wanted(p, f)
  <2> DEFINE q == [i \in 1..Len(p) |-> [p[i] EXCEPT !.revents = report[i]]]
  <2>1. /\ q \in Seq(Pollfd) /\ Len(q) = Len(p) /\ Present(q) = Present(p)
        /\ \A i \in 1..Len(p) : q[i].fd = p[i].fd /\ q[i].revents = report[i]
        /\ Distinct(q) /\ \A i \in 1..Len(q) : q[i].events # {}
        /\ \A f \in FDs : Wanted(q, f) = Wanted(p, f)
    BY <1>5, <1>6, ReportedEntries
  <2>2. PollFDs' = q
    BY <1>7
  <2> QED
    BY <2>1, <2>2
<1>9. status \in 0..n
  <2> DEFINE R == {i \in 1..n : report[i] # {}}
  <2>1. IsFiniteSet(1..n) /\ Cardinality(1..n) = n
    BY <1>5, FS_Interval
  <2>2. IsFiniteSet(R) /\ Cardinality(R) <= n
    BY <2>1, FS_Subset
  <2>3. Cardinality(R) \in Nat
    BY <2>2, FS_CardinalityType
  <2>4. status = Cardinality(R)
    BY <1>6
  <2> HIDE DEF R, status
  <2> QED
    BY <1>5, <2>2, <2>3, <2>4
<1>10. \A f \in FDs, k \in 0..n : Reported(f, 1..k) \in Events
  <2> SUFFICES ASSUME NEW f \in FDs, NEW k \in 0..n, NEW e \in Reported(f, 1..k)
               PROVE  e \in Requests \cup Errors
    BY DEF Events
  <2>1. PICK i \in 1..k : e \in report[i]
    OBVIOUS
  <2>2. i \in 1..n
    BY <1>5
  <2> QED
    BY <1>6, <2>1, <2>2 DEF Events
<1>11. ASSUME NEW i \in 1..n PROVE Reported(p[i].fd, 1..n) = report[i]
  <2>1. {j \in 1..n : p[j].fd = p[i].fd} = {i}
    BY <1>5 DEF Distinct
  <2> QED
    BY <2>1
<1>12. Present(p) \in SUBSET FDs
  BY <1>5 DEF Present
<1> HIDE DEF status, Reported
<1>13. Clients' \in [Present(PollFDs') -> Events]
  BY <1>7, <1>8, <1>9, <1>10, <1>12
<1>14. ready' \in [FDs -> Events]
  <2>1. n \in 0..n
    BY <1>5
  <2> QED
    BY <1>7, <1>10, <2>1
<1>15. /\ iter' = NextPolled(PollFDs', 1) /\ PollUpdates' = <<>> /\ handled' = <<>>
       /\ watched' = watched
  BY DEF Poll
<1> HIDE DEF p, n
<1>16. /\ iter' \in 0..Len(PollFDs') /\ (iter' # 0 => PollFDs'[iter'].revents # {})
       /\ {j \in DOMAIN PollFDs' : iter' # 0 /\ j >= iter' /\ PollFDs'[j].revents # {}} =
            {j \in 1..Len(PollFDs') : PollFDs'[j].revents # {}}
  <2>1. 1 \in Nat \ {0}
    OBVIOUS
  <2>2. /\ NextPolled(PollFDs', 1) \in 0..Len(PollFDs')
        /\ NextPolled(PollFDs', 1) # 0 => PollFDs'[NextPolled(PollFDs', 1)].revents # {}
        /\ {j \in DOMAIN PollFDs' : /\ NextPolled(PollFDs', 1) # 0
                                    /\ j >= NextPolled(PollFDs', 1)
                                    /\ PollFDs'[j].revents # {}} =
             {j \in 1..Len(PollFDs') : PollFDs'[j].revents # {}}
    BY <1>8, <2>1, NextPolledLeft
  <2> QED
    BY <1>15, <2>2
<1>17. TypeOK'
  <2>1. Clients' \in ClientMaps
    BY <1>8, <1>12, <1>13 DEF ClientMaps
  <2> QED
    BY <1>1, <1>8, <1>14, <1>15, <1>16, <2>1 DEF TypeOK
<1>18. Containers' \in States /\ Containers'.pfds = PollFDs' /\ Agree(Containers')
  <2>1. Containers' = [pfds |-> PollFDs', clients |-> Clients']
    BY DEF Containers
  <2>2. [pfds |-> PollFDs', clients |-> Clients'] \in States
    BY <1>8, <1>13, StateFrom
  <2> QED
    BY <2>1, <2>2 DEF States
<1>19. WantedInv'
  <2>1. Flush' = Containers'
    BY <1>15, <1>18, FlushedEmpty DEF Flush
  <2> SUFFICES ASSUME NEW f \in FDs
               PROVE  watched[f] = Wanted(PollFDs', f)
    BY <1>15, <1>18, <2>1 DEF WantedInv
  <2> QED
    BY <1>1, <1>5, <1>8 DEF WantedInv
<1>20. HandledInv'
  <2>1. DOMAIN handled' = {} /\ Seen' = {}
    BY <1>15 DEF Seen
  <2>2. Left' = {j \in 1..n : report[j] # {}}
    BY <1>8, <1>16 DEF Left
  <2>3. \A j \in 1..n : ready'[p[j].fd] = report[j]
    BY <1>5, <1>7, <1>11
  <2>4. {p[j].fd : j \in {j \in 1..n : report[j] # {}}} = {f \in FDs : ready'[f] # {}}
    <3>1. ASSUME NEW f \in FDs, ready'[f] # {}
          PROVE  \E j \in 1..n : report[j] # {} /\ p[j].fd = f
      BY <1>7, <3>1 DEF Reported
    <3> QED
      BY <1>5, <2>3, <3>1
  <2>5. {PollFDs'[j].fd : j \in Left'} = {f \in FDs : ready'[f] # {}}
    BY <1>8, <2>2, <2>4
  <2>6. \A j \in Left' : ready'[PollFDs'[j].fd] = PollFDs'[j].revents
    BY <1>8, <2>2, <2>3
  <2> QED
    BY <1>16, <2>1, <2>5, <2>6 DEF HandledInv
<1> QED
  BY <1>17, <1>18, <1>19, <1>20 DEF IInv

\* A step that changes nothing.
LEMMA StutterStep ==
  ASSUME IInv, UNCHANGED vars
  PROVE  IInv'
<1>1. /\ PollFDs' = PollFDs /\ Clients' = Clients /\ PollUpdates' = PollUpdates
      /\ iter' = iter /\ watched' = watched /\ ready' = ready /\ handled' = handled
  BY DEF vars
<1>2. Containers' = Containers /\ Left' = Left /\ Seen' = Seen
  BY <1>1 DEF Containers, Left, Seen
<1> QED
  BY <1>1, <1>2 DEF IInv, TypeOK, WantedInv, Flush, HandledInv

\* The inductive invariant: vector and map agree, the queue adds up to what was
\* asked for, and what the iterator has still to come to is fresh.
THEOREM Invariance == Spec => []IInv
<1>1. IInv /\ [Next]_vars => IInv'
  BY AddStep, RemoveStep, PollStep, VisitStep, BreakStep, StutterStep DEF Next
<1> QED
  BY <1>1, InitIInv, PTL DEF Spec

-----------------------------------------------------------------------------
(* What follows *)

\* Every variable of the poller keeps its type, for queues of any length.
THEOREM TypeCorrect == Spec => []TypeOK
<1>1. IInv => TypeOK
  BY DEF IInv
<1> QED
  BY <1>1, Invariance, PTL

\* PollFDs and Clients never come apart: RemoveClient erases from both, however
\* many updates one Flush applies.
THEOREM VectorAndMapAgree == Spec => []ContainersAgree
<1>1. ASSUME IInv PROVE ContainersAgree
  <2> DEFINE n == Len(PollFDs)
             f == [i \in 1..n |-> PollFDs[i].fd]
  <2>1. /\ Distinct(PollFDs) /\ DOMAIN Clients = Present(PollFDs)
        /\ \A i \in 1..n : PollFDs[i].events # {}
        /\ n \in Nat /\ DOMAIN PollFDs = 1..n
    BY <1>1, ContainersFields DEF IInv
  <2>2. \A i \in 1..n : f[i] = PollFDs[i].fd
    OBVIOUS
  <2>3. DOMAIN f = 1..n /\ \A i, j \in 1..n : f[i] = f[j] => i = j
    BY <2>1 DEF Distinct
  <2>4. \A x : x \in Present(PollFDs) <=> \E i \in 1..n : f[i] = x
    BY <2>1, <2>2 DEF Present
  <2> HIDE DEF f, n
  <2>5. Cardinality(Present(PollFDs)) = n
    BY <2>1, <2>3, <2>4, DistinctCount
  <2> QED
    BY <2>1, <2>5 DEF ContainersAgree, n
<1> QED
  BY <1>1, Invariance, PTL

\* Whatever was queued while the handlers ran, the next poll(2) is asked for
\* exactly the events that the Add and Remove calls add up to.
THEOREM QueueHidesNothing == Spec => []PollsWhatWasAsked
<1>1. ASSUME IInv PROVE PollsWhatWasAsked
  <2> DEFINE p == Flush.pfds
  <2>1. Flush \in States
    BY <1>1, ContainersFields, FlushedStates DEF IInv, Flush, TypeOK
  <2>2. /\ p \in Seq(Pollfd) /\ Distinct(p) /\ DOMAIN p = 1..Len(p)
        /\ \A i \in 1..Len(p) : p[i].events \subseteq Requests
    BY <2>1, StateFields, Entries
  <2> HIDE DEF p
  <2>3. ASSUME NEW f \in FDs
        PROVE  Wanted(p, f) = IF f \in Present(p)
                                THEN p[CHOOSE i \in DOMAIN p : p[i].fd = f].events
                                ELSE {}
    <3>1. CASE f \in Present(p)
      <4> DEFINE k == CHOOSE i \in DOMAIN p : p[i].fd = f
      <4>1. \E i \in DOMAIN p : p[i].fd = f
        BY <3>1 DEF Present
      <4>2. k \in DOMAIN p /\ p[k].fd = f
        BY <4>1
      <4> HIDE DEF k
      <4>3. Wanted(p, f) = p[k].events
        BY <2>2, <4>2 DEF Wanted, Distinct
      <4> QED
        BY <3>1, <4>3 DEF k
    <3>2. CASE f \notin Present(p)
      BY <3>2 DEF Wanted, Present
    <3> QED
      BY <3>1, <3>2
  <2>4. \A f \in FDs : watched[f] = Wanted(p, f)
    BY <1>1 DEF IInv, WantedInv, p
  <2> QED
    BY <2>3, <2>4 DEF PollsWhatWasAsked, p
<1> QED
  BY <1>1, Invariance, PTL

\* Each reported FD is handled once, with this poll's events and no other's,
\* whatever Handle queues while the iterator is under way.
THEOREM EachReportHandledOnce == Spec => []HandledOnceFresh
<1>1. ASSUME IInv PROVE HandledOnceFresh
  <2> DEFINE n == Len(handled)
             f == [k \in 1..n |-> handled[k][1]]
  <2>1. HandledInv /\ n \in Nat /\ DOMAIN handled = 1..n
    BY <1>1, LenProperties DEF IInv, TypeOK
  <2>2. \A k \in 1..n : f[k] = handled[k][1]
    OBVIOUS
  <2>3. DOMAIN f = 1..n /\ \A k, l \in 1..n : f[k] = f[l] => k = l
    BY <2>1 DEF HandledInv
  <2>4. \A x : x \in Seen <=> \E k \in 1..n : f[k] = x
    BY <2>1, <2>2 DEF Seen
  <2> HIDE DEF f, n
  <2>5. Cardinality(Seen) = n
    BY <2>1, <2>3, <2>4, DistinctCount
  <2> QED
    BY <2>1, <2>5 DEF HandledOnceFresh, HandledInv, n
<1> QED
  BY <1>1, Invariance, PTL

-----------------------------------------------------------------------------
(* The poller implements Dispatch *)

\* What is pending of an FD is the report in its entry, if that is still to come.
LEMMA PendingOf ==
  ASSUME NEW p \in Seq(Pollfd), Distinct(p), NEW left \in SUBSET DOMAIN p
  PROVE  /\ \A j \in left : /\ j \in 1..Len(p) /\ p[j].fd \in FDs
                            /\ ReportsAt(p, left)[p[j].fd] = p[j].revents
         /\ \A f \in FDs : (\A j \in left : p[j].fd # f) => ReportsAt(p, left)[f] = {}
<1>1. DOMAIN p = 1..Len(p) /\ \A i \in 1..Len(p) : p[i].fd \in FDs
  BY Entries
<1>2. ASSUME NEW j \in left
      PROVE  j \in 1..Len(p) /\ p[j].fd \in FDs /\ ReportsAt(p, left)[p[j].fd] = p[j].revents
  <2>1. {k \in left : p[k].fd = p[j].fd} = {j}
    BY DEF Distinct
  <2>2. ReportsAt(p, left)[p[j].fd] = UNION {p[k].revents : k \in {j}}
    BY <1>1, <2>1 DEF ReportsAt
  <2> QED
    BY <1>1, <2>2
<1>3. ASSUME NEW f \in FDs, \A j \in left : p[j].fd # f
      PROVE  ReportsAt(p, left)[f] = {}
  BY <1>3 DEF ReportsAt
<1> QED
  BY <1>2, <1>3

\* With nothing left there is nothing pending.
LEMMA PendingNone ==
  ASSUME Left = {}
  PROVE  Pending = [f \in FDs |-> {}]
  BY DEF Pending, ReportsAt

\* poll(2) reports what it was asked for, and errors.
LEMMA PollReports ==
  ASSUME IInv, Poll
  PROVE  \A i \in DOMAIN PollFDs' :
           PollFDs'[i].revents \subseteq PollFDs'[i].events \cup Errors
<1>1. Flush \in States
  BY ContainersFields, FlushedStates DEF IInv, Flush, TypeOK
<1>2. PICK state \in {ResetReceivedEvents(Flush)} : \E report \in Reports(state.pfds) :
        PollFDs' = [i \in DOMAIN report |-> [state.pfds[i] EXCEPT !.revents = report[i]]]
  BY DEF Poll
<1>3. PICK report \in Reports(state.pfds) :
        PollFDs' = [i \in DOMAIN report |-> [state.pfds[i] EXCEPT !.revents = report[i]]]
  BY <1>2
<1>4. state.pfds \in Seq(Pollfd)
  BY <1>1, <1>2, ResetState, StateFields
<1>5. /\ DOMAIN report = DOMAIN state.pfds
      /\ \A i \in DOMAIN state.pfds : report[i] \subseteq state.pfds[i].events \cup Errors
  BY <1>3 DEF Reports
<1>6. \A i \in DOMAIN state.pfds : state.pfds[i] \in Pollfd
  BY <1>4, Entries
<1> QED
  BY <1>3, <1>5, <1>6 DEF Pollfd

LEMMA PromiseInit == Init => Promise!Init
<1> SUFFICES ASSUME Init
             PROVE  Promise!Init
  OBVIOUS
<1>1. Left = {}
  BY DEF Left, Init
<1> QED
  BY <1>1, PendingNone DEF Promise!Init, Promise!Nothing, Init

LEMMA PromiseQueue ==
  ASSUME NEW f \in FDs, NEW events \in EventSets, Add(f, events) \/ Remove(f, events)
  PROVE  Promise!Next
<1>1. Pending' = Pending
  BY DEF Add, Remove, Pending, ReportsAt, Left
<1>2. CASE Add(f, events)
  <2>1. Promise!Ask(f, events)
    BY <1>1, <1>2 DEF Add, Promise!Ask
  <2> QED
    BY <2>1 DEF Promise!Next, EventSets
<1>3. CASE Remove(f, events)
  <2>1. Promise!Withdraw(f, events)
    BY <1>1, <1>3 DEF Remove, Promise!Withdraw
  <2> QED
    BY <2>1 DEF Promise!Next, EventSets
<1> QED
  BY <1>2, <1>3

LEMMA PromisePoll ==
  ASSUME IInv, Poll
  PROVE  Promise!Next
<1>1. IInv'
  BY PollStep
<1>2. /\ TypeOK' /\ Distinct(PollFDs') /\ DOMAIN PollFDs' = 1..Len(PollFDs')
      /\ \A i \in 1..Len(PollFDs') : PollFDs'[i].events # {}
      /\ Containers' \in States /\ Containers'.pfds = PollFDs'
  <2>1. TypeOK' /\ Agree(Containers')
    BY <1>1 DEF IInv
  <2>2. Containers' = [pfds |-> PollFDs', clients |-> Clients']
    BY DEF Containers
  <2>3. PollFDs' \in Seq(Pollfd) /\ Clients' \in ClientMaps
    BY <2>1 DEF TypeOK
  <2>4. Containers' \in States /\ Containers'.pfds = PollFDs'
    BY <2>1, <2>2, <2>3 DEF States
  <2> QED
    BY <2>1, <2>3, <2>4, StateFields, Entries
<1>3. PollUpdates' = <<>> /\ handled' = <<>> /\ watched' = watched /\ iter = 0
  BY DEF Poll
<1>4. \A f \in FDs : watched[f] = Wanted(PollFDs', f)
  <2>1. Flush' = Containers'
    BY <1>2, <1>3, FlushedEmpty DEF Flush
  <2> QED
    BY <1>1, <1>2, <1>3, <2>1 DEF IInv, WantedInv
<1>5. Pending = [f \in FDs |-> {}]
  <2>1. Left = {}
    BY <1>3 DEF Left
  <2> QED
    BY <2>1, PendingNone
<1>6. ASSUME NEW f \in FDs
      PROVE  /\ Pending'[f] \subseteq Requests \cup Errors
             /\ Pending'[f] \subseteq IF watched[f] = {} THEN {} ELSE watched[f] \cup Errors
  <2>1. /\ \A j \in Left' : /\ j \in 1..Len(PollFDs')
                            /\ Pending'[PollFDs'[j].fd] = PollFDs'[j].revents
        /\ (\A j \in Left' : PollFDs'[j].fd # f) => Pending'[f] = {}
    <3>1. PollFDs' \in Seq(Pollfd) /\ Left' \in SUBSET DOMAIN PollFDs'
      BY <1>2 DEF TypeOK, Left
    <3>2. Pending' = ReportsAt(PollFDs', Left')
      BY DEF Pending
    <3> QED
      BY <1>2, <3>1, <3>2, PendingOf
  <2>2. CASE \A j \in Left' : PollFDs'[j].fd # f
    BY <2>1, <2>2
  <2>3. ASSUME NEW j \in Left', PollFDs'[j].fd = f
        PROVE  /\ Pending'[f] \subseteq Requests \cup Errors
               /\ watched[f] # {}
               /\ Pending'[f] \subseteq watched[f] \cup Errors
    <3>1. /\ j \in DOMAIN PollFDs' /\ PollFDs'[j].events # {}
          /\ Pending'[f] = PollFDs'[j].revents
      BY <1>2, <2>1, <2>3
    <3>2. PollFDs'[j].events \subseteq Requests
      BY <1>2, <3>1, Entries DEF TypeOK
    <3>3. PollFDs'[j].events \subseteq watched[f]
      BY <1>4, <2>3, <3>1, <3>2 DEF Wanted
    <3>4. PollFDs'[j].revents \subseteq PollFDs'[j].events \cup Errors
      BY <3>1, PollReports
    <3> QED
      BY <3>1, <3>2, <3>3, <3>4
  <2> QED
    BY <2>2, <2>3
<1>7. Pending' \in [FDs -> SUBSET (Requests \cup Errors)]
  <2>1. Pending' = [f \in FDs |-> Pending'[f]]
    BY DEF Pending, ReportsAt
  <2> QED
    BY <1>6, <2>1
<1>8. Promise!Report
  BY <1>3, <1>5, <1>6, <1>7 DEF Promise!Report, Promise!Nothing
<1> QED
  BY <1>8 DEF Promise!Next

LEMMA PromiseVisit ==
  ASSUME IInv, Visit
  PROVE  Promise!Next
<1> DEFINE p == PollFDs[iter]
<1>1. TypeOK /\ Distinct(PollFDs)
  BY ContainersFields DEF IInv
<1>2. /\ iter \in Left /\ Left' = Left \ {iter} /\ PollFDs' = PollFDs
      /\ handled' = Append(handled, <<p.fd, p.revents>>)
  BY VisitMoves
<1>3. p.fd \in FDs /\ Pending[p.fd] = p.revents /\ p.revents # {}
  <2>1. PollFDs \in Seq(Pollfd) /\ Left \in SUBSET DOMAIN PollFDs /\ p.revents # {}
    BY <1>1, <1>2 DEF TypeOK, Left
  <2>2. Pending = ReportsAt(PollFDs, Left)
    BY DEF Pending
  <2> QED
    BY <1>1, <1>2, <2>1, <2>2, PendingOf
<1>4. Pending' = [Pending EXCEPT ![p.fd] = {}]
  <2>1. ASSUME NEW f \in FDs, f # p.fd
        PROVE  {k \in Left' : PollFDs'[k].fd = f} = {k \in Left : PollFDs[k].fd = f}
    BY <1>2, <2>1
  <2>2. {k \in Left' : PollFDs'[k].fd = p.fd} = {}
    BY <1>1, <1>2 DEF Distinct, Left
  <2>3. Pending' = [f \in FDs |-> UNION {PollFDs'[j].revents :
                                           j \in {k \in Left' : PollFDs'[k].fd = f}}]
    BY DEF Pending, ReportsAt
  <2>4. ASSUME NEW f \in FDs
        PROVE  Pending'[f] = IF f = p.fd THEN {} ELSE Pending[f]
    BY <1>2, <2>1, <2>2, <2>3 DEF Pending, ReportsAt
  <2>5. Pending = [f \in FDs |-> Pending[f]] /\ Pending' = [f \in FDs |-> Pending'[f]]
    BY DEF Pending, ReportsAt
  <2> QED
    BY <2>4, <2>5
<1>5. Promise!HandOver(p.fd)
  BY <1>2, <1>3, <1>4 DEF Promise!HandOver, Visit
<1> QED
  BY <1>3, <1>5 DEF Promise!Next

LEMMA PromiseBreak ==
  ASSUME Break
  PROVE  Promise!Next
<1>1. Left' = {} /\ handled' = <<>> /\ watched' = watched
  BY DEF Break, Left
<1>2. Pending' = [f \in FDs |-> {}]
  BY <1>1 DEF Pending, ReportsAt
<1>3. Promise!GiveUp
  BY <1>1, <1>2 DEF Promise!GiveUp, Promise!Nothing
<1> QED
  BY <1>3 DEF Promise!Next

\* The poller implements its promise, with queues and vectors of any length:
\* every call is what Dispatch says of it.
THEOREM Refinement == Spec => DispatchSpec
<1>1. IInv /\ [Next]_vars => [Promise!Next]_(Promise!vars)
  <2>1. ASSUME UNCHANGED vars PROVE UNCHANGED Promise!vars
    BY <2>1 DEF vars, Promise!vars, Pending, ReportsAt, Left
  <2> QED
    BY <2>1, PromiseQueue, PromisePoll, PromiseVisit, PromiseBreak DEF Next
<1> QED
  BY <1>1, PromiseInit, Invariance, PTL DEF Spec, DispatchSpec, Promise!Spec
=============================================================================
