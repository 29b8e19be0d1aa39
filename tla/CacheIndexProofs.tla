-------------------------- MODULE CacheIndexProofs --------------------------
(***************************************************************************)
(* Proofs about CacheIndex: type correctness, and four safety invariants,  *)
(* for any number of clients, of addresses and of blocks.                  *)
(*                                                                         *)
(* TypeOK and Agree (what is entered under an address belongs to it) are   *)
(* proved first; each property is then the last part of an invariant of    *)
(* its own, whose step uses those two.                                     *)
(***************************************************************************)
EXTENDS CacheIndex, TLAPS

\* The steps that touch neither the index nor a list of listeners are named
\* together: the proofs split Next by these actions.
LEMMA NextCases ==
  ASSUME Next
  PROVE  \E c \in Clients :
           \/ HasRecord(c) \/ Register(c) \/ Connect(c) \/ ConnectFails(c) \/ Insert(c)
           \/ Find(c) \/ AddToRecord(c) \/ StopReading(c) \/ Gone(c)
           \/ Delete(c) \/ Deleted(c)
           \/ Terminate(c) \/ EraseEnd(c) \/ RemoveFromRecord(c)
           \/ Send(c) \/ LookUp(c) \/ Put(c) \/ VisitBegin(c) \/ VisitEnd(c)
           \/ VisitThrows(c) \/ Append(c) \/ AppendThrows(c) \/ RemoteEnds(c)
  BY DEF Next, ClientNext, RemoveNext, RemoteNext

-----------------------------------------------------------------------------
(* Types *)

LEMMA TellType ==
  ASSUME TypeOK, NEW S, NEW n \in 0..MaxBlocks, Tell(S, n)
  PROVE  /\ CacheBlocksNum' \in [Clients -> 0..MaxBlocks]
         /\ flooded' \subseteq Clients \cup S
  BY DEF TypeOK, Tell

\* Every variable has its type in every state.
THEOREM TypeCorrect == Spec => []TypeOK
<1>1. Init => TypeOK
  BY CacheIndexAssumption DEF Init, TypeOK, ClientPcs, RemovePcs, RemotePcs, ServerPcs
<1>2. TypeOK /\ [Next]_vars => TypeOK'
  <2> SUFFICES ASSUME TypeOK, [Next]_vars PROVE TypeOK'
    OBVIOUS
  <2> USE CacheIndexAssumption DEF ClientPcs, RemovePcs, RemotePcs, ServerPcs
  <2>1. CASE UNCHANGED vars
    BY <2>1 DEF TypeOK, vars, indexVars, recordVars, clientVars, removeVars, remoteVars,
                   serverVars
  <2>2. CASE Next
    <3> PICK c \in Clients :
           \/ HasRecord(c) \/ Register(c) \/ Connect(c) \/ ConnectFails(c) \/ Insert(c)
           \/ Find(c) \/ AddToRecord(c) \/ StopReading(c) \/ Gone(c)
           \/ Delete(c) \/ Deleted(c)
           \/ Terminate(c) \/ EraseEnd(c) \/ RemoveFromRecord(c)
           \/ Send(c) \/ LookUp(c) \/ Put(c) \/ VisitBegin(c) \/ VisitEnd(c)
           \/ VisitThrows(c) \/ Append(c) \/ AppendThrows(c) \/ RemoteEnds(c)
      BY <2>2, NextCases
    <3> USE DEF indexVars, recordVars, clientVars, removeVars, remoteVars, serverVars
    <3>1. CASE HasRecord(c)
      BY <3>1 DEF TypeOK, HasRecord
    <3>2. CASE Connect(c)
      BY <3>2 DEF TypeOK, Connect
    <3>3. CASE ConnectFails(c)
      BY <3>3 DEF TypeOK, ConnectFails
    <3>4. CASE Insert(c)
      BY <3>4 DEF TypeOK, Insert
    <3>5. CASE Find(c)
      BY <3>5 DEF TypeOK, Find
    <3>6. CASE AddToRecord(c)
      <4>1. found[c] \in Clients /\ NumBlocks[found[c]] \in 0..MaxBlocks
        BY <3>6 DEF TypeOK, AddToRecord
      <4>2. Tell({c}, NumBlocks[found[c]])
        BY <3>6 DEF AddToRecord
      <4>3. CacheBlocksNum' \in [Clients -> 0..MaxBlocks] /\ flooded' \subseteq Clients
        BY <4>1, <4>2, TellType
      <4> QED
        BY <3>6, <4>1, <4>3 DEF TypeOK, AddToRecord
    <3>7. CASE StopReading(c)
      BY <3>7 DEF TypeOK, StopReading
    <3>8. CASE Gone(c)
      BY <3>8 DEF TypeOK, Gone
    <3>9. CASE Terminate(c)
      BY <3>9 DEF TypeOK, Terminate, RemoveBegin
    <3>10. CASE EraseEnd(c)
      BY <3>10 DEF TypeOK, EraseEnd
    <3>11. CASE RemoveFromRecord(c)
      BY <3>11 DEF TypeOK, RemoveFromRecord
    <3>12. CASE Send(c)
      BY <3>12 DEF TypeOK, Send
    <3>13. CASE LookUp(c)
      BY <3>13 DEF TypeOK, LookUp
    <3>14. CASE Put(c)
      BY <3>14 DEF TypeOK, Put
    <3>15. CASE VisitBegin(c)
      BY <3>15 DEF TypeOK, VisitBegin
    <3>16. CASE VisitEnd(c)
      <4>1. URIListeners[uri[c]] \subseteq Clients /\ NumBlocks[c] \in 0..MaxBlocks
        BY DEF TypeOK
      <4>2. CacheBlocksNum' \in [Clients -> 0..MaxBlocks] /\ flooded' \subseteq Clients
        BY <3>16, <4>1, TellType DEF VisitEnd
      <4> QED
        BY <3>16, <4>1, <4>2 DEF TypeOK, VisitEnd
    <3>17. CASE VisitThrows(c)
      <4>1. PICK told \in SUBSET URIListeners[uri[c]] :
               Tell(told, NumBlocks[c]) /\ Listeners' = [Listeners EXCEPT ![c] = @ \cup told]
        BY <3>17 DEF VisitThrows
      <4>2. told \subseteq Clients /\ NumBlocks[c] \in 0..MaxBlocks
        BY <4>1 DEF TypeOK
      <4>3. CacheBlocksNum' \in [Clients -> 0..MaxBlocks] /\ flooded' \subseteq Clients
        BY <4>1, <4>2, TellType
      <4> QED
        BY <3>17, <4>1, <4>2, <4>3 DEF TypeOK, VisitThrows
    <3>18. CASE Append(c)
      <4>1. CR[c] \in Clients
        BY <3>18 DEF TypeOK, Append
      <4>2. /\ NumBlocks' \in [Clients -> 0..MaxBlocks]
            /\ NumBlocks'[CR[c]] \in 0..MaxBlocks
            /\ Listeners[CR[c]] \subseteq Clients
        BY <3>18, <4>1 DEF TypeOK, Append
      <4>3. CacheBlocksNum' \in [Clients -> 0..MaxBlocks] /\ flooded' \subseteq Clients
        BY <3>18, <4>2, TellType DEF Append
      <4> QED
        BY <3>18, <4>1, <4>2, <4>3 DEF TypeOK, Append
    <3>19. CASE AppendThrows(c)
      <4>1. CR[c] \in Clients
        BY <3>19 DEF TypeOK, AppendThrows
      <4>2. /\ NumBlocks' \in [Clients -> 0..MaxBlocks]
            /\ NumBlocks'[CR[c]] \in 0..MaxBlocks
            /\ Listeners[CR[c]] \subseteq Clients
        BY <3>19, <4>1 DEF TypeOK, AppendThrows
      <4>3. PICK told \in SUBSET Listeners[CR[c]] : Tell(told, NumBlocks'[CR[c]])
        BY <3>19 DEF AppendThrows
      <4>4. CacheBlocksNum' \in [Clients -> 0..MaxBlocks] /\ flooded' \subseteq Clients
        BY <4>2, <4>3, TellType
      <4> QED
        BY <3>19, <4>1, <4>2, <4>4 DEF TypeOK, AppendThrows
    <3>20. CASE RemoteEnds(c)
      BY <3>20 DEF TypeOK, RemoteEnds
    <3>21. CASE Register(c)
      BY <3>21 DEF TypeOK, Register
    <3>22. CASE Delete(c)
      BY <3>22 DEF TypeOK, Delete, RemoveBegin
    <3>23. CASE Deleted(c)
      BY <3>23 DEF TypeOK, Deleted
    <3> QED
      BY <3>1, <3>2, <3>3, <3>4, <3>5, <3>6, <3>7, <3>8, <3>9, <3>10, <3>11, <3>12,
         <3>13, <3>14, <3>15, <3>16, <3>17, <3>18, <3>19, <3>20, <3>21, <3>22, <3>23
  <2> QED
    BY <2>1, <2>2
<1> QED
  BY <1>1, <1>2, PTL DEF Spec

-----------------------------------------------------------------------------
(* What is entered under an address belongs to it *)

\* Records, listeners and what the threads hold agree on the address.
SameAddress ==
  /\ \A u \in URIs : Records[u] \in Clients => uri[Records[u]] = u /\ Records[u] \in made
  /\ \A r \in made : Records[uri[r]] \in Clients
  /\ \A u \in URIs : \A c \in URIListeners[u] : uri[c] = u /\ u \in asked
  /\ \A r \in Clients : \A c \in Listeners[r] : uri[c] = uri[r] /\ uri[c] \in asked
  /\ \A c \in Clients : found[c] \in Clients => uri[found[c]] = uri[c] /\ found[c] \in made
  /\ \A r \in Clients :
       CR[r] \in Clients => CR[r] \in made /\ uri[CR[r]] = uri[r] /\ Records[uri[r]] \in Clients

\* How far a thread is tells what it has done.
Phases ==
  /\ \A c \in Clients : clientPc[c] \in {"find", "add", "wait"} => uri[c] \in asked
  /\ \A c \in Clients : clientPc[c] \in {"new", "register", "connect"} => remotePc[c] = "none"
  /\ \A r \in made : remotePc[r] \in {"put", "visit", "read", "append", "done"}
  /\ \A r \in Clients : remotePc[r] \in {"put", "visit"} => r \in made
  /\ \A r \in Clients : remotePc[r] \in {"create", "put", "visit"} => CR[r] = NoClient

Agree == SameAddress /\ Phases

LEMMA AgreeStep ==
  ASSUME TypeOK, TypeOK', Agree, [Next]_vars
  PROVE  Agree'
<1> USE CacheIndexAssumption DEF indexVars, recordVars, clientVars, removeVars, remoteVars,
                                 serverVars
<1>1. CASE UNCHANGED vars
  BY <1>1 DEF Agree, SameAddress, Phases, vars
<1>2. CASE Next
  <2> PICK a \in Clients :
           \/ HasRecord(a) \/ Register(a) \/ Connect(a) \/ ConnectFails(a) \/ Insert(a)
           \/ Find(a) \/ AddToRecord(a) \/ StopReading(a) \/ Gone(a)
           \/ Delete(a) \/ Deleted(a)
           \/ Terminate(a) \/ EraseEnd(a) \/ RemoveFromRecord(a)
           \/ Send(a) \/ LookUp(a) \/ Put(a) \/ VisitBegin(a) \/ VisitEnd(a)
           \/ VisitThrows(a) \/ Append(a) \/ AppendThrows(a) \/ RemoteEnds(a)
    BY <1>2, NextCases
  <2>1. CASE HasRecord(a)
    BY <2>1 DEF Agree, SameAddress, Phases, TypeOK, HasRecord
  <2>2. CASE Connect(a)
    BY <2>2 DEF Agree, SameAddress, Phases, TypeOK, Connect
  <2>3. CASE ConnectFails(a)
    BY <2>3 DEF Agree, SameAddress, Phases, TypeOK, ConnectFails
  <2>4. CASE Insert(a)
    BY <2>4 DEF Agree, SameAddress, Phases, TypeOK, Insert
  <2>5. CASE Find(a)
    BY <2>5 DEF Agree, SameAddress, Phases, TypeOK, Find
  <2>6. CASE AddToRecord(a)
    BY <2>6 DEF Agree, SameAddress, Phases, TypeOK, AddToRecord
  <2>7. CASE StopReading(a)
    BY <2>7 DEF Agree, SameAddress, Phases, TypeOK, StopReading
  <2>8. CASE Gone(a)
    BY <2>8 DEF Agree, SameAddress, Phases, TypeOK, Gone
  <2>9. CASE Terminate(a)
    BY <2>9 DEF Agree, SameAddress, Phases, TypeOK, Terminate, RemoveBegin
  <2>10. CASE EraseEnd(a)
    BY <2>10 DEF Agree, SameAddress, Phases, TypeOK, EraseEnd
  <2>11. CASE RemoveFromRecord(a)
    BY <2>11 DEF Agree, SameAddress, Phases, TypeOK, RemoveFromRecord
  <2>12. CASE Send(a)
    BY <2>12 DEF Agree, SameAddress, Phases, TypeOK, Send
  <2>13. CASE LookUp(a)
    <3>1. uri[a] \in URIs /\ (CR[a] \in Clients => Records[uri[a]] \in Clients)
      BY DEF TypeOK, Agree, SameAddress
    <3>2. CASE Records[uri[a]] = NoClient
      <4>1. CR[a] = NoClient
        BY <3>1, <3>2 DEF TypeOK
      <4> QED
        BY <2>13, <3>2, <4>1 DEF Agree, SameAddress, Phases, TypeOK, LookUp
    <3>3. CASE Records[uri[a]] \in Clients
      <4>1. SameAddress'
        BY <2>13, <3>1, <3>3 DEF Agree, SameAddress, TypeOK, LookUp
      <4>2. Phases'
        BY <2>13, <3>3 DEF Agree, Phases, TypeOK, LookUp
      <4> QED
        BY <4>1, <4>2 DEF Agree
    <3> QED
      BY <3>1, <3>2, <3>3 DEF TypeOK
  <2>14. CASE Put(a)
    BY <2>14 DEF Agree, SameAddress, Phases, TypeOK, Put
  <2>15. CASE VisitBegin(a)
    BY <2>15 DEF Agree, SameAddress, Phases, TypeOK, VisitBegin
  <2>16. CASE VisitEnd(a)
    <3>1. a \in made /\ uri[a] \in URIs /\ Records' = Records
      BY <2>16 DEF Agree, Phases, TypeOK, VisitEnd
    <3>2. Phases'
      BY <2>16 DEF Agree, Phases, TypeOK, VisitEnd
    <3>3. Records[uri[a]] \in Clients
      BY <3>1 DEF Agree, SameAddress
    <3>4. SameAddress'
      BY <2>16, <3>1, <3>3 DEF Agree, SameAddress, TypeOK, VisitEnd
    <3> QED
      BY <3>2, <3>4 DEF Agree
  <2>17. CASE VisitThrows(a)
    BY <2>17 DEF Agree, SameAddress, Phases, TypeOK, VisitThrows
  <2>18. CASE Append(a)
    BY <2>18 DEF Agree, SameAddress, Phases, TypeOK, Append
  <2>19. CASE AppendThrows(a)
    BY <2>19 DEF Agree, SameAddress, Phases, TypeOK, AppendThrows
  <2>20. CASE RemoteEnds(a)
    BY <2>20 DEF Agree, SameAddress, Phases, TypeOK, RemoteEnds
  <2>21. CASE Register(a)
    BY <2>21 DEF Agree, SameAddress, Phases, TypeOK, Register
  <2>22. CASE Delete(a)
    BY <2>22 DEF Agree, SameAddress, Phases, TypeOK, Delete, RemoveBegin
  <2>23. CASE Deleted(a)
    BY <2>23 DEF Agree, SameAddress, Phases, TypeOK, Deleted
  <2> QED
    BY <2>1, <2>2, <2>3, <2>4, <2>5, <2>6, <2>7, <2>8, <2>9, <2>10,
       <2>11, <2>12, <2>13, <2>14, <2>15, <2>16, <2>17, <2>18, <2>19, <2>20,
       <2>21, <2>22, <2>23
<1> QED
  BY <1>1, <1>2

THEOREM AgreeAlways == Spec => []Agree
<1>1. Init => Agree
  BY CacheIndexAssumption DEF Init, Agree, SameAddress, Phases
<1>2. TypeOK /\ TypeOK' /\ Agree /\ [Next]_vars => Agree'
  BY AgreeStep
<1> QED
  BY <1>1, <1>2, TypeCorrect, PTL DEF Spec

-----------------------------------------------------------------------------
(* ListenersComplete *)

Settled(c) == removePc[c] = "idle" /\ uri[c] \notin raced

\* c is, or will be, a listener of r, unless an exception has ended the loop.
Reached(c, r) == c \in Listeners[r] \/ WillVisit(r, c) \/ PutAborted(r)

\* A client that AddListener has inserted stays in URIListeners; when it comes to
\* be added to a record, that record is the one of its address, or PutRecord of a
\* newer one comes to it.
CompleteInv ==
  /\ \A c \in Clients :
       clientPc[c] \in {"find", "add", "wait"} /\ Settled(c) => c \in URIListeners[uri[c]]
  /\ \A c \in Clients :
       clientPc[c] = "add" /\ Settled(c) /\ Records[uri[c]] \in Clients
         => found[c] = Records[uri[c]] \/ Reached(c, Records[uri[c]])
  /\ \A c \in Clients :
       clientPc[c] = "wait" /\ Settled(c) /\ Records[uri[c]] \in Clients
         => Reached(c, Records[uri[c]])

LEMMA CompleteStep ==
  ASSUME TypeOK, TypeOK', Agree, Agree', CompleteInv, [Next]_vars
  PROVE  CompleteInv'
<1> USE CacheIndexAssumption DEF indexVars, recordVars, clientVars, removeVars, remoteVars,
                                 serverVars
<1>1. CASE UNCHANGED vars
  BY <1>1 DEF CompleteInv, Settled, Reached, WillVisit, PutAborted, Agree, SameAddress, Phases, vars
<1>2. CASE Next
  <2> PICK a \in Clients :
           \/ HasRecord(a) \/ Register(a) \/ Connect(a) \/ ConnectFails(a) \/ Insert(a)
           \/ Find(a) \/ AddToRecord(a) \/ StopReading(a) \/ Gone(a)
           \/ Delete(a) \/ Deleted(a)
           \/ Terminate(a) \/ EraseEnd(a) \/ RemoveFromRecord(a)
           \/ Send(a) \/ LookUp(a) \/ Put(a) \/ VisitBegin(a) \/ VisitEnd(a)
           \/ VisitThrows(a) \/ Append(a) \/ AppendThrows(a) \/ RemoteEnds(a)
    BY <1>2, NextCases
  <2>1. CASE HasRecord(a)
    BY <2>1 DEF CompleteInv, Settled, Reached, WillVisit, PutAborted, Agree, SameAddress, Phases, TypeOK, HasRecord
  <2>2. CASE Connect(a)
    BY <2>2 DEF CompleteInv, Settled, Reached, WillVisit, PutAborted, Agree, SameAddress, Phases, TypeOK, Connect
  <2>3. CASE ConnectFails(a)
    BY <2>3 DEF CompleteInv, Settled, Reached, WillVisit, PutAborted, Agree, SameAddress, Phases, TypeOK, ConnectFails
  <2>4. CASE Insert(a)
    BY <2>4 DEF CompleteInv, Settled, Reached, WillVisit, PutAborted, Agree, SameAddress, Phases, TypeOK, Insert
  <2>5. CASE Find(a)
    BY <2>5 DEF CompleteInv, Settled, Reached, WillVisit, PutAborted, Agree, SameAddress, Phases, TypeOK, Find
  <2>6. CASE AddToRecord(a)
    BY <2>6 DEF CompleteInv, Settled, Reached, WillVisit, PutAborted, Agree, SameAddress, Phases, TypeOK, AddToRecord
  <2>7. CASE StopReading(a)
    BY <2>7 DEF CompleteInv, Settled, Reached, WillVisit, PutAborted, Agree, SameAddress, Phases, TypeOK, StopReading
  <2>8. CASE Gone(a)
    BY <2>8 DEF CompleteInv, Settled, Reached, WillVisit, PutAborted, Agree, SameAddress, Phases, TypeOK, Gone
  <2>9. CASE Terminate(a)
    BY <2>9 DEF CompleteInv, Settled, Reached, WillVisit, PutAborted, Agree, SameAddress, Phases, TypeOK, Terminate, RemoveBegin
  <2>10. CASE EraseEnd(a)
    <3>1. removePc' = [removePc EXCEPT ![a] = "record"]
      BY <2>10 DEF EraseEnd
    <3>2. /\ UNCHANGED <<uri, Records, raced, Listeners, clientPc, found, made, CR, remotePc>>
          /\ \A r \in Clients : PutAborted(r)' <=> PutAborted(r)
      BY <2>10 DEF PutAborted, EraseEnd
    <3>3. \A c \in Clients : Settled(c)' => c # a /\ Settled(c)
      BY <3>1, <3>2 DEF Settled, TypeOK
    <3>4. ASSUME NEW c \in Clients, Settled(c)', c \in URIListeners[uri[c]]
          PROVE  c \in URIListeners'[uri[c]]
      <4>1. c # a /\ uri[c] \in URIs /\ uri[a] \in URIs /\ uri[c] \notin raced
        BY <3>3, <3>4 DEF Settled, TypeOK
      <4>2. CASE uri[c] = uri[a]
        <5>1. URIListeners' = [URIListeners EXCEPT ![uri[a]] = URIListeners[uri[a]] \ {a}]
          BY <2>10, <4>1, <4>2 DEF EraseEnd
        <5> QED
          BY <3>4, <4>1, <4>2, <5>1 DEF TypeOK
      <4>3. CASE uri[c] # uri[a]
        <5>1. URIListeners'[uri[c]] = URIListeners[uri[c]]
          BY <2>10, <4>1, <4>3 DEF EraseEnd, TypeOK
        <5> QED
          BY <3>4, <5>1
      <4> QED
        BY <4>2, <4>3
    <3>5. ASSUME NEW c \in Clients, Settled(c)', Records[uri[c]] \in Clients,
                 Reached(c, Records[uri[c]])
          PROVE  Reached(c, Records[uri[c]])'
      <4>1. uri[Records[uri[c]]] = uri[c]
        BY <3>5 DEF Agree, SameAddress, TypeOK
      <4>2. WillVisit(Records[uri[c]], c) => WillVisit(Records[uri[c]], c)'
        BY <3>2, <3>4, <3>5, <4>1 DEF WillVisit
      <4> QED
        BY <3>2, <3>5, <4>2 DEF Reached
    <3> QED
      BY <3>2, <3>3, <3>4, <3>5 DEF CompleteInv
  <2>11. CASE RemoveFromRecord(a)
    BY <2>11 DEF CompleteInv, Settled, Reached, WillVisit, PutAborted, Agree, SameAddress, Phases, TypeOK, RemoveFromRecord
  <2>12. CASE Send(a)
    BY <2>12 DEF CompleteInv, Settled, Reached, WillVisit, PutAborted, Agree, SameAddress, Phases, TypeOK, Send
  <2>13. CASE LookUp(a)
    BY <2>13 DEF CompleteInv, Settled, Reached, WillVisit, PutAborted, Agree, SameAddress, Phases, TypeOK, LookUp
  <2>14. CASE Put(a)
    <3>1. remotePc[a] = "create" /\ uri[a] \in URIs /\ remotePc'[a] = "put" /\ Records'[uri[a]] = a
      BY <2>14 DEF TypeOK, Put
    <3>2. \A c \in Clients : uri[c] = uri[a] => Reached(c, Records[uri[c]])'
      BY <2>14, <3>1 DEF Reached, WillVisit, Put
    <3>3. ASSUME NEW c \in Clients, uri[c] # uri[a], Records[uri[c]] \in Clients,
                 Reached(c, Records[uri[c]])
          PROVE  Reached(c, Records[uri[c]])'
      <4>1. uri[c] \in URIs /\ Records'[uri[c]] = Records[uri[c]] /\ Records[uri[c]] # a
        BY <2>14, <3>3 DEF Agree, SameAddress, TypeOK, Put
      <4> QED
        BY <2>14, <3>3, <4>1 DEF Reached, WillVisit, PutAborted, TypeOK, Put
    <3>4. \A c \in Clients : uri[c] # uri[a] => Records'[uri[c]] = Records[uri[c]]
      BY <2>14 DEF TypeOK, Put
    <3> QED
      BY <2>14, <3>2, <3>3, <3>4 DEF CompleteInv, Settled, Put
  <2>15. CASE VisitBegin(a)
    BY <2>15 DEF CompleteInv, Settled, Reached, WillVisit, PutAborted, Agree, SameAddress, Phases, TypeOK, VisitBegin
  <2>16. CASE VisitEnd(a)
    BY <2>16 DEF CompleteInv, Settled, Reached, WillVisit, PutAborted, Agree, SameAddress, Phases, TypeOK, VisitEnd
  <2>17. CASE VisitThrows(a)
    BY <2>17 DEF CompleteInv, Settled, Reached, WillVisit, PutAborted, Agree, SameAddress, Phases, TypeOK, VisitThrows
  <2>18. CASE Append(a)
    BY <2>18 DEF CompleteInv, Settled, Reached, WillVisit, PutAborted, Agree, SameAddress, Phases, TypeOK, Append
  <2>19. CASE AppendThrows(a)
    BY <2>19 DEF CompleteInv, Settled, Reached, WillVisit, PutAborted, Agree, SameAddress, Phases, TypeOK, AppendThrows
  <2>20. CASE RemoteEnds(a)
    BY <2>20 DEF CompleteInv, Settled, Reached, WillVisit, PutAborted, Agree, SameAddress, Phases, TypeOK, RemoteEnds
  <2>21. CASE Register(a)
    BY <2>21 DEF CompleteInv, Settled, Reached, WillVisit, PutAborted, Agree, SameAddress, Phases, TypeOK, Register
  <2>22. CASE Delete(a)
    BY <2>22 DEF CompleteInv, Settled, Reached, WillVisit, PutAborted, Agree, SameAddress, Phases, TypeOK, Delete, RemoveBegin
  <2>23. CASE Deleted(a)
    BY <2>23 DEF CompleteInv, Settled, Reached, WillVisit, PutAborted, Agree, SameAddress, Phases, TypeOK, Deleted
  <2> QED
    BY <2>1, <2>2, <2>3, <2>4, <2>5, <2>6, <2>7, <2>8, <2>9, <2>10,
       <2>11, <2>12, <2>13, <2>14, <2>15, <2>16, <2>17, <2>18, <2>19, <2>20,
       <2>21, <2>22, <2>23
<1> QED
  BY <1>1, <1>2

\* A waiting client is a listener of the record that is there, or PutRecord is
\* still to come to it, whatever the order of AddListener and PutRecord.
THEOREM ListenersCompleteAlways == Spec => []ListenersComplete
<1>1. Init => CompleteInv
  BY CacheIndexAssumption DEF Init, CompleteInv, Settled
<1>2. TypeOK /\ TypeOK' /\ Agree /\ Agree' /\ CompleteInv /\ [Next]_vars => CompleteInv'
  BY CompleteStep
<1>3. TypeOK /\ CompleteInv => ListenersComplete
  BY CacheIndexAssumption DEF CompleteInv, ListenersComplete, Settled, Reached, TypeOK
<1> QED
  BY <1>1, <1>2, <1>3, TypeCorrect, AgreeAlways, PTL DEF Spec

-----------------------------------------------------------------------------
(* DanglingOnlyInReplacedRecord *)

\* c was registered, or will never be, when it was terminated, and no other thread
\* used the set of its address meanwhile.
Clean(c) == removePc[c] # "idle" /\ c \notin early /\ uri[c] \notin raced

\* After a clean removal from URIListeners, nothing inserts the client again;
\* after the removal from the record, no PutRecord comes to it.
RemovedInv ==
  /\ \A c \in Clients :
       removePc[c] # "idle" /\ c \notin early => clientPc[c] \in {"wait", "leave", "gone"}
  /\ \A c \in Clients : clientPc[c] = "gone" => removePc[c] = "done"
  /\ \A c \in Clients :
       Clean(c) /\ removePc[c] \in {"record", "done"} => c \notin URIListeners[uri[c]]
  /\ \A c \in Clients :
       Clean(c) /\ removePc[c] = "done" /\ Records[uri[c]] \in Clients
         => c \notin Listeners[Records[uri[c]]]

\* A record that is not in the index yet has no listeners, so that a client that
\* is gone is not one of those of a record that comes later.
EmptyBeforePut == \A r \in Clients \ made : Listeners[r] = {}

LEMMA EmptyStep ==
  ASSUME TypeOK, TypeOK', Agree, Agree', EmptyBeforePut, [Next]_vars
  PROVE  EmptyBeforePut'
<1> USE CacheIndexAssumption DEF indexVars, recordVars, clientVars, removeVars, remoteVars,
                                 serverVars
<1>1. CASE UNCHANGED vars
  BY <1>1 DEF EmptyBeforePut, Agree, SameAddress, Phases, vars
<1>2. CASE Next
  <2> PICK a \in Clients :
           \/ HasRecord(a) \/ Register(a) \/ Connect(a) \/ ConnectFails(a) \/ Insert(a)
           \/ Find(a) \/ AddToRecord(a) \/ StopReading(a) \/ Gone(a)
           \/ Delete(a) \/ Deleted(a)
           \/ Terminate(a) \/ EraseEnd(a) \/ RemoveFromRecord(a)
           \/ Send(a) \/ LookUp(a) \/ Put(a) \/ VisitBegin(a) \/ VisitEnd(a)
           \/ VisitThrows(a) \/ Append(a) \/ AppendThrows(a) \/ RemoteEnds(a)
    BY <1>2, NextCases
  <2>1. CASE HasRecord(a)
    BY <2>1 DEF EmptyBeforePut, Agree, SameAddress, Phases, TypeOK, HasRecord
  <2>2. CASE Connect(a)
    BY <2>2 DEF EmptyBeforePut, Agree, SameAddress, Phases, TypeOK, Connect
  <2>3. CASE ConnectFails(a)
    BY <2>3 DEF EmptyBeforePut, Agree, SameAddress, Phases, TypeOK, ConnectFails
  <2>4. CASE Insert(a)
    BY <2>4 DEF EmptyBeforePut, Agree, SameAddress, Phases, TypeOK, Insert
  <2>5. CASE Find(a)
    BY <2>5 DEF EmptyBeforePut, Agree, SameAddress, Phases, TypeOK, Find
  <2>6. CASE AddToRecord(a)
    BY <2>6 DEF EmptyBeforePut, Agree, SameAddress, Phases, TypeOK, AddToRecord
  <2>7. CASE StopReading(a)
    BY <2>7 DEF EmptyBeforePut, Agree, SameAddress, Phases, TypeOK, StopReading
  <2>8. CASE Gone(a)
    BY <2>8 DEF EmptyBeforePut, Agree, SameAddress, Phases, TypeOK, Gone
  <2>9. CASE Terminate(a)
    BY <2>9 DEF EmptyBeforePut, Agree, SameAddress, Phases, TypeOK, Terminate, RemoveBegin
  <2>10. CASE EraseEnd(a)
    BY <2>10 DEF EmptyBeforePut, Agree, SameAddress, Phases, TypeOK, EraseEnd
  <2>11. CASE RemoveFromRecord(a)
    BY <2>11 DEF EmptyBeforePut, Agree, SameAddress, Phases, TypeOK, RemoveFromRecord
  <2>12. CASE Send(a)
    BY <2>12 DEF EmptyBeforePut, Agree, SameAddress, Phases, TypeOK, Send
  <2>13. CASE LookUp(a)
    BY <2>13 DEF EmptyBeforePut, Agree, SameAddress, Phases, TypeOK, LookUp
  <2>14. CASE Put(a)
    BY <2>14 DEF EmptyBeforePut, Agree, SameAddress, Phases, TypeOK, Put
  <2>15. CASE VisitBegin(a)
    BY <2>15 DEF EmptyBeforePut, Agree, SameAddress, Phases, TypeOK, VisitBegin
  <2>16. CASE VisitEnd(a)
    BY <2>16 DEF EmptyBeforePut, Agree, SameAddress, Phases, TypeOK, VisitEnd
  <2>17. CASE VisitThrows(a)
    BY <2>17 DEF EmptyBeforePut, Agree, SameAddress, Phases, TypeOK, VisitThrows
  <2>18. CASE Append(a)
    BY <2>18 DEF EmptyBeforePut, Agree, SameAddress, Phases, TypeOK, Append
  <2>19. CASE AppendThrows(a)
    BY <2>19 DEF EmptyBeforePut, Agree, SameAddress, Phases, TypeOK, AppendThrows
  <2>20. CASE RemoteEnds(a)
    BY <2>20 DEF EmptyBeforePut, Agree, SameAddress, Phases, TypeOK, RemoteEnds
  <2>21. CASE Register(a)
    BY <2>21 DEF EmptyBeforePut, Agree, SameAddress, Phases, TypeOK, Register
  <2>22. CASE Delete(a)
    BY <2>22 DEF EmptyBeforePut, Agree, SameAddress, Phases, TypeOK, Delete, RemoveBegin
  <2>23. CASE Deleted(a)
    BY <2>23 DEF EmptyBeforePut, Agree, SameAddress, Phases, TypeOK, Deleted
  <2> QED
    BY <2>1, <2>2, <2>3, <2>4, <2>5, <2>6, <2>7, <2>8, <2>9, <2>10,
       <2>11, <2>12, <2>13, <2>14, <2>15, <2>16, <2>17, <2>18, <2>19, <2>20,
       <2>21, <2>22, <2>23
<1> QED
  BY <1>1, <1>2

LEMMA RemovedStep ==
  ASSUME TypeOK, TypeOK', Agree, Agree', EmptyBeforePut, RemovedInv, [Next]_vars
  PROVE  RemovedInv'
<1> USE CacheIndexAssumption DEF indexVars, recordVars, clientVars, removeVars, remoteVars,
                                 serverVars
<1>1. CASE UNCHANGED vars
  BY <1>1 DEF RemovedInv, Clean, Erasing, Visiting, Agree, SameAddress, Phases, EmptyBeforePut, vars
<1>2. CASE Next
  <2> PICK a \in Clients :
           \/ HasRecord(a) \/ Register(a) \/ Connect(a) \/ ConnectFails(a) \/ Insert(a)
           \/ Find(a) \/ AddToRecord(a) \/ StopReading(a) \/ Gone(a)
           \/ Delete(a) \/ Deleted(a)
           \/ Terminate(a) \/ EraseEnd(a) \/ RemoveFromRecord(a)
           \/ Send(a) \/ LookUp(a) \/ Put(a) \/ VisitBegin(a) \/ VisitEnd(a)
           \/ VisitThrows(a) \/ Append(a) \/ AppendThrows(a) \/ RemoteEnds(a)
    BY <1>2, NextCases
  <2>1. CASE HasRecord(a)
    BY <2>1 DEF RemovedInv, Clean, Erasing, Visiting, Agree, SameAddress, Phases, EmptyBeforePut, TypeOK, HasRecord
  <2>2. CASE Connect(a)
    BY <2>2 DEF RemovedInv, Clean, Erasing, Visiting, Agree, SameAddress, Phases, EmptyBeforePut, TypeOK, Connect
  <2>3. CASE ConnectFails(a)
    BY <2>3 DEF RemovedInv, Clean, Erasing, Visiting, Agree, SameAddress, Phases, EmptyBeforePut, TypeOK, ConnectFails
  <2>4. CASE Insert(a)
    BY <2>4 DEF RemovedInv, Clean, Erasing, Visiting, Agree, SameAddress, Phases, EmptyBeforePut, TypeOK, Insert
  <2>5. CASE Find(a)
    BY <2>5 DEF RemovedInv, Clean, Erasing, Visiting, Agree, SameAddress, Phases, EmptyBeforePut, TypeOK, Find
  <2>6. CASE AddToRecord(a)
    BY <2>6 DEF RemovedInv, Clean, Erasing, Visiting, Agree, SameAddress, Phases, EmptyBeforePut, TypeOK, AddToRecord
  <2>7. CASE StopReading(a)
    BY <2>7 DEF RemovedInv, Clean, Erasing, Visiting, Agree, SameAddress, Phases, EmptyBeforePut, TypeOK, StopReading
  <2>8. CASE Gone(a)
    BY <2>8 DEF RemovedInv, Clean, Erasing, Visiting, Agree, SameAddress, Phases, EmptyBeforePut, TypeOK, Gone
  <2>9. CASE Terminate(a)
    BY <2>9 DEF RemovedInv, Clean, Erasing, Visiting, Agree, SameAddress, Phases, EmptyBeforePut, TypeOK, Terminate, RemoveBegin
  <2>10. CASE EraseEnd(a)
    BY <2>10 DEF RemovedInv, Clean, Erasing, Visiting, Agree, SameAddress, Phases, EmptyBeforePut, TypeOK, EraseEnd
  <2>11. CASE RemoveFromRecord(a)
    BY <2>11 DEF RemovedInv, Clean, Erasing, Visiting, Agree, SameAddress, Phases, EmptyBeforePut, TypeOK, RemoveFromRecord
  <2>12. CASE Send(a)
    BY <2>12 DEF RemovedInv, Clean, Erasing, Visiting, Agree, SameAddress, Phases, EmptyBeforePut, TypeOK, Send
  <2>13. CASE LookUp(a)
    BY <2>13 DEF RemovedInv, Clean, Erasing, Visiting, Agree, SameAddress, Phases, EmptyBeforePut, TypeOK, LookUp
  <2>14. CASE Put(a)
    BY <2>14 DEF RemovedInv, Clean, Erasing, Visiting, Agree, SameAddress, Phases, EmptyBeforePut, TypeOK, Put
  <2>15. CASE VisitBegin(a)
    BY <2>15 DEF RemovedInv, Clean, Erasing, Visiting, Agree, SameAddress, Phases, EmptyBeforePut, TypeOK, VisitBegin
  <2>16. CASE VisitEnd(a)
    BY <2>16 DEF RemovedInv, Clean, Erasing, Visiting, Agree, SameAddress, Phases, EmptyBeforePut, TypeOK, VisitEnd
  <2>17. CASE VisitThrows(a)
    BY <2>17 DEF RemovedInv, Clean, Erasing, Visiting, Agree, SameAddress, Phases, EmptyBeforePut, TypeOK, VisitThrows
  <2>18. CASE Append(a)
    BY <2>18 DEF RemovedInv, Clean, Erasing, Visiting, Agree, SameAddress, Phases, EmptyBeforePut, TypeOK, Append
  <2>19. CASE AppendThrows(a)
    BY <2>19 DEF RemovedInv, Clean, Erasing, Visiting, Agree, SameAddress, Phases, EmptyBeforePut, TypeOK, AppendThrows
  <2>20. CASE RemoteEnds(a)
    BY <2>20 DEF RemovedInv, Clean, Erasing, Visiting, Agree, SameAddress, Phases, EmptyBeforePut, TypeOK, RemoteEnds
  <2>21. CASE Register(a)
    BY <2>21 DEF RemovedInv, Clean, Erasing, Visiting, Agree, SameAddress, Phases, EmptyBeforePut, TypeOK, Register
  <2>22. CASE Delete(a)
    <3>1. CASE removePc[a] = "idle"
      <4>1. /\ UNCHANGED <<uri, Records, URIListeners, asked, Listeners, clientPc>>
            /\ early \subseteq early' /\ raced \subseteq raced'
            /\ \A c \in Clients \ {a} : removePc'[c] = removePc[c] /\ (c \in early' <=> c \in early)
            /\ clientPc[a] # "gone"
            /\ clientPc[a] \in {"wait", "leave"} \/ a \in early'
            /\ removePc'[a] = "erasing" \/ (removePc'[a] = "done" /\ uri[a] \notin asked)
        BY <2>22, <3>1 DEF Delete, RemoveBegin, TypeOK
      <4>2. \A c \in Clients \ {a} : Clean(c)' => Clean(c)
        BY <4>1 DEF Clean
      <4>3. uri[a] \notin asked => /\ a \notin URIListeners[uri[a]]
                                  /\ \A r \in Clients : a \notin Listeners[r]
        BY DEF Agree, SameAddress, TypeOK
      <4>4. ASSUME NEW c \in Clients
            PROVE  /\ removePc'[c] # "idle" /\ c \notin early' => clientPc'[c] \in {"wait", "leave", "gone"}
                   /\ clientPc'[c] = "gone" => removePc'[c] = "done"
        BY <4>1 DEF RemovedInv
      <4>5. ASSUME NEW c \in Clients, Clean(c)'
            PROVE  /\ removePc'[c] \in {"record", "done"} => c \notin URIListeners'[uri'[c]]
                   /\ removePc'[c] = "done" /\ Records'[uri'[c]] \in Clients
                        => c \notin Listeners'[Records'[uri'[c]]]
        <5>1. CASE c = a
          BY <4>1, <4>3, <5>1
        <5>2. CASE c # a
          BY <4>1, <4>2, <4>5, <5>2 DEF RemovedInv
        <5> QED
          BY <5>1, <5>2
      <4> QED
        BY <4>4, <4>5 DEF RemovedInv
    <3>2. CASE removePc[a] # "idle"
      BY <2>22, <3>2 DEF RemovedInv, Clean, Erasing, Visiting, Agree, SameAddress, Phases, EmptyBeforePut, TypeOK, Delete
    <3> QED
      BY <3>1, <3>2
  <2>23. CASE Deleted(a)
    BY <2>23 DEF RemovedInv, Clean, Erasing, Visiting, Agree, SameAddress, Phases, EmptyBeforePut, TypeOK, Deleted
  <2> QED
    BY <2>1, <2>2, <2>3, <2>4, <2>5, <2>6, <2>7, <2>8, <2>9, <2>10,
       <2>11, <2>12, <2>13, <2>14, <2>15, <2>16, <2>17, <2>18, <2>19, <2>20,
       <2>21, <2>22, <2>23
<1> QED
  BY <1>1, <1>2

\* What is left in a record of a client that has been removed from it.
THEOREM RemovedAlways == Spec => [](EmptyBeforePut /\ RemovedInv)
<1>1. Init => EmptyBeforePut /\ RemovedInv
  BY CacheIndexAssumption DEF Init, EmptyBeforePut, RemovedInv, Clean
<1>2. /\ TypeOK /\ TypeOK' /\ Agree /\ Agree'
      /\ EmptyBeforePut /\ RemovedInv /\ [Next]_vars
      => EmptyBeforePut' /\ RemovedInv'
  BY EmptyStep, RemovedStep
<1> QED
  BY <1>1, <1>2, TypeCorrect, AgreeAlways, PTL DEF Spec

\* A deleted client is a listener of no record but one that has been replaced,
\* unless two threads used the set of its address at a time.
THEOREM DanglingAlways == Spec => []DanglingOnlyInReplacedRecord
<1>1. TypeOK /\ Agree /\ RemovedInv => DanglingOnlyInReplacedRecord
  BY DEF TypeOK, Agree, SameAddress, RemovedInv, Clean, DanglingOnlyInReplacedRecord
<1> QED
  BY <1>1, TypeCorrect, AgreeAlways, RemovedAlways, PTL

-----------------------------------------------------------------------------
(* AtMostOneLateDownload *)

\* One client at a time is between HasRecord and the registration, and it does
\* not come to start a download when a late one has been started.
LateInv ==
  /\ \A c \in Clients :
       clientPc[c] \in {"register", "connect", "insert", "find", "add"} => cacheMutex = c
  /\ \A d \in late : Records[uri[d]] \in Clients
  /\ \A c \in Clients, d \in late : clientPc[c] \in {"register", "connect"} => uri[c] # uri[d]
  /\ AtMostOneLateDownload

LEMMA LateStep ==
  ASSUME TypeOK, TypeOK', LateInv, [Next]_vars
  PROVE  LateInv'
<1> USE CacheIndexAssumption DEF indexVars, recordVars, clientVars, removeVars, remoteVars,
                                 serverVars
<1>1. CASE UNCHANGED vars
  BY <1>1 DEF LateInv, AtMostOneLateDownload, vars
<1>2. CASE Next
  <2> PICK a \in Clients :
           \/ HasRecord(a) \/ Register(a) \/ Connect(a) \/ ConnectFails(a) \/ Insert(a)
           \/ Find(a) \/ AddToRecord(a) \/ StopReading(a) \/ Gone(a)
           \/ Delete(a) \/ Deleted(a)
           \/ Terminate(a) \/ EraseEnd(a) \/ RemoveFromRecord(a)
           \/ Send(a) \/ LookUp(a) \/ Put(a) \/ VisitBegin(a) \/ VisitEnd(a)
           \/ VisitThrows(a) \/ Append(a) \/ AppendThrows(a) \/ RemoteEnds(a)
    BY <1>2, NextCases
  <2>1. CASE HasRecord(a)
    BY <2>1 DEF LateInv, AtMostOneLateDownload, TypeOK, HasRecord
  <2>2. CASE Connect(a)
    BY <2>2 DEF LateInv, AtMostOneLateDownload, TypeOK, Connect
  <2>3. CASE ConnectFails(a)
    BY <2>3 DEF LateInv, AtMostOneLateDownload, TypeOK, ConnectFails
  <2>4. CASE Insert(a)
    BY <2>4 DEF LateInv, AtMostOneLateDownload, TypeOK, Insert
  <2>5. CASE Find(a)
    BY <2>5 DEF LateInv, AtMostOneLateDownload, TypeOK, Find
  <2>6. CASE AddToRecord(a)
    BY <2>6 DEF LateInv, AtMostOneLateDownload, TypeOK, AddToRecord
  <2>7. CASE StopReading(a)
    BY <2>7 DEF LateInv, AtMostOneLateDownload, TypeOK, StopReading
  <2>8. CASE Gone(a)
    BY <2>8 DEF LateInv, AtMostOneLateDownload, TypeOK, Gone
  <2>9. CASE Terminate(a)
    BY <2>9 DEF LateInv, AtMostOneLateDownload, TypeOK, Terminate, RemoveBegin
  <2>10. CASE EraseEnd(a)
    BY <2>10 DEF LateInv, AtMostOneLateDownload, TypeOK, EraseEnd
  <2>11. CASE RemoveFromRecord(a)
    BY <2>11 DEF LateInv, AtMostOneLateDownload, TypeOK, RemoveFromRecord
  <2>12. CASE Send(a)
    BY <2>12 DEF LateInv, AtMostOneLateDownload, TypeOK, Send
  <2>13. CASE LookUp(a)
    BY <2>13 DEF LateInv, AtMostOneLateDownload, TypeOK, LookUp
  <2>14. CASE Put(a)
    BY <2>14 DEF LateInv, AtMostOneLateDownload, TypeOK, Put
  <2>15. CASE VisitBegin(a)
    BY <2>15 DEF LateInv, AtMostOneLateDownload, TypeOK, VisitBegin
  <2>16. CASE VisitEnd(a)
    BY <2>16 DEF LateInv, AtMostOneLateDownload, TypeOK, VisitEnd
  <2>17. CASE VisitThrows(a)
    BY <2>17 DEF LateInv, AtMostOneLateDownload, TypeOK, VisitThrows
  <2>18. CASE Append(a)
    BY <2>18 DEF LateInv, AtMostOneLateDownload, TypeOK, Append
  <2>19. CASE AppendThrows(a)
    BY <2>19 DEF LateInv, AtMostOneLateDownload, TypeOK, AppendThrows
  <2>20. CASE RemoteEnds(a)
    BY <2>20 DEF LateInv, AtMostOneLateDownload, TypeOK, RemoteEnds
  <2>21. CASE Register(a)
    BY <2>21 DEF LateInv, AtMostOneLateDownload, TypeOK, Register
  <2>22. CASE Delete(a)
    BY <2>22 DEF LateInv, AtMostOneLateDownload, TypeOK, Delete, RemoveBegin
  <2>23. CASE Deleted(a)
    BY <2>23 DEF LateInv, AtMostOneLateDownload, TypeOK, Deleted
  <2> QED
    BY <2>1, <2>2, <2>3, <2>4, <2>5, <2>6, <2>7, <2>8, <2>9, <2>10,
       <2>11, <2>12, <2>13, <2>14, <2>15, <2>16, <2>17, <2>18, <2>19, <2>20,
       <2>21, <2>22, <2>23
<1> QED
  BY <1>1, <1>2

\* For each address, one download at most is started once there is a record.
THEOREM AtMostOneLateAlways == Spec => []AtMostOneLateDownload
<1>1. Init => LateInv
  BY CacheIndexAssumption DEF Init, LateInv, AtMostOneLateDownload
<1>2. TypeOK /\ TypeOK' /\ LateInv /\ [Next]_vars => LateInv'
  BY LateStep
<1>3. LateInv => AtMostOneLateDownload
  BY DEF LateInv
<1> QED
  BY <1>1, <1>2, <1>3, TypeCorrect, PTL DEF Spec

-----------------------------------------------------------------------------
(* RequestIsAlive *)

\* There is a record of u.
Made(u) == \E s \in made : uri[s] = u

\* A client is told of blocks of a record of its address, and it leaves after that,
\* or because it could not connect; the destructor of Server deletes it at any time.
WokenInv ==
  /\ \A r \in Clients : NumBlocks[r] > 0 => r \in made
  /\ \A c \in Clients : CacheBlocksNum[c] > 0 => Made(uri[c])
  /\ \A c \in Clients :
       clientPc[c] = "leave" \/ (clientPc[c] = "gone" /\ serverPc = "serve")
         => remotePc[c] = "none" \/ Made(uri[c])

LEMMA WokenStep ==
  ASSUME TypeOK, TypeOK', Agree, Agree', WokenInv, [Next]_vars
  PROVE  WokenInv'
<1> USE CacheIndexAssumption DEF indexVars, recordVars, clientVars, removeVars, remoteVars,
                                 serverVars
<1>1. CASE UNCHANGED vars
  BY <1>1 DEF WokenInv, Made, Agree, SameAddress, Phases, Above, vars
<1>2. CASE Next
  <2> PICK a \in Clients :
           \/ HasRecord(a) \/ Register(a) \/ Connect(a) \/ ConnectFails(a) \/ Insert(a)
           \/ Find(a) \/ AddToRecord(a) \/ StopReading(a) \/ Gone(a)
           \/ Delete(a) \/ Deleted(a)
           \/ Terminate(a) \/ EraseEnd(a) \/ RemoveFromRecord(a)
           \/ Send(a) \/ LookUp(a) \/ Put(a) \/ VisitBegin(a) \/ VisitEnd(a)
           \/ VisitThrows(a) \/ Append(a) \/ AppendThrows(a) \/ RemoteEnds(a)
    BY <1>2, NextCases
  <2>1. CASE HasRecord(a)
    BY <2>1 DEF WokenInv, Made, Agree, SameAddress, Phases, Above, TypeOK, HasRecord
  <2>2. CASE Connect(a)
    BY <2>2 DEF WokenInv, Made, Agree, SameAddress, Phases, Above, TypeOK, Connect
  <2>3. CASE ConnectFails(a)
    BY <2>3 DEF WokenInv, Made, Agree, SameAddress, Phases, Above, TypeOK, ConnectFails
  <2>4. CASE Insert(a)
    BY <2>4 DEF WokenInv, Made, Agree, SameAddress, Phases, Above, TypeOK, Insert
  <2>5. CASE Find(a)
    BY <2>5 DEF WokenInv, Made, Agree, SameAddress, Phases, Above, TypeOK, Find
  <2>6. CASE AddToRecord(a)
    BY <2>6 DEF WokenInv, Made, Agree, SameAddress, Phases, Above, TypeOK, AddToRecord, Tell
  <2>7. CASE StopReading(a)
    BY <2>7 DEF WokenInv, Made, Agree, SameAddress, Phases, Above, TypeOK, StopReading
  <2>8. CASE Gone(a)
    BY <2>8 DEF WokenInv, Made, Agree, SameAddress, Phases, Above, TypeOK, Gone
  <2>9. CASE Terminate(a)
    BY <2>9 DEF WokenInv, Made, Agree, SameAddress, Phases, Above, TypeOK, Terminate, RemoveBegin
  <2>10. CASE EraseEnd(a)
    BY <2>10 DEF WokenInv, Made, Agree, SameAddress, Phases, Above, TypeOK, EraseEnd
  <2>11. CASE RemoveFromRecord(a)
    BY <2>11 DEF WokenInv, Made, Agree, SameAddress, Phases, Above, TypeOK, RemoveFromRecord
  <2>12. CASE Send(a)
    BY <2>12 DEF WokenInv, Made, Agree, SameAddress, Phases, Above, TypeOK, Send
  <2>13. CASE LookUp(a)
    BY <2>13 DEF WokenInv, Made, Agree, SameAddress, Phases, Above, TypeOK, LookUp
  <2>14. CASE Put(a)
    BY <2>14 DEF WokenInv, Made, Agree, SameAddress, Phases, Above, TypeOK, Put
  <2>15. CASE VisitBegin(a)
    BY <2>15 DEF WokenInv, Made, Agree, SameAddress, Phases, Above, TypeOK, VisitBegin
  <2>16. CASE VisitEnd(a)
    BY <2>16 DEF WokenInv, Made, Agree, SameAddress, Phases, Above, TypeOK, VisitEnd, Tell
  <2>17. CASE VisitThrows(a)
    BY <2>17 DEF WokenInv, Made, Agree, SameAddress, Phases, Above, TypeOK, VisitThrows, Tell
  <2>18. CASE Append(a)
    BY <2>18 DEF WokenInv, Made, Agree, SameAddress, Phases, Above, TypeOK, Append, Tell
  <2>19. CASE AppendThrows(a)
    BY <2>19 DEF WokenInv, Made, Agree, SameAddress, Phases, Above, TypeOK, AppendThrows, Tell
  <2>20. CASE RemoteEnds(a)
    BY <2>20 DEF WokenInv, Made, Agree, SameAddress, Phases, Above, TypeOK, RemoteEnds
  <2>21. CASE Register(a)
    BY <2>21 DEF WokenInv, Made, Agree, SameAddress, Phases, Above, TypeOK, Register
  <2>22. CASE Delete(a)
    BY <2>22 DEF WokenInv, Made, Agree, SameAddress, Phases, Above, TypeOK, Delete, RemoveBegin
  <2>23. CASE Deleted(a)
    BY <2>23 DEF WokenInv, Made, Agree, SameAddress, Phases, Above, TypeOK, Deleted
  <2> QED
    BY <2>1, <2>2, <2>3, <2>4, <2>5, <2>6, <2>7, <2>8, <2>9, <2>10,
       <2>11, <2>12, <2>13, <2>14, <2>15, <2>16, <2>17, <2>18, <2>19, <2>20,
       <2>21, <2>22, <2>23
<1> QED
  BY <1>1, <1>2

\* The request that a RemoteHandler refers to is there when it is sent, unless the
\* record of another download has woken the client, or the destructor of Server has
\* deleted it.
THEOREM RequestIsAliveAlways == Spec => []RequestIsAlive
<1>1. Init => WokenInv
  BY CacheIndexAssumption DEF Init, WokenInv, Made
<1>2. TypeOK /\ TypeOK' /\ Agree /\ Agree' /\ WokenInv /\ [Next]_vars => WokenInv'
  BY WokenStep
<1>3. Agree /\ WokenInv => RequestIsAlive
  BY DEF Agree, Phases, WokenInv, Made, RequestIsAlive
<1> QED
  BY <1>1, <1>2, <1>3, TypeCorrect, AgreeAlways, PTL DEF Spec

-----------------------------------------------------------------------------
(* ListenersKnowCount, FloodNeedsTwoRecords, RemoveFindsReader *)

\* As long as there is one record of an address, nobody knows of more blocks than it
\* has, and whoever knows of one is its listener until it is removed.
CountInv ==
  /\ ListenersKnowCount
  /\ FloodNeedsTwoRecords
  /\ \A c \in Clients, s \in made :
       uri[s] = uri[c] /\ ~Doubled(uri[c]) => CacheBlocksNum[c] <= NumBlocks[s]
  /\ \A c \in Clients, s \in made :
       uri[s] = uri[c] /\ ~Doubled(uri[c]) /\ CacheBlocksNum[c] > 0 /\ removePc[c] # "done"
         => c \in Listeners[s]

\* Telling the clients S, all of them of the address of r, that r has n blocks:
\* when r has n blocks already, or all its listeners are told, or it is not alone.
LEMMA TellCounts ==
  ASSUME TypeOK, Agree, EmptyBeforePut, CountInv,
         NEW r \in made, NEW S \in SUBSET Clients, NEW n \in 0..MaxBlocks,
         \A c \in S : uri[c] = uri[r],
         Tell(S, n), NumBlocks[r] <= n,
         Doubled(uri[r]) \/ n = NumBlocks[r] \/ Listeners[r] \subseteq S,
         NumBlocks' = [NumBlocks EXCEPT ![r] = n],
         Listeners' = [Listeners EXCEPT ![r] = @ \cup S],
         UNCHANGED <<uri, made>>, \A c \in Clients : removePc'[c] = removePc[c]
  PROVE  CountInv'
<1> USE CacheIndexAssumption
<1>1. /\ r \in Clients
      /\ NumBlocks'[r] = n /\ \A s \in Clients \ {r} : NumBlocks'[s] = NumBlocks[s]
      /\ Listeners'[r] = Listeners[r] \cup S
      /\ \A s \in Clients \ {r} : Listeners'[s] = Listeners[s]
      /\ \A c \in Clients : CacheBlocksNum'[c] = IF c \in S THEN n ELSE CacheBlocksNum[c]
      /\ \A s \in Clients : NumBlocks[s] \in Nat /\ CacheBlocksNum[s] \in Nat
  BY DEF TypeOK, Tell
<1>2. \A u : Doubled(u)' <=> Doubled(u)
  BY DEF Doubled
<1>3. \A s \in made : s # r /\ uri[s] = uri[r] => Doubled(uri[r])
  BY <1>1 DEF Doubled
<1>4. ListenersKnowCount'
  <2> SUFFICES ASSUME NEW c \in Clients, NEW s \in Clients, c \in Listeners'[s], ~Doubled(uri[s])
               PROVE  CacheBlocksNum'[c] = NumBlocks'[s]
    BY <1>2 DEF ListenersKnowCount
  <2>1. CASE s = r
    BY <1>1, <2>1 DEF CountInv, ListenersKnowCount
  <2>2. CASE s # r
    <3>1. c \in Listeners[s] /\ s \in made /\ uri[c] = uri[s]
      BY <1>1, <2>2 DEF EmptyBeforePut, Agree, SameAddress
    <3>2. c \notin S
      BY <1>3, <2>2, <3>1
    <3> QED
      BY <1>1, <2>2, <3>1, <3>2 DEF CountInv, ListenersKnowCount
  <2> QED
    BY <2>1, <2>2
<1>5. FloodNeedsTwoRecords'
  <2> SUFFICES ASSUME NEW c \in flooded'
               PROVE  Doubled(uri[c])
    BY <1>2 DEF FloodNeedsTwoRecords
  <2>1. CASE c \in flooded
    BY <2>1 DEF CountInv, FloodNeedsTwoRecords
  <2>2. CASE c \in S /\ CacheBlocksNum[c] > n
    <3>1. NumBlocks[r] < CacheBlocksNum[c]
      BY <1>1, <2>2
    <3>2. uri[r] = uri[c] /\ c \in Clients
      BY <2>2
    <3>3. ~(CacheBlocksNum[c] <= NumBlocks[r])
      BY <1>1, <3>1, <3>2
    <3> QED
      BY <3>2, <3>3 DEF CountInv
  <2> QED
    BY <2>1, <2>2 DEF Tell
<1>6. ASSUME NEW c \in Clients, NEW s \in made, uri[s] = uri[c], ~Doubled(uri[c])
      PROVE  CacheBlocksNum'[c] <= NumBlocks'[s]
  <2>1. CacheBlocksNum[c] <= NumBlocks[s] /\ s \in Clients
    BY <1>6 DEF CountInv, TypeOK
  <2>2. NumBlocks[s] <= NumBlocks'[s]
    BY <1>1, <2>1
  <2>3. CASE c \in S
    <3>1. s = r
      BY <1>3, <1>6, <2>3
    <3> QED
      BY <1>1, <2>3, <3>1
  <2>4. CASE c \notin S
    <3>1. NumBlocks'[s] \in Nat
      BY <1>1, <2>1
    <3> QED
      BY <1>1, <2>1, <2>2, <2>4, <3>1
  <2> QED
    BY <2>3, <2>4
<1>7. ASSUME NEW c \in Clients, NEW s \in made, uri[s] = uri[c], ~Doubled(uri[c]),
             CacheBlocksNum'[c] > 0, removePc'[c] # "done"
      PROVE  c \in Listeners'[s]
  <2>1. CASE c \in S
    BY <1>1, <1>3, <1>7, <2>1
  <2>2. CASE c \notin S
    BY <1>1, <1>7, <2>2 DEF CountInv
  <2> QED
    BY <2>1, <2>2
<1>8. /\ \A c \in Clients, s \in made' :
           uri'[s] = uri'[c] /\ ~Doubled(uri[c])' => CacheBlocksNum'[c] <= NumBlocks'[s]
      /\ \A c \in Clients, s \in made' :
           uri'[s] = uri'[c] /\ ~Doubled(uri[c])' /\ CacheBlocksNum'[c] > 0
             /\ removePc'[c] # "done" => c \in Listeners'[s]
  BY <1>2, <1>6, <1>7
<1> QED
  BY <1>4, <1>5, <1>8 DEF CountInv

LEMMA CountStep ==
  ASSUME TypeOK, TypeOK', Agree, Agree', EmptyBeforePut, WokenInv, CountInv, [Next]_vars
  PROVE  CountInv'
<1> USE CacheIndexAssumption DEF indexVars, recordVars, clientVars, removeVars, remoteVars,
                                 serverVars
<1>1. CASE UNCHANGED vars
  BY <1>1 DEF CountInv, ListenersKnowCount, FloodNeedsTwoRecords, Doubled, Agree, SameAddress, Phases, EmptyBeforePut, vars
<1>2. CASE Next
  <2> PICK a \in Clients :
           \/ HasRecord(a) \/ Register(a) \/ Connect(a) \/ ConnectFails(a) \/ Insert(a)
           \/ Find(a) \/ AddToRecord(a) \/ StopReading(a) \/ Gone(a)
           \/ Delete(a) \/ Deleted(a)
           \/ Terminate(a) \/ EraseEnd(a) \/ RemoveFromRecord(a)
           \/ Send(a) \/ LookUp(a) \/ Put(a) \/ VisitBegin(a) \/ VisitEnd(a)
           \/ VisitThrows(a) \/ Append(a) \/ AppendThrows(a) \/ RemoteEnds(a)
    BY <1>2, NextCases
  <2>1. CASE HasRecord(a)
    BY <2>1 DEF CountInv, ListenersKnowCount, FloodNeedsTwoRecords, Doubled, Agree, SameAddress, Phases, EmptyBeforePut, TypeOK, HasRecord
  <2>2. CASE Connect(a)
    BY <2>2 DEF CountInv, ListenersKnowCount, FloodNeedsTwoRecords, Doubled, Agree, SameAddress, Phases, EmptyBeforePut, TypeOK, Connect
  <2>3. CASE ConnectFails(a)
    BY <2>3 DEF CountInv, ListenersKnowCount, FloodNeedsTwoRecords, Doubled, Agree, SameAddress, Phases, EmptyBeforePut, TypeOK, ConnectFails
  <2>4. CASE Insert(a)
    BY <2>4 DEF CountInv, ListenersKnowCount, FloodNeedsTwoRecords, Doubled, Agree, SameAddress, Phases, EmptyBeforePut, TypeOK, Insert
  <2>5. CASE Find(a)
    BY <2>5 DEF CountInv, ListenersKnowCount, FloodNeedsTwoRecords, Doubled, Agree, SameAddress, Phases, EmptyBeforePut, TypeOK, Find
  <2>6. CASE AddToRecord(a)
    <3>1. found[a] \in made /\ uri[found[a]] = uri[a] /\ found[a] \in Clients
      BY <2>6 DEF AddToRecord, TypeOK, Agree, SameAddress
    <3>2. NumBlocks[found[a]] \in 0..MaxBlocks /\ NumBlocks[found[a]] <= NumBlocks[found[a]]
      BY <3>1 DEF TypeOK
    <3>3. /\ Tell({a}, NumBlocks[found[a]])
          /\ NumBlocks' = [NumBlocks EXCEPT ![found[a]] = NumBlocks[found[a]]]
          /\ Listeners' = [Listeners EXCEPT ![found[a]] = @ \cup {a}]
          /\ UNCHANGED <<uri, made, removePc>>
      BY <2>6, <3>1 DEF AddToRecord, TypeOK
    <3>4. {a} \in SUBSET Clients /\ \A c \in {a} : uri[c] = uri[found[a]]
      BY <3>1
    <3> QED
      BY <3>1, <3>2, <3>3, <3>4, TellCounts
  <2>7. CASE StopReading(a)
    BY <2>7 DEF CountInv, ListenersKnowCount, FloodNeedsTwoRecords, Doubled, Agree, SameAddress, Phases, EmptyBeforePut, TypeOK, StopReading
  <2>8. CASE Gone(a)
    BY <2>8 DEF CountInv, ListenersKnowCount, FloodNeedsTwoRecords, Doubled, Agree, SameAddress, Phases, EmptyBeforePut, TypeOK, Gone
  <2>9. CASE Terminate(a)
    BY <2>9 DEF CountInv, ListenersKnowCount, FloodNeedsTwoRecords, Doubled, Agree, SameAddress, Phases, EmptyBeforePut, TypeOK, Terminate, RemoveBegin
  <2>10. CASE EraseEnd(a)
    BY <2>10 DEF CountInv, ListenersKnowCount, FloodNeedsTwoRecords, Doubled, Agree, SameAddress, Phases, EmptyBeforePut, TypeOK, EraseEnd
  <2>11. CASE RemoveFromRecord(a)
    BY <2>11 DEF CountInv, ListenersKnowCount, FloodNeedsTwoRecords, Doubled, Agree, SameAddress, Phases, EmptyBeforePut, TypeOK, RemoveFromRecord
  <2>12. CASE Send(a)
    BY <2>12 DEF CountInv, ListenersKnowCount, FloodNeedsTwoRecords, Doubled, Agree, SameAddress, Phases, EmptyBeforePut, TypeOK, Send
  <2>13. CASE LookUp(a)
    BY <2>13 DEF CountInv, ListenersKnowCount, FloodNeedsTwoRecords, Doubled, Agree, SameAddress, Phases, EmptyBeforePut, TypeOK, LookUp
  <2>14. CASE Put(a)
    <3>1. a \notin made /\ made' = made \cup {a}
      BY <2>14 DEF Put, Agree, Phases
    <3>2. UNCHANGED <<uri, Listeners, NumBlocks, CacheBlocksNum, flooded, removePc>>
      BY <2>14 DEF Put
    <3>3. \A u : Doubled(u) => Doubled(u)'
      BY <3>1, <3>2 DEF Doubled
    <3>4. \A u : Made(u) /\ uri[a] = u => Doubled(u)'
      BY <3>1, <3>2 DEF Doubled, Made
    <3>5. ListenersKnowCount' /\ FloodNeedsTwoRecords'
      BY <3>2, <3>3 DEF CountInv, ListenersKnowCount, FloodNeedsTwoRecords
    <3>6. ASSUME NEW c \in Clients, uri[a] = uri[c], ~Doubled(uri[c])'
          PROVE  CacheBlocksNum[c] = 0 /\ CacheBlocksNum[c] <= NumBlocks[a]
      <4>1. ~(CacheBlocksNum[c] > 0) /\ CacheBlocksNum[c] \in Nat /\ NumBlocks[a] \in Nat
        BY <3>2, <3>4, <3>6 DEF WokenInv, TypeOK, Doubled
      <4> QED
        BY <4>1
    <3>7. /\ \A c \in Clients, s \in made' :
               uri'[s] = uri'[c] /\ ~Doubled(uri[c])' => CacheBlocksNum'[c] <= NumBlocks'[s]
          /\ \A c \in Clients, s \in made' :
               uri'[s] = uri'[c] /\ ~Doubled(uri[c])' /\ CacheBlocksNum'[c] > 0
                 /\ removePc'[c] # "done" => c \in Listeners'[s]
      BY <3>1, <3>2, <3>3, <3>6 DEF CountInv
    <3> QED
      BY <3>5, <3>7 DEF CountInv
  <2>15. CASE VisitBegin(a)
    BY <2>15 DEF CountInv, ListenersKnowCount, FloodNeedsTwoRecords, Doubled, Agree, SameAddress, Phases, EmptyBeforePut, TypeOK, VisitBegin
  <2>16. CASE VisitEnd(a)
    <3>1. a \in made /\ uri[a] \in URIs /\ URIListeners[uri[a]] \in SUBSET Clients
      BY <2>16 DEF VisitEnd, TypeOK, Agree, Phases
    <3>2. NumBlocks[a] \in 0..MaxBlocks /\ NumBlocks[a] <= NumBlocks[a]
      BY DEF TypeOK
    <3>3. /\ Tell(URIListeners[uri[a]], NumBlocks[a])
          /\ NumBlocks' = [NumBlocks EXCEPT ![a] = NumBlocks[a]]
          /\ Listeners' = [Listeners EXCEPT ![a] = @ \cup URIListeners[uri[a]]]
          /\ UNCHANGED <<uri, made, removePc>>
      BY <2>16 DEF VisitEnd, TypeOK
    <3>4. \A c \in URIListeners[uri[a]] : uri[c] = uri[a]
      BY <3>1 DEF Agree, SameAddress
    <3> QED
      BY <3>1, <3>2, <3>3, <3>4, TellCounts
  <2>17. CASE VisitThrows(a)
    <3>1. PICK told \in SUBSET URIListeners[uri[a]] :
             /\ Tell(told, NumBlocks[a])
             /\ Listeners' = [Listeners EXCEPT ![a] = @ \cup told]
      BY <2>17 DEF VisitThrows
    <3>2. a \in made /\ uri[a] \in URIs /\ told \in SUBSET Clients
      BY <2>17 DEF VisitThrows, TypeOK, Agree, Phases
    <3>3. NumBlocks[a] \in 0..MaxBlocks /\ NumBlocks[a] <= NumBlocks[a]
      BY DEF TypeOK
    <3>4. /\ NumBlocks' = [NumBlocks EXCEPT ![a] = NumBlocks[a]]
          /\ UNCHANGED <<uri, made, removePc>>
      BY <2>17 DEF VisitThrows, TypeOK
    <3>5. \A c \in told : uri[c] = uri[a]
      BY <3>2 DEF Agree, SameAddress
    <3> QED
      BY <3>1, <3>2, <3>3, <3>4, <3>5, TellCounts
  <2>18. CASE Append(a)
    <3>1. CR[a] \in made /\ CR[a] \in Clients
      BY <2>18 DEF Append, TypeOK, Agree, SameAddress
    <3>2. /\ NumBlocks[CR[a]] \in 0..MaxBlocks /\ NumBlocks'[CR[a]] = NumBlocks[CR[a]] + 1
          /\ NumBlocks'[CR[a]] \in 0..MaxBlocks /\ NumBlocks[CR[a]] <= NumBlocks'[CR[a]]
          /\ NumBlocks' = [NumBlocks EXCEPT ![CR[a]] = NumBlocks'[CR[a]]]
      BY <2>18, <3>1 DEF Append, TypeOK
    <3>3. /\ Tell(Listeners[CR[a]], NumBlocks'[CR[a]])
          /\ Listeners' = [Listeners EXCEPT ![CR[a]] = @ \cup Listeners[CR[a]]]
          /\ Listeners[CR[a]] \in SUBSET Clients
          /\ UNCHANGED <<uri, made, removePc>>
      BY <2>18, <3>1 DEF Append, TypeOK
    <3>4. \A c \in Listeners[CR[a]] : uri[c] = uri[CR[a]]
      BY <3>1 DEF Agree, SameAddress
    <3> QED
      BY <3>1, <3>2, <3>3, <3>4, TellCounts
  <2>19. CASE AppendThrows(a)
    <3>1. CR[a] \in made /\ CR[a] \in Clients
      BY <2>19 DEF AppendThrows, TypeOK, Agree, SameAddress
    <3>2. /\ NumBlocks[CR[a]] \in 0..MaxBlocks /\ NumBlocks'[CR[a]] = NumBlocks[CR[a]] + 1
          /\ NumBlocks'[CR[a]] \in 0..MaxBlocks /\ NumBlocks[CR[a]] <= NumBlocks'[CR[a]]
          /\ NumBlocks' = [NumBlocks EXCEPT ![CR[a]] = NumBlocks'[CR[a]]]
      BY <2>19, <3>1 DEF AppendThrows, TypeOK
    <3>3. PICK told \in SUBSET Listeners[CR[a]] :
             Thrown(told, NumBlocks'[CR[a]]) /\ Tell(told, NumBlocks'[CR[a]])
      BY <2>19 DEF AppendThrows
    <3>4. /\ Listeners' = [Listeners EXCEPT ![CR[a]] = @ \cup told]
          /\ told \in SUBSET Clients
          /\ UNCHANGED <<uri, made, removePc>>
      BY <2>19, <3>1 DEF AppendThrows, TypeOK
    <3>5. \A c \in told : uri[c] = uri[CR[a]]
      BY <3>1 DEF Agree, SameAddress
    <3>6. PICK v \in told : CacheBlocksNum[v] > NumBlocks'[CR[a]]
      BY <3>3 DEF Thrown, Above
    <3>7. CacheBlocksNum[v] # NumBlocks[CR[a]] /\ v \in Clients
      BY <3>2, <3>4, <3>6
    <3>8. Doubled(uri[CR[a]])
      BY <3>1, <3>3, <3>7 DEF CountInv, ListenersKnowCount
    <3> QED
      BY <3>1, <3>2, <3>3, <3>4, <3>5, <3>8, TellCounts
  <2>20. CASE RemoteEnds(a)
    BY <2>20 DEF CountInv, ListenersKnowCount, FloodNeedsTwoRecords, Doubled, Agree, SameAddress, Phases, EmptyBeforePut, TypeOK, RemoteEnds
  <2>21. CASE Register(a)
    BY <2>21 DEF CountInv, ListenersKnowCount, FloodNeedsTwoRecords, Doubled, Agree, SameAddress, Phases, EmptyBeforePut, TypeOK, Register
  <2>22. CASE Delete(a)
    BY <2>22 DEF CountInv, ListenersKnowCount, FloodNeedsTwoRecords, Doubled, Agree, SameAddress, Phases, EmptyBeforePut, TypeOK, Delete, RemoveBegin
  <2>23. CASE Deleted(a)
    BY <2>23 DEF CountInv, ListenersKnowCount, FloodNeedsTwoRecords, Doubled, Agree, SameAddress, Phases, EmptyBeforePut, TypeOK, Deleted
  <2> QED
    BY <2>1, <2>2, <2>3, <2>4, <2>5, <2>6, <2>7, <2>8, <2>9, <2>10,
       <2>11, <2>12, <2>13, <2>14, <2>15, <2>16, <2>17, <2>18, <2>19, <2>20,
       <2>21, <2>22, <2>23
<1> QED
  BY <1>1, <1>2

\* What the listeners know of the only record of an address.
THEOREM CountAlways == Spec => [](WokenInv /\ CountInv)
<1>1. Init => WokenInv /\ CountInv
  <2>1. Init => WokenInv
    BY DEF Init, WokenInv
  <2>2. Init => CountInv
    BY DEF Init, CountInv, ListenersKnowCount, FloodNeedsTwoRecords
  <2> QED
    BY <2>1, <2>2
<1>2. /\ TypeOK /\ TypeOK' /\ Agree /\ Agree' /\ EmptyBeforePut
      /\ WokenInv /\ CountInv /\ [Next]_vars
    => WokenInv' /\ CountInv'
  <2> SUFFICES ASSUME TypeOK, TypeOK', Agree, Agree', EmptyBeforePut, WokenInv, CountInv,
                      [Next]_vars
               PROVE  WokenInv' /\ CountInv'
    OBVIOUS
  <2>1. WokenInv'
    BY WokenStep
  <2>2. CountInv'
    BY CountStep
  <2> QED
    BY <2>1, <2>2
<1> QED
  BY <1>1, <1>2, TypeCorrect, AgreeAlways, RemovedAlways, PTL DEF Spec

\* Every listener of a record that is alone knows the number of its blocks.
THEOREM ListenersKnowCountAlways == Spec => []ListenersKnowCount
<1>1. CountInv => ListenersKnowCount
  BY DEF CountInv
<1> QED
  BY <1>1, CountAlways, PTL

\* The count of a client goes down only when there are two records of its address.
THEOREM FloodNeedsTwoRecordsAlways == Spec => []FloodNeedsTwoRecords
<1>1. CountInv => FloodNeedsTwoRecords
  BY DEF CountInv
<1> QED
  BY <1>1, CountAlways, PTL

\* A client that has been told of a block of the only record is its listener when
\* it comes to be removed.
THEOREM RemoveFindsReaderAlways == Spec => []RemoveFindsReader
<1>1. TypeOK /\ Agree /\ WokenInv /\ CountInv => RemoveFindsReader
  <2> SUFFICES ASSUME TypeOK, Agree, WokenInv, CountInv, NEW c \in Clients,
                      removePc[c] = "record", CacheBlocksNum[c] > 0, ~Doubled(uri[c])
               PROVE  c \in Listeners[Records[uri[c]]]
    BY DEF RemoveFindsReader
  <2>1. PICK s \in made : uri[s] = uri[c]
    BY DEF WokenInv, Made
  <2>2. uri[c] \in URIs /\ Records[uri[c]] \in Clients
    BY <2>1 DEF TypeOK, Agree, SameAddress
  <2>3. Records[uri[c]] \in made /\ uri[Records[uri[c]]] = uri[c]
    BY <2>2 DEF Agree, SameAddress
  <2> QED
    BY <2>3 DEF CountInv
<1> QED
  BY <1>1, CountAlways, TypeCorrect, AgreeAlways, PTL

=============================================================================
