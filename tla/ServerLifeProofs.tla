-------------------------- MODULE ServerLifeProofs --------------------------
(***************************************************************************)
(* The safety properties of ServerLife, for any finite sets of clients and *)
(* remotes.                                                                *)
(*                                                                         *)
(* What carries the proof is where a handler is: not created, being        *)
(* created by one other (ChildInv), in Handlers, being deleted, or deleted *)
(* with its thread ended (PlaceInv).  DeadInv follows the dead handlers    *)
(* through EraseDeadHandlers, EndInv follows all of them through the       *)
(* destructor, and MarkInv says why a thread may end.  InterruptInv, on    *)
(* top of them, is for the refinement of Joinable, and HeldInv for who     *)
(* waits for whom in Join.                                                 *)
(***************************************************************************)
EXTENDS ServerLife, FiniteSetTheorems, TLAPS

\* Who is in the middle of creating a handler, and which.
Creating(h) == pc[h] \in {"register", "start"}

\* The ServerHandler creates clients, clients create remotes; a new handler has
\* one creator, and is registered before it is started.
ChildInv ==
  /\ \A h \in AllHandlers : pc[h] = "cache" => h \in Clients
  /\ \A h \in AllHandlers : Creating(h) =>
       \/ h = SrvHandler /\ child[h] \in Clients
       \/ h \in Clients /\ child[h] \in Remotes
  /\ \A h \in AllHandlers : ~Creating(h) => child[h] = NoHandler
  /\ \A h \in AllHandlers : pc[h] = "register" => pc[child[h]] = "none"
  /\ \A h \in AllHandlers : pc[h] = "start" => pc[child[h]] = "created"
  /\ \A h, g \in AllHandlers : Creating(h) /\ Creating(g) /\ child[h] = child[g] => h = g

\* The threads that have marked themselves, or have ended.
Over == {h \in AllHandlers : pc[h] \in {"leaving", "done"}}

\* The semaphore is posted once for each of them at most.
CountInv == ServerTasks \in Nat /\ ServerTasks <= Cardinality(Over)

\* Where a handler is.
PlaceInv ==
  /\ serverPc \in {"joining", "destroyJoin"} => victim \in AllHandlers
  /\ serverPc = "joining" => victim \notin Handlers
  /\ \A h \in AllHandlers : pc[h] = "none" => h \notin Handlers
  /\ \A h \in AllHandlers : pc[h] # "none" =>
       \/ h \in Handlers \cup deleted
       \/ serverPc = "joining" /\ h = victim
  /\ \A h \in deleted : pc[h] = "done"
  /\ NoDeletedHandler

\* The dead handlers, before, during and after EraseDeadHandlers.
DeadInv ==
  /\ RemoveFindsHandler
  /\ serverPc \in {"erasing", "joining"} => toErase \subseteq DeadHandlers
  /\ serverPc = "joining" => toErase \subseteq Handlers \ deleted
  /\ serverPc = "erasing" => DeadHandlers \subseteq toErase \cup deleted
  /\ serverPc = "joining" =>
       victim \in DeadHandlers /\ DeadHandlers \subseteq toErase \cup deleted \cup {victim}

\* The destructor of Server deletes everything.
EndInv ==
  /\ serverPc = "destroy" => Handlers \subseteq toErase \cup deleted
  /\ serverPc = "destroyJoin" => Handlers \subseteq toErase \cup deleted \cup {victim}
  /\ serverPc = "gone" => Handlers \subseteq deleted

\* While the server runs, a thread ends because it has marked itself or is being
\* deleted for that, or because it was inactive.
MarkInv ==
  Running =>
    /\ terminated \subseteq DeadHandlers \cup deleted \cup timedOut
    /\ interrupted \subseteq DeadHandlers \cup deleted
    /\ \A h \in Over : h \in DeadHandlers \cup deleted \cup timedOut

IInv == TypeOK /\ ChildInv /\ CountInv /\ PlaceInv /\ DeadInv /\ EndInv /\ MarkInv

-----------------------------------------------------------------------------
\* There are finitely many handlers, and the kinds differ.
LEMMA Kinds ==
  /\ IsFiniteSet(AllHandlers)
  /\ Clients \subseteq AllHandlers /\ Remotes \subseteq AllHandlers
  /\ SrvHandler \in AllHandlers /\ NoHandler \notin AllHandlers
  /\ \A h \in Clients : h # SrvHandler /\ h \notin Remotes /\ h # NoHandler
  /\ \A h \in Remotes : h # SrvHandler /\ h # NoHandler
<1>1. IsFiniteSet(Clients \cup Remotes)
  BY ServerLifeAssumption, FS_Union
<1>2. IsFiniteSet(AllHandlers)
  BY <1>1, FS_AddElement DEF AllHandlers
<1> QED
  BY <1>2, ServerLifeAssumption DEF AllHandlers

\* What one step may be.
LEMMA NextSplit ==
  ASSUME [Next]_vars
  PROVE  \/ UNCHANGED vars
         \/ \E h, g \in AllHandlers, S \in SUBSET Handlers :
              \/ Loop(h) \/ PollReturns(h) \/ HandleData(h) \/ HandleEnd(h)
              \/ HandleBlock(h) \/ HandleRequest(h) \/ CacheHit(h) \/ CacheMiss(h, g)
              \/ Accept(g) \/ Register(h) \/ StartClient \/ StartRemote(h)
              \/ ConnectFails(h) \/ Wake(h) \/ Finish(h) \/ Leave(h)
              \/ ServerLoop \/ ServerAcquire \/ ServerAcquireFails \/ OnSignal
              \/ OnSignalSticks \/ EraseBegin \/ RemoveHandler(h) \/ Join
              \/ EraseEnd \/ TerminateTimedOut(S) \/ DestroyHandler(h) \/ DestroyEnd
<1>1. CASE UNCHANGED vars
  BY <1>1
<1>2. CASE Next
  <2> USE Kinds
  <2>1. ASSUME NEW h \in AllHandlers, HandlerStep(h)
        PROVE  \E g \in AllHandlers :
                 \/ Loop(h) \/ PollReturns(h) \/ HandleData(h) \/ HandleEnd(h)
                 \/ HandleBlock(h) \/ HandleRequest(h) \/ CacheHit(h) \/ CacheMiss(h, g)
                 \/ Accept(g) \/ Register(h) \/ StartClient \/ StartRemote(h)
                 \/ ConnectFails(h) \/ Finish(h) \/ Leave(h)
    BY <2>1 DEF HandlerStep
  <2>2. ASSUME ServerStep
        PROVE  \E h \in AllHandlers, S \in SUBSET Handlers :
                 \/ ServerLoop \/ ServerAcquire \/ ServerAcquireFails \/ EraseBegin
                 \/ EraseEnd \/ Join \/ DestroyEnd \/ RemoveHandler(h) \/ DestroyHandler(h)
                 \/ TerminateTimedOut(S)
    <3>1. {} \in SUBSET Handlers
      OBVIOUS
    <3> QED
      BY <2>2, <3>1 DEF ServerStep
  <2>3. {} \in SUBSET Handlers
    OBVIOUS
  <2> QED
    BY <1>2, <2>1, <2>2, <2>3 DEF Next
<1> QED
  BY <1>1, <1>2

\* The creators and the created.
LEMMA ChildStep ==
  ASSUME TypeOK, ChildInv, [Next]_vars
  PROVE  ChildInv'
<1>1. CASE UNCHANGED vars
  BY <1>1 DEF TypeOK, Pcs, ServerPcs, ChildInv, Creating, vars, serverVars, threadVars
<1>2. CASE ~UNCHANGED vars
  <2>0. PICK h \in AllHandlers, g \in AllHandlers, S \in SUBSET Handlers :
          \/ Loop(h) \/ PollReturns(h) \/ HandleData(h) \/ HandleEnd(h)
          \/ HandleBlock(h) \/ HandleRequest(h) \/ CacheHit(h) \/ CacheMiss(h, g)
          \/ Accept(g) \/ Register(h) \/ StartClient \/ StartRemote(h)
          \/ ConnectFails(h) \/ Wake(h) \/ Finish(h) \/ Leave(h)
          \/ ServerLoop \/ ServerAcquire \/ ServerAcquireFails \/ OnSignal
          \/ OnSignalSticks \/ EraseBegin \/ RemoveHandler(h) \/ Join
          \/ EraseEnd \/ TerminateTimedOut(S) \/ DestroyHandler(h) \/ DestroyEnd
    BY <1>2, NextSplit
  <2>1. CASE Loop(h)
    BY <2>1, Kinds DEF TypeOK, Pcs, ServerPcs, ChildInv, Creating, Loop, Goto, serverVars, threadVars
  <2>2. CASE PollReturns(h)
    BY <2>2, Kinds DEF TypeOK, Pcs, ServerPcs, ChildInv, Creating, PollReturns, Goto, serverVars, threadVars
  <2>3. CASE HandleData(h)
    BY <2>3, Kinds DEF TypeOK, Pcs, ServerPcs, ChildInv, Creating, HandleData, Goto, serverVars, threadVars
  <2>4. CASE HandleEnd(h)
    BY <2>4, Kinds DEF TypeOK, Pcs, ServerPcs, ChildInv, Creating, HandleEnd, Goto, serverVars, threadVars
  <2>5. CASE HandleBlock(h)
    BY <2>5, Kinds DEF TypeOK, Pcs, ServerPcs, ChildInv, Creating, HandleBlock, Goto, serverVars, threadVars
  <2>6. CASE HandleRequest(h)
    BY <2>6, Kinds DEF TypeOK, Pcs, ServerPcs, ChildInv, Creating, HandleRequest, Goto, serverVars, threadVars
  <2>7. CASE CacheHit(h)
    BY <2>7, Kinds DEF TypeOK, Pcs, ServerPcs, ChildInv, Creating, CacheHit, Goto, serverVars, threadVars
  <2>8. CASE CacheMiss(h, g)
    BY <2>8, Kinds DEF TypeOK, Pcs, ServerPcs, ChildInv, Creating, CacheMiss, Goto, serverVars, threadVars
  <2>9. CASE Accept(g)
    BY <2>9, Kinds DEF TypeOK, Pcs, ServerPcs, ChildInv, Creating, Accept, Goto, serverVars, threadVars
  <2>10. CASE Register(h)
    BY <2>10, Kinds DEF TypeOK, Pcs, ServerPcs, ChildInv, Creating, Register, HandlersUnlocked, serverVars, threadVars
  <2>11. CASE StartClient
    BY <2>11, Kinds DEF TypeOK, Pcs, ServerPcs, ChildInv, Creating, StartClient, serverVars, threadVars
  <2>12. CASE StartRemote(h)
    BY <2>12, Kinds DEF TypeOK, Pcs, ServerPcs, ChildInv, Creating, StartRemote, serverVars, threadVars
  <2>13. CASE ConnectFails(h)
    BY <2>13, Kinds DEF TypeOK, Pcs, ServerPcs, ChildInv, Creating, ConnectFails, Goto, serverVars, threadVars
  <2>14. CASE Wake(h)
    BY <2>14, Kinds DEF TypeOK, Pcs, ServerPcs, ChildInv, Creating, Wake, Goto, serverVars, threadVars
  <2>15. CASE Finish(h)
    BY <2>15, Kinds DEF TypeOK, Pcs, ServerPcs, ChildInv, Creating, Finish, Goto, DeadHandlersUnlocked, serverVars, threadVars
  <2>16. CASE Leave(h)
    BY <2>16, Kinds DEF TypeOK, Pcs, ServerPcs, ChildInv, Creating, Leave, Goto, serverVars, threadVars
  <2>17. CASE ServerLoop
    BY <2>17, Kinds DEF TypeOK, Pcs, ServerPcs, ChildInv, Creating, ServerLoop, serverVars, threadVars
  <2>18. CASE ServerAcquire
    BY <2>18, Kinds DEF TypeOK, Pcs, ServerPcs, ChildInv, Creating, ServerAcquire, serverVars, threadVars
  <2>19. CASE ServerAcquireFails
    BY <2>19, Kinds DEF TypeOK, Pcs, ServerPcs, ChildInv, Creating, ServerAcquireFails, serverVars, threadVars
  <2>20. CASE OnSignal
    BY <2>20, Kinds DEF TypeOK, Pcs, ServerPcs, ChildInv, Creating, OnSignal, serverVars, threadVars
  <2>21. CASE OnSignalSticks
    BY <2>21, Kinds DEF TypeOK, Pcs, ServerPcs, ChildInv, Creating, OnSignalSticks, serverVars, threadVars
  <2>22. CASE EraseBegin
    BY <2>22, Kinds DEF TypeOK, Pcs, ServerPcs, ChildInv, Creating, EraseBegin, serverVars, threadVars
  <2>23. CASE RemoveHandler(h)
    BY <2>23, Kinds DEF TypeOK, Pcs, ServerPcs, ChildInv, Creating, RemoveHandler, Interrupt, serverVars, threadVars
  <2>24. CASE Join
    BY <2>24, Kinds DEF TypeOK, Pcs, ServerPcs, ChildInv, Creating, Join, serverVars, threadVars
  <2>25. CASE EraseEnd
    BY <2>25, Kinds DEF TypeOK, Pcs, ServerPcs, ChildInv, Creating, EraseEnd, serverVars, threadVars
  <2>26. CASE TerminateTimedOut(S)
    BY <2>26, Kinds DEF TypeOK, Pcs, ServerPcs, ChildInv, Creating, TerminateTimedOut, serverVars, threadVars
  <2>27. CASE DestroyHandler(h)
    BY <2>27, Kinds DEF TypeOK, Pcs, ServerPcs, ChildInv, Creating, DestroyHandler, Interrupt, serverVars, threadVars
  <2>28. CASE DestroyEnd
    BY <2>28, Kinds DEF TypeOK, Pcs, ServerPcs, ChildInv, Creating, DestroyEnd, serverVars, threadVars
  <2> QED
    BY <2>0, <2>1, <2>2, <2>3, <2>4, <2>5, <2>6, <2>7, <2>8, <2>9, <2>10, <2>11, <2>12, <2>13, <2>14, <2>15, <2>16, <2>17, <2>18, <2>19, <2>20, <2>21, <2>22, <2>23, <2>24, <2>25, <2>26, <2>27, <2>28
<1> QED
  BY <1>1, <1>2

\* The semaphore and the marks.
LEMMA CountStep ==
  ASSUME TypeOK, ChildInv, CountInv, [Next]_vars
  PROVE  CountInv'
<1>0. IsFiniteSet(Over) /\ IsFiniteSet(Over')
  BY Kinds, FS_Subset DEF Over
<1>a. ASSUME Over \subseteq Over', ServerTasks' \in Nat, ServerTasks' <= ServerTasks
      PROVE  CountInv'
  <2>1. Cardinality(Over) <= Cardinality(Over')
    BY <1>a, <1>0, FS_Subset
  <2>2. Cardinality(Over) \in Nat /\ Cardinality(Over') \in Nat
    BY <1>0, FS_CardinalityType
  <2>3. ServerTasks \in Nat /\ ServerTasks <= Cardinality(Over)
    BY DEF CountInv
  <2> QED
    BY <1>a, <2>1, <2>2, <2>3 DEF CountInv
<1>1. CASE UNCHANGED vars
  <2>1. Over \subseteq Over' /\ ServerTasks' = ServerTasks
    BY <1>1 DEF Over, vars, serverVars, threadVars
  <2> QED
    BY <2>1, <1>a DEF CountInv
<1>2. CASE ~UNCHANGED vars
  <2>0. PICK h \in AllHandlers, g \in AllHandlers, S \in SUBSET Handlers :
          \/ Loop(h) \/ PollReturns(h) \/ HandleData(h) \/ HandleEnd(h)
          \/ HandleBlock(h) \/ HandleRequest(h) \/ CacheHit(h) \/ CacheMiss(h, g)
          \/ Accept(g) \/ Register(h) \/ StartClient \/ StartRemote(h)
          \/ ConnectFails(h) \/ Wake(h) \/ Finish(h) \/ Leave(h)
          \/ ServerLoop \/ ServerAcquire \/ ServerAcquireFails \/ OnSignal
          \/ OnSignalSticks \/ EraseBegin \/ RemoveHandler(h) \/ Join
          \/ EraseEnd \/ TerminateTimedOut(S) \/ DestroyHandler(h) \/ DestroyEnd
    BY <1>2, NextSplit
  <2>1. CASE Loop(h)
    <3>1. Over \subseteq Over'
      BY <2>1, Kinds DEF TypeOK, ChildInv, Creating, Over, Loop, Goto, serverVars, threadVars
    <3>2. ServerTasks' \in Nat /\ ServerTasks' <= ServerTasks
      BY <2>1 DEF CountInv, Loop, serverVars
    <3> QED
      BY <3>1, <3>2, <1>a
  <2>2. CASE PollReturns(h)
    <3>1. Over \subseteq Over'
      BY <2>2, Kinds DEF TypeOK, ChildInv, Creating, Over, PollReturns, Goto, serverVars, threadVars
    <3>2. ServerTasks' \in Nat /\ ServerTasks' <= ServerTasks
      BY <2>2 DEF CountInv, PollReturns, serverVars
    <3> QED
      BY <3>1, <3>2, <1>a
  <2>3. CASE HandleData(h)
    <3>1. Over \subseteq Over'
      BY <2>3, Kinds DEF TypeOK, ChildInv, Creating, Over, HandleData, Goto, serverVars, threadVars
    <3>2. ServerTasks' \in Nat /\ ServerTasks' <= ServerTasks
      BY <2>3 DEF CountInv, HandleData, serverVars
    <3> QED
      BY <3>1, <3>2, <1>a
  <2>4. CASE HandleEnd(h)
    <3>1. Over \subseteq Over'
      BY <2>4, Kinds DEF TypeOK, ChildInv, Creating, Over, HandleEnd, Goto, serverVars, threadVars
    <3>2. ServerTasks' \in Nat /\ ServerTasks' <= ServerTasks
      BY <2>4 DEF CountInv, HandleEnd, serverVars
    <3> QED
      BY <3>1, <3>2, <1>a
  <2>5. CASE HandleBlock(h)
    <3>1. Over \subseteq Over'
      BY <2>5, Kinds DEF TypeOK, ChildInv, Creating, Over, HandleBlock, Goto, serverVars, threadVars
    <3>2. ServerTasks' \in Nat /\ ServerTasks' <= ServerTasks
      BY <2>5 DEF CountInv, HandleBlock, serverVars
    <3> QED
      BY <3>1, <3>2, <1>a
  <2>6. CASE HandleRequest(h)
    <3>1. Over \subseteq Over'
      BY <2>6, Kinds DEF TypeOK, ChildInv, Creating, Over, HandleRequest, Goto, serverVars, threadVars
    <3>2. ServerTasks' \in Nat /\ ServerTasks' <= ServerTasks
      BY <2>6 DEF CountInv, HandleRequest, serverVars
    <3> QED
      BY <3>1, <3>2, <1>a
  <2>7. CASE CacheHit(h)
    <3>1. Over \subseteq Over'
      BY <2>7, Kinds DEF TypeOK, ChildInv, Creating, Over, CacheHit, Goto, serverVars, threadVars
    <3>2. ServerTasks' \in Nat /\ ServerTasks' <= ServerTasks
      BY <2>7 DEF CountInv, CacheHit, serverVars
    <3> QED
      BY <3>1, <3>2, <1>a
  <2>8. CASE CacheMiss(h, g)
    <3>1. Over \subseteq Over'
      BY <2>8, Kinds DEF TypeOK, ChildInv, Creating, Over, CacheMiss, Goto, serverVars, threadVars
    <3>2. ServerTasks' \in Nat /\ ServerTasks' <= ServerTasks
      BY <2>8 DEF CountInv, CacheMiss, serverVars
    <3> QED
      BY <3>1, <3>2, <1>a
  <2>9. CASE Accept(g)
    <3>1. Over \subseteq Over'
      BY <2>9, Kinds DEF TypeOK, ChildInv, Creating, Over, Accept, Goto, serverVars, threadVars
    <3>2. ServerTasks' \in Nat /\ ServerTasks' <= ServerTasks
      BY <2>9 DEF CountInv, Accept, serverVars
    <3> QED
      BY <3>1, <3>2, <1>a
  <2>10. CASE Register(h)
    <3>1. Over \subseteq Over'
      BY <2>10, Kinds DEF TypeOK, ChildInv, Creating, Over, Register, HandlersUnlocked, serverVars, threadVars
    <3>2. ServerTasks' \in Nat /\ ServerTasks' <= ServerTasks
      BY <2>10 DEF CountInv, Register, HandlersUnlocked, serverVars
    <3> QED
      BY <3>1, <3>2, <1>a
  <2>11. CASE StartClient
    <3>1. Over \subseteq Over'
      BY <2>11, Kinds DEF TypeOK, ChildInv, Creating, Over, StartClient, serverVars, threadVars
    <3>2. ServerTasks' \in Nat /\ ServerTasks' <= ServerTasks
      BY <2>11 DEF CountInv, StartClient, serverVars
    <3> QED
      BY <3>1, <3>2, <1>a
  <2>12. CASE StartRemote(h)
    <3>1. Over \subseteq Over'
      BY <2>12, Kinds DEF TypeOK, ChildInv, Creating, Over, StartRemote, serverVars, threadVars
    <3>2. ServerTasks' \in Nat /\ ServerTasks' <= ServerTasks
      BY <2>12 DEF CountInv, StartRemote, serverVars
    <3> QED
      BY <3>1, <3>2, <1>a
  <2>13. CASE ConnectFails(h)
    <3>1. Over \subseteq Over'
      BY <2>13, Kinds DEF TypeOK, ChildInv, Creating, Over, ConnectFails, Goto, serverVars, threadVars
    <3>2. ServerTasks' \in Nat /\ ServerTasks' <= ServerTasks
      BY <2>13 DEF CountInv, ConnectFails, serverVars
    <3> QED
      BY <3>1, <3>2, <1>a
  <2>14. CASE Wake(h)
    <3>1. Over \subseteq Over'
      BY <2>14, Kinds DEF TypeOK, ChildInv, Creating, Over, Wake, Goto, serverVars, threadVars
    <3>2. ServerTasks' \in Nat /\ ServerTasks' <= ServerTasks
      BY <2>14 DEF CountInv, Wake, serverVars
    <3> QED
      BY <3>1, <3>2, <1>a
  <2>15. CASE Finish(h)
    <3>1. Over' = Over \cup {h} /\ h \notin Over /\ ServerTasks' = ServerTasks + 1
      BY <2>15 DEF TypeOK, ChildInv, Creating, Over, Finish, Goto, DeadHandlersUnlocked, serverVars, threadVars
    <3>2. Cardinality(Over') = Cardinality(Over) + 1
      BY <3>1, <1>0, FS_AddElement
    <3>3. Cardinality(Over) \in Nat
      BY <1>0, FS_CardinalityType
    <3> QED
      BY <3>1, <3>2, <3>3 DEF CountInv
  <2>16. CASE Leave(h)
    <3>1. Over \subseteq Over'
      BY <2>16, Kinds DEF TypeOK, ChildInv, Creating, Over, Leave, Goto, serverVars, threadVars
    <3>2. ServerTasks' \in Nat /\ ServerTasks' <= ServerTasks
      BY <2>16 DEF CountInv, Leave, serverVars
    <3> QED
      BY <3>1, <3>2, <1>a
  <2>17. CASE ServerLoop
    <3>1. Over \subseteq Over'
      BY <2>17, Kinds DEF TypeOK, ChildInv, Creating, Over, ServerLoop, serverVars, threadVars
    <3>2. ServerTasks' \in Nat /\ ServerTasks' <= ServerTasks
      BY <2>17 DEF CountInv, ServerLoop, serverVars
    <3> QED
      BY <3>1, <3>2, <1>a
  <2>18. CASE ServerAcquire
    <3>1. Over \subseteq Over'
      BY <2>18, Kinds DEF TypeOK, ChildInv, Creating, Over, ServerAcquire, serverVars, threadVars
    <3>2. ServerTasks' \in Nat /\ ServerTasks' <= ServerTasks
      BY <2>18 DEF CountInv, ServerAcquire, serverVars
    <3> QED
      BY <3>1, <3>2, <1>a
  <2>19. CASE ServerAcquireFails
    <3>1. Over \subseteq Over'
      BY <2>19, Kinds DEF TypeOK, ChildInv, Creating, Over, ServerAcquireFails, serverVars, threadVars
    <3>2. ServerTasks' \in Nat /\ ServerTasks' <= ServerTasks
      BY <2>19 DEF CountInv, ServerAcquireFails, serverVars
    <3> QED
      BY <3>1, <3>2, <1>a
  <2>20. CASE OnSignal
    <3>1. Over \subseteq Over'
      BY <2>20, Kinds DEF TypeOK, ChildInv, Creating, Over, OnSignal, serverVars, threadVars
    <3>2. ServerTasks' \in Nat /\ ServerTasks' <= ServerTasks
      BY <2>20 DEF CountInv, OnSignal, serverVars
    <3> QED
      BY <3>1, <3>2, <1>a
  <2>21. CASE OnSignalSticks
    <3>1. Over \subseteq Over'
      BY <2>21, Kinds DEF TypeOK, ChildInv, Creating, Over, OnSignalSticks, serverVars, threadVars
    <3>2. ServerTasks' \in Nat /\ ServerTasks' <= ServerTasks
      BY <2>21 DEF CountInv, OnSignalSticks, serverVars
    <3> QED
      BY <3>1, <3>2, <1>a
  <2>22. CASE EraseBegin
    <3>1. Over \subseteq Over'
      BY <2>22, Kinds DEF TypeOK, ChildInv, Creating, Over, EraseBegin, serverVars, threadVars
    <3>2. ServerTasks' \in Nat /\ ServerTasks' <= ServerTasks
      BY <2>22 DEF CountInv, EraseBegin, serverVars
    <3> QED
      BY <3>1, <3>2, <1>a
  <2>23. CASE RemoveHandler(h)
    <3>1. Over \subseteq Over'
      BY <2>23, Kinds DEF TypeOK, ChildInv, Creating, Over, RemoveHandler, Interrupt, serverVars, threadVars
    <3>2. ServerTasks' \in Nat /\ ServerTasks' <= ServerTasks
      BY <2>23 DEF CountInv, RemoveHandler, Interrupt, serverVars
    <3> QED
      BY <3>1, <3>2, <1>a
  <2>24. CASE Join
    <3>1. Over \subseteq Over'
      BY <2>24, Kinds DEF TypeOK, ChildInv, Creating, Over, Join, serverVars, threadVars
    <3>2. ServerTasks' \in Nat /\ ServerTasks' <= ServerTasks
      BY <2>24 DEF CountInv, Join, serverVars
    <3> QED
      BY <3>1, <3>2, <1>a
  <2>25. CASE EraseEnd
    <3>1. Over \subseteq Over'
      BY <2>25, Kinds DEF TypeOK, ChildInv, Creating, Over, EraseEnd, serverVars, threadVars
    <3>2. ServerTasks' \in Nat /\ ServerTasks' <= ServerTasks
      BY <2>25 DEF CountInv, EraseEnd, serverVars
    <3> QED
      BY <3>1, <3>2, <1>a
  <2>26. CASE TerminateTimedOut(S)
    <3>1. Over \subseteq Over'
      BY <2>26, Kinds DEF TypeOK, ChildInv, Creating, Over, TerminateTimedOut, serverVars, threadVars
    <3>2. ServerTasks' \in Nat /\ ServerTasks' <= ServerTasks
      BY <2>26 DEF CountInv, TerminateTimedOut, serverVars
    <3> QED
      BY <3>1, <3>2, <1>a
  <2>27. CASE DestroyHandler(h)
    <3>1. Over \subseteq Over'
      BY <2>27, Kinds DEF TypeOK, ChildInv, Creating, Over, DestroyHandler, Interrupt, serverVars, threadVars
    <3>2. ServerTasks' \in Nat /\ ServerTasks' <= ServerTasks
      BY <2>27 DEF CountInv, DestroyHandler, Interrupt, serverVars
    <3> QED
      BY <3>1, <3>2, <1>a
  <2>28. CASE DestroyEnd
    <3>1. Over \subseteq Over'
      BY <2>28, Kinds DEF TypeOK, ChildInv, Creating, Over, DestroyEnd, serverVars, threadVars
    <3>2. ServerTasks' \in Nat /\ ServerTasks' <= ServerTasks
      BY <2>28 DEF CountInv, DestroyEnd, serverVars
    <3> QED
      BY <3>1, <3>2, <1>a
  <2> QED
    BY <2>0, <2>1, <2>2, <2>3, <2>4, <2>5, <2>6, <2>7, <2>8, <2>9, <2>10, <2>11, <2>12, <2>13, <2>14, <2>15, <2>16, <2>17, <2>18, <2>19, <2>20, <2>21, <2>22, <2>23, <2>24, <2>25, <2>26, <2>27, <2>28
<1> QED
  BY <1>1, <1>2

\* The types.
LEMMA TypeStep ==
  ASSUME TypeOK, ChildInv, CountInv, PlaceInv, [Next]_vars
  PROVE  TypeOK'
<1>0. ServerTasks' \in 0..Cardinality(AllHandlers)
  <2>1. CountInv'
    BY CountStep
  <2>2. Over' \in SUBSET AllHandlers
    BY DEF Over
  <2>3. Cardinality(Over') <= Cardinality(AllHandlers)
    BY <2>2, Kinds, FS_Subset
  <2>4. Cardinality(Over') \in Nat /\ Cardinality(AllHandlers) \in Nat
    BY <2>2, Kinds, FS_Subset, FS_CardinalityType
  <2> QED
    BY <2>1, <2>3, <2>4 DEF CountInv
<1>1. CASE UNCHANGED vars
  BY <1>0, <1>1 DEF TypeOK, Pcs, ServerPcs, ChildInv, Creating, vars, serverVars, threadVars
<1>2. CASE ~UNCHANGED vars
  <2>0. PICK h \in AllHandlers, g \in AllHandlers, S \in SUBSET Handlers :
          \/ Loop(h) \/ PollReturns(h) \/ HandleData(h) \/ HandleEnd(h)
          \/ HandleBlock(h) \/ HandleRequest(h) \/ CacheHit(h) \/ CacheMiss(h, g)
          \/ Accept(g) \/ Register(h) \/ StartClient \/ StartRemote(h)
          \/ ConnectFails(h) \/ Wake(h) \/ Finish(h) \/ Leave(h)
          \/ ServerLoop \/ ServerAcquire \/ ServerAcquireFails \/ OnSignal
          \/ OnSignalSticks \/ EraseBegin \/ RemoveHandler(h) \/ Join
          \/ EraseEnd \/ TerminateTimedOut(S) \/ DestroyHandler(h) \/ DestroyEnd
    BY <1>2, NextSplit
  <2>1. CASE Loop(h)
    BY <1>0, <2>1, Kinds DEF TypeOK, Pcs, ServerPcs, ChildInv, Creating, Loop, Goto, serverVars, threadVars
  <2>2. CASE PollReturns(h)
    BY <1>0, <2>2, Kinds DEF TypeOK, Pcs, ServerPcs, ChildInv, Creating, PollReturns, Goto, serverVars, threadVars
  <2>3. CASE HandleData(h)
    BY <1>0, <2>3, Kinds DEF TypeOK, Pcs, ServerPcs, ChildInv, Creating, HandleData, Goto, serverVars, threadVars
  <2>4. CASE HandleEnd(h)
    BY <1>0, <2>4, Kinds DEF TypeOK, Pcs, ServerPcs, ChildInv, Creating, HandleEnd, Goto, serverVars, threadVars
  <2>5. CASE HandleBlock(h)
    BY <1>0, <2>5, Kinds DEF TypeOK, Pcs, ServerPcs, ChildInv, Creating, HandleBlock, Goto, serverVars, threadVars
  <2>6. CASE HandleRequest(h)
    BY <1>0, <2>6, Kinds DEF TypeOK, Pcs, ServerPcs, ChildInv, Creating, HandleRequest, Goto, serverVars, threadVars
  <2>7. CASE CacheHit(h)
    BY <1>0, <2>7, Kinds DEF TypeOK, Pcs, ServerPcs, ChildInv, Creating, CacheHit, Goto, serverVars, threadVars
  <2>8. CASE CacheMiss(h, g)
    BY <1>0, <2>8, Kinds DEF TypeOK, Pcs, ServerPcs, ChildInv, Creating, CacheMiss, Goto, serverVars, threadVars
  <2>9. CASE Accept(g)
    BY <1>0, <2>9, Kinds DEF TypeOK, Pcs, ServerPcs, ChildInv, Creating, Accept, Goto, serverVars, threadVars
  <2>10. CASE Register(h)
    BY <1>0, <2>10, Kinds DEF TypeOK, Pcs, ServerPcs, ChildInv, Creating, Register, HandlersUnlocked, serverVars, threadVars
  <2>11. CASE StartClient
    BY <1>0, <2>11, Kinds DEF TypeOK, Pcs, ServerPcs, ChildInv, Creating, StartClient, serverVars, threadVars
  <2>12. CASE StartRemote(h)
    BY <1>0, <2>12, Kinds DEF TypeOK, Pcs, ServerPcs, ChildInv, Creating, StartRemote, serverVars, threadVars
  <2>13. CASE ConnectFails(h)
    BY <1>0, <2>13, Kinds DEF TypeOK, Pcs, ServerPcs, ChildInv, Creating, ConnectFails, Goto, serverVars, threadVars
  <2>14. CASE Wake(h)
    BY <1>0, <2>14, Kinds DEF TypeOK, Pcs, ServerPcs, ChildInv, Creating, Wake, Goto, serverVars, threadVars
  <2>15. CASE Finish(h)
    BY <1>0, <2>15, Kinds DEF TypeOK, Pcs, ServerPcs, ChildInv, Creating, Finish, Goto, DeadHandlersUnlocked, serverVars, threadVars
  <2>16. CASE Leave(h)
    BY <1>0, <2>16, Kinds DEF TypeOK, Pcs, ServerPcs, ChildInv, Creating, Leave, Goto, serverVars, threadVars
  <2>17. CASE ServerLoop
    BY <1>0, <2>17, Kinds DEF TypeOK, Pcs, ServerPcs, ChildInv, Creating, ServerLoop, serverVars, threadVars
  <2>18. CASE ServerAcquire
    BY <1>0, <2>18, Kinds DEF TypeOK, Pcs, ServerPcs, ChildInv, Creating, ServerAcquire, serverVars, threadVars
  <2>19. CASE ServerAcquireFails
    BY <1>0, <2>19, Kinds DEF TypeOK, Pcs, ServerPcs, ChildInv, Creating, ServerAcquireFails, serverVars, threadVars
  <2>20. CASE OnSignal
    BY <1>0, <2>20, Kinds DEF TypeOK, Pcs, ServerPcs, ChildInv, Creating, OnSignal, serverVars, threadVars
  <2>21. CASE OnSignalSticks
    BY <1>0, <2>21, Kinds DEF TypeOK, Pcs, ServerPcs, ChildInv, Creating, OnSignalSticks, serverVars, threadVars
  <2>22. CASE EraseBegin
    BY <1>0, <2>22, Kinds DEF TypeOK, Pcs, ServerPcs, ChildInv, Creating, EraseBegin, serverVars, threadVars
  <2>23. CASE RemoveHandler(h)
    BY <1>0, <2>23, Kinds DEF TypeOK, Pcs, ServerPcs, ChildInv, Creating, RemoveHandler, Interrupt, serverVars, threadVars
  <2>24. CASE Join
    <3>1. victim \in AllHandlers
      BY <2>24 DEF PlaceInv, Join
    <3> QED
      BY <1>0, <2>24, <3>1, Kinds DEF TypeOK, Pcs, ServerPcs, ChildInv, Creating, Join, serverVars, threadVars
  <2>25. CASE EraseEnd
    BY <1>0, <2>25, Kinds DEF TypeOK, Pcs, ServerPcs, ChildInv, Creating, EraseEnd, serverVars, threadVars
  <2>26. CASE TerminateTimedOut(S)
    BY <1>0, <2>26, Kinds DEF TypeOK, Pcs, ServerPcs, ChildInv, Creating, TerminateTimedOut, serverVars, threadVars
  <2>27. CASE DestroyHandler(h)
    BY <1>0, <2>27, Kinds DEF TypeOK, Pcs, ServerPcs, ChildInv, Creating, DestroyHandler, Interrupt, serverVars, threadVars
  <2>28. CASE DestroyEnd
    BY <1>0, <2>28, Kinds DEF TypeOK, Pcs, ServerPcs, ChildInv, Creating, DestroyEnd, serverVars, threadVars
  <2> QED
    BY <2>0, <2>1, <2>2, <2>3, <2>4, <2>5, <2>6, <2>7, <2>8, <2>9, <2>10, <2>11, <2>12, <2>13, <2>14, <2>15, <2>16, <2>17, <2>18, <2>19, <2>20, <2>21, <2>22, <2>23, <2>24, <2>25, <2>26, <2>27, <2>28
<1> QED
  BY <1>1, <1>2

\* Where the handlers are.
LEMMA PlaceStep ==
  ASSUME TypeOK, ChildInv, PlaceInv, DeadInv, [Next]_vars
  PROVE  PlaceInv'
<1>1. CASE UNCHANGED vars
  BY <1>1 DEF TypeOK, Pcs, ServerPcs, ChildInv, Creating, PlaceInv, DeadInv, RemoveFindsHandler, DeadHandlersUnlocked, Running, NoDeletedHandler, vars, serverVars, threadVars
<1>2. CASE ~UNCHANGED vars
  <2>0. PICK h \in AllHandlers, g \in AllHandlers, S \in SUBSET Handlers :
          \/ Loop(h) \/ PollReturns(h) \/ HandleData(h) \/ HandleEnd(h)
          \/ HandleBlock(h) \/ HandleRequest(h) \/ CacheHit(h) \/ CacheMiss(h, g)
          \/ Accept(g) \/ Register(h) \/ StartClient \/ StartRemote(h)
          \/ ConnectFails(h) \/ Wake(h) \/ Finish(h) \/ Leave(h)
          \/ ServerLoop \/ ServerAcquire \/ ServerAcquireFails \/ OnSignal
          \/ OnSignalSticks \/ EraseBegin \/ RemoveHandler(h) \/ Join
          \/ EraseEnd \/ TerminateTimedOut(S) \/ DestroyHandler(h) \/ DestroyEnd
    BY <1>2, NextSplit
  <2>1. CASE Loop(h)
    BY <2>1, Kinds DEF TypeOK, Pcs, ServerPcs, ChildInv, Creating, PlaceInv, DeadInv, RemoveFindsHandler, DeadHandlersUnlocked, Running, NoDeletedHandler, Loop, Goto, serverVars, threadVars
  <2>2. CASE PollReturns(h)
    BY <2>2, Kinds DEF TypeOK, Pcs, ServerPcs, ChildInv, Creating, PlaceInv, DeadInv, RemoveFindsHandler, DeadHandlersUnlocked, Running, NoDeletedHandler, PollReturns, Goto, serverVars, threadVars
  <2>3. CASE HandleData(h)
    BY <2>3, Kinds DEF TypeOK, Pcs, ServerPcs, ChildInv, Creating, PlaceInv, DeadInv, RemoveFindsHandler, DeadHandlersUnlocked, Running, NoDeletedHandler, HandleData, Goto, serverVars, threadVars
  <2>4. CASE HandleEnd(h)
    BY <2>4, Kinds DEF TypeOK, Pcs, ServerPcs, ChildInv, Creating, PlaceInv, DeadInv, RemoveFindsHandler, DeadHandlersUnlocked, Running, NoDeletedHandler, HandleEnd, Goto, serverVars, threadVars
  <2>5. CASE HandleBlock(h)
    BY <2>5, Kinds DEF TypeOK, Pcs, ServerPcs, ChildInv, Creating, PlaceInv, DeadInv, RemoveFindsHandler, DeadHandlersUnlocked, Running, NoDeletedHandler, HandleBlock, Goto, serverVars, threadVars
  <2>6. CASE HandleRequest(h)
    BY <2>6, Kinds DEF TypeOK, Pcs, ServerPcs, ChildInv, Creating, PlaceInv, DeadInv, RemoveFindsHandler, DeadHandlersUnlocked, Running, NoDeletedHandler, HandleRequest, Goto, serverVars, threadVars
  <2>7. CASE CacheHit(h)
    BY <2>7, Kinds DEF TypeOK, Pcs, ServerPcs, ChildInv, Creating, PlaceInv, DeadInv, RemoveFindsHandler, DeadHandlersUnlocked, Running, NoDeletedHandler, CacheHit, Goto, serverVars, threadVars
  <2>8. CASE CacheMiss(h, g)
    BY <2>8, Kinds DEF TypeOK, Pcs, ServerPcs, ChildInv, Creating, PlaceInv, DeadInv, RemoveFindsHandler, DeadHandlersUnlocked, Running, NoDeletedHandler, CacheMiss, Goto, serverVars, threadVars
  <2>9. CASE Accept(g)
    BY <2>9, Kinds DEF TypeOK, Pcs, ServerPcs, ChildInv, Creating, PlaceInv, DeadInv, RemoveFindsHandler, DeadHandlersUnlocked, Running, NoDeletedHandler, Accept, Goto, serverVars, threadVars
  <2>10. CASE Register(h)
    BY <2>10, Kinds DEF TypeOK, Pcs, ServerPcs, ChildInv, Creating, PlaceInv, DeadInv, RemoveFindsHandler, DeadHandlersUnlocked, Running, NoDeletedHandler, Register, HandlersUnlocked, serverVars, threadVars
  <2>11. CASE StartClient
    BY <2>11, Kinds DEF TypeOK, Pcs, ServerPcs, ChildInv, Creating, PlaceInv, DeadInv, RemoveFindsHandler, DeadHandlersUnlocked, Running, NoDeletedHandler, StartClient, serverVars, threadVars
  <2>12. CASE StartRemote(h)
    BY <2>12, Kinds DEF TypeOK, Pcs, ServerPcs, ChildInv, Creating, PlaceInv, DeadInv, RemoveFindsHandler, DeadHandlersUnlocked, Running, NoDeletedHandler, StartRemote, serverVars, threadVars
  <2>13. CASE ConnectFails(h)
    BY <2>13, Kinds DEF TypeOK, Pcs, ServerPcs, ChildInv, Creating, PlaceInv, DeadInv, RemoveFindsHandler, DeadHandlersUnlocked, Running, NoDeletedHandler, ConnectFails, Goto, serverVars, threadVars
  <2>14. CASE Wake(h)
    BY <2>14, Kinds DEF TypeOK, Pcs, ServerPcs, ChildInv, Creating, PlaceInv, DeadInv, RemoveFindsHandler, DeadHandlersUnlocked, Running, NoDeletedHandler, Wake, Goto, serverVars, threadVars
  <2>15. CASE Finish(h)
    BY <2>15, Kinds DEF TypeOK, Pcs, ServerPcs, ChildInv, Creating, PlaceInv, DeadInv, RemoveFindsHandler, DeadHandlersUnlocked, Running, NoDeletedHandler, Finish, Goto, serverVars, threadVars
  <2>16. CASE Leave(h)
    BY <2>16, Kinds DEF TypeOK, Pcs, ServerPcs, ChildInv, Creating, PlaceInv, DeadInv, RemoveFindsHandler, DeadHandlersUnlocked, Running, NoDeletedHandler, Leave, Goto, serverVars, threadVars
  <2>17. CASE ServerLoop
    BY <2>17, Kinds DEF TypeOK, Pcs, ServerPcs, ChildInv, Creating, PlaceInv, DeadInv, RemoveFindsHandler, DeadHandlersUnlocked, Running, NoDeletedHandler, ServerLoop, serverVars, threadVars
  <2>18. CASE ServerAcquire
    BY <2>18, Kinds DEF TypeOK, Pcs, ServerPcs, ChildInv, Creating, PlaceInv, DeadInv, RemoveFindsHandler, DeadHandlersUnlocked, Running, NoDeletedHandler, ServerAcquire, serverVars, threadVars
  <2>19. CASE ServerAcquireFails
    BY <2>19, Kinds DEF TypeOK, Pcs, ServerPcs, ChildInv, Creating, PlaceInv, DeadInv, RemoveFindsHandler, DeadHandlersUnlocked, Running, NoDeletedHandler, ServerAcquireFails, serverVars, threadVars
  <2>20. CASE OnSignal
    BY <2>20, Kinds DEF TypeOK, Pcs, ServerPcs, ChildInv, Creating, PlaceInv, DeadInv, RemoveFindsHandler, DeadHandlersUnlocked, Running, NoDeletedHandler, OnSignal, serverVars, threadVars
  <2>21. CASE OnSignalSticks
    BY <2>21, Kinds DEF TypeOK, Pcs, ServerPcs, ChildInv, Creating, PlaceInv, DeadInv, RemoveFindsHandler, DeadHandlersUnlocked, Running, NoDeletedHandler, OnSignalSticks, serverVars, threadVars
  <2>22. CASE EraseBegin
    BY <2>22, Kinds DEF TypeOK, Pcs, ServerPcs, ChildInv, Creating, PlaceInv, DeadInv, RemoveFindsHandler, DeadHandlersUnlocked, Running, NoDeletedHandler, EraseBegin, serverVars, threadVars
  <2>23. CASE RemoveHandler(h)
    <3>1. h \in toErase /\ h \in Handlers /\ h \notin deleted /\ h \in DeadHandlers
      BY <2>23 DEF DeadInv, RemoveFindsHandler, RemoveHandler, TypeOK
    <3>2. /\ serverPc = "erasing" /\ serverPc' = "joining"
          /\ Handlers' = Handlers \ {h} /\ toErase' = toErase \ {h} /\ victim' = h
          /\ terminated' = terminated \cup {h} /\ interrupted' = interrupted \cup {h}
          /\ pc' = [pc EXCEPT ![h] = IF pc[h] = "sleep" THEN "done" ELSE pc[h]]
          /\ UNCHANGED <<DeadHandlers, ServerTasks, requested, child, cacheMutex,
                         timedOut, deleted>>
      BY <2>23 DEF RemoveHandler, Interrupt
    <3>3. pc \in [AllHandlers -> Pcs]
      BY DEF TypeOK
    <3>4. \A k \in AllHandlers :
            /\ pc'[k] = "none" <=> pc[k] = "none"
            /\ pc[k] = "done" => pc'[k] = "done"
            /\ k # h => pc'[k] = pc[k]
      BY <3>2, <3>3
    <3> QED
      BY <3>1, <3>2, <3>4 DEF PlaceInv, DeadInv, RemoveFindsHandler, NoDeletedHandler, Running, TypeOK
  <2>24. CASE Join
    BY <2>24, Kinds DEF TypeOK, Pcs, ServerPcs, ChildInv, Creating, PlaceInv, DeadInv, RemoveFindsHandler, DeadHandlersUnlocked, Running, NoDeletedHandler, Join, serverVars, threadVars
  <2>25. CASE EraseEnd
    BY <2>25, Kinds DEF TypeOK, Pcs, ServerPcs, ChildInv, Creating, PlaceInv, DeadInv, RemoveFindsHandler, DeadHandlersUnlocked, Running, NoDeletedHandler, EraseEnd, serverVars, threadVars
  <2>26. CASE TerminateTimedOut(S)
    BY <2>26, Kinds DEF TypeOK, Pcs, ServerPcs, ChildInv, Creating, PlaceInv, DeadInv, RemoveFindsHandler, DeadHandlersUnlocked, Running, NoDeletedHandler, TerminateTimedOut, serverVars, threadVars
  <2>27. CASE DestroyHandler(h)
    BY <2>27, Kinds DEF TypeOK, Pcs, ServerPcs, ChildInv, Creating, PlaceInv, DeadInv, RemoveFindsHandler, DeadHandlersUnlocked, Running, NoDeletedHandler, DestroyHandler, Interrupt, serverVars, threadVars
  <2>28. CASE DestroyEnd
    BY <2>28, Kinds DEF TypeOK, Pcs, ServerPcs, ChildInv, Creating, PlaceInv, DeadInv, RemoveFindsHandler, DeadHandlersUnlocked, Running, NoDeletedHandler, DestroyEnd, serverVars, threadVars
  <2> QED
    BY <2>0, <2>1, <2>2, <2>3, <2>4, <2>5, <2>6, <2>7, <2>8, <2>9, <2>10, <2>11, <2>12, <2>13, <2>14, <2>15, <2>16, <2>17, <2>18, <2>19, <2>20, <2>21, <2>22, <2>23, <2>24, <2>25, <2>26, <2>27, <2>28
<1> QED
  BY <1>1, <1>2

\* The dead handlers.
LEMMA DeadStep ==
  ASSUME TypeOK, ChildInv, PlaceInv, DeadInv, [Next]_vars
  PROVE  DeadInv'
<1>1. CASE UNCHANGED vars
  BY <1>1 DEF TypeOK, Pcs, ServerPcs, ChildInv, Creating, PlaceInv, DeadInv, RemoveFindsHandler, DeadHandlersUnlocked, Running, NoDeletedHandler, vars, serverVars, threadVars
<1>2. CASE ~UNCHANGED vars
  <2>0. PICK h \in AllHandlers, g \in AllHandlers, S \in SUBSET Handlers :
          \/ Loop(h) \/ PollReturns(h) \/ HandleData(h) \/ HandleEnd(h)
          \/ HandleBlock(h) \/ HandleRequest(h) \/ CacheHit(h) \/ CacheMiss(h, g)
          \/ Accept(g) \/ Register(h) \/ StartClient \/ StartRemote(h)
          \/ ConnectFails(h) \/ Wake(h) \/ Finish(h) \/ Leave(h)
          \/ ServerLoop \/ ServerAcquire \/ ServerAcquireFails \/ OnSignal
          \/ OnSignalSticks \/ EraseBegin \/ RemoveHandler(h) \/ Join
          \/ EraseEnd \/ TerminateTimedOut(S) \/ DestroyHandler(h) \/ DestroyEnd
    BY <1>2, NextSplit
  <2>1. CASE Loop(h)
    BY <2>1, Kinds DEF TypeOK, Pcs, ServerPcs, ChildInv, Creating, PlaceInv, DeadInv, RemoveFindsHandler, DeadHandlersUnlocked, Running, NoDeletedHandler, Loop, Goto, serverVars, threadVars
  <2>2. CASE PollReturns(h)
    BY <2>2, Kinds DEF TypeOK, Pcs, ServerPcs, ChildInv, Creating, PlaceInv, DeadInv, RemoveFindsHandler, DeadHandlersUnlocked, Running, NoDeletedHandler, PollReturns, Goto, serverVars, threadVars
  <2>3. CASE HandleData(h)
    BY <2>3, Kinds DEF TypeOK, Pcs, ServerPcs, ChildInv, Creating, PlaceInv, DeadInv, RemoveFindsHandler, DeadHandlersUnlocked, Running, NoDeletedHandler, HandleData, Goto, serverVars, threadVars
  <2>4. CASE HandleEnd(h)
    BY <2>4, Kinds DEF TypeOK, Pcs, ServerPcs, ChildInv, Creating, PlaceInv, DeadInv, RemoveFindsHandler, DeadHandlersUnlocked, Running, NoDeletedHandler, HandleEnd, Goto, serverVars, threadVars
  <2>5. CASE HandleBlock(h)
    BY <2>5, Kinds DEF TypeOK, Pcs, ServerPcs, ChildInv, Creating, PlaceInv, DeadInv, RemoveFindsHandler, DeadHandlersUnlocked, Running, NoDeletedHandler, HandleBlock, Goto, serverVars, threadVars
  <2>6. CASE HandleRequest(h)
    BY <2>6, Kinds DEF TypeOK, Pcs, ServerPcs, ChildInv, Creating, PlaceInv, DeadInv, RemoveFindsHandler, DeadHandlersUnlocked, Running, NoDeletedHandler, HandleRequest, Goto, serverVars, threadVars
  <2>7. CASE CacheHit(h)
    BY <2>7, Kinds DEF TypeOK, Pcs, ServerPcs, ChildInv, Creating, PlaceInv, DeadInv, RemoveFindsHandler, DeadHandlersUnlocked, Running, NoDeletedHandler, CacheHit, Goto, serverVars, threadVars
  <2>8. CASE CacheMiss(h, g)
    BY <2>8, Kinds DEF TypeOK, Pcs, ServerPcs, ChildInv, Creating, PlaceInv, DeadInv, RemoveFindsHandler, DeadHandlersUnlocked, Running, NoDeletedHandler, CacheMiss, Goto, serverVars, threadVars
  <2>9. CASE Accept(g)
    BY <2>9, Kinds DEF TypeOK, Pcs, ServerPcs, ChildInv, Creating, PlaceInv, DeadInv, RemoveFindsHandler, DeadHandlersUnlocked, Running, NoDeletedHandler, Accept, Goto, serverVars, threadVars
  <2>10. CASE Register(h)
    BY <2>10, Kinds DEF TypeOK, Pcs, ServerPcs, ChildInv, Creating, PlaceInv, DeadInv, RemoveFindsHandler, DeadHandlersUnlocked, Running, NoDeletedHandler, Register, HandlersUnlocked, serverVars, threadVars
  <2>11. CASE StartClient
    BY <2>11, Kinds DEF TypeOK, Pcs, ServerPcs, ChildInv, Creating, PlaceInv, DeadInv, RemoveFindsHandler, DeadHandlersUnlocked, Running, NoDeletedHandler, StartClient, serverVars, threadVars
  <2>12. CASE StartRemote(h)
    BY <2>12, Kinds DEF TypeOK, Pcs, ServerPcs, ChildInv, Creating, PlaceInv, DeadInv, RemoveFindsHandler, DeadHandlersUnlocked, Running, NoDeletedHandler, StartRemote, serverVars, threadVars
  <2>13. CASE ConnectFails(h)
    BY <2>13, Kinds DEF TypeOK, Pcs, ServerPcs, ChildInv, Creating, PlaceInv, DeadInv, RemoveFindsHandler, DeadHandlersUnlocked, Running, NoDeletedHandler, ConnectFails, Goto, serverVars, threadVars
  <2>14. CASE Wake(h)
    BY <2>14, Kinds DEF TypeOK, Pcs, ServerPcs, ChildInv, Creating, PlaceInv, DeadInv, RemoveFindsHandler, DeadHandlersUnlocked, Running, NoDeletedHandler, Wake, Goto, serverVars, threadVars
  <2>15. CASE Finish(h)
    BY <2>15, Kinds DEF TypeOK, Pcs, ServerPcs, ChildInv, Creating, PlaceInv, DeadInv, RemoveFindsHandler, DeadHandlersUnlocked, Running, NoDeletedHandler, Finish, Goto, serverVars, threadVars
  <2>16. CASE Leave(h)
    BY <2>16, Kinds DEF TypeOK, Pcs, ServerPcs, ChildInv, Creating, PlaceInv, DeadInv, RemoveFindsHandler, DeadHandlersUnlocked, Running, NoDeletedHandler, Leave, Goto, serverVars, threadVars
  <2>17. CASE ServerLoop
    BY <2>17, Kinds DEF TypeOK, Pcs, ServerPcs, ChildInv, Creating, PlaceInv, DeadInv, RemoveFindsHandler, DeadHandlersUnlocked, Running, NoDeletedHandler, ServerLoop, serverVars, threadVars
  <2>18. CASE ServerAcquire
    BY <2>18, Kinds DEF TypeOK, Pcs, ServerPcs, ChildInv, Creating, PlaceInv, DeadInv, RemoveFindsHandler, DeadHandlersUnlocked, Running, NoDeletedHandler, ServerAcquire, serverVars, threadVars
  <2>19. CASE ServerAcquireFails
    BY <2>19, Kinds DEF TypeOK, Pcs, ServerPcs, ChildInv, Creating, PlaceInv, DeadInv, RemoveFindsHandler, DeadHandlersUnlocked, Running, NoDeletedHandler, ServerAcquireFails, serverVars, threadVars
  <2>20. CASE OnSignal
    BY <2>20, Kinds DEF TypeOK, Pcs, ServerPcs, ChildInv, Creating, PlaceInv, DeadInv, RemoveFindsHandler, DeadHandlersUnlocked, Running, NoDeletedHandler, OnSignal, serverVars, threadVars
  <2>21. CASE OnSignalSticks
    BY <2>21, Kinds DEF TypeOK, Pcs, ServerPcs, ChildInv, Creating, PlaceInv, DeadInv, RemoveFindsHandler, DeadHandlersUnlocked, Running, NoDeletedHandler, OnSignalSticks, serverVars, threadVars
  <2>22. CASE EraseBegin
    BY <2>22, Kinds DEF TypeOK, Pcs, ServerPcs, ChildInv, Creating, PlaceInv, DeadInv, RemoveFindsHandler, DeadHandlersUnlocked, Running, NoDeletedHandler, EraseBegin, serverVars, threadVars
  <2>23. CASE RemoveHandler(h)
    BY <2>23, Kinds DEF TypeOK, Pcs, ServerPcs, ChildInv, Creating, PlaceInv, DeadInv, RemoveFindsHandler, DeadHandlersUnlocked, Running, NoDeletedHandler, RemoveHandler, Interrupt, serverVars, threadVars
  <2>24. CASE Join
    BY <2>24, Kinds DEF TypeOK, Pcs, ServerPcs, ChildInv, Creating, PlaceInv, DeadInv, RemoveFindsHandler, DeadHandlersUnlocked, Running, NoDeletedHandler, Join, serverVars, threadVars
  <2>25. CASE EraseEnd
    BY <2>25, Kinds DEF TypeOK, Pcs, ServerPcs, ChildInv, Creating, PlaceInv, DeadInv, RemoveFindsHandler, DeadHandlersUnlocked, Running, NoDeletedHandler, EraseEnd, serverVars, threadVars
  <2>26. CASE TerminateTimedOut(S)
    BY <2>26, Kinds DEF TypeOK, Pcs, ServerPcs, ChildInv, Creating, PlaceInv, DeadInv, RemoveFindsHandler, DeadHandlersUnlocked, Running, NoDeletedHandler, TerminateTimedOut, serverVars, threadVars
  <2>27. CASE DestroyHandler(h)
    BY <2>27, Kinds DEF TypeOK, Pcs, ServerPcs, ChildInv, Creating, PlaceInv, DeadInv, RemoveFindsHandler, DeadHandlersUnlocked, Running, NoDeletedHandler, DestroyHandler, Interrupt, serverVars, threadVars
  <2>28. CASE DestroyEnd
    BY <2>28, Kinds DEF TypeOK, Pcs, ServerPcs, ChildInv, Creating, PlaceInv, DeadInv, RemoveFindsHandler, DeadHandlersUnlocked, Running, NoDeletedHandler, DestroyEnd, serverVars, threadVars
  <2> QED
    BY <2>0, <2>1, <2>2, <2>3, <2>4, <2>5, <2>6, <2>7, <2>8, <2>9, <2>10, <2>11, <2>12, <2>13, <2>14, <2>15, <2>16, <2>17, <2>18, <2>19, <2>20, <2>21, <2>22, <2>23, <2>24, <2>25, <2>26, <2>27, <2>28
<1> QED
  BY <1>1, <1>2

\* What the destructor has left.
LEMMA EndStep ==
  ASSUME TypeOK, PlaceInv, EndInv, [Next]_vars
  PROVE  EndInv'
<1>1. CASE UNCHANGED vars
  BY <1>1 DEF TypeOK, Pcs, ServerPcs, PlaceInv, EndInv, Running, NoDeletedHandler, vars, serverVars, threadVars
<1>2. CASE ~UNCHANGED vars
  <2>0. PICK h \in AllHandlers, g \in AllHandlers, S \in SUBSET Handlers :
          \/ Loop(h) \/ PollReturns(h) \/ HandleData(h) \/ HandleEnd(h)
          \/ HandleBlock(h) \/ HandleRequest(h) \/ CacheHit(h) \/ CacheMiss(h, g)
          \/ Accept(g) \/ Register(h) \/ StartClient \/ StartRemote(h)
          \/ ConnectFails(h) \/ Wake(h) \/ Finish(h) \/ Leave(h)
          \/ ServerLoop \/ ServerAcquire \/ ServerAcquireFails \/ OnSignal
          \/ OnSignalSticks \/ EraseBegin \/ RemoveHandler(h) \/ Join
          \/ EraseEnd \/ TerminateTimedOut(S) \/ DestroyHandler(h) \/ DestroyEnd
    BY <1>2, NextSplit
  <2>1. CASE Loop(h)
    BY <2>1, Kinds DEF TypeOK, Pcs, ServerPcs, PlaceInv, EndInv, Running, NoDeletedHandler, Loop, Goto, serverVars, threadVars
  <2>2. CASE PollReturns(h)
    BY <2>2, Kinds DEF TypeOK, Pcs, ServerPcs, PlaceInv, EndInv, Running, NoDeletedHandler, PollReturns, Goto, serverVars, threadVars
  <2>3. CASE HandleData(h)
    BY <2>3, Kinds DEF TypeOK, Pcs, ServerPcs, PlaceInv, EndInv, Running, NoDeletedHandler, HandleData, Goto, serverVars, threadVars
  <2>4. CASE HandleEnd(h)
    BY <2>4, Kinds DEF TypeOK, Pcs, ServerPcs, PlaceInv, EndInv, Running, NoDeletedHandler, HandleEnd, Goto, serverVars, threadVars
  <2>5. CASE HandleBlock(h)
    BY <2>5, Kinds DEF TypeOK, Pcs, ServerPcs, PlaceInv, EndInv, Running, NoDeletedHandler, HandleBlock, Goto, serverVars, threadVars
  <2>6. CASE HandleRequest(h)
    BY <2>6, Kinds DEF TypeOK, Pcs, ServerPcs, PlaceInv, EndInv, Running, NoDeletedHandler, HandleRequest, Goto, serverVars, threadVars
  <2>7. CASE CacheHit(h)
    BY <2>7, Kinds DEF TypeOK, Pcs, ServerPcs, PlaceInv, EndInv, Running, NoDeletedHandler, CacheHit, Goto, serverVars, threadVars
  <2>8. CASE CacheMiss(h, g)
    BY <2>8, Kinds DEF TypeOK, Pcs, ServerPcs, PlaceInv, EndInv, Running, NoDeletedHandler, CacheMiss, Goto, serverVars, threadVars
  <2>9. CASE Accept(g)
    BY <2>9, Kinds DEF TypeOK, Pcs, ServerPcs, PlaceInv, EndInv, Running, NoDeletedHandler, Accept, Goto, serverVars, threadVars
  <2>10. CASE Register(h)
    BY <2>10, Kinds DEF TypeOK, Pcs, ServerPcs, PlaceInv, EndInv, Running, NoDeletedHandler, Register, HandlersUnlocked, serverVars, threadVars
  <2>11. CASE StartClient
    BY <2>11, Kinds DEF TypeOK, Pcs, ServerPcs, PlaceInv, EndInv, Running, NoDeletedHandler, StartClient, serverVars, threadVars
  <2>12. CASE StartRemote(h)
    BY <2>12, Kinds DEF TypeOK, Pcs, ServerPcs, PlaceInv, EndInv, Running, NoDeletedHandler, StartRemote, serverVars, threadVars
  <2>13. CASE ConnectFails(h)
    BY <2>13, Kinds DEF TypeOK, Pcs, ServerPcs, PlaceInv, EndInv, Running, NoDeletedHandler, ConnectFails, Goto, serverVars, threadVars
  <2>14. CASE Wake(h)
    BY <2>14, Kinds DEF TypeOK, Pcs, ServerPcs, PlaceInv, EndInv, Running, NoDeletedHandler, Wake, Goto, serverVars, threadVars
  <2>15. CASE Finish(h)
    BY <2>15, Kinds DEF TypeOK, Pcs, ServerPcs, PlaceInv, EndInv, Running, NoDeletedHandler, Finish, Goto, DeadHandlersUnlocked, serverVars, threadVars
  <2>16. CASE Leave(h)
    BY <2>16, Kinds DEF TypeOK, Pcs, ServerPcs, PlaceInv, EndInv, Running, NoDeletedHandler, Leave, Goto, serverVars, threadVars
  <2>17. CASE ServerLoop
    BY <2>17, Kinds DEF TypeOK, Pcs, ServerPcs, PlaceInv, EndInv, Running, NoDeletedHandler, ServerLoop, serverVars, threadVars
  <2>18. CASE ServerAcquire
    BY <2>18, Kinds DEF TypeOK, Pcs, ServerPcs, PlaceInv, EndInv, Running, NoDeletedHandler, ServerAcquire, serverVars, threadVars
  <2>19. CASE ServerAcquireFails
    BY <2>19, Kinds DEF TypeOK, Pcs, ServerPcs, PlaceInv, EndInv, Running, NoDeletedHandler, ServerAcquireFails, serverVars, threadVars
  <2>20. CASE OnSignal
    BY <2>20, Kinds DEF TypeOK, Pcs, ServerPcs, PlaceInv, EndInv, Running, NoDeletedHandler, OnSignal, serverVars, threadVars
  <2>21. CASE OnSignalSticks
    BY <2>21, Kinds DEF TypeOK, Pcs, ServerPcs, PlaceInv, EndInv, Running, NoDeletedHandler, OnSignalSticks, serverVars, threadVars
  <2>22. CASE EraseBegin
    BY <2>22, Kinds DEF TypeOK, Pcs, ServerPcs, PlaceInv, EndInv, Running, NoDeletedHandler, EraseBegin, serverVars, threadVars
  <2>23. CASE RemoveHandler(h)
    BY <2>23, Kinds DEF TypeOK, Pcs, ServerPcs, PlaceInv, EndInv, Running, NoDeletedHandler, RemoveHandler, Interrupt, serverVars, threadVars
  <2>24. CASE Join
    BY <2>24, Kinds DEF TypeOK, Pcs, ServerPcs, PlaceInv, EndInv, Running, NoDeletedHandler, Join, serverVars, threadVars
  <2>25. CASE EraseEnd
    BY <2>25, Kinds DEF TypeOK, Pcs, ServerPcs, PlaceInv, EndInv, Running, NoDeletedHandler, EraseEnd, serverVars, threadVars
  <2>26. CASE TerminateTimedOut(S)
    BY <2>26, Kinds DEF TypeOK, Pcs, ServerPcs, PlaceInv, EndInv, Running, NoDeletedHandler, TerminateTimedOut, serverVars, threadVars
  <2>27. CASE DestroyHandler(h)
    BY <2>27, Kinds DEF TypeOK, Pcs, ServerPcs, PlaceInv, EndInv, Running, NoDeletedHandler, DestroyHandler, Interrupt, serverVars, threadVars
  <2>28. CASE DestroyEnd
    BY <2>28, Kinds DEF TypeOK, Pcs, ServerPcs, PlaceInv, EndInv, Running, NoDeletedHandler, DestroyEnd, serverVars, threadVars
  <2> QED
    BY <2>0, <2>1, <2>2, <2>3, <2>4, <2>5, <2>6, <2>7, <2>8, <2>9, <2>10, <2>11, <2>12, <2>13, <2>14, <2>15, <2>16, <2>17, <2>18, <2>19, <2>20, <2>21, <2>22, <2>23, <2>24, <2>25, <2>26, <2>27, <2>28
<1> QED
  BY <1>1, <1>2

\* Why a thread ends.
LEMMA MarkStep ==
  ASSUME TypeOK, ChildInv, PlaceInv, DeadInv, MarkInv, [Next]_vars
  PROVE  MarkInv'
<1>1. CASE UNCHANGED vars
  BY <1>1 DEF TypeOK, Pcs, ServerPcs, ChildInv, Creating, PlaceInv, DeadInv, RemoveFindsHandler, DeadHandlersUnlocked, MarkInv, Over, Running, NoDeletedHandler, vars, serverVars, threadVars
<1>2. CASE ~UNCHANGED vars
  <2>0. PICK h \in AllHandlers, g \in AllHandlers, S \in SUBSET Handlers :
          \/ Loop(h) \/ PollReturns(h) \/ HandleData(h) \/ HandleEnd(h)
          \/ HandleBlock(h) \/ HandleRequest(h) \/ CacheHit(h) \/ CacheMiss(h, g)
          \/ Accept(g) \/ Register(h) \/ StartClient \/ StartRemote(h)
          \/ ConnectFails(h) \/ Wake(h) \/ Finish(h) \/ Leave(h)
          \/ ServerLoop \/ ServerAcquire \/ ServerAcquireFails \/ OnSignal
          \/ OnSignalSticks \/ EraseBegin \/ RemoveHandler(h) \/ Join
          \/ EraseEnd \/ TerminateTimedOut(S) \/ DestroyHandler(h) \/ DestroyEnd
    BY <1>2, NextSplit
  <2>1. CASE Loop(h)
    BY <2>1, Kinds DEF TypeOK, Pcs, ServerPcs, ChildInv, Creating, PlaceInv, DeadInv, RemoveFindsHandler, DeadHandlersUnlocked, MarkInv, Over, Running, NoDeletedHandler, Loop, Goto, serverVars, threadVars
  <2>2. CASE PollReturns(h)
    BY <2>2, Kinds DEF TypeOK, Pcs, ServerPcs, ChildInv, Creating, PlaceInv, DeadInv, RemoveFindsHandler, DeadHandlersUnlocked, MarkInv, Over, Running, NoDeletedHandler, PollReturns, Goto, serverVars, threadVars
  <2>3. CASE HandleData(h)
    BY <2>3, Kinds DEF TypeOK, Pcs, ServerPcs, ChildInv, Creating, PlaceInv, DeadInv, RemoveFindsHandler, DeadHandlersUnlocked, MarkInv, Over, Running, NoDeletedHandler, HandleData, Goto, serverVars, threadVars
  <2>4. CASE HandleEnd(h)
    BY <2>4, Kinds DEF TypeOK, Pcs, ServerPcs, ChildInv, Creating, PlaceInv, DeadInv, RemoveFindsHandler, DeadHandlersUnlocked, MarkInv, Over, Running, NoDeletedHandler, HandleEnd, Goto, serverVars, threadVars
  <2>5. CASE HandleBlock(h)
    BY <2>5, Kinds DEF TypeOK, Pcs, ServerPcs, ChildInv, Creating, PlaceInv, DeadInv, RemoveFindsHandler, DeadHandlersUnlocked, MarkInv, Over, Running, NoDeletedHandler, HandleBlock, Goto, serverVars, threadVars
  <2>6. CASE HandleRequest(h)
    BY <2>6, Kinds DEF TypeOK, Pcs, ServerPcs, ChildInv, Creating, PlaceInv, DeadInv, RemoveFindsHandler, DeadHandlersUnlocked, MarkInv, Over, Running, NoDeletedHandler, HandleRequest, Goto, serverVars, threadVars
  <2>7. CASE CacheHit(h)
    BY <2>7, Kinds DEF TypeOK, Pcs, ServerPcs, ChildInv, Creating, PlaceInv, DeadInv, RemoveFindsHandler, DeadHandlersUnlocked, MarkInv, Over, Running, NoDeletedHandler, CacheHit, Goto, serverVars, threadVars
  <2>8. CASE CacheMiss(h, g)
    BY <2>8, Kinds DEF TypeOK, Pcs, ServerPcs, ChildInv, Creating, PlaceInv, DeadInv, RemoveFindsHandler, DeadHandlersUnlocked, MarkInv, Over, Running, NoDeletedHandler, CacheMiss, Goto, serverVars, threadVars
  <2>9. CASE Accept(g)
    BY <2>9, Kinds DEF TypeOK, Pcs, ServerPcs, ChildInv, Creating, PlaceInv, DeadInv, RemoveFindsHandler, DeadHandlersUnlocked, MarkInv, Over, Running, NoDeletedHandler, Accept, Goto, serverVars, threadVars
  <2>10. CASE Register(h)
    BY <2>10, Kinds DEF TypeOK, Pcs, ServerPcs, ChildInv, Creating, PlaceInv, DeadInv, RemoveFindsHandler, DeadHandlersUnlocked, MarkInv, Over, Running, NoDeletedHandler, Register, HandlersUnlocked, serverVars, threadVars
  <2>11. CASE StartClient
    BY <2>11, Kinds DEF TypeOK, Pcs, ServerPcs, ChildInv, Creating, PlaceInv, DeadInv, RemoveFindsHandler, DeadHandlersUnlocked, MarkInv, Over, Running, NoDeletedHandler, StartClient, serverVars, threadVars
  <2>12. CASE StartRemote(h)
    BY <2>12, Kinds DEF TypeOK, Pcs, ServerPcs, ChildInv, Creating, PlaceInv, DeadInv, RemoveFindsHandler, DeadHandlersUnlocked, MarkInv, Over, Running, NoDeletedHandler, StartRemote, serverVars, threadVars
  <2>13. CASE ConnectFails(h)
    BY <2>13, Kinds DEF TypeOK, Pcs, ServerPcs, ChildInv, Creating, PlaceInv, DeadInv, RemoveFindsHandler, DeadHandlersUnlocked, MarkInv, Over, Running, NoDeletedHandler, ConnectFails, Goto, serverVars, threadVars
  <2>14. CASE Wake(h)
    BY <2>14, Kinds DEF TypeOK, Pcs, ServerPcs, ChildInv, Creating, PlaceInv, DeadInv, RemoveFindsHandler, DeadHandlersUnlocked, MarkInv, Over, Running, NoDeletedHandler, Wake, Goto, serverVars, threadVars
  <2>15. CASE Finish(h)
    BY <2>15, Kinds DEF TypeOK, Pcs, ServerPcs, ChildInv, Creating, PlaceInv, DeadInv, RemoveFindsHandler, DeadHandlersUnlocked, MarkInv, Over, Running, NoDeletedHandler, Finish, Goto, serverVars, threadVars
  <2>16. CASE Leave(h)
    BY <2>16, Kinds DEF TypeOK, Pcs, ServerPcs, ChildInv, Creating, PlaceInv, DeadInv, RemoveFindsHandler, DeadHandlersUnlocked, MarkInv, Over, Running, NoDeletedHandler, Leave, Goto, serverVars, threadVars
  <2>17. CASE ServerLoop
    BY <2>17, Kinds DEF TypeOK, Pcs, ServerPcs, ChildInv, Creating, PlaceInv, DeadInv, RemoveFindsHandler, DeadHandlersUnlocked, MarkInv, Over, Running, NoDeletedHandler, ServerLoop, serverVars, threadVars
  <2>18. CASE ServerAcquire
    BY <2>18, Kinds DEF TypeOK, Pcs, ServerPcs, ChildInv, Creating, PlaceInv, DeadInv, RemoveFindsHandler, DeadHandlersUnlocked, MarkInv, Over, Running, NoDeletedHandler, ServerAcquire, serverVars, threadVars
  <2>19. CASE ServerAcquireFails
    BY <2>19, Kinds DEF TypeOK, Pcs, ServerPcs, ChildInv, Creating, PlaceInv, DeadInv, RemoveFindsHandler, DeadHandlersUnlocked, MarkInv, Over, Running, NoDeletedHandler, ServerAcquireFails, serverVars, threadVars
  <2>20. CASE OnSignal
    BY <2>20, Kinds DEF TypeOK, Pcs, ServerPcs, ChildInv, Creating, PlaceInv, DeadInv, RemoveFindsHandler, DeadHandlersUnlocked, MarkInv, Over, Running, NoDeletedHandler, OnSignal, serverVars, threadVars
  <2>21. CASE OnSignalSticks
    BY <2>21, Kinds DEF TypeOK, Pcs, ServerPcs, ChildInv, Creating, PlaceInv, DeadInv, RemoveFindsHandler, DeadHandlersUnlocked, MarkInv, Over, Running, NoDeletedHandler, OnSignalSticks, serverVars, threadVars
  <2>22. CASE EraseBegin
    BY <2>22, Kinds DEF TypeOK, Pcs, ServerPcs, ChildInv, Creating, PlaceInv, DeadInv, RemoveFindsHandler, DeadHandlersUnlocked, MarkInv, Over, Running, NoDeletedHandler, EraseBegin, serverVars, threadVars
  <2>23. CASE RemoveHandler(h)
    <3>1. h \in toErase /\ h \in Handlers /\ h \notin deleted /\ h \in DeadHandlers
      BY <2>23 DEF DeadInv, RemoveFindsHandler, RemoveHandler, TypeOK
    <3>2. /\ serverPc = "erasing" /\ serverPc' = "joining"
          /\ Handlers' = Handlers \ {h} /\ toErase' = toErase \ {h} /\ victim' = h
          /\ terminated' = terminated \cup {h} /\ interrupted' = interrupted \cup {h}
          /\ pc' = [pc EXCEPT ![h] = IF pc[h] = "sleep" THEN "done" ELSE pc[h]]
          /\ UNCHANGED <<DeadHandlers, ServerTasks, requested, child, cacheMutex,
                         timedOut, deleted>>
      BY <2>23 DEF RemoveHandler, Interrupt
    <3>3. pc \in [AllHandlers -> Pcs]
      BY DEF TypeOK
    <3>4. \A k \in AllHandlers :
            /\ pc'[k] = "none" <=> pc[k] = "none"
            /\ pc[k] = "done" => pc'[k] = "done"
            /\ k # h => pc'[k] = pc[k]
      BY <3>2, <3>3
    <3> QED
      BY <3>1, <3>2, <3>4 DEF MarkInv, Over, Running, TypeOK
  <2>24. CASE Join
    BY <2>24, Kinds DEF TypeOK, Pcs, ServerPcs, ChildInv, Creating, PlaceInv, DeadInv, RemoveFindsHandler, DeadHandlersUnlocked, MarkInv, Over, Running, NoDeletedHandler, Join, serverVars, threadVars
  <2>25. CASE EraseEnd
    BY <2>25, Kinds DEF TypeOK, Pcs, ServerPcs, ChildInv, Creating, PlaceInv, DeadInv, RemoveFindsHandler, DeadHandlersUnlocked, MarkInv, Over, Running, NoDeletedHandler, EraseEnd, serverVars, threadVars
  <2>26. CASE TerminateTimedOut(S)
    BY <2>26, Kinds DEF TypeOK, Pcs, ServerPcs, ChildInv, Creating, PlaceInv, DeadInv, RemoveFindsHandler, DeadHandlersUnlocked, MarkInv, Over, Running, NoDeletedHandler, TerminateTimedOut, serverVars, threadVars
  <2>27. CASE DestroyHandler(h)
    BY <2>27, Kinds DEF TypeOK, Pcs, ServerPcs, ChildInv, Creating, PlaceInv, DeadInv, RemoveFindsHandler, DeadHandlersUnlocked, MarkInv, Over, Running, NoDeletedHandler, DestroyHandler, Interrupt, serverVars, threadVars
  <2>28. CASE DestroyEnd
    BY <2>28, Kinds DEF TypeOK, Pcs, ServerPcs, ChildInv, Creating, PlaceInv, DeadInv, RemoveFindsHandler, DeadHandlersUnlocked, MarkInv, Over, Running, NoDeletedHandler, DestroyEnd, serverVars, threadVars
  <2> QED
    BY <2>0, <2>1, <2>2, <2>3, <2>4, <2>5, <2>6, <2>7, <2>8, <2>9, <2>10, <2>11, <2>12, <2>13, <2>14, <2>15, <2>16, <2>17, <2>18, <2>19, <2>20, <2>21, <2>22, <2>23, <2>24, <2>25, <2>26, <2>27, <2>28
<1> QED
  BY <1>1, <1>2

-----------------------------------------------------------------------------
\* The inductive invariant of ServerLife.
THEOREM Invariance == Spec => []IInv
<1>1. Init => IInv
  <2> SUFFICES ASSUME Init PROVE IInv
    OBVIOUS
  <2>1. Over = {} /\ ServerTasks = 0
    BY DEF Init, Over
  <2>2. Cardinality({}) = 0
    BY FS_EmptySet
  <2>3. CountInv
    BY <2>1, <2>2 DEF CountInv
  <2>4. ServerTasks \in 0..Cardinality(AllHandlers)
    BY <2>1, Kinds, FS_CardinalityType
  <2>5. TypeOK
    BY <2>4, Kinds DEF Init, TypeOK, Pcs, ServerPcs
  <2>6. ChildInv
    BY Kinds DEF Init, ChildInv, Creating
  <2>7. PlaceInv /\ DeadInv /\ EndInv /\ MarkInv
    BY Kinds DEF Init, PlaceInv, NoDeletedHandler, DeadInv, RemoveFindsHandler,
       DeadHandlersUnlocked, Running, EndInv, MarkInv, Over
  <2> QED
    BY <2>3, <2>5, <2>6, <2>7 DEF IInv
<1>2. IInv /\ [Next]_vars => IInv'
  BY TypeStep, ChildStep, CountStep, PlaceStep, DeadStep, EndStep, MarkStep DEF IInv
<1> QED
  BY <1>1, <1>2, PTL DEF Spec

\* The types, and the bound of the semaphore.
THEOREM TypeCorrect == Spec => []TypeOK
  BY Invariance, PTL DEF IInv

\* Handlers.erase is never called with end(), and no handler is deleted twice.
THEOREM RemoveFinds == Spec => []RemoveFindsHandler
  BY Invariance, PTL DEF IInv, DeadInv

\* No handler in Handlers has been deleted.
THEOREM NoDeleted == Spec => []NoDeletedHandler
  BY Invariance, PTL DEF IInv, PlaceInv

\* Every thread has ended when the Server is gone.
THEOREM NoThreadLeft == Spec => []NoThreadOutlivesServer
<1>1. IInv => NoThreadOutlivesServer
  BY DEF IInv, PlaceInv, EndInv, NoThreadOutlivesServer
<1> QED
  BY <1>1, Invariance, PTL

\* A thread that has ended has been marked, or was inactive.
THEOREM EndedIsMarkedAlways == Spec => []EndedIsMarkedUnlessTimedOut
<1>1. IInv => EndedIsMarkedUnlessTimedOut
  BY DEF IInv, MarkInv, Over, EndedIsMarkedUnlessTimedOut
<1> QED
  BY <1>1, Invariance, PTL

\* The destructor iterates over a set that does not change.
THEOREM HandlersStableAlways == Spec => HandlersStable
<1>1. [Next]_vars => [~Running => Handlers' = Handlers]_vars
  <2> SUFFICES ASSUME [Next]_vars, ~Running PROVE Handlers' = Handlers
    OBVIOUS
  <2>1. CASE UNCHANGED vars
    BY <2>1 DEF vars
  <2>2. CASE ~UNCHANGED vars
    <3>0. PICK h \in AllHandlers, g \in AllHandlers, S \in SUBSET Handlers :
            \/ Loop(h) \/ PollReturns(h) \/ HandleData(h) \/ HandleEnd(h)
            \/ HandleBlock(h) \/ HandleRequest(h) \/ CacheHit(h) \/ CacheMiss(h, g)
            \/ Accept(g) \/ Register(h) \/ StartClient \/ StartRemote(h)
            \/ ConnectFails(h) \/ Wake(h) \/ Finish(h) \/ Leave(h)
            \/ ServerLoop \/ ServerAcquire \/ ServerAcquireFails \/ OnSignal
            \/ OnSignalSticks \/ EraseBegin \/ RemoveHandler(h) \/ Join
            \/ EraseEnd \/ TerminateTimedOut(S) \/ DestroyHandler(h) \/ DestroyEnd
      BY <2>2, NextSplit
    <3> QED
      BY <3>0 DEF Running, HandlersUnlocked, Loop, PollReturns, HandleData, HandleEnd, HandleBlock, HandleRequest, CacheHit, CacheMiss, Accept, Register, StartClient, StartRemote, ConnectFails, Wake, Finish, Leave, ServerLoop, ServerAcquire, ServerAcquireFails, OnSignal, OnSignalSticks, EraseBegin, RemoveHandler, Join, EraseEnd, TerminateTimedOut, DestroyHandler, DestroyEnd
  <2> QED
    BY <2>1, <2>2
<1> QED
  BY <1>1, PTL DEF Spec, HandlersStable

-----------------------------------------------------------------------------
(* The refinement of Joinable *)

\* Whom Interrupt has hit: a terminated handler, whose thread has been started
\* unless the process has crashed on it.
InterruptInv ==
  /\ interrupted \subseteq terminated
  /\ DeadHandlers \subseteq Over
  /\ serverPc \in {"destroy", "destroyJoin"} => toErase \subseteq Handlers
  /\ \A h \in interrupted :
       pc[h] # "none" /\ (pc[h] = "created" => serverPc = "crashed")

\* In the middle of Handle, where a thread may have decided on a blocking call.
AtWork == {"handle", "cache", "register", "start", "finish", "leaving"}

\* How the thread of a handler may go on.  Interrupted, it does not come to its
\* loop again.
Move(h) ==
  \/ pc'[h] = pc[h]
  \/ pc[h] = "none" /\ pc'[h] = "created"
  \/ pc[h] \notin {"none", "created"} /\ pc'[h] = "done"
  \/ pc[h] \in AtWork /\ pc'[h] \in AtWork \cup {"sleep"}
  \/ /\ h \notin interrupted
     /\ \/ pc[h] \in AtWork \cup {"created", "sleep"} /\ pc'[h] = "loop"
        \/ pc[h] = "loop" /\ pc'[h] = "poll"
        \/ pc[h] = "poll" /\ pc'[h] \in AtWork

\* What Joinable asks of a step for one handler.
JoinableStep(h) ==
  \/ Promise!Start(h) \/ Promise!Block(h) \/ Promise!Unblock(h) \/ Promise!End(h)
  \/ Promise!Interrupt(h) \/ Promise!Release(h) \/ Promise!Idle(h)

\* Every step of a thread moves some threads in these ways.
LEMMA ThreadMoves ==
  ASSUME TypeOK, ChildInv, InterruptInv, NEW h \in AllHandlers,
         serverPc # "crashed" /\ (HandlerStep(h) \/ Wake(h))
  PROVE  /\ UNCHANGED <<interrupted, deleted>>
         /\ \A k \in AllHandlers : Move(k)
<1> USE Kinds DEF TypeOK, Pcs, Move, AtWork, Goto, serverVars, threadVars
<1>1. CASE Loop(h)
  BY <1>1 DEF Loop, InterruptInv
<1>2. CASE PollReturns(h)
  BY <1>2 DEF PollReturns
<1>3. CASE HandleData(h) \/ HandleEnd(h) \/ HandleBlock(h) \/ HandleRequest(h)
  BY <1>3 DEF HandleData, HandleEnd, HandleBlock, HandleRequest
<1>4. CASE CacheHit(h) \/ \E r \in Remotes : CacheMiss(h, r)
  BY <1>4 DEF CacheHit, CacheMiss
<1>5. CASE \E c \in Clients : Accept(c)
  BY <1>5 DEF Accept
<1>6. CASE Register(h)
  <2>1. Creating(h) /\ child[h] \in AllHandlers /\ child[h] # h /\ pc[child[h]] = "none"
    BY <1>6 DEF Register, ChildInv, Creating
  <2> QED
    BY <1>6, <2>1 DEF Register
<1>7. CASE StartClient
  <2>1. /\ Creating(SrvHandler) /\ child[SrvHandler] \in AllHandlers
        /\ child[SrvHandler] # SrvHandler /\ pc[child[SrvHandler]] = "created"
    BY <1>7 DEF StartClient, ChildInv, Creating
  <2>2. child[SrvHandler] \notin interrupted
    BY <2>1 DEF InterruptInv
  <2> QED
    BY <1>7, <2>1, <2>2 DEF StartClient
<1>8. CASE StartRemote(h)
  <2>1. Creating(h) /\ child[h] \in AllHandlers /\ child[h] # h /\ pc[child[h]] = "created"
    BY <1>8 DEF StartRemote, ChildInv, Creating
  <2>2. child[h] \notin interrupted
    BY <2>1 DEF InterruptInv
  <2> QED
    BY <1>8, <2>1, <2>2 DEF StartRemote
<1>9. CASE ConnectFails(h) \/ Finish(h) \/ Leave(h)
  BY <1>9 DEF ConnectFails, Finish, Leave
<1>10. CASE Wake(h)
  BY <1>10 DEF Wake
<1> QED
  BY <1>1, <1>2, <1>3, <1>4, <1>5, <1>6, <1>7, <1>8, <1>9, <1>10 DEF HandlerStep

\* Each such move is a step of Joinable.
LEMMA MoveMaps ==
  ASSUME TypeOK, NEW h \in AllHandlers, Move(h), UNCHANGED <<interrupted, deleted>>
  PROVE  JoinableStep(h)
<1> USE DEF TypeOK, Pcs, AtWork
<1>1. CASE \/ pc'[h] = pc[h]
           \/ pc[h] = "none" /\ pc'[h] = "created"
           \/ pc[h] \in AtWork /\ pc'[h] \in AtWork
           \/ h \notin interrupted /\ pc[h] \in AtWork /\ pc'[h] = "loop"
  <2>1. Life'[h] = Life[h] /\ Calls'[h] = Calls[h]
    BY <1>1 DEF Life, Calls
  <2> QED
    BY <2>1 DEF JoinableStep, Promise!Idle, Promise!Same
<1>2. CASE pc[h] \notin {"none", "created", "done"} /\ pc'[h] = "done"
  <2>1. /\ Life[h] \in {"running", "blocked"}
        /\ Life'[h] = "ended" /\ Calls'[h] = "none"
    BY <1>2 DEF Life, Calls
  <2> QED
    BY <2>1 DEF JoinableStep, Promise!End, Promise!Live
<1>3. CASE \/ pc[h] \in AtWork /\ pc'[h] = "sleep"
           \/ h \notin interrupted /\ pc[h] = "loop" /\ pc'[h] = "poll"
  <2>1. /\ Life[h] = "running" /\ Life'[h] = "blocked" /\ Calls[h] # "none"
        /\ Calls'[h] = IF Calls[h] = "one" THEN "none" ELSE Calls[h]
    BY <1>3 DEF Life, Calls
  <2> QED
    BY <2>1 DEF JoinableStep, Promise!Block, Promise!Live
<1>4. CASE h \notin interrupted /\ \/ pc[h] = "sleep" /\ pc'[h] = "loop"
                                   \/ pc[h] = "poll" /\ pc'[h] \in AtWork
  <2>1. Life[h] = "blocked" /\ Life'[h] = "running" /\ Calls'[h] = Calls[h]
    BY <1>4 DEF Life, Calls
  <2> QED
    BY <2>1 DEF JoinableStep, Promise!Unblock, Promise!Live, Promise!Same
<1>5. CASE h \notin interrupted /\ pc[h] = "created" /\ pc'[h] = "loop"
  <2>1. Life[h] = "new" /\ Life'[h] = "running" /\ Calls'[h] = Calls[h]
    BY <1>5 DEF Life, Calls
  <2> QED
    BY <2>1 DEF JoinableStep, Promise!Start, Promise!Live, Promise!Same
<1> QED
  BY <1>1, <1>2, <1>3, <1>4, <1>5 DEF Move

\* What the server interrupts.
LEMMA VictimFit ==
  ASSUME IInv, InterruptInv, NEW h \in AllHandlers, RemoveHandler(h) \/ DestroyHandler(h)
  PROVE  /\ pc[h] # "none"
         /\ pc[h] = "created" => serverPc' = "crashed"
<1>1. CASE RemoveHandler(h)
  <2>1. h \in DeadHandlers
    BY <1>1 DEF RemoveHandler, IInv, DeadInv
  <2> QED
    BY <2>1 DEF InterruptInv, Over
<1>2. CASE DestroyHandler(h)
  <2>1. h \in Handlers
    BY <1>2 DEF DestroyHandler, InterruptInv
  <2>2. pc[h] # "none"
    BY <2>1 DEF IInv, PlaceInv
  <2> QED
    BY <1>2, <2>2 DEF DestroyHandler
<1> QED
  BY <1>1, <1>2

\* A handler that has been interrupted stays where the invariant says.
LEMMA InterruptStep ==
  ASSUME IInv, InterruptInv, [Next]_vars
  PROVE  InterruptInv'
<1> USE DEF IInv, TypeOK, Pcs, ServerPcs, Over
<1>1. CASE UNCHANGED vars
  BY <1>1 DEF InterruptInv, vars, serverVars, threadVars
<1>2. ASSUME NEW h \in AllHandlers, serverPc # "crashed" /\ (HandlerStep(h) \/ Wake(h))
      PROVE  InterruptInv'
  <2>1. /\ UNCHANGED <<interrupted, deleted>>
        /\ \A k \in AllHandlers : Move(k)
    BY <1>2, ThreadMoves
  <2>2. /\ serverPc' = serverPc /\ toErase' = toErase
        /\ Handlers \subseteq Handlers' /\ terminated \subseteq terminated'
    BY <1>2 DEF HandlerStep, Loop, PollReturns, HandleData, HandleEnd, HandleBlock,
       HandleRequest, CacheHit, CacheMiss, Accept, Register, StartClient, StartRemote,
       ConnectFails, Wake, Finish, Leave, serverVars
  <2>3. DeadHandlers' \subseteq Over'
    <3>1. \A k \in AllHandlers : pc[k] \in {"leaving", "done"} => pc'[k] \in {"leaving", "done"}
      BY <1>2, Kinds DEF HandlerStep, Loop, PollReturns, HandleData, HandleEnd, HandleBlock,
         HandleRequest, CacheHit, CacheMiss, Accept, Register, StartClient, StartRemote,
         ConnectFails, Wake, Finish, Leave, Goto, ChildInv, Creating
    <3>2. \A k \in DeadHandlers' : k \in DeadHandlers \/ pc'[k] = "leaving"
      BY <1>2 DEF HandlerStep, Loop, PollReturns, HandleData, HandleEnd, HandleBlock,
         HandleRequest, CacheHit, CacheMiss, Accept, Register, StartClient, StartRemote,
         ConnectFails, Wake, Finish, Leave, Goto
    <3>3. DeadHandlers' \subseteq AllHandlers
      BY TypeStep DEF IInv
    <3> QED
      BY <3>1, <3>2, <3>3 DEF InterruptInv
  <2>4. \A k \in interrupted : pc[k] \notin {"none", "created"} /\ pc'[k] \notin {"none", "created"}
    BY <1>2, <2>1 DEF InterruptInv, Move, AtWork
  <2> QED
    BY <2>1, <2>2, <2>3, <2>4 DEF InterruptInv
<1>3. ASSUME NEW h \in AllHandlers, RemoveHandler(h) \/ DestroyHandler(h)
      PROVE  InterruptInv'
  <2>1. pc[h] # "none" /\ (pc[h] = "created" => serverPc' = "crashed")
    BY <1>3, VictimFit
  <2>2. /\ interrupted' = interrupted \cup {h} /\ terminated' = terminated \cup {h}
        /\ pc' = [pc EXCEPT ![h] = IF pc[h] = "sleep" THEN "done" ELSE pc[h]]
        /\ DeadHandlers' = DeadHandlers /\ toErase' = toErase \ {h}
        /\ serverPc \in {"erasing", "destroy"}
        /\ serverPc = "erasing" => serverPc' = "joining"
        /\ serverPc = "destroy" => Handlers' = Handlers
    BY <1>3 DEF RemoveHandler, DestroyHandler, Interrupt
  <2>3. \A k \in AllHandlers : pc[k] # "sleep" => pc'[k] = pc[k]
    BY <2>2
  <2>4. \A k \in AllHandlers : pc'[k] # pc[k] => pc'[k] = "done"
    BY <2>2
  <2> QED
    BY <2>1, <2>2, <2>3, <2>4 DEF InterruptInv
<1>4. CASE \/ ServerLoop \/ ServerAcquire \/ ServerAcquireFails \/ OnSignal
           \/ OnSignalSticks \/ EraseBegin \/ EraseEnd \/ Join \/ DestroyEnd
           \/ \E S \in SUBSET Handlers : TerminateTimedOut(S)
  BY <1>4 DEF InterruptInv, ServerLoop, ServerAcquire, ServerAcquireFails, OnSignal,
     OnSignalSticks, EraseBegin, EraseEnd, Join, DestroyEnd, TerminateTimedOut, threadVars
<1>5. ASSUME NEW h \in AllHandlers, HandlerStep(h) PROVE serverPc # "crashed"
  BY <1>5 DEF HandlerStep
<1> QED
  BY <1>1, <1>2, <1>3, <1>4, <1>5 DEF Next, ServerStep

\* Interrupt hits one thread, in its call or elsewhere.
LEMMA InterruptMaps ==
  ASSUME IInv, InterruptInv, NEW h \in AllHandlers, RemoveHandler(h) \/ DestroyHandler(h),
         NEW k \in AllHandlers
  PROVE  JoinableStep(k)
<1> USE DEF IInv, TypeOK, Pcs
<1>1. /\ interrupted' = interrupted \cup {h} /\ deleted' = deleted
      /\ pc' = [pc EXCEPT ![h] = IF pc[h] = "sleep" THEN "done" ELSE pc[h]]
  BY DEF RemoveHandler, DestroyHandler, Interrupt
<1>2. CASE \/ k # h
           \/ k \in interrupted /\ pc[k] # "sleep"
           \/ pc[k] \in {"none", "created", "done"}
  <2>1. Life'[k] = Life[k] /\ Calls'[k] = Calls[k]
    BY <1>1, <1>2 DEF Life, Calls
  <2> QED
    BY <1>1, <2>1 DEF JoinableStep, Promise!Idle, Promise!Same
<1>3. CASE k = h /\ k \in interrupted /\ pc[k] = "sleep"
  <2>1. Life[k] = "blocked" /\ Life'[k] = "ended" /\ Calls'[k] = "none"
    BY <1>1, <1>3 DEF Life, Calls
  <2> QED
    BY <1>1, <2>1 DEF JoinableStep, Promise!End, Promise!Live
<1>4. CASE k = h /\ k \notin interrupted /\ pc[k] \in {"sleep", "poll"}
  <2>1. /\ Life[k] = "blocked" /\ Life'[k] \in {"running", "ended"}
        /\ Calls[k] = "any" /\ Calls'[k] = "none"
    BY <1>1, <1>4 DEF Life, Calls
  <2> QED
    BY <1>1, <2>1 DEF JoinableStep, Promise!Interrupt, Promise!Live
<1>5. CASE /\ k = h /\ k \notin interrupted
           /\ pc[k] \notin {"none", "created", "done", "sleep", "poll"}
  <2>1. /\ Life[k] = "running" /\ Life'[k] = "running"
        /\ Calls[k] = "any" /\ Calls'[k] \in {"one", "none"}
    BY <1>1, <1>5 DEF Life, Calls
  <2> QED
    BY <1>1, <2>1 DEF JoinableStep, Promise!Interrupt, Promise!Live
<1> QED
  BY <1>2, <1>3, <1>4, <1>5

\* Join releases its victim.
LEMMA JoinMaps ==
  ASSUME IInv, Join, NEW k \in AllHandlers
  PROVE  JoinableStep(k)
<1>1. /\ Life'[k] = Life[k] /\ Calls'[k] = Calls[k]
      /\ deleted' = deleted \cup {victim} /\ pc[victim] = "done"
  BY DEF Join, Life, Calls, threadVars
<1>2. CASE k = victim /\ k \notin deleted
  <2>1. Life[k] = "ended"
    BY <1>1, <1>2 DEF Life
  <2> QED
    BY <1>1, <1>2, <2>1 DEF JoinableStep, Promise!Release, Promise!Live
<1>3. CASE k # victim \/ k \in deleted
  BY <1>1, <1>3 DEF JoinableStep, Promise!Idle, Promise!Same
<1> QED
  BY <1>2, <1>3

LEMMA PromiseStep ==
  ASSUME IInv, InterruptInv, [Next]_vars
  PROVE  [Promise!Next]_(Promise!vars)
<1>1. CASE \/ UNCHANGED vars
           \/ ServerLoop \/ ServerAcquire \/ ServerAcquireFails \/ OnSignal
           \/ OnSignalSticks \/ EraseBegin \/ EraseEnd \/ DestroyEnd
           \/ \E S \in SUBSET Handlers : TerminateTimedOut(S)
  <2>1. UNCHANGED <<pc, interrupted, deleted>>
    BY <1>1 DEF vars, ServerLoop, ServerAcquire, ServerAcquireFails, OnSignal,
       OnSignalSticks, EraseBegin, EraseEnd, DestroyEnd, TerminateTimedOut, threadVars
  <2> QED
    BY <2>1 DEF Promise!vars, Life, Calls
<1>2. CASE /\ ~UNCHANGED vars
           /\ \/ \E h \in AllHandlers :
                   \/ serverPc # "crashed" /\ (HandlerStep(h) \/ Wake(h))
                   \/ RemoveHandler(h) \/ DestroyHandler(h)
              \/ Join
  <2>1. ASSUME NEW k \in AllHandlers PROVE JoinableStep(k)
    <3>1. ASSUME NEW h \in AllHandlers, serverPc # "crashed" /\ (HandlerStep(h) \/ Wake(h))
          PROVE  JoinableStep(k)
      BY <3>1, ThreadMoves, MoveMaps DEF IInv
    <3> QED
      BY <1>2, <3>1, InterruptMaps, JoinMaps
  <2>2. /\ Life' \in [AllHandlers -> {"new", "running", "blocked", "ended"}]
        /\ Calls' \in [AllHandlers -> {"any", "one", "none"}]
    BY DEF Life, Calls
  <2>3. deleted' \subseteq AllHandlers
    BY TypeStep DEF IInv, TypeOK
  <2> QED
    BY <2>1, <2>2, <2>3 DEF Promise!Next, JoinableStep
<1> QED
  BY <1>1, <1>2 DEF Next, HandlerStep, ServerStep

\* The server interrupts and joins its handlers as a Thread allows it.
THEOREM Refinement == Spec => JoinableSpec
<1>1. Init => InterruptInv
  BY DEF Init, InterruptInv
<1>2. IInv /\ InterruptInv /\ [Next]_vars => InterruptInv'
  BY InterruptStep
<1>3. Init => Promise!Init
  BY DEF Init, Promise!Init, Life, Calls
<1>4. IInv /\ InterruptInv /\ [Next]_vars => [Promise!Next]_(Promise!vars)
  BY PromiseStep
<1> QED
  BY <1>1, <1>2, <1>3, <1>4, Invariance, PTL DEF Spec, JoinableSpec, Promise!Spec

-----------------------------------------------------------------------------
(* Join is not stuck *)

\* CacheMutex is held by a client exactly while it creates a RemoteHandler, and
\* who is being joined has been interrupted.
HeldInv ==
  /\ cacheMutex # NoHandler => pc[cacheMutex] \in {"register", "start"}
  /\ serverPc \in {"joining", "destroyJoin"} => victim \in interrupted

LEMMA HeldStep ==
  ASSUME IInv, InterruptInv, HeldInv, [Next]_vars
  PROVE  HeldInv'
<1> USE Kinds DEF IInv, TypeOK, Pcs, ServerPcs, HeldInv
<1>1. CASE UNCHANGED vars
  BY <1>1 DEF vars, serverVars, threadVars
<1>2. ASSUME NEW h \in AllHandlers, serverPc # "crashed" /\ (HandlerStep(h) \/ Wake(h))
      PROVE  HeldInv'
  <2> USE DEF Goto, serverVars, threadVars
  <2>1. CASE \/ Loop(h) \/ PollReturns(h) \/ HandleData(h) \/ HandleEnd(h)
             \/ HandleBlock(h) \/ HandleRequest(h) \/ CacheHit(h)
             \/ Finish(h) \/ Leave(h) \/ Wake(h)
    BY <2>1 DEF Loop, PollReturns, HandleData, HandleEnd, HandleBlock, HandleRequest,
                CacheHit, Finish, Leave, Wake
  <2>2. ASSUME NEW r \in Remotes, CacheMiss(h, r) PROVE HeldInv'
    BY <2>2 DEF CacheMiss, ChildInv
  <2>3. CASE Register(h)
    BY <2>3 DEF Register, ChildInv, Creating
  <2>4. CASE h = SrvHandler /\ StartClient
    BY <2>4 DEF StartClient, ChildInv, Creating
  <2>5. ASSUME NEW c \in Clients, h = SrvHandler, Accept(c) PROVE HeldInv'
    BY <2>5 DEF Accept
  <2>6. CASE StartRemote(h) \/ ConnectFails(h)
    BY <2>6 DEF StartRemote, ConnectFails
  <2> QED
    BY <1>2, <2>1, <2>2, <2>3, <2>4, <2>5, <2>6 DEF HandlerStep
<1>3. CASE \/ ServerLoop \/ ServerAcquire \/ ServerAcquireFails \/ OnSignal
           \/ OnSignalSticks \/ EraseBegin \/ EraseEnd \/ DestroyEnd \/ Join
           \/ \E S \in SUBSET Handlers : TerminateTimedOut(S)
  BY <1>3 DEF ServerLoop, ServerAcquire, ServerAcquireFails, OnSignal, OnSignalSticks,
              EraseBegin, EraseEnd, DestroyEnd, Join, TerminateTimedOut,
              serverVars, threadVars
<1>4. ASSUME NEW h \in AllHandlers, RemoveHandler(h) \/ DestroyHandler(h) PROVE HeldInv'
  BY <1>4 DEF RemoveHandler, DestroyHandler, Interrupt
<1>5. ASSUME NEW h \in AllHandlers, HandlerStep(h) PROVE serverPc # "crashed"
  BY <1>5 DEF HandlerStep
<1> QED
  BY <1>1, <1>2, <1>3, <1>4, <1>5 DEF Next, ServerStep

\* EraseDeadHandlers joins threads that have marked themselves, and are past every
\* mutex.
LEMMA EraseNotStuck ==
  ASSUME IInv, InterruptInv, serverPc = "joining"
  PROVE  pc[victim] = "done" \/ CanGo(victim)
<1>1. victim \in Over
  BY DEF IInv, DeadInv, InterruptInv
<1> QED
  BY <1>1 DEF Over, CanGo

\* The destructor of Server joins any thread, with HandlersMutex locked.
LEMMA DestroyNotStuck ==
  ASSUME IInv, InterruptInv, HeldInv, serverPc = "destroyJoin", ~Hangs(victim)
  PROVE  \/ pc[victim] = "done" \/ CanGo(victim)
         \/ cacheMutex # NoHandler /\ pc[victim] = "cache" /\ CanGo(cacheMutex)
<1>1. victim \in AllHandlers /\ victim \in interrupted
  BY DEF IInv, PlaceInv, HeldInv
<1>2. pc[victim] \in Pcs \ {"none", "created"}
  BY <1>1 DEF IInv, TypeOK, InterruptInv
<1>3. pc[victim] \notin {"register", "sleep"}
  BY <1>1 DEF Hangs
<1>4. CASE pc[victim] = "cache"
  <2>1. CASE cacheMutex = NoHandler
    BY <1>4, <2>1 DEF CanGo
  <2>2. CASE cacheMutex # NoHandler
    <3>1. pc[cacheMutex] = "start"
      BY <1>4, <2>2 DEF Hangs, HeldInv
    <3> QED
      BY <1>4, <2>2, <3>1 DEF CanGo
  <2> QED
    BY <2>1, <2>2
<1>5. CASE pc[victim] \in Pcs \ {"none", "created", "register", "sleep", "cache"}
  BY <1>5 DEF CanGo, DeadHandlersUnlocked, Pcs
<1> QED
  BY <1>2, <1>3, <1>4, <1>5

\* Whoever joins a thread waits for one that can go on, but for the three ways in
\* which the destructor of Server hangs.
THEOREM NotStuck == Spec => []ServerNotStuck
<1>1. Init => InterruptInv /\ HeldInv
  BY DEF Init, InterruptInv, HeldInv
<1>2. IInv /\ InterruptInv /\ HeldInv /\ [Next]_vars => (InterruptInv /\ HeldInv)'
  BY InterruptStep, HeldStep
<1>3. IInv /\ InterruptInv /\ HeldInv => ServerNotStuck
  BY EraseNotStuck, DestroyNotStuck DEF ServerNotStuck
<1> QED
  BY <1>1, <1>2, <1>3, Invariance, PTL DEF Spec

=============================================================================
