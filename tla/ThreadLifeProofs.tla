-------------------------- MODULE ThreadLifeProofs --------------------------
(***************************************************************************)
(* The safety properties of ThreadLife, for any set of threads, that it    *)
(* implements Joinable, and that a destructor does not get stuck.          *)
(***************************************************************************)
EXTENDS ThreadLife, TLAPS

\* What is entered when: the thread has not set Done when the owner is about to
\* wait, for it needs the mutex that the owner holds.
WaitInv == \A t \in Threads : owner[t] = "enter" => t \notin Done

\* A thread does not run before it has been started.
StartInv == \A t \in Threads : owner[t] = "new" => pc[t] = "none"

\* A signal comes after _IsTerminated has been set.
SignalInv ==
  /\ sent \subseteq terminated /\ delivered \subseteq terminated
  /\ \A t \in Threads : owner[t] \in {"interrupt", "kill"} => t \in terminated

IInv ==
  TypeOK /\ StartInv /\ WaitInv /\ NoLostNotify /\ SignalInv /\ InterruptNotLost

-----------------------------------------------------------------------------
\* What one step may be.
LEMMA NextSplit ==
  ASSUME [Next]_vars
  PROVE  \/ UNCHANGED vars
         \/ \E t \in Threads :
              \/ OnceLock(t) \/ OnceRecord(t) \/ OnceKnown(t) \/ Loop(t)
              \/ Block(t) \/ PollReturns(t) \/ PointLock(t) \/ PointTest(t)
              \/ ExitLock(t) \/ ClearTLS(t) \/ SetDone(t) \/ Notify(t)
              \/ Deliver(t) \/ HandlerOnce(t) \/ HandlerLoses(t) \/ HandlerRequests(t)
              \/ GetHandle(t) \/ Kill(t) \/ JoinLock(t) \/ JoinTest(t)
              \/ JoinWait(t) \/ PthreadJoin(t) \/ MarkJoined(t) \/ Wake(t)
              \/ Start(t) \/ Terminate(t) \/ JoinOnly(t) \/ SpuriousWakeup(t)
  BY DEF Next, ThreadStep, HandlerStep, OwnerStep, OtherStep

\* A thread has to be started.
LEMMA StartStep ==
  ASSUME TypeOK, StartInv, [Next]_vars
  PROVE  StartInv'
<1>1. CASE UNCHANGED vars
  BY <1>1 DEF TypeOK, Pcs, OwnerPcs, StartInv, vars, threadVars, signalVars, ownerVars
<1>2. CASE ~UNCHANGED vars
  <2>0. PICK t \in Threads :
          \/ OnceLock(t) \/ OnceRecord(t) \/ OnceKnown(t) \/ Loop(t)
          \/ Block(t) \/ PollReturns(t) \/ PointLock(t) \/ PointTest(t)
          \/ ExitLock(t) \/ ClearTLS(t) \/ SetDone(t) \/ Notify(t)
          \/ Deliver(t) \/ HandlerOnce(t) \/ HandlerLoses(t) \/ HandlerRequests(t)
          \/ GetHandle(t) \/ Kill(t) \/ JoinLock(t) \/ JoinTest(t)
          \/ JoinWait(t) \/ PthreadJoin(t) \/ MarkJoined(t) \/ Wake(t)
          \/ Start(t) \/ Terminate(t) \/ JoinOnly(t) \/ SpuriousWakeup(t)
    BY <1>2, NextSplit
  <2>1. CASE OnceLock(t)
    BY <2>1 DEF TypeOK, Pcs, OwnerPcs, StartInv, OnceLock, Goto, threadVars, signalVars, ownerVars
  <2>2. CASE OnceRecord(t)
    BY <2>2 DEF TypeOK, Pcs, OwnerPcs, StartInv, OnceRecord, Goto, threadVars, signalVars, ownerVars
  <2>3. CASE OnceKnown(t)
    BY <2>3 DEF TypeOK, Pcs, OwnerPcs, StartInv, OnceKnown, Goto, threadVars, signalVars, ownerVars
  <2>4. CASE Loop(t)
    BY <2>4 DEF TypeOK, Pcs, OwnerPcs, StartInv, Loop, Goto, threadVars, signalVars, ownerVars
  <2>5. CASE Block(t)
    BY <2>5 DEF TypeOK, Pcs, OwnerPcs, StartInv, Block, Goto, threadVars, signalVars, ownerVars
  <2>6. CASE PollReturns(t)
    BY <2>6 DEF TypeOK, Pcs, OwnerPcs, StartInv, PollReturns, Goto, threadVars, signalVars, ownerVars
  <2>7. CASE PointLock(t)
    BY <2>7 DEF TypeOK, Pcs, OwnerPcs, StartInv, PointLock, Goto, threadVars, signalVars, ownerVars
  <2>8. CASE PointTest(t)
    BY <2>8 DEF TypeOK, Pcs, OwnerPcs, StartInv, PointTest, Goto, threadVars, signalVars, ownerVars
  <2>9. CASE ExitLock(t)
    BY <2>9 DEF TypeOK, Pcs, OwnerPcs, StartInv, ExitLock, Goto, threadVars, signalVars, ownerVars
  <2>10. CASE ClearTLS(t)
    BY <2>10 DEF TypeOK, Pcs, OwnerPcs, StartInv, ClearTLS, Goto, threadVars, signalVars, ownerVars
  <2>11. CASE SetDone(t)
    BY <2>11 DEF TypeOK, Pcs, OwnerPcs, StartInv, SetDone, Goto, threadVars, signalVars, ownerVars
  <2>12. CASE Notify(t)
    BY <2>12 DEF TypeOK, Pcs, OwnerPcs, StartInv, Notify, Goto, threadVars, signalVars, ownerVars
  <2>13. CASE Deliver(t)
    BY <2>13 DEF TypeOK, Pcs, OwnerPcs, StartInv, Deliver, threadVars, signalVars, ownerVars
  <2>14. CASE HandlerOnce(t)
    BY <2>14 DEF TypeOK, Pcs, OwnerPcs, StartInv, HandlerOnce, threadVars, signalVars, ownerVars, TLSIsNull
  <2>15. CASE HandlerLoses(t)
    BY <2>15 DEF TypeOK, Pcs, OwnerPcs, StartInv, HandlerLoses, threadVars, signalVars, ownerVars, TLSIsNull
  <2>16. CASE HandlerRequests(t)
    BY <2>16 DEF TypeOK, Pcs, OwnerPcs, StartInv, HandlerRequests, threadVars, signalVars, ownerVars, TLSIsNull
  <2>17. CASE GetHandle(t)
    BY <2>17 DEF TypeOK, Pcs, OwnerPcs, StartInv, GetHandle, OwnerGoto, threadVars, signalVars, ownerVars
  <2>18. CASE Kill(t)
    BY <2>18 DEF TypeOK, Pcs, OwnerPcs, StartInv, Kill, OwnerGoto, threadVars, signalVars, ownerVars
  <2>19. CASE JoinLock(t)
    BY <2>19 DEF TypeOK, Pcs, OwnerPcs, StartInv, JoinLock, OwnerGoto, threadVars, signalVars, ownerVars
  <2>20. CASE JoinTest(t)
    BY <2>20 DEF TypeOK, Pcs, OwnerPcs, StartInv, JoinTest, OwnerGoto, threadVars, signalVars, ownerVars
  <2>21. CASE JoinWait(t)
    BY <2>21 DEF TypeOK, Pcs, OwnerPcs, StartInv, JoinWait, OwnerGoto, threadVars, signalVars, ownerVars
  <2>22. CASE PthreadJoin(t)
    BY <2>22 DEF TypeOK, Pcs, OwnerPcs, StartInv, PthreadJoin, OwnerGoto, threadVars, signalVars, ownerVars
  <2>23. CASE MarkJoined(t)
    BY <2>23 DEF TypeOK, Pcs, OwnerPcs, StartInv, MarkJoined, OwnerGoto, threadVars, signalVars, ownerVars
  <2>24. CASE Wake(t)
    BY <2>24 DEF TypeOK, Pcs, OwnerPcs, StartInv, Wake, Goto, threadVars, signalVars, ownerVars
  <2>25. CASE Start(t)
    BY <2>25 DEF TypeOK, Pcs, OwnerPcs, StartInv, Start, OwnerGoto, threadVars, signalVars, ownerVars
  <2>26. CASE Terminate(t)
    BY <2>26 DEF TypeOK, Pcs, OwnerPcs, StartInv, Terminate, OwnerGoto, threadVars, signalVars, ownerVars
  <2>27. CASE JoinOnly(t)
    BY <2>27 DEF TypeOK, Pcs, OwnerPcs, StartInv, JoinOnly, OwnerGoto, threadVars, signalVars, ownerVars
  <2>28. CASE SpuriousWakeup(t)
    BY <2>28 DEF TypeOK, Pcs, OwnerPcs, StartInv, SpuriousWakeup, OwnerGoto, threadVars, signalVars, ownerVars
  <2> QED
    BY <2>0, <2>1, <2>2, <2>3, <2>4, <2>5, <2>6, <2>7, <2>8, <2>9, <2>10, <2>11, <2>12, <2>13, <2>14, <2>15, <2>16, <2>17, <2>18, <2>19, <2>20, <2>21, <2>22, <2>23, <2>24, <2>25, <2>26, <2>27, <2>28
<1> QED
  BY <1>1, <1>2, NextSplit

\* The types, and who holds which mutex.
LEMMA TypeStep ==
  ASSUME TypeOK, StartInv, [Next]_vars
  PROVE  TypeOK'
<1>1. CASE UNCHANGED vars
  BY <1>1 DEF TypeOK, StartInv, Pcs, OwnerPcs, vars, threadVars, signalVars, ownerVars
<1>2. CASE ~UNCHANGED vars
  <2>0. PICK t \in Threads :
          \/ OnceLock(t) \/ OnceRecord(t) \/ OnceKnown(t) \/ Loop(t)
          \/ Block(t) \/ PollReturns(t) \/ PointLock(t) \/ PointTest(t)
          \/ ExitLock(t) \/ ClearTLS(t) \/ SetDone(t) \/ Notify(t)
          \/ Deliver(t) \/ HandlerOnce(t) \/ HandlerLoses(t) \/ HandlerRequests(t)
          \/ GetHandle(t) \/ Kill(t) \/ JoinLock(t) \/ JoinTest(t)
          \/ JoinWait(t) \/ PthreadJoin(t) \/ MarkJoined(t) \/ Wake(t)
          \/ Start(t) \/ Terminate(t) \/ JoinOnly(t) \/ SpuriousWakeup(t)
    BY <1>2, NextSplit
  <2>1. CASE OnceLock(t)
    BY <2>1, ThreadLifeAssumption DEF TypeOK, StartInv, Pcs, OwnerPcs, OnceLock, Goto, threadVars, signalVars, ownerVars
  <2>2. CASE OnceRecord(t)
    BY <2>2, ThreadLifeAssumption DEF TypeOK, StartInv, Pcs, OwnerPcs, OnceRecord, Goto, threadVars, signalVars, ownerVars
  <2>3. CASE OnceKnown(t)
    BY <2>3, ThreadLifeAssumption DEF TypeOK, StartInv, Pcs, OwnerPcs, OnceKnown, Goto, threadVars, signalVars, ownerVars
  <2>4. CASE Loop(t)
    BY <2>4 DEF TypeOK, StartInv, Pcs, OwnerPcs, Loop, Goto, threadVars, signalVars, ownerVars
  <2>5. CASE Block(t)
    BY <2>5 DEF TypeOK, StartInv, Pcs, OwnerPcs, Block, Goto, threadVars, signalVars, ownerVars
  <2>6. CASE PollReturns(t)
    BY <2>6 DEF TypeOK, StartInv, Pcs, OwnerPcs, PollReturns, Goto, threadVars, signalVars, ownerVars
  <2>7. CASE PointLock(t)
    BY <2>7 DEF TypeOK, StartInv, Pcs, OwnerPcs, PointLock, Goto, threadVars, signalVars, ownerVars
  <2>8. CASE PointTest(t)
    BY <2>8 DEF TypeOK, StartInv, Pcs, OwnerPcs, PointTest, Goto, threadVars, signalVars, ownerVars
  <2>9. CASE ExitLock(t)
    BY <2>9 DEF TypeOK, StartInv, Pcs, OwnerPcs, ExitLock, Goto, threadVars, signalVars, ownerVars
  <2>10. CASE ClearTLS(t)
    BY <2>10 DEF TypeOK, StartInv, Pcs, OwnerPcs, ClearTLS, Goto, threadVars, signalVars, ownerVars
  <2>11. CASE SetDone(t)
    BY <2>11 DEF TypeOK, StartInv, Pcs, OwnerPcs, SetDone, Goto, threadVars, signalVars, ownerVars
  <2>12. CASE Notify(t)
    BY <2>12 DEF TypeOK, StartInv, Pcs, OwnerPcs, Notify, Goto, threadVars, signalVars, ownerVars
  <2>13. CASE Deliver(t)
    BY <2>13 DEF TypeOK, StartInv, Pcs, OwnerPcs, Deliver, threadVars, signalVars, ownerVars
  <2>14. CASE HandlerOnce(t)
    BY <2>14 DEF TypeOK, StartInv, Pcs, OwnerPcs, HandlerOnce, threadVars, signalVars, ownerVars, TLSIsNull
  <2>15. CASE HandlerLoses(t)
    BY <2>15 DEF TypeOK, StartInv, Pcs, OwnerPcs, HandlerLoses, threadVars, signalVars, ownerVars, TLSIsNull
  <2>16. CASE HandlerRequests(t)
    BY <2>16 DEF TypeOK, StartInv, Pcs, OwnerPcs, HandlerRequests, threadVars, signalVars, ownerVars, TLSIsNull
  <2>17. CASE GetHandle(t)
    BY <2>17 DEF TypeOK, StartInv, Pcs, OwnerPcs, GetHandle, OwnerGoto, threadVars, signalVars, ownerVars
  <2>18. CASE Kill(t)
    BY <2>18 DEF TypeOK, StartInv, Pcs, OwnerPcs, Kill, OwnerGoto, threadVars, signalVars, ownerVars
  <2>19. CASE JoinLock(t)
    BY <2>19 DEF TypeOK, StartInv, Pcs, OwnerPcs, JoinLock, OwnerGoto, threadVars, signalVars, ownerVars
  <2>20. CASE JoinTest(t)
    BY <2>20 DEF TypeOK, StartInv, Pcs, OwnerPcs, JoinTest, OwnerGoto, threadVars, signalVars, ownerVars
  <2>21. CASE JoinWait(t)
    BY <2>21 DEF TypeOK, StartInv, Pcs, OwnerPcs, JoinWait, OwnerGoto, threadVars, signalVars, ownerVars
  <2>22. CASE PthreadJoin(t)
    BY <2>22 DEF TypeOK, StartInv, Pcs, OwnerPcs, PthreadJoin, OwnerGoto, threadVars, signalVars, ownerVars
  <2>23. CASE MarkJoined(t)
    BY <2>23 DEF TypeOK, StartInv, Pcs, OwnerPcs, MarkJoined, OwnerGoto, threadVars, signalVars, ownerVars
  <2>24. CASE Wake(t)
    BY <2>24 DEF TypeOK, StartInv, Pcs, OwnerPcs, Wake, Goto, threadVars, signalVars, ownerVars
  <2>25. CASE Start(t)
    BY <2>25 DEF TypeOK, StartInv, Pcs, OwnerPcs, Start, OwnerGoto, threadVars, signalVars, ownerVars
  <2>26. CASE Terminate(t)
    BY <2>26 DEF TypeOK, StartInv, Pcs, OwnerPcs, Terminate, OwnerGoto, threadVars, signalVars, ownerVars
  <2>27. CASE JoinOnly(t)
    BY <2>27 DEF TypeOK, StartInv, Pcs, OwnerPcs, JoinOnly, OwnerGoto, threadVars, signalVars, ownerVars
  <2>28. CASE SpuriousWakeup(t)
    BY <2>28 DEF TypeOK, StartInv, Pcs, OwnerPcs, SpuriousWakeup, OwnerGoto, threadVars, signalVars, ownerVars
  <2> QED
    BY <2>0, <2>1, <2>2, <2>3, <2>4, <2>5, <2>6, <2>7, <2>8, <2>9, <2>10, <2>11, <2>12, <2>13, <2>14, <2>15, <2>16, <2>17, <2>18, <2>19, <2>20, <2>21, <2>22, <2>23, <2>24, <2>25, <2>26, <2>27, <2>28
<1> QED
  BY <1>1, <1>2, NextSplit

\* No notification is lost.
LEMMA NotifyStep ==
  ASSUME TypeOK, WaitInv, NoLostNotify, [Next]_vars
  PROVE  (WaitInv /\ NoLostNotify)'
<1>1. CASE UNCHANGED vars
  BY <1>1 DEF TypeOK, Pcs, OwnerPcs, WaitInv, NoLostNotify, vars, threadVars, signalVars, ownerVars
<1>2. CASE ~UNCHANGED vars
  <2>0. PICK t \in Threads :
          \/ OnceLock(t) \/ OnceRecord(t) \/ OnceKnown(t) \/ Loop(t)
          \/ Block(t) \/ PollReturns(t) \/ PointLock(t) \/ PointTest(t)
          \/ ExitLock(t) \/ ClearTLS(t) \/ SetDone(t) \/ Notify(t)
          \/ Deliver(t) \/ HandlerOnce(t) \/ HandlerLoses(t) \/ HandlerRequests(t)
          \/ GetHandle(t) \/ Kill(t) \/ JoinLock(t) \/ JoinTest(t)
          \/ JoinWait(t) \/ PthreadJoin(t) \/ MarkJoined(t) \/ Wake(t)
          \/ Start(t) \/ Terminate(t) \/ JoinOnly(t) \/ SpuriousWakeup(t)
    BY <1>2, NextSplit
  <2>1. CASE OnceLock(t)
    BY <2>1 DEF TypeOK, Pcs, OwnerPcs, WaitInv, NoLostNotify, OnceLock, Goto, threadVars, signalVars, ownerVars
  <2>2. CASE OnceRecord(t)
    BY <2>2 DEF TypeOK, Pcs, OwnerPcs, WaitInv, NoLostNotify, OnceRecord, Goto, threadVars, signalVars, ownerVars
  <2>3. CASE OnceKnown(t)
    BY <2>3 DEF TypeOK, Pcs, OwnerPcs, WaitInv, NoLostNotify, OnceKnown, Goto, threadVars, signalVars, ownerVars
  <2>4. CASE Loop(t)
    BY <2>4 DEF TypeOK, Pcs, OwnerPcs, WaitInv, NoLostNotify, Loop, Goto, threadVars, signalVars, ownerVars
  <2>5. CASE Block(t)
    BY <2>5 DEF TypeOK, Pcs, OwnerPcs, WaitInv, NoLostNotify, Block, Goto, threadVars, signalVars, ownerVars
  <2>6. CASE PollReturns(t)
    BY <2>6 DEF TypeOK, Pcs, OwnerPcs, WaitInv, NoLostNotify, PollReturns, Goto, threadVars, signalVars, ownerVars
  <2>7. CASE PointLock(t)
    BY <2>7 DEF TypeOK, Pcs, OwnerPcs, WaitInv, NoLostNotify, PointLock, Goto, threadVars, signalVars, ownerVars
  <2>8. CASE PointTest(t)
    BY <2>8 DEF TypeOK, Pcs, OwnerPcs, WaitInv, NoLostNotify, PointTest, Goto, threadVars, signalVars, ownerVars
  <2>9. CASE ExitLock(t)
    BY <2>9 DEF TypeOK, Pcs, OwnerPcs, WaitInv, NoLostNotify, ExitLock, Goto, threadVars, signalVars, ownerVars
  <2>10. CASE ClearTLS(t)
    BY <2>10 DEF TypeOK, Pcs, OwnerPcs, WaitInv, NoLostNotify, ClearTLS, Goto, threadVars, signalVars, ownerVars
  <2>11. CASE SetDone(t)
    BY <2>11 DEF TypeOK, Pcs, OwnerPcs, WaitInv, NoLostNotify, SetDone, Goto, threadVars, signalVars, ownerVars
  <2>12. CASE Notify(t)
    BY <2>12 DEF TypeOK, Pcs, OwnerPcs, WaitInv, NoLostNotify, Notify, Goto, threadVars, signalVars, ownerVars
  <2>13. CASE Deliver(t)
    BY <2>13 DEF TypeOK, Pcs, OwnerPcs, WaitInv, NoLostNotify, Deliver, threadVars, signalVars, ownerVars
  <2>14. CASE HandlerOnce(t)
    BY <2>14 DEF TypeOK, Pcs, OwnerPcs, WaitInv, NoLostNotify, HandlerOnce, threadVars, signalVars, ownerVars, TLSIsNull
  <2>15. CASE HandlerLoses(t)
    BY <2>15 DEF TypeOK, Pcs, OwnerPcs, WaitInv, NoLostNotify, HandlerLoses, threadVars, signalVars, ownerVars, TLSIsNull
  <2>16. CASE HandlerRequests(t)
    BY <2>16 DEF TypeOK, Pcs, OwnerPcs, WaitInv, NoLostNotify, HandlerRequests, threadVars, signalVars, ownerVars, TLSIsNull
  <2>17. CASE GetHandle(t)
    BY <2>17 DEF TypeOK, Pcs, OwnerPcs, WaitInv, NoLostNotify, GetHandle, OwnerGoto, threadVars, signalVars, ownerVars
  <2>18. CASE Kill(t)
    BY <2>18 DEF TypeOK, Pcs, OwnerPcs, WaitInv, NoLostNotify, Kill, OwnerGoto, threadVars, signalVars, ownerVars
  <2>19. CASE JoinLock(t)
    BY <2>19 DEF TypeOK, Pcs, OwnerPcs, WaitInv, NoLostNotify, JoinLock, OwnerGoto, threadVars, signalVars, ownerVars
  <2>20. CASE JoinTest(t)
    BY <2>20 DEF TypeOK, Pcs, OwnerPcs, WaitInv, NoLostNotify, JoinTest, OwnerGoto, threadVars, signalVars, ownerVars
  <2>21. CASE JoinWait(t)
    BY <2>21 DEF TypeOK, Pcs, OwnerPcs, WaitInv, NoLostNotify, JoinWait, OwnerGoto, threadVars, signalVars, ownerVars
  <2>22. CASE PthreadJoin(t)
    BY <2>22 DEF TypeOK, Pcs, OwnerPcs, WaitInv, NoLostNotify, PthreadJoin, OwnerGoto, threadVars, signalVars, ownerVars
  <2>23. CASE MarkJoined(t)
    BY <2>23 DEF TypeOK, Pcs, OwnerPcs, WaitInv, NoLostNotify, MarkJoined, OwnerGoto, threadVars, signalVars, ownerVars
  <2>24. CASE Wake(t)
    BY <2>24 DEF TypeOK, Pcs, OwnerPcs, WaitInv, NoLostNotify, Wake, Goto, threadVars, signalVars, ownerVars
  <2>25. CASE Start(t)
    BY <2>25 DEF TypeOK, Pcs, OwnerPcs, WaitInv, NoLostNotify, Start, OwnerGoto, threadVars, signalVars, ownerVars
  <2>26. CASE Terminate(t)
    BY <2>26 DEF TypeOK, Pcs, OwnerPcs, WaitInv, NoLostNotify, Terminate, OwnerGoto, threadVars, signalVars, ownerVars
  <2>27. CASE JoinOnly(t)
    BY <2>27 DEF TypeOK, Pcs, OwnerPcs, WaitInv, NoLostNotify, JoinOnly, OwnerGoto, threadVars, signalVars, ownerVars
  <2>28. CASE SpuriousWakeup(t)
    BY <2>28 DEF TypeOK, Pcs, OwnerPcs, WaitInv, NoLostNotify, SpuriousWakeup, OwnerGoto, threadVars, signalVars, ownerVars
  <2> QED
    BY <2>0, <2>1, <2>2, <2>3, <2>4, <2>5, <2>6, <2>7, <2>8, <2>9, <2>10, <2>11, <2>12, <2>13, <2>14, <2>15, <2>16, <2>17, <2>18, <2>19, <2>20, <2>21, <2>22, <2>23, <2>24, <2>25, <2>26, <2>27, <2>28
<1> QED
  BY <1>1, <1>2, NextSplit

\* Terminate comes before the signal.
LEMMA SignalStep ==
  ASSUME TypeOK, SignalInv, [Next]_vars
  PROVE  SignalInv'
<1>1. CASE UNCHANGED vars
  BY <1>1 DEF TypeOK, Pcs, OwnerPcs, SignalInv, vars, threadVars, signalVars, ownerVars
<1>2. CASE ~UNCHANGED vars
  <2>0. PICK t \in Threads :
          \/ OnceLock(t) \/ OnceRecord(t) \/ OnceKnown(t) \/ Loop(t)
          \/ Block(t) \/ PollReturns(t) \/ PointLock(t) \/ PointTest(t)
          \/ ExitLock(t) \/ ClearTLS(t) \/ SetDone(t) \/ Notify(t)
          \/ Deliver(t) \/ HandlerOnce(t) \/ HandlerLoses(t) \/ HandlerRequests(t)
          \/ GetHandle(t) \/ Kill(t) \/ JoinLock(t) \/ JoinTest(t)
          \/ JoinWait(t) \/ PthreadJoin(t) \/ MarkJoined(t) \/ Wake(t)
          \/ Start(t) \/ Terminate(t) \/ JoinOnly(t) \/ SpuriousWakeup(t)
    BY <1>2, NextSplit
  <2>1. CASE OnceLock(t)
    BY <2>1 DEF TypeOK, Pcs, OwnerPcs, SignalInv, OnceLock, Goto, threadVars, signalVars, ownerVars
  <2>2. CASE OnceRecord(t)
    BY <2>2 DEF TypeOK, Pcs, OwnerPcs, SignalInv, OnceRecord, Goto, threadVars, signalVars, ownerVars
  <2>3. CASE OnceKnown(t)
    BY <2>3 DEF TypeOK, Pcs, OwnerPcs, SignalInv, OnceKnown, Goto, threadVars, signalVars, ownerVars
  <2>4. CASE Loop(t)
    BY <2>4 DEF TypeOK, Pcs, OwnerPcs, SignalInv, Loop, Goto, threadVars, signalVars, ownerVars
  <2>5. CASE Block(t)
    BY <2>5 DEF TypeOK, Pcs, OwnerPcs, SignalInv, Block, Goto, threadVars, signalVars, ownerVars
  <2>6. CASE PollReturns(t)
    BY <2>6 DEF TypeOK, Pcs, OwnerPcs, SignalInv, PollReturns, Goto, threadVars, signalVars, ownerVars
  <2>7. CASE PointLock(t)
    BY <2>7 DEF TypeOK, Pcs, OwnerPcs, SignalInv, PointLock, Goto, threadVars, signalVars, ownerVars
  <2>8. CASE PointTest(t)
    BY <2>8 DEF TypeOK, Pcs, OwnerPcs, SignalInv, PointTest, Goto, threadVars, signalVars, ownerVars
  <2>9. CASE ExitLock(t)
    BY <2>9 DEF TypeOK, Pcs, OwnerPcs, SignalInv, ExitLock, Goto, threadVars, signalVars, ownerVars
  <2>10. CASE ClearTLS(t)
    BY <2>10 DEF TypeOK, Pcs, OwnerPcs, SignalInv, ClearTLS, Goto, threadVars, signalVars, ownerVars
  <2>11. CASE SetDone(t)
    BY <2>11 DEF TypeOK, Pcs, OwnerPcs, SignalInv, SetDone, Goto, threadVars, signalVars, ownerVars
  <2>12. CASE Notify(t)
    BY <2>12 DEF TypeOK, Pcs, OwnerPcs, SignalInv, Notify, Goto, threadVars, signalVars, ownerVars
  <2>13. CASE Deliver(t)
    BY <2>13 DEF TypeOK, Pcs, OwnerPcs, SignalInv, Deliver, threadVars, signalVars, ownerVars
  <2>14. CASE HandlerOnce(t)
    BY <2>14 DEF TypeOK, Pcs, OwnerPcs, SignalInv, HandlerOnce, threadVars, signalVars, ownerVars, TLSIsNull
  <2>15. CASE HandlerLoses(t)
    BY <2>15 DEF TypeOK, Pcs, OwnerPcs, SignalInv, HandlerLoses, threadVars, signalVars, ownerVars, TLSIsNull
  <2>16. CASE HandlerRequests(t)
    BY <2>16 DEF TypeOK, Pcs, OwnerPcs, SignalInv, HandlerRequests, threadVars, signalVars, ownerVars, TLSIsNull
  <2>17. CASE GetHandle(t)
    BY <2>17 DEF TypeOK, Pcs, OwnerPcs, SignalInv, GetHandle, OwnerGoto, threadVars, signalVars, ownerVars
  <2>18. CASE Kill(t)
    BY <2>18 DEF TypeOK, Pcs, OwnerPcs, SignalInv, Kill, OwnerGoto, threadVars, signalVars, ownerVars
  <2>19. CASE JoinLock(t)
    BY <2>19 DEF TypeOK, Pcs, OwnerPcs, SignalInv, JoinLock, OwnerGoto, threadVars, signalVars, ownerVars
  <2>20. CASE JoinTest(t)
    BY <2>20 DEF TypeOK, Pcs, OwnerPcs, SignalInv, JoinTest, OwnerGoto, threadVars, signalVars, ownerVars
  <2>21. CASE JoinWait(t)
    BY <2>21 DEF TypeOK, Pcs, OwnerPcs, SignalInv, JoinWait, OwnerGoto, threadVars, signalVars, ownerVars
  <2>22. CASE PthreadJoin(t)
    BY <2>22 DEF TypeOK, Pcs, OwnerPcs, SignalInv, PthreadJoin, OwnerGoto, threadVars, signalVars, ownerVars
  <2>23. CASE MarkJoined(t)
    BY <2>23 DEF TypeOK, Pcs, OwnerPcs, SignalInv, MarkJoined, OwnerGoto, threadVars, signalVars, ownerVars
  <2>24. CASE Wake(t)
    BY <2>24 DEF TypeOK, Pcs, OwnerPcs, SignalInv, Wake, Goto, threadVars, signalVars, ownerVars
  <2>25. CASE Start(t)
    BY <2>25 DEF TypeOK, Pcs, OwnerPcs, SignalInv, Start, OwnerGoto, threadVars, signalVars, ownerVars
  <2>26. CASE Terminate(t)
    BY <2>26 DEF TypeOK, Pcs, OwnerPcs, SignalInv, Terminate, OwnerGoto, threadVars, signalVars, ownerVars
  <2>27. CASE JoinOnly(t)
    BY <2>27 DEF TypeOK, Pcs, OwnerPcs, SignalInv, JoinOnly, OwnerGoto, threadVars, signalVars, ownerVars
  <2>28. CASE SpuriousWakeup(t)
    BY <2>28 DEF TypeOK, Pcs, OwnerPcs, SignalInv, SpuriousWakeup, OwnerGoto, threadVars, signalVars, ownerVars
  <2> QED
    BY <2>0, <2>1, <2>2, <2>3, <2>4, <2>5, <2>6, <2>7, <2>8, <2>9, <2>10, <2>11, <2>12, <2>13, <2>14, <2>15, <2>16, <2>17, <2>18, <2>19, <2>20, <2>21, <2>22, <2>23, <2>24, <2>25, <2>26, <2>27, <2>28
<1> QED
  BY <1>1, <1>2, NextSplit

\* No interrupt is lost to a thread that blocks.
LEMMA InterruptStep ==
  ASSUME TypeOK, SignalInv, InterruptNotLost, [Next]_vars
  PROVE  InterruptNotLost'
<1>1. CASE UNCHANGED vars
  BY <1>1 DEF TypeOK, Pcs, OwnerPcs, SignalInv, InterruptNotLost, vars, threadVars, signalVars, ownerVars
<1>2. CASE ~UNCHANGED vars
  <2>0. PICK t \in Threads :
          \/ OnceLock(t) \/ OnceRecord(t) \/ OnceKnown(t) \/ Loop(t)
          \/ Block(t) \/ PollReturns(t) \/ PointLock(t) \/ PointTest(t)
          \/ ExitLock(t) \/ ClearTLS(t) \/ SetDone(t) \/ Notify(t)
          \/ Deliver(t) \/ HandlerOnce(t) \/ HandlerLoses(t) \/ HandlerRequests(t)
          \/ GetHandle(t) \/ Kill(t) \/ JoinLock(t) \/ JoinTest(t)
          \/ JoinWait(t) \/ PthreadJoin(t) \/ MarkJoined(t) \/ Wake(t)
          \/ Start(t) \/ Terminate(t) \/ JoinOnly(t) \/ SpuriousWakeup(t)
    BY <1>2, NextSplit
  <2>1. CASE OnceLock(t)
    BY <2>1 DEF TypeOK, Pcs, OwnerPcs, SignalInv, InterruptNotLost, OnceLock, Goto, threadVars, signalVars, ownerVars
  <2>2. CASE OnceRecord(t)
    BY <2>2 DEF TypeOK, Pcs, OwnerPcs, SignalInv, InterruptNotLost, OnceRecord, Goto, threadVars, signalVars, ownerVars
  <2>3. CASE OnceKnown(t)
    BY <2>3 DEF TypeOK, Pcs, OwnerPcs, SignalInv, InterruptNotLost, OnceKnown, Goto, threadVars, signalVars, ownerVars
  <2>4. CASE Loop(t)
    BY <2>4 DEF TypeOK, Pcs, OwnerPcs, SignalInv, InterruptNotLost, Loop, Goto, threadVars, signalVars, ownerVars
  <2>5. CASE Block(t)
    BY <2>5 DEF TypeOK, Pcs, OwnerPcs, SignalInv, InterruptNotLost, Block, Goto, threadVars, signalVars, ownerVars
  <2>6. CASE PollReturns(t)
    BY <2>6 DEF TypeOK, Pcs, OwnerPcs, SignalInv, InterruptNotLost, PollReturns, Goto, threadVars, signalVars, ownerVars
  <2>7. CASE PointLock(t)
    BY <2>7 DEF TypeOK, Pcs, OwnerPcs, SignalInv, InterruptNotLost, PointLock, Goto, threadVars, signalVars, ownerVars
  <2>8. CASE PointTest(t)
    BY <2>8 DEF TypeOK, Pcs, OwnerPcs, SignalInv, InterruptNotLost, PointTest, Goto, threadVars, signalVars, ownerVars
  <2>9. CASE ExitLock(t)
    BY <2>9 DEF TypeOK, Pcs, OwnerPcs, SignalInv, InterruptNotLost, ExitLock, Goto, threadVars, signalVars, ownerVars
  <2>10. CASE ClearTLS(t)
    BY <2>10 DEF TypeOK, Pcs, OwnerPcs, SignalInv, InterruptNotLost, ClearTLS, Goto, threadVars, signalVars, ownerVars
  <2>11. CASE SetDone(t)
    BY <2>11 DEF TypeOK, Pcs, OwnerPcs, SignalInv, InterruptNotLost, SetDone, Goto, threadVars, signalVars, ownerVars
  <2>12. CASE Notify(t)
    BY <2>12 DEF TypeOK, Pcs, OwnerPcs, SignalInv, InterruptNotLost, Notify, Goto, threadVars, signalVars, ownerVars
  <2>13. CASE Deliver(t)
    BY <2>13 DEF TypeOK, Pcs, OwnerPcs, SignalInv, InterruptNotLost, Deliver, threadVars, signalVars, ownerVars
  <2>14. CASE HandlerOnce(t)
    BY <2>14 DEF TypeOK, Pcs, OwnerPcs, SignalInv, InterruptNotLost, HandlerOnce, threadVars, signalVars, ownerVars, TLSIsNull
  <2>15. CASE HandlerLoses(t)
    BY <2>15 DEF TypeOK, Pcs, OwnerPcs, SignalInv, InterruptNotLost, HandlerLoses, threadVars, signalVars, ownerVars, TLSIsNull
  <2>16. CASE HandlerRequests(t)
    BY <2>16 DEF TypeOK, Pcs, OwnerPcs, SignalInv, InterruptNotLost, HandlerRequests, threadVars, signalVars, ownerVars, TLSIsNull
  <2>17. CASE GetHandle(t)
    BY <2>17 DEF TypeOK, Pcs, OwnerPcs, SignalInv, InterruptNotLost, GetHandle, OwnerGoto, threadVars, signalVars, ownerVars
  <2>18. CASE Kill(t)
    BY <2>18 DEF TypeOK, Pcs, OwnerPcs, SignalInv, InterruptNotLost, Kill, OwnerGoto, threadVars, signalVars, ownerVars
  <2>19. CASE JoinLock(t)
    BY <2>19 DEF TypeOK, Pcs, OwnerPcs, SignalInv, InterruptNotLost, JoinLock, OwnerGoto, threadVars, signalVars, ownerVars
  <2>20. CASE JoinTest(t)
    BY <2>20 DEF TypeOK, Pcs, OwnerPcs, SignalInv, InterruptNotLost, JoinTest, OwnerGoto, threadVars, signalVars, ownerVars
  <2>21. CASE JoinWait(t)
    BY <2>21 DEF TypeOK, Pcs, OwnerPcs, SignalInv, InterruptNotLost, JoinWait, OwnerGoto, threadVars, signalVars, ownerVars
  <2>22. CASE PthreadJoin(t)
    BY <2>22 DEF TypeOK, Pcs, OwnerPcs, SignalInv, InterruptNotLost, PthreadJoin, OwnerGoto, threadVars, signalVars, ownerVars
  <2>23. CASE MarkJoined(t)
    BY <2>23 DEF TypeOK, Pcs, OwnerPcs, SignalInv, InterruptNotLost, MarkJoined, OwnerGoto, threadVars, signalVars, ownerVars
  <2>24. CASE Wake(t)
    BY <2>24 DEF TypeOK, Pcs, OwnerPcs, SignalInv, InterruptNotLost, Wake, Goto, threadVars, signalVars, ownerVars
  <2>25. CASE Start(t)
    BY <2>25 DEF TypeOK, Pcs, OwnerPcs, SignalInv, InterruptNotLost, Start, OwnerGoto, threadVars, signalVars, ownerVars
  <2>26. CASE Terminate(t)
    BY <2>26 DEF TypeOK, Pcs, OwnerPcs, SignalInv, InterruptNotLost, Terminate, OwnerGoto, threadVars, signalVars, ownerVars
  <2>27. CASE JoinOnly(t)
    BY <2>27 DEF TypeOK, Pcs, OwnerPcs, SignalInv, InterruptNotLost, JoinOnly, OwnerGoto, threadVars, signalVars, ownerVars
  <2>28. CASE SpuriousWakeup(t)
    BY <2>28 DEF TypeOK, Pcs, OwnerPcs, SignalInv, InterruptNotLost, SpuriousWakeup, OwnerGoto, threadVars, signalVars, ownerVars
  <2> QED
    BY <2>0, <2>1, <2>2, <2>3, <2>4, <2>5, <2>6, <2>7, <2>8, <2>9, <2>10, <2>11, <2>12, <2>13, <2>14, <2>15, <2>16, <2>17, <2>18, <2>19, <2>20, <2>21, <2>22, <2>23, <2>24, <2>25, <2>26, <2>27, <2>28
<1> QED
  BY <1>1, <1>2, NextSplit

-----------------------------------------------------------------------------
\* The inductive invariant of ThreadLife.
THEOREM Invariance == Spec => []IInv
<1>1. Init => IInv
  BY ThreadLifeAssumption
  DEF Init, IInv, TypeOK, Pcs, OwnerPcs, StartInv, WaitInv, NoLostNotify, SignalInv, InterruptNotLost
<1>2. IInv /\ [Next]_vars => IInv'
  BY StartStep, TypeStep, NotifyStep, SignalStep, InterruptStep DEF IInv
<1> QED
  BY <1>1, <1>2, PTL DEF Spec

\* The types, and that each mutex is locked exactly in its sections.
THEOREM TypeCorrect == Spec => []TypeOK
  BY Invariance, PTL DEF IInv

\* The owner does not sleep in Join through the end of the thread.
THEOREM NoLostNotification == Spec => []NoLostNotify
  BY Invariance, PTL DEF IInv

\* A thread that is to block after a signal has its request.
THEOREM NoLostInterrupt == Spec => []InterruptNotLost
  BY Invariance, PTL DEF IInv

-----------------------------------------------------------------------------
(* The refinement of Joinable *)

\* A thread gets one signal, and its handler runs after it.
OneSignalInv ==
  \A t \in Threads :
    /\ owner[t] \in {"new", "live", "interrupt", "kill"} => t \notin sent \cup delivered
    /\ t \in sent => t \notin delivered
    /\ handler[t] # "none" => t \in delivered
    /\ pc[t] = "none" => t \notin sent \cup delivered

\* pthread_join has returned, so the thread has ended.
JoinedInv == \A t \in Threads : owner[t] \in {"mark", "gone"} => pc[t] = "done"

LEMMA OneSignalStep ==
  ASSUME TypeOK, StartInv, OneSignalInv, [Next]_vars
  PROVE  OneSignalInv'
<1>1. CASE UNCHANGED vars
  BY <1>1 DEF TypeOK, OneSignalInv, vars, threadVars, signalVars, ownerVars
<1>2. ASSUME NEW t \in Threads, ThreadStep(t) PROVE OneSignalInv'
  BY <1>2 DEF TypeOK, Pcs, OwnerPcs, OneSignalInv, ThreadStep, OnceLock, OnceRecord, OnceKnown,
              Loop, Block, PollReturns, PointLock, PointTest, ExitLock, ClearTLS,
              SetDone, Notify, Goto, threadVars, signalVars, ownerVars
<1>3. ASSUME NEW t \in Threads, HandlerStep(t) PROVE OneSignalInv'
  BY <1>3 DEF TypeOK, Pcs, OwnerPcs, OneSignalInv, HandlerStep, Deliver, HandlerOnce,
              HandlerLoses, HandlerRequests, TLSIsNull, threadVars, signalVars, ownerVars
<1>4. ASSUME NEW t \in Threads, OwnerStep(t) PROVE OneSignalInv'
  BY <1>4 DEF TypeOK, Pcs, OwnerPcs, OneSignalInv, OwnerStep, GetHandle, Kill, JoinLock,
              JoinTest, JoinWait, PthreadJoin, MarkJoined, OwnerGoto,
              threadVars, signalVars, ownerVars
<1>5. ASSUME NEW t \in Threads, OtherStep(t) PROVE OneSignalInv'
  BY <1>5 DEF TypeOK, Pcs, OwnerPcs, StartInv, OneSignalInv, OtherStep, Wake, Start, Terminate,
              JoinOnly, SpuriousWakeup, Goto, OwnerGoto, threadVars, signalVars, ownerVars
<1> QED
  BY <1>1, <1>2, <1>3, <1>4, <1>5 DEF Next

LEMMA JoinedStep ==
  ASSUME TypeOK, StartInv, JoinedInv, [Next]_vars
  PROVE  JoinedInv'
<1>1. CASE UNCHANGED vars
  BY <1>1 DEF TypeOK, JoinedInv, vars, threadVars, signalVars, ownerVars
<1>2. ASSUME NEW t \in Threads, ThreadStep(t) PROVE JoinedInv'
  BY <1>2 DEF TypeOK, Pcs, OwnerPcs, JoinedInv, ThreadStep, OnceLock, OnceRecord, OnceKnown,
              Loop, Block, PollReturns, PointLock, PointTest, ExitLock, ClearTLS,
              SetDone, Notify, Goto, threadVars, signalVars, ownerVars
<1>3. ASSUME NEW t \in Threads, HandlerStep(t) PROVE JoinedInv'
  BY <1>3 DEF TypeOK, Pcs, OwnerPcs, JoinedInv, HandlerStep, Deliver, HandlerOnce,
              HandlerLoses, HandlerRequests, TLSIsNull, threadVars, signalVars, ownerVars
<1>4. ASSUME NEW t \in Threads, OwnerStep(t) PROVE JoinedInv'
  BY <1>4 DEF TypeOK, Pcs, OwnerPcs, JoinedInv, OwnerStep, GetHandle, Kill, JoinLock,
              JoinTest, JoinWait, PthreadJoin, MarkJoined, OwnerGoto,
              threadVars, signalVars, ownerVars
<1>5. ASSUME NEW t \in Threads, OtherStep(t) PROVE JoinedInv'
  BY <1>5 DEF TypeOK, Pcs, OwnerPcs, StartInv, JoinedInv, OtherStep, Wake, Start, Terminate,
              JoinOnly, SpuriousWakeup, Goto, OwnerGoto, threadVars, signalVars, ownerVars
<1> QED
  BY <1>1, <1>2, <1>3, <1>4, <1>5 DEF Next

\* What Joinable asks of a step for one thread.
JoinableStep(t) ==
  \/ Promise!Start(t) \/ Promise!Block(t) \/ Promise!Unblock(t) \/ Promise!End(t)
  \/ Promise!Interrupt(t) \/ Promise!Release(t) \/ Promise!Idle(t)

\* A thread whose place, signal and owner stay what they were stays idle.
LEMMA IdleStays ==
  ASSUME NEW t \in Threads,
         pc'[t] = pc[t], (Signalled(t))' <=> Signalled(t),
         owner'[t] = "gone" <=> owner[t] = "gone"
  PROVE  JoinableStep(t)
<1>1. Life'[t] = Life[t] /\ Calls'[t] = Calls[t]
  BY DEF Life, Calls
<1> QED
  BY <1>1 DEF JoinableStep, Promise!Idle, Promise!Same

\* The thread itself: it counts its blocking calls down after the signal.
LEMMA ThreadMaps ==
  ASSUME IInv, OneSignalInv, JoinedInv, NEW t \in Threads, ThreadStep(t)
  PROVE  JoinableStep(t)
<1> USE DEF Signalled, TypeOK, Goto, signalVars, ownerVars, threadVars, Pcs
<1>1. CASE \/ OnceLock(t) \/ OnceRecord(t) \/ OnceKnown(t) \/ Loop(t)
           \/ PointLock(t) \/ PointTest(t) \/ ExitLock(t) \/ ClearTLS(t) \/ SetDone(t)
  <2>1. /\ Life'[t] = Life[t] /\ Calls'[t] = Calls[t]
        /\ owner' = owner
    BY <1>1 DEF IInv, Life, Calls, InterruptNotLost, SignalInv,
       OnceLock, OnceRecord, OnceKnown, Loop, PointLock, PointTest, ExitLock, ClearTLS, SetDone
  <2> QED
    BY <2>1 DEF JoinableStep, Promise!Idle, Promise!Same
<1>2. CASE Block(t)
  <2>1. /\ Life[t] = "running" /\ Life'[t] = "blocked" /\ owner' = owner
        /\ Calls[t] # "none" /\ Calls'[t] = IF Calls[t] = "one" THEN "none" ELSE Calls[t]
    BY <1>2 DEF IInv, Life, Calls, Block
  <2> QED
    BY <2>1 DEF JoinableStep, Promise!Block, Promise!Live
<1>3. CASE PollReturns(t)
  <2>1. /\ Life[t] = "blocked" /\ Life'[t] = "running" /\ owner' = owner
        /\ Calls'[t] = Calls[t]
    BY <1>3 DEF IInv, Life, Calls, PollReturns
  <2> QED
    BY <2>1 DEF JoinableStep, Promise!Unblock, Promise!Live, Promise!Same
<1>4. CASE Notify(t)
  <2>1. /\ Life[t] = "running" /\ Life'[t] = "ended" /\ Calls'[t] = "none"
        /\ owner'[t] = "gone" <=> owner[t] = "gone"
    BY <1>4 DEF IInv, Life, Calls, Notify
  <2> QED
    BY <2>1 DEF JoinableStep, Promise!End, Promise!Live
<1> QED
  BY <1>1, <1>2, <1>3, <1>4 DEF ThreadStep

\* The signal handler: only its return is an interrupt.
LEMMA HandlerMaps ==
  ASSUME IInv, OneSignalInv, JoinedInv, NEW t \in Threads, HandlerStep(t)
  PROVE  JoinableStep(t)
<1> USE DEF Signalled, TypeOK, ownerVars, threadVars, Pcs
<1>1. CASE Deliver(t) \/ HandlerOnce(t)
  <2>1. ~Signalled(t) /\ (~Signalled(t))' /\ pc' = pc /\ owner' = owner
    BY <1>1 DEF IInv, OneSignalInv, Deliver, HandlerOnce
  <2> QED
    BY <2>1, IdleStays
<1>2. CASE HandlerLoses(t) \/ HandlerRequests(t)
  <2>1. ~Signalled(t) /\ Signalled(t)' /\ owner' = owner
        /\ pc'[t] = IF pc[t] \in {"poll", "asleep"} THEN "returned" ELSE pc[t]
    BY <1>2 DEF IInv, OneSignalInv, HandlerLoses, HandlerRequests, TLSIsNull
  <2>2. CASE pc[t] = "done"
    <3>1. Life'[t] = Life[t] /\ Calls'[t] = Calls[t]
      BY <2>1, <2>2 DEF Life, Calls
    <3> QED
      BY <2>1, <3>1 DEF JoinableStep, Promise!Idle, Promise!Same
  <2>3. CASE pc[t] \in {"poll", "asleep"}
    <3>1. /\ Life[t] = "blocked" /\ Life'[t] = "running"
          /\ Calls[t] = "any" /\ Calls'[t] = "none"
      BY <2>1, <2>3 DEF Life, Calls
    <3> QED
      BY <2>1, <3>1 DEF JoinableStep, Promise!Interrupt, Promise!Live
  <2>4. CASE pc[t] \notin {"done", "poll", "asleep"}
    <3>0. pc[t] # "none"
      BY <1>2 DEF IInv, OneSignalInv, HandlerLoses, HandlerRequests
    <3>1. /\ Life[t] = "running" /\ Life'[t] = "running"
          /\ Calls[t] = "any" /\ Calls'[t] \in {"one", "none"}
      BY <2>1, <2>4, <3>0 DEF Life, Calls
    <3> QED
      BY <2>1, <3>1 DEF JoinableStep, Promise!Interrupt, Promise!Live
  <2> QED
    BY <2>2, <2>3, <2>4
<1> QED
  BY <1>1, <1>2 DEF HandlerStep

\* The owner: only the end of its Join is seen.
LEMMA OwnerMaps ==
  ASSUME IInv, OneSignalInv, JoinedInv, NEW t \in Threads, OwnerStep(t)
  PROVE  JoinableStep(t)
<1> USE DEF Signalled, TypeOK, OwnerGoto, signalVars, threadVars, OwnerPcs
<1>1. CASE MarkJoined(t)
  <2>1. Life[t] = "ended" /\ Life'[t] = "ended" /\ Calls'[t] = Calls[t]
    BY <1>1 DEF IInv, JoinedInv, MarkJoined, Life, Calls
  <2>2. owner[t] # "gone" /\ owner'[t] = "gone"
    BY <1>1 DEF IInv, MarkJoined
  <2> QED
    BY <2>1, <2>2 DEF JoinableStep, Promise!Release, Promise!Live
<1>2. CASE \/ GetHandle(t) \/ Kill(t) \/ JoinLock(t) \/ JoinTest(t) \/ JoinWait(t)
           \/ PthreadJoin(t)
  <2>1. /\ pc' = pc /\ (Signalled(t)' <=> Signalled(t))
        /\ owner'[t] = "gone" <=> owner[t] = "gone"
    BY <1>2 DEF IInv, GetHandle, Kill, JoinLock, JoinTest, JoinWait, PthreadJoin
  <2> QED
    BY <2>1, IdleStays
<1> QED
  BY <1>1, <1>2 DEF OwnerStep

\* The start, a post, and what the owner does of itself.
LEMMA OtherMaps ==
  ASSUME IInv, OneSignalInv, JoinedInv, NEW t \in Threads, OtherStep(t)
  PROVE  JoinableStep(t)
<1> USE DEF Signalled, TypeOK, Goto, OwnerGoto, signalVars, ownerVars, threadVars,
            Pcs, OwnerPcs
<1>1. CASE Wake(t)
  <2>1. /\ Life[t] = "blocked" /\ Life'[t] = "running" /\ owner' = owner
        /\ Calls'[t] = Calls[t]
    BY <1>1 DEF IInv, Life, Calls, Wake
  <2> QED
    BY <2>1 DEF JoinableStep, Promise!Unblock, Promise!Live, Promise!Same
<1>2. CASE Start(t)
  <2>1. /\ Life[t] = "new" /\ Life'[t] = "running" /\ Calls'[t] = Calls[t]
        /\ owner[t] # "gone" /\ owner'[t] # "gone"
    BY <1>2 DEF IInv, StartInv, OneSignalInv, Life, Calls, Start
  <2> QED
    BY <2>1 DEF JoinableStep, Promise!Start, Promise!Live, Promise!Same
<1>3. CASE Terminate(t) \/ JoinOnly(t) \/ SpuriousWakeup(t)
  <2>1. /\ pc' = pc /\ (Signalled(t)' <=> Signalled(t))
        /\ owner'[t] = "gone" <=> owner[t] = "gone"
    BY <1>3 DEF IInv, Terminate, JoinOnly, SpuriousWakeup
  <2> QED
    BY <2>1, IdleStays
<1> QED
  BY <1>1, <1>2, <1>3 DEF OtherStep

\* The other threads are not touched.
LEMMA OthersIdle ==
  ASSUME TypeOK, NEW t \in Threads, NEW s \in Threads, s # t,
         ThreadStep(t) \/ HandlerStep(t) \/ OwnerStep(t) \/ OtherStep(t)
  PROVE  JoinableStep(s)
<1>1. /\ pc'[s] = pc[s] /\ (Signalled(s)' <=> Signalled(s))
      /\ owner'[s] = "gone" <=> owner[s] = "gone"
  <2> USE DEF Signalled, TypeOK, Goto, OwnerGoto, signalVars, ownerVars, threadVars
  <2>1. CASE ThreadStep(t)
    BY <2>1 DEF ThreadStep, OnceLock, OnceRecord, OnceKnown, Loop, Block, PollReturns,
                PointLock, PointTest, ExitLock, ClearTLS, SetDone, Notify
  <2>2. CASE HandlerStep(t)
    BY <2>2 DEF HandlerStep, Deliver, HandlerOnce, HandlerLoses, HandlerRequests, TLSIsNull
  <2>3. CASE OwnerStep(t)
    BY <2>3 DEF OwnerStep, GetHandle, Kill, JoinLock, JoinTest, JoinWait, PthreadJoin,
                MarkJoined
  <2>4. CASE OtherStep(t)
    BY <2>4 DEF OtherStep, Wake, Start, Terminate, JoinOnly, SpuriousWakeup
  <2> QED
    BY <2>1, <2>2, <2>3, <2>4
<1> QED
  BY <1>1, IdleStays

LEMMA PromiseInit ==
  ASSUME Init
  PROVE  Promise!Init
<1>1. Life = [t \in Threads |-> "new"] /\ Calls = [t \in Threads |-> "any"]
  BY DEF Init, Life, Calls, Signalled
<1>2. {t \in Threads : owner[t] = "gone"} = {}
  BY DEF Init
<1> QED
  BY <1>1, <1>2 DEF Promise!Init

LEMMA PromiseStep ==
  ASSUME IInv, OneSignalInv, JoinedInv, [Next]_vars
  PROVE  [Promise!Next]_(Promise!vars)
<1>1. CASE UNCHANGED vars
  BY <1>1 DEF Promise!vars, Life, Calls, Signalled, vars, threadVars, signalVars, ownerVars
<1>2. CASE Next
  <2>1. PICK t \in Threads : ThreadStep(t) \/ HandlerStep(t) \/ OwnerStep(t) \/ OtherStep(t)
    BY <1>2 DEF Next
  <2>2. JoinableStep(t)
    BY <2>1, ThreadMaps, HandlerMaps, OwnerMaps, OtherMaps
  <2>3. \A s \in Threads : JoinableStep(s)
    BY <2>1, <2>2, OthersIdle DEF IInv
  <2>4. /\ Life' \in [Threads -> {"new", "running", "blocked", "ended"}]
        /\ Calls' \in [Threads -> {"any", "one", "none"}]
    BY DEF Life, Calls
  <2> QED
    BY <2>3, <2>4 DEF Promise!Next, JoinableStep
<1> QED
  BY <1>1, <1>2

\* A Thread and its signal implement Joinable.
THEOREM Refinement == Spec => JoinableSpec
<1>1. Init => OneSignalInv /\ JoinedInv
  BY DEF Init, OneSignalInv, JoinedInv
<1>2. IInv /\ OneSignalInv /\ JoinedInv /\ [Next]_vars => (OneSignalInv /\ JoinedInv)'
  BY OneSignalStep, JoinedStep DEF IInv
<1>3. Init => Promise!Init
  BY PromiseInit
<1>4. IInv /\ OneSignalInv /\ JoinedInv /\ [Next]_vars => [Promise!Next]_(Promise!vars)
  BY PromiseStep
<1> QED
  BY <1>1, <1>2, <1>3, <1>4, Invariance, PTL DEF Spec, JoinableSpec, Promise!Spec

-----------------------------------------------------------------------------
(* A destructor is not stuck *)

\* Done is the end of ThreadProxy, and pthread_join comes after it.
DoneInv ==
  \A t \in Threads :
    /\ t \in Done <=> pc[t] \in {"set", "done"}
    /\ owner[t] = "pjoin" => t \in Done

\* Behind Interrupt there is a signal, on the way or delivered.
KilledInv ==
  \A t \in terminated :
    /\ owner[t] \notin {"new", "live"}
    /\ owner[t] \notin {"interrupt", "kill", "crashed"} => t \in sent \cup delivered

LEMMA DoneStep ==
  ASSUME TypeOK, StartInv, DoneInv, [Next]_vars
  PROVE  DoneInv'
<1>1. CASE UNCHANGED vars
  BY <1>1 DEF TypeOK, DoneInv, vars, threadVars, signalVars, ownerVars
<1>2. ASSUME NEW t \in Threads, ThreadStep(t) PROVE DoneInv'
  BY <1>2 DEF TypeOK, Pcs, OwnerPcs, DoneInv, ThreadStep, OnceLock, OnceRecord, OnceKnown,
              Loop, Block, PollReturns, PointLock, PointTest, ExitLock, ClearTLS,
              SetDone, Notify, Goto, threadVars, signalVars, ownerVars
<1>3. ASSUME NEW t \in Threads, HandlerStep(t) PROVE DoneInv'
  BY <1>3 DEF TypeOK, Pcs, OwnerPcs, DoneInv, HandlerStep, Deliver, HandlerOnce,
              HandlerLoses, HandlerRequests, TLSIsNull, threadVars, signalVars, ownerVars
<1>4. ASSUME NEW t \in Threads, OwnerStep(t) PROVE DoneInv'
  BY <1>4 DEF TypeOK, Pcs, OwnerPcs, DoneInv, OwnerStep, GetHandle, Kill, JoinLock,
              JoinTest, JoinWait, PthreadJoin, MarkJoined, OwnerGoto,
              threadVars, signalVars, ownerVars
<1>5. ASSUME NEW t \in Threads, OtherStep(t) PROVE DoneInv'
  BY <1>5 DEF TypeOK, Pcs, OwnerPcs, StartInv, DoneInv, OtherStep, Wake, Start, Terminate,
              JoinOnly, SpuriousWakeup, Goto, OwnerGoto, threadVars, signalVars, ownerVars
<1> QED
  BY <1>1, <1>2, <1>3, <1>4, <1>5 DEF Next

LEMMA KilledStep ==
  ASSUME TypeOK, KilledInv, [Next]_vars
  PROVE  KilledInv'
<1>1. CASE UNCHANGED vars
  BY <1>1 DEF TypeOK, KilledInv, vars, threadVars, signalVars, ownerVars
<1>2. ASSUME NEW t \in Threads, ThreadStep(t) PROVE KilledInv'
  BY <1>2 DEF TypeOK, Pcs, OwnerPcs, KilledInv, ThreadStep, OnceLock, OnceRecord, OnceKnown,
              Loop, Block, PollReturns, PointLock, PointTest, ExitLock, ClearTLS,
              SetDone, Notify, Goto, threadVars, signalVars, ownerVars
<1>3. ASSUME NEW t \in Threads, HandlerStep(t) PROVE KilledInv'
  BY <1>3 DEF TypeOK, Pcs, OwnerPcs, KilledInv, HandlerStep, Deliver, HandlerOnce,
              HandlerLoses, HandlerRequests, TLSIsNull, threadVars, signalVars, ownerVars
<1>4. ASSUME NEW t \in Threads, OwnerStep(t) PROVE KilledInv'
  BY <1>4 DEF TypeOK, Pcs, OwnerPcs, KilledInv, OwnerStep, GetHandle, Kill, JoinLock,
              JoinTest, JoinWait, PthreadJoin, MarkJoined, OwnerGoto,
              threadVars, signalVars, ownerVars
<1>5. ASSUME NEW t \in Threads, OtherStep(t) PROVE KilledInv'
  BY <1>5 DEF TypeOK, Pcs, OwnerPcs, KilledInv, OtherStep, Wake, Start, Terminate,
              JoinOnly, SpuriousWakeup, Goto, OwnerGoto, threadVars, signalVars, ownerVars
<1> QED
  BY <1>1, <1>2, <1>3, <1>4, <1>5 DEF Next

\* The thread that holds OnceEpochMutex goes on and unlocks it, unless a handler in
\* it waits for that.
LEMMA OnceHolder ==
  ASSUME TypeOK, onceMutex # NoThread, ~OnceLocked
  PROVE  \E s \in Threads : onceMutex = s /\ (ThreadCanGo(s) \/ HandlerCanGo(s))
<1>1. PICK s \in Threads : onceMutex = s
  BY DEF TypeOK
<1>2. pc[s] = "once" /\ handler[s] \in {"none", "data"}
  BY <1>1 DEF TypeOK, OnceLocked
<1> QED
  BY <1>1, <1>2 DEF ThreadCanGo, HandlerCanGo, TLSIsNull

\* A signal handler goes on, or waits for one of the mutexes.
LEMMA HandlerGoes ==
  ASSUME TypeOK, NEW t \in Threads, handler[t] # "none", ~SelfLocked(t), ~OnceLocked,
         dataMutex[t] # "owner"
  PROVE  \/ HandlerCanGo(t)
         \/ \E s \in Threads : onceMutex = s /\ (ThreadCanGo(s) \/ HandlerCanGo(s))
<1>1. CASE handler[t] = "once"
  BY <1>1, OnceHolder DEF HandlerCanGo
<1>2. CASE handler[t] = "data"
  BY <1>2 DEF HandlerCanGo, SelfLocked, TypeOK
<1> QED
  BY <1>1, <1>2 DEF TypeOK

\* A thread on its way to its end goes on.
LEMMA ThreadGoes ==
  ASSUME IInv, KilledInv, OneSignalInv, NEW t \in terminated,
         pc[t] \notin {"none", "done"}, dataMutex[t] # "owner",
         owner[t] \notin {"interrupt", "kill", "crashed"},
         ~Missed(t), ~SelfLocked(t), ~OnceLocked
  PROVE  \/ ThreadCanGo(t) \/ HandlerCanGo(t)
         \/ \E s \in Threads : onceMutex = s /\ (ThreadCanGo(s) \/ HandlerCanGo(s))
<1>0. t \in Threads
  BY DEF IInv, TypeOK
<1>1. CASE handler[t] # "none"
  BY <1>0, <1>1, HandlerGoes DEF IInv
<1>2. CASE handler[t] = "none" /\ pc[t] = "begin"
  BY <1>0, <1>2, OnceHolder DEF IInv, ThreadCanGo
<1>3. CASE handler[t] = "none" /\ pc[t] = "asleep"
  <2>1. t \in sent \cup delivered
    BY <1>0 DEF KilledInv, IInv, TypeOK, OwnerPcs
  <2>2. t \notin delivered
    BY <1>0, <1>3 DEF IInv, InterruptNotLost, Missed
  <2> QED
    BY <1>3, <2>1, <2>2 DEF HandlerCanGo
<1>4. CASE handler[t] = "none" /\ pc[t] \in {"returned", "ended"}
  BY <1>0, <1>4 DEF IInv, TypeOK, ThreadCanGo
<1>5. CASE /\ handler[t] = "none"
           /\ pc[t] \in {"once", "loop", "call", "poll", "point", "exit", "cleared", "set"}
  BY <1>5 DEF ThreadCanGo
<1> QED
  BY <1>0, <1>1, <1>2, <1>3, <1>4, <1>5 DEF IInv, TypeOK, Pcs

\* Nobody waits for ever for a thread that was interrupted, except where it was at a
\* wrong moment.
THEOREM NotStuck == Spec => []JoinNotStuck
<1>1. IInv /\ OneSignalInv /\ DoneInv /\ KilledInv => JoinNotStuck
  <2> SUFFICES ASSUME IInv, OneSignalInv, DoneInv, KilledInv, Alive,
                      NEW t \in Threads, t \in terminated, owner[t] # "gone",
                      ~OwnerCanGo(t), ~Missed(t), ~SelfLocked(t), ~OnceLocked
               PROVE  \/ ThreadCanGo(t) \/ HandlerCanGo(t)
                      \/ \E s \in Threads : onceMutex = s /\ (ThreadCanGo(s) \/ HandlerCanGo(s))
    BY DEF JoinNotStuck
  <2>1. owner[t] \in {"interrupt", "join", "relock", "waiting", "pjoin", "mark"}
    BY DEF IInv, TypeOK, OwnerPcs, KilledInv, Alive, OwnerCanGo
  <2>2. dataMutex[t] # "owner"
    BY <2>1 DEF IInv, TypeOK
  <2>3. CASE owner[t] \in {"interrupt", "join", "relock", "mark"}
    <3>1. dataMutex[t] = "thread" /\ pc[t] \in {"point", "exit", "cleared", "set"}
      BY <2>2, <2>3 DEF IInv, TypeOK, OwnerCanGo
    <3>2. CASE handler[t] = "none"
      BY <3>1, <3>2 DEF ThreadCanGo
    <3>3. CASE handler[t] # "none"
      BY <2>2, <3>3, HandlerGoes DEF IInv
    <3> QED
      BY <3>2, <3>3
  <2>4. CASE owner[t] \in {"waiting", "pjoin"}
    <3>1. pc[t] # "done"
      BY <2>4 DEF IInv, NoLostNotify, DoneInv, OwnerCanGo
    <3>2. pc[t] # "none"
      BY <2>4 DEF KilledInv, OneSignalInv
    <3> QED
      BY <2>2, <2>4, <3>1, <3>2, ThreadGoes
  <2> QED
    BY <2>1, <2>3, <2>4
<1>2. Init => OneSignalInv /\ DoneInv /\ KilledInv
  BY DEF Init, OneSignalInv, DoneInv, KilledInv
<1>3. IInv /\ OneSignalInv /\ DoneInv /\ KilledInv /\ [Next]_vars
        => (OneSignalInv /\ DoneInv /\ KilledInv)'
  BY OneSignalStep, DoneStep, KilledStep DEF IInv
<1> QED
  BY <1>1, <1>2, <1>3, Invariance, PTL DEF Spec

=============================================================================
