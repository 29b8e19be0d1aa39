------------------------- MODULE RecordStreamProofs -------------------------
(***************************************************************************)
(* Proofs about RecordStream, for any set of clients, any block sizes, any *)
(* threshold and any number of blocks.                                     *)
(***************************************************************************)
EXTENDS RecordStream, Recursion, SequenceTheorems, TLAPS

-----------------------------------------------------------------------------
(* Sequences *)

\* The number of blocks, and their sizes.
LEMMA BlocksFacts ==
  ASSUME RecordType
  PROVE  /\ Len(Blocks) \in Nat
         /\ Blocks # <<>> => Len(Blocks) \in Nat \ {0}
         /\ Blocks = <<>> => Len(Blocks) = 0
         /\ \A i \in 1..Len(Blocks) : Blocks[i] \in Nat \ {0}
<1>1. Blocks \in Seq(Sizes)
  BY DEF RecordType
<1>2. \A i \in 1..Len(Blocks) : Blocks[i] \in Sizes
  BY <1>1, ElementOfSeq
<1> QED BY <1>1, <1>2, RecordStreamAssumption, EmptySeq, LenProperties

\* 1, ..., n is extended by n + 1.
LEMMA CountUp ==
  ASSUME NEW n \in Nat, NEW s \in Seq(Nat), Len(s) = n, s = [i \in 1..n |-> i]
  PROVE  /\ s \o <<n + 1>> \in Seq(Nat)
         /\ s \o <<n + 1>> = [i \in 1..(n + 1) |-> i]
         /\ Len(s \o <<n + 1>>) = n + 1
<1> DEFINE t == <<n + 1>>
<1>1. t \in Seq(Nat) /\ Len(t) = 1 /\ t[1] = n + 1
  OBVIOUS
<1>2. /\ s \o t \in Seq(Nat)
      /\ Len(s \o t) = n + 1
      /\ \A i \in 1..(n + 1) : (s \o t)[i] = IF i <= n THEN s[i] ELSE t[i - n]
  BY <1>1, ConcatProperties
<1>3. \A i \in 1..(n + 1) : (s \o t)[i] = i
  <2> SUFFICES ASSUME NEW i \in 1..(n + 1) PROVE (s \o t)[i] = i
    OBVIOUS
  <2>1. CASE i <= n
    BY <1>2, <2>1
  <2>2. CASE i = n + 1
    BY <1>1, <1>2, <2>2
  <2> QED BY <2>1, <2>2
<1>4. s \o t = [i \in 1..(n + 1) |-> (s \o t)[i]]
  BY <1>2, LenProperties
<1> QED BY <1>2, <1>3, <1>4

-----------------------------------------------------------------------------
(* Type correctness *)

LEMMA TypeInit == Init => TypeOK
<1> SUFFICES ASSUME Init PROVE TypeOK
  OBVIOUS
<1>1. PICK waiting \in SUBSET Clients, adding \in SUBSET Clients :
        /\ toNotify = waiting
        /\ clientPc = [c \in Clients |-> IF c \in adding THEN "adding"
                                         ELSE IF c \in waiting THEN "wait" ELSE "new"]
  BY DEF Init
<1>2. RecordType
  <2>1. Blocks = <<>> /\ Final = {} /\ TotalSize = 0 /\ Listeners = {}
    BY DEF Init
  <2>2. IsFinished \in BOOLEAN /\ IsComplete \in BOOLEAN
    BY DEF Init
  <2> QED BY <2>1, <2>2, EmptySeq DEF RecordType
<1>3. ThreadType
  BY <1>1 DEF Init, ThreadType, RemotePcs, ServerPcs
<1>4. ClientType
  <2>1. clientPc \in [Clients -> ClientPcs]
    BY <1>1 DEF Registering, ClientPcs
  <2>2. sent \in [Clients -> Seq(Nat)]
    BY EmptySeq DEF Init
  <2> QED BY <2>1, <2>2 DEF Init, ClientType, Outcomes
<1> QED BY <1>2, <1>3, <1>4 DEF TypeOK

LEMMA RecordTypeStep ==
  ASSUME TypeOK, ControlInv, [Next]_vars
  PROVE  RecordType'
<1> USE DEF TypeOK
<1> USE RecordStreamAssumption, BlocksFacts
<1>1. ASSUME NEW s \in Sizes, ReadBlock(s) PROVE RecordType'
  BY <1>1 DEF ReadBlock, RecordType
<1>2. CASE AddSize
  <2>1. Blocks[Len(Blocks)] \in Nat
    BY <1>2 DEF AddSize, ControlInv
  <2>2. TotalSize' \in Nat
    BY <1>2, <2>1 DEF AddSize, RecordType
  <2> QED BY <1>2, <2>2 DEF AddSize, RecordType
<1>3. CASE EofFinish \/ RemoteFinish \/ ServerFinish
  <2>1. Finish /\ Listeners' = Listeners
    BY <1>3 DEF EofFinish, RemoteFinish, ServerFinish
  <2>2. Final' \subseteq Nat
    BY <2>1 DEF Finish, RecordType
  <2>3. IsFinished' \in BOOLEAN
    BY <2>1 DEF Finish, RecordType
  <2> QED BY <2>1, <2>2, <2>3 DEF Finish, RecordType
<1>4. CASE RemoteSetComplete \/ ServerSetComplete
  <2>1. SetComplete /\ Listeners' = Listeners
    BY <1>4 DEF RemoteSetComplete, ServerSetComplete
  <2> QED BY <2>1 DEF SetComplete, RecordType
<1>5. ASSUME NEW c \in Clients, PutListener(c) \/ AddToRecord(c) \/ Leave(c)
      PROVE  RecordType'
  BY <1>5 DEF PutListener, AddToRecord, Leave, recordVars, RecordType
<1>6. CASE RemoveTimedOut
  BY <1>6 DEF RemoveTimedOut, recordVars, RecordType
<1>7. CASE UNCHANGED <<recordVars, Listeners>>
  BY <1>7 DEF recordVars, RecordType
<1>8. ASSUME NEW c \in Clients,
             \/ NotifyClient(c) \/ ClientFail(c) \/ ConnectFail(c) \/ Register(c)
             \/ UpdateSelf(c) \/ ReleaseSelf(c) \/ Acquire(c) \/ Send(c)
             \/ CheckFinal(c) \/ CheckComplete(c) \/ EnterEndToEnd(c)
             \/ TerminateClient(c)
      PROVE  UNCHANGED <<recordVars, Listeners>>
  BY <1>8 DEF NotifyClient, ClientFail, ConnectFail, Register, UpdateSelf,
              ReleaseSelf, Acquire, Send, CheckFinal, CheckComplete, EnterEndToEnd,
              TerminateClient
<1>9. CASE \/ PutDone \/ NotifyBegin \/ RemoteRelease \/ NotifyEnd \/ RemoteLoop
           \/ ReadEof \/ RemoteFail \/ RemoteTerminate \/ Decide
           \/ ServerTerminate \/ UNCHANGED vars
  <2>1. UNCHANGED <<recordVars, Listeners>>
    BY <1>9 DEF PutDone, NotifyBegin, RemoteRelease, NotifyEnd, RemoteLoop,
                ReadEof, RemoteFail, RemoteTerminate, Decide, ServerTerminate, vars
  <2> QED BY <2>1, <1>7
<1> QED
  BY <1>1, <1>2, <1>3, <1>4, <1>5, <1>7, <1>8, <1>9, <1>6
     DEF Next, RemoteStep, ServerTerminateStep, ClientStep

LEMMA ThreadTypeStep ==
  ASSUME TypeOK, ControlInv, PermitInv, [Next]_vars
  PROVE  ThreadType'
<1> USE DEF TypeOK, ThreadType, RemotePcs, ServerPcs, serverVars
<1>1. ASSUME NEW c \in Clients, NotifyClient(c) PROVE ThreadType'
  <2>1. NewUpdates(c) \in Nat
    BY BlocksFacts, SMTT(30) DEF NewUpdates, PermitInv, ClientType
  <2> QED BY <1>1, <2>1 DEF NotifyClient
<1>2. ASSUME NEW c \in Clients, PutListener(c) PROVE ThreadType'
  BY <1>2 DEF PutListener
<1>3. CASE \/ PutDone \/ AddSize \/ NotifyEnd \/ RemoteLoop \/ ReadEof \/ RemoteFail
           \/ \E s \in Sizes : ReadBlock(s)
  BY <1>3 DEF PutDone, AddSize, NotifyEnd, RemoteLoop, ReadEof, RemoteFail, ReadBlock
<1>4. CASE NotifyBegin \/ RemoteRelease
  BY <1>4 DEF NotifyBegin, RemoteRelease, RecordType
<1>5. CASE EofFinish \/ RemoteTerminate \/ RemoteSetComplete \/ RemoteFinish
  BY <1>5 DEF EofFinish, RemoteTerminate, RemoteSetComplete, RemoteFinish
<1>6. CASE Decide \/ ServerTerminate \/ ServerSetComplete \/ ServerFinish
  BY <1>6 DEF Decide, ServerTerminate, ServerSetComplete, ServerFinish, remoteVars
<1>7. ASSUME NEW c \in Clients,
             \/ AddToRecord(c) \/ UpdateSelf(c) \/ ReleaseSelf(c) \/ Acquire(c)
             \/ Send(c) \/ CheckFinal(c) \/ CheckComplete(c) \/ EnterEndToEnd(c)
             \/ Register(c) \/ ClientFail(c) \/ ConnectFail(c)
      PROVE  UNCHANGED <<remoteVars, serverVars>>
  BY <1>7 DEF AddToRecord, UpdateSelf, ReleaseSelf, Acquire, Send,
              CheckFinal, CheckComplete, EnterEndToEnd, Register,
              ClientFail, ConnectFail
<1>8. ASSUME NEW c \in Clients, Leave(c) \/ TerminateClient(c) PROVE ThreadType'
  BY <1>8 DEF Leave, TerminateClient, remoteVars
<1>9. CASE RemoveTimedOut
  BY <1>9 DEF RemoveTimedOut, remoteVars
<1>10. CASE UNCHANGED <<remoteVars, serverVars>>
  BY <1>10 DEF remoteVars
<1>11. CASE UNCHANGED vars
  BY <1>11, <1>10 DEF vars
<1> QED
  BY <1>1, <1>2, <1>3, <1>4, <1>5, <1>6, <1>7, <1>10, <1>11, <1>8, <1>9
     DEF Next, RemoteStep, ServerTerminateStep, ClientStep

\* The cursor after Send, and that it stays a natural number.
LEMMA SendCursor ==
  ASSUME TypeOK, PermitInv, CursorInv, NEW c \in Clients, Send(c)
  PROVE  /\ CurBlockIdx[c] < Len(Blocks)
         /\ Goto(c, "poll", "checkFinal")
         /\ CurBlockIdx' = [CurBlockIdx EXCEPT ![c] = CurBlockIdx[c] + 1]
         /\ \/ /\ CurBlockPos' = [CurBlockPos EXCEPT ![c] = 0]
               /\ Len(sent'[c]) = CurBlockIdx[c] + 1
            \/ /\ CurBlockIdx[c] + 1 < Len(Blocks)
               /\ CurBlockPos' = [CurBlockPos EXCEPT ![c] = Blocks[CurBlockIdx[c] + 2]]
               /\ Len(sent'[c]) = CurBlockIdx[c] + 2
         /\ \E ext \in Seq(Nat) :
              /\ sent' = [sent EXCEPT ![c] = ext]
              /\ ext = [i \in 1..Len(ext) |-> i]
<1> DEFINE n == CurBlockIdx[c]
           bytesNum == Blocks[n + 1] - CurBlockPos[c]
           concat == n + 1 < Len(Blocks) /\ bytesNum < ConcatThreshold
           written == IF concat THEN bytesNum + Blocks[n + 2] ELSE bytesNum
           cur == IF bytesNum > 0 THEN <<n + 1>> ELSE <<>>
           next == IF concat THEN <<n + 2>> ELSE <<>>
           mid == sent[c] \o cur
           ext == mid \o next
<1>1. n \in Nat /\ CurBlockPos[c] \in Nat /\ sent[c] \in Seq(Nat)
  BY DEF TypeOK, ClientType
<1>2. clientPc[c] = "poll"
  BY DEF Send, Goto
<1>3. n < Len(Blocks)
  <2>1. /\ Semaphore[c] \in Nat /\ UpdatesNum[c] \in Nat /\ remoteUpdates \in Nat
        /\ CacheBlocksNum[c] \in Nat
    BY DEF TypeOK, ClientType, ThreadType
  <2>2. Permits(c) = CacheBlocksNum[c] /\ CacheBlocksNum[c] <= Len(Blocks)
    BY <1>2 DEF PermitInv
  <2>3. Len(Blocks) \in Nat
    BY BlocksFacts DEF TypeOK
  <2> QED BY <1>1, <1>2, <2>1, <2>2, <2>3, SMTT(30) DEF Permits
<1>4. /\ Len(Blocks) \in Nat /\ n + 1 \in 1..Len(Blocks)
      /\ \A i \in 1..Len(Blocks) : Blocks[i] \in Nat \ {0}
  BY <1>1, <1>3, BlocksFacts DEF TypeOK
<1>5. /\ Goto(c, "poll", "checkFinal")
      /\ CurBlockIdx' = [CurBlockIdx EXCEPT ![c] = n + 1]
      /\ CurBlockPos' = [CurBlockPos EXCEPT ![c] = CurBlockPos[c] + written - Blocks[n + 1]]
      /\ sent' = [sent EXCEPT ![c] = ext]
  <2> n + 1 <= Len(Blocks) /\ n + 1 + 1 = n + 2
    BY <1>1, <1>4
  <2> QED BY DEF Send
<1>6. CurBlockPos' = [CurBlockPos EXCEPT ![c] = IF concat THEN Blocks[n + 2] ELSE 0]
  <2>1. concat => Blocks[n + 2] \in Nat
    BY <1>1, <1>4
  <2>2. Blocks[n + 1] \in Nat
    BY <1>4
  <2> HIDE DEF n, concat
  <2>3. CurBlockPos[c] + written - Blocks[n + 1] = IF concat THEN Blocks[n + 2] ELSE 0
    BY <1>1, <2>1, <2>2
  <2> QED BY <1>5, <2>3
<1>7. mid \in Seq(Nat) /\ Len(mid) = n + 1 /\ mid = [i \in 1..(n + 1) |-> i]
  <2>1. CASE Len(sent[c]) = n /\ CurBlockPos[c] = 0
    <3>1. cur = <<n + 1>>
      BY <1>1, <1>4, <2>1
    <3>2. sent[c] = [i \in 1..n |-> i]
      BY <2>1 DEF CursorInv
    <3> HIDE DEF n, cur
    <3> QED BY <1>1, <2>1, <3>1, <3>2, CountUp
  <2>2. CASE Len(sent[c]) = n + 1 /\ CurBlockPos[c] = Blocks[n + 1]
    <3>1. cur = <<>>
      BY <1>1, <1>4, <2>2
    <3> QED BY <1>1, <2>2, <3>1, ConcatEmptySeq DEF CursorInv
  <2> QED BY <2>1, <2>2 DEF CursorInv
<1>8. /\ ext \in Seq(Nat) /\ ext = [i \in 1..Len(ext) |-> i]
      /\ Len(ext) = IF concat THEN n + 2 ELSE n + 1
  <2>1. CASE concat
    <3>1. n + 1 \in Nat /\ n + 2 = (n + 1) + 1
      BY <1>1
    <3> HIDE DEF mid
    <3>2. next = <<(n + 1) + 1>>
      BY <2>1, <3>1
    <3> QED BY <1>7, <2>1, <3>1, <3>2, CountUp
  <2>2. CASE ~concat
    <3> HIDE DEF mid
    <3> QED BY <1>7, <2>2, ConcatEmptySeq
  <2> QED BY <2>1, <2>2
<1>9. sent'[c] = ext
  BY <1>5 DEF TypeOK, ClientType
<1> HIDE DEF ext
<1> QED BY <1>1, <1>3, <1>5, <1>6, <1>8, <1>9

LEMMA ClientTypeStep ==
  ASSUME TypeOK, ControlInv, PermitInv, CursorInv, [Next]_vars
  PROVE  ClientType'
<1> USE DEF TypeOK, clientVars, readVars
<1>1. ASSUME NEW c \in Clients, NotifyClient(c) PROVE ClientType'
  <2>1. Len(Blocks) \in Nat
    BY BlocksFacts
  <2> QED BY <1>1, <2>1 DEF NotifyClient, ClientType
<1>2. CASE RemoteRelease
  <2>1. notified \in Clients /\ remoteUpdates \in Nat
    BY <1>2 DEF RemoteRelease, ControlInv, ThreadType
  <2> QED BY <1>2, <2>1, SMTT(30) DEF RemoteRelease, ClientType
<1>3. ASSUME NEW c \in Clients, Register(c) \/ AddToRecord(c) PROVE ClientType'
  <2>1. "adding" \in ClientPcs /\ "added" \in ClientPcs
    BY DEF ClientPcs, Registering
  <2> QED BY <1>3, <2>1 DEF Register, AddToRecord, Goto, ClientType
<1>4. ASSUME NEW c \in Clients, UpdateSelf(c) PROVE ClientType'
  <2>1. Len(Blocks) \in Nat /\ NewUpdates(c) \in Nat
    BY BlocksFacts DEF NewUpdates, PermitInv, ClientType
  <2>2. "releasing" \in ClientPcs
    BY DEF ClientPcs, Registering
  <2> QED BY <1>4, <2>1, <2>2 DEF UpdateSelf, Goto, ClientType
<1>5. ASSUME NEW c \in Clients, ReleaseSelf(c) \/ Acquire(c) PROVE ClientType'
  <2>1. {"wait", "poll", "exit"} \subseteq ClientPcs /\ "failed" \in Outcomes
    BY DEF ClientPcs, Outcomes
  <2>2. CASE ReleaseSelf(c)
    BY <2>1, <2>2 DEF ReleaseSelf, Goto, ClientType
  <2>3. CASE Acquire(c)
    <3>1. Semaphore[c] - 1 \in Nat
      BY <2>3 DEF Acquire, ClientType
    <3> QED BY <2>1, <2>3, <3>1 DEF Acquire, Goto, ClientType
  <2> QED BY <1>5, <2>2, <2>3
<1>6. ASSUME NEW c \in Clients, Send(c) PROVE ClientType'
  <2>1. "checkFinal" \in ClientPcs
    BY DEF ClientPcs
  <2>2. PICK ext \in Seq(Nat) : sent' = [sent EXCEPT ![c] = ext]
    BY <1>6, SendCursor
  <2>3. CurBlockPos' \in [Clients -> Nat]
    <3>1. Len(Blocks) \in Nat /\ \A i \in 1..Len(Blocks) : Blocks[i] \in Nat
      BY BlocksFacts
    <3>2. CurBlockIdx[c] \in Nat
      BY DEF ClientType
    <3>3. CASE CurBlockPos' = [CurBlockPos EXCEPT ![c] = 0]
      BY <3>3 DEF ClientType
    <3>4. CASE /\ CurBlockIdx[c] + 1 < Len(Blocks)
               /\ CurBlockPos' = [CurBlockPos EXCEPT ![c] = Blocks[CurBlockIdx[c] + 2]]
      <4>1. Blocks[CurBlockIdx[c] + 2] \in Nat
        BY <3>1, <3>2, <3>4
      <4> QED BY <3>4, <4>1 DEF ClientType
    <3> QED BY <1>6, <3>3, <3>4, SendCursor
  <2>4. CurBlockIdx' \in [Clients -> Nat] /\ clientPc' \in [Clients -> ClientPcs]
    <3>1. /\ Goto(c, "poll", "checkFinal")
          /\ CurBlockIdx' = [CurBlockIdx EXCEPT ![c] = CurBlockIdx[c] + 1]
      BY <1>6, SendCursor
    <3> QED BY <2>1, <3>1 DEF Goto, ClientType
  <2>5. sent' \in [Clients -> Seq(Nat)]
    BY <2>2 DEF ClientType
  <2> QED BY <1>6, <2>3, <2>4, <2>5 DEF Send, ClientType
<1>7. ASSUME NEW c \in Clients,
             CheckFinal(c) \/ CheckComplete(c) \/ ClientFail(c) \/ ConnectFail(c)
      PROVE  ClientType'
  <2>1. {"wait", "checkComplete", "leave", "connect"} \subseteq ClientPcs
    BY DEF ClientPcs
  <2>2. {"failed", "complete"} \subseteq Outcomes
    BY DEF Outcomes
  <2>3. PICK to \in ClientPcs, how \in Outcomes :
          /\ clientPc' = [clientPc EXCEPT ![c] = to]
          /\ outcome' = [outcome EXCEPT ![c] = how]
    <3>1. outcome[c] \in Outcomes /\ outcome = [outcome EXCEPT ![c] = outcome[c]]
      BY DEF ClientType
    <3>2. CASE CheckFinal(c)
      BY <2>1, <3>1, <3>2 DEF CheckFinal, Goto
    <3>3. CASE CheckComplete(c)
      BY <2>1, <2>2, <3>1, <3>3 DEF CheckComplete, Goto
    <3>4. CASE ClientFail(c) \/ ConnectFail(c)
      BY <2>1, <2>2, <3>4 DEF ClientFail, ConnectFail, Goto
    <3> QED BY <1>7, <3>2, <3>3, <3>4
  <2>4. UNCHANGED <<CacheBlocksNum, UpdatesNum, Semaphore, readVars, RangeStart>>
    BY <1>7 DEF CheckFinal, CheckComplete, ClientFail, ConnectFail
  <2> QED BY <2>3, <2>4 DEF ClientType
<1>8. ASSUME NEW c \in Clients, EnterEndToEnd(c) \/ Leave(c) PROVE ClientType'
  <2>1. {"endToEnd", "dead"} \subseteq ClientPcs /\ "partial" \in Outcomes
    BY DEF ClientPcs, Outcomes
  <2>2. CASE EnterEndToEnd(c)
    BY <2>1, <2>2 DEF EnterEndToEnd, Goto, ClientType, RecordType
  <2>3. CASE Leave(c)
    BY <2>1, <2>3 DEF Leave, Goto, ClientType
  <2> QED BY <1>8, <2>2, <2>3
<1>9. CASE UNCHANGED clientVars
  BY <1>9 DEF ClientType
<1>10. ASSUME NEW c \in Clients, PutListener(c) \/ TerminateClient(c)
       PROVE  UNCHANGED clientVars
  BY <1>10 DEF PutListener, TerminateClient
<1>11. ASSUME NEW s \in Sizes, ReadBlock(s) PROVE UNCHANGED clientVars
  BY <1>11 DEF ReadBlock
<1>12. CASE \/ PutDone \/ AddSize \/ NotifyBegin \/ NotifyEnd \/ RemoteLoop
            \/ ReadEof \/ EofFinish \/ RemoteFail \/ RemoteTerminate
            \/ RemoteSetComplete \/ RemoteFinish \/ Decide \/ ServerTerminateStep
            \/ UNCHANGED vars
  <2>1. UNCHANGED clientVars
    BY <1>12 DEF PutDone, AddSize, NotifyBegin, NotifyEnd, RemoteLoop, ReadEof,
         EofFinish, RemoteFail, RemoteTerminate, RemoteSetComplete, RemoteFinish,
         Decide, ServerTerminateStep, ServerTerminate, ServerSetComplete,
         ServerFinish, RemoveTimedOut, vars
  <2> QED BY <2>1, <1>9
<1> QED
  BY <1>1, <1>2, <1>3, <1>4, <1>5, <1>6, <1>7, <1>8, <1>9, <1>10, <1>11, <1>12
     DEF Next, RemoteStep, ClientStep

-----------------------------------------------------------------------------
(* The inductive invariant *)

LEMMA InvInit == Init => IInv
<1> SUFFICES ASSUME Init PROVE IInv
  OBVIOUS
<1>1. PICK waiting \in SUBSET Clients, adding \in SUBSET Clients :
        /\ toNotify = waiting
        /\ clientPc = [c \in Clients |-> IF c \in adding THEN "adding"
                                         ELSE IF c \in waiting THEN "wait" ELSE "new"]
  BY DEF Init
<1>2. /\ Blocks = <<>> /\ Len(Blocks) = 0 /\ Final = {} /\ ~IsFinished /\ ~IsComplete
      /\ remotePc = "put" /\ serverPc \in {"idle", "decided"} /\ ~remoteTerminated /\ ~eof
      /\ notified = NoClient /\ remoteUpdates = 0
      /\ clientTerminated = {} /\ removing = NoClient
  BY DEF Init
<1>3. \A c \in Clients :
        /\ CacheBlocksNum[c] = 0 /\ UpdatesNum[c] = 0 /\ Semaphore[c] = 0
        /\ CurBlockIdx[c] = 0 /\ CurBlockPos[c] = 0
        /\ sent[c] = <<>> /\ outcome[c] = "open"
  BY DEF Init
<1>4. \A c \in Clients : \/ clientPc[c] \in {"new", "adding"}
                         \/ clientPc[c] = "wait" /\ c \in toNotify
  BY <1>1
<1>5. TypeOK
  BY TypeInit
<1>6. ControlInv
  BY <1>2, <1>3 DEF ControlInv
<1>7. RegistrationInv
  BY <1>2, <1>4 DEF RegistrationInv, Registering, Registered
<1>8. TimeoutInv
  BY <1>2, <1>4 DEF TimeoutInv
<1>9. PermitInv
  <2> SUFFICES ASSUME NEW c \in Clients PROVE Permits(c) = 0
    BY <1>2, <1>3 DEF PermitInv
  <2> QED BY <1>2, <1>3, <1>4 DEF Permits
<1>10. UpToDateInv
  BY <1>2, <1>3 DEF UpToDateInv
<1>11. CursorInv
  <2>1. <<>> = [i \in 1..0 |-> i] /\ Len(<<>>) = 0
    OBVIOUS
  <2> QED BY <1>3, <2>1 DEF CursorInv
<1>12. TerminateInv
  BY <1>2 DEF TerminateInv, Ending
<1>13. OutcomeInv
  BY <1>3, <1>4 DEF OutcomeInv
<1> QED BY <1>5, <1>6, <1>7, <1>9, <1>10, <1>11, <1>12, <1>13, <1>8 DEF IInv

LEMMA ControlStep ==
  ASSUME TypeOK, ControlInv, [Next]_vars
  PROVE  ControlInv'
<1> USE DEF ControlInv
<1>1. ASSUME NEW c \in Clients, PutListener(c) PROVE ControlInv'
  BY <1>1 DEF PutListener, recordVars, clientVars
<1>2. ASSUME NEW c \in Clients, NotifyClient(c) PROVE ControlInv'
  BY <1>2 DEF NotifyClient, recordVars
<1>3. ASSUME NEW s \in Sizes, ReadBlock(s) PROVE ControlInv'
  <2>1. Blocks' # <<>>
    BY <1>3, BlocksFacts DEF ReadBlock, TypeOK, RecordType
  <2> QED BY <1>3, <2>1 DEF ReadBlock, clientVars
<1>4. CASE \/ PutDone \/ AddSize \/ NotifyBegin \/ NotifyEnd \/ RemoteLoop
           \/ ReadEof \/ RemoteFail \/ RemoteTerminate \/ Decide \/ ServerTerminate
  BY <1>4 DEF PutDone, AddSize, NotifyBegin, NotifyEnd, RemoteLoop, ReadEof,
       RemoteFail, RemoteTerminate, Decide, ServerTerminate, recordVars,
       remoteVars, clientVars
<1>5. CASE RemoteRelease
  BY <1>5 DEF RemoteRelease, recordVars
<1>6. CASE \/ EofFinish \/ RemoteFinish \/ ServerFinish
           \/ RemoteSetComplete \/ ServerSetComplete
  BY <1>6 DEF EofFinish, RemoteFinish, ServerFinish, RemoteSetComplete,
       ServerSetComplete, Finish, SetComplete, remoteVars, clientVars
<1>7. ASSUME NEW c \in Clients,
             ClientStep(c) \/ Register(c) \/ ClientFail(c) \/ ConnectFail(c)
      PROVE  ControlInv'
  <2>1. UNCHANGED <<recordVars, remoteVars>>
    BY <1>7 DEF ClientStep, AddToRecord, UpdateSelf, ReleaseSelf, Acquire, Send,
         CheckFinal, CheckComplete, EnterEndToEnd, Leave, Register, ClientFail,
         ConnectFail
  <2>2. \A d \in Clients : clientPc'[d] # "releasing" => UpdatesNum'[d] = 0
    <3>1. CASE UpdateSelf(c)
      BY <3>1 DEF UpdateSelf, Goto, TypeOK, ClientType
    <3>2. CASE ReleaseSelf(c)
      BY <3>2 DEF ReleaseSelf, Goto, TypeOK, ClientType
    <3>3. CASE UNCHANGED UpdatesNum /\ clientPc[c] # "releasing" 
               /\ \A d \in Clients \ {c} : clientPc'[d] = clientPc[d]
      BY <3>3
    <3>4. CASE \/ AddToRecord(c) \/ Acquire(c) \/ Send(c) \/ CheckFinal(c)
               \/ CheckComplete(c) \/ EnterEndToEnd(c) \/ Leave(c) \/ Register(c)
               \/ ClientFail(c) \/ ConnectFail(c)
      <4>1. UNCHANGED UpdatesNum /\ clientPc[c] # "releasing"
        BY <3>4 DEF AddToRecord, Acquire, Send, CheckFinal, CheckComplete,
             EnterEndToEnd, Leave, Register, ClientFail, ConnectFail, Goto
      <4>2. \E to : clientPc' = [clientPc EXCEPT ![c] = to]
        BY <3>4 DEF AddToRecord, Acquire, Send, CheckFinal, CheckComplete,
             EnterEndToEnd, Leave, Register, ClientFail, ConnectFail, Goto
      <4> QED BY <3>3, <4>1, <4>2 DEF TypeOK, ClientType
    <3> QED BY <1>7, <3>1, <3>2, <3>4 DEF ClientStep
  <2> QED BY <2>1, <2>2 DEF recordVars, remoteVars
<1>8. CASE UNCHANGED vars
  BY <1>8 DEF vars, recordVars, remoteVars, clientVars
<1>9. ASSUME NEW c \in Clients, TerminateClient(c) PROVE ControlInv'
  BY <1>9 DEF TerminateClient, recordVars, remoteVars, clientVars
<1>10. CASE RemoveTimedOut
  BY <1>10 DEF RemoveTimedOut, recordVars, clientVars
<1> QED
  BY <1>1, <1>2, <1>3, <1>4, <1>5, <1>6, <1>7, <1>8, <1>9, <1>10
     DEF Next, RemoteStep, ServerTerminateStep

\* A step of one client's thread leaves the record, the other threads and the
\* other clients as they are.
LEMMA OtherClients ==
  ASSUME TypeOK, NEW c \in Clients,
         ClientStep(c) \/ Register(c) \/ ClientFail(c) \/ ConnectFail(c),
         NEW d \in Clients, d # c
  PROVE  /\ UNCHANGED <<recordVars, remoteVars, serverPc, removing, early>>
         /\ clientPc'[d] = clientPc[d] /\ CacheBlocksNum'[d] = CacheBlocksNum[d]
         /\ UpdatesNum'[d] = UpdatesNum[d] /\ Semaphore'[d] = Semaphore[d]
         /\ CurBlockIdx'[d] = CurBlockIdx[d] /\ CurBlockPos'[d] = CurBlockPos[d]
         /\ sent'[d] = sent[d] /\ outcome'[d] = outcome[d]
         /\ d \in Listeners' <=> d \in Listeners
         /\ d \in clientTerminated' <=> d \in clientTerminated
<1> USE DEF TypeOK, ClientType, Goto, readVars, serverVars
<1>1. CASE AddToRecord(c) \/ Register(c) \/ Leave(c)
  BY <1>1 DEF AddToRecord, Register, Leave
<1>2. CASE UpdateSelf(c) \/ ReleaseSelf(c) \/ Acquire(c)
  BY <1>2 DEF UpdateSelf, ReleaseSelf, Acquire
<1>3. CASE Send(c)
  BY <1>3 DEF Send
<1>4. CASE CheckFinal(c) \/ CheckComplete(c) \/ EnterEndToEnd(c)
  BY <1>4 DEF CheckFinal, CheckComplete, EnterEndToEnd
<1>5. CASE ClientFail(c) \/ ConnectFail(c)
  BY <1>5 DEF ClientFail, ConnectFail
<1> QED BY <1>1, <1>2, <1>3, <1>4, <1>5 DEF ClientStep

\* While the record is being put no permit has been made, so no client wakes.
LEMMA NoAcquireInPut ==
  ASSUME TypeOK, ControlInv, PermitInv, NEW c \in Clients, Acquire(c)
  PROVE  remotePc # "put"
<1> SUFFICES ASSUME remotePc = "put" PROVE FALSE
  OBVIOUS
<1>1. Len(Blocks) = 0
  BY BlocksFacts DEF ControlInv, TypeOK
<1>2. /\ CacheBlocksNum[c] \in Nat /\ Semaphore[c] \in Nat
      /\ UpdatesNum[c] \in Nat /\ CurBlockIdx[c] \in Nat /\ remoteUpdates \in Nat
  BY DEF TypeOK, ClientType, ThreadType
<1>3. Permits(c) = CacheBlocksNum[c] /\ CacheBlocksNum[c] <= Len(Blocks)
  BY DEF PermitInv, Acquire, Goto
<1>4. Semaphore[c] > 0
  BY DEF Acquire
<1> QED BY <1>1, <1>2, <1>3, <1>4 DEF Permits

\* The steps of a client's thread that concern its registration with the record:
\* all others keep it registered and the listener set as it is.
LEMMA RegistrationSelf ==
  ASSUME TypeOK, ControlInv, RegistrationInv, PermitInv, NEW c \in Clients,
         ClientStep(c) \/ Register(c) \/ ClientFail(c) \/ ConnectFail(c)
  PROVE  /\ UNCHANGED <<remotePc, toNotify, notified, removing, early>>
         /\ remotePc = "put" => clientPc'[c] \in Registering \cup {"new", "wait"}
         /\ \/ AddToRecord(c) \/ Leave(c)
            \/ /\ UNCHANGED <<Listeners, clientTerminated>>
               /\ Registered(c)' <=> Registered(c)
               /\ clientPc'[c] # "dead"
<1> USE DEF Goto, TypeOK, ClientType, RegistrationInv, Registering, Registered,
            remoteVars, serverVars
<1>1. CASE AddToRecord(c) \/ Leave(c)
  BY <1>1 DEF AddToRecord, Leave
<1>2. CASE Register(c)
  BY <1>2 DEF Register
<1>3. CASE UpdateSelf(c) \/ ReleaseSelf(c)
  BY <1>3 DEF UpdateSelf, ReleaseSelf
<1>4. CASE Acquire(c)
  BY <1>4, NoAcquireInPut DEF Acquire
<1>5. CASE Send(c) \/ CheckFinal(c)
  BY <1>5 DEF Send, CheckFinal
<1>6. CASE CheckComplete(c) \/ EnterEndToEnd(c) \/ ClientFail(c) \/ ConnectFail(c)
  BY <1>6 DEF CheckComplete, EnterEndToEnd, ClientFail, ConnectFail
<1> QED BY <1>1, <1>2, <1>3, <1>4, <1>5, <1>6 DEF ClientStep

\* The remote thread's steps that visit no client, and those of the server
\* thread on the remote, concern no registration.
LEMMA RegistrationFrame ==
  ASSUME \/ PutDone \/ AddSize \/ NotifyBegin \/ RemoteRelease \/ NotifyEnd
         \/ RemoteLoop \/ ReadEof \/ RemoteFail \/ RemoteTerminate \/ EofFinish
         \/ RemoteFinish \/ RemoteSetComplete \/ \E s \in Sizes : ReadBlock(s)
         \/ \E c \in Clients : NotifyClient(c)
         \/ Decide \/ ServerTerminate \/ ServerSetComplete \/ ServerFinish
         \/ UNCHANGED vars
  PROVE  /\ UNCHANGED <<Listeners, clientPc, clientTerminated, removing, early>>
         /\ \/ UNCHANGED <<remotePc, toNotify>>
            \/ remotePc # "put" /\ remotePc' # "put"
            \/ PutDone
<1> USE DEF clientVars, serverVars, remoteVars
<1>1. CASE PutDone \/ AddSize \/ NotifyBegin \/ RemoteRelease \/ NotifyEnd
  BY <1>1 DEF PutDone, AddSize, NotifyBegin, RemoteRelease, NotifyEnd
<1>2. CASE RemoteLoop \/ ReadEof \/ RemoteFail \/ RemoteTerminate
  BY <1>2 DEF RemoteLoop, ReadEof, RemoteFail, RemoteTerminate
<1>3. CASE EofFinish \/ RemoteFinish \/ RemoteSetComplete
  BY <1>3 DEF EofFinish, RemoteFinish, RemoteSetComplete
<1>4. CASE \/ \E s \in Sizes : ReadBlock(s)
           \/ \E c \in Clients : NotifyClient(c)
  BY <1>4 DEF ReadBlock, NotifyClient
<1>5. CASE Decide \/ ServerTerminate \/ ServerSetComplete \/ ServerFinish
  BY <1>5 DEF Decide, ServerTerminate, ServerSetComplete, ServerFinish
<1>6. CASE UNCHANGED vars
  BY <1>6 DEF vars
<1> QED BY <1>1, <1>2, <1>3, <1>4, <1>5, <1>6

LEMMA RegistrationStep ==
  ASSUME TypeOK, ControlInv, RegistrationInv, TimeoutInv, PermitInv, [Next]_vars
  PROVE  RegistrationInv'
<1> DEFINE Loop == /\ remotePc = "notifying" => toNotify \subseteq Listeners
                   /\ remotePc = "release" => toNotify \cup {notified} \subseteq Listeners
           Here(d) == Registered(d) /\ (d \in clientTerminated => removing = d) =>
                        d \in Listeners
           Put(d) == remotePc = "put" => clientPc[d] \in Registering \cup {"new", "wait"}
<1>1. /\ Loop /\ \A d \in Clients : Here(d) /\ Put(d)
      /\ Loop' /\ (\A d \in Clients : Here(d)' /\ Put(d)') => RegistrationInv'
  BY DEF RegistrationInv
<1>2. ASSUME NEW c \in Clients, PutListener(c) PROVE RegistrationInv'
  BY <1>1, <1>2 DEF PutListener, clientVars, serverVars, Registered
<1>3. CASE \/ PutDone \/ AddSize \/ NotifyBegin \/ RemoteRelease \/ NotifyEnd
           \/ RemoteLoop \/ ReadEof \/ RemoteFail \/ RemoteTerminate \/ EofFinish
           \/ RemoteFinish \/ RemoteSetComplete \/ \E s \in Sizes : ReadBlock(s)
           \/ \E c \in Clients : NotifyClient(c)
           \/ Decide \/ ServerTerminate \/ ServerSetComplete \/ ServerFinish
           \/ UNCHANGED vars
  <2>1. Loop'
    <3>1. CASE \/ PutDone \/ AddSize \/ NotifyBegin \/ RemoteRelease \/ NotifyEnd
               \/ \E c \in Clients : NotifyClient(c)
      BY <1>1, <3>1 DEF PutDone, AddSize, NotifyBegin, RemoteRelease, NotifyEnd, NotifyClient
    <3>2. CASE \/ RemoteLoop \/ ReadEof \/ RemoteFail \/ RemoteTerminate \/ EofFinish
               \/ RemoteFinish \/ RemoteSetComplete \/ \E s \in Sizes : ReadBlock(s)
      BY <3>2 DEF RemoteLoop, ReadEof, RemoteFail, RemoteTerminate, EofFinish,
           RemoteFinish, RemoteSetComplete, ReadBlock
    <3>3. CASE \/ Decide \/ ServerTerminate \/ ServerSetComplete \/ ServerFinish
               \/ UNCHANGED vars
      BY <1>1, <3>3 DEF Decide, ServerTerminate, ServerSetComplete, ServerFinish,
           remoteVars, vars
    <3> QED BY <1>3, <3>1, <3>2, <3>3
  <2>2. ASSUME NEW d \in Clients PROVE Here(d)' /\ Put(d)'
    <3>1. UNCHANGED <<Listeners, clientPc, clientTerminated, removing>>
      BY <1>3, RegistrationFrame
    <3>2. (Registered(d)' => Registered(d)) /\ (remotePc' = "put" => remotePc = "put")
      BY <1>3, RegistrationFrame DEF Registered, PutDone
    <3> QED BY <1>1, <3>1, <3>2
  <2> QED BY <1>1, <2>1, <2>2
<1>4. CASE RemoveTimedOut
  <2>1. Loop'
    BY <1>4 DEF RemoveTimedOut, ListenersUnlocked
  <2>2. ASSUME NEW d \in Clients PROVE Here(d)' /\ Put(d)'
    <3>1. Put(d)'
      BY <1>1, <1>4 DEF RemoveTimedOut, clientVars
    <3>2. CASE d \in clientTerminated
      BY <1>4, <3>1, <3>2, RecordStreamAssumption DEF RemoveTimedOut
    <3>3. CASE d \notin clientTerminated
      <4>1. d # removing
        BY <3>3, RecordStreamAssumption DEF TimeoutInv
      <4> QED BY <1>1, <1>4, <3>1, <3>3, <4>1 DEF RemoveTimedOut, clientVars, Registered
    <3> QED BY <3>2, <3>3
  <2> QED BY <1>1, <2>1, <2>2
<1>5. ASSUME NEW c \in Clients, TerminateClient(c) PROVE RegistrationInv'
  BY <1>1, <1>5, RecordStreamAssumption
     DEF TerminateClient, clientVars, remoteVars, Registered
<1>6. ASSUME NEW c \in Clients,
             ClientStep(c) \/ Register(c) \/ ClientFail(c) \/ ConnectFail(c)
      PROVE  RegistrationInv'
  <2>1. UNCHANGED <<remotePc, toNotify, notified, removing>>
    BY <1>6, RegistrationSelf
  <2>2. Loop'
    BY <1>1, <1>6, <2>1, RegistrationSelf DEF AddToRecord, Leave, ListenersUnlocked
  <2>3. ASSUME NEW d \in Clients PROVE Here(d)' /\ Put(d)'
    <3>1. CASE d # c
      <4>1. /\ clientPc'[d] = clientPc[d] /\ (d \in Listeners' <=> d \in Listeners)
            /\ d \in clientTerminated' <=> d \in clientTerminated
        BY <1>6, <3>1, OtherClients
      <4> QED BY <1>1, <2>1, <4>1 DEF Registered
    <3>2. CASE d = c
      <4>1. Put(d)'
        BY <1>6, <2>1, <3>2, RegistrationSelf
      <4>2. CASE AddToRecord(c)
        BY <3>2, <4>1, <4>2 DEF AddToRecord
      <4>3. CASE Leave(c)
        <5> SUFFICES ASSUME Registered(c)', removing = c PROVE c \in Listeners'
          BY <2>1, <3>2, <4>1, <4>3 DEF Leave
        <5>1. c \in clientTerminated
          BY RecordStreamAssumption DEF TimeoutInv
        <5>2. Registered(c)
          BY <2>1, <4>3 DEF Leave, Goto, Registered
        <5> QED BY <1>1, <4>3, <5>1, <5>2 DEF Leave
      <4>4. CASE ~AddToRecord(c) /\ ~Leave(c)
        BY <1>1, <1>6, <2>1, <3>2, <4>1, <4>4, RegistrationSelf
      <4> QED BY <4>2, <4>3, <4>4
    <3> QED BY <3>1, <3>2
  <2> QED BY <1>1, <2>2, <2>3
<1> QED
  BY <1>2, <1>3, <1>4, <1>5, <1>6 DEF Next, RemoteStep, ServerTerminateStep

LEMMA TimeoutStep ==
  ASSUME TypeOK, ControlInv, RegistrationInv, TimeoutInv, PermitInv, [Next]_vars
  PROVE  TimeoutInv'
<1> DEFINE Dead(d) == clientPc[d] = "dead" => d \in clientTerminated
           Gone(d) == d \in clientTerminated /\ (d \in Listeners \/ ~Registered(d)) =>
                        removing = d \/ d \in early
<1>1. /\ removing \in clientTerminated \cup {NoClient}
      /\ \A d \in Clients : Dead(d) /\ Gone(d)
      /\ removing' \in clientTerminated' \cup {NoClient} =>
           ((\A d \in Clients : Dead(d)' /\ Gone(d)') => TimeoutInv')
  BY DEF TimeoutInv
<1>2. ASSUME NEW c \in Clients, PutListener(c) PROVE TimeoutInv'
  BY <1>1, <1>2 DEF PutListener, clientVars, serverVars, Registered
<1>3. CASE \/ PutDone \/ AddSize \/ NotifyBegin \/ RemoteRelease \/ NotifyEnd
           \/ RemoteLoop \/ ReadEof \/ RemoteFail \/ RemoteTerminate \/ EofFinish
           \/ RemoteFinish \/ RemoteSetComplete \/ \E s \in Sizes : ReadBlock(s)
           \/ \E c \in Clients : NotifyClient(c)
           \/ Decide \/ ServerTerminate \/ ServerSetComplete \/ ServerFinish
           \/ UNCHANGED vars
  <2>1. UNCHANGED <<Listeners, clientPc, clientTerminated, removing, early>>
    BY <1>3, RegistrationFrame
  <2>2. \A d \in Clients : Registered(d) => Registered(d)'
    BY <1>3, RegistrationFrame DEF Registered, PutDone
  <2> QED BY <1>1, <2>1, <2>2
<1>4. CASE RemoveTimedOut
  <2>1. removing' = NoClient /\ UNCHANGED <<clientTerminated, clientPc, remotePc>>
    BY <1>4 DEF RemoveTimedOut, clientVars
  <2>2. ASSUME NEW d \in Clients PROVE Gone(d)'
    <3>1. Registered(d) => Registered(d)'
      BY <1>4, <2>1 DEF RemoveTimedOut, Registered
    <3>2. CASE d = removing
      BY <1>4, <3>1, <3>2 DEF RemoveTimedOut
    <3>3. CASE d # removing
      <4>1. /\ d \in Listeners' => d \in Listeners
            /\ d \in early => d \in early'
        BY <1>4 DEF RemoveTimedOut
      <4> QED BY <1>1, <2>1, <3>1, <3>3, <4>1
    <3> QED BY <3>2, <3>3
  <2> QED BY <1>1, <2>1, <2>2
<1>5. ASSUME NEW c \in Clients, TerminateClient(c) PROVE TimeoutInv'
  <2>1. /\ removing = NoClient /\ removing' = c
        /\ clientTerminated' = clientTerminated \cup {c}
        /\ UNCHANGED <<Listeners, early, clientPc, remotePc, toNotify>>
    BY <1>5 DEF TerminateClient, clientVars, remoteVars
  <2>2. ASSUME NEW d \in Clients PROVE Dead(d)' /\ Gone(d)'
    BY <1>1, <2>1, RecordStreamAssumption DEF Registered
  <2> QED BY <1>1, <2>1, <2>2
<1>6. ASSUME NEW c \in Clients,
             ClientStep(c) \/ Register(c) \/ ClientFail(c) \/ ConnectFail(c)
      PROVE  TimeoutInv'
  <2>1. UNCHANGED <<remotePc, toNotify, removing, early>>
    BY <1>6, RegistrationSelf
  <2>2. removing' \in clientTerminated' \cup {NoClient}
    BY <1>1, <1>6, <2>1, RegistrationSelf DEF AddToRecord, Leave, serverVars
  <2>3. ASSUME NEW d \in Clients PROVE Dead(d)' /\ Gone(d)'
    <3>1. CASE d # c
      <4>1. /\ clientPc'[d] = clientPc[d] /\ (d \in Listeners' <=> d \in Listeners)
            /\ d \in clientTerminated' <=> d \in clientTerminated
        BY <1>6, <3>1, OtherClients
      <4> QED BY <1>1, <2>1, <4>1 DEF Registered
    <3>2. CASE d = c
      <4> USE DEF Goto, Registered, TypeOK, ClientType
      <4>1. CASE AddToRecord(c)
        BY <1>1, <2>1, <3>2, <4>1 DEF AddToRecord, serverVars
      <4>2. CASE Leave(c)
        \* the record has been put: the client was in a notification loop before
        <5>1. remotePc # "put"
          BY <4>2 DEF Leave, RegistrationInv, Registering
        <5> QED BY <1>1, <2>1, <3>2, <4>2, <5>1 DEF Leave
      <4>3. CASE ~AddToRecord(c) /\ ~Leave(c)
        BY <1>1, <1>6, <2>1, <3>2, <4>3, RegistrationSelf
      <4> QED BY <4>1, <4>2, <4>3
    <3> QED BY <3>1, <3>2
  <2> QED BY <1>1, <2>2, <2>3
<1> QED
  BY <1>2, <1>3, <1>4, <1>5, <1>6 DEF Next, RemoteStep, ServerTerminateStep

\* The steps of the remote thread that deal with no client, and those of the
\* server thread.
RemoteAlone ==
  \/ PutDone \/ AddSize \/ NotifyBegin \/ NotifyEnd \/ RemoteLoop \/ ReadEof
  \/ EofFinish \/ RemoteFail \/ RemoteTerminate \/ RemoteSetComplete
  \/ RemoteFinish \/ Decide \/ ServerTerminateStep \/ UNCHANGED vars
  \/ \E c \in Clients : TerminateClient(c)

LEMMA RemoteAloneFrame ==
  ASSUME RemoteAlone
  PROVE  UNCHANGED <<Blocks, notified, remoteUpdates, clientVars>>
<1>1. CASE PutDone \/ AddSize \/ NotifyBegin \/ NotifyEnd \/ RemoteLoop \/ ReadEof
  BY <1>1 DEF PutDone, AddSize, NotifyBegin, NotifyEnd, RemoteLoop, ReadEof, recordVars
<1>2. CASE RemoteFail \/ RemoteTerminate \/ Decide \/ ServerTerminate \/ UNCHANGED vars
  BY <1>2 DEF RemoteFail, RemoteTerminate, Decide, ServerTerminate, vars,
       recordVars, remoteVars
<1>3. CASE RemoveTimedOut \/ \E c \in Clients : TerminateClient(c)
  BY <1>3 DEF RemoveTimedOut, TerminateClient, recordVars, remoteVars
<1>4. CASE \/ EofFinish \/ RemoteFinish \/ ServerFinish
           \/ RemoteSetComplete \/ ServerSetComplete
  BY <1>4 DEF EofFinish, RemoteFinish, ServerFinish, RemoteSetComplete,
       ServerSetComplete, Finish, SetComplete, remoteVars
<1> QED BY <1>1, <1>2, <1>4, <1>3 DEF RemoteAlone, ServerTerminateStep

\* The numbers PermitInv adds up.
LEMMA Numbers ==
  ASSUME TypeOK, NEW c \in Clients
  PROVE  /\ CacheBlocksNum[c] \in Nat /\ Semaphore[c] \in Nat
         /\ UpdatesNum[c] \in Nat /\ CurBlockIdx[c] \in Nat /\ remoteUpdates \in Nat
         /\ Len(Blocks) \in Nat
  BY BlocksFacts DEF TypeOK, ClientType, ThreadType

\* A client's own steps keep the account of its permits.
LEMMA PermitSelf ==
  ASSUME IInv, NEW c \in Clients,
         ClientStep(c) \/ Register(c) \/ ClientFail(c) \/ ConnectFail(c)
  PROVE  /\ CacheBlocksNum'[c] <= Len(Blocks)
         /\ CurBlockIdx'[c] <= Len(Blocks)
         /\ clientPc'[c] \notin {"leave", "dead", "exit"} => Permits(c)' = CacheBlocksNum'[c]
<1>1. /\ CacheBlocksNum[c] \in Nat /\ Semaphore[c] \in Nat /\ UpdatesNum[c] \in Nat
      /\ CurBlockIdx[c] \in Nat /\ remoteUpdates \in Nat /\ Len(Blocks) \in Nat
  BY Numbers DEF IInv
<1>2. /\ CacheBlocksNum[c] <= Len(Blocks) /\ CurBlockIdx[c] <= Len(Blocks)
      /\ clientPc[c] \notin {"leave", "dead", "exit"} => Permits(c) = CacheBlocksNum[c]
  BY DEF IInv, PermitInv
<1>3. UNCHANGED <<notified, remoteUpdates>>
  BY DEF remoteVars, ClientStep, AddToRecord, UpdateSelf, ReleaseSelf, Acquire, Send,
     CheckFinal, CheckComplete, EnterEndToEnd, Leave, Register, ClientFail, ConnectFail
<1>4. TypeOK /\ ControlInv /\ PermitInv /\ CursorInv
  BY DEF IInv
<1>5. \A from, to : Goto(c, from, to) => clientPc[c] = from /\ clientPc'[c] = to
  BY <1>4 DEF Goto, TypeOK, ClientType
<1>6. CASE /\ UNCHANGED <<CacheBlocksNum, UpdatesNum, Semaphore, CurBlockIdx>>
           /\ clientPc'[c] \in {"leave", "dead"} \/
                (clientPc[c] \notin {"poll", "leave", "dead", "exit"} /\ clientPc'[c] # "poll")
  <2>1. clientPc'[c] \notin {"leave", "dead", "exit"} => Permits(c)' = Permits(c)
    BY <1>3, <1>6 DEF Permits
  <2> QED BY <1>2, <1>6, <2>1
<1>7. CASE AddToRecord(c) \/ Register(c) \/ Leave(c)
  BY <1>5, <1>6, <1>7 DEF AddToRecord, Register, Leave, readVars
<1>8. CASE CheckFinal(c)
  BY <1>5, <1>6, <1>8 DEF CheckFinal, readVars
<1>9. CASE CheckComplete(c) \/ EnterEndToEnd(c) \/ ClientFail(c) \/ ConnectFail(c)
  BY <1>5, <1>6, <1>9 DEF CheckComplete, EnterEndToEnd, ClientFail, ConnectFail, readVars
<1>10. CASE UpdateSelf(c)
  <2>1. /\ UpdatesNum[c] = 0 /\ UpdatesNum'[c] = Len(Blocks) - CacheBlocksNum[c]
        /\ CacheBlocksNum'[c] = Len(Blocks) /\ CurBlockIdx'[c] = CurBlockIdx[c]
        /\ Semaphore'[c] = Semaphore[c]
        /\ clientPc[c] = "added" /\ clientPc'[c] = "releasing"
    <3>1. clientPc[c] = "added" /\ clientPc'[c] = "releasing"
      BY <1>5, <1>10 DEF UpdateSelf
    <3>2. UpdatesNum[c] = 0
      BY <1>4, <3>1 DEF ControlInv
    <3> QED BY <1>4, <1>10, <3>1, <3>2
            DEF UpdateSelf, NewUpdates, readVars, TypeOK, ClientType
  <2>2. Permits(c)' = Permits(c) + (Len(Blocks) - CacheBlocksNum[c])
    BY <1>1, <1>3, <2>1, SMTT(30) DEF Permits
  <2>3. Permits(c) = CacheBlocksNum[c]
    BY <1>2, <2>1
  <2> QED BY <1>1, <1>2, <2>1, <2>2, <2>3
<1>11. CASE ReleaseSelf(c)
  <2>1. /\ UpdatesNum'[c] = 0 /\ Semaphore'[c] = Semaphore[c] + UpdatesNum[c]
        /\ CacheBlocksNum'[c] = CacheBlocksNum[c] /\ CurBlockIdx'[c] = CurBlockIdx[c]
        /\ clientPc[c] = "releasing" /\ clientPc'[c] = "wait"
    BY <1>4, <1>5, <1>11 DEF ReleaseSelf, readVars, TypeOK, ClientType
  <2>2. Permits(c)' = Permits(c)
    BY <1>1, <1>3, <2>1 DEF Permits
  <2> QED BY <1>2, <2>1, <2>2
<1>12. CASE Acquire(c)
  <2>1. /\ UpdatesNum'[c] = UpdatesNum[c] /\ Semaphore'[c] = Semaphore[c] - 1
        /\ CacheBlocksNum'[c] = CacheBlocksNum[c] /\ CurBlockIdx'[c] = CurBlockIdx[c]
        /\ clientPc[c] = "wait" /\ clientPc'[c] \in {"poll", "exit"}
    BY <1>4, <1>5, <1>12 DEF Acquire, readVars, TypeOK, ClientType
  <2>2. ASSUME clientPc'[c] = "poll" PROVE Permits(c)' = Permits(c)
    <3> DEFINE r == IF notified = c THEN remoteUpdates ELSE 0
    <3>1. Permits(c) = Semaphore[c] + UpdatesNum[c] + r + CurBlockIdx[c] + 0
      BY <2>1 DEF Permits
    <3>2. Permits(c)' = (Semaphore[c] - 1) + UpdatesNum[c] + r + CurBlockIdx[c] + 1
      BY <1>3, <2>1, <2>2 DEF Permits
    <3>3. r \in Nat
      BY <1>1
    <3> HIDE DEF r
    <3> QED BY <1>1, <3>1, <3>2, <3>3, SMTT(30)
  <2> QED BY <1>2, <2>1, <2>2
<1>13. CASE Send(c)
  <2>1. /\ CurBlockIdx[c] < Len(Blocks) /\ CurBlockIdx'[c] = CurBlockIdx[c] + 1
        /\ clientPc[c] = "poll" /\ clientPc'[c] = "checkFinal"
    <3>1. /\ CurBlockIdx[c] < Len(Blocks)
          /\ Goto(c, "poll", "checkFinal")
          /\ CurBlockIdx' = [CurBlockIdx EXCEPT ![c] = CurBlockIdx[c] + 1]
      BY <1>4, <1>13, SendCursor
    <3> QED BY <1>4, <1>5, <3>1 DEF TypeOK, ClientType
  <2>2. /\ CacheBlocksNum'[c] = CacheBlocksNum[c] /\ UpdatesNum'[c] = UpdatesNum[c]
        /\ Semaphore'[c] = Semaphore[c]
    BY <1>13 DEF Send
  <2>3. Permits(c)' = Permits(c)
    <3> DEFINE r == IF notified = c THEN remoteUpdates ELSE 0
    <3>1. Permits(c) = Semaphore[c] + UpdatesNum[c] + r + CurBlockIdx[c] + 1
      BY <2>1 DEF Permits
    <3>2. Permits(c)' = Semaphore[c] + UpdatesNum[c] + r + (CurBlockIdx[c] + 1) + 0
      BY <1>3, <2>1, <2>2 DEF Permits
    <3>3. r \in Nat
      BY <1>1
    <3> HIDE DEF r
    <3> QED BY <1>1, <3>1, <3>2, <3>3, SMTT(30)
  <2>4. CurBlockIdx[c] + 1 <= Len(Blocks)
    BY <1>1, <2>1
  <2> QED BY <1>2, <2>1, <2>2, <2>3, <2>4
<1> QED
  BY <1>7, <1>8, <1>9, <1>10, <1>11, <1>12, <1>13 DEF ClientStep

LEMMA PermitStep ==
  ASSUME IInv, [Next]_vars
  PROVE  PermitInv'
<1> USE DEF IInv, PermitInv
<1>1. ASSUME NEW c \in Clients, PutListener(c) PROVE PermitInv'
  BY <1>1 DEF PutListener, recordVars, clientVars, readVars, Permits
<1>2. ASSUME NEW c \in Clients, NotifyClient(c) PROVE PermitInv'
  <2>1. /\ UNCHANGED <<Blocks, clientPc, UpdatesNum, Semaphore, CurBlockIdx>>
        /\ CacheBlocksNum' = [CacheBlocksNum EXCEPT ![c] = Len(Blocks)]
        /\ notified' = c /\ remoteUpdates' = Len(Blocks) - CacheBlocksNum[c]
        /\ notified = NoClient /\ remoteUpdates = 0
    BY <1>2 DEF NotifyClient, NewUpdates, recordVars, readVars, ControlInv
  <2>2. CacheBlocksNum'[c] = Len(Blocks)
        /\ \A d \in Clients \ {c} : CacheBlocksNum'[d] = CacheBlocksNum[d]
    BY <2>1 DEF TypeOK, ClientType
  <2>3. ASSUME NEW d \in Clients, d # c PROVE Permits(d)' = Permits(d)
    BY <2>1, <2>3, RecordStreamAssumption DEF Permits
  <2>4. Permits(c)' = Permits(c) + Len(Blocks) - CacheBlocksNum[c]
    <3>1. /\ CacheBlocksNum[c] \in Nat /\ Semaphore[c] \in Nat /\ UpdatesNum[c] \in Nat
          /\ CurBlockIdx[c] \in Nat /\ remoteUpdates \in Nat /\ Len(Blocks) \in Nat
      BY Numbers
    <3>2. notified # c /\ notified' = c
      BY <2>1, RecordStreamAssumption
    <3>3. Permits(c) = Semaphore[c] + UpdatesNum[c] + CurBlockIdx[c]
                         + (IF clientPc[c] = "poll" THEN 1 ELSE 0)
      BY <3>1, <3>2 DEF Permits
    <3>4. Permits(c)' = Semaphore[c] + UpdatesNum[c] + (Len(Blocks) - CacheBlocksNum[c])
                          + CurBlockIdx[c] + (IF clientPc[c] = "poll" THEN 1 ELSE 0)
      BY <2>1, <3>2 DEF Permits
    <3> QED BY <3>1, <3>3, <3>4, SMTT(30)
  <2>5. Permits(c) = CacheBlocksNum[c] => Permits(c)' = Len(Blocks)
    BY <2>4, Numbers
  <2>6. Len(Blocks) <= Len(Blocks)
    BY Numbers
  <2> QED BY <2>1, <2>2, <2>3, <2>5, <2>6
<1>3. CASE RemoteRelease
  <2>1. /\ UNCHANGED <<Blocks, clientPc, UpdatesNum, CacheBlocksNum, CurBlockIdx>>
        /\ notified \in Clients /\ notified' = NoClient /\ remoteUpdates' = 0
        /\ Semaphore' = [Semaphore EXCEPT ![notified] = Semaphore[notified] + remoteUpdates]
    BY <1>3 DEF RemoteRelease, recordVars, readVars, ControlInv
  <2>2. ASSUME NEW d \in Clients PROVE Permits(d)' = Permits(d)
    <3>1. Semaphore'[d] = Semaphore[d] + (IF notified = d THEN remoteUpdates ELSE 0)
      BY <2>1, Numbers, SMTT(30) DEF TypeOK, ClientType
    <3> QED BY <2>1, <3>1, Numbers, RecordStreamAssumption DEF Permits
  <2> QED BY <2>1, <2>2
<1>4. ASSUME NEW s \in Sizes, ReadBlock(s) PROVE PermitInv'
  <2>1. /\ UNCHANGED <<notified, remoteUpdates, clientVars>>
        /\ Blocks' = Append(Blocks, s)
    BY <1>4 DEF ReadBlock
  <2>2. Len(Blocks') = Len(Blocks) + 1
    BY <2>1, Numbers DEF TypeOK, RecordType
  <2>3. \A d \in Clients : Permits(d)' = Permits(d)
    BY <2>1 DEF Permits, clientVars, readVars
  <2> QED BY <2>1, <2>2, <2>3, Numbers DEF clientVars, readVars
<1>5. CASE RemoteAlone
  BY <1>5, RemoteAloneFrame DEF Permits, clientVars, readVars
<1>6. ASSUME NEW c \in Clients,
             ClientStep(c) \/ Register(c) \/ ClientFail(c) \/ ConnectFail(c)
      PROVE  PermitInv'
  <2>1. UNCHANGED <<Blocks, notified, remoteUpdates>>
    BY <1>6 DEF recordVars, remoteVars, ClientStep, AddToRecord, UpdateSelf,
         ReleaseSelf, Acquire, Send, CheckFinal, CheckComplete, EnterEndToEnd,
         Leave, Register, ClientFail, ConnectFail
  <2>2. ASSUME NEW d \in Clients, d # c
        PROVE  /\ Permits(d)' = Permits(d) /\ CacheBlocksNum'[d] = CacheBlocksNum[d]
               /\ CurBlockIdx'[d] = CurBlockIdx[d] /\ clientPc'[d] = clientPc[d]
    BY <1>6, <2>1, <2>2, OtherClients DEF Permits
  <2>3. /\ CacheBlocksNum'[c] <= Len(Blocks)
        /\ CurBlockIdx'[c] <= Len(Blocks)
        /\ clientPc'[c] \notin {"leave", "dead", "exit"} => Permits(c)' = CacheBlocksNum'[c]
    BY <1>6, PermitSelf
  <2> QED BY <2>1, <2>2, <2>3
<1> QED
  BY <1>1, <1>2, <1>3, <1>4, <1>5, <1>6 DEF Next, RemoteStep, RemoteAlone

\* The clients whose blocks UpToDateInv speaks of.
Counted(c) ==
  /\ clientPc[c] \notin {"new", "adding", "added", "leave", "dead", "exit"}
  /\ remotePc = "put" \/ c \in Listeners

LEMMA UpToDateStep ==
  ASSUME IInv, [Next]_vars
  PROVE  UpToDateInv'
<1> DEFINE Due(c) == \/ remotePc \in {"addSize", "notify"}
                     \/ remotePc \in {"notifying", "release"} /\ c \in toNotify
<1> DEFINE Ok(c) == Counted(c) => Due(c) \/ CacheBlocksNum[c] = Len(Blocks)
<1>1. (\A c \in Clients : Ok(c)) /\ ((\A c \in Clients : Ok(c)') => UpToDateInv')
  BY DEF IInv, UpToDateInv, Counted
<1>2. SUFFICES ASSUME NEW d \in Clients PROVE Ok(d)'
  BY <1>1
<1>3. Ok(d)
  BY <1>1
<1>4. ASSUME NEW c \in Clients, PutListener(c) PROVE Ok(d)'
  BY <1>3, <1>4 DEF PutListener, recordVars, clientVars, Counted
<1>5. ASSUME NEW c \in Clients, NotifyClient(c) PROVE Ok(d)'
  <2>1. CASE d = c
    BY <1>5, <2>1 DEF NotifyClient, recordVars, IInv, TypeOK, ClientType
  <2>2. CASE d # c
    BY <1>3, <1>5, <2>2 DEF NotifyClient, recordVars, Counted
  <2> QED BY <2>1, <2>2
<1>6. CASE PutDone
  BY <1>3, <1>6 DEF PutDone, recordVars, clientVars, Counted
<1>7. CASE NotifyBegin
  BY <1>7 DEF NotifyBegin, recordVars, clientVars, Counted
<1>8. CASE NotifyEnd \/ RemoteRelease
  BY <1>3, <1>8 DEF NotifyEnd, RemoteRelease, recordVars, clientVars, Counted
<1>9. ASSUME NEW s \in Sizes, ReadBlock(s) PROVE Ok(d)'
  BY <1>9 DEF ReadBlock
<1>10. CASE AddSize
  BY <1>10 DEF AddSize
<1>11. CASE \/ RemoteLoop \/ ReadEof \/ EofFinish \/ RemoteFail \/ RemoteTerminate
            \/ RemoteSetComplete \/ RemoteFinish
  <2>1. UNCHANGED <<Blocks, clientVars>>
    BY <1>11, RemoteAloneFrame DEF RemoteAlone
  <2>2. /\ remotePc \notin {"put", "addSize", "notify", "notifying", "release"}
        /\ remotePc' # "put" /\ Listeners' = Listeners
    BY <1>11 DEF RemoteLoop, ReadEof, EofFinish, RemoteFail, RemoteTerminate,
         RemoteSetComplete, RemoteFinish
  <2> QED BY <1>3, <2>1, <2>2 DEF clientVars, Counted
<1>12. CASE \/ Decide \/ ServerTerminateStep \/ UNCHANGED vars
            \/ \E c \in Clients : TerminateClient(c)
  <2>1. UNCHANGED <<Blocks, clientVars>>
    BY <1>12, RemoteAloneFrame DEF RemoteAlone
  <2>2. CASE ~RemoveTimedOut
    <3>1. UNCHANGED <<remotePc, toNotify, Listeners>>
      BY <1>12, <2>2 DEF Decide, ServerTerminateStep, ServerTerminate,
           ServerSetComplete, ServerFinish, TerminateClient, remoteVars, vars
    <3> QED BY <1>3, <2>1, <3>1 DEF clientVars, Counted
  <2>3. CASE RemoveTimedOut
    \* the loop of NotifyRecordUpdate is not running
    <3>1. /\ remotePc' = remotePc /\ remotePc \notin {"notifying", "release"}
          /\ Listeners' \subseteq Listeners
      BY <2>3 DEF RemoveTimedOut, ListenersUnlocked
    <3> QED BY <1>3, <2>1, <3>1 DEF clientVars, Counted
  <2> QED BY <2>2, <2>3
<1>13. ASSUME NEW c \in Clients,
              ClientStep(c) \/ Register(c) \/ ClientFail(c) \/ ConnectFail(c)
       PROVE  Ok(d)'
  <2>1. UNCHANGED <<Blocks, remotePc, toNotify>>
    BY <1>13 DEF recordVars, remoteVars, ClientStep, AddToRecord, UpdateSelf,
         ReleaseSelf, Acquire, Send, CheckFinal, CheckComplete, EnterEndToEnd,
         Leave, Register, ClientFail, ConnectFail
  <2>2. CASE d # c
    BY <1>3, <1>13, <2>1, <2>2, OtherClients DEF Counted, IInv
  <2>3. CASE d = c
    <3> USE DEF Goto, Counted, IInv, TypeOK, ClientType
    <3>1. CASE Register(c) \/ AddToRecord(c) \/ Leave(c)
      BY <2>3, <3>1 DEF Register, AddToRecord, Leave
    <3>2. CASE UpdateSelf(c)
      BY <2>1, <2>3, <3>2 DEF UpdateSelf
    <3>3. CASE ReleaseSelf(c) \/ Acquire(c) \/ Send(c) \/ CheckFinal(c)
      BY <1>3, <2>1, <2>3, <3>3 DEF ReleaseSelf, Acquire, Send, CheckFinal
    <3>4. CASE CheckComplete(c) \/ EnterEndToEnd(c) \/ ClientFail(c) \/ ConnectFail(c)
      BY <1>3, <2>1, <2>3, <3>4 DEF CheckComplete, EnterEndToEnd, ClientFail, ConnectFail
    <3> QED BY <1>13, <3>1, <3>2, <3>3, <3>4 DEF ClientStep
  <2> QED BY <2>2, <2>3
<1> QED
  BY <1>4, <1>5, <1>6, <1>7, <1>8, <1>9, <1>10, <1>11, <1>12, <1>13
     DEF Next, RemoteStep

LEMMA CursorStep ==
  ASSUME IInv, [Next]_vars
  PROVE  CursorInv'
<1>0. TypeOK /\ PermitInv /\ CursorInv
  BY DEF IInv
<1>1. CASE UNCHANGED <<CurBlockIdx, CurBlockPos, sent>>
           /\ (UNCHANGED Blocks \/ \E s \in Sizes : ReadBlock(s))
  <2> SUFFICES ASSUME NEW c \in Clients
               PROVE  /\ sent[c] = [i \in 1..Len(sent[c]) |-> i]
                      /\ \/ Len(sent[c]) = CurBlockIdx[c] /\ CurBlockPos[c] = 0
                         \/ /\ Len(sent[c]) = CurBlockIdx[c] + 1
                            /\ CurBlockIdx[c] < Len(Blocks')
                            /\ CurBlockPos[c] = Blocks'[CurBlockIdx[c] + 1]
    BY <1>1 DEF CursorInv
  <2>1. CASE UNCHANGED Blocks
    BY <1>0, <2>1 DEF CursorInv
  <2>2. ASSUME NEW s \in Sizes, ReadBlock(s)
        PROVE  /\ CurBlockIdx[c] < Len(Blocks) => CurBlockIdx[c] < Len(Blocks')
               /\ CurBlockIdx[c] < Len(Blocks) =>
                    Blocks'[CurBlockIdx[c] + 1] = Blocks[CurBlockIdx[c] + 1]
    <3>1. Blocks' = Append(Blocks, s) /\ Blocks \in Seq(Sizes)
      BY <1>0, <2>2 DEF ReadBlock, TypeOK, RecordType
    <3>2. Len(Blocks) \in Nat /\ CurBlockIdx[c] \in Nat
      BY <1>0, Numbers
    <3> QED BY <3>1, <3>2
  <2>3. CursorInv
    BY <1>0
  <2> QED BY <1>1, <2>1, <2>2, <2>3 DEF CursorInv
<1>2. ASSUME NEW c \in Clients, Send(c) PROVE CursorInv'
  <2>1. Blocks' = Blocks
    BY <1>2 DEF Send, recordVars
  <2> SUFFICES ASSUME NEW d \in Clients
               PROVE  /\ sent'[d] = [i \in 1..Len(sent'[d]) |-> i]
                      /\ \/ Len(sent'[d]) = CurBlockIdx'[d] /\ CurBlockPos'[d] = 0
                         \/ /\ Len(sent'[d]) = CurBlockIdx'[d] + 1
                            /\ CurBlockIdx'[d] < Len(Blocks)
                            /\ CurBlockPos'[d] = Blocks[CurBlockIdx'[d] + 1]
    BY <2>1, Zenon DEF CursorInv
  <2>2. CASE d # c
    <3>1. /\ CurBlockIdx'[d] = CurBlockIdx[d] /\ CurBlockPos'[d] = CurBlockPos[d]
          /\ sent'[d] = sent[d]
      BY <1>0, <1>2, <2>2, OtherClients DEF ClientStep
    <3> QED BY <1>0, <3>1 DEF CursorInv
  <2>3. CASE d = c
    <3>1. CurBlockIdx[c] \in Nat
      BY <1>0, Numbers
    <3> DEFINE e == sent'[c]
    <3>2. /\ CurBlockIdx' = [CurBlockIdx EXCEPT ![c] = CurBlockIdx[c] + 1]
          /\ \/ /\ CurBlockPos' = [CurBlockPos EXCEPT ![c] = 0]
                /\ Len(e) = CurBlockIdx[c] + 1
             \/ /\ CurBlockIdx[c] + 1 < Len(Blocks)
                /\ CurBlockPos' = [CurBlockPos EXCEPT ![c] = Blocks[CurBlockIdx[c] + 2]]
                /\ Len(e) = CurBlockIdx[c] + 2
          /\ \E ext \in Seq(Nat) :
               /\ sent' = [sent EXCEPT ![c] = ext]
               /\ ext = [i \in 1..Len(ext) |-> i]
      BY <1>0, <1>2, SendCursor, Zenon
    <3>3. /\ CurBlockIdx'[c] = CurBlockIdx[c] + 1
          /\ e = [i \in 1..Len(e) |-> i]
      BY <1>0, <3>2, Zenon DEF TypeOK, ClientType
    <3>4. \/ CurBlockPos'[c] = 0 /\ Len(e) = CurBlockIdx[c] + 1
          \/ /\ CurBlockIdx[c] + 1 < Len(Blocks)
             /\ CurBlockPos'[c] = Blocks[CurBlockIdx[c] + 2]
             /\ Len(e) = CurBlockIdx[c] + 2
      BY <1>0, <3>2, Zenon DEF TypeOK, ClientType
    <3>5. (CurBlockIdx[c] + 1) + 1 = CurBlockIdx[c] + 2
      BY <3>1
    <3> QED BY <2>3, <3>2, <3>3, <3>4, <3>5
  <2> QED BY <2>2, <2>3
<1>3. ASSUME NEW c \in Clients, PutListener(c) \/ NotifyClient(c)
      PROVE  UNCHANGED <<CurBlockIdx, CurBlockPos, sent, Blocks>>
  BY <1>3 DEF PutListener, NotifyClient, recordVars, clientVars, readVars
<1>4. CASE RemoteRelease
  BY <1>1, <1>4 DEF RemoteRelease, recordVars, readVars
<1>5. ASSUME NEW s \in Sizes, ReadBlock(s)
      PROVE  UNCHANGED <<CurBlockIdx, CurBlockPos, sent>>
  BY <1>5 DEF ReadBlock, clientVars, readVars
<1>6. CASE RemoteAlone
  BY <1>1, <1>6, RemoteAloneFrame DEF clientVars, readVars
<1>7. ASSUME NEW c \in Clients,
             \/ AddToRecord(c) \/ UpdateSelf(c) \/ ReleaseSelf(c) \/ Acquire(c)
             \/ CheckFinal(c) \/ CheckComplete(c) \/ EnterEndToEnd(c) \/ Leave(c)
             \/ Register(c) \/ ClientFail(c) \/ ConnectFail(c)
      PROVE  UNCHANGED <<CurBlockIdx, CurBlockPos, sent, Blocks>>
  BY <1>7 DEF AddToRecord, UpdateSelf, ReleaseSelf, Acquire, CheckFinal,
       CheckComplete, EnterEndToEnd, Leave, Register, ClientFail, ConnectFail,
       recordVars, readVars
<1> QED
  BY <1>1, <1>2, <1>3, <1>4, <1>5, <1>6, <1>7
     DEF Next, RemoteStep, RemoteAlone, ClientStep

LEMMA TerminateStep ==
  ASSUME IInv, [Next]_vars
  PROVE  TerminateInv'
<1>0. /\ TerminateInv /\ TypeOK
      /\ Blocks = <<>> => Len(Blocks) = 0
  BY BlocksFacts DEF IInv, TypeOK
<1> USE DEF TerminateInv, Ending, serverVars
<1>1. ASSUME NEW c \in Clients, PutListener(c) \/ NotifyClient(c) PROVE TerminateInv'
  BY <1>0, <1>1 DEF PutListener, NotifyClient, recordVars
<1>2. CASE PutDone \/ AddSize \/ NotifyBegin \/ RemoteRelease \/ NotifyEnd
  BY <1>0, <1>2 DEF PutDone, AddSize, NotifyBegin, RemoteRelease, NotifyEnd, recordVars
<1>3. ASSUME NEW s \in Sizes, ReadBlock(s) PROVE TerminateInv'
  BY <1>0, <1>3 DEF ReadBlock
<1>4. CASE RemoteLoop \/ ReadEof \/ RemoteFail
  BY <1>0, <1>4 DEF RemoteLoop, ReadEof, RemoteFail, recordVars
<1>5. CASE EofFinish
  BY <1>0, <1>5 DEF EofFinish, Finish
<1>6. CASE RemoteTerminate
  BY <1>0, <1>6 DEF RemoteTerminate, recordVars
<1>7. CASE RemoteSetComplete
  BY <1>0, <1>7 DEF RemoteSetComplete, SetComplete
<1>8. CASE RemoteFinish
  BY <1>0, <1>8 DEF RemoteFinish, Finish
<1>9. CASE Decide \/ ServerTerminate
  BY <1>0, <1>9 DEF Decide, ServerTerminate, recordVars, remoteVars
<1>10. CASE ServerSetComplete
  BY <1>0, <1>10 DEF ServerSetComplete, SetComplete, remoteVars
<1>11. CASE ServerFinish
  BY <1>0, <1>11 DEF ServerFinish, Finish, remoteVars
<1>12. ASSUME NEW c \in Clients,
              ClientStep(c) \/ Register(c) \/ ClientFail(c) \/ ConnectFail(c)
       PROVE  TerminateInv'
  <2>1. UNCHANGED <<recordVars, remoteVars, serverPc>>
    BY <1>12 DEF ClientStep, AddToRecord, UpdateSelf, ReleaseSelf, Acquire, Send,
         CheckFinal, CheckComplete, EnterEndToEnd, Leave, Register, ClientFail,
         ConnectFail
  <2> QED BY <1>0, <2>1 DEF recordVars, remoteVars
<1>13. CASE UNCHANGED vars
  BY <1>0, <1>13 DEF vars, recordVars, remoteVars
<1>14. ASSUME NEW c \in Clients, TerminateClient(c) PROVE TerminateInv'
  BY <1>0, <1>14 DEF TerminateClient, recordVars, remoteVars
<1>15. CASE RemoveTimedOut
  BY <1>0, <1>15 DEF RemoveTimedOut, recordVars
<1> QED
  BY <1>1, <1>2, <1>3, <1>4, <1>5, <1>6, <1>7, <1>8, <1>9, <1>10, <1>11, <1>12,
     <1>13, <1>14, <1>15 DEF Next, RemoteStep, ServerTerminateStep

\* The blocks that are sent exist.
LEMMA SentFacts ==
  ASSUME IInv, NEW c \in Clients
  PROVE  /\ Len(sent[c]) \in Nat /\ CurBlockIdx[c] \in Nat /\ Len(Blocks) \in Nat
         /\ CurBlockIdx[c] <= Len(sent[c]) /\ Len(sent[c]) <= Len(Blocks)
<1>1. TypeOK /\ PermitInv /\ CursorInv
  BY DEF IInv
<1>2. sent[c] \in Seq(Nat)
  BY <1>1 DEF TypeOK, ClientType
<1>3. Len(sent[c]) \in Nat /\ CurBlockIdx[c] \in Nat /\ Len(Blocks) \in Nat
  BY <1>1, <1>2, LenProperties, Numbers
<1>4. CurBlockIdx[c] <= Len(Blocks)
  BY <1>1 DEF PermitInv
<1>5. \/ Len(sent[c]) = CurBlockIdx[c]
      \/ Len(sent[c]) = CurBlockIdx[c] + 1 /\ CurBlockIdx[c] < Len(Blocks)
  BY <1>1 DEF CursorInv
<1> QED BY <1>3, <1>4, <1>5

LEMMA OutcomeStep ==
  ASSUME IInv, [Next]_vars
  PROVE  OutcomeInv'
<1>0. TypeOK /\ TerminateInv /\ OutcomeInv /\ PermitInv /\ CursorInv
  BY DEF IInv
<1>1. CASE /\ UNCHANGED <<Blocks, IsComplete, clientPc, outcome, CurBlockIdx, sent>>
           /\ Final \subseteq Final'
  BY <1>0, <1>1 DEF OutcomeInv
<1>2. ASSUME NEW c \in Clients, PutListener(c) \/ NotifyClient(c) PROVE OutcomeInv'
  BY <1>1, <1>2 DEF PutListener, NotifyClient, recordVars, clientVars, readVars
<1>3. ASSUME NEW s \in Sizes, ReadBlock(s) PROVE OutcomeInv'
  \* no block is read once the record is complete
  <2>1. ~IsComplete
    BY <1>0, <1>3 DEF ReadBlock, TerminateInv, Ending
  <2> QED BY <1>0, <1>3, <2>1 DEF OutcomeInv, ReadBlock, clientVars, readVars
<1>4. CASE \/ PutDone \/ AddSize \/ NotifyBegin \/ RemoteRelease \/ NotifyEnd
           \/ RemoteLoop \/ ReadEof \/ RemoteFail \/ RemoteTerminate
  BY <1>1, <1>4 DEF PutDone, AddSize, NotifyBegin, RemoteRelease, NotifyEnd,
       RemoteLoop, ReadEof, RemoteFail, RemoteTerminate, recordVars, clientVars,
       readVars
<1>5. CASE EofFinish \/ RemoteFinish \/ ServerFinish
  BY <1>1, <1>5 DEF EofFinish, RemoteFinish, ServerFinish, Finish, clientVars, readVars
<1>6. CASE RemoteSetComplete \/ ServerSetComplete
  \* IsComplete was false, and no client has an outcome that depends on it
  <2>1. ~IsComplete
    BY <1>0, <1>6 DEF RemoteSetComplete, ServerSetComplete, TerminateInv
  <2> QED BY <1>0, <1>6, <2>1 DEF OutcomeInv, RemoteSetComplete, ServerSetComplete,
             SetComplete, clientVars, readVars
<1>7. CASE \/ Decide \/ ServerTerminate \/ RemoveTimedOut \/ UNCHANGED vars
           \/ \E c \in Clients : TerminateClient(c)
  BY <1>1, <1>7 DEF Decide, ServerTerminate, RemoveTimedOut, TerminateClient,
       recordVars, clientVars, readVars, vars
<1>8. ASSUME NEW c \in Clients,
             ClientStep(c) \/ Register(c) \/ ClientFail(c) \/ ConnectFail(c)
      PROVE  OutcomeInv'
  <2>1. UNCHANGED <<Blocks, Final, IsComplete>>
    BY <1>8 DEF recordVars, ClientStep, AddToRecord, UpdateSelf, ReleaseSelf,
         Acquire, Send, CheckFinal, CheckComplete, EnterEndToEnd, Leave, Register,
         ClientFail, ConnectFail
  <2> SUFFICES ASSUME NEW d \in Clients
               PROVE  /\ clientPc'[d] = "checkComplete" => CurBlockIdx'[d] \in Final
                      /\ outcome'[d] # "open" =>
                           clientPc'[d] \in {"leave", "dead", "exit", "endToEnd"}
                      /\ outcome'[d] = "complete" =>
                           IsComplete /\ Len(sent'[d]) = Len(Blocks)
    BY <2>1 DEF OutcomeInv
  <2>2. CASE d # c
    BY <1>0, <1>8, <2>2, OtherClients DEF OutcomeInv
  <2>3. CASE d = c
    <3> USE <1>0, <2>3 DEF Goto, OutcomeInv, TypeOK, ClientType, readVars
    <3>1. CASE AddToRecord(c) \/ Register(c) \/ Leave(c)
      BY <3>1 DEF AddToRecord, Register, Leave
    <3>2. CASE UpdateSelf(c) \/ ReleaseSelf(c) \/ Acquire(c)
      BY <3>2 DEF UpdateSelf, ReleaseSelf, Acquire
    <3>3. CASE Send(c)
      BY <3>3 DEF Send
    <3>4. CASE CheckFinal(c)
      BY <3>4 DEF CheckFinal
    <3>5. CASE CheckComplete(c)
      \* the final block of a complete record is its last one
      <4>1. IsComplete => CurBlockIdx[c] = Len(Blocks)
        BY <3>5 DEF CheckComplete, TerminateInv
      <4>2. IsComplete => Len(sent[c]) = Len(Blocks)
        BY <4>1, SentFacts
      <4> QED BY <3>5, <4>2 DEF CheckComplete
    <3>6. CASE EnterEndToEnd(c)
      BY <3>6 DEF EnterEndToEnd
    <3>7. CASE ClientFail(c) \/ ConnectFail(c)
      BY <3>7 DEF ClientFail, ConnectFail
    <3> QED BY <1>8, <3>1, <3>2, <3>3, <3>4, <3>5, <3>6, <3>7 DEF ClientStep
  <2> QED BY <2>2, <2>3
<1> QED
  BY <1>2, <1>3, <1>4, <1>5, <1>6, <1>7, <1>8 DEF Next, RemoteStep, ServerTerminateStep

LEMMA InvStep == IInv /\ [Next]_vars => IInv'
<1> SUFFICES ASSUME IInv, [Next]_vars PROVE IInv'
  OBVIOUS
<1>1. /\ TypeOK /\ ControlInv /\ RegistrationInv /\ TimeoutInv
      /\ PermitInv /\ CursorInv
  BY DEF IInv
<1>2. TypeOK'
  BY <1>1, RecordTypeStep, ThreadTypeStep, ClientTypeStep DEF TypeOK
<1>3. ControlInv' /\ RegistrationInv' /\ TimeoutInv'
  BY <1>1, ControlStep, RegistrationStep, TimeoutStep
<1>4. PermitInv' /\ UpToDateInv' /\ CursorInv'
  BY PermitStep, UpToDateStep, CursorStep
<1>5. TerminateInv' /\ OutcomeInv'
  BY TerminateStep, OutcomeStep
<1> QED BY <1>2, <1>3, <1>4, <1>5 DEF IInv

\* The inductive invariant holds in every reachable state.
THEOREM Invariance == Spec => []IInv
  BY InvInit, InvStep, PTL DEF Spec

-----------------------------------------------------------------------------
(* The properties *)

\* Type correctness: no counter of the code goes below zero.
THEOREM TypeCorrect == Spec => []TypeOK
<1>1. IInv => TypeOK
  BY DEF IInv
<1> QED BY <1>1, Invariance, PTL

\* No lost wakeup: the account of the permits adds up, and the only blocks
\* that are not counted yet are those the remote thread is about to announce.
THEOREM NoLostWakeup == Spec => []NoSleepOnUnreadBlock
<1>1. IInv => NoSleepOnUnreadBlock
  <2> SUFFICES ASSUME IInv, NEW c \in Listeners, clientPc[c] = "wait",
                      Semaphore[c] = 0, ~NotificationDue(c)
               PROVE  CurBlockIdx[c] >= Len(Blocks)
    BY DEF NoSleepOnUnreadBlock
  <2> c \in Clients
    BY DEF IInv, TypeOK, RecordType
  <2>1. CacheBlocksNum[c] = Len(Blocks)
    BY DEF IInv, UpToDateInv, NotificationDue
  <2>2. Permits(c) = CacheBlocksNum[c]
    BY DEF IInv, PermitInv
  <2>3. UpdatesNum[c] = 0 /\ notified # c
    BY RecordStreamAssumption DEF IInv, ControlInv, NotificationDue
  <2>4. CurBlockIdx[c] \in Nat /\ Len(Blocks) \in Nat
    BY Numbers DEF IInv
  <2> QED BY <2>1, <2>2, <2>3, <2>4 DEF Permits
<1> QED BY <1>1, Invariance, PTL

\* No spurious wakeup: a permit stands for a block that has not been read.
THEOREM NoSpuriousWakeup == Spec => []WokenFindsBlock
<1>1. IInv => WokenFindsBlock
  <2> SUFFICES ASSUME IInv, NEW c \in Clients, clientPc[c] = "poll"
               PROVE  CurBlockIdx[c] < Len(Blocks) /\ CacheBlocksNum[c] > 0
    BY DEF WokenFindsBlock
  <2>1. Permits(c) = CacheBlocksNum[c] /\ CacheBlocksNum[c] <= Len(Blocks)
    BY DEF IInv, PermitInv
  <2>2. /\ CacheBlocksNum[c] \in Nat /\ Semaphore[c] \in Nat /\ UpdatesNum[c] \in Nat
        /\ CurBlockIdx[c] \in Nat /\ remoteUpdates \in Nat /\ Len(Blocks) \in Nat
    BY Numbers DEF IInv
  <2> QED BY <2>1, <2>2, SMTT(30) DEF Permits
<1> QED BY <1>1, Invariance, PTL

\* Each client is sent each block once and in order, whatever the sizes of the
\* blocks and however they are joined.
THEOREM SentInOrder == Spec => []InOrderDelivery
<1>1. IInv => InOrderDelivery
  BY SentFacts DEF InOrderDelivery, IInv, CursorInv
<1> QED BY <1>1, Invariance, PTL

\* A client that ends as complete has been sent the whole response.
THEOREM CompleteIsWhole == Spec => []CompleteMeansAll
<1>1. IInv => CompleteMeansAll
  BY DEF CompleteMeansAll, IInv, OutcomeInv, TerminateInv
<1> QED BY <1>1, Invariance, PTL

\* A handler that may be deleted is in no notification loop.
THEOREM NoDangling == Spec => []NoDanglingListener
<1>1. IInv => NoDanglingListener
  <2> SUFFICES ASSUME IInv, NEW c \in Clients, clientPc[c] = "dead",
                      removing # c, c \notin early
               PROVE  c \notin Listeners \cup toNotify \cup {notified}
    BY DEF NoDanglingListener
  <2>1. c \notin Listeners /\ remotePc # "put"
    BY DEF IInv, RegistrationInv, TimeoutInv, Registering
  <2>2. c \notin toNotify
    BY <2>1 DEF IInv, RegistrationInv, ControlInv
  <2>3. c # notified
    BY <2>1, RecordStreamAssumption DEF IInv, RegistrationInv, ControlInv
  <2> QED BY <2>1, <2>2, <2>3
<1> QED BY <1>1, Invariance, PTL

\* RemoveListener never erases end().
THEOREM RemoveFinds == Spec => []RemoveFindsListener
<1>1. IInv => RemoveFindsListener
  BY DEF RemoveFindsListener, IInv, RegistrationInv, Registering, Registered
<1> QED BY <1>1, Invariance, PTL

-----------------------------------------------------------------------------
(* RangeContinuesUnlessTimedOut *)

\* The running sums of s.
Sums(f, s) == f = [i \in 0..Len(s) |-> IF i = 0 THEN 0 ELSE f[i - 1] + s[i]]

\* They exist ...
LEMMA SumsExist ==
  ASSUME NEW s \in Seq(Nat)
  PROVE  \E f : Sums(f, s)
<1> DEFINE n == Len(s)
           step == [p \in (1..n) \X Nat |-> p[2] + s[p[1]]]
<1>1. n \in Nat /\ \A i \in 1..n : s[i] \in Nat
  BY ElementOfSeq, LenProperties
<1>2. PICK f : Computes(f, n, 0, step)
  BY <1>1, ComputesExists
<1>3. \A i \in 1..n, v \in Nat : step[<<i, v>>] = v + s[i] /\ step[<<i, v>>] \in Nat
  BY <1>1
<1> HIDE DEF step
<1>4. f \in [0..n -> Nat]
  BY <1>1, <1>2, <1>3, ComputesType
<1>5. f[0] = 0 /\ \A i \in 1..n : f[i] = step[<<i, f[i - 1]>>]
  BY <1>1, <1>2, ComputesValues
<1>6. ASSUME NEW i \in 1..n PROVE  f[i] = f[i - 1] + s[i]
  <2>1. f[i - 1] \in Nat
    BY <1>1, <1>4
  <2> QED
    BY <1>3, <1>5, <2>1
<1>7. \A i \in 0..n : f[i] = IF i = 0 THEN 0 ELSE f[i - 1] + s[i]
  BY <1>5, <1>6
<1> QED
  BY <1>4, <1>7 DEF Sums

\* ... so Total is the last of them.
LEMMA TotalSums ==
  ASSUME NEW s \in Seq(Nat)
  PROVE  \E f : /\ f \in [0..Len(s) -> Nat]
                /\ f[0] = 0
                /\ \A i \in 1..Len(s) : f[i] = f[i - 1] + s[i]
                /\ Total(s) = f[Len(s)]
<1> DEFINE f == CHOOSE f : f = [i \in 0..Len(s) |-> IF i = 0 THEN 0 ELSE f[i - 1] + s[i]]
<1>1. Sums(f, s)
  BY SumsExist DEF Sums
<1>2. Total(s) = f[Len(s)]
  BY DEF Total
<1> HIDE DEF f
<1>3. Len(s) \in Nat /\ \A i \in 1..Len(s) : s[i] \in Nat
  BY ElementOfSeq, LenProperties
<1>4. f[0] = 0 /\ \A i \in 1..Len(s) : f[i] = f[i - 1] + s[i]
  BY <1>1, <1>3 DEF Sums
<1>5. f \in [0..Len(s) -> Nat]
  <2> DEFINE S == {i \in 0..Len(s) : f[i] \in Nat}
  <2>1. 0 \in S /\ \A i \in 1..Len(s) : i - 1 \in S => i \in S
    BY <1>3, <1>4
  <2> HIDE DEF S
  <2>2. 0..Len(s) \subseteq S
    BY <1>3, <2>1, Induction
  <2> QED
    BY <1>1, <2>2 DEF S, Sums
<1> QED
  BY <1>2, <1>4, <1>5

\* The total of a longer sequence.
LEMMA TotalAppend ==
  ASSUME NEW s \in Seq(Nat), NEW x \in Nat
  PROVE  Total(Append(s, x)) = Total(s) + x
<1> DEFINE t == Append(s, x)
<1>1. /\ t \in Seq(Nat) /\ Len(s) \in Nat /\ Len(t) = Len(s) + 1
      /\ t[Len(s) + 1] = x /\ \A i \in 1..Len(s) : t[i] = s[i]
  BY AppendProperties, LenProperties
<1>2. PICK f : /\ f \in [0..Len(s) -> Nat] /\ f[0] = 0
               /\ \A i \in 1..Len(s) : f[i] = f[i - 1] + s[i]
               /\ Total(s) = f[Len(s)]
  BY TotalSums
<1>3. PICK g : /\ g \in [0..Len(t) -> Nat] /\ g[0] = 0
               /\ \A i \in 1..Len(t) : g[i] = g[i - 1] + t[i]
               /\ Total(t) = g[Len(t)]
  BY <1>1, TotalSums
<1> HIDE DEF t
<1>4. f[Len(s)] = g[Len(s)]
  <2> DEFINE S == {i \in 0..Len(s) : f[i] = g[i]}
  <2>1. 0 \in S /\ \A i \in 1..Len(s) : i - 1 \in S => i \in S
    BY <1>1, <1>2, <1>3
  <2> HIDE DEF S
  <2>2. 0..Len(s) \subseteq S
    BY <1>1, <2>1, Induction
  <2> QED
    BY <1>1, <2>2 DEF S
<1>5. Len(t) \in 1..Len(t) /\ Len(t) - 1 = Len(s)
  BY <1>1
<1>6. g[Len(t)] = g[Len(s)] + x
  BY <1>1, <1>3, <1>5
<1> QED
  BY <1>2, <1>3, <1>4, <1>6 DEF t

\* The total is a number, and 0 for no size.
LEMMA TotalType == ASSUME NEW s \in Seq(Nat) PROVE Total(s) \in Nat
<1>1. Len(s) \in 0..Len(s)
  BY LenProperties
<1> QED
  BY <1>1, TotalSums

LEMMA TotalEmpty == Total(<<>>) = 0
<1>1. <<>> \in Seq(Nat) /\ Len(<<>>) = 0
  BY EmptySeq
<1> QED
  BY <1>1, TotalSums

\* A step that leaves the blocks alone: nothing but AddSize changes TotalSize.
LEMMA TotalFrame ==
  ASSUME TotalInv, UNCHANGED <<Blocks, TotalSize>>,
         remotePc' = "addSize" <=> remotePc = "addSize"
  PROVE  TotalInv'
  BY DEF TotalInv

LEMMA TotalStep ==
  ASSUME TypeOK, TotalInv, [Next]_vars
  PROVE  TotalInv'
<1> USE DEF recordVars, remoteVars, clientVars, serverVars
<1>1. ASSUME NEW c \in Clients, PutListener(c) \/ NotifyClient(c) PROVE TotalInv'
  BY <1>1, TotalFrame DEF PutListener, NotifyClient
<1>2. ASSUME NEW s \in Sizes, ReadBlock(s) PROVE TotalInv'
  <2>1. Blocks \in Seq(Nat) /\ s \in Nat /\ Blocks' = Append(Blocks, s)
    BY <1>2, RecordStreamAssumption, SeqMonotonic DEF ReadBlock, TypeOK, RecordType
  <2>2. Total(Blocks') = Total(Blocks) + s
    BY <2>1, TotalAppend
  <2>3. Blocks'[Len(Blocks')] = s
    BY <2>1, AppendProperties
  <2>4. Total(Blocks) = TotalSize + 0 /\ TotalSize' = TotalSize /\ remotePc' = "addSize"
    BY <1>2 DEF ReadBlock, TotalInv
  <2> QED
    BY <2>2, <2>3, <2>4 DEF TotalInv, TypeOK, RecordType
<1>3. CASE AddSize
  <2>1. /\ Total(Blocks) = TotalSize + Blocks[Len(Blocks)]
        /\ Blocks' = Blocks /\ TotalSize' = TotalSize + Blocks[Len(Blocks)]
        /\ remotePc' = "notify"
    BY <1>3 DEF AddSize, TotalInv
  <2>2. Total(Blocks) \in Nat
    <3>1. Blocks \in Seq(Nat)
      BY RecordStreamAssumption, SeqMonotonic DEF TypeOK, RecordType
    <3> QED
      BY <3>1, TotalType
  <2> QED
    BY <2>1, <2>2 DEF TotalInv
<1>4. CASE \/ PutDone \/ NotifyBegin \/ RemoteRelease \/ NotifyEnd \/ RemoteLoop
           \/ ReadEof \/ RemoteFail \/ RemoteTerminate
  BY <1>4, TotalFrame DEF PutDone, NotifyBegin, RemoteRelease, NotifyEnd, RemoteLoop,
     ReadEof, RemoteFail, RemoteTerminate
<1>5. CASE EofFinish \/ RemoteFinish \/ RemoteSetComplete
  BY <1>5, TotalFrame DEF EofFinish, RemoteFinish, RemoteSetComplete, Finish, SetComplete
<1>6. CASE \/ Decide \/ ServerTerminateStep \/ UNCHANGED vars
           \/ \E c \in Clients : TerminateClient(c)
  BY <1>6, TotalFrame DEF Decide, ServerTerminateStep, ServerTerminate,
     ServerSetComplete, ServerFinish, RemoveTimedOut, TerminateClient, Finish,
     SetComplete, vars
<1>7. ASSUME NEW c \in Clients,
             ClientStep(c) \/ Register(c) \/ ClientFail(c) \/ ConnectFail(c)
      PROVE  TotalInv'
  <2>1. UNCHANGED <<Blocks, TotalSize, remotePc>>
    BY <1>7 DEF ClientStep, AddToRecord, UpdateSelf, ReleaseSelf, Acquire, Send,
       CheckFinal, CheckComplete, EnterEndToEnd, Leave, Register, ClientFail, ConnectFail
  <2> QED
    BY <2>1, TotalFrame
<1> QED
  BY <1>1, <1>2, <1>3, <1>4, <1>5, <1>6, <1>7 DEF Next, RemoteStep

\* The final block stays the last one; RangeStart was TotalSize, and still is.
LEMMA RangeStep ==
  ASSUME IInv, RangeInv, [Next]_vars
  PROVE  RangeInv'
<1> SUFFICES ASSUME serverPc' = "idle"
             PROVE  RangeInv'
  BY DEF RangeInv
<1> USE DEF recordVars, remoteVars, clientVars, readVars, serverVars, Ending
<1>0. TypeOK /\ OutcomeInv
  BY DEF IInv
<1>1. CASE UNCHANGED <<Blocks, Final, TotalSize, remotePc, serverPc, clientPc, outcome,
                       CurBlockIdx, RangeStart>>
  BY <1>1 DEF RangeInv
<1>2. ASSUME NEW c \in Clients, PutListener(c) \/ NotifyClient(c) PROVE RangeInv'
  BY <1>2 DEF RangeInv, PutListener, NotifyClient
<1>3. ASSUME NEW s \in Sizes, ReadBlock(s) PROVE RangeInv'
  BY <1>3 DEF RangeInv, ReadBlock
<1>4. CASE \/ PutDone \/ AddSize \/ NotifyBegin \/ RemoteRelease \/ NotifyEnd
           \/ RemoteLoop \/ ReadEof \/ RemoteFail \/ RemoteTerminate
  BY <1>4 DEF RangeInv, PutDone, AddSize, NotifyBegin, RemoteRelease, NotifyEnd,
     RemoteLoop, ReadEof, RemoteFail, RemoteTerminate
<1>5. CASE EofFinish \/ RemoteFinish \/ RemoteSetComplete
  BY <1>5 DEF RangeInv, EofFinish, RemoteFinish, RemoteSetComplete, Finish, SetComplete
<1>6. CASE Decide \/ ServerTerminateStep \/ \E c \in Clients : TerminateClient(c)
  <2>1. CASE Decide \/ ServerTerminate \/ ServerSetComplete \/ ServerFinish
    BY <2>1 DEF Decide, ServerTerminate, ServerSetComplete, ServerFinish
  <2>2. CASE RemoveTimedOut \/ \E c \in Clients : TerminateClient(c)
    BY <1>1, <2>2 DEF RemoveTimedOut, TerminateClient
  <2> QED
    BY <1>6, <2>1, <2>2 DEF ServerTerminateStep
<1>7. ASSUME NEW c \in Clients,
             ClientStep(c) \/ Register(c) \/ ClientFail(c) \/ ConnectFail(c)
      PROVE  RangeInv'
  <2>1. UNCHANGED <<Blocks, Final, TotalSize, remotePc, serverPc>>
    BY <1>7 DEF ClientStep, AddToRecord, UpdateSelf, ReleaseSelf, Acquire, Send,
       CheckFinal, CheckComplete, EnterEndToEnd, Leave, Register, ClientFail, ConnectFail
  <2> SUFFICES ASSUME NEW d \in Clients
               PROVE  /\ clientPc'[d] = "connect" \/ outcome'[d] = "partial" =>
                           CurBlockIdx'[d] \in Final
                      /\ outcome'[d] = "partial" =>
                           RangeStart'[d] = TotalSize /\ clientPc'[d] = "endToEnd"
    BY <2>1 DEF RangeInv
  <2>2. CASE d # c
    <3>1. RangeStart'[d] = RangeStart[d]
      BY <1>0, <1>7, <2>2 DEF TypeOK, ClientType, ClientStep, AddToRecord, UpdateSelf,
         ReleaseSelf, Acquire, Send, CheckFinal, CheckComplete, EnterEndToEnd, Leave,
         Register, ClientFail, ConnectFail
    <3> QED
      BY <1>0, <1>7, <2>1, <2>2, <3>1, OtherClients DEF RangeInv
  <2>3. CASE d = c
    <3> USE <1>0, <2>1, <2>3 DEF Goto, OutcomeInv, RangeInv, TypeOK, ClientType
    <3>1. CASE AddToRecord(c) \/ Register(c) \/ Leave(c)
      BY <3>1 DEF AddToRecord, Register, Leave
    <3>2. CASE UpdateSelf(c) \/ ReleaseSelf(c) \/ Acquire(c)
      BY <3>2 DEF UpdateSelf, ReleaseSelf, Acquire
    <3>3. CASE Send(c)
      BY <3>3 DEF Send
    <3>4. CASE CheckFinal(c)
      BY <3>4 DEF CheckFinal
    <3>5. CASE CheckComplete(c)
      BY <3>5 DEF CheckComplete
    <3>6. CASE EnterEndToEnd(c)
      BY <3>6 DEF EnterEndToEnd
    <3>7. CASE ClientFail(c) \/ ConnectFail(c)
      BY <3>7 DEF ClientFail, ConnectFail
    <3> QED
      BY <1>7, <3>1, <3>2, <3>3, <3>4, <3>5, <3>6, <3>7 DEF ClientStep
  <2> QED
    BY <2>2, <2>3
<1>8. CASE UNCHANGED vars
  BY <1>1, <1>8 DEF vars
<1> QED
  BY <1>2, <1>3, <1>4, <1>5, <1>6, <1>7, <1>8 DEF Next, RemoteStep

\* The end-to-end request asks for the byte after the last one sent, for every
\* sequence of block sizes.
THEOREM RangeContinues == Spec => []RangeContinuesUnlessTimedOut
<1>1. Init => TotalInv /\ RangeInv
  <2> SUFFICES ASSUME Init PROVE TotalInv /\ RangeInv
    OBVIOUS
  <2>1. /\ Blocks = <<>> /\ TotalSize = 0 /\ remotePc = "put" /\ Final = {}
        /\ \A c \in Clients : outcome[c] = "open" /\ clientPc[c] # "connect"
    BY DEF Init
  <2> QED
    BY <2>1, TotalEmpty DEF TotalInv, RangeInv
<1>2. IInv /\ TotalInv /\ RangeInv /\ [Next]_vars => (TotalInv /\ RangeInv)'
  BY TotalStep, RangeStep DEF IInv
<1>3. IInv /\ TotalInv /\ RangeInv => RangeContinuesUnlessTimedOut
  <2> SUFFICES ASSUME IInv, TotalInv, RangeInv, NEW c \in Clients,
                      outcome[c] = "partial", serverPc = "idle"
               PROVE  RangeStart[c] = BytesOf(sent[c])
    BY DEF RangeContinuesUnlessTimedOut
  <2>1. /\ CurBlockIdx[c] = Len(Blocks) /\ RangeStart[c] = TotalSize
        /\ remotePc # "addSize"
    BY DEF RangeInv, Ending
  <2>2. Len(sent[c]) = Len(Blocks)
    BY <2>1, SentFacts
  <2>3. TypeOK /\ sent[c] = [i \in 1..Len(Blocks) |-> i]
    BY <2>2 DEF IInv, CursorInv
  <2>4. DOMAIN sent[c] = 1..Len(Blocks) /\ \A i \in 1..Len(Blocks) : sent[c][i] = i
    BY <2>3
  <2>5. Blocks = [i \in 1..Len(Blocks) |-> Blocks[i]]
    BY <2>3, LenProperties DEF TypeOK, RecordType
  <2>6. [i \in DOMAIN sent[c] |-> Blocks[sent[c][i]]] = Blocks
    BY <2>4, <2>5
  <2>7. Total(Blocks) = TotalSize + 0
    BY <2>1 DEF TotalInv
  <2> QED
    BY <2>1, <2>3, <2>6, <2>7 DEF BytesOf, TypeOK, RecordType
<1> QED
  BY <1>1, <1>2, <1>3, Invariance, PTL DEF Spec

-----------------------------------------------------------------------------
(* RecordStream implements Delivery *)

Got == [c \in Clients |-> Len(sent[c])]

LEMMA PromiseInit == Init => Promise!Init
<1> SUFFICES ASSUME Init PROVE Promise!Init
  OBVIOUS
<1>1. sent = [c \in Clients |-> <<>>] /\ Len(<<>>) = 0
  BY DEF Init
<1>2. Got = [c \in Clients |-> 0]
  BY <1>1 DEF Got
<1> QED BY <1>2 DEF Init, Promise!Init, Got

LEMMA PromiseStep ==
  ASSUME IInv, [Next]_vars
  PROVE  [Promise!Next]_(Promise!vars)
<1>0. TypeOK /\ TerminateInv /\ OutcomeInv /\ PermitInv /\ CursorInv
  BY DEF IInv
<1>1. CASE UNCHANGED <<Blocks, IsComplete, sent, outcome>>
  BY <1>1 DEF Promise!vars
<1>2. ASSUME NEW c \in Clients, PutListener(c) \/ NotifyClient(c)
      PROVE  UNCHANGED <<Blocks, IsComplete, sent, outcome>>
  BY <1>2 DEF PutListener, NotifyClient, recordVars, clientVars, readVars
<1>3. ASSUME NEW s \in Sizes, ReadBlock(s) PROVE Promise!Next
  <2>1. ~IsComplete
    BY <1>0, <1>3 DEF ReadBlock, TerminateInv, Ending
  <2>2. Promise!Produce(s)
    BY <1>3, <2>1 DEF Promise!Produce, ReadBlock, clientVars, readVars
  <2> QED BY <2>2 DEF Promise!Next
<1>4. CASE \/ PutDone \/ AddSize \/ NotifyBegin \/ RemoteRelease \/ NotifyEnd
           \/ RemoteLoop \/ ReadEof \/ RemoteFail \/ RemoteTerminate \/ Decide
           \/ ServerTerminate \/ EofFinish \/ RemoteFinish \/ ServerFinish
           \/ RemoveTimedOut \/ UNCHANGED vars
  <2>1. UNCHANGED <<Blocks, IsComplete, sent, outcome>>
    BY <1>4 DEF RemoveTimedOut, PutDone, AddSize, NotifyBegin, RemoteRelease, NotifyEnd, RemoteLoop,
         ReadEof, RemoteFail, RemoteTerminate, Decide, ServerTerminate, EofFinish,
         RemoteFinish, ServerFinish, Finish, vars, recordVars, clientVars, readVars
  <2> QED BY <1>1, <2>1
<1>5. CASE RemoteSetComplete \/ ServerSetComplete
  <2>1. /\ ~IsComplete /\ IsComplete' = IsFinished
        /\ UNCHANGED <<Blocks, sent, outcome>>
    BY <1>0, <1>5 DEF RemoteSetComplete, ServerSetComplete, SetComplete, TerminateInv,
         clientVars, readVars
  <2>2. IsComplete \in BOOLEAN /\ IsFinished \in BOOLEAN
    BY <1>0 DEF TypeOK, RecordType
  <2>3. CASE IsFinished
    <3>1. Promise!Close
      BY <2>1, <2>2, <2>3 DEF Promise!Close
    <3> QED BY <3>1 DEF Promise!Next
  <2>4. CASE ~IsFinished
    BY <1>1, <2>1, <2>2, <2>4
  <2> QED BY <2>3, <2>4
<1>6. ASSUME NEW c \in Clients, Send(c) PROVE [Promise!Next]_(Promise!vars)
  <2>1. UNCHANGED <<Blocks, IsComplete, outcome>>
    BY <1>6 DEF Send, recordVars
  <2>2. outcome[c] = "open"
    BY <1>0, <1>6 DEF Send, Goto, OutcomeInv
  <2>3. PICK ext \in Seq(Nat) : sent' = [sent EXCEPT ![c] = ext]
    BY <1>0, <1>6, SendCursor
  <2>4. PICK n \in 1..Len(Blocks) : n = Len(sent'[c]) /\ Len(sent[c]) <= n
    <3>1. /\ CurBlockIdx[c] \in Nat /\ Len(Blocks) \in Nat /\ CurBlockIdx[c] < Len(Blocks)
          /\ Len(sent[c]) \in {CurBlockIdx[c], CurBlockIdx[c] + 1}
      BY <1>0, <1>6, Numbers, SendCursor DEF CursorInv
    <3>2. \/ Len(sent'[c]) = CurBlockIdx[c] + 1
          \/ Len(sent'[c]) = CurBlockIdx[c] + 2 /\ CurBlockIdx[c] + 1 < Len(Blocks)
      BY <1>0, <1>6, SendCursor
    <3> QED BY <3>1, <3>2, SMTT(30)
  <2>5. Len(sent[c]) \in Nat
    BY SentFacts
  <2>6. Got' = [Got EXCEPT ![c] = n]
    BY <1>0, <2>3, <2>4 DEF Got, TypeOK, ClientType
  <2>7. CASE Len(sent[c]) = n
    <3>1. Got' = Got
      BY <2>6, <2>7 DEF Got
    <3> QED BY <2>1, <3>1 DEF Promise!vars, Got
  <2>8. CASE Len(sent[c]) < n
    <3>1. Promise!Deliver(c, n)
      BY <2>1, <2>2, <2>6, <2>8 DEF Promise!Deliver, Got
    <3> QED BY <3>1 DEF Promise!Next
  <2> QED BY <2>4, <2>5, <2>7, <2>8
<1>7. ASSUME NEW c \in Clients,
             \/ AddToRecord(c) \/ UpdateSelf(c) \/ ReleaseSelf(c)
             \/ CheckFinal(c) \/ Leave(c) \/ Register(c) \/ TerminateClient(c)
      PROVE  UNCHANGED <<Blocks, IsComplete, sent, outcome>>
  BY <1>7 DEF AddToRecord, UpdateSelf, ReleaseSelf, CheckFinal, Leave,
       Register, TerminateClient, recordVars, clientVars, readVars
<1>8. ASSUME NEW c \in Clients, Acquire(c)
       PROVE  [Promise!Next]_(Promise!vars)
  \* a client that finds itself terminated gives up
  <2>1. UNCHANGED <<Blocks, IsComplete, sent>> /\ outcome[c] = "open"
    BY <1>0, <1>8 DEF Acquire, Goto, OutcomeInv, recordVars, readVars
  <2>2. CASE c \in clientTerminated
    <3>1. outcome' = [outcome EXCEPT ![c] = "failed"]
      BY <1>8, <2>2 DEF Acquire
    <3>2. Promise!GiveUp(c, "failed")
      BY <2>1, <3>1 DEF Promise!GiveUp
    <3> QED BY <3>2 DEF Promise!Next
  <2>3. CASE c \notin clientTerminated
    <3>1. outcome' = outcome
      BY <1>0, <1>8, <2>3 DEF Acquire, TypeOK, ClientType
    <3> QED BY <1>1, <2>1, <3>1
  <2> QED BY <2>2, <2>3
<1>9. ASSUME NEW c \in Clients, CheckComplete(c)
      PROVE  [Promise!Next]_(Promise!vars)
  <2>1. UNCHANGED <<Blocks, IsComplete, sent>>
    BY <1>9 DEF CheckComplete, recordVars, readVars
  <2>2. outcome[c] = "open" /\ CurBlockIdx[c] \in Final
    BY <1>0, <1>9 DEF CheckComplete, Goto, OutcomeInv
  <2>3. CASE IsComplete
    <3>1. Len(sent[c]) = Len(Blocks)
      BY <1>0, <2>2, <2>3, SentFacts DEF TerminateInv
    <3>2. outcome' = [outcome EXCEPT ![c] = "complete"]
      BY <1>9, <2>3 DEF CheckComplete
    <3>3. Promise!Complete(c)
      BY <2>1, <2>2, <2>3, <3>1, <3>2 DEF Promise!Complete
    <3> QED BY <3>3 DEF Promise!Next
  <2>4. CASE ~IsComplete
    <3>1. outcome' = outcome
      BY <1>0, <1>9, <2>4 DEF CheckComplete, TypeOK, ClientType
    <3> QED BY <1>1, <2>1, <3>1
  <2> QED BY <2>3, <2>4
<1>10. ASSUME NEW c \in Clients, EnterEndToEnd(c) \/ ClientFail(c) \/ ConnectFail(c)
      PROVE  Promise!Next
  <2>1. UNCHANGED <<Blocks, IsComplete, sent>>
    BY <1>10 DEF EnterEndToEnd, ClientFail, ConnectFail, recordVars, readVars
  <2>2. outcome[c] = "open"
    BY <1>0, <1>10 DEF EnterEndToEnd, ClientFail, ConnectFail, Goto, OutcomeInv
  <2>3. PICK how \in {"partial", "failed"} : outcome' = [outcome EXCEPT ![c] = how]
    BY <1>10 DEF EnterEndToEnd, ClientFail, ConnectFail
  <2>4. Promise!GiveUp(c, how)
    BY <2>1, <2>2, <2>3 DEF Promise!GiveUp
  <2> QED BY <2>3, <2>4 DEF Promise!Next
<1> QED
  BY <1>1, <1>2, <1>3, <1>4, <1>5, <1>6, <1>7, <1>9, <1>10, <1>8
     DEF Next, RemoteStep, ServerTerminateStep, ClientStep

\* The detailed record keeps the promise of module Delivery.
THEOREM Refinement == Spec => DeliverySpec
  BY PromiseInit, PromiseStep, Invariance, PTL DEF Spec, DeliverySpec, Promise!Spec
=============================================================================
