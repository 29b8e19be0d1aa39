---------------------------- MODULE RecordStream ----------------------------
(***************************************************************************)
(* One CacheRecord while it is being filled and read.                      *)
(*                                                                         *)
(* The thread of one RemoteHandler (Mode::Cache) appends blocks to the     *)
(* record and notifies its listeners; the threads of any number of         *)
(* ClientHandlers read the blocks by index and send them to their sockets, *)
(* sleeping on a semaphore between blocks; the server thread may terminate *)
(* the RemoteHandler, and each ClientHandler, from outside                 *)
(* (TerminateTimedOutHandlers).                                            *)
(*                                                                         *)
(* The module starts at the moment the remote thread has stored the new    *)
(* record in Cache::Records (Cache.cpp:9) and iterates the listeners that  *)
(* were waiting for the URI.  A step is one critical section of the code,  *)
(* or one call on a semaphore or a socket.  A client's CacheEventMutex has *)
(* no variable: its sections by the client thread only read one word, and  *)
(* those of the single remote thread and of the client's own registration  *)
(* are whole steps here.                                                   *)
(***************************************************************************)
EXTENDS Integers, Sequences, FiniteSets

CONSTANTS
  Clients,          \* the ClientHandlers that ask for this record
  NoClient,         \* no client is being notified
  Sizes,            \* sizes a received block may have
  ConcatThreshold,  \* Globals::BufferConcatSizeThreshold
  MaxBlocks         \* bound on the blocks the remote sends

ASSUME RecordStreamAssumption ==
  /\ NoClient \notin Clients
  /\ Sizes \subseteq Nat \ {0}
  /\ ConcatThreshold \in Nat
  /\ MaxBlocks \in Nat

VARIABLES
  Blocks,           \* CacheRecord::Blocks, as the sequence of their sizes
  Final,            \* positions of the blocks with CacheBlock::_IsFinal
  TotalSize,        \* CacheRecord::TotalSize
  IsFinished,       \* CacheRecord::_IsFinished
  IsComplete,       \* CacheRecord::_IsComplete
  Listeners,        \* CacheRecord::Listeners
  remotePc,         \* where the remote thread is
  toNotify,         \* listeners its loop over a listener set has still to visit
  notified,         \* the listener it is notifying
  remoteUpdates,    \* UpdatesNum in its call of OnCacheRecordUpdate
  remoteTerminated, \* RemoteHandler::_IsTerminated
  serverPc,         \* where the server thread is in RemoteHandler::Terminate
  clientTerminated, \* clients with ClientHandler::_IsTerminated
  removing,         \* the client whose listener the server thread has to remove
  early,            \* history: clients it removed before they were registered
  clientPc,         \* where each client thread is
  CacheBlocksNum,   \* ClientHandler::CacheBlocksNum
  UpdatesNum,       \* UpdatesNum in the client's own OnCacheRecordUpdate
  Semaphore,        \* ClientHandler::CacheEventSemaphore
  CurBlockIdx,      \* ClientHandler::CurBlockIdx
  CurBlockPos,      \* ClientHandler::CurBlockPos
  RangeStart,       \* first byte asked for in the end-to-end Range header
  sent,             \* history: positions of the blocks sent to each client
  outcome,          \* history: how each client's reading ended
  eof               \* history: the remote's Read has returned 0

recordVars == <<Blocks, Final, TotalSize, IsFinished, IsComplete>>
remoteVars == <<remotePc, toNotify, notified, remoteUpdates, remoteTerminated, eof>>
readVars   == <<CurBlockIdx, CurBlockPos, sent>>
serverVars == <<serverPc, clientTerminated, removing, early>>
clientVars == <<clientPc, CacheBlocksNum, UpdatesNum, Semaphore, readVars,
                RangeStart, outcome>>
vars == <<recordVars, Listeners, remoteVars, serverVars, clientVars>>

Registering == {"adding", "added", "releasing"}

ClientPcs == Registering \cup
  {"new", "wait", "poll", "checkFinal", "checkComplete", "connect",
   "endToEnd", "leave", "dead", "exit"}

RemotePcs ==
  {"put", "read", "addSize", "notify", "notifying", "release", "loop", "eof",
   "terminate", "setComplete", "finish", "exit"}

ServerPcs == {"idle", "decided", "setComplete", "finish", "done"}

Outcomes == {"open", "complete", "partial", "failed"}

-----------------------------------------------------------------------------
(* Initial states: the record is in Cache::Records, the remote thread is   *)
(* in PutRecord, and "waiting" are the clients it finds in URIListeners.   *)
(* Each of them sleeps already, or is still inside Cache::AddListener:     *)
(* CacheMutex lets one client at a time be there.  The server may already  *)
(* have found the remote idle for too long.                                *)

Init ==
  /\ Blocks = <<>> /\ Final = {} /\ TotalSize = 0
  /\ IsFinished = FALSE /\ IsComplete = FALSE
  /\ Listeners = {}
  /\ \E waiting \in SUBSET Clients, adding \in SUBSET Clients :
       /\ adding \subseteq waiting
       /\ \A c, d \in adding : c = d
       /\ toNotify = waiting
       /\ clientPc = [c \in Clients |-> IF c \in adding THEN "adding"
                                        ELSE IF c \in waiting THEN "wait" ELSE "new"]
  /\ remotePc = "put" /\ notified = NoClient /\ remoteUpdates = 0
  /\ remoteTerminated = FALSE /\ eof = FALSE
  /\ serverPc \in {"idle", "decided"}
  /\ clientTerminated = {} /\ removing = NoClient /\ early = {}
  /\ CacheBlocksNum = [c \in Clients |-> 0]
  /\ UpdatesNum = [c \in Clients |-> 0]
  /\ Semaphore = [c \in Clients |-> 0]
  /\ CurBlockIdx = [c \in Clients |-> 0]
  /\ CurBlockPos = [c \in Clients |-> 0]
  /\ RangeStart = [c \in Clients |-> 0]
  /\ sent = [c \in Clients |-> <<>>]
  /\ outcome = [c \in Clients |-> "open"]

-----------------------------------------------------------------------------
(* CacheRecord *)

\* CacheRecord::ListenersMutex is free: NotifyRecordUpdate holds it while it
\* visits the listeners, every other section on it is a single step.
ListenersUnlocked == remotePc \notin {"notifying", "release"}

\* Mutant of SetComplete: CR->Finish() comes first in Terminate.
MutFinishFirst ==
  /\ IsComplete' = (IsFinished \/ Blocks # <<>>)
  /\ UNCHANGED <<Blocks, Final, TotalSize, IsFinished>>

\* Mutant of SetComplete: every ended record counts as complete.
MutAlwaysComplete ==
  /\ IsComplete' = TRUE
  /\ UNCHANGED <<Blocks, Final, TotalSize, IsFinished>>

\* CacheRecord::SetComplete(IsFinished()).
SetComplete ==
  /\ IsComplete' = IsFinished
  /\ UNCHANGED <<Blocks, Final, TotalSize, IsFinished>>

\* CacheRecord::Finish: nothing at all happens on a record without blocks.
Finish ==
  /\ Final' = IF Blocks = <<>> THEN Final ELSE Final \cup {Len(Blocks)}
  /\ IsFinished' = IF Blocks = <<>> THEN IsFinished ELSE TRUE
  /\ UNCHANGED <<Blocks, TotalSize, IsComplete>>

\* Mutant of NewUpdates: the two counters are subtracted the wrong way round.
MutSwappedCounters(c) == CacheBlocksNum[c] - Len(Blocks)

\* The section of ClientHandler::OnCacheRecordUpdate under CacheEventMutex:
\* the number of Release calls that follow it.
NewUpdates(c) == Len(Blocks) - CacheBlocksNum[c]

-----------------------------------------------------------------------------
(* The remote thread *)

\* One round of the loop in Cache::PutRecord: CacheRecord::AddListener.  The
\* record has no block yet, so OnCacheRecordUpdate posts nothing.
PutListener(c) ==
  /\ remotePc = "put"
  /\ c \in toNotify
  /\ Listeners' = Listeners \cup {c}
  /\ toNotify' = toNotify \ {c}
  /\ UNCHANGED <<recordVars, remotePc, notified, remoteUpdates,
                 remoteTerminated, eof, serverVars, clientVars>>

\* GetRecord returns and RemoteHandler::CR is set.
PutDone ==
  /\ remotePc = "put"
  /\ toNotify = {}
  /\ remotePc' = "read"
  /\ UNCHANGED <<recordVars, Listeners, toNotify, notified, remoteUpdates,
                 remoteTerminated, eof, serverVars, clientVars>>

\* ReadToCache receives s > 0 bytes and AppendBlock pushes the block.
ReadBlock(s) ==
  /\ remotePc = "read"
  /\ Len(Blocks) < MaxBlocks
  /\ Blocks' = Append(Blocks, s)
  /\ remotePc' = "addSize"
  /\ UNCHANGED <<Final, TotalSize, IsFinished, IsComplete, Listeners, toNotify,
                 notified, remoteUpdates, remoteTerminated, eof, serverVars,
                 clientVars>>

\* AppendBlock adds the block to TotalSize, under its own mutex.
AddSize ==
  /\ remotePc = "addSize"
  /\ TotalSize' = TotalSize + Blocks[Len(Blocks)]
  /\ remotePc' = "notify"
  /\ UNCHANGED <<Blocks, Final, IsFinished, IsComplete, Listeners, toNotify,
                 notified, remoteUpdates, remoteTerminated, eof, serverVars,
                 clientVars>>

\* NotifyRecordUpdate takes ListenersMutex.
NotifyBegin ==
  /\ remotePc = "notify"
  /\ toNotify' = Listeners
  /\ remotePc' = "notifying"
  /\ UNCHANGED <<recordVars, Listeners, notified, remoteUpdates,
                 remoteTerminated, eof, serverVars, clientVars>>

\* OnCacheRecordUpdate of the next listener, its section under CacheEventMutex.
NotifyClient(c) ==
  /\ remotePc = "notifying"
  /\ c \in toNotify
  /\ toNotify' = toNotify \ {c}
  /\ notified' = c
  /\ remoteUpdates' = NewUpdates(c)
  /\ CacheBlocksNum' = [CacheBlocksNum EXCEPT ![c] = Len(Blocks)]
  /\ remotePc' = "release"
  /\ UNCHANGED <<recordVars, Listeners, remoteTerminated, eof, serverVars,
                 clientPc, UpdatesNum, Semaphore, readVars, RangeStart, outcome>>

\* Mutant of RemoteRelease: one Release instead of one per new block.
MutReleaseOnce ==
  /\ remotePc = "release"
  /\ Semaphore' = [Semaphore EXCEPT ![notified] = @ + 1]
  /\ remoteUpdates' = 0
  /\ notified' = NoClient
  /\ remotePc' = "notifying"
  /\ UNCHANGED <<recordVars, Listeners, toNotify, remoteTerminated, eof,
                 serverVars, clientPc, CacheBlocksNum, UpdatesNum, readVars,
                 RangeStart, outcome>>

\* ... and its Release calls.
RemoteRelease ==
  /\ remotePc = "release"
  /\ Semaphore' = [Semaphore EXCEPT ![notified] = @ + remoteUpdates]
  /\ remoteUpdates' = 0
  /\ notified' = NoClient
  /\ remotePc' = "notifying"
  /\ UNCHANGED <<recordVars, Listeners, toNotify, remoteTerminated, eof,
                 serverVars, clientPc, CacheBlocksNum, UpdatesNum, readVars,
                 RangeStart, outcome>>

\* All listeners are notified: ListenersMutex is released.
NotifyEnd ==
  /\ remotePc = "notifying"
  /\ toNotify = {}
  /\ remotePc' = "loop"
  /\ UNCHANGED <<recordVars, Listeners, toNotify, notified, remoteUpdates,
                 remoteTerminated, eof, serverVars, clientVars>>

\* The loop condition of RemoteRoutine.  A handler terminated from outside
\* leaves its loop without Finish.
RemoteLoop ==
  /\ remotePc = "loop"
  /\ remotePc' = IF remoteTerminated THEN "exit" ELSE "read"
  /\ UNCHANGED <<recordVars, Listeners, toNotify, notified, remoteUpdates,
                 remoteTerminated, eof, serverVars, clientVars>>

\* ReadToCache receives 0 bytes: the response has ended.
ReadEof ==
  /\ remotePc = "read"
  /\ eof' = TRUE
  /\ remotePc' = "eof"
  /\ UNCHANGED <<recordVars, Listeners, toNotify, notified, remoteUpdates,
                 remoteTerminated, serverVars, clientVars>>

\* ... CR->Finish(), then RemoteHandler::Finish.
EofFinish ==
  /\ remotePc = "eof"
  /\ Finish
  /\ remotePc' = "terminate"
  /\ UNCHANGED <<Listeners, toNotify, notified, remoteUpdates,
                 remoteTerminated, eof, serverVars, clientVars>>

\* Every other end: Poll times out or reports POLLHUP, POLLERR or POLLNVAL,
\* recv fails, or no block can be allocated.  RemoteHandler::Finish.
RemoteFail ==
  /\ remotePc = "read"
  /\ remotePc' = "terminate"
  /\ UNCHANGED <<recordVars, Listeners, toNotify, notified, remoteUpdates,
                 remoteTerminated, eof, serverVars, clientVars>>

\* RemoteHandler::Terminate in the remote thread, in its three sections.
RemoteTerminate ==
  /\ remotePc = "terminate"
  /\ remoteTerminated' = TRUE
  /\ remotePc' = IF remoteTerminated THEN "exit" ELSE "setComplete"
  /\ UNCHANGED <<recordVars, Listeners, toNotify, notified, remoteUpdates, eof,
                 serverVars, clientVars>>

RemoteSetComplete ==
  /\ remotePc = "setComplete"
  /\ SetComplete
  /\ remotePc' = "finish"
  /\ UNCHANGED <<Listeners, toNotify, notified, remoteUpdates,
                 remoteTerminated, eof, serverVars, clientVars>>

RemoteFinish ==
  /\ remotePc = "finish"
  /\ Finish
  /\ remotePc' = "exit"
  /\ UNCHANGED <<Listeners, toNotify, notified, remoteUpdates,
                 remoteTerminated, eof, serverVars, clientVars>>

-----------------------------------------------------------------------------
(* The server thread *)

\* TerminateTimedOutHandlers finds the remote's last I/O too old: the remote
\* thread is in Poll, or has just left it.
Decide ==
  /\ serverPc = "idle" /\ removing = NoClient
  /\ remotePc = "read"
  /\ serverPc' = "decided"
  /\ UNCHANGED <<recordVars, Listeners, remoteVars, clientTerminated, removing,
                 early, clientVars>>

\* RemoteHandler::Terminate in the server thread.  CR is still null while the
\* remote thread is inside GetRecord, and then the record is left alone.
ServerTerminate ==
  /\ serverPc = "decided"
  /\ remoteTerminated' = TRUE
  /\ serverPc' = IF remoteTerminated \/ remotePc = "put" THEN "done"
                 ELSE "setComplete"
  /\ UNCHANGED <<recordVars, Listeners, remotePc, toNotify, notified,
                 remoteUpdates, eof, clientTerminated, removing, early, clientVars>>

ServerSetComplete ==
  /\ serverPc = "setComplete"
  /\ SetComplete
  /\ serverPc' = "finish"
  /\ UNCHANGED <<Listeners, remoteVars, clientTerminated, removing, early, clientVars>>

ServerFinish ==
  /\ serverPc = "finish"
  /\ Finish
  /\ serverPc' = "done"
  /\ UNCHANGED <<Listeners, remoteVars, clientTerminated, removing, early, clientVars>>

\* TerminateTimedOutHandlers finds a client's last I/O too old: it sleeps, or
\* waits for CacheMutex behind slow connects, and may have gone on since.
\* ClientHandler::Terminate in the server thread ...
TerminateClient(c) ==
  /\ serverPc \in {"idle", "done"} /\ removing = NoClient
  /\ c \notin clientTerminated
  /\ clientTerminated' = clientTerminated \cup {c}
  /\ removing' = c
  /\ UNCHANGED <<recordVars, Listeners, remoteVars, serverPc, early, clientVars>>

\* The client is through AddToRecord or PutListener, whichever comes last.
Registered(c) ==
  /\ clientPc[c] \notin {"new", "adding"}
  /\ ~(remotePc = "put" /\ c \in toNotify)

\* ... and its Cache::RemoveListener.  URIListeners is erased from with a lock
\* for reading, so a PutRecord that iterates it may still meet the client.
RemoveTimedOut ==
  /\ removing # NoClient
  /\ ListenersUnlocked
  /\ Listeners' = Listeners \ {removing}
  /\ toNotify' \in {toNotify, toNotify \ {removing}}
  /\ early' = IF Registered(removing) THEN early ELSE early \cup {removing}
  /\ removing' = NoClient
  /\ UNCHANGED <<recordVars, remotePc, notified, remoteUpdates, remoteTerminated,
                 eof, serverPc, clientTerminated, clientVars>>

-----------------------------------------------------------------------------
(* The client threads *)

Goto(c, from, to) ==
  /\ clientPc[c] = from
  /\ clientPc' = [clientPc EXCEPT ![c] = to]

\* Server::AddCacheListener finds the record; CacheMutex admits one client,
\* and Cache::AddListener waits for PutRecord to unlock URIListenersLock.
Register(c) ==
  /\ Goto(c, "new", "adding")
  /\ remotePc # "put"
  /\ \A d \in Clients : clientPc[d] \notin Registering
  /\ UNCHANGED <<recordVars, Listeners, remoteVars, serverVars, CacheBlocksNum,
                 UpdatesNum, Semaphore, readVars, RangeStart, outcome>>

\* Mutant of AddToRecord: no registration with a finished record.
MutAddUnlessFinished(c) ==
  /\ Goto(c, "adding", "added")
  /\ ListenersUnlocked
  /\ Listeners' = IF IsFinished THEN Listeners ELSE Listeners \cup {c}
  /\ UNCHANGED <<recordVars, remoteVars, serverVars, CacheBlocksNum, UpdatesNum,
                 Semaphore, readVars, RangeStart, outcome>>

\* Mutant of AddToRecord: AddListener does not call OnCacheRecordUpdate.
MutAddWithoutUpdate(c) ==
  /\ Goto(c, "adding", "wait")
  /\ ListenersUnlocked
  /\ Listeners' = Listeners \cup {c}
  /\ UNCHANGED <<recordVars, remoteVars, serverVars, CacheBlocksNum, UpdatesNum,
                 Semaphore, readVars, RangeStart, outcome>>

\* CacheRecord::AddListener puts the client into the listener set ...
AddToRecord(c) ==
  /\ Goto(c, "adding", "added")
  /\ ListenersUnlocked
  /\ Listeners' = Listeners \cup {c}
  /\ UNCHANGED <<recordVars, remoteVars, serverVars, CacheBlocksNum, UpdatesNum,
                 Semaphore, readVars, RangeStart, outcome>>

\* ... and calls OnCacheRecordUpdate: its section under CacheEventMutex ...
UpdateSelf(c) ==
  /\ Goto(c, "added", "releasing")
  /\ UpdatesNum' = [UpdatesNum EXCEPT ![c] = NewUpdates(c)]
  /\ CacheBlocksNum' = [CacheBlocksNum EXCEPT ![c] = Len(Blocks)]
  /\ UNCHANGED <<recordVars, Listeners, remoteVars, serverVars, Semaphore,
                 readVars, RangeStart, outcome>>

\* Mutant of ReleaseSelf: the blocks are counted again after the section.
MutReleaseRecount(c) ==
  /\ Goto(c, "releasing", "wait")
  /\ Semaphore' = [Semaphore EXCEPT ![c] = @ + CacheBlocksNum[c]]
  /\ UpdatesNum' = [UpdatesNum EXCEPT ![c] = 0]
  /\ UNCHANGED <<recordVars, Listeners, remoteVars, serverVars, CacheBlocksNum,
                 readVars, RangeStart, outcome>>

\* ... and its Release calls; CacheMutex is unlocked and the client waits.
ReleaseSelf(c) ==
  /\ Goto(c, "releasing", "wait")
  /\ Semaphore' = [Semaphore EXCEPT ![c] = @ + UpdatesNum[c]]
  /\ UpdatesNum' = [UpdatesNum EXCEPT ![c] = 0]
  /\ UNCHANGED <<recordVars, Listeners, remoteVars, serverVars, CacheBlocksNum,
                 readVars, RangeStart, outcome>>

\* WaitForCacheRecordUpdate: Acquire returns, POLLOUT is polled again, unless
\* the loop condition of ClientRoutine finds the client terminated.  It then
\* ends without MarkDeadHandler.
Acquire(c) ==
  /\ Goto(c, "wait", IF c \in clientTerminated THEN "exit" ELSE "poll")
  /\ Semaphore[c] > 0
  /\ Semaphore' = [Semaphore EXCEPT ![c] = @ - 1]
  /\ outcome' = [outcome EXCEPT ![c] = IF c \in clientTerminated THEN "failed" ELSE @]
  /\ UNCHANGED <<recordVars, Listeners, remoteVars, serverVars, CacheBlocksNum,
                 UpdatesNum, readVars, RangeStart>>

\* Mutant of Send: the cursor's position starts anew with every block.
MutSendResetsPos(c) ==
  LET cur      == CurBlockIdx[c] + 1
      bytesNum == Blocks[cur] - CurBlockPos[c]
      concat   == cur < Len(Blocks) /\ bytesNum < ConcatThreshold
  IN
  /\ cur <= Len(Blocks)
  /\ Goto(c, "poll", "checkFinal")
  /\ CurBlockPos' = [CurBlockPos EXCEPT ![c] = 0]
  /\ CurBlockIdx' = [CurBlockIdx EXCEPT ![c] = cur]
  /\ sent' = [sent EXCEPT ![c] =
                @ \o (IF bytesNum > 0 THEN <<cur>> ELSE <<>>)
                  \o (IF concat THEN <<cur + 1>> ELSE <<>>)]
  /\ UNCHANGED <<recordVars, Listeners, remoteVars, serverVars, CacheBlocksNum,
                 UpdatesNum, Semaphore, RangeStart, outcome>>

\* The socket is writable: SendRecordFromCache up to the advance of its
\* cursor.  What is left of the current block is sent, with the whole next
\* block behind it when little is left.  send() on a blocking socket takes
\* all bytes, so the current block is always finished.  Without a current
\* block POLLOUT is removed, Poll has nothing to poll and the client waits.
Send(c) ==
  LET cur      == CurBlockIdx[c] + 1
      bytesNum == Blocks[cur] - CurBlockPos[c]
      concat   == cur < Len(Blocks) /\ bytesNum < ConcatThreshold
      written  == IF concat THEN bytesNum + Blocks[cur + 1] ELSE bytesNum
  IN
  /\ CacheBlocksNum[c] > 0
  /\ IF cur <= Len(Blocks)
       THEN /\ Goto(c, "poll", "checkFinal")
            /\ CurBlockPos' = [CurBlockPos EXCEPT ![c] = @ + written - Blocks[cur]]
            /\ CurBlockIdx' = [CurBlockIdx EXCEPT ![c] = cur]
            /\ sent' = [sent EXCEPT ![c] =
                          @ \o (IF bytesNum > 0 THEN <<cur>> ELSE <<>>)
                            \o (IF concat THEN <<cur + 1>> ELSE <<>>)]
       ELSE Goto(c, "poll", "wait") /\ UNCHANGED readVars
  /\ UNCHANGED <<recordVars, Listeners, remoteVars, serverVars, CacheBlocksNum,
                 UpdatesNum, Semaphore, RangeStart, outcome>>

\* Poll reports POLLHUP, POLLERR or POLLNVAL, times out, or send() fails.
ClientFail(c) ==
  /\ Goto(c, "poll", "leave")
  /\ outcome' = [outcome EXCEPT ![c] = "failed"]
  /\ UNCHANGED <<recordVars, Listeners, remoteVars, serverVars, CacheBlocksNum,
                 UpdatesNum, Semaphore, readVars, RangeStart>>

\* Mutant of CheckFinal: looks at the block the cursor has advanced to.
MutCheckNextFinal(c) ==
  /\ Goto(c, "checkFinal", IF CurBlockIdx[c] + 1 \in Final THEN "checkComplete"
                           ELSE "wait")
  /\ UNCHANGED <<recordVars, Listeners, remoteVars, serverVars, CacheBlocksNum,
                 UpdatesNum, Semaphore, readVars, RangeStart, outcome>>

\* CurBlock->IsFinal(): the block just finished, not the cursor's new one.
CheckFinal(c) ==
  /\ Goto(c, "checkFinal", IF CurBlockIdx[c] \in Final THEN "checkComplete"
                           ELSE "wait")
  /\ UNCHANGED <<recordVars, Listeners, remoteVars, serverVars, CacheBlocksNum,
                 UpdatesNum, Semaphore, readVars, RangeStart, outcome>>

\* ResponseCacheRecord->IsComplete(): Finish, or go on without the cache.
CheckComplete(c) ==
  /\ Goto(c, "checkComplete", IF IsComplete THEN "leave" ELSE "connect")
  /\ outcome' = [outcome EXCEPT ![c] = IF IsComplete THEN "complete" ELSE @]
  /\ UNCHANGED <<recordVars, Listeners, remoteVars, serverVars, CacheBlocksNum,
                 UpdatesNum, Semaphore, readVars, RangeStart>>

\* The Range header asks for the bytes from GetTotalSize() on, and an
\* end-to-end RemoteHandler is connected and started.
EnterEndToEnd(c) ==
  /\ Goto(c, "connect", "endToEnd")
  /\ RangeStart' = [RangeStart EXCEPT ![c] = TotalSize]
  /\ outcome' = [outcome EXCEPT ![c] = "partial"]
  /\ UNCHANGED <<recordVars, Listeners, remoteVars, serverVars, CacheBlocksNum,
                 UpdatesNum, Semaphore, readVars>>

\* Socket::ConnectTo throws, and ClientRoutine calls Finish.
ConnectFail(c) ==
  /\ Goto(c, "connect", "leave")
  /\ outcome' = [outcome EXCEPT ![c] = "failed"]
  /\ UNCHANGED <<recordVars, Listeners, remoteVars, serverVars, CacheBlocksNum,
                 UpdatesNum, Semaphore, readVars, RangeStart>>

\* Mutant of Leave: RemoveListener does not take ListenersMutex.
MutLeaveUnlocked(c) ==
  /\ Goto(c, "leave", "dead")
  /\ clientTerminated' = clientTerminated \cup {c}
  /\ Listeners' = IF c \in clientTerminated THEN Listeners ELSE Listeners \ {c}
  /\ UNCHANGED <<recordVars, remoteVars, serverPc, removing, early,
                 CacheBlocksNum, UpdatesNum, Semaphore, readVars, RangeStart, outcome>>

\* ClientHandler::Finish: CacheRecord::RemoveListener, unless the server has
\* terminated the client before, and MarkDeadHandler, after which the server
\* thread may delete the handler.
Leave(c) ==
  /\ Goto(c, "leave", "dead")
  /\ c \in clientTerminated \/ ListenersUnlocked
  /\ clientTerminated' = clientTerminated \cup {c}
  /\ Listeners' = IF c \in clientTerminated THEN Listeners ELSE Listeners \ {c}
  /\ UNCHANGED <<recordVars, remoteVars, serverPc, removing, early,
                 CacheBlocksNum, UpdatesNum, Semaphore, readVars, RangeStart, outcome>>

-----------------------------------------------------------------------------
RemoteStep ==
  \/ \E c \in Clients : PutListener(c) \/ NotifyClient(c)
  \/ PutDone
  \/ \E s \in Sizes : ReadBlock(s)
  \/ AddSize
  \/ NotifyBegin \/ RemoteRelease \/ NotifyEnd
  \/ RemoteLoop
  \/ ReadEof \/ EofFinish \/ RemoteFail
  \/ RemoteTerminate \/ RemoteSetComplete \/ RemoteFinish

ServerTerminateStep ==
  ServerTerminate \/ ServerSetComplete \/ ServerFinish \/ RemoveTimedOut

\* The steps a registered client thread takes by itself.
ClientStep(c) ==
  \/ AddToRecord(c) \/ UpdateSelf(c) \/ ReleaseSelf(c)
  \/ Acquire(c) \/ Send(c) \/ CheckFinal(c) \/ CheckComplete(c)
  \/ EnterEndToEnd(c) \/ Leave(c)

Next ==
  \/ RemoteStep
  \/ Decide
  \/ ServerTerminateStep
  \/ \E c \in Clients :
       \/ ClientStep(c) \/ Register(c) \/ ClientFail(c) \/ ConnectFail(c)
       \/ TerminateClient(c)

Spec == Init /\ [][Next]_vars

\* A runnable thread runs, and Poll returns after at most ClientTimeoutMSec;
\* nobody has to connect, to hang up, or to be declared idle.
Fairness ==
  /\ WF_vars(RemoteStep)
  /\ WF_vars(ServerTerminateStep)
  /\ \A c \in Clients : WF_vars(ClientStep(c))

FairSpec == Spec /\ Fairness

-----------------------------------------------------------------------------
(* Properties *)

RecordType ==
  /\ Blocks \in Seq(Sizes) /\ Final \subseteq Nat /\ TotalSize \in Nat
  /\ IsFinished \in BOOLEAN /\ IsComplete \in BOOLEAN
  /\ Listeners \subseteq Clients

ThreadType ==
  /\ remotePc \in RemotePcs /\ serverPc \in ServerPcs
  /\ toNotify \subseteq Clients /\ notified \in Clients \cup {NoClient}
  /\ remoteUpdates \in Nat /\ remoteTerminated \in BOOLEAN /\ eof \in BOOLEAN
  /\ clientTerminated \subseteq Clients /\ early \subseteq Clients
  /\ removing \in Clients \cup {NoClient}

ClientType ==
  /\ clientPc \in [Clients -> ClientPcs] /\ outcome \in [Clients -> Outcomes]
  /\ CacheBlocksNum \in [Clients -> Nat] /\ UpdatesNum \in [Clients -> Nat]
  /\ Semaphore \in [Clients -> Nat] /\ CurBlockIdx \in [Clients -> Nat]
  /\ CurBlockPos \in [Clients -> Nat] /\ RangeStart \in [Clients -> Nat]
  /\ sent \in [Clients -> Seq(Nat)]

\* Every variable keeps its type: no size_t of the code goes below zero.
TypeOK == RecordType /\ ThreadType /\ ClientType

\* The remote thread has appended a block and has still to tell c of it.
NotificationDue(c) ==
  \/ remotePc \in {"addSize", "notify"}
  \/ remotePc = "notifying" /\ c \in toNotify
  \/ remotePc = "release" /\ (c \in toNotify \/ c = notified)

\* No lost wakeup: a listener that sleeps on its semaphore, with no notification
\* on its way, has read every block of the record (WaitForCacheRecordUpdate
\* against AppendBlock, AddListener and their OnCacheRecordUpdate calls).
NoSleepOnUnreadBlock ==
  \A c \in Listeners :
    /\ clientPc[c] = "wait"
    /\ Semaphore[c] = 0
    /\ ~NotificationDue(c)
    => CurBlockIdx[c] >= Len(Blocks)

\* A client that was woken finds the block it was woken for, so GetBlock in
\* SendRecordFromCache never returns null to it.
WokenFindsBlock ==
  \A c \in Clients :
    clientPc[c] = "poll" => CurBlockIdx[c] < Len(Blocks) /\ CacheBlocksNum[c] > 0

\* Whatever the sizes and however blocks are joined in one send(), a client
\* is sent each block once and in order: CurBlockIdx and CurBlockPos agree.
InOrderDelivery ==
  \A c \in Clients :
    /\ sent[c] = [i \in 1..Len(sent[c]) |-> i]
    /\ Len(sent[c]) <= Len(Blocks)

\* A client that finishes because the record is complete has been sent the
\* whole response: the remote has seen its end and no block is missing.
CompleteMeansAll ==
  \A c \in Clients : outcome[c] = "complete" => eof /\ Len(sent[c]) = Len(Blocks)

\* A handler that was marked dead, and may be deleted as soon as the server
\* thread is done with it, is not reachable from a notification loop any more,
\* unless it timed out before it was registered: it then stays a listener.
NoDanglingListener ==
  \A c \in Clients :
    clientPc[c] = "dead" /\ removing # c /\ c \notin early =>
      c \notin Listeners \cup toNotify \cup {notified}

\* RemoveListener finds the client that leaves, or that the server thread has
\* terminated once it was registered: Listeners.erase(It) is not called with
\* end(), which CacheRecord.cpp:61 does not exclude.
RemoveFindsListener ==
  \A c \in Clients :
    \/ clientPc[c] = "leave" /\ c \notin clientTerminated
    \/ removing = c /\ Registered(c)
    => c \in Listeners

\* The sum of a sequence of sizes.
Total(sizes) ==
  LET Sum[i \in 0..Len(sizes)] == IF i = 0 THEN 0 ELSE Sum[i - 1] + sizes[i]
  IN Sum[Len(sizes)]

BytesOf(s) == Total([i \in DOMAIN s |-> Blocks[s[i]]])

\* The Range header of the end-to-end request continues the stream where the
\* cache stopped (ClientHandler.cpp:110-111, "the remaining response"), as long
\* as the server thread has not terminated the remote while it was still reading.
RangeContinuesUnlessTimedOut ==
  \A c \in Clients :
    outcome[c] = "partial" /\ serverPc = "idle" => RangeStart[c] = BytesOf(sent[c])

\* Every block of the record is sent to every listener that is still reading
\* and was not terminated.
EveryBlockDelivered ==
  \A c \in Clients, k \in 1..MaxBlocks :
    (Len(Blocks) >= k /\ c \in Listeners) ~>
      (Len(sent[c]) >= k \/ outcome[c] # "open" \/ c \in clientTerminated)

\* ClientHandler.cpp:130, after a block was sent: "Wait until new cache block
\* arrives".  Every such wait should end.
WaitEnds ==
  \A c \in Clients :
    clientPc[c] = "wait" /\ CurBlockIdx[c] > 0 ~> clientPc[c] # "wait"

-----------------------------------------------------------------------------
(* The inductive invariant, in parts *)

\* Where the remote thread is decides what its loop variables hold; a client's
\* own UpdatesNum lives only inside its OnCacheRecordUpdate.
ControlInv ==
  /\ remotePc # "release" => notified = NoClient /\ remoteUpdates = 0
  /\ remotePc = "release" => notified \in Clients
  /\ remotePc \notin {"put", "notifying", "release"} => toNotify = {}
  /\ remotePc = "put" => Blocks = <<>>
  /\ remotePc \in {"addSize", "notify", "notifying", "release"} => Blocks # <<>>
  /\ \A c \in Clients : clientPc[c] # "releasing" => UpdatesNum[c] = 0

\* Who is registered with the record.
RegistrationInv ==
  /\ remotePc = "notifying" => toNotify \subseteq Listeners
  /\ remotePc = "release" => toNotify \cup {notified} \subseteq Listeners
  /\ \A c \in Clients :
       /\ Registered(c) /\ (c \in clientTerminated => removing = c) => c \in Listeners
       /\ remotePc = "put" => clientPc[c] \in Registering \cup {"new", "wait"}

\* Who is not: a terminated client, once the server thread has removed it, is
\* never registered again, unless it was removed too early.
TimeoutInv ==
  /\ removing \in clientTerminated \cup {NoClient}
  /\ \A c \in Clients :
       /\ clientPc[c] = "dead" => c \in clientTerminated
       /\ c \in clientTerminated /\ (c \in Listeners \/ ~Registered(c)) =>
            removing = c \/ c \in early

\* The permits of c: posted, about to be posted by either thread, or used.
Permits(c) ==
  Semaphore[c] + UpdatesNum[c] + (IF notified = c THEN remoteUpdates ELSE 0)
    + CurBlockIdx[c] + (IF clientPc[c] = "poll" THEN 1 ELSE 0)

\* One permit is made for every block that was counted, and none is lost.
PermitInv ==
  \A c \in Clients :
    /\ CacheBlocksNum[c] <= Len(Blocks)
    /\ CurBlockIdx[c] <= Len(Blocks)
    /\ clientPc[c] \notin {"leave", "dead", "exit"} => Permits(c) = CacheBlocksNum[c]

\* The blocks of c have been counted, unless the remote thread is about to.
UpToDateInv ==
  \A c \in Clients :
    \/ clientPc[c] \in {"new", "adding", "added", "leave", "dead", "exit"}
    \/ remotePc # "put" /\ c \notin Listeners
    \/ remotePc \in {"addSize", "notify"}
    \/ remotePc \in {"notifying", "release"} /\ c \in toNotify
    \/ CacheBlocksNum[c] = Len(Blocks)

\* The cursor and the blocks sent: nothing of the current block is sent, or
\* all of it went out joined to the block before.
CursorInv ==
  \A c \in Clients :
    /\ sent[c] = [i \in 1..Len(sent[c]) |-> i]
    /\ \/ Len(sent[c]) = CurBlockIdx[c] /\ CurBlockPos[c] = 0
       \/ /\ Len(sent[c]) = CurBlockIdx[c] + 1
          /\ CurBlockIdx[c] < Len(Blocks)
          /\ CurBlockPos[c] = Blocks[CurBlockIdx[c] + 1]

Ending == {"setComplete", "finish"}

\* One thread at most runs the body of RemoteHandler::Terminate, once, and
\* until its SetComplete only the end of the response can finish the record.
TerminateInv ==
  /\ serverPc \in Ending \/ remotePc \in Ending => remoteTerminated
  /\ ~(serverPc \in Ending /\ remotePc \in Ending)
  /\ ~remoteTerminated \/ serverPc = "setComplete" \/ remotePc = "setComplete" =>
       /\ ~IsComplete
       /\ IF IsFinished THEN eof /\ Final = {Len(Blocks)} ELSE Final = {}
  /\ IsComplete => eof /\ Final = {Len(Blocks)}
  /\ remotePc = "eof" => eof
  /\ eof => remotePc \in Ending \cup {"eof", "terminate", "exit"}

\* How a client's reading ends.
OutcomeInv ==
  \A c \in Clients :
    /\ clientPc[c] = "checkComplete" => CurBlockIdx[c] \in Final
    /\ outcome[c] # "open" => clientPc[c] \in {"leave", "dead", "exit", "endToEnd"}
    /\ outcome[c] = "complete" => IsComplete /\ Len(sent[c]) = Len(Blocks)

\* TotalSize is the sum of the sizes, but for a block that AppendBlock is adding.
TotalInv ==
  Total(Blocks) = TotalSize + IF remotePc = "addSize" THEN Blocks[Len(Blocks)] ELSE 0

\* As long as the server thread leaves the remote alone, no block follows the
\* final one, and a client goes on without the cache from there.
RangeInv ==
  serverPc = "idle" =>
    /\ Final # {} => /\ Final = {Len(Blocks)}
                     /\ remotePc \in Ending \cup {"terminate", "exit"}
    /\ \A c \in Clients :
         /\ clientPc[c] = "connect" \/ outcome[c] = "partial" => CurBlockIdx[c] \in Final
         /\ outcome[c] = "partial" => RangeStart[c] = TotalSize /\ clientPc[c] = "endToEnd"

IInv ==
  /\ TypeOK
  /\ ControlInv
  /\ RegistrationInv
  /\ TimeoutInv
  /\ PermitInv
  /\ UpToDateInv
  /\ CursorInv
  /\ TerminateInv
  /\ OutcomeInv

-----------------------------------------------------------------------------
\* What the record promises to its readers, in the terms of module Delivery.
Promise == INSTANCE Delivery WITH
  stream <- Blocks,
  closed <- IsComplete,
  got    <- [c \in Clients |-> Len(sent[c])]

DeliverySpec == Promise!Spec
=============================================================================
