----------------------------- MODULE CacheIndex -----------------------------
(***************************************************************************)
(* The index of the cache: Cache::Records and Cache::URIListeners, with    *)
(* several clients that ask for the same URI at the same time, and with    *)
(* the several downloads that this starts.                                 *)
(*                                                                         *)
(* A client makes one request.  So at most one RemoteHandler is created    *)
(* for it, and at most one CacheRecord by that: the client, its            *)
(* RemoteHandler and the record are named by the same member of Clients.   *)
(* A step is one critical section; a section with a lock that others share *)
(* (URIListenersLock taken for reading) has a beginning and an end.        *)
(* What happens between the record and one reader is in RecordStream: here *)
(* a block is appended and its listeners are told in one step.             *)
(***************************************************************************)
EXTENDS Integers, FiniteSets

CONSTANTS
  Clients,    \* the clients, their RemoteHandlers and their CacheRecords
  URIs,       \* the addresses they ask for
  NoClient,
  MaxBlocks,  \* bound on the blocks of one record
  MaxLeaving, \* bound on the clients that are terminated, but by the destructor
              \* of Server
  MaxDeleted  \* bound on the deleted clients: the destructor deletes no more

ASSUME CacheIndexAssumption ==
  /\ NoClient \notin Clients
  /\ MaxBlocks \in Nat /\ MaxLeaving \in Nat /\ MaxDeleted \in Nat
  /\ IsFiniteSet(Clients)

VARIABLES
  uri,            \* ClientHandler::CacheAddress, also RemoteHandler::RemoteAddress
  Records,        \* Cache::Records
  URIListeners,   \* Cache::URIListeners
  asked,          \* the keys of URIListeners
  Listeners,      \* CacheRecord::Listeners
  NumBlocks,      \* the size of CacheRecord::Blocks
  CacheBlocksNum, \* ClientHandler::CacheBlocksNum
  cacheMutex,     \* the client that holds Server::CacheMutex
  clientPc,       \* where each client's thread is
  found,          \* the record TryGetRecord has returned to Cache::AddListener
  removePc,       \* where the Terminate of each client is, in whatever thread
  remotePc,       \* where each RemoteHandler's thread is
  CR,             \* RemoteHandler::CR
  made,           \* history: records that have been put into Records
  serverPc,       \* where the server thread, or the destructor of Server, is
  victim,         \* the client that the destructor of Server is deleting
  late,           \* history: downloads started when there was a record
  early,          \* history: clients terminated before they were registered
  raced,          \* history: URIs whose listener set two threads used at a time
  flooded         \* history: clients whose count of blocks went down

indexVars  == <<Records, URIListeners, asked, raced>>
recordVars == <<Listeners, NumBlocks, CacheBlocksNum, flooded>>
clientVars == <<clientPc, found, cacheMutex>>
removeVars == <<removePc, early>>
remoteVars == <<remotePc, CR, made, late>>
serverVars == <<serverPc, victim>>
vars == <<uri, indexVars, recordVars, clientVars, removeVars, remoteVars, serverVars>>

ClientPcs == {"new", "register", "connect", "insert", "find", "add", "wait",
              "leave", "gone"}
RemovePcs == {"idle", "erasing", "record", "done"}
ServerPcs == {"serve", "destroy", "join"}
RemotePcs == {"none", "send", "read", "create", "put", "visit", "append", "done"}

-----------------------------------------------------------------------------
Init ==
  /\ uri \in [Clients -> URIs]
  /\ Records = [u \in URIs |-> NoClient]
  /\ URIListeners = [u \in URIs |-> {}] /\ asked = {} /\ raced = {}
  /\ Listeners = [r \in Clients |-> {}]
  /\ NumBlocks = [r \in Clients |-> 0]
  /\ CacheBlocksNum = [c \in Clients |-> 0] /\ flooded = {}
  /\ clientPc = [c \in Clients |-> "new"]
  /\ found = [c \in Clients |-> NoClient] /\ cacheMutex = NoClient
  /\ removePc = [c \in Clients |-> "idle"] /\ early = {}
  /\ remotePc = [r \in Clients |-> "none"]
  /\ CR = [r \in Clients |-> NoClient]
  /\ made = {} /\ late = {}
  /\ serverPc = "serve" /\ victim = NoClient

\* Others are inside a section with URIListenersLock taken for reading.
URIListenersRead ==
  \E c \in Clients : removePc[c] = "erasing" \/ remotePc[c] = "visit"

\* ... and use the set of this URI.
Erasing(u) == \E c \in Clients : uri[c] = u /\ removePc[c] = "erasing"
Visiting(u) == \E r \in Clients : uri[r] = u /\ remotePc[r] = "visit"

-----------------------------------------------------------------------------
(* A client's thread in Server::AddCacheListener *)

\* Mutant of HasRecord: CacheMutex is not locked yet.
MutHasRecordUnlocked(c) ==
  /\ clientPc[c] = "new"
  /\ clientPc' = [clientPc EXCEPT ![c] =
                    IF Records[uri[c]] = NoClient THEN "register" ELSE "insert"]
  /\ UNCHANGED <<uri, cacheMutex, indexVars, recordVars, found, removeVars, remoteVars, serverVars>>

\* CacheMutex is locked, and Cache::HasRecord says whether a new RemoteHandler
\* is needed.
HasRecord(c) ==
  /\ clientPc[c] = "new"
  /\ cacheMutex = NoClient
  /\ cacheMutex' = c
  /\ clientPc' = [clientPc EXCEPT ![c] =
                    IF Records[uri[c]] = NoClient THEN "register" ELSE "insert"]
  /\ UNCHANGED <<uri, indexVars, recordVars, found, removeVars, remoteVars, serverVars>>

\* The constructor of RemoteHandler registers it, for which it needs HandlersMutex.
\* The destructor of Server has that locked for good.
Register(c) ==
  /\ clientPc[c] = "register"
  /\ serverPc = "serve"
  /\ clientPc' = [clientPc EXCEPT ![c] = "connect"]
  /\ UNCHANGED <<uri, indexVars, recordVars, found, cacheMutex, removeVars, remoteVars, serverVars>>

\* ConnectTo and Start of the new RemoteHandler.
Connect(c) ==
  /\ clientPc[c] = "connect"
  /\ clientPc' = [clientPc EXCEPT ![c] = "insert"]
  /\ remotePc' = [remotePc EXCEPT ![c] = "send"]
  /\ late' = IF Records[uri[c]] # NoClient THEN late \cup {c} ELSE late
  /\ UNCHANGED <<uri, indexVars, recordVars, found, cacheMutex, removeVars,
                 CR, made, serverVars>>

\* ConnectTo throws: the guard unlocks CacheMutex, and ClientRoutine calls Finish.
ConnectFails(c) ==
  /\ clientPc[c] = "connect"
  /\ clientPc' = [clientPc EXCEPT ![c] = "leave"]
  /\ cacheMutex' = NoClient
  /\ UNCHANGED <<uri, indexVars, recordVars, found, removeVars, remoteVars, serverVars>>

\* Cache::AddListener with URIListenersLock taken for writing.
Insert(c) ==
  /\ clientPc[c] = "insert"
  /\ ~URIListenersRead
  /\ URIListeners' = [URIListeners EXCEPT ![uri[c]] = @ \cup {c}]
  /\ asked' = asked \cup {uri[c]}
  /\ clientPc' = [clientPc EXCEPT ![c] = "find"]
  /\ UNCHANGED <<uri, Records, raced, recordVars, found, cacheMutex, removeVars,
                 remoteVars, serverVars>>

\* Mutant of Find: the result of TryGetRecord is not tested.
MutFindUntested(c) ==
  /\ clientPc[c] = "find"
  /\ found' = [found EXCEPT ![c] = Records[uri[c]]]
  /\ clientPc' = [clientPc EXCEPT ![c] = "add"]
  /\ UNCHANGED <<uri, cacheMutex, indexVars, recordVars, removeVars, remoteVars, serverVars>>

\* Mutant of Find: a record without a block does not count as one.
MutFindFilled(c) ==
  /\ clientPc[c] = "find"
  /\ LET r == Records[uri[c]]
         none == IF r = NoClient THEN TRUE ELSE NumBlocks[r] = 0
     IN  /\ found' = [found EXCEPT ![c] = IF none THEN NoClient ELSE r]
         /\ clientPc' = [clientPc EXCEPT ![c] = IF none THEN "wait" ELSE "add"]
         /\ cacheMutex' = IF none THEN NoClient ELSE cacheMutex
  /\ UNCHANGED <<uri, indexVars, recordVars, removeVars, remoteVars, serverVars>>

\* TryGetRecord.  Without a record, AddCacheListener ends and the client waits.
Find(c) ==
  /\ clientPc[c] = "find"
  /\ found' = [found EXCEPT ![c] = Records[uri[c]]]
  /\ IF found'[c] = NoClient
       THEN /\ clientPc' = [clientPc EXCEPT ![c] = "wait"]
            /\ cacheMutex' = NoClient
       ELSE /\ clientPc' = [clientPc EXCEPT ![c] = "add"]
            /\ UNCHANGED cacheMutex
  /\ UNCHANGED <<uri, indexVars, recordVars, removeVars, remoteVars, serverVars>>

\* The clients in S are told of a record with n blocks: OnCacheRecordUpdate.
\* When the count goes down, the size_t difference is huge, and Release is
\* called until the semaphore overflows and throws.
Tell(S, n) ==
  /\ CacheBlocksNum' = [c \in Clients |-> IF c \in S THEN n ELSE CacheBlocksNum[c]]
  /\ flooded' = flooded \cup {c \in S : CacheBlocksNum[c] > n}

\* Mutant of AddToRecord: a new listener is told with the next block only.
MutUpdateLater(c) ==
  /\ clientPc[c] = "add"
  /\ Listeners' = [Listeners EXCEPT ![found[c]] = @ \cup {c}]
  /\ clientPc' = [clientPc EXCEPT ![c] = "wait"]
  /\ found' = [found EXCEPT ![c] = NoClient]
  /\ cacheMutex' = NoClient
  /\ UNCHANGED <<uri, indexVars, NumBlocks, CacheBlocksNum, flooded, removeVars,
                 remoteVars, serverVars>>

\* CacheRecord::AddListener: the insertion, and OnCacheRecordUpdate.  An
\* exception ends AddCacheListener, and the client finishes.
AddToRecord(c) ==
  /\ clientPc[c] = "add"
  /\ Listeners' = [Listeners EXCEPT ![found[c]] = @ \cup {c}]
  /\ Tell({c}, NumBlocks[found[c]])
  /\ clientPc' = [clientPc EXCEPT ![c] =
                    IF CacheBlocksNum[c] > NumBlocks[found[c]] THEN "leave" ELSE "wait"]
  /\ found' = [found EXCEPT ![c] = NoClient]
  /\ cacheMutex' = NoClient
  /\ UNCHANGED <<uri, indexVars, NumBlocks, removeVars, remoteVars, serverVars>>

-----------------------------------------------------------------------------
(* A client ends *)

\* Mutant of StopReading: a client also gives up when nothing wakes it.
MutGiveUp(c) ==
  /\ clientPc[c] = "wait"
  /\ clientPc' = [clientPc EXCEPT ![c] = "leave"]
  /\ UNCHANGED <<uri, indexVars, recordVars, found, cacheMutex, removeVars, remoteVars, serverVars>>

\* A client that has been woken stops reading the cache: Finish, at once or after it
\* has rewritten its request for the end-to-end relay.  One that was terminated
\* before it waited ends its routine without Finish, and stays until the destructor.
StopReading(c) ==
  /\ clientPc[c] = "wait"
  /\ CacheBlocksNum[c] > 0
  /\ c \notin early
  /\ clientPc' = [clientPc EXCEPT ![c] = "leave"]
  /\ UNCHANGED <<uri, indexVars, recordVars, found, cacheMutex, removeVars, remoteVars, serverVars>>

\* The client's own thread may be in Finish.
MayFinish(c) == clientPc[c] \in {"new", "leave"}

\* The beginning of Cache::RemoveListener, which takes URIListenersLock for reading:
\* whoever else uses the set has taken it for reading too.
RemoveBegin(c) ==
  /\ early' = IF clientPc[c] \in {"wait", "leave"} THEN early ELSE early \cup {c}
  /\ removePc' = [removePc EXCEPT ![c] = IF uri[c] \in asked THEN "erasing" ELSE "done"]
  /\ raced' = IF uri[c] \in asked /\ (Erasing(uri[c]) \/ Visiting(uri[c]))
                THEN raced \cup {uri[c]} ELSE raced

\* Mutant of Terminate: _IsTerminated is not tested.
MutTerminateAgain(c) ==
  /\ removePc[c] \in {"idle", "done"}
  /\ clientPc[c] # "gone"
  /\ serverPc = "serve" \/ MayFinish(c)
  /\ RemoveBegin(c)
  /\ UNCHANGED <<uri, Records, URIListeners, asked, recordVars, clientVars, remoteVars, serverVars>>

\* ClientHandler::Terminate, by the client's own thread, or by the server thread when
\* the client has been idle for too long.  A second Terminate returns at once.
Terminate(c) ==
  /\ removePc[c] = "idle"
  /\ serverPc = "serve" \/ MayFinish(c)
  /\ Cardinality({d \in Clients : removePc[d] # "idle"}) < MaxLeaving
  /\ RemoveBegin(c)
  /\ UNCHANGED <<uri, Records, URIListeners, asked, recordVars, clientVars, remoteVars, serverVars>>

\* Mutant of EraseEnd: RemoveListener returns before it has looked for the record.
MutEraseOnly(c) ==
  /\ removePc[c] = "erasing"
  /\ URIListeners' = [URIListeners EXCEPT ![uri[c]] = @ \ {c}]
  /\ removePc' = [removePc EXCEPT ![c] = "done"]
  /\ UNCHANGED <<uri, Records, asked, raced, recordVars, clientVars, early, remoteVars, serverVars>>

\* The erasure is done.  After a race, anything may be left of the set.
EraseEnd(c) ==
  /\ removePc[c] = "erasing"
  /\ \E left \in SUBSET URIListeners[uri[c]] :
       /\ uri[c] \notin raced => left = URIListeners[uri[c]] \ {c}
       /\ URIListeners' = [URIListeners EXCEPT ![uri[c]] = left]
  /\ removePc' = [removePc EXCEPT ![c] = "record"]
  /\ UNCHANGED <<uri, Records, asked, raced, recordVars, clientVars, early, remoteVars, serverVars>>

\* TryGetRecord, and CacheRecord::RemoveListener.
RemoveFromRecord(c) ==
  /\ removePc[c] = "record"
  /\ Listeners' = [r \in Clients |-> IF r = Records[uri[c]] THEN Listeners[r] \ {c}
                                                            ELSE Listeners[r]]
  /\ removePc' = [removePc EXCEPT ![c] = "done"]
  /\ UNCHANGED <<uri, indexVars, NumBlocks, CacheBlocksNum, flooded, clientVars,
                 early, remoteVars, serverVars>>

\* The client's thread is through with Terminate, and marks itself dead: the
\* server deletes it.
Gone(c) ==
  /\ serverPc = "serve"
  /\ clientPc[c] = "leave"
  /\ removePc[c] = "done"
  /\ clientPc' = [clientPc EXCEPT ![c] = "gone"]
  /\ UNCHANGED <<uri, indexVars, recordVars, found, cacheMutex, removeVars, remoteVars, serverVars>>

-----------------------------------------------------------------------------
(* The destructor of Server *)

\* The destructor of a client begins, with Terminate.  The first client that
\* is deleted stands for the end of the server's loop: the thread is in no Terminate.
\* What the destructor does before that only keeps others from registering.  The
\* RemoteHandlers are deleted in between, in whatever order: each of them is
\* interrupted, and ends (RemoteEnds).
Delete(c) ==
  /\ \/ serverPc = "destroy"
     \/ /\ serverPc = "serve"
        /\ \A d \in Clients : removePc[d] \in {"erasing", "record"} => MayFinish(d)
  /\ clientPc[c] # "gone"
  /\ Cardinality({d \in Clients : clientPc[d] = "gone"}) < MaxDeleted
  /\ serverPc' = "join" /\ victim' = c
  /\ IF removePc[c] = "idle" THEN RemoveBegin(c) ELSE UNCHANGED <<removePc, early, raced>>
  /\ UNCHANGED <<uri, Records, URIListeners, asked, recordVars, clientVars, remoteVars>>

\* Interrupt has ended the client's thread, in poll or in sem_wait, or it ends by
\* itself: Join returns, and the client is gone.
Deleted(c) ==
  /\ serverPc = "join" /\ victim = c
  /\ removePc[c] = "done"
  /\ clientPc[c] \in {"new", "wait", "leave"}
  /\ clientPc' = [clientPc EXCEPT ![c] = "gone"]
  /\ serverPc' = "destroy" /\ victim' = NoClient
  /\ UNCHANGED <<uri, indexVars, recordVars, found, cacheMutex, removeVars, remoteVars>>

-----------------------------------------------------------------------------
(* The thread of a RemoteHandler *)

\* HandleConnect writes RequestBytes, which is a reference to the vector of
\* the client that asked first.
Send(r) ==
  /\ remotePc[r] = "send"
  /\ remotePc' = [remotePc EXCEPT ![r] = "read"]
  /\ UNCHANGED <<uri, indexVars, recordVars, clientVars, removeVars, CR, made, late, serverVars>>

\* ReadToCache: Cache::GetRecord looks for a record, in every call.
LookUp(r) ==
  /\ remotePc[r] = "read"
  /\ IF Records[uri[r]] = NoClient
       THEN remotePc' = [remotePc EXCEPT ![r] = "create"] /\ UNCHANGED CR
       ELSE /\ remotePc' = [remotePc EXCEPT ![r] = "append"]
            /\ CR' = [CR EXCEPT ![r] = Records[uri[r]]]
  /\ UNCHANGED <<uri, indexVars, recordVars, clientVars, removeVars, made, late, serverVars>>

\* Cache::PutRecord under RecordsLock; a record that is there is replaced.
Put(r) ==
  /\ remotePc[r] = "create"
  /\ Records' = [Records EXCEPT ![uri[r]] = r]
  /\ made' = made \cup {r}
  /\ remotePc' = [remotePc EXCEPT ![r] = "put"]
  /\ UNCHANGED <<uri, URIListeners, asked, raced, recordVars, clientVars, removeVars,
                 CR, late, serverVars>>

\* PutRecord takes URIListenersLock for reading, and begins its loop.
VisitBegin(r) ==
  /\ remotePc[r] = "put"
  /\ raced' = IF Erasing(uri[r]) THEN raced \cup {uri[r]} ELSE raced
  /\ remotePc' = [remotePc EXCEPT ![r] = "visit"]
  /\ UNCHANGED <<uri, Records, URIListeners, asked, recordVars, clientVars,
                 removeVars, CR, made, late, serverVars>>

\* The clients of S who would be told of fewer blocks than before.
Above(S, n) == {c \in S : CacheBlocksNum[c] > n}

\* S has been told when such a client threw: the others are not told any more.
Thrown(S, n) == \E c \in S : Above(S, n) = {c}

\* The loop of PutRecord is done.
VisitEnd(r) ==
  /\ remotePc[r] = "visit"
  /\ Above(URIListeners[uri[r]], NumBlocks[r]) = {}
  /\ Tell(URIListeners[uri[r]], NumBlocks[r])
  /\ Listeners' = [Listeners EXCEPT ![r] = @ \cup URIListeners[uri[r]]]
  /\ CR' = [CR EXCEPT ![r] = r]
  /\ remotePc' = [remotePc EXCEPT ![r] = "append"]
  /\ UNCHANGED <<uri, indexVars, NumBlocks, clientVars, removeVars, made, late, serverVars>>

\* OnCacheRecordUpdate throws in the loop of PutRecord: RemoteRoutine calls Finish.
VisitThrows(r) ==
  /\ remotePc[r] = "visit"
  /\ \E told \in SUBSET URIListeners[uri[r]] :
       /\ Thrown(told, NumBlocks[r])
       /\ Tell(told, NumBlocks[r])
       /\ Listeners' = [Listeners EXCEPT ![r] = @ \cup told]
  /\ remotePc' = [remotePc EXCEPT ![r] = "done"]
  /\ UNCHANGED <<uri, indexVars, NumBlocks, clientVars, removeVars, CR, made, late, serverVars>>

\* A block is read and appended, and the listeners are told.
Append(r) ==
  /\ remotePc[r] = "append"
  /\ NumBlocks[CR[r]] < MaxBlocks
  /\ NumBlocks' = [NumBlocks EXCEPT ![CR[r]] = @ + 1]
  /\ Above(Listeners[CR[r]], NumBlocks'[CR[r]]) = {}
  /\ Tell(Listeners[CR[r]], NumBlocks'[CR[r]])
  /\ remotePc' = [remotePc EXCEPT ![r] = "read"]
  /\ UNCHANGED <<uri, indexVars, Listeners, clientVars, removeVars, CR, made, late, serverVars>>

\* NotifyRecordUpdate throws: RemoteRoutine calls Finish.
AppendThrows(r) ==
  /\ remotePc[r] = "append"
  /\ NumBlocks[CR[r]] < MaxBlocks
  /\ NumBlocks' = [NumBlocks EXCEPT ![CR[r]] = @ + 1]
  /\ \E told \in SUBSET Listeners[CR[r]] :
       /\ Thrown(told, NumBlocks'[CR[r]])
       /\ Tell(told, NumBlocks'[CR[r]])
  /\ remotePc' = [remotePc EXCEPT ![r] = "done"]
  /\ UNCHANGED <<uri, indexVars, Listeners, clientVars, removeVars, CR, made, late, serverVars>>

\* The end of the response, an error, the inactivity limit, or the destructor.
RemoteEnds(r) ==
  /\ remotePc[r] \in {"send", "read", "append"}
  /\ remotePc' = [remotePc EXCEPT ![r] = "done"]
  /\ UNCHANGED <<uri, indexVars, recordVars, clientVars, removeVars, CR, made,
                 late, serverVars>>

-----------------------------------------------------------------------------
ClientNext(c) ==
  \/ HasRecord(c) \/ Register(c) \/ Connect(c) \/ ConnectFails(c) \/ Insert(c) \/ Find(c)
  \/ AddToRecord(c) \/ StopReading(c) \/ Gone(c)

RemoveNext(c) ==
  Terminate(c) \/ EraseEnd(c) \/ RemoveFromRecord(c)

RemoteNext(r) ==
  \/ Send(r) \/ LookUp(r) \/ Put(r) \/ VisitBegin(r) \/ VisitEnd(r) \/ VisitThrows(r)
  \/ Append(r) \/ AppendThrows(r) \/ RemoteEnds(r)

Next ==
  \/ \E c \in Clients : ClientNext(c) \/ RemoveNext(c) \/ RemoteNext(c)
  \/ \E c \in Clients : Delete(c) \/ Deleted(c)

Spec == Init /\ [][Next]_vars

-----------------------------------------------------------------------------
\* Every variable has its type; AddListener holds a record when it comes to add
\* the client to it, and a RemoteHandler when it comes to append.
TypeOK ==
  /\ uri \in [Clients -> URIs]
  /\ Records \in [URIs -> Clients \cup {NoClient}]
  /\ URIListeners \in [URIs -> SUBSET Clients]
  /\ asked \subseteq URIs /\ raced \subseteq URIs
  /\ Listeners \in [Clients -> SUBSET Clients]
  /\ NumBlocks \in [Clients -> 0..MaxBlocks]
  /\ CacheBlocksNum \in [Clients -> 0..MaxBlocks]
  /\ cacheMutex \in Clients \cup {NoClient}
  /\ clientPc \in [Clients -> ClientPcs]
  /\ found \in [Clients -> Clients \cup {NoClient}]
  /\ \A c \in Clients : clientPc[c] = "add" => found[c] \in Clients
  /\ removePc \in [Clients -> RemovePcs]
  /\ remotePc \in [Clients -> RemotePcs]
  /\ CR \in [Clients -> Clients \cup {NoClient}]
  /\ \A r \in Clients : remotePc[r] = "append" => CR[r] \in Clients
  /\ made \subseteq Clients /\ late \subseteq Clients
  /\ early \subseteq Clients /\ flooded \subseteq Clients
  /\ serverPc \in ServerPcs /\ victim \in Clients \cup {NoClient}

\* PutRecord of r has still to come to c ...
WillVisit(r, c) ==
  \/ remotePc[r] = "put"
  \/ remotePc[r] = "visit" /\ c \in URIListeners[uri[r]]

\* ... or has been ended by an exception.
PutAborted(r) == r \in made /\ remotePc[r] = "done" /\ CR[r] = NoClient

\* Two records have been put under one URI.
Doubled(u) == \E r, s \in made : r # s /\ uri[r] = u /\ uri[s] = u

\* AddListener inserts a client into URIListeners and then looks for the
\* record, PutRecord enters the record and then looks at URIListeners: in
\* whatever order they meet, a waiting client is a listener of the record that
\* is there now, or PutRecord is still to come to it (Cache.cpp:6-19, 46-58).
ListenersComplete ==
  \A c \in Clients :
    LET R == Records[uri[c]]
    IN  /\ clientPc[c] = "wait" /\ removePc[c] = "idle"
        /\ uri[c] \notin raced /\ R # NoClient
        => c \in Listeners[R] \/ WillVisit(R, c) \/ PutAborted(R)

\* Every listener knows the number of blocks, whichever way it came to be one: by
\* AddListener, by PutRecord, or by both at a time.  With two records of the URI,
\* it knows that of the one that told it last (CacheRecord.cpp:13-23, 50-56).
ListenersKnowCount ==
  \A c, r \in Clients :
    c \in Listeners[r] /\ ~Doubled(uri[r]) => CacheBlocksNum[c] = NumBlocks[r]

\* CacheMutex is held from HasRecord to the registration: for each URI, one
\* download at most is started once there is a record (Server.cpp:29-39).
AtMostOneLateDownload ==
  \A c, d \in late : uri[c] = uri[d] => c = d

\* A record loses no listener it should keep and keeps none it should lose: a
\* deleted client is a listener of a record that has been replaced only, unless
\* the set of the URI was raced for (Cache.cpp:60-74).
DanglingOnlyInReplacedRecord ==
  \A c, r \in Clients :
    clientPc[c] = "gone" /\ c \in Listeners[r] /\ c \notin early
      => Records[uri[r]] # r \/ uri[r] \in raced

\* CacheRecord::RemoveListener erases end() when the client is not a listener.
\* It is one when it has been told of a block, unless the URI has had two records
\* (Cache.cpp:60-74, CacheRecord.cpp:58-62).
RemoveFindsReader ==
  \A c \in Clients :
    removePc[c] = "record" /\ CacheBlocksNum[c] > 0 /\ ~Doubled(uri[c])
      => c \in Listeners[Records[uri[c]]]

\* The count of blocks of a client goes down, and Release is called until the
\* semaphore overflows, only when two records of the URI have been made
\* (ClientHandler.cpp:190-196).
FloodNeedsTwoRecords == \A c \in flooded : Doubled(uri[c])

\* RequestBytes of a RemoteHandler is a reference to a member of the client.  Until
\* the request is sent, only another download of the URI wakes the client, which may
\* then rewrite it for an end-to-end relay, or be deleted.  While the server serves,
\* nothing else deletes it; the destructor of Server deletes a client that sleeps,
\* perhaps before its RemoteHandler (RemoteHandler.hpp:59, RemoteHandler.cpp:116,
\* ClientHandler.cpp:118-121, Server.cpp:148-152).
RequestIsAlive ==
  \A r \in Clients : remotePc[r] = "send" =>
    \/ clientPc[r] \notin {"leave", "gone"}
    \/ clientPc[r] = "gone" /\ serverPc # "serve"
    \/ \E s \in made : s # r /\ uri[s] = uri[r]

=============================================================================
