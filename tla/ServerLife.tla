----------------------------- MODULE ServerLife -----------------------------
(***************************************************************************)
(* The life of the handlers: who creates, terminates, marks, erases, joins *)
(* and deletes them, and how the server shuts down.                        *)
(*                                                                         *)
(* The actors are the server thread (Server::StartImpl, followed by the    *)
(* destructor that the main thread runs when it has ended), the thread of  *)
(* the ServerHandler that accepts clients, the threads of ClientHandlers   *)
(* and those of the RemoteHandlers that clients create.  HandlersMutex and *)
(* DeadHandlersMutex are held across several steps by the server only, so  *)
(* serverPc says when they are taken; CacheMutex is held by a client while *)
(* it creates a RemoteHandler.                                             *)
(*                                                                         *)
(* What goes over the sockets, and who posts a client's semaphore, is in   *)
(* RecordStream: here a handled event ends in any way the code allows.     *)
(* End-to-end connections are left out.                                    *)
(***************************************************************************)
EXTENDS Integers, FiniteSets

CONSTANTS
  Clients,    \* the ClientHandlers that may be created
  Remotes,    \* the RemoteHandlers that may be created
  SrvHandler, \* the ServerHandler
  NoHandler

ASSUME ServerLifeAssumption ==
  /\ Clients \cap Remotes = {}
  /\ SrvHandler \notin Clients \cup Remotes
  /\ NoHandler \notin Clients \cup Remotes \cup {SrvHandler}
  /\ IsFiniteSet(Clients) /\ IsFiniteSet(Remotes)

AllHandlers == Clients \cup Remotes \cup {SrvHandler}

VARIABLES
  Handlers,          \* Server::Handlers
  DeadHandlers,      \* Server::DeadHandlers
  ServerTasks,       \* Server::ServerTasksSemaphore
  serverTerminated,  \* Server::_IsTerminated
  serverPc,          \* where the server thread, or the destructor, is
  toErase,           \* what its loop over DeadHandlers or Handlers has still to visit
  victim,            \* the handler it is deleting
  pc,                \* where each handler's thread is
  terminated,        \* handlers with _IsTerminated
  requested,         \* clients with RequestFinished
  child,             \* the handler that each handler is creating
  cacheMutex,        \* the client that holds Server::CacheMutex
  interrupted,       \* handlers with ThreadDataBase::InterruptRequested
  timedOut,          \* history: handlers found inactive for too long
  deleted            \* history: handlers whose destructor has run

serverVars  == <<ServerTasks, serverTerminated, serverPc, toErase, victim>>
threadVars  == <<pc, requested, child, cacheMutex>>
vars == <<Handlers, DeadHandlers, serverVars, threadVars, terminated,
          interrupted, timedOut, deleted>>

Pcs == {"none", "created", "loop", "poll", "handle", "cache", "register",
        "start", "sleep", "finish", "leaving", "done"}

ServerPcs == {"check", "acquire", "erase", "erasing", "joining",
              "timeouts", "stuck", "destroy", "destroyJoin", "crashed", "gone"}

\* Mutant of HandlersUnlocked: the destructor does not lock HandlersMutex.
MutDestroyUnlocked == serverPc # "joining"

\* Server::HandlersMutex can be taken: RemoveHandler holds it while it joins
\* the thread, and the destructor of Server all the time.
HandlersUnlocked ==
  serverPc \notin {"joining", "destroy", "destroyJoin", "crashed", "gone"}

\* Mutant of DeadHandlersUnlocked: the set is not locked while it is visited.
MutMarkUnlocked == TRUE


\* Server::DeadHandlersMutex can be taken.
DeadHandlersUnlocked == serverPc \notin {"erasing", "joining"}

-----------------------------------------------------------------------------
\* RegisterHandler(SrvHandler) and its Start: the server enters its loop.
Init ==
  /\ Handlers = {SrvHandler} /\ DeadHandlers = {} /\ ServerTasks = 0
  /\ serverTerminated = FALSE /\ serverPc = "check"
  /\ toErase = {} /\ victim = NoHandler
  /\ pc = [h \in AllHandlers |-> IF h = SrvHandler THEN "loop" ELSE "none"]
  /\ terminated = {} /\ requested = {}
  /\ child = [h \in AllHandlers |-> NoHandler]
  /\ cacheMutex = NoHandler
  /\ interrupted = {} /\ timedOut = {} /\ deleted = {}

Goto(h, from, to) ==
  /\ pc[h] = from
  /\ pc' = [pc EXCEPT ![h] = to]

-----------------------------------------------------------------------------
(* The threads of the handlers *)

\* The loop condition of ServerRoutine, ClientRoutine and RemoteRoutine.
Loop(h) ==
  /\ Goto(h, "loop", IF h \in terminated THEN "done" ELSE "poll")
  /\ UNCHANGED <<Handlers, DeadHandlers, serverVars, terminated, requested,
                 child, cacheMutex, interrupted, timedOut, deleted>>

\* Poll returns and passes its InterruptionPoint: the thread is interrupted,
\* has an event to handle, or has waited for ClientTimeoutMSec.
PollReturns(h) ==
  /\ \E to \in {"handle", "finish"} :
       Goto(h, "poll", IF h \in interrupted THEN "done" ELSE to)
  /\ UNCHANGED <<Handlers, DeadHandlers, serverVars, terminated, requested,
                 child, cacheMutex, interrupted, timedOut, deleted>>

\* Handle without the server: a read, a write, an incomplete request.  When it
\* returns, an InterruptionPoint follows.
HandleData(h) ==
  /\ h \in Clients => h \notin requested
  /\ Goto(h, "handle", IF h \in interrupted THEN "done" ELSE "loop")
  /\ UNCHANGED <<Handlers, DeadHandlers, serverVars, terminated, requested,
                 child, cacheMutex, interrupted, timedOut, deleted>>

\* Handle that ends in Finish: an error, the end of the input or of the record.
HandleEnd(h) ==
  /\ Goto(h, "handle", "finish")
  /\ UNCHANGED <<Handlers, DeadHandlers, serverVars, terminated, requested,
                 child, cacheMutex, interrupted, timedOut, deleted>>

\* A client has sent a block and waits for the next: sem_wait.
HandleBlock(c) ==
  /\ c \in Clients \cap requested
  /\ Goto(c, "handle", "sleep")
  /\ UNCHANGED <<Handlers, DeadHandlers, serverVars, terminated, requested,
                 child, cacheMutex, interrupted, timedOut, deleted>>

\* A client's request is complete: Server::AddCacheListener.
HandleRequest(c) ==
  /\ c \in Clients \ requested
  /\ Goto(c, "handle", "cache")
  /\ UNCHANGED <<Handlers, DeadHandlers, serverVars, terminated, requested,
                 child, cacheMutex, interrupted, timedOut, deleted>>

\* CacheMutex is locked.  The record exists, and the client waits for it; or
\* a new RemoteHandler registers itself in its constructor.
CacheHit(c) ==
  /\ cacheMutex = NoHandler
  /\ Goto(c, "cache", "sleep")
  /\ requested' = requested \cup {c}
  /\ UNCHANGED <<Handlers, DeadHandlers, serverVars, terminated, child,
                 cacheMutex, interrupted, timedOut, deleted>>

CacheMiss(c, r) ==
  /\ cacheMutex = NoHandler
  /\ r \in Remotes /\ pc[r] = "none" /\ \A h \in AllHandlers : child[h] # r
  /\ Goto(c, "cache", "register")
  /\ child' = [child EXCEPT ![c] = r]
  /\ cacheMutex' = c
  /\ UNCHANGED <<Handlers, DeadHandlers, serverVars, terminated, requested,
                 interrupted, timedOut, deleted>>

\* The ServerHandler accepts a connection.
Accept(c) ==
  /\ c \in Clients /\ pc[c] = "none" /\ \A h \in AllHandlers : child[h] # c
  /\ Goto(SrvHandler, "handle", "register")
  /\ child' = [child EXCEPT ![SrvHandler] = c]
  /\ UNCHANGED <<Handlers, DeadHandlers, serverVars, terminated, requested,
                 cacheMutex, interrupted, timedOut, deleted>>

\* Mutant of Register: the new handler is inserted by nobody.
MutRegisterForgets(h) ==
  /\ HandlersUnlocked
  /\ pc[h] = "register"
  /\ pc' = [pc EXCEPT ![h] = "start", ![child[h]] = "created"]
  /\ UNCHANGED <<Handlers, DeadHandlers, serverVars, terminated, requested,
                 child, cacheMutex, interrupted, timedOut, deleted>>

\* Server::RegisterHandler.
Register(h) ==
  /\ HandlersUnlocked
  /\ pc[h] = "register"
  /\ Handlers' = Handlers \cup {child[h]}
  /\ pc' = [pc EXCEPT ![h] = "start", ![child[h]] = "created"]
  /\ UNCHANGED <<DeadHandlers, serverVars, terminated, requested, child,
                 cacheMutex, interrupted, timedOut, deleted>>

\* The new ClientHandler is started ...
StartClient ==
  /\ pc[SrvHandler] = "start"
  /\ pc' = [pc EXCEPT ![SrvHandler] =
                                    IF SrvHandler \in interrupted THEN "done" ELSE "loop",
                      ![child[SrvHandler]] = "loop"]
  /\ child' = [child EXCEPT ![SrvHandler] = NoHandler]
  /\ UNCHANGED <<Handlers, DeadHandlers, serverVars, terminated, requested,
                 cacheMutex, interrupted, timedOut, deleted>>

\* ... and so is the new RemoteHandler, once it is connected.  CacheMutex is
\* unlocked, and the client waits for its record.
StartRemote(c) ==
  /\ c \in Clients
  /\ pc[c] = "start"
  /\ pc' = [pc EXCEPT ![c] = "sleep", ![child[c]] = "loop"]
  /\ requested' = requested \cup {c}
  /\ child' = [child EXCEPT ![c] = NoHandler]
  /\ cacheMutex' = NoHandler
  /\ UNCHANGED <<Handlers, DeadHandlers, serverVars, terminated, interrupted,
                 timedOut, deleted>>

\* ConnectTo throws: the client finishes.  The RemoteHandler stays registered,
\* and its thread is never started.
ConnectFails(c) ==
  /\ c \in Clients
  /\ Goto(c, "start", "finish")
  /\ child' = [child EXCEPT ![c] = NoHandler]
  /\ cacheMutex' = NoHandler
  /\ UNCHANGED <<Handlers, DeadHandlers, serverVars, terminated, requested,
                 interrupted, timedOut, deleted>>

\* sem_wait returns because the semaphore was posted.
Wake(c) ==
  /\ Goto(c, "sleep", IF c \in interrupted THEN "done" ELSE "loop")
  /\ UNCHANGED <<Handlers, DeadHandlers, serverVars, terminated, requested,
                 child, cacheMutex, interrupted, timedOut, deleted>>

\* Mutant of Finish: the semaphore is released twice.
MutFinishTwice(h) ==
  /\ DeadHandlersUnlocked
  /\ Goto(h, "finish", "leaving")
  /\ terminated' = terminated \cup {h}
  /\ DeadHandlers' = DeadHandlers \cup {h}
  /\ ServerTasks' = ServerTasks + 2
  /\ UNCHANGED <<Handlers, serverTerminated, serverPc, toErase, victim,
                 requested, child, cacheMutex, interrupted, timedOut, deleted>>

\* Finish: Terminate, and Server::MarkDeadHandler.
Finish(h) ==
  /\ DeadHandlersUnlocked
  /\ Goto(h, "finish", "leaving")
  /\ terminated' = terminated \cup {h}
  /\ DeadHandlers' = DeadHandlers \cup {h}
  /\ ServerTasks' = ServerTasks + 1
  /\ UNCHANGED <<Handlers, serverTerminated, serverPc, toErase, victim,
                 requested, child, cacheMutex, interrupted, timedOut, deleted>>

\* The thread leaves its routine, through the loop condition or interrupted.
Leave(h) ==
  /\ Goto(h, "leaving", "done")
  /\ UNCHANGED <<Handlers, DeadHandlers, serverVars, terminated, requested,
                 child, cacheMutex, interrupted, timedOut, deleted>>

-----------------------------------------------------------------------------
(* The server thread *)

\* The loop condition of StartImpl: IsTerminated, with IsTerminatedLock.
ServerLoop ==
  /\ serverPc = "check"
  /\ serverPc' = IF serverTerminated THEN "destroy" ELSE "acquire"
  /\ toErase' = IF serverTerminated THEN Handlers ELSE {}
  /\ UNCHANGED <<Handlers, DeadHandlers, ServerTasks, serverTerminated, victim,
                 threadVars, terminated, interrupted, timedOut, deleted>>

\* TimedAcquire gets the semaphore.
ServerAcquire ==
  /\ serverPc = "acquire"
  /\ ServerTasks > 0
  /\ ServerTasks' = ServerTasks - 1
  /\ serverPc' = "erase"
  /\ UNCHANGED <<Handlers, DeadHandlers, serverTerminated, toErase, victim,
                 threadVars, terminated, interrupted, timedOut, deleted>>

\* TimedAcquire throws, after ClientTimeoutMSec or because of a signal: the
\* whole server terminates.
ServerAcquireFails ==
  /\ serverPc = "acquire"
  /\ ServerTasks = 0 \/ serverTerminated
  /\ serverTerminated' = TRUE
  /\ serverPc' = "check"
  /\ UNCHANGED <<Handlers, DeadHandlers, ServerTasks, toErase, victim,
                 threadVars, terminated, interrupted, timedOut, deleted>>

\* OnSignal (SIGINT, SIGTERM) in the server thread, the only one that has them
\* unblocked: Server::Terminate ...
OnSignal ==
  /\ serverPc \notin {"stuck", "destroy", "destroyJoin", "crashed", "gone"}
  /\ serverTerminated' = TRUE
  /\ UNCHANGED <<Handlers, DeadHandlers, ServerTasks, serverPc, toErase, victim,
                 threadVars, terminated, interrupted, timedOut, deleted>>

\* ... which locks IsTerminatedLock for writing, while the thread that the signal
\* has interrupted is inside IsTerminated and has it locked for reading.
OnSignalSticks ==
  /\ serverPc = "check"
  /\ serverPc' = "stuck"
  /\ UNCHANGED <<Handlers, DeadHandlers, ServerTasks, serverTerminated, toErase,
                 victim, threadVars, terminated, interrupted, timedOut, deleted>>

\* EraseDeadHandlers takes DeadHandlersMutex.
EraseBegin ==
  /\ serverPc = "erase"
  /\ toErase' = DeadHandlers
  /\ serverPc' = "erasing"
  /\ UNCHANGED <<Handlers, DeadHandlers, ServerTasks, serverTerminated, victim,
                 threadVars, terminated, interrupted, timedOut, deleted>>


\* The destructor of h up to its Join: Terminate and Interrupt.  The signal
\* wakes the thread when it sleeps; otherwise the next InterruptionPoint
\* finds InterruptRequested.
Interrupt(h) ==
  /\ victim' = h
  /\ toErase' = toErase \ {h}
  /\ terminated' = terminated \cup {h}
  /\ interrupted' = interrupted \cup {h}
  /\ pc' = [pc EXCEPT ![h] = IF @ = "sleep" THEN "done" ELSE @]

\* RemoveHandler of a dead handler: erase, delete.
RemoveHandler(h) ==
  /\ serverPc = "erasing"
  /\ h \in toErase
  /\ Handlers' = Handlers \ {h}
  /\ serverTerminated' = (serverTerminated \/ h = SrvHandler)
  /\ Interrupt(h)
  /\ serverPc' = "joining"
  /\ UNCHANGED <<DeadHandlers, ServerTasks, requested, child, cacheMutex,
                 timedOut, deleted>>

\* Thread::Join returns.
Join ==
  /\ serverPc \in {"joining", "destroyJoin"}
  /\ pc[victim] = "done"
  /\ deleted' = deleted \cup {victim}
  /\ victim' = NoHandler
  /\ serverPc' = IF serverPc = "joining" THEN "erasing" ELSE "destroy"
  /\ UNCHANGED <<Handlers, DeadHandlers, ServerTasks, serverTerminated, toErase,
                 threadVars, terminated, interrupted, timedOut>>

\* DeadHandlers.clear(), and DeadHandlersMutex is unlocked.
EraseEnd ==
  /\ serverPc = "erasing"
  /\ toErase = {}
  /\ DeadHandlers' = {}
  /\ serverPc' = "timeouts"
  /\ UNCHANGED <<Handlers, ServerTasks, serverTerminated, toErase, victim,
                 threadVars, terminated, interrupted, timedOut, deleted>>

\* TerminateTimedOutHandlers: Terminate of every handler, but the ServerHandler
\* and those without a socket, that has not done any I/O for too long.
TerminateTimedOut(S) ==
  /\ serverPc = "timeouts"
  /\ S \subseteq {h \in Handlers \ {SrvHandler} :
                    pc[h] \in {"poll", "cache", "start", "sleep"}}
  /\ terminated' = terminated \cup S
  /\ timedOut' = timedOut \cup S
  /\ serverPc' = "check"
  /\ UNCHANGED <<Handlers, DeadHandlers, ServerTasks, serverTerminated, toErase,
                 victim, threadVars, interrupted, deleted>>

\* The destructor of Server, with HandlersMutex locked, deletes the handlers
\* in the order of their addresses.  The handle of a thread that has not been
\* started is 0: pthread_kill crashes.
DestroyHandler(h) ==
  /\ serverPc = "destroy"
  /\ h \in toErase
  /\ Interrupt(h)
  /\ serverPc' = IF pc[h] = "created" THEN "crashed" ELSE "destroyJoin"
  /\ UNCHANGED <<Handlers, DeadHandlers, ServerTasks, serverTerminated,
                 requested, child, cacheMutex, timedOut, deleted>>

DestroyEnd ==
  /\ serverPc = "destroy"
  /\ toErase = {}
  /\ serverPc' = "gone"
  /\ UNCHANGED <<Handlers, DeadHandlers, ServerTasks, serverTerminated, toErase,
                 victim, threadVars, terminated, interrupted, timedOut, deleted>>

-----------------------------------------------------------------------------
\* What a handler's thread does by itself: all but being woken by a post.  The steps
\* are sorted by where it is, for TLC to find them faster.
HandlerStep(h) ==
  /\ serverPc # "crashed"
  /\ \/ Loop(h) \/ PollReturns(h) \/ Register(h) \/ Finish(h) \/ Leave(h)
     \/ /\ pc[h] = "handle"
        /\ \/ HandleData(h) \/ HandleEnd(h) \/ HandleBlock(h) \/ HandleRequest(h)
           \/ h = SrvHandler /\ \E c \in Clients : Accept(c)
     \/ /\ pc[h] = "cache"
        /\ CacheHit(h) \/ \E r \in Remotes : CacheMiss(h, r)
     \/ /\ pc[h] = "start"
        /\ StartRemote(h) \/ ConnectFails(h) \/ (h = SrvHandler /\ StartClient)

ServerStep ==
  \/ ServerLoop \/ ServerAcquire \/ ServerAcquireFails
  \/ EraseBegin \/ EraseEnd \/ Join \/ DestroyEnd
  \/ \E h \in AllHandlers : RemoveHandler(h) \/ DestroyHandler(h)
  \/ \E S \in SUBSET Handlers : TerminateTimedOut(S)

Next ==
  \/ \E h \in AllHandlers : HandlerStep(h)
  \/ serverPc # "crashed" /\ \E h \in AllHandlers : Wake(h)
  \/ ServerStep
  \/ OnSignal \/ OnSignalSticks

Spec == Init /\ [][Next]_vars

\* Threads that can run do run: poll(2) and sem_timedwait end by their timeouts,
\* connect(2) ends.  Nobody has to post a semaphore or to send a signal.
FairSpec ==
  /\ Spec
  /\ WF_vars(ServerStep)
  /\ \A h \in AllHandlers : WF_vars(HandlerStep(h))

-----------------------------------------------------------------------------
(* Properties *)

\* Every variable keeps its type; a semaphore never counts more than the marks.
TypeOK ==
  /\ Handlers \subseteq AllHandlers /\ DeadHandlers \subseteq AllHandlers
  /\ ServerTasks \in 0..Cardinality(AllHandlers)
  /\ serverTerminated \in BOOLEAN /\ serverPc \in ServerPcs
  /\ toErase \subseteq AllHandlers /\ victim \in AllHandlers \cup {NoHandler}
  /\ pc \in [AllHandlers -> Pcs]
  /\ terminated \subseteq AllHandlers /\ requested \subseteq Clients
  /\ child \in [AllHandlers -> Clients \cup Remotes \cup {NoHandler}]
  /\ cacheMutex \in Clients \cup {NoHandler}
  /\ interrupted \subseteq AllHandlers /\ timedOut \subseteq AllHandlers
  /\ deleted \subseteq AllHandlers

Running == serverPc \notin {"destroy", "destroyJoin", "crashed", "gone"}

\* Every handler that EraseDeadHandlers has still to remove is registered and
\* has not been deleted, so Handlers.erase(It) is not called with end() and no
\* handler is deleted twice (Server.cpp:46-55, 57-62).
RemoveFindsHandler ==
  /\ serverPc = "erasing" => toErase \subseteq Handlers \ deleted
  /\ Running /\ DeadHandlersUnlocked => DeadHandlers \subseteq Handlers \ deleted

\* TerminateTimedOutHandlers meets no handler that has been deleted.
NoDeletedHandler == Running => Handlers \cap deleted = {}

\* No thread of a handler is left when the Server object is gone: whoever was
\* creating a handler while the server shut down was joined first.
NoThreadOutlivesServer ==
  serverPc = "gone" => \A h \in AllHandlers : pc[h] \in {"none", "done"}

\* Handlers does not change while the destructor iterates over it.
HandlersStable == [][~Running => Handlers' = Handlers]_vars

\* While the server runs, a thread that has ended has been marked, so its
\* handler will be deleted and its socket closed, unless the handler was
\* found inactive.
EndedIsMarkedUnlessTimedOut ==
  Running => \A h \in AllHandlers :
    pc[h] = "done" => h \in DeadHandlers \cup deleted \cup timedOut

\* The same without the exception, of a server that is not shutting down.
\* Server.cpp:86-88 says of a handler that is inactive for too long:
\* "disconnecting".
EndedIsMarked ==
  ~serverTerminated => \A h \in AllHandlers : pc[h] = "done" => h \in DeadHandlers \cup deleted

\* The handlers whose threads can never end once the destructor of Server has
\* locked HandlersMutex and waits for them in Join.
Hangs(h) ==
  \/ pc[h] = "register"                             \* waits for HandlersMutex
  \/ pc[h] = "cache" /\ cacheMutex # NoHandler /\ pc[cacheMutex] = "register"
  \/ pc[h] = "sleep" /\ h \in interrupted           \* was interrupted too early

\* The server never comes to its end: Join hangs, OnSignal has stopped its
\* thread, or the process has crashed on a handler whose thread was not started.
ShutdownFails ==
  \/ serverPc = "destroyJoin" /\ Hangs(victim)
  \/ serverPc \in {"stuck", "crashed"}

\* What a handler's thread can do by itself.
CanGo(h) ==
  \/ pc[h] \in {"loop", "poll", "handle", "start", "leaving"}
  \/ pc[h] = "cache" /\ cacheMutex = NoHandler
  \/ pc[h] = "register" /\ HandlersUnlocked
  \/ pc[h] = "finish" /\ DeadHandlersUnlocked

\* When somebody waits in Join with HandlersMutex locked, the thread that is joined
\* can go on or, when it waits for CacheMutex, the client that has that; but for
\* the three ways in which the destructor of Server hangs.  EraseDeadHandlers never
\* does (Server.cpp:24-27, 46-62, 94-102).
ServerNotStuck ==
  serverPc \in {"joining", "destroyJoin"} =>
    \/ pc[victim] = "done" \/ CanGo(victim)
    \/ cacheMutex # NoHandler /\ pc[victim] = "cache" /\ CanGo(cacheMutex)
    \/ serverPc = "destroyJoin" /\ Hangs(victim)



-----------------------------------------------------------------------------
(* The abstract specification *)

\* What the server knows of each thread.  One that the signal has hit in poll is
\* on its way to the InterruptionPoint.
Life ==
  [h \in AllHandlers |->
     CASE pc[h] \in {"none", "created"} -> "new"
       [] pc[h] = "sleep" \/ (pc[h] = "poll" /\ h \notin interrupted) -> "blocked"
       [] pc[h] = "done" -> "ended"
       [] OTHER -> "running"]

Calls ==
  [h \in AllHandlers |->
     CASE pc[h] = "done" -> "none"
       [] pc[h] \in {"none", "created"} \/ (pc[h] # "done" /\ h \notin interrupted) -> "any"
       [] pc[h] \in {"loop", "poll", "sleep"} /\ h \in interrupted -> "none"
       [] OTHER -> "one"]

Promise == INSTANCE Joinable
  WITH Threads <- AllHandlers, life <- Life, calls <- Calls, gone <- deleted

\* ServerLife implements Joinable, as ThreadLife does: Interrupt and Join, one step
\* each here, do to a thread what they do there, no handler is started twice or
\* after its destructor, and none is deleted whose thread runs
\* (Server.cpp:94-102, 148-152).
JoinableSpec == Promise!Spec
=============================================================================
