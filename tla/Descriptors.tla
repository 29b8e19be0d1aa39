---------------------------- MODULE Descriptors ----------------------------
(***************************************************************************)
(* Sockets and the file descriptors behind them.                           *)
(*                                                                         *)
(* A descriptor is a small number that the kernel gives out again as soon  *)
(* as it is closed.  Three kinds of threads open and close them: the       *)
(* ServerHandler accepts, clients connect to remotes, and the server       *)
(* thread deletes the handlers.  Whoever closes a number twice, or uses it *)
(* after somebody else has closed it, hits the connection of another.      *)
(*                                                                         *)
(* A handler and its socket have one name.  How threads are joined is in   *)
(* ThreadLife, how handlers are marked and erased in ServerLife: here a    *)
(* handler's thread is running or has ended.                               *)
(***************************************************************************)
EXTENDS Integers, FiniteSets

CONSTANTS
  ServerSock, \* the ServerSocket, and its ServerHandler
  Sockets,    \* the Sockets, and their ClientHandlers and RemoteHandlers
  FDs,        \* the descriptors that the process may have besides its files
  NoSocket

NoFD == -1

ASSUME DescriptorsAssumption ==
  /\ ServerSock \notin Sockets
  /\ NoSocket \notin Sockets \cup {ServerSock}
  /\ FDs \subseteq Nat /\ FDs # {}

AllSockets == Sockets \cup {ServerSock}

VARIABLES
  table,       \* the kernel's table: the connection each open descriptor stands for
  Fd,          \* SocketBase::Fd
  newFd,       \* SocketFd in AcceptFrom, FD in ConnectTo
  by,          \* the handler whose thread makes, or has made, the socket
  pc,          \* how far the socket and its handler are
  interrupted, \* the handlers whose threads have been interrupted
  serverPc,    \* where the server thread, or the destructor of Server, is
  victim       \* the handler it is deleting

fdVars == <<table, Fd, newFd>>
vars == <<fdVars, by, pc, interrupted, serverPc, victim>>

\* Being made, by accept or by connect; in use; deleted; never completed.
Making == {"accepting", "accepted", "register", "resolve", "socket", "connecting"}
Pcs == Making \cup {"none", "running", "ended", "joined", "closed", "lost", "failed"}

ServerPcs == {"run", "join", "close", "destroy", "destroyJoin", "destroyClose",
              "crashed", "gone"}

\* The destructor of Server holds HandlersMutex.
Destroying == serverPc \in {"destroy", "destroyJoin", "destroyClose", "crashed", "gone"}

Free(n) == table[n] = NoSocket

\* close(2): -1 is no descriptor, and nothing happens.
Closed(n) == [m \in FDs |-> IF m = n THEN NoSocket ELSE table[m]]

-----------------------------------------------------------------------------
\* The ServerSocket has been made by the constructor, and listens.
Init ==
  \E n \in FDs :
    /\ table = [m \in FDs |-> IF m = n THEN ServerSock ELSE NoSocket]
    /\ Fd = [s \in AllSockets |-> IF s = ServerSock THEN n ELSE NoFD]
    /\ newFd = [s \in AllSockets |-> NoFD]
    /\ by = [s \in AllSockets |-> NoSocket]
    /\ pc = [s \in AllSockets |-> IF s = ServerSock THEN "running" ELSE "none"]
    /\ interrupted = {} /\ serverPc = "run" /\ victim = NoSocket

\* Mutant of Idle: a thread that makes a socket goes on before that is done.
MutIdleAnyway(k) == pc[k] = "running"

\* The thread of k runs, and is not in the middle of making a socket.
Idle(k) == pc[k] = "running" /\ \A s \in AllSockets : by[s] = k => pc[s] \notin Making

\* The making of s ends in an exception, with which the thread of its maker ends:
\* it was interrupted, or the system_error is caught and followed by Finish.
Abandon(s, to) == pc' = [pc EXCEPT ![s] = to, ![by[s]] = "ended"]

-----------------------------------------------------------------------------
(* ServerHandler::Handle: Socket::AcceptFrom *)

NewSocket(s) ==
  /\ serverPc # "crashed"
  /\ s \in Sockets /\ pc[s] = "none"
  /\ Idle(ServerSock)
  /\ by' = [by EXCEPT ![s] = ServerSock]
  /\ pc' = [pc EXCEPT ![s] = "accepting"]
  /\ UNCHANGED <<fdVars, interrupted, serverPc, victim>>

\* accept(2) returns a descriptor, any that is free; it fails when none is, and
\* for other reasons.
Accept(s) ==
  /\ serverPc # "crashed"
  /\ pc[s] = "accepting"
  /\ pc' = [pc EXCEPT ![s] = "accepted"]
  /\ \/ \E n \in FDs :
          /\ Free(n)
          /\ table' = [table EXCEPT ![n] = s]
          /\ newFd' = [newFd EXCEPT ![s] = n]
     \/ UNCHANGED <<table, newFd>>
  /\ UNCHANGED <<Fd, by, interrupted, serverPc, victim>>

\* The InterruptionPoint after accept throws.  The Socket is deleted, its Fd is
\* still -1, and the new descriptor is forgotten.
AcceptInterrupted(s) ==
  /\ serverPc # "crashed"
  /\ pc[s] = "accepted"
  /\ by[s] \in interrupted
  /\ Abandon(s, "lost")
  /\ UNCHANGED <<fdVars, by, interrupted, serverPc, victim>>

\* accept has failed: the Socket is deleted, and the ServerHandler finishes.
AcceptFails(s) ==
  /\ serverPc # "crashed"
  /\ pc[s] = "accepted"
  /\ by[s] \notin interrupted
  /\ newFd[s] = NoFD
  /\ Abandon(s, "closed")
  /\ UNCHANGED <<fdVars, by, interrupted, serverPc, victim>>

Accepted(s) ==
  /\ serverPc # "crashed"
  /\ pc[s] = "accepted"
  /\ by[s] \notin interrupted
  /\ newFd[s] # NoFD
  /\ Fd' = [Fd EXCEPT ![s] = newFd[s]]
  /\ pc' = [pc EXCEPT ![s] = "register"]
  /\ UNCHANGED <<table, newFd, by, interrupted, serverPc, victim>>

\* RegisterHandler, and Start of the new ClientHandler.
RegisterClient(s) ==
  /\ ~Destroying
  /\ pc[s] = "register"
  /\ pc' = [pc EXCEPT ![s] = "running"]
  /\ UNCHANGED <<fdVars, by, interrupted, serverPc, victim>>

-----------------------------------------------------------------------------
(* Server::AddCacheListener, or SendRecordFromCache when it hands over to the
   end-to-end relay, in the thread of client c: Socket::ConnectTo *)

\* The RemoteHandler registers itself, without a socket.  A client makes two at
\* most, one for its request and one for the relay.
NewRemote(c, s) ==
  /\ ~Destroying
  /\ c \in Sockets /\ by[c] = ServerSock
  /\ Idle(c)
  /\ Cardinality({r \in Sockets : by[r] = c}) < 2
  /\ s \in Sockets /\ pc[s] = "none"
  /\ by' = [by EXCEPT ![s] = c]
  /\ pc' = [pc EXCEPT ![s] = "resolve"]
  /\ UNCHANGED <<fdVars, interrupted, serverPc, victim>>

\* getaddrinfo, and the InterruptionPoint after it.
Resolve(s) ==
  /\ serverPc # "crashed"
  /\ pc[s] = "resolve"
  /\ \/ by[s] \notin interrupted /\ pc' = [pc EXCEPT ![s] = "socket"]
     \/ Abandon(s, "failed")
  /\ UNCHANGED <<fdVars, by, interrupted, serverPc, victim>>

\* socket(2) for one of the addresses; the Socket takes the descriptor.
MakeSocket(s) ==
  /\ serverPc # "crashed"
  /\ pc[s] = "socket"
  /\ \E n \in FDs :
       /\ Free(n)
       /\ table' = [table EXCEPT ![n] = s]
       /\ newFd' = [newFd EXCEPT ![s] = n]
       /\ Fd' = [Fd EXCEPT ![s] = n]
  /\ pc' = [pc EXCEPT ![s] = "connecting"]
  /\ UNCHANGED <<by, interrupted, serverPc, victim>>

\* It fails for all of them: close(-1).
MakeSocketFails(s) ==
  /\ serverPc # "crashed"
  /\ pc[s] = "socket"
  /\ Abandon(s, "failed")
  /\ UNCHANGED <<fdVars, by, interrupted, serverPc, victim>>

\* The InterruptionPoint after connect throws: nobody closes the descriptor.
ConnectInterrupted(s) ==
  /\ serverPc # "crashed"
  /\ pc[s] = "connecting"
  /\ by[s] \in interrupted
  /\ Abandon(s, "failed")
  /\ UNCHANGED <<fdVars, by, interrupted, serverPc, victim>>

\* Mutant of ConnectFails: the descriptor is not closed.
MutConnectLeaks(s) ==
  /\ serverPc # "crashed"
  /\ pc[s] = "connecting"
  /\ by[s] \notin interrupted
  /\ Abandon(s, "failed")
  /\ UNCHANGED <<fdVars, by, interrupted, serverPc, victim>>

\* connect fails: the descriptor is closed, the Socket is not deleted, and the
\* exception leaves the RemoteHandler without a socket.
ConnectFails(s) ==
  /\ serverPc # "crashed"
  /\ pc[s] = "connecting"
  /\ by[s] \notin interrupted
  /\ table' = Closed(newFd[s])
  /\ Abandon(s, "failed")
  /\ UNCHANGED <<Fd, newFd, by, interrupted, serverPc, victim>>

\* The RemoteHandler is started.
Connected(s) ==
  /\ serverPc # "crashed"
  /\ pc[s] = "connecting"
  /\ by[s] \notin interrupted
  /\ pc' = [pc EXCEPT ![s] = "running"]
  /\ UNCHANGED <<fdVars, by, interrupted, serverPc, victim>>

-----------------------------------------------------------------------------
\* The routine of a handler ends: after Finish, or at an InterruptionPoint.
End(k) ==
  /\ serverPc # "crashed"
  /\ Idle(k)
  /\ pc' = [pc EXCEPT ![k] = "ended"]
  /\ UNCHANGED <<fdVars, by, interrupted, serverPc, victim>>

-----------------------------------------------------------------------------
(* The server thread, and the destructor of Server *)

\* EraseDeadHandlers deletes a handler that has finished.
DeleteDead(k) ==
  /\ serverPc = "run"
  /\ pc[k] = "ended"
  /\ victim' = k
  /\ interrupted' = interrupted \cup {k}
  /\ serverPc' = "join"
  /\ UNCHANGED <<fdVars, by, pc>>

\* The server is told to end, or has ended by itself.
Shutdown ==
  /\ serverPc = "run"
  /\ serverPc' = "destroy"
  /\ UNCHANGED <<fdVars, by, pc, interrupted, victim>>

\* The destructor deletes the handlers that are registered; a RemoteHandler whose
\* thread has not been started has no handle, and pthread_kill crashes.
DeleteHandler(k) ==
  /\ serverPc = "destroy"
  /\ pc[k] \in {"running", "ended", "resolve", "socket", "connecting", "failed"}
  /\ victim' = k
  /\ interrupted' = interrupted \cup {k}
  /\ serverPc' = IF pc[k] \in {"running", "ended"} THEN "destroyJoin" ELSE "crashed"
  /\ UNCHANGED <<fdVars, by, pc>>

\* Mutant of Join: the socket is deleted first, to wake the thread up.
MutCloseBeforeJoin ==
  /\ serverPc \in {"join", "destroyJoin"}
  /\ pc[victim] = "ended" \/ Fd[victim] # NoFD
  /\ IF pc[victim] = "ended"
       THEN /\ pc' = [pc EXCEPT ![victim] = "joined"]
            /\ serverPc' = IF serverPc = "join" THEN "close" ELSE "destroyClose"
            /\ UNCHANGED <<table, Fd>>
       ELSE /\ table' = Closed(Fd[victim])
            /\ UNCHANGED <<Fd, pc, serverPc>>
  /\ UNCHANGED <<newFd, by, interrupted, victim>>

\* Thread::Join returns.
Join ==
  /\ serverPc \in {"join", "destroyJoin"}
  /\ pc[victim] = "ended"
  /\ pc' = [pc EXCEPT ![victim] = "joined"]
  /\ serverPc' = IF serverPc = "join" THEN "close" ELSE "destroyClose"
  /\ UNCHANGED <<fdVars, by, interrupted, victim>>

\* Mutant of DeleteSocket: the destructor of Socket closes nothing.
MutSocketStaysOpen ==
  /\ serverPc \in {"close", "destroyClose"}
  /\ pc' = [pc EXCEPT ![victim] = "closed"]
  /\ serverPc' = IF serverPc = "close" /\ victim # ServerSock THEN "run" ELSE "destroy"
  /\ victim' = NoSocket
  /\ UNCHANGED <<fdVars, by, interrupted>>

\* The destructor of the handler deletes its socket.  A server without its
\* ServerHandler ends.
DeleteSocket ==
  /\ serverPc \in {"close", "destroyClose"}
  /\ table' = Closed(Fd[victim])
  /\ pc' = [pc EXCEPT ![victim] = "closed"]
  /\ serverPc' = IF serverPc = "close" /\ victim # ServerSock THEN "run" ELSE "destroy"
  /\ victim' = NoSocket
  /\ UNCHANGED <<Fd, newFd, by, interrupted>>

DestroyEnd ==
  /\ serverPc = "destroy"
  /\ \A s \in AllSockets : pc[s] \in {"none", "accepting", "accepted", "register", "closed", "lost"}
  /\ serverPc' = "gone"
  /\ UNCHANGED <<fdVars, by, pc, interrupted, victim>>

-----------------------------------------------------------------------------
AcceptStep(s) ==
  \/ NewSocket(s) \/ Accept(s) \/ AcceptInterrupted(s) \/ AcceptFails(s)
  \/ Accepted(s) \/ RegisterClient(s)

ConnectStep(s) ==
  \/ \E c \in Sockets : NewRemote(c, s)
  \/ Resolve(s) \/ MakeSocket(s) \/ MakeSocketFails(s)
  \/ ConnectInterrupted(s) \/ ConnectFails(s) \/ Connected(s)

ServerStep ==
  \/ \E k \in AllSockets : DeleteDead(k) \/ DeleteHandler(k)
  \/ Shutdown \/ Join \/ DeleteSocket \/ DestroyEnd

Next ==
  \/ \E s \in Sockets : AcceptStep(s) \/ ConnectStep(s)
  \/ \E k \in AllSockets : End(k)
  \/ ServerStep

Spec == Init /\ [][Next]_vars

-----------------------------------------------------------------------------
(* Properties *)

\* Every variable has its type; who makes a socket is a handler that runs.
TypeOK ==
  /\ table \in [FDs -> AllSockets \cup {NoSocket}]
  /\ Fd \in [AllSockets -> FDs \cup {NoFD}]
  /\ newFd \in [AllSockets -> FDs \cup {NoFD}]
  /\ by \in [AllSockets -> AllSockets \cup {NoSocket}]
  /\ pc \in [AllSockets -> Pcs]
  /\ interrupted \subseteq AllSockets
  /\ serverPc \in ServerPcs
  /\ victim \in AllSockets \cup {NoSocket}
  /\ \A s \in AllSockets : pc[s] \in Making => by[s] \in AllSockets /\ pc[by[s]] = "running"

\* A handler that polls, reads and writes, and a socket that is about to be
\* closed, has the descriptor of its own connection: none was closed twice, and
\* none before the thread was joined (Socket.cpp:31-34, 148-151,
\* ClientHandler.cpp:376-382).
OwnDescriptor ==
  \A s \in AllSockets :
    pc[s] \in {"register", "connecting", "running", "ended", "joined"}
      => Fd[s] \in FDs /\ table[Fd[s]] = s

\* While the server serves, every open descriptor belongs to a socket that will
\* be closed: one is forgotten only by a thread that is interrupted, and nobody
\* interrupts a thread that makes a socket before the server shuts down
\* (Socket.cpp:92-100, 127-134, 148-153).
NoLeakWhileServing ==
  ~Destroying =>
    \A n \in FDs : ~Free(n) => pc[table[n]] \notin {"none", "closed", "lost", "failed"}

\* When the Server is gone, what is still open was forgotten by the interrupted
\* ServerHandler in the one accept it was in (Socket.cpp:87-105).
ClosedAtEnd ==
  serverPc = "gone" =>
    \A m, n \in FDs : ~Free(m) /\ ~Free(n) => m = n /\ pc[table[m]] = "lost"

=============================================================================
