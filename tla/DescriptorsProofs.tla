-------------------------- MODULE DescriptorsProofs --------------------------
(***************************************************************************)
(* The safety properties of Descriptors, for any sockets and descriptors.  *)
(*                                                                         *)
(* The kernel's table says whose connection a descriptor stands for, the   *)
(* variables Fd and newFd say what the code believes.  TableInv relates    *)
(* the two; it holds because a thread makes one socket at a time and a     *)
(* socket is deleted after its thread has been joined (MakersInv and       *)
(* VictimInv), and it is strengthened by what only an interrupted thread   *)
(* may do (QuietInv) and by what the destructor of Server leaves (EndInv). *)
(***************************************************************************)
EXTENDS Descriptors, TLAPS

\* A thread makes one socket at a time; the ServerHandler is interrupted in one
\* accept at most, which it does not survive.
MakersInv ==
  /\ \A s, t \in AllSockets :
       pc[s] \in Making /\ pc[t] \in Making /\ by[s] = by[t] => s = t
  /\ \A s \in AllSockets :
       pc[s] \in {"accepting", "accepted", "register"} => by[s] = ServerSock
  /\ pc[ServerSock] \in {"running", "ended", "joined", "closed"}
  /\ \A s \in AllSockets : pc[s] = "lost" => pc[ServerSock] # "running"
  /\ \A s, t \in AllSockets : pc[s] = "lost" /\ pc[t] = "lost" => s = t

\* The handler that is being deleted has been joined before its socket is.
VictimInv ==
  /\ serverPc \in {"join", "destroyJoin"} =>
       victim \in AllSockets /\ pc[victim] \in {"running", "ended"}
  /\ serverPc \in {"close", "destroyClose"} =>
       victim \in AllSockets /\ pc[victim] = "joined"

\* Sockets whose connection is the one at Fd.
Holding == {"register", "connecting", "running", "ended", "joined"}

\* What the code believes of the descriptors, and what the table says.
TableInv ==
  /\ \A s \in AllSockets :
       pc[s] \in Holding => Fd[s] \in FDs /\ table[Fd[s]] = s
  /\ \A s \in AllSockets : pc[s] = "connecting" => newFd[s] = Fd[s]
  /\ \A s \in AllSockets : pc[s] \in {"none", "accepting"} => newFd[s] = NoFD
  /\ \A s \in AllSockets :
       pc[s] = "accepted" /\ newFd[s] # NoFD => table[newFd[s]] = s
  /\ \A n \in FDs, s \in AllSockets :
       table[n] = s => \/ pc[s] \in {"accepted", "lost"} /\ newFd[s] = n
                       \/ pc[s] \in Holding \cup {"failed"} /\ Fd[s] = n

\* Before the shutdown, who is interrupted has ended, and so nothing is forgotten.
QuietInv ==
  ~Destroying =>
    /\ \A k \in interrupted : pc[k] \in {"ended", "joined", "closed"}
    /\ \A n \in FDs, s \in AllSockets : table[n] = s => pc[s] \notin {"lost", "failed"}

\* The destructor of Server leaves no handler.
EndInv ==
  serverPc = "gone" =>
    /\ \A s \in Sockets : pc[s] \in {"none", "closed", "lost"}
    /\ pc[ServerSock] = "closed"

IInv == TypeOK /\ MakersInv /\ VictimInv /\ TableInv /\ QuietInv /\ EndInv

-----------------------------------------------------------------------------
\* The values that stand for nothing are not among the others.
LEMMA Distinct ==
  /\ NoFD \notin FDs
  /\ NoSocket \notin AllSockets
  /\ ServerSock \in AllSockets /\ ServerSock \notin Sockets
  /\ Sockets \subseteq AllSockets
  BY DescriptorsAssumption DEF NoFD, AllSockets

\* What one step may be.
LEMMA NextSplit ==
  ASSUME [Next]_vars
  PROVE  \/ UNCHANGED vars
         \/ \E s, c \in AllSockets :
              \/ NewSocket(s) \/ Accept(s) \/ AcceptInterrupted(s) \/ AcceptFails(s) \/ Accepted(s)
              \/ RegisterClient(s) \/ NewRemote(c, s) \/ Resolve(s) \/ MakeSocket(s) \/ MakeSocketFails(s)
              \/ ConnectInterrupted(s) \/ ConnectFails(s) \/ Connected(s) \/ End(s) \/ DeleteDead(s)
              \/ DeleteHandler(s) \/ Shutdown \/ Join \/ DeleteSocket \/ DestroyEnd
  BY DEF Next, AcceptStep, ConnectStep, ServerStep, AllSockets, NewRemote

\* The types, and who makes a socket is running.
LEMMA TypeStep ==
  ASSUME TypeOK, MakersInv, VictimInv, [Next]_vars
  PROVE  TypeOK'
<1>1. CASE UNCHANGED vars
  BY <1>1 DEF TypeOK, Making, Pcs, ServerPcs, MakersInv, VictimInv, Destroying, vars, fdVars
<1>2. CASE ~UNCHANGED vars
  <2>0. PICK s \in AllSockets, c \in AllSockets :
          \/ NewSocket(s) \/ Accept(s) \/ AcceptInterrupted(s) \/ AcceptFails(s) \/ Accepted(s)
          \/ RegisterClient(s) \/ NewRemote(c, s) \/ Resolve(s) \/ MakeSocket(s) \/ MakeSocketFails(s)
          \/ ConnectInterrupted(s) \/ ConnectFails(s) \/ Connected(s) \/ End(s) \/ DeleteDead(s)
          \/ DeleteHandler(s) \/ Shutdown \/ Join \/ DeleteSocket \/ DestroyEnd
    BY <1>2, NextSplit
  <2>1. CASE NewSocket(s)
    BY <2>1, Distinct DEF TypeOK, Making, Pcs, ServerPcs, MakersInv, VictimInv, NewSocket, Idle, fdVars, Destroying
  <2>2. CASE Accept(s)
    BY <2>2, Distinct DEF TypeOK, Making, Pcs, ServerPcs, MakersInv, VictimInv, Accept, Free, fdVars, Destroying
  <2>3. CASE AcceptInterrupted(s)
    BY <2>3, Distinct DEF TypeOK, Making, Pcs, ServerPcs, MakersInv, VictimInv, AcceptInterrupted, Abandon, fdVars, Destroying
  <2>4. CASE AcceptFails(s)
    BY <2>4, Distinct DEF TypeOK, Making, Pcs, ServerPcs, MakersInv, VictimInv, AcceptFails, Abandon, fdVars, Destroying
  <2>5. CASE Accepted(s)
    BY <2>5, Distinct DEF TypeOK, Making, Pcs, ServerPcs, MakersInv, VictimInv, Accepted, fdVars, Destroying
  <2>6. CASE RegisterClient(s)
    BY <2>6, Distinct DEF TypeOK, Making, Pcs, ServerPcs, MakersInv, VictimInv, RegisterClient, fdVars, Destroying
  <2>7. CASE NewRemote(c, s)
    BY <2>7, Distinct DEF TypeOK, Making, Pcs, ServerPcs, MakersInv, VictimInv, NewRemote, Idle, fdVars, Destroying
  <2>8. CASE Resolve(s)
    BY <2>8, Distinct DEF TypeOK, Making, Pcs, ServerPcs, MakersInv, VictimInv, Resolve, Abandon, fdVars, Destroying
  <2>9. CASE MakeSocket(s)
    BY <2>9, Distinct DEF TypeOK, Making, Pcs, ServerPcs, MakersInv, VictimInv, MakeSocket, Free, fdVars, Destroying
  <2>10. CASE MakeSocketFails(s)
    BY <2>10, Distinct DEF TypeOK, Making, Pcs, ServerPcs, MakersInv, VictimInv, MakeSocketFails, Abandon, fdVars, Destroying
  <2>11. CASE ConnectInterrupted(s)
    BY <2>11, Distinct DEF TypeOK, Making, Pcs, ServerPcs, MakersInv, VictimInv, ConnectInterrupted, Abandon, fdVars, Destroying
  <2>12. CASE ConnectFails(s)
    BY <2>12, Distinct DEF TypeOK, Making, Pcs, ServerPcs, MakersInv, VictimInv, ConnectFails, Abandon, Closed, fdVars, Destroying
  <2>13. CASE Connected(s)
    BY <2>13, Distinct DEF TypeOK, Making, Pcs, ServerPcs, MakersInv, VictimInv, Connected, fdVars, Destroying
  <2>14. CASE End(s)
    BY <2>14, Distinct DEF TypeOK, Making, Pcs, ServerPcs, MakersInv, VictimInv, End, Idle, fdVars, Destroying
  <2>15. CASE DeleteDead(s)
    BY <2>15, Distinct DEF TypeOK, Making, Pcs, ServerPcs, MakersInv, VictimInv, DeleteDead, fdVars, Destroying
  <2>16. CASE DeleteHandler(s)
    BY <2>16, Distinct DEF TypeOK, Making, Pcs, ServerPcs, MakersInv, VictimInv, DeleteHandler, fdVars, Destroying
  <2>17. CASE Shutdown
    BY <2>17, Distinct DEF TypeOK, Making, Pcs, ServerPcs, MakersInv, VictimInv, Shutdown, fdVars, Destroying
  <2>18. CASE Join
    BY <2>18, Distinct DEF TypeOK, Making, Pcs, ServerPcs, MakersInv, VictimInv, Join, fdVars, Destroying
  <2>19. CASE DeleteSocket
    BY <2>19, Distinct DEF TypeOK, Making, Pcs, ServerPcs, MakersInv, VictimInv, DeleteSocket, Closed, fdVars, Destroying
  <2>20. CASE DestroyEnd
    BY <2>20, Distinct DEF TypeOK, Making, Pcs, ServerPcs, MakersInv, VictimInv, DestroyEnd, fdVars, Destroying
  <2> QED
    BY <2>0, <2>1, <2>2, <2>3, <2>4, <2>5, <2>6, <2>7, <2>8, <2>9, <2>10, <2>11, <2>12, <2>13, <2>14, <2>15, <2>16, <2>17, <2>18, <2>19, <2>20
<1> QED
  BY <1>1, <1>2

\* One socket at a time.
LEMMA MakersStep ==
  ASSUME TypeOK, MakersInv, VictimInv, [Next]_vars
  PROVE  MakersInv'
<1>1. CASE UNCHANGED vars
  BY <1>1 DEF TypeOK, Making, Pcs, ServerPcs, MakersInv, VictimInv, Destroying, vars, fdVars
<1>2. CASE ~UNCHANGED vars
  <2>0. PICK s \in AllSockets, c \in AllSockets :
          \/ NewSocket(s) \/ Accept(s) \/ AcceptInterrupted(s) \/ AcceptFails(s) \/ Accepted(s)
          \/ RegisterClient(s) \/ NewRemote(c, s) \/ Resolve(s) \/ MakeSocket(s) \/ MakeSocketFails(s)
          \/ ConnectInterrupted(s) \/ ConnectFails(s) \/ Connected(s) \/ End(s) \/ DeleteDead(s)
          \/ DeleteHandler(s) \/ Shutdown \/ Join \/ DeleteSocket \/ DestroyEnd
    BY <1>2, NextSplit
  <2>1. CASE NewSocket(s)
    BY <2>1, Distinct DEF TypeOK, Making, Pcs, ServerPcs, MakersInv, VictimInv, NewSocket, Idle, fdVars, Destroying
  <2>2. CASE Accept(s)
    BY <2>2, Distinct DEF TypeOK, Making, Pcs, ServerPcs, MakersInv, VictimInv, Accept, Free, fdVars, Destroying
  <2>3. CASE AcceptInterrupted(s)
    BY <2>3, Distinct DEF TypeOK, Making, Pcs, ServerPcs, MakersInv, VictimInv, AcceptInterrupted, Abandon, fdVars, Destroying
  <2>4. CASE AcceptFails(s)
    BY <2>4, Distinct DEF TypeOK, Making, Pcs, ServerPcs, MakersInv, VictimInv, AcceptFails, Abandon, fdVars, Destroying
  <2>5. CASE Accepted(s)
    BY <2>5, Distinct DEF TypeOK, Making, Pcs, ServerPcs, MakersInv, VictimInv, Accepted, fdVars, Destroying
  <2>6. CASE RegisterClient(s)
    BY <2>6, Distinct DEF TypeOK, Making, Pcs, ServerPcs, MakersInv, VictimInv, RegisterClient, fdVars, Destroying
  <2>7. CASE NewRemote(c, s)
    BY <2>7, Distinct DEF TypeOK, Making, Pcs, ServerPcs, MakersInv, VictimInv, NewRemote, Idle, fdVars, Destroying
  <2>8. CASE Resolve(s)
    BY <2>8, Distinct DEF TypeOK, Making, Pcs, ServerPcs, MakersInv, VictimInv, Resolve, Abandon, fdVars, Destroying
  <2>9. CASE MakeSocket(s)
    BY <2>9, Distinct DEF TypeOK, Making, Pcs, ServerPcs, MakersInv, VictimInv, MakeSocket, Free, fdVars, Destroying
  <2>10. CASE MakeSocketFails(s)
    BY <2>10, Distinct DEF TypeOK, Making, Pcs, ServerPcs, MakersInv, VictimInv, MakeSocketFails, Abandon, fdVars, Destroying
  <2>11. CASE ConnectInterrupted(s)
    BY <2>11, Distinct DEF TypeOK, Making, Pcs, ServerPcs, MakersInv, VictimInv, ConnectInterrupted, Abandon, fdVars, Destroying
  <2>12. CASE ConnectFails(s)
    BY <2>12, Distinct DEF TypeOK, Making, Pcs, ServerPcs, MakersInv, VictimInv, ConnectFails, Abandon, Closed, fdVars, Destroying
  <2>13. CASE Connected(s)
    BY <2>13, Distinct DEF TypeOK, Making, Pcs, ServerPcs, MakersInv, VictimInv, Connected, fdVars, Destroying
  <2>14. CASE End(s)
    BY <2>14, Distinct DEF TypeOK, Making, Pcs, ServerPcs, MakersInv, VictimInv, End, Idle, fdVars, Destroying
  <2>15. CASE DeleteDead(s)
    BY <2>15, Distinct DEF TypeOK, Making, Pcs, ServerPcs, MakersInv, VictimInv, DeleteDead, fdVars, Destroying
  <2>16. CASE DeleteHandler(s)
    BY <2>16, Distinct DEF TypeOK, Making, Pcs, ServerPcs, MakersInv, VictimInv, DeleteHandler, fdVars, Destroying
  <2>17. CASE Shutdown
    BY <2>17, Distinct DEF TypeOK, Making, Pcs, ServerPcs, MakersInv, VictimInv, Shutdown, fdVars, Destroying
  <2>18. CASE Join
    BY <2>18, Distinct DEF TypeOK, Making, Pcs, ServerPcs, MakersInv, VictimInv, Join, fdVars, Destroying
  <2>19. CASE DeleteSocket
    BY <2>19, Distinct DEF TypeOK, Making, Pcs, ServerPcs, MakersInv, VictimInv, DeleteSocket, Closed, fdVars, Destroying
  <2>20. CASE DestroyEnd
    BY <2>20, Distinct DEF TypeOK, Making, Pcs, ServerPcs, MakersInv, VictimInv, DestroyEnd, fdVars, Destroying
  <2> QED
    BY <2>0, <2>1, <2>2, <2>3, <2>4, <2>5, <2>6, <2>7, <2>8, <2>9, <2>10, <2>11, <2>12, <2>13, <2>14, <2>15, <2>16, <2>17, <2>18, <2>19, <2>20
<1> QED
  BY <1>1, <1>2

\* First the thread, then the socket.
LEMMA VictimStep ==
  ASSUME TypeOK, MakersInv, VictimInv, [Next]_vars
  PROVE  VictimInv'
<1>1. CASE UNCHANGED vars
  BY <1>1 DEF TypeOK, Making, Pcs, ServerPcs, MakersInv, VictimInv, Destroying, vars, fdVars
<1>2. CASE ~UNCHANGED vars
  <2>0. PICK s \in AllSockets, c \in AllSockets :
          \/ NewSocket(s) \/ Accept(s) \/ AcceptInterrupted(s) \/ AcceptFails(s) \/ Accepted(s)
          \/ RegisterClient(s) \/ NewRemote(c, s) \/ Resolve(s) \/ MakeSocket(s) \/ MakeSocketFails(s)
          \/ ConnectInterrupted(s) \/ ConnectFails(s) \/ Connected(s) \/ End(s) \/ DeleteDead(s)
          \/ DeleteHandler(s) \/ Shutdown \/ Join \/ DeleteSocket \/ DestroyEnd
    BY <1>2, NextSplit
  <2>1. CASE NewSocket(s)
    BY <2>1, Distinct DEF TypeOK, Making, Pcs, ServerPcs, MakersInv, VictimInv, NewSocket, Idle, fdVars, Destroying
  <2>2. CASE Accept(s)
    BY <2>2, Distinct DEF TypeOK, Making, Pcs, ServerPcs, MakersInv, VictimInv, Accept, Free, fdVars, Destroying
  <2>3. CASE AcceptInterrupted(s)
    BY <2>3, Distinct DEF TypeOK, Making, Pcs, ServerPcs, MakersInv, VictimInv, AcceptInterrupted, Abandon, fdVars, Destroying
  <2>4. CASE AcceptFails(s)
    BY <2>4, Distinct DEF TypeOK, Making, Pcs, ServerPcs, MakersInv, VictimInv, AcceptFails, Abandon, fdVars, Destroying
  <2>5. CASE Accepted(s)
    BY <2>5, Distinct DEF TypeOK, Making, Pcs, ServerPcs, MakersInv, VictimInv, Accepted, fdVars, Destroying
  <2>6. CASE RegisterClient(s)
    BY <2>6, Distinct DEF TypeOK, Making, Pcs, ServerPcs, MakersInv, VictimInv, RegisterClient, fdVars, Destroying
  <2>7. CASE NewRemote(c, s)
    BY <2>7, Distinct DEF TypeOK, Making, Pcs, ServerPcs, MakersInv, VictimInv, NewRemote, Idle, fdVars, Destroying
  <2>8. CASE Resolve(s)
    BY <2>8, Distinct DEF TypeOK, Making, Pcs, ServerPcs, MakersInv, VictimInv, Resolve, Abandon, fdVars, Destroying
  <2>9. CASE MakeSocket(s)
    BY <2>9, Distinct DEF TypeOK, Making, Pcs, ServerPcs, MakersInv, VictimInv, MakeSocket, Free, fdVars, Destroying
  <2>10. CASE MakeSocketFails(s)
    BY <2>10, Distinct DEF TypeOK, Making, Pcs, ServerPcs, MakersInv, VictimInv, MakeSocketFails, Abandon, fdVars, Destroying
  <2>11. CASE ConnectInterrupted(s)
    BY <2>11, Distinct DEF TypeOK, Making, Pcs, ServerPcs, MakersInv, VictimInv, ConnectInterrupted, Abandon, fdVars, Destroying
  <2>12. CASE ConnectFails(s)
    BY <2>12, Distinct DEF TypeOK, Making, Pcs, ServerPcs, MakersInv, VictimInv, ConnectFails, Abandon, Closed, fdVars, Destroying
  <2>13. CASE Connected(s)
    BY <2>13, Distinct DEF TypeOK, Making, Pcs, ServerPcs, MakersInv, VictimInv, Connected, fdVars, Destroying
  <2>14. CASE End(s)
    BY <2>14, Distinct DEF TypeOK, Making, Pcs, ServerPcs, MakersInv, VictimInv, End, Idle, fdVars, Destroying
  <2>15. CASE DeleteDead(s)
    BY <2>15, Distinct DEF TypeOK, Making, Pcs, ServerPcs, MakersInv, VictimInv, DeleteDead, fdVars, Destroying
  <2>16. CASE DeleteHandler(s)
    BY <2>16, Distinct DEF TypeOK, Making, Pcs, ServerPcs, MakersInv, VictimInv, DeleteHandler, fdVars, Destroying
  <2>17. CASE Shutdown
    BY <2>17, Distinct DEF TypeOK, Making, Pcs, ServerPcs, MakersInv, VictimInv, Shutdown, fdVars, Destroying
  <2>18. CASE Join
    BY <2>18, Distinct DEF TypeOK, Making, Pcs, ServerPcs, MakersInv, VictimInv, Join, fdVars, Destroying
  <2>19. CASE DeleteSocket
    BY <2>19, Distinct DEF TypeOK, Making, Pcs, ServerPcs, MakersInv, VictimInv, DeleteSocket, Closed, fdVars, Destroying
  <2>20. CASE DestroyEnd
    BY <2>20, Distinct DEF TypeOK, Making, Pcs, ServerPcs, MakersInv, VictimInv, DestroyEnd, fdVars, Destroying
  <2> QED
    BY <2>0, <2>1, <2>2, <2>3, <2>4, <2>5, <2>6, <2>7, <2>8, <2>9, <2>10, <2>11, <2>12, <2>13, <2>14, <2>15, <2>16, <2>17, <2>18, <2>19, <2>20
<1> QED
  BY <1>1, <1>2

\* Each socket has its descriptor, and each descriptor its socket.
LEMMA TableStep ==
  ASSUME TypeOK, MakersInv, VictimInv, TableInv, [Next]_vars
  PROVE  TableInv'
<1>1. CASE UNCHANGED vars
  BY <1>1 DEF TypeOK, Making, Pcs, ServerPcs, MakersInv, VictimInv, TableInv, Holding, Destroying, vars, fdVars
<1>2. CASE ~UNCHANGED vars
  <2>0. PICK s \in AllSockets, c \in AllSockets :
          \/ NewSocket(s) \/ Accept(s) \/ AcceptInterrupted(s) \/ AcceptFails(s) \/ Accepted(s)
          \/ RegisterClient(s) \/ NewRemote(c, s) \/ Resolve(s) \/ MakeSocket(s) \/ MakeSocketFails(s)
          \/ ConnectInterrupted(s) \/ ConnectFails(s) \/ Connected(s) \/ End(s) \/ DeleteDead(s)
          \/ DeleteHandler(s) \/ Shutdown \/ Join \/ DeleteSocket \/ DestroyEnd
    BY <1>2, NextSplit
  <2>1. CASE NewSocket(s)
    BY <2>1, Distinct DEF TypeOK, Making, Pcs, ServerPcs, MakersInv, VictimInv, TableInv, Holding, NewSocket, Idle, fdVars, Destroying
  <2>2. CASE Accept(s)
    BY <2>2, Distinct DEF TypeOK, Making, Pcs, ServerPcs, MakersInv, VictimInv, TableInv, Holding, Accept, Free, fdVars, Destroying
  <2>3. CASE AcceptInterrupted(s)
    BY <2>3, Distinct DEF TypeOK, Making, Pcs, ServerPcs, MakersInv, VictimInv, TableInv, Holding, AcceptInterrupted, Abandon, fdVars, Destroying
  <2>4. CASE AcceptFails(s)
    BY <2>4, Distinct DEF TypeOK, Making, Pcs, ServerPcs, MakersInv, VictimInv, TableInv, Holding, AcceptFails, Abandon, fdVars, Destroying
  <2>5. CASE Accepted(s)
    BY <2>5, Distinct DEF TypeOK, Making, Pcs, ServerPcs, MakersInv, VictimInv, TableInv, Holding, Accepted, fdVars, Destroying
  <2>6. CASE RegisterClient(s)
    BY <2>6, Distinct DEF TypeOK, Making, Pcs, ServerPcs, MakersInv, VictimInv, TableInv, Holding, RegisterClient, fdVars, Destroying
  <2>7. CASE NewRemote(c, s)
    BY <2>7, Distinct DEF TypeOK, Making, Pcs, ServerPcs, MakersInv, VictimInv, TableInv, Holding, NewRemote, Idle, fdVars, Destroying
  <2>8. CASE Resolve(s)
    BY <2>8, Distinct DEF TypeOK, Making, Pcs, ServerPcs, MakersInv, VictimInv, TableInv, Holding, Resolve, Abandon, fdVars, Destroying
  <2>9. CASE MakeSocket(s)
    BY <2>9, Distinct DEF TypeOK, Making, Pcs, ServerPcs, MakersInv, VictimInv, TableInv, Holding, MakeSocket, Free, fdVars, Destroying
  <2>10. CASE MakeSocketFails(s)
    BY <2>10, Distinct DEF TypeOK, Making, Pcs, ServerPcs, MakersInv, VictimInv, TableInv, Holding, MakeSocketFails, Abandon, fdVars, Destroying
  <2>11. CASE ConnectInterrupted(s)
    BY <2>11, Distinct DEF TypeOK, Making, Pcs, ServerPcs, MakersInv, VictimInv, TableInv, Holding, ConnectInterrupted, Abandon, fdVars, Destroying
  <2>12. CASE ConnectFails(s)
    BY <2>12, Distinct DEF TypeOK, Making, Pcs, ServerPcs, MakersInv, VictimInv, TableInv, Holding, ConnectFails, Abandon, Closed, fdVars, Destroying
  <2>13. CASE Connected(s)
    BY <2>13, Distinct DEF TypeOK, Making, Pcs, ServerPcs, MakersInv, VictimInv, TableInv, Holding, Connected, fdVars, Destroying
  <2>14. CASE End(s)
    BY <2>14, Distinct DEF TypeOK, Making, Pcs, ServerPcs, MakersInv, VictimInv, TableInv, Holding, End, Idle, fdVars, Destroying
  <2>15. CASE DeleteDead(s)
    BY <2>15, Distinct DEF TypeOK, Making, Pcs, ServerPcs, MakersInv, VictimInv, TableInv, Holding, DeleteDead, fdVars, Destroying
  <2>16. CASE DeleteHandler(s)
    BY <2>16, Distinct DEF TypeOK, Making, Pcs, ServerPcs, MakersInv, VictimInv, TableInv, Holding, DeleteHandler, fdVars, Destroying
  <2>17. CASE Shutdown
    BY <2>17, Distinct DEF TypeOK, Making, Pcs, ServerPcs, MakersInv, VictimInv, TableInv, Holding, Shutdown, fdVars, Destroying
  <2>18. CASE Join
    BY <2>18, Distinct DEF TypeOK, Making, Pcs, ServerPcs, MakersInv, VictimInv, TableInv, Holding, Join, fdVars, Destroying
  <2>19. CASE DeleteSocket
    BY <2>19, Distinct DEF TypeOK, Making, Pcs, ServerPcs, MakersInv, VictimInv, TableInv, Holding, DeleteSocket, Closed, fdVars, Destroying
  <2>20. CASE DestroyEnd
    BY <2>20, Distinct DEF TypeOK, Making, Pcs, ServerPcs, MakersInv, VictimInv, TableInv, Holding, DestroyEnd, fdVars, Destroying
  <2> QED
    BY <2>0, <2>1, <2>2, <2>3, <2>4, <2>5, <2>6, <2>7, <2>8, <2>9, <2>10, <2>11, <2>12, <2>13, <2>14, <2>15, <2>16, <2>17, <2>18, <2>19, <2>20
<1> QED
  BY <1>1, <1>2

\* Nothing is forgotten before the shutdown.
LEMMA QuietStep ==
  ASSUME TypeOK, MakersInv, VictimInv, TableInv, QuietInv, [Next]_vars
  PROVE  QuietInv'
<1>1. CASE UNCHANGED vars
  BY <1>1 DEF TypeOK, Making, Pcs, ServerPcs, MakersInv, VictimInv, TableInv, Holding, QuietInv, Destroying, vars, fdVars
<1>2. CASE ~UNCHANGED vars
  <2>0. PICK s \in AllSockets, c \in AllSockets :
          \/ NewSocket(s) \/ Accept(s) \/ AcceptInterrupted(s) \/ AcceptFails(s) \/ Accepted(s)
          \/ RegisterClient(s) \/ NewRemote(c, s) \/ Resolve(s) \/ MakeSocket(s) \/ MakeSocketFails(s)
          \/ ConnectInterrupted(s) \/ ConnectFails(s) \/ Connected(s) \/ End(s) \/ DeleteDead(s)
          \/ DeleteHandler(s) \/ Shutdown \/ Join \/ DeleteSocket \/ DestroyEnd
    BY <1>2, NextSplit
  <2>1. CASE NewSocket(s)
    BY <2>1, Distinct DEF TypeOK, Making, Pcs, ServerPcs, MakersInv, VictimInv, TableInv, Holding, QuietInv, NewSocket, Idle, fdVars, Destroying
  <2>2. CASE Accept(s)
    BY <2>2, Distinct DEF TypeOK, Making, Pcs, ServerPcs, MakersInv, VictimInv, TableInv, Holding, QuietInv, Accept, Free, fdVars, Destroying
  <2>3. CASE AcceptInterrupted(s)
    BY <2>3, Distinct DEF TypeOK, Making, Pcs, ServerPcs, MakersInv, VictimInv, TableInv, Holding, QuietInv, AcceptInterrupted, Abandon, fdVars, Destroying
  <2>4. CASE AcceptFails(s)
    BY <2>4, Distinct DEF TypeOK, Making, Pcs, ServerPcs, MakersInv, VictimInv, TableInv, Holding, QuietInv, AcceptFails, Abandon, fdVars, Destroying
  <2>5. CASE Accepted(s)
    BY <2>5, Distinct DEF TypeOK, Making, Pcs, ServerPcs, MakersInv, VictimInv, TableInv, Holding, QuietInv, Accepted, fdVars, Destroying
  <2>6. CASE RegisterClient(s)
    BY <2>6, Distinct DEF TypeOK, Making, Pcs, ServerPcs, MakersInv, VictimInv, TableInv, Holding, QuietInv, RegisterClient, fdVars, Destroying
  <2>7. CASE NewRemote(c, s)
    BY <2>7, Distinct DEF TypeOK, Making, Pcs, ServerPcs, MakersInv, VictimInv, TableInv, Holding, QuietInv, NewRemote, Idle, fdVars, Destroying
  <2>8. CASE Resolve(s)
    BY <2>8, Distinct DEF TypeOK, Making, Pcs, ServerPcs, MakersInv, VictimInv, TableInv, Holding, QuietInv, Resolve, Abandon, fdVars, Destroying
  <2>9. CASE MakeSocket(s)
    BY <2>9, Distinct DEF TypeOK, Making, Pcs, ServerPcs, MakersInv, VictimInv, TableInv, Holding, QuietInv, MakeSocket, Free, fdVars, Destroying
  <2>10. CASE MakeSocketFails(s)
    BY <2>10, Distinct DEF TypeOK, Making, Pcs, ServerPcs, MakersInv, VictimInv, TableInv, Holding, QuietInv, MakeSocketFails, Abandon, fdVars, Destroying
  <2>11. CASE ConnectInterrupted(s)
    BY <2>11, Distinct DEF TypeOK, Making, Pcs, ServerPcs, MakersInv, VictimInv, TableInv, Holding, QuietInv, ConnectInterrupted, Abandon, fdVars, Destroying
  <2>12. CASE ConnectFails(s)
    BY <2>12, Distinct DEF TypeOK, Making, Pcs, ServerPcs, MakersInv, VictimInv, TableInv, Holding, QuietInv, ConnectFails, Abandon, Closed, fdVars, Destroying
  <2>13. CASE Connected(s)
    BY <2>13, Distinct DEF TypeOK, Making, Pcs, ServerPcs, MakersInv, VictimInv, TableInv, Holding, QuietInv, Connected, fdVars, Destroying
  <2>14. CASE End(s)
    BY <2>14, Distinct DEF TypeOK, Making, Pcs, ServerPcs, MakersInv, VictimInv, TableInv, Holding, QuietInv, End, Idle, fdVars, Destroying
  <2>15. CASE DeleteDead(s)
    BY <2>15, Distinct DEF TypeOK, Making, Pcs, ServerPcs, MakersInv, VictimInv, TableInv, Holding, QuietInv, DeleteDead, fdVars, Destroying
  <2>16. CASE DeleteHandler(s)
    BY <2>16, Distinct DEF TypeOK, Making, Pcs, ServerPcs, MakersInv, VictimInv, TableInv, Holding, QuietInv, DeleteHandler, fdVars, Destroying
  <2>17. CASE Shutdown
    BY <2>17, Distinct DEF TypeOK, Making, Pcs, ServerPcs, MakersInv, VictimInv, TableInv, Holding, QuietInv, Shutdown, fdVars, Destroying
  <2>18. CASE Join
    BY <2>18, Distinct DEF TypeOK, Making, Pcs, ServerPcs, MakersInv, VictimInv, TableInv, Holding, QuietInv, Join, fdVars, Destroying
  <2>19. CASE DeleteSocket
    BY <2>19, Distinct DEF TypeOK, Making, Pcs, ServerPcs, MakersInv, VictimInv, TableInv, Holding, QuietInv, DeleteSocket, Closed, fdVars, Destroying
  <2>20. CASE DestroyEnd
    BY <2>20, Distinct DEF TypeOK, Making, Pcs, ServerPcs, MakersInv, VictimInv, TableInv, Holding, QuietInv, DestroyEnd, fdVars, Destroying
  <2> QED
    BY <2>0, <2>1, <2>2, <2>3, <2>4, <2>5, <2>6, <2>7, <2>8, <2>9, <2>10, <2>11, <2>12, <2>13, <2>14, <2>15, <2>16, <2>17, <2>18, <2>19, <2>20
<1> QED
  BY <1>1, <1>2

\* Nobody comes after the end.
LEMMA EndStep ==
  ASSUME TypeOK, MakersInv, VictimInv, EndInv, [Next]_vars
  PROVE  EndInv'
<1>1. CASE UNCHANGED vars
  BY <1>1 DEF TypeOK, Making, Pcs, ServerPcs, MakersInv, VictimInv, EndInv, Destroying, vars, fdVars
<1>2. CASE ~UNCHANGED vars
  <2>0. PICK s \in AllSockets, c \in AllSockets :
          \/ NewSocket(s) \/ Accept(s) \/ AcceptInterrupted(s) \/ AcceptFails(s) \/ Accepted(s)
          \/ RegisterClient(s) \/ NewRemote(c, s) \/ Resolve(s) \/ MakeSocket(s) \/ MakeSocketFails(s)
          \/ ConnectInterrupted(s) \/ ConnectFails(s) \/ Connected(s) \/ End(s) \/ DeleteDead(s)
          \/ DeleteHandler(s) \/ Shutdown \/ Join \/ DeleteSocket \/ DestroyEnd
    BY <1>2, NextSplit
  <2>1. CASE NewSocket(s)
    BY <2>1, Distinct DEF TypeOK, Making, Pcs, ServerPcs, MakersInv, VictimInv, EndInv, NewSocket, Idle, fdVars, Destroying
  <2>2. CASE Accept(s)
    BY <2>2, Distinct DEF TypeOK, Making, Pcs, ServerPcs, MakersInv, VictimInv, EndInv, Accept, Free, fdVars, Destroying
  <2>3. CASE AcceptInterrupted(s)
    BY <2>3, Distinct DEF TypeOK, Making, Pcs, ServerPcs, MakersInv, VictimInv, EndInv, AcceptInterrupted, Abandon, fdVars, Destroying
  <2>4. CASE AcceptFails(s)
    BY <2>4, Distinct DEF TypeOK, Making, Pcs, ServerPcs, MakersInv, VictimInv, EndInv, AcceptFails, Abandon, fdVars, Destroying
  <2>5. CASE Accepted(s)
    BY <2>5, Distinct DEF TypeOK, Making, Pcs, ServerPcs, MakersInv, VictimInv, EndInv, Accepted, fdVars, Destroying
  <2>6. CASE RegisterClient(s)
    BY <2>6, Distinct DEF TypeOK, Making, Pcs, ServerPcs, MakersInv, VictimInv, EndInv, RegisterClient, fdVars, Destroying
  <2>7. CASE NewRemote(c, s)
    BY <2>7, Distinct DEF TypeOK, Making, Pcs, ServerPcs, MakersInv, VictimInv, EndInv, NewRemote, Idle, fdVars, Destroying
  <2>8. CASE Resolve(s)
    BY <2>8, Distinct DEF TypeOK, Making, Pcs, ServerPcs, MakersInv, VictimInv, EndInv, Resolve, Abandon, fdVars, Destroying
  <2>9. CASE MakeSocket(s)
    BY <2>9, Distinct DEF TypeOK, Making, Pcs, ServerPcs, MakersInv, VictimInv, EndInv, MakeSocket, Free, fdVars, Destroying
  <2>10. CASE MakeSocketFails(s)
    BY <2>10, Distinct DEF TypeOK, Making, Pcs, ServerPcs, MakersInv, VictimInv, EndInv, MakeSocketFails, Abandon, fdVars, Destroying
  <2>11. CASE ConnectInterrupted(s)
    BY <2>11, Distinct DEF TypeOK, Making, Pcs, ServerPcs, MakersInv, VictimInv, EndInv, ConnectInterrupted, Abandon, fdVars, Destroying
  <2>12. CASE ConnectFails(s)
    BY <2>12, Distinct DEF TypeOK, Making, Pcs, ServerPcs, MakersInv, VictimInv, EndInv, ConnectFails, Abandon, Closed, fdVars, Destroying
  <2>13. CASE Connected(s)
    BY <2>13, Distinct DEF TypeOK, Making, Pcs, ServerPcs, MakersInv, VictimInv, EndInv, Connected, fdVars, Destroying
  <2>14. CASE End(s)
    BY <2>14, Distinct DEF TypeOK, Making, Pcs, ServerPcs, MakersInv, VictimInv, EndInv, End, Idle, fdVars, Destroying
  <2>15. CASE DeleteDead(s)
    BY <2>15, Distinct DEF TypeOK, Making, Pcs, ServerPcs, MakersInv, VictimInv, EndInv, DeleteDead, fdVars, Destroying
  <2>16. CASE DeleteHandler(s)
    BY <2>16, Distinct DEF TypeOK, Making, Pcs, ServerPcs, MakersInv, VictimInv, EndInv, DeleteHandler, fdVars, Destroying
  <2>17. CASE Shutdown
    BY <2>17, Distinct DEF TypeOK, Making, Pcs, ServerPcs, MakersInv, VictimInv, EndInv, Shutdown, fdVars, Destroying
  <2>18. CASE Join
    BY <2>18, Distinct DEF TypeOK, Making, Pcs, ServerPcs, MakersInv, VictimInv, EndInv, Join, fdVars, Destroying
  <2>19. CASE DeleteSocket
    BY <2>19, Distinct DEF TypeOK, Making, Pcs, ServerPcs, MakersInv, VictimInv, EndInv, DeleteSocket, Closed, fdVars, Destroying
  <2>20. CASE DestroyEnd
    BY <2>20, Distinct DEF TypeOK, Making, Pcs, ServerPcs, MakersInv, VictimInv, EndInv, DestroyEnd, fdVars, Destroying
  <2> QED
    BY <2>0, <2>1, <2>2, <2>3, <2>4, <2>5, <2>6, <2>7, <2>8, <2>9, <2>10, <2>11, <2>12, <2>13, <2>14, <2>15, <2>16, <2>17, <2>18, <2>19, <2>20
<1> QED
  BY <1>1, <1>2

-----------------------------------------------------------------------------
\* The inductive invariant of Descriptors.
THEOREM Invariance == Spec => []IInv
<1>1. Init => IInv
  BY Distinct
  DEF Init, IInv, TypeOK, Making, Pcs, ServerPcs, MakersInv, VictimInv, TableInv,
      Holding, QuietInv, Destroying, EndInv
<1>2. IInv /\ [Next]_vars => IInv'
  BY TypeStep, MakersStep, VictimStep, TableStep, QuietStep, EndStep DEF IInv
<1> QED
  BY <1>1, <1>2, PTL DEF Spec

\* The types of Descriptors.
THEOREM TypeCorrect == Spec => []TypeOK
  BY Invariance, PTL DEF IInv

\* No descriptor is closed twice, or while its thread may use it.
THEOREM OwnDescriptorAlways == Spec => []OwnDescriptor
<1>1. IInv => OwnDescriptor
  BY DEF IInv, TableInv, Holding, OwnDescriptor
<1> QED
  BY <1>1, Invariance, PTL

\* No descriptor is forgotten while the server serves.
THEOREM NoLeak == Spec => []NoLeakWhileServing
<1>1. IInv => NoLeakWhileServing
  <2> SUFFICES ASSUME IInv, ~Destroying, NEW n \in FDs, ~Free(n)
               PROVE  pc[table[n]] \notin {"none", "closed", "lost", "failed"}
    BY DEF NoLeakWhileServing
  <2>1. table[n] \in AllSockets
    BY DEF IInv, TypeOK, Free
  <2> QED
    BY <2>1 DEF IInv, TableInv, Holding, QuietInv
<1> QED
  BY <1>1, Invariance, PTL

\* At most one descriptor is open when the Server is gone.
THEOREM ClosedAtEndAlways == Spec => []ClosedAtEnd
<1>1. IInv => ClosedAtEnd
  <2> SUFFICES ASSUME IInv, serverPc = "gone", NEW m \in FDs, NEW n \in FDs,
                      ~Free(m), ~Free(n)
               PROVE  m = n /\ pc[table[m]] = "lost"
    BY DEF ClosedAtEnd
  <2>1. table[m] \in AllSockets /\ table[n] \in AllSockets
    BY DEF IInv, TypeOK, Free
  <2>2. \A s \in AllSockets : pc[s] \in {"none", "closed", "lost"}
    BY DEF IInv, EndInv, AllSockets
  <2>3. /\ pc[table[m]] = "lost" /\ newFd[table[m]] = m
        /\ pc[table[n]] = "lost" /\ newFd[table[n]] = n
    BY <2>1, <2>2 DEF IInv, TableInv, Holding
  <2>4. table[m] = table[n]
    BY <2>1, <2>3 DEF IInv, MakersInv
  <2> QED
    BY <2>3, <2>4
<1> QED
  BY <1>1, Invariance, PTL

=============================================================================
