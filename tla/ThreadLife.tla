----------------------------- MODULE ThreadLife -----------------------------
(***************************************************************************)
(* The life of a Thread: StartThread, the routine with its blocking calls  *)
(* and interruption points, Interrupt by a signal, and Join.               *)
(*                                                                         *)
(* Each thread has an owner, the handler or main() that holds the Thread   *)
(* object: it starts the thread, and its destructor terminates, interrupts *)
(* and joins it.  The handler of the signal runs in the thread itself, at  *)
(* any point of it, and the thread does not go on before it has returned.  *)
(* Two mutexes meet here: DataMutex of each thread, and OnceEpochMutex,    *)
(* which the first CallOnce of every thread locks.  They are not           *)
(* recursive, so a handler that finds one locked by its own thread never   *)
(* returns.                                                                *)
(***************************************************************************)
EXTENDS Naturals

CONSTANTS Threads, NoThread

ASSUME ThreadLifeAssumption == NoThread \notin Threads

VARIABLES
  pc,                 \* where each thread is
  sent,               \* threads with a pending THREAD_INTERRUPT_SIG
  handler,            \* where ThreadSigUsr1Handler is in each thread
  delivered,          \* history: threads in which it has begun to run
  recorded,           \* threads whose epoch has been set by a CallOnce
  InterruptRequested, \* threads with ThreadDataBase::InterruptRequested
  Done,               \* threads with ThreadDataBase::Done
  dataMutex,          \* who holds ThreadDataBase::DataMutex
  onceMutex,          \* the thread that holds OnceEpochMutex
  terminated,         \* threads whose handler has _IsTerminated
  owner               \* where the owner of each thread is

threadVars == <<pc, recorded, onceMutex, Done>>
signalVars == <<sent, handler, delivered>>
ownerVars  == <<owner, terminated>>
vars == <<threadVars, signalVars, ownerVars, InterruptRequested, dataMutex>>

Pcs == {"none", "begin", "once", "loop", "call", "poll", "asleep", "returned",
        "point", "ended", "exit", "cleared", "set", "done"}

OwnerPcs == {"new", "live", "interrupt", "kill", "join", "test", "enter",
             "waiting", "relock", "pjoin", "mark", "gone", "crashed"}

-----------------------------------------------------------------------------
Init ==
  /\ pc = [t \in Threads |-> "none"] /\ recorded = {} /\ onceMutex = NoThread
  /\ Done = {} /\ sent = {} /\ delivered = {} /\ InterruptRequested = {}
  /\ handler = [t \in Threads |-> "none"]
  /\ dataMutex = [t \in Threads |-> "free"]
  /\ owner = [t \in Threads |-> "new"] /\ terminated = {}

\* The thread, not the handler of a signal, goes on.
Goto(t, from, to) ==
  /\ handler[t] = "none"
  /\ pc[t] = from
  /\ pc' = [pc EXCEPT ![t] = to]

\* GetCurrentThreadData in t returns a null pointer.
TLSIsNull(t) == pc[t] \in {"begin", "once", "cleared", "set"}

-----------------------------------------------------------------------------
(* The thread: ThreadProxy and the routine of a handler *)

\* SetCurrentThreadData, the first CallOnce of the thread: its epoch is new, and
\* it takes OnceEpochMutex ...
OnceLock(t) ==
  /\ onceMutex = NoThread
  /\ t \notin recorded
  /\ Goto(t, "begin", "once")
  /\ onceMutex' = t
  /\ UNCHANGED <<recorded, Done, signalVars, ownerVars, InterruptRequested, dataMutex>>

\* ... records the epoch, and unlocks it.  The thread data are set.
OnceRecord(t) ==
  /\ Goto(t, "once", "loop")
  /\ recorded' = recorded \cup {t}
  /\ onceMutex' = NoThread
  /\ UNCHANGED <<Done, signalVars, ownerVars, InterruptRequested, dataMutex>>

\* The handler of a signal has recorded the epoch before.
OnceKnown(t) ==
  /\ t \in recorded
  /\ Goto(t, "begin", "loop")
  /\ UNCHANGED <<recorded, onceMutex, Done, signalVars, ownerVars,
                 InterruptRequested, dataMutex>>

\* The loop condition IsTerminated of the routine, or a Finish of its own.
Loop(t) ==
  /\ \/ Goto(t, "loop", IF t \in terminated THEN "ended" ELSE "call")
     \/ Goto(t, "loop", "ended")
  /\ UNCHANGED <<recorded, onceMutex, Done, signalVars, ownerVars,
                 InterruptRequested, dataMutex>>

\* The thread blocks: poll, with a timeout, or sem_wait, without one.
Block(t) ==
  /\ \E to \in {"poll", "asleep"} : Goto(t, "call", to)
  /\ UNCHANGED <<recorded, onceMutex, Done, signalVars, ownerVars,
                 InterruptRequested, dataMutex>>

PollReturns(t) ==
  /\ Goto(t, "poll", "returned")
  /\ UNCHANGED <<recorded, onceMutex, Done, signalVars, ownerVars,
                 InterruptRequested, dataMutex>>

\* Somebody posts the semaphore.
Wake(t) ==
  /\ Goto(t, "asleep", "returned")
  /\ UNCHANGED <<recorded, onceMutex, Done, signalVars, ownerVars,
                 InterruptRequested, dataMutex>>

\* InterruptionPoint locks DataMutex ...
PointLock(t) ==
  /\ dataMutex[t] = "free"
  /\ Goto(t, "returned", "point")
  /\ dataMutex' = [dataMutex EXCEPT ![t] = "thread"]
  /\ UNCHANGED <<recorded, onceMutex, Done, signalVars, ownerVars, InterruptRequested>>

\* Mutant of PointTest: the mutex stays locked when the exception is thrown.
MutPointThrowsLocked(t) ==
  /\ Goto(t, "point", IF t \in InterruptRequested THEN "ended" ELSE "loop")
  /\ InterruptRequested' = InterruptRequested \ {t}
  /\ dataMutex' = [dataMutex EXCEPT ![t] =
                     IF t \in InterruptRequested THEN "thread" ELSE "free"]
  /\ UNCHANGED <<recorded, onceMutex, Done, signalVars, ownerVars>>

\* ... and throws ThreadInterruptedException, which ThreadProxy catches, if an
\* interrupt was requested.
PointTest(t) ==
  /\ Goto(t, "point", IF t \in InterruptRequested THEN "ended" ELSE "loop")
  /\ InterruptRequested' = InterruptRequested \ {t}
  /\ dataMutex' = [dataMutex EXCEPT ![t] = "free"]
  /\ UNCHANGED <<recorded, onceMutex, Done, signalVars, ownerVars>>

\* Mutant of ExitLock: the end of ThreadProxy does not lock DataMutex.
MutExitUnlocked(t) ==
  /\ Goto(t, "ended", "exit")
  /\ UNCHANGED <<recorded, onceMutex, Done, signalVars, ownerVars,
                 InterruptRequested, dataMutex>>

\* The routine has ended: ThreadProxy locks DataMutex and disables interruption.
ExitLock(t) ==
  /\ dataMutex[t] = "free"
  /\ Goto(t, "ended", "exit")
  /\ dataMutex' = [dataMutex EXCEPT ![t] = "thread"]
  /\ UNCHANGED <<recorded, onceMutex, Done, signalVars, ownerVars, InterruptRequested>>

\* SetCurrentThreadData(nullptr).
ClearTLS(t) ==
  /\ Goto(t, "exit", "cleared")
  /\ UNCHANGED <<recorded, onceMutex, Done, signalVars, ownerVars,
                 InterruptRequested, dataMutex>>

SetDone(t) ==
  /\ Goto(t, "cleared", "set")
  /\ Done' = Done \cup {t}
  /\ UNCHANGED <<recorded, onceMutex, signalVars, ownerVars, InterruptRequested,
                 dataMutex>>

\* Mutant of Notify: nobody is notified.
MutNotifyForgotten(t) ==
  /\ Goto(t, "set", "done")
  /\ dataMutex' = [dataMutex EXCEPT ![t] = "free"]
  /\ UNCHANGED <<recorded, onceMutex, Done, signalVars, ownerVars, InterruptRequested>>

\* DoneCondition->NotifyAll, DataMutex is unlocked, and the thread ends.
Notify(t) ==
  /\ Goto(t, "set", "done")
  /\ owner' = [owner EXCEPT ![t] = IF @ = "waiting" THEN "relock" ELSE @]
  /\ dataMutex' = [dataMutex EXCEPT ![t] = "free"]
  /\ UNCHANGED <<recorded, onceMutex, Done, signalVars, terminated, InterruptRequested>>

-----------------------------------------------------------------------------
(* The signal: ThreadSigUsr1Handler *)

\* It begins, wherever the thread is.
Deliver(t) ==
  /\ t \in sent
  /\ pc[t] # "done"
  /\ sent' = sent \ {t}
  /\ delivered' = delivered \cup {t}
  /\ handler' = [handler EXCEPT ![t] = IF t \in recorded THEN "data" ELSE "once"]
  /\ UNCHANGED <<threadVars, ownerVars, InterruptRequested, dataMutex>>

\* GetCurrentThreadData in the handler is the first CallOnce of the thread.
HandlerOnce(t) ==
  /\ handler[t] = "once"
  /\ onceMutex = NoThread
  /\ recorded' = recorded \cup {t}
  /\ handler' = [handler EXCEPT ![t] = "data"]
  /\ UNCHANGED <<pc, onceMutex, Done, sent, delivered, ownerVars,
                 InterruptRequested, dataMutex>>

\* There are no thread data: the signal is lost.
HandlerLoses(t) ==
  /\ handler[t] = "data"
  /\ TLSIsNull(t)
  /\ handler' = [handler EXCEPT ![t] = "none"]
  /\ UNCHANGED <<threadVars, sent, delivered, ownerVars, InterruptRequested, dataMutex>>

\* DataMutex is locked, InterruptRequested is set, and a blocking call that was
\* interrupted fails with EINTR.
HandlerRequests(t) ==
  /\ handler[t] = "data"
  /\ ~TLSIsNull(t)
  /\ dataMutex[t] = "free"
  /\ InterruptRequested' = InterruptRequested \cup {t}
  /\ handler' = [handler EXCEPT ![t] = "none"]
  /\ pc' = [pc EXCEPT ![t] = IF @ \in {"poll", "asleep"} THEN "returned" ELSE @]
  /\ UNCHANGED <<recorded, onceMutex, Done, sent, delivered, ownerVars, dataMutex>>

-----------------------------------------------------------------------------
(* The owner *)

OwnerGoto(t, from, to) ==
  /\ owner[t] = from
  /\ owner' = [owner EXCEPT ![t] = to]

\* StartThread; when pthread_create fails, the thread is as it was.
Start(t) ==
  /\ OwnerGoto(t, "new", "live")
  /\ pc' = [pc EXCEPT ![t] = "begin"]
  /\ UNCHANGED <<recorded, onceMutex, Done, signalVars, terminated,
                 InterruptRequested, dataMutex>>

\* Mutant of Terminate: the destructor leaves it to the signal to end the thread.
MutInterruptOnly(t) ==
  /\ \E from \in {"new", "live"} : OwnerGoto(t, from, "interrupt")
  /\ UNCHANGED <<threadVars, signalVars, terminated, InterruptRequested, dataMutex>>

\* The destructor of a handler: Terminate.  The thread may never have been started.
Terminate(t) ==
  /\ \E from \in {"new", "live"} : OwnerGoto(t, from, "interrupt")
  /\ terminated' = terminated \cup {t}
  /\ UNCHANGED <<threadVars, signalVars, InterruptRequested, dataMutex>>

\* main() joins the thread of the server, which it does not interrupt.
JoinOnly(t) ==
  /\ OwnerGoto(t, "live", "join")
  /\ UNCHANGED <<threadVars, signalVars, terminated, InterruptRequested, dataMutex>>

\* Interrupt: GetHandle locks DataMutex for a moment ...
GetHandle(t) ==
  /\ dataMutex[t] = "free"
  /\ OwnerGoto(t, "interrupt", "kill")
  /\ UNCHANGED <<threadVars, signalVars, terminated, InterruptRequested, dataMutex>>

\* ... and pthread_kill dereferences the handle, which is 0 before the start.
Kill(t) ==
  /\ IF pc[t] = "none"
       THEN OwnerGoto(t, "kill", "crashed") /\ UNCHANGED sent
       ELSE OwnerGoto(t, "kill", "join") /\ sent' = sent \cup {t}
  /\ UNCHANGED <<threadVars, handler, delivered, terminated, InterruptRequested,
                 dataMutex>>

\* JoinNoExcept locks DataMutex, now and after each wait ...
JoinLock(t) ==
  /\ dataMutex[t] = "free"
  /\ \E from \in {"join", "relock"} : OwnerGoto(t, from, "test")
  /\ dataMutex' = [dataMutex EXCEPT ![t] = "owner"]
  /\ UNCHANGED <<threadVars, signalVars, terminated, InterruptRequested>>

\* ... looks at Done ...
JoinTest(t) ==
  /\ OwnerGoto(t, "test", IF t \in Done THEN "pjoin" ELSE "enter")
  /\ dataMutex' = [dataMutex EXCEPT ![t] = IF t \in Done THEN "free" ELSE @]
  /\ UNCHANGED <<threadVars, signalVars, terminated, InterruptRequested>>

\* ... and waits for DoneCondition.
JoinWait(t) ==
  /\ OwnerGoto(t, "enter", "waiting")
  /\ dataMutex' = [dataMutex EXCEPT ![t] = "free"]
  /\ UNCHANGED <<threadVars, signalVars, terminated, InterruptRequested>>

SpuriousWakeup(t) ==
  /\ OwnerGoto(t, "waiting", "relock")
  /\ UNCHANGED <<threadVars, signalVars, terminated, InterruptRequested, dataMutex>>

PthreadJoin(t) ==
  /\ pc[t] = "done"
  /\ OwnerGoto(t, "pjoin", "mark")
  /\ UNCHANGED <<threadVars, signalVars, terminated, InterruptRequested, dataMutex>>

\* Joined is set, and the Thread lets go of its data.
MarkJoined(t) ==
  /\ dataMutex[t] = "free"
  /\ OwnerGoto(t, "mark", "gone")
  /\ UNCHANGED <<threadVars, signalVars, terminated, InterruptRequested, dataMutex>>

-----------------------------------------------------------------------------
Alive == \A t \in Threads : owner[t] # "crashed"

ThreadStep(t) ==
  /\ Alive
  /\ \/ OnceLock(t) \/ OnceRecord(t) \/ OnceKnown(t)
     \/ Loop(t) \/ Block(t) \/ PollReturns(t) \/ PointLock(t) \/ PointTest(t)
     \/ ExitLock(t) \/ ClearTLS(t) \/ SetDone(t) \/ Notify(t)

HandlerStep(t) ==
  Alive /\ (Deliver(t) \/ HandlerOnce(t) \/ HandlerLoses(t) \/ HandlerRequests(t))

\* The rest of a destructor that has begun.
OwnerStep(t) ==
  /\ Alive
  /\ \/ GetHandle(t) \/ Kill(t) \/ JoinLock(t) \/ JoinTest(t) \/ JoinWait(t)
     \/ PthreadJoin(t) \/ MarkJoined(t)

OtherStep(t) ==
  Alive /\ (Wake(t) \/ Start(t) \/ Terminate(t) \/ JoinOnly(t) \/ SpuriousWakeup(t))

Next ==
  \E t \in Threads : ThreadStep(t) \/ HandlerStep(t) \/ OwnerStep(t) \/ OtherStep(t)

Spec == Init /\ [][Next]_vars

\* Runnable threads run, a pending signal is delivered, poll ends by its timeout.
\* A thread, and a handler in it, gets a mutex that is free again and again, as
\* when its owner takes it after each of any number of spurious wakeups.  Nobody has to post a
\* semaphore, to start a thread, or to destroy a handler.
FairSpec ==
  /\ Spec
  /\ \A t \in Threads :
       SF_vars(ThreadStep(t)) /\ SF_vars(HandlerStep(t)) /\ WF_vars(OwnerStep(t))

-----------------------------------------------------------------------------
(* Properties *)

\* Every variable has its type, and each mutex is locked exactly while a thread
\* or an owner is between its lock and its unlock.
TypeOK ==
  /\ pc \in [Threads -> Pcs] /\ owner \in [Threads -> OwnerPcs]
  /\ handler \in [Threads -> {"none", "once", "data"}]
  /\ sent \subseteq Threads /\ delivered \subseteq Threads
  /\ recorded \subseteq Threads /\ Done \subseteq Threads
  /\ InterruptRequested \subseteq Threads /\ terminated \subseteq Threads
  /\ dataMutex \in [Threads -> {"free", "thread", "owner"}]
  /\ onceMutex \in Threads \cup {NoThread}
  /\ \A t \in Threads :
       /\ dataMutex[t] = "thread" <=> pc[t] \in {"point", "exit", "cleared", "set"}
       /\ dataMutex[t] = "owner" <=> owner[t] \in {"test", "enter"}
       /\ onceMutex = t <=> pc[t] = "once"

\* The owner does not sleep in Join when Done has been set, unless the
\* notification is still to come (Thread.cpp:51-57, 137-140).
NoLostNotify ==
  \A t \in Threads : owner[t] = "waiting" /\ t \in Done => pc[t] = "set"

\* A signal that comes before the thread data are set, or after, is lost.  The
\* thread ends all the same: when it is to block after a signal, the request
\* is there, for Terminate has come first (Thread.cpp:43-57, 170-179).
InterruptNotLost ==
  \A t \in Threads :
    /\ t \in delivered /\ handler[t] = "none"
    /\ pc[t] \in {"call", "poll", "asleep", "returned", "point"}
    => t \in InterruptRequested

\* An interrupted thread that still sleeps was hit between its last interruption
\* point and sem_wait.
Missed(t) == pc[t] = "asleep" /\ t \in InterruptRequested

\* The handler waits for the DataMutex that its thread holds.
SelfLocked(t) == handler[t] = "data" /\ ~TLSIsNull(t) /\ dataMutex[t] = "thread"

\* A handler waits for OnceEpochMutex, which its thread holds: no other thread
\* gets through its first CallOnce any more.
OnceLocked == \E s \in Threads : handler[s] = "once" /\ onceMutex = s

\* What the thread, a handler in it, or its owner can do by itself.
ThreadCanGo(t) ==
  /\ handler[t] = "none"
  /\ \/ pc[t] \in {"once", "loop", "call", "poll", "point", "exit", "cleared", "set"}
     \/ pc[t] = "begin" /\ (onceMutex = NoThread \/ t \in recorded)
     \/ pc[t] \in {"returned", "ended"} /\ dataMutex[t] = "free"

HandlerCanGo(t) ==
  \/ t \in sent /\ pc[t] # "done"
  \/ handler[t] = "once" /\ onceMutex = NoThread
  \/ handler[t] = "data" /\ (TLSIsNull(t) \/ dataMutex[t] = "free")

OwnerCanGo(t) ==
  \/ owner[t] \in {"kill", "test", "enter"}
  \/ owner[t] \in {"interrupt", "join", "relock", "mark"} /\ dataMutex[t] = "free"
  \/ owner[t] = "pjoin" /\ pc[t] = "done"

\* From Terminate to the end of Join, somebody on whom the destructor waits can go
\* on: the owner, its thread, or a thread that is just recording its first epoch;
\* but for the three wrong moments of a signal (Thread.cpp:31, 51, 134-180, 217).
JoinNotStuck ==
  \A t \in Threads :
    Alive /\ t \in terminated /\ owner[t] # "gone" =>
      \/ OwnerCanGo(t) \/ ThreadCanGo(t) \/ HandlerCanGo(t)
      \/ \E s \in Threads : onceMutex = s /\ (ThreadCanGo(s) \/ HandlerCanGo(s))
      \/ Missed(t) \/ SelfLocked(t) \/ OnceLocked

\* The destructor of a handler returns from Join, unless the process crashes on a
\* thread never started, or the thread was hit by the signal at one of three
\* wrong moments (Thread.cpp:31, 51, 163-180, 217).
JoinReturns ==
  \A t \in Threads :
    owner[t] = "interrupt"
      ~> owner[t] = "gone" \/ ~Alive \/ Missed(t) \/ SelfLocked(t) \/ OnceLocked

-----------------------------------------------------------------------------
(* The abstract specification *)

\* What the owner knows of each thread.
Life ==
  [t \in Threads |-> CASE pc[t] = "none" -> "new"
                       [] pc[t] \in {"poll", "asleep"} -> "blocked"
                       [] pc[t] = "done" -> "ended"
                       [] OTHER -> "running"]

\* The handler of the signal has run, and returned.
Signalled(t) == t \in delivered /\ handler[t] = "none"

Calls ==
  [t \in Threads |-> CASE pc[t] = "done" -> "none"
                       [] pc[t] # "done" /\ ~Signalled(t) -> "any"
                       [] pc[t] = "call" /\ Signalled(t) -> "one"
                       [] OTHER -> "none"]

Promise == INSTANCE Joinable
  WITH life <- Life, calls <- Calls, gone <- {t \in Threads : owner[t] = "gone"}

\* ThreadLife implements Joinable: wherever the signal hits the thread, even where
\* it has no thread data yet, the thread makes no more than the one blocking call
\* that it had decided on, and the owner lets go of a thread that has ended
\* (Thread.cpp:43-57, 134-161, 170-179).
JoinableSpec == Promise!Spec
=============================================================================
