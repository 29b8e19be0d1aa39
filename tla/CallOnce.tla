------------------------------ MODULE CallOnce ------------------------------
(***************************************************************************)
(* CallOnce (Once.hpp), the epoch-based pthread_once of the thread         *)
(* library.  Any number of threads call it, any number of times, on any    *)
(* number of OnceFlags, which share one mutex, one condition variable and  *)
(* one global epoch.                                                       *)
(*                                                                         *)
(* The sections under OnceEpochMutex never overlap and never block inside, *)
(* so each of them is one step and the mutex needs no variable.  The first *)
(* read of Flag.Epoch is outside the mutex and of a plain volatile word: a *)
(* data race, so a thread may read any value the word has had, as long as  *)
(* nothing it has synchronised with forbids it.  The history variables     *)
(* "seen" and "published" hold what is visible through OnceEpochMutex.     *)
(***************************************************************************)
EXTENDS Integers, FiniteSets

CONSTANTS
  Threads,
  Flags,      \* the OnceFlags of the program
  MaxEpoch,   \* ~0u
  MaxThrows   \* bound on the runs of Func that end with an exception

\* The program has far fewer flags than epochs.
ASSUME CallOnceAssumption ==
  /\ IsFiniteSet(Flags)
  /\ MaxEpoch \in Nat
  /\ Cardinality(Flags) + 1 < MaxEpoch
  /\ MaxThrows \in Nat

VARIABLES
  FlagEpoch,       \* OnceFlag::Epoch
  OnceGlobalEpoch,
  ThreadEpoch,     \* what GetOncePerThreadEpoch refers to in each thread
  pc,              \* where each thread is in CallOnce
  flag,            \* the Flag it called CallOnce with
  throws,          \* history: how many runs of Func have thrown
  past,            \* history: every value each FlagEpoch has had
  seen,            \* history: flags whose Func happened before what t does next
  published,       \* history: the same for the next section under the mutex
  returned         \* history: flags for which CallOnce has returned to t

vars == <<FlagEpoch, OnceGlobalEpoch, ThreadEpoch, pc, flag, throws, past,
          seen, published, returned>>

UninitializedFlag == 0
BeingInitialized  == 1

Pcs == {"idle", "lock", "wait", "run", "publish", "rollback"}

\* The thread is between its two sections under the mutex.
Initialising(t) == pc[t] \in {"run", "publish", "rollback"}

-----------------------------------------------------------------------------
Init ==
  /\ FlagEpoch = [f \in Flags |-> UninitializedFlag]
  /\ OnceGlobalEpoch = MaxEpoch
  /\ ThreadEpoch = [t \in Threads |-> MaxEpoch]
  /\ pc = [t \in Threads |-> "idle"]
  /\ flag \in [Threads -> Flags]
  /\ throws = 0
  /\ past = [f \in Flags |-> {UninitializedFlag}]
  /\ seen = [t \in Threads |-> {}]
  /\ published = {}
  /\ returned = [t \in Threads |-> {}]

\* What the unlocked read of Flag.Epoch can yield.
Readable(t, f) == IF f \in seen[t] THEN {FlagEpoch[f]} ELSE past[f]

\* Mutant of Call: double-checked locking without a per-thread epoch.
MutDoubleChecked(t, f) ==
  /\ pc[t] = "idle"
  /\ \E e \in Readable(t, f) :
       IF e <= BeingInitialized
         THEN /\ pc' = [pc EXCEPT ![t] = "lock"]
              /\ UNCHANGED returned
         ELSE /\ returned' = [returned EXCEPT ![t] = @ \cup {f}]
              /\ UNCHANGED pc
  /\ flag' = [flag EXCEPT ![t] = f]
  /\ UNCHANGED <<FlagEpoch, OnceGlobalEpoch, ThreadEpoch, throws, past, seen,
                 published>>

\* The comparison without the mutex: go on to the mutex, or return.
Call(t, f) ==
  /\ pc[t] = "idle"
  /\ \E e \in Readable(t, f) :
       IF e < ThreadEpoch[t]
         THEN /\ pc' = [pc EXCEPT ![t] = "lock"]
              /\ UNCHANGED returned
         ELSE /\ returned' = [returned EXCEPT ![t] = @ \cup {f}]
              /\ UNCHANGED pc
  /\ flag' = [flag EXCEPT ![t] = f]
  /\ UNCHANGED <<FlagEpoch, OnceGlobalEpoch, ThreadEpoch, throws, past, seen,
                 published>>

\* Flag.Epoch is assigned, under the mutex.
SetEpoch(f, e) ==
  /\ FlagEpoch' = [FlagEpoch EXCEPT ![f] = e]
  /\ past' = [past EXCEPT ![f] = @ \cup {e}]

\* The mutex is locked: what was published before is visible.
Synchronise(t) == seen' = [seen EXCEPT ![t] = @ \cup published]

\* Mutant of Begin: the flag is not marked before the mutex is unlocked.
MutBeginUnmarked(t) ==
  /\ pc[t] = "lock"
  /\ FlagEpoch[flag[t]] = UninitializedFlag
  /\ Synchronise(t)
  /\ pc' = [pc EXCEPT ![t] = "run"]
  /\ UNCHANGED <<FlagEpoch, past, OnceGlobalEpoch, ThreadEpoch, flag, throws,
                 published, returned>>

\* The flag is uninitialized: this thread will run Func.
Begin(t) ==
  /\ pc[t] = "lock"
  /\ FlagEpoch[flag[t]] = UninitializedFlag
  /\ SetEpoch(flag[t], BeingInitialized)
  /\ Synchronise(t)
  /\ pc' = [pc EXCEPT ![t] = "run"]
  /\ UNCHANGED <<OnceGlobalEpoch, ThreadEpoch, flag, throws, published, returned>>

\* Another thread is running it: pthread_cond_wait.
Wait(t) ==
  /\ pc[t] = "lock"
  /\ FlagEpoch[flag[t]] = BeingInitialized
  /\ Synchronise(t)
  /\ pc' = [pc EXCEPT ![t] = "wait"]
  /\ UNCHANGED <<FlagEpoch, past, OnceGlobalEpoch, ThreadEpoch, flag, throws,
                 published, returned>>

\* The flag is initialized: the thread catches up with the global epoch.
CatchUp(t) ==
  /\ pc[t] = "lock"
  /\ FlagEpoch[flag[t]] > BeingInitialized
  /\ Synchronise(t)
  /\ ThreadEpoch' = [ThreadEpoch EXCEPT ![t] = OnceGlobalEpoch]
  /\ returned' = [returned EXCEPT ![t] = @ \cup {flag[t]}]
  /\ pc' = [pc EXCEPT ![t] = "idle"]
  /\ UNCHANGED <<FlagEpoch, past, OnceGlobalEpoch, flag, throws, published>>

\* pthread_cond_wait may return without a broadcast.
SpuriousWakeup(t) ==
  /\ pc[t] = "wait"
  /\ pc' = [pc EXCEPT ![t] = "lock"]
  /\ UNCHANGED <<FlagEpoch, past, OnceGlobalEpoch, ThreadEpoch, flag, throws,
                 seen, published, returned>>

\* Func.Run() returns ...
RunReturns(t) ==
  /\ pc[t] = "run"
  /\ seen' = [seen EXCEPT ![t] = @ \cup {flag[t]}]
  /\ pc' = [pc EXCEPT ![t] = "publish"]
  /\ UNCHANGED <<FlagEpoch, past, OnceGlobalEpoch, ThreadEpoch, flag, throws,
                 published, returned>>

\* ... or throws.
RunThrows(t) ==
  /\ pc[t] = "run"
  /\ throws < MaxThrows
  /\ throws' = throws + 1
  /\ pc' = [pc EXCEPT ![t] = "rollback"]
  /\ UNCHANGED <<FlagEpoch, past, OnceGlobalEpoch, ThreadEpoch, flag, seen,
                 published, returned>>

\* pthread_cond_broadcast by t, whose call of CallOnce ends.
BroadcastAndEnd(t) ==
  pc' = [u \in Threads |-> IF u = t THEN "idle"
                           ELSE IF pc[u] = "wait" THEN "lock" ELSE pc[u]]

\* Mutant of NextEpoch: the epochs grow.
MutNextEpochUp == OnceGlobalEpoch + 1

\* --OnceGlobalEpoch.
NextEpoch == OnceGlobalEpoch - 1

\* Mutant of Publish: the waiting threads are not woken.
MutPublishSilent(t) ==
  /\ pc[t] = "publish"
  /\ OnceGlobalEpoch' = NextEpoch
  /\ SetEpoch(flag[t], NextEpoch)
  /\ ThreadEpoch' = [ThreadEpoch EXCEPT ![t] = NextEpoch]
  /\ seen' = [seen EXCEPT ![t] = @ \cup published]
  /\ published' = published \cup seen[t]
  /\ returned' = [returned EXCEPT ![t] = @ \cup {flag[t]}]
  /\ pc' = [pc EXCEPT ![t] = "idle"]
  /\ UNCHANGED <<flag, throws>>

\* The section after a successful run.  The loop ends, the thread catches up
\* with the epoch it has just made, and the mutex is unlocked.
Publish(t) ==
  /\ pc[t] = "publish"
  /\ OnceGlobalEpoch' = NextEpoch
  /\ SetEpoch(flag[t], NextEpoch)
  /\ ThreadEpoch' = [ThreadEpoch EXCEPT ![t] = NextEpoch]
  /\ seen' = [seen EXCEPT ![t] = @ \cup published]
  /\ published' = published \cup seen[t]
  /\ returned' = [returned EXCEPT ![t] = @ \cup {flag[t]}]
  /\ BroadcastAndEnd(t)
  /\ UNCHANGED <<flag, throws>>

\* The section in the catch block; the exception is thrown again.
Rollback(t) ==
  /\ pc[t] = "rollback"
  /\ SetEpoch(flag[t], UninitializedFlag)
  /\ Synchronise(t)
  /\ BroadcastAndEnd(t)
  /\ UNCHANGED <<OnceGlobalEpoch, ThreadEpoch, flag, throws, published, returned>>

\* What t does by itself once it has called CallOnce.
Step(t) ==
  \/ Begin(t) \/ Wait(t) \/ CatchUp(t)
  \/ RunReturns(t) \/ RunThrows(t)
  \/ Publish(t) \/ Rollback(t)

Next ==
  \E t \in Threads :
    \/ \E f \in Flags : Call(t, f)
    \/ Step(t)
    \/ SpuriousWakeup(t)

Spec == Init /\ [][Next]_vars

\* A thread that is not asleep runs, and the mutex is never held for long.
FairSpec == Spec /\ \A t \in Threads : WF_vars(Step(t))

-----------------------------------------------------------------------------
(* Properties *)

\* Every variable keeps its type; no epoch leaves the 32-bit range.
TypeOK ==
  /\ FlagEpoch \in [Flags -> 0..MaxEpoch]
  /\ OnceGlobalEpoch \in 0..MaxEpoch
  /\ ThreadEpoch \in [Threads -> 0..MaxEpoch]
  /\ pc \in [Threads -> Pcs]
  /\ flag \in [Threads -> Flags]
  /\ throws \in Nat
  /\ past \in [Flags -> SUBSET (0..MaxEpoch)]
  /\ seen \in [Threads -> SUBSET Flags]
  /\ published \in SUBSET Flags
  /\ returned \in [Threads -> SUBSET Flags]

\* Whenever CallOnce has returned, what Func wrote is visible to the caller,
\* although a caller that takes the path without the mutex executes no fence:
\* its per-thread epoch proves that it has synchronised since (Once.hpp:30).
InitialisedOnReturn == \A t \in Threads : returned[t] \subseteq seen[t]

\* No two threads run Func for one flag at a time, and none after a run has
\* succeeded (Once.hpp:32-51 across threads that wait, wake up and retry).
RunsOnce ==
  \A t \in Threads :
    Initialising(t) =>
      /\ flag[t] \notin published
      /\ \A u \in Threads : Initialising(u) /\ flag[u] = flag[t] => u = t

\* A thread sleeps only while another one is running Func for its flag, and
\* that thread will broadcast: success and exception both wake it up.
SleepsOnlyForInitialiser ==
  \A t \in Threads :
    pc[t] = "wait" => \E u \in Threads : Initialising(u) /\ flag[u] = flag[t]

\* The epochs of initialized flags never meet the two reserved values, nor
\* each other, although they count down from ~0u for ever (Once.hpp:46).
EpochsDistinct ==
  \A f \in published :
    /\ FlagEpoch[f] > BeingInitialized
    /\ \A g \in published : FlagEpoch[f] = FlagEpoch[g] => f = g

\* Every call of CallOnce returns or throws.
CallReturns == \A t \in Threads : pc[t] # "idle" ~> pc[t] = "idle"

-----------------------------------------------------------------------------
(* The inductive invariant, in parts *)

\* A flag's epoch says whether it is being initialized, and by how many.
OwnerInv ==
  /\ \A t \in Threads : Initialising(t) => FlagEpoch[flag[t]] = BeingInitialized
  /\ \A t, u \in Threads :
       Initialising(t) /\ Initialising(u) /\ flag[t] = flag[u] => t = u
  /\ \A f \in Flags :
       FlagEpoch[f] = BeingInitialized => \E t \in Threads : Initialising(t) /\ flag[t] = f

\* Only the initialized flags have an epoch, and each successful run took one.
EpochInv ==
  /\ \A f \in Flags : f \in published <=> FlagEpoch[f] > BeingInitialized
  /\ \A f \in published : FlagEpoch[f] >= OnceGlobalEpoch
  /\ OnceGlobalEpoch = MaxEpoch - Cardinality(published)
  /\ \A f, g \in published : FlagEpoch[f] = FlagEpoch[g] => f = g

\* A thread's epoch bounds what it has synchronised with.
VisibilityInv ==
  /\ \A t \in Threads :
       /\ seen[t] \subseteq published \cup
            (IF pc[t] = "publish" THEN {flag[t]} ELSE {})
       /\ pc[t] = "publish" => flag[t] \in seen[t]
       /\ ThreadEpoch[t] >= OnceGlobalEpoch
       /\ \A f \in published : FlagEpoch[f] >= ThreadEpoch[t] => f \in seen[t]
  /\ \A f \in Flags : past[f] \subseteq {UninitializedFlag, BeingInitialized, FlagEpoch[f]}

IInv ==
  /\ TypeOK
  /\ OwnerInv
  /\ EpochInv
  /\ VisibilityInv
  /\ SleepsOnlyForInitialiser
  /\ InitialisedOnReturn

-----------------------------------------------------------------------------
\* Who runs Func, and for which flag.
Running == {<<t, flag[t]>> : t \in {u \in Threads : Initialising(u)}}

\* What CallOnce promises to its callers, in the terms of module Once.
Promise == INSTANCE Once WITH running <- Running, done <- published

\* CallOnce implements Once: epochs, lock and condition let nobody run Func
\* beside another thread or after a success, and a call that takes the path
\* without the mutex (Once.hpp:30) returns only after a success.
OnceSpec == Promise!Spec
=============================================================================
