--------------------------- MODULE CallOnceProofs ---------------------------
(***************************************************************************)
(* The safety properties of CallOnce, for any number of threads and flags  *)
(* that the 32-bit epochs can serve (CallOnceAssumption).                  *)
(***************************************************************************)
EXTENDS CallOnce, FiniteSetTheorems, TLAPS

\* Cardinality of a set of flags, and of one flag more.
LEMMA CountFlags ==
  ASSUME NEW S \in SUBSET Flags
  PROVE  /\ Cardinality(S) \in Nat
         /\ Cardinality(S) + 1 < MaxEpoch
         /\ \A f \in Flags \ S : /\ Cardinality(S \cup {f}) = Cardinality(S) + 1
                                 /\ Cardinality(S) + 2 < MaxEpoch
<1>1. /\ IsFiniteSet(S)
      /\ Cardinality(S) <= Cardinality(Flags)
      /\ Cardinality(Flags) \in Nat
      /\ Cardinality(S) \in Nat
  BY CallOnceAssumption, FS_Subset, FS_CardinalityType
<1>2. \A f \in Flags \ S : /\ Cardinality(S \cup {f}) = Cardinality(S) + 1
                           /\ Cardinality(S \cup {f}) <= Cardinality(Flags)
  <2> SUFFICES ASSUME NEW f \in Flags \ S
               PROVE  /\ Cardinality(S \cup {f}) = Cardinality(S) + 1
                      /\ Cardinality(S \cup {f}) <= Cardinality(Flags)
    OBVIOUS
  <2>1. Cardinality(S \cup {f}) = Cardinality(S) + 1
    BY <1>1, FS_AddElement
  <2>2. S \cup {f} \in SUBSET Flags
    OBVIOUS
  <2>3. Cardinality(S \cup {f}) <= Cardinality(Flags)
    BY <2>2, CallOnceAssumption, FS_Subset
  <2> QED
    BY <2>1, <2>3
<1> QED
  BY <1>1, <1>2, CallOnceAssumption

\* The reserved values are epochs too.
LEMMA ReservedEpochs == UninitializedFlag \in 0..MaxEpoch /\ BeingInitialized \in 0..MaxEpoch
<1>1. Cardinality(Flags) \in Nat
  BY CallOnceAssumption, FS_CardinalityType
<1> QED
  BY <1>1, CallOnceAssumption DEF UninitializedFlag, BeingInitialized

\* An assignment of Flag.Epoch, element by element.
LEMMA SetEpochFacts ==
  ASSUME TypeOK, NEW f \in Flags, NEW e \in 0..MaxEpoch, SetEpoch(f, e)
  PROVE  /\ FlagEpoch' \in [Flags -> 0..MaxEpoch]
         /\ past' \in [Flags -> SUBSET (0..MaxEpoch)]
         /\ FlagEpoch'[f] = e
         /\ past'[f] = past[f] \cup {e}
         /\ \A g \in Flags \ {f} : FlagEpoch'[g] = FlagEpoch[g] /\ past'[g] = past[g]
  BY DEF TypeOK, SetEpoch

LEMMA InvInit == Init => IInv
<1> SUFFICES ASSUME Init
             PROVE  IInv
  OBVIOUS
<1> USE CallOnceAssumption DEF Init, UninitializedFlag, BeingInitialized, Initialising
<1>1. TypeOK
  BY DEF TypeOK, Pcs
<1>2. OwnerInv
  BY DEF OwnerInv
<1>3. EpochInv
  BY FS_EmptySet DEF EpochInv
<1>4. VisibilityInv
  BY DEF VisibilityInv
<1>5. SleepsOnlyForInitialiser /\ InitialisedOnReturn
  BY DEF SleepsOnlyForInitialiser, InitialisedOnReturn
<1> QED
  BY <1>1, <1>2, <1>3, <1>4, <1>5 DEF IInv

\* The next epoch is in range and above the reserved values.
LEMMA NextEpochFacts ==
  ASSUME IInv
  PROVE  /\ \A f \in Flags \ published :
              /\ NextEpoch \in 2..MaxEpoch
              /\ NextEpoch = MaxEpoch - Cardinality(published \cup {f})
         /\ OnceGlobalEpoch > 1
         /\ NextEpoch < OnceGlobalEpoch
<1>1. /\ published \in SUBSET Flags
      /\ OnceGlobalEpoch = MaxEpoch - Cardinality(published)
  BY DEF IInv, TypeOK, EpochInv
<1>2. /\ Cardinality(published) \in Nat
      /\ Cardinality(published) + 1 < MaxEpoch
      /\ \A f \in Flags \ published :
           /\ Cardinality(published \cup {f}) = Cardinality(published) + 1
           /\ Cardinality(published) + 2 < MaxEpoch
  BY <1>1, CountFlags
<1> QED
  BY <1>1, <1>2, CallOnceAssumption DEF NextEpoch

LEMMA TypeStep == IInv /\ [Next]_vars => TypeOK'
<1> SUFFICES ASSUME IInv, [Next]_vars
             PROVE  TypeOK'
  OBVIOUS
<1> USE CallOnceAssumption DEF TypeOK, IInv, Pcs, UninitializedFlag, BeingInitialized
<1>1. ASSUME NEW t \in Threads, NEW f \in Flags, Call(t, f)
      PROVE  TypeOK'
  BY <1>1 DEF Call
<1>2. ASSUME NEW t \in Threads, Begin(t)
      PROVE  TypeOK'
  <2>1. SetEpoch(flag[t], BeingInitialized) /\ flag[t] \in Flags
    BY <1>2 DEF Begin
  <2>2. /\ FlagEpoch' \in [Flags -> 0..MaxEpoch]
        /\ past' \in [Flags -> SUBSET (0..MaxEpoch)]
    BY <2>1, ReservedEpochs, SetEpochFacts
  <2> QED
    BY <1>2, <2>2 DEF Begin, Synchronise
<1>3. ASSUME NEW t \in Threads, Wait(t)
      PROVE  TypeOK'
  BY <1>3 DEF Wait, Synchronise
<1>4. ASSUME NEW t \in Threads, CatchUp(t)
      PROVE  TypeOK'
  BY <1>4 DEF CatchUp, Synchronise
<1>5. ASSUME NEW t \in Threads, RunReturns(t) \/ RunThrows(t) \/ SpuriousWakeup(t)
      PROVE  TypeOK'
  BY <1>5 DEF RunReturns, RunThrows, SpuriousWakeup
<1>6. ASSUME NEW t \in Threads, Publish(t)
      PROVE  TypeOK'
  <2>1. flag[t] \in Flags \ published
    BY <1>6 DEF Publish, OwnerInv, EpochInv, Initialising
  <2>2. NextEpoch \in 2..MaxEpoch
    BY <2>1, NextEpochFacts
  <2>3. NextEpoch \in 0..MaxEpoch
    BY <2>2
  <2>4. pc' \in [Threads -> Pcs]
    BY <1>6 DEF Publish, BroadcastAndEnd
  <2>5. /\ FlagEpoch' \in [Flags -> 0..MaxEpoch]
        /\ past' \in [Flags -> SUBSET (0..MaxEpoch)]
    BY <1>6, <2>1, <2>3, SetEpochFacts DEF Publish
  <2>6. ThreadEpoch' \in [Threads -> 0..MaxEpoch] /\ OnceGlobalEpoch' \in 0..MaxEpoch
    BY <1>6, <2>3 DEF Publish
  <2>7. /\ seen' \in [Threads -> SUBSET Flags]
        /\ published' \in SUBSET Flags
    <3>1. published \in SUBSET Flags /\ seen \in [Threads -> SUBSET Flags]
      OBVIOUS
    <3>2. seen' = [seen EXCEPT ![t] = @ \cup published]
      BY <1>6 DEF Publish
    <3>3. published' = published \cup seen[t]
      BY <1>6 DEF Publish
    <3> QED
      BY <3>1, <3>2, <3>3
  <2>8. /\ returned' \in [Threads -> SUBSET Flags]
        /\ flag' \in [Threads -> Flags] /\ throws' \in Nat
    BY <1>6 DEF Publish
  <2> QED
    BY <2>4, <2>5, <2>6, <2>7, <2>8
<1>7. ASSUME NEW t \in Threads, Rollback(t)
      PROVE  TypeOK'
  <2>1. pc' \in [Threads -> Pcs]
    BY <1>7 DEF Rollback, BroadcastAndEnd
  <2>2. /\ FlagEpoch' \in [Flags -> 0..MaxEpoch]
        /\ past' \in [Flags -> SUBSET (0..MaxEpoch)]
    BY <1>7, ReservedEpochs, SetEpochFacts DEF Rollback
  <2> QED
    BY <1>7, <2>1, <2>2 DEF Rollback, Synchronise
<1>8. CASE UNCHANGED vars
  BY <1>8 DEF vars
<1> QED
  BY <1>1, <1>2, <1>3, <1>4, <1>5, <1>6, <1>7, <1>8 DEF Next, Step

LEMMA OwnerStep == IInv /\ [Next]_vars => OwnerInv' /\ SleepsOnlyForInitialiser'
<1> SUFFICES ASSUME IInv, [Next]_vars
             PROVE  OwnerInv' /\ SleepsOnlyForInitialiser'
  OBVIOUS
<1> USE DEF IInv, OwnerInv, SleepsOnlyForInitialiser, Initialising
<1>t. TypeOK
  OBVIOUS
<1>1. ASSUME NEW t \in Threads, NEW f \in Flags, Call(t, f)
      PROVE  OwnerInv' /\ SleepsOnlyForInitialiser'
  BY <1>1, <1>t DEF Call, TypeOK
<1>2. ASSUME NEW t \in Threads, Begin(t)
      PROVE  OwnerInv' /\ SleepsOnlyForInitialiser'
  BY <1>2, <1>t DEF Begin, SetEpoch, TypeOK, UninitializedFlag, BeingInitialized
<1>3. ASSUME NEW t \in Threads, Wait(t)
      PROVE  OwnerInv' /\ SleepsOnlyForInitialiser'
  BY <1>3, <1>t DEF Wait, TypeOK
<1>4. ASSUME NEW t \in Threads, CatchUp(t) \/ SpuriousWakeup(t)
      PROVE  OwnerInv' /\ SleepsOnlyForInitialiser'
  BY <1>4, <1>t DEF CatchUp, SpuriousWakeup, TypeOK
<1>5. ASSUME NEW t \in Threads, RunReturns(t) \/ RunThrows(t)
      PROVE  OwnerInv' /\ SleepsOnlyForInitialiser'
  BY <1>5, <1>t DEF RunReturns, RunThrows, TypeOK
<1>6. ASSUME NEW t \in Threads, Publish(t)
      PROVE  OwnerInv' /\ SleepsOnlyForInitialiser'
  <2>1. flag[t] \in Flags \ published
    BY <1>6, <1>t DEF Publish, EpochInv, TypeOK, BeingInitialized
  <2>2. NextEpoch \in 2..MaxEpoch
    BY <2>1, NextEpochFacts
  <2>3. NextEpoch # BeingInitialized
    BY <2>2 DEF BeingInitialized
  <2>4. /\ FlagEpoch'[flag[t]] # BeingInitialized
        /\ \A g \in Flags \ {flag[t]} : FlagEpoch'[g] = FlagEpoch[g]
        /\ flag' = flag
    BY <1>6, <1>t, <2>3 DEF Publish, SetEpoch, TypeOK
  <2>5. /\ pc'[t] = "idle"
        /\ \A u \in Threads \ {t} :
             pc'[u] = IF pc[u] = "wait" THEN "lock" ELSE pc[u]
    BY <1>6 DEF Publish, BroadcastAndEnd
  <2>6. \A u \in Threads : /\ u # t => (Initialising(u)' <=> Initialising(u))
                           /\ ~Initialising(t)'
                           /\ pc'[u] # "wait"
    BY <2>5
  <2>7. Initialising(t) /\ \A u \in Threads : flag[u] \in Flags
    BY <1>6, <1>t DEF Publish, TypeOK
  <2>8. \A u \in Threads : Initialising(u)' => FlagEpoch'[flag'[u]] = BeingInitialized
    BY <2>4, <2>6, <2>7
  <2>9. \A u, v \in Threads :
          Initialising(u)' /\ Initialising(v)' /\ flag'[u] = flag'[v] => u = v
    BY <2>4, <2>6
  <2>10. \A f \in Flags : FlagEpoch'[f] = BeingInitialized =>
          \E u \in Threads : Initialising(u)' /\ flag'[u] = f
    BY <2>4, <2>6, <2>7
  <2> QED
    BY <2>6, <2>8, <2>9, <2>10
<1>7. ASSUME NEW t \in Threads, Rollback(t)
      PROVE  OwnerInv' /\ SleepsOnlyForInitialiser'
  BY <1>7, <1>t DEF Rollback, SetEpoch, BroadcastAndEnd, TypeOK,
                    UninitializedFlag, BeingInitialized
<1>8. CASE UNCHANGED vars
  BY <1>8 DEF vars
<1> QED
  BY <1>1, <1>2, <1>3, <1>4, <1>5, <1>6, <1>7, <1>8 DEF Next, Step

LEMMA EpochStep == IInv /\ [Next]_vars => EpochInv'
<1> SUFFICES ASSUME IInv, [Next]_vars
             PROVE  EpochInv'
  OBVIOUS
<1> USE DEF IInv, EpochInv, UninitializedFlag, BeingInitialized
<1>t. TypeOK
  OBVIOUS
<1>1. ASSUME NEW t \in Threads, NEW f \in Flags, Call(t, f)
      PROVE  EpochInv'
  BY <1>1 DEF Call
<1>2. ASSUME NEW t \in Threads, Begin(t)
      PROVE  EpochInv'
  <2>1. flag[t] \in Flags \ published
    BY <1>2, <1>t DEF Begin, TypeOK
  <2> QED
    BY <1>2, <1>t, <2>1 DEF Begin, SetEpoch, TypeOK
<1>3. ASSUME NEW t \in Threads,
             Wait(t) \/ CatchUp(t) \/ SpuriousWakeup(t) \/ RunReturns(t) \/ RunThrows(t)
      PROVE  EpochInv'
  BY <1>3 DEF Wait, CatchUp, SpuriousWakeup, RunReturns, RunThrows
<1>4. ASSUME NEW t \in Threads, Publish(t)
      PROVE  EpochInv'
  <2>1. flag[t] \in Flags \ published
    BY <1>4, <1>t DEF Publish, OwnerInv, Initialising, TypeOK
  <2>2. published' = published \cup {flag[t]}
    BY <1>4 DEF Publish, VisibilityInv
  <2>3. /\ NextEpoch \in 2..MaxEpoch
        /\ NextEpoch = MaxEpoch - Cardinality(published')
        /\ NextEpoch < OnceGlobalEpoch
    BY <2>1, <2>2, NextEpochFacts
  <2>4. /\ FlagEpoch'[flag[t]] = NextEpoch /\ OnceGlobalEpoch' = NextEpoch
        /\ \A g \in Flags \ {flag[t]} : FlagEpoch'[g] = FlagEpoch[g]
    BY <1>4, <1>t, <2>1 DEF Publish, SetEpoch, TypeOK
  <2>5. \A g \in Flags : FlagEpoch[g] \in 0..MaxEpoch
    BY <1>t DEF TypeOK
  <2>6. published \in SUBSET Flags /\ OnceGlobalEpoch \in 0..MaxEpoch
    BY <1>t DEF TypeOK
  <2>7. \A g \in published : FlagEpoch'[g] > NextEpoch /\ FlagEpoch'[g] = FlagEpoch[g]
    BY <2>1, <2>3, <2>4, <2>5, <2>6, CallOnceAssumption
  <2> QED
    BY <2>1, <2>2, <2>3, <2>4, <2>5, <2>6, <2>7, CallOnceAssumption
<1>5. ASSUME NEW t \in Threads, Rollback(t)
      PROVE  EpochInv'
  <2>1. flag[t] \in Flags \ published
    BY <1>5, <1>t DEF Rollback, OwnerInv, Initialising, TypeOK
  <2> QED
    BY <1>5, <1>t, <2>1 DEF Rollback, SetEpoch, TypeOK
<1>6. CASE UNCHANGED vars
  BY <1>6 DEF vars
<1> QED
  BY <1>1, <1>2, <1>3, <1>4, <1>5, <1>6 DEF Next, Step

LEMMA VisibilityStep ==
  IInv /\ [Next]_vars => VisibilityInv' /\ InitialisedOnReturn'
<1> SUFFICES ASSUME IInv, [Next]_vars
             PROVE  VisibilityInv' /\ InitialisedOnReturn'
  OBVIOUS
<1> USE DEF IInv, VisibilityInv, InitialisedOnReturn, UninitializedFlag, BeingInitialized
<1>t. TypeOK
  OBVIOUS
<1>1. ASSUME NEW t \in Threads, NEW f \in Flags, Call(t, f)
      PROVE  VisibilityInv' /\ InitialisedOnReturn'
  <2>1. PICK e \in Readable(t, f) :
          IF e < ThreadEpoch[t]
            THEN /\ pc' = [pc EXCEPT ![t] = "lock"]
                 /\ UNCHANGED returned
            ELSE /\ returned' = [returned EXCEPT ![t] = @ \cup {f}]
                 /\ UNCHANGED pc
    BY <1>1 DEF Call
  <2>2. ThreadEpoch[t] > 1
    BY <1>t, NextEpochFacts DEF TypeOK
  <2>3. e \in {UninitializedFlag, BeingInitialized, FlagEpoch[f]}
    BY <2>1 DEF Readable
  <2>4. e >= ThreadEpoch[t] => f \in seen[t]
    BY <1>t, <2>2, <2>3 DEF EpochInv, TypeOK
  <2>5. pc[t] = "idle" /\ e \in Int /\ ThreadEpoch[t] \in Int
    BY <1>1, <1>t, <2>3 DEF Call, TypeOK
  <2>6. InitialisedOnReturn'
    BY <1>1, <1>t, <2>1, <2>4, <2>5 DEF Call, TypeOK
  <2>7. UNCHANGED <<FlagEpoch, OnceGlobalEpoch, ThreadEpoch, past, seen, published>>
    BY <1>1 DEF Call
  <2>8. \A u \in Threads : /\ pc'[u] = "publish" <=> pc[u] = "publish"
                           /\ pc[u] = "publish" => flag'[u] = flag[u]
    BY <1>1, <1>t, <2>1, <2>5 DEF Call, TypeOK
  <2>9. VisibilityInv'
    BY <2>7, <2>8
  <2> QED
    BY <2>6, <2>9
<1>2. ASSUME NEW t \in Threads, Begin(t)
      PROVE  VisibilityInv' /\ InitialisedOnReturn'
  <2>1. flag[t] \in Flags \ published
    BY <1>2, <1>t DEF Begin, EpochInv, TypeOK
  <2> QED
    BY <1>2, <1>t, <2>1 DEF Begin, SetEpoch, Synchronise, TypeOK
<1>3. ASSUME NEW t \in Threads, Wait(t)
      PROVE  VisibilityInv' /\ InitialisedOnReturn'
  BY <1>3, <1>t DEF Wait, Synchronise, TypeOK
<1>4. ASSUME NEW t \in Threads, CatchUp(t)
      PROVE  VisibilityInv' /\ InitialisedOnReturn'
  <2>1. flag[t] \in published
    BY <1>4, <1>t DEF CatchUp, EpochInv, TypeOK
  <2> QED
    BY <1>4, <1>t, <2>1 DEF CatchUp, Synchronise, TypeOK
<1>5. ASSUME NEW t \in Threads, RunReturns(t) \/ RunThrows(t) \/ SpuriousWakeup(t)
      PROVE  VisibilityInv' /\ InitialisedOnReturn'
  BY <1>5, <1>t DEF RunReturns, RunThrows, SpuriousWakeup, TypeOK
<1>6. ASSUME NEW t \in Threads, Publish(t)
      PROVE  VisibilityInv' /\ InitialisedOnReturn'
  <2>1. flag[t] \in Flags \ published
    BY <1>6, <1>t DEF Publish, OwnerInv, EpochInv, Initialising, TypeOK
  <2>2. /\ published' = published \cup {flag[t]}
        /\ seen'[t] = published \cup {flag[t]}
    BY <1>6, <1>t DEF Publish, TypeOK
  <2>3. NextEpoch \in 2..MaxEpoch /\ NextEpoch < OnceGlobalEpoch
    BY <2>1, NextEpochFacts
  <2>4. \A u \in Threads :
          /\ u # t => /\ seen'[u] = seen[u]
                      /\ ThreadEpoch'[u] = ThreadEpoch[u]
                      /\ pc'[u] = "publish" <=> pc[u] = "publish"
          /\ flag'[u] = flag[u]
    BY <1>6, <1>t DEF Publish, BroadcastAndEnd, TypeOK
  <2>5. /\ pc'[t] = "idle"
        /\ ThreadEpoch'[t] = NextEpoch /\ OnceGlobalEpoch' = NextEpoch
        /\ FlagEpoch' = [FlagEpoch EXCEPT ![flag[t]] = NextEpoch]
        /\ past' = [past EXCEPT ![flag[t]] = @ \cup {NextEpoch}]
    BY <1>6, <1>t DEF Publish, BroadcastAndEnd, SetEpoch, TypeOK
  <2>6. \A u \in Threads : ThreadEpoch'[u] >= OnceGlobalEpoch'
    BY <1>t, <2>3, <2>4, <2>5 DEF TypeOK
  <2>7. \A u \in Threads : \A f \in published' :
          FlagEpoch'[f] >= ThreadEpoch'[u] => f \in seen'[u]
    BY <1>t, <2>1, <2>2, <2>3, <2>4, <2>5 DEF TypeOK
  <2>8. \A f \in Flags : past'[f] \subseteq {0, 1, FlagEpoch'[f]}
    <3>1. past[flag[t]] \subseteq {0, 1}
      BY <1>6, <1>t, <2>1 DEF Publish, OwnerInv, Initialising, TypeOK
    <3> QED
      BY <1>t, <2>1, <2>5, <3>1 DEF TypeOK
  <2>9. \A u \in Threads :
          /\ seen'[u] \subseteq published' \cup
               (IF pc'[u] = "publish" THEN {flag'[u]} ELSE {})
          /\ pc'[u] = "publish" => flag'[u] \in seen'[u]
    BY <2>2, <2>4, <2>5
  <2>10. InitialisedOnReturn'
    BY <1>6, <1>t, <2>2, <2>4 DEF Publish, TypeOK
  <2> QED
    BY <2>6, <2>7, <2>8, <2>9, <2>10
<1>7. ASSUME NEW t \in Threads, Rollback(t)
      PROVE  VisibilityInv' /\ InitialisedOnReturn'
  <2>1. flag[t] \in Flags \ published /\ FlagEpoch[flag[t]] = 1
    BY <1>7, <1>t DEF Rollback, OwnerInv, EpochInv, Initialising, TypeOK
  <2>2. \A u \in Threads : pc'[u] = "publish" <=> pc[u] = "publish"
    BY <1>7, <1>t DEF Rollback, BroadcastAndEnd, TypeOK
  <2> QED
    BY <1>7, <1>t, <2>1, <2>2 DEF Rollback, SetEpoch, Synchronise, TypeOK
<1>8. CASE UNCHANGED vars
  BY <1>8 DEF vars
<1> QED
  BY <1>1, <1>2, <1>3, <1>4, <1>5, <1>6, <1>7, <1>8 DEF Next, Step

LEMMA InvStep == IInv /\ [Next]_vars => IInv'
  BY TypeStep, OwnerStep, EpochStep, VisibilityStep DEF IInv

\* The invariant behind the other theorems holds in every reachable state.
THEOREM Invariance == Spec => []IInv
  BY InvInit, InvStep, PTL DEF Spec

\* Every variable keeps its type; the 32-bit epochs do not wrap (Once.hpp:46).
THEOREM TypeCorrect == Spec => []TypeOK
<1>1. IInv => TypeOK
  BY DEF IInv
<1> QED
  BY <1>1, Invariance, PTL

\* A caller sees what Func wrote, on the path without the mutex too.
THEOREM ReturnsInitialised == Spec => []InitialisedOnReturn
<1>1. IInv => InitialisedOnReturn
  BY DEF IInv
<1> QED
  BY <1>1, Invariance, PTL

\* One thread at a time runs Func for a flag, and none after a success.
THEOREM FuncRunsOnce == Spec => []RunsOnce
<1>1. IInv => RunsOnce
  BY DEF IInv, OwnerInv, EpochInv, RunsOnce, TypeOK, BeingInitialized
<1> QED
  BY <1>1, Invariance, PTL

\* A sleeping thread will be woken by the thread that runs Func.
THEOREM NoLostBroadcast == Spec => []SleepsOnlyForInitialiser
<1>1. IInv => SleepsOnlyForInitialiser
  BY DEF IInv
<1> QED
  BY <1>1, Invariance, PTL

\* Initialized flags have different epochs, none of them reserved.
THEOREM DistinctEpochs == Spec => []EpochsDistinct
<1>1. IInv => EpochsDistinct
  BY DEF IInv, EpochInv, EpochsDistinct, TypeOK
<1> QED
  BY <1>1, Invariance, PTL

-----------------------------------------------------------------------------
(* CallOnce implements Once *)

\* Who runs Func when a thread enters or leaves the initialisation.
LEMMA RunningPairs ==
  ASSUME NEW t, NEW f
  PROVE  <<t, f>> \in Running <=> t \in Threads /\ Initialising(t) /\ flag[t] = f
  BY DEF Running

LEMMA PromiseInit == Init => Promise!Init
<1> SUFFICES ASSUME Init
             PROVE  Promise!Init
  OBVIOUS
<1>1. Running = {}
  BY DEF Running, Initialising, Init
<1> QED
  BY <1>1 DEF Promise!Init, Init

LEMMA PromiseStep ==
  ASSUME IInv, [Next]_vars
  PROVE  [Promise!Next]_(Promise!vars)
<1>t. TypeOK /\ OwnerInv /\ EpochInv /\ VisibilityInv
  BY DEF IInv
<1>1. ASSUME NEW t \in Threads, NEW f \in Flags, Call(t, f)
      PROVE  [Promise!Next]_(Promise!vars)
  <2>1. \A u \in Threads : /\ Initialising(u)' <=> Initialising(u)
                           /\ Initialising(u) => flag'[u] = flag[u]
    BY <1>1, <1>t DEF Call, Initialising, TypeOK
  <2>2. Running' = Running /\ published' = published
    BY <1>1, <2>1 DEF Running, Call
  <2>3. CASE returned' = returned
    BY <2>2, <2>3 DEF Promise!vars
  <2>4. CASE returned' # returned
    <3>1. returned' = [returned EXCEPT ![t] = @ \cup {f}]
      BY <1>1, <2>4 DEF Call
    <3>2. f \in seen'[t] /\ seen' = seen /\ pc[t] = "idle"
      <4>1. f \in returned'[t]
        BY <1>t, <3>1 DEF TypeOK
      <4>2. InitialisedOnReturn'
        BY <1>1, VisibilityStep DEF Next
      <4> QED
        BY <1>1, <4>1, <4>2 DEF InitialisedOnReturn, Call
    <3>3. f \in published
      BY <1>t, <3>2 DEF VisibilityInv
    <3>4. Promise!Return(t, f)
      BY <2>2, <3>1, <3>3 DEF Promise!Return
    <3> QED
      BY <3>4 DEF Promise!Next
  <2> QED
    BY <2>3, <2>4
<1>2. ASSUME NEW t \in Threads, Begin(t)
      PROVE  Promise!Next
  <2>1. flag[t] \in Flags /\ FlagEpoch[flag[t]] = 0 /\ ~Initialising(t)
    BY <1>2, <1>t DEF Begin, UninitializedFlag, Initialising, TypeOK
  <2>2. flag[t] \notin published
    BY <1>t, <2>1 DEF EpochInv, BeingInitialized
  <2>3. \A u \in Threads : Initialising(u) => u # t /\ flag[u] # flag[t]
    BY <1>t, <2>1 DEF OwnerInv, BeingInitialized
  <2>4. \A p \in Running : p[1] # t /\ p[2] # flag[t]
    BY <2>3 DEF Running
  <2>5. \A u \in Threads : /\ Initialising(u)' <=> u = t \/ Initialising(u)
                           /\ flag'[u] = flag[u]
    BY <1>2, <1>t DEF Begin, Initialising, TypeOK
  <2>6. Running' = Running \cup {<<t, flag[t]>>}
    BY <2>5 DEF Running
  <2>7. Promise!Start(t, flag[t])
    BY <1>2, <2>2, <2>4, <2>6 DEF Promise!Start, Begin
  <2> QED
    BY <2>1, <2>7 DEF Promise!Next
<1>3. ASSUME NEW t \in Threads,
             Wait(t) \/ SpuriousWakeup(t) \/ RunReturns(t) \/ RunThrows(t)
      PROVE  UNCHANGED Promise!vars
  <2>1. \A u \in Threads : (Initialising(u)' <=> Initialising(u)) /\ flag'[u] = flag[u]
    BY <1>3, <1>t DEF Wait, SpuriousWakeup, RunReturns, RunThrows, Initialising, TypeOK
  <2>2. Running' = Running
    BY <2>1 DEF Running
  <2> QED
    BY <1>3, <2>2 DEF Promise!vars, Wait, SpuriousWakeup, RunReturns, RunThrows
<1>4. ASSUME NEW t \in Threads, CatchUp(t)
      PROVE  Promise!Next
  <2>1. flag[t] \in Flags /\ flag[t] \in published
    BY <1>4, <1>t DEF CatchUp, EpochInv, TypeOK
  <2>2. \A u \in Threads : (Initialising(u)' <=> Initialising(u)) /\ flag'[u] = flag[u]
    BY <1>4, <1>t DEF CatchUp, Initialising, TypeOK
  <2>3. Running' = Running
    BY <2>2 DEF Running
  <2>4. Promise!Return(t, flag[t])
    BY <1>4, <2>1, <2>3 DEF Promise!Return, CatchUp
  <2> QED
    BY <2>1, <2>4 DEF Promise!Next
<1>5. ASSUME NEW t \in Threads, Publish(t) \/ Rollback(t)
      PROVE  Promise!Next
  <2>1. flag[t] \in Flags /\ Initialising(t) /\ <<t, flag[t]>> \in Running
    BY <1>5, <1>t, RunningPairs DEF Publish, Rollback, Initialising, TypeOK
  <2>2. \A u \in Threads : /\ Initialising(u)' <=> u # t /\ Initialising(u)
                           /\ flag'[u] = flag[u]
    BY <1>5, <1>t DEF Publish, Rollback, BroadcastAndEnd, Initialising, TypeOK
  <2>3. Running' = Running \ {<<t, flag[t]>>}
    BY <2>2 DEF Running
  <2>4. CASE Publish(t)
    <3>1. published' = published \cup {flag[t]}
      BY <2>4, <1>t DEF Publish, VisibilityInv
    <3>2. Promise!Succeed(t, flag[t])
      BY <2>1, <2>3, <2>4, <3>1 DEF Promise!Succeed, Publish
    <3> QED
      BY <2>1, <3>2 DEF Promise!Next
  <2>5. CASE Rollback(t)
    <3>1. Promise!Throw(t, flag[t])
      BY <2>1, <2>3, <2>5 DEF Promise!Throw, Rollback
    <3> QED
      BY <2>1, <3>1 DEF Promise!Next
  <2> QED
    BY <1>5, <2>4, <2>5
<1>6. CASE UNCHANGED vars
  <2>1. Running' = Running
    BY <1>6 DEF vars, Running, Initialising
  <2> QED
    BY <1>6, <2>1 DEF vars, Promise!vars
<1> QED
  BY <1>1, <1>2, <1>3, <1>4, <1>5, <1>6 DEF Next, Step

\* The algorithm implements its promise, for any threads and flags: every step
\* starts a run, ends it, lets a call return, or is invisible to the callers.
THEOREM Refinement == Spec => OnceSpec
  BY PromiseInit, PromiseStep, Invariance, PTL DEF Spec, OnceSpec, Promise!Spec
=============================================================================
