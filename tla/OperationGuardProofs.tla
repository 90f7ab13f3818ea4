------------------------- MODULE OperationGuardProofs -------------------------
(***************************************************************************)
(* Safety of the operation guard for any callers and any keys: the lock    *)
(* state is consistent, functions with a common key never overlap, waiting *)
(* never goes round in a circle, and the guard implements Serializer.      *)
(***************************************************************************)
EXTENDS OperationGuard, TLAPS

\* What the locks c holds have to do with where c is: the inductive part.
HoldsWhatItNeeds ==
    \A c \in Callers : /\ got[c] \subseteq need[c]
                       /\ phase[c] = "idle" => need[c] = {}
                       /\ phase[c] = "running" => got[c] = need[c]

\* A lock has one holder.
OneHolder ==
    \A c, d \in Callers : c # d => got[c] \cap got[d] = {}

\* The locks c holds are less than those it still lacks.
TakenInOrder ==
    \A c \in Callers : \A j \in got[c] : \A k \in need[c] \ got[c] : j < k

IInv == TypeOK /\ HoldsWhatItNeeds /\ OneHolder /\ TakenInOrder

\* Both ways to get a lock: c takes the free lock k, its next one.
TakeStep(c, k) == /\ k \in Keys
                  /\ phase[c] = "acquiring"
                  /\ IsNext(c, k)
                  /\ ~Locked(k)
                  /\ Take(c, k)

\* Acquire and Wake take one free lock, the next one, and move nothing but the queue.
LEMMA TakesOne ==
  ASSUME NEW c \in Callers, Acquire(c) \/ Wake(c)
  PROVE  \E k \in Keys : TakeStep(c, k)
  BY DEF Acquire, Wake, TakeStep

\* The queues stay queues of callers, whatever a caller does.
LEMMA QueuesTyped ==
  ASSUME TypeOK, NEW c \in Callers, Acquire(c) \/ Enqueue(c) \/ Wake(c)
  PROVE  waiters' \in [Keys -> Seq(Callers)]
  <1>1. CASE Acquire(c)
    BY <1>1 DEF Acquire, TypeOK
  <1>2. CASE Enqueue(c)
    <2>1. PICK k \in Keys : waiters' = [waiters EXCEPT ![k] = Append(@, c)]
      BY <1>2 DEF Enqueue
    <2>2. Append(waiters[k], c) \in Seq(Callers)
      BY DEF TypeOK
    <2>3. QED
      BY <2>1, <2>2 DEF TypeOK
  <1>3. CASE Wake(c)
    <2>1. PICK k \in Keys : /\ waiters[k] # <<>>
                            /\ waiters' = [waiters EXCEPT ![k] = Tail(@)]
      BY <1>3 DEF Wake
    <2>2. Tail(waiters[k]) \in Seq(Callers)
      BY <2>1 DEF TypeOK
    <2>3. QED
      BY <2>1, <2>2 DEF TypeOK
  <1>4. QED
    BY <1>1, <1>2, <1>3

\* Taking the next free lock keeps the lock state consistent.
LEMMA TakeKeeps ==
  ASSUME IInv, NEW c \in Callers, NEW k \in Keys, TakeStep(c, k)
  PROVE  /\ phase' \in [Callers -> {"idle", "acquiring", "running"}]
         /\ need' = need
         /\ got' \in [Callers -> SUBSET Keys]
         /\ HoldsWhatItNeeds'
         /\ OneHolder'
         /\ TakenInOrder'
  <1> USE DEF IInv, TypeOK, TakeStep, Take, IsNext
  <1>1. got' = [got EXCEPT ![c] = got[c] \cup {k}] /\ need' = need
    OBVIOUS
  <1>2. phase' \in [Callers -> {"idle", "acquiring", "running"}]
    OBVIOUS
  <1>3. got' \in [Callers -> SUBSET Keys]
    BY <1>1
  <1>4. HoldsWhatItNeeds'
    <2> SUFFICES ASSUME NEW d \in Callers
                 PROVE  /\ got'[d] \subseteq need'[d]
                        /\ phase'[d] = "idle" => need'[d] = {}
                        /\ phase'[d] = "running" => got'[d] = need'[d]
      BY DEF HoldsWhatItNeeds
    <2>1. CASE d = c
      <3>1. /\ got'[d] = got[c] \cup {k}
            /\ need'[d] = need[c]
            /\ phase'[d] = IF need[c] \subseteq got[c] \cup {k} THEN "running" ELSE "acquiring"
        BY <2>1, <1>1
      <3>2. got[c] \subseteq need[c] /\ k \in need[c]
        BY DEF HoldsWhatItNeeds
      <3>3. QED
        BY <3>1, <3>2
    <2>2. CASE d # c
      <3>1. got'[d] = got[d] /\ need'[d] = need[d] /\ phase'[d] = phase[d]
        BY <2>2, <1>1
      <3>2. QED
        BY <3>1 DEF HoldsWhatItNeeds
    <2>3. QED
      BY <2>1, <2>2
  <1>5. OneHolder'
    <2>1. \A d \in Callers : k \notin got[d]
      BY DEF Locked
    <2>2. \A d \in Callers : got'[d] = IF d = c THEN got[c] \cup {k} ELSE got[d]
      BY <1>1
    <2>3. QED
      BY <2>1, <2>2 DEF OneHolder
  <1>6. TakenInOrder'
    <2> SUFFICES ASSUME NEW d \in Callers, NEW j \in got'[d], NEW m \in need'[d] \ got'[d]
                 PROVE  j < m
      BY DEF TakenInOrder
    <2>1. CASE d = c
      <3>1. j \in got[c] \cup {k} /\ m \in need[c] \ got[c] /\ m # k
        BY <2>1, <1>1
      <3>2. k \in Int /\ m \in Int /\ k <= m
        BY <3>1, KeysAreOrdered
      <3>3. k < m
        BY <3>1, <3>2
      <3>4. CASE j = k
        BY <3>3, <3>4
      <3>5. CASE j \in got[c]
        BY <3>1, <3>5 DEF TakenInOrder
      <3>6. QED
        BY <3>1, <3>4, <3>5
    <2>2. CASE d # c
      <3>1. got'[d] = got[d] /\ need'[d] = need[d]
        BY <2>2, <1>1
      <3>2. QED
        BY <3>1 DEF TakenInOrder
    <2>3. QED
      BY <2>1, <2>2
  <1>7. QED
    BY <1>1, <1>2, <1>3, <1>4, <1>5, <1>6

LEMMA InitIInv == Init => IInv
  BY DEF Init, IInv, TypeOK, HoldsWhatItNeeds, OneHolder, TakenInOrder

LEMMA StepIInv == IInv /\ [Next]_vars => IInv'
  <1> SUFFICES ASSUME IInv, [Next]_vars
               PROVE  IInv'
    OBVIOUS
  <1>1. ASSUME NEW c \in Callers, NEW K \in SUBSET Keys, Enter(c, K)
        PROVE  IInv'
    <2>1. TypeOK'
      BY <1>1 DEF Enter, IInv, TypeOK
    <2>2. got[c] = {}
      BY <1>1 DEF Enter, IInv, TypeOK, HoldsWhatItNeeds
    <2>3. HoldsWhatItNeeds'
      BY <1>1, <2>2 DEF Enter, IInv, TypeOK, HoldsWhatItNeeds
    <2>4. OneHolder'
      BY <1>1 DEF Enter, IInv, OneHolder
    <2>5. TakenInOrder'
      BY <1>1, <2>2 DEF Enter, IInv, TypeOK, TakenInOrder
    <2>6. QED
      BY <2>1, <2>3, <2>4, <2>5 DEF IInv
  <1>2. ASSUME NEW c \in Callers, Acquire(c) \/ Wake(c)
        PROVE  IInv'
    <2>1. PICK k \in Keys : TakeStep(c, k)
      BY <1>2, TakesOne
    <2>2. waiters' \in [Keys -> Seq(Callers)]
      BY <1>2, QueuesTyped DEF IInv
    <2>3. QED
      BY <2>1, <2>2, TakeKeeps DEF IInv, TypeOK
  <1>3. ASSUME NEW c \in Callers, Enqueue(c)
        PROVE  IInv'
    <2>1. waiters' \in [Keys -> Seq(Callers)]
      BY <1>3, QueuesTyped DEF IInv
    <2>2. QED
      BY <1>3, <2>1 DEF Enqueue, IInv, TypeOK, HoldsWhatItNeeds, OneHolder, TakenInOrder
  <1>4. ASSUME NEW c \in Callers, Leave(c)
        PROVE  IInv'
    <2>1. TypeOK'
      BY <1>4 DEF Leave, IInv, TypeOK
    <2>2. HoldsWhatItNeeds'
      BY <1>4 DEF Leave, IInv, TypeOK, HoldsWhatItNeeds
    <2>3. \A d \in Callers : got'[d] \subseteq got[d]
      BY <1>4 DEF Leave, IInv, TypeOK
    <2>4. OneHolder'
      BY <2>3 DEF IInv, OneHolder
    <2>5. TakenInOrder'
      BY <1>4 DEF Leave, IInv, TypeOK, TakenInOrder
    <2>6. QED
      BY <2>1, <2>2, <2>4, <2>5 DEF IInv
  <1>5. CASE UNCHANGED vars
    BY <1>5 DEF vars, IInv, TypeOK, HoldsWhatItNeeds, OneHolder, TakenInOrder
  <1>6. QED
    BY <1>1, <1>2, <1>3, <1>4, <1>5 DEF Next

\* The lock state of the guard is consistent in every reachable state.
THEOREM GuardInvariant == Spec => []IInv
  BY InitIInv, StepIInv, PTL DEF Spec

\* The variables keep their types in every reachable state.
THEOREM GuardTyped == Spec => []TypeOK
  <1>1. IInv => TypeOK
    BY DEF IInv
  <1>2. QED
    BY GuardInvariant, <1>1, PTL

\* run_many never runs two functions at once that were given a common key.
THEOREM GuardExcludes == Spec => []MutualExclusion
  <1>1. IInv => MutualExclusion
    BY DEF IInv, HoldsWhatItNeeds, OneHolder, MutualExclusion
  <1>2. QED
    BY GuardInvariant, <1>1, PTL

\* Waiting climbs along the sorted keys, so callers never wait in a circle.
THEOREM GuardClimbs == Spec => []WaitingClimbs
  <1>1. IInv => WaitingClimbs
    BY DEF IInv, TakenInOrder, WaitingClimbs, IsNext
  <1>2. QED
    BY GuardInvariant, <1>1, PTL
-------------------------------------------------------------------------------

LEMMA InitPromise == Init => Promise!Init
  BY DEF Init, Promise!Init

\* Taking a lock is invisible until it is the last one: then the caller is admitted,
\* and nobody inside has one of its keys.
LEMMA TakePromise ==
  ASSUME IInv, IInv', NEW c \in Callers, NEW k \in Keys, TakeStep(c, k)
  PROVE  Promise!Admit(c) \/ UNCHANGED Promise!vars
  <1> USE DEF IInv, TypeOK, TakeStep, Take
  <1>1. CASE need[c] \subseteq got[c] \cup {k}
    <2>1. phase' = [phase EXCEPT ![c] = "running"] /\ need' = need
      BY <1>1
    <2>2. \A d \in Callers : phase[d] = "running" => need[d] \cap need[c] = {}
      <3> SUFFICES ASSUME NEW d \in Callers, phase[d] = "running"
                   PROVE  need[d] \cap need[c] = {}
        OBVIOUS
      <3>1. d # c /\ phase'[d] = "running" /\ phase'[c] = "running"
        BY <2>1
      <3>2. got'[d] = need'[d] /\ got'[c] = need'[c] /\ got'[d] \cap got'[c] = {}
        BY <3>1 DEF HoldsWhatItNeeds, OneHolder
      <3>3. QED
        BY <3>2, <2>1
    <2>3. Promise!Admit(c)
      BY <2>1, <2>2 DEF Promise!Admit
    <2>4. QED
      BY <2>3
  <1>2. CASE ~(need[c] \subseteq got[c] \cup {k})
    <2>1. phase' = phase /\ need' = need
      BY <1>2
    <2>2. QED
      BY <2>1 DEF Promise!vars
  <1>3. QED
    BY <1>1, <1>2

LEMMA StepPromise == IInv /\ IInv' /\ [Next]_vars => [Promise!Next]_(Promise!vars)
  <1> SUFFICES ASSUME IInv, IInv', [Next]_vars
               PROVE  [Promise!Next]_(Promise!vars)
    OBVIOUS
  <1>1. ASSUME NEW c \in Callers, NEW K \in SUBSET Keys, Enter(c, K)
        PROVE  Promise!Ask(c, K)
    BY <1>1 DEF Enter, IInv, TypeOK, Promise!Ask
  <1>2. ASSUME NEW c \in Callers, Acquire(c) \/ Wake(c)
        PROVE  Promise!Admit(c) \/ UNCHANGED Promise!vars
    BY <1>2, TakesOne, TakePromise
  <1>3. ASSUME NEW c \in Callers, Enqueue(c)
        PROVE  UNCHANGED Promise!vars
    BY <1>3 DEF Enqueue, Promise!vars
  <1>4. ASSUME NEW c \in Callers, Leave(c)
        PROVE  Promise!Depart(c)
    BY <1>4 DEF Leave, IInv, TypeOK, Promise!Depart
  <1>5. CASE UNCHANGED vars
    BY <1>5 DEF vars, Promise!vars
  <1>6. QED
    BY <1>1, <1>2, <1>3, <1>4, <1>5 DEF Next, Promise!Next

\* OperationGuardService implements Serializer: every step of the lock protocol is an
\* abstract step or invisible.
THEOREM GuardImplementsSerializer == Spec => KeepsPromise
  BY InitPromise, StepPromise, GuardInvariant, PTL DEF Spec, KeepsPromise, Promise!Spec
===============================================================================
