------------------------- MODULE AgentSuspend_proofs -------------------------
(***************************************************************************)
(* Proofs about AgentSuspend for any set of suspensions, any sizes and any *)
(* budget.  The argument: a snapshot is charged exactly while its closures *)
(* are set or a Resume that took them has not paid back (CountInv), and    *)
(* the closures are taken out of the value in the same critical section    *)
(* in which they are claimed (OnceInv).  BytesExact, a sum over a set, is  *)
(* left to TLC.                                                            *)
(***************************************************************************)
EXTENDS AgentSuspend, FiniteSetTheorems, TLAPS

Types == /\ life \in [Suspensions -> {"unborn", "refused", "held", "gone"}]
         /\ resumes \in [Suspensions -> Nat]
         /\ owing \in SUBSET Suspensions
         /\ timer \in [Suspensions -> {"none", "armed", "stopped", "fired"}]
         /\ due \in [Suspensions -> Nat] /\ ttlCalls \in [Suspensions -> 0..MaxTTLCalls]
         /\ count \in Int /\ bytes \in Int

\* A timer, armed or fired, belongs to a value that was created.
TimerInv == \A e \in Suspensions : timer[e] = "armed" \/ due[e] > 0 => life[e] \in {"held", "gone"}

\* Only a value without closures is owing; it was claimed once.
OnceInv == \A e \in Suspensions : /\ e \in owing => life[e] = "gone"
                                  /\ life[e] # "gone" => resumes[e] = 0
                                  /\ resumes[e] <= 1

IInv == Types /\ TimerInv /\ OnceInv /\ CountExact /\ WithinBudget
-----------------------------------------------------------------------------
LEMMA ChargedFinite == \A S \in SUBSET Suspensions : IsFiniteSet(S) /\ Cardinality(S) \in Nat
  BY BudgetAssumption, FS_Subset, FS_CardinalityType

\* Charging a snapshot adds one to the cardinality.
LEMMA ChargeOne ==
    ASSUME NEW S \in SUBSET Suspensions, NEW e \in Suspensions, e \notin S
    PROVE  Cardinality(S \cup {e}) = Cardinality(S) + 1
  BY ChargedFinite, FS_AddElement

\* Giving one back takes one off.
LEMMA ReleaseOne ==
    ASSUME NEW S \in SUBSET Suspensions, NEW e \in S
    PROVE  Cardinality(S \ {e}) = Cardinality(S) - 1
  BY ChargedFinite, FS_RemoveElement

LEMMA InitInv == Init => IInv
<1> SUFFICES ASSUME Init PROVE IInv
  OBVIOUS
<1>1. Types /\ TimerInv /\ OnceInv
  BY BudgetAssumption DEF Init, Types, TimerInv, OnceInv
<1>2. Charged = {} /\ Cardinality({}) = 0
  BY FS_EmptySet DEF Init, Charged
<1>3. CountExact /\ WithinBudget
  BY <1>2, BudgetAssumption DEF Init, CountExact, WithinBudget
<1> QED
  BY <1>1, <1>3 DEF IInv

\* Release and the timer callback.
LEMMA GiveUpInv ==
    ASSUME IInv, NEW e \in Suspensions, GiveUp(e), life[e] # "unborn", life[e] # "refused",
           UNCHANGED <<resumes, owing, ttlCalls>>,
           timer' \in [Suspensions -> {"none", "armed", "stopped", "fired"}],
           due' \in [Suspensions -> Nat],
           TimerInv'
    PROVE  IInv'
<1>1. Types'
  <2>1. count' \in Int /\ bytes' \in Int
    <3>1. Size[e] \in Nat /\ count \in Int /\ bytes \in Int
      BY BudgetAssumption DEF IInv, Types
    <3>2. CASE life[e] = "held"
      BY <3>1, <3>2 DEF GiveUp, OnRelease
    <3>3. CASE life[e] # "held"
      BY <3>1, <3>3 DEF GiveUp
    <3> QED
      BY <3>2, <3>3
  <2> QED
    BY <2>1 DEF IInv, Types, GiveUp
<1>2. OnceInv'
  BY DEF IInv, Types, OnceInv, GiveUp
<1>3. CASE life[e] = "held"
  <2>1. e \in Charged /\ Charged \in SUBSET Suspensions /\ Charged' = Charged \ {e}
    BY <1>3 DEF Charged, GiveUp, IInv, Types, OnceInv
  <2>2. Cardinality(Charged \ {e}) = Cardinality(Charged) - 1
    BY <2>1, ReleaseOne
  <2>3. count' = count - 1 /\ bytes' = bytes - Size[e]
    BY <1>3 DEF GiveUp, OnRelease
  <2>4. CountExact'
    BY <2>1, <2>2, <2>3 DEF CountExact, IInv
  <2>5. WithinBudget'
    BY <2>3, BudgetAssumption DEF IInv, Types, WithinBudget
  <2> QED
    BY <1>1, <1>2, <2>4, <2>5 DEF IInv
<1>4. CASE life[e] # "held"
  <2>1. life' = life
    BY <1>4 DEF GiveUp, IInv, Types
  <2>2. Charged' = Charged /\ count' = count /\ bytes' = bytes
    BY <1>4, <2>1 DEF Charged, GiveUp
  <2> QED
    BY <1>1, <1>2, <2>2 DEF IInv, CountExact, WithinBudget
<1> QED
  BY <1>3, <1>4

LEMMA NextInv == IInv /\ [Next]_vars => IInv'
<1> SUFFICES ASSUME IInv, [Next]_vars PROVE IInv'
  OBVIOUS
<1> USE DEF IInv
<1>1. ASSUME NEW e \in Suspensions, CheckSuspendLoop(e) PROVE IInv'
  <2>1. Types' /\ TimerInv' /\ OnceInv'
    BY <1>1, BudgetAssumption DEF CheckSuspendLoop, Types, TimerInv, OnceInv
  <2>2. CASE BudgetExceeded(e)
    <3>1. Charged' = Charged /\ count' = count /\ bytes' = bytes
      BY <1>1, <2>2 DEF CheckSuspendLoop, Charged, Types
    <3> QED
      BY <2>1, <3>1 DEF CountExact, WithinBudget
  <2>3. CASE ~BudgetExceeded(e)
    <3>1. e \notin Charged /\ Charged \in SUBSET Suspensions /\ Charged' = Charged \cup {e}
      BY <1>1, <2>3 DEF CheckSuspendLoop, Charged, Types, OnceInv
    <3>2. count' = count + 1 /\ bytes' = bytes + Size[e]
      BY <1>1, <2>3 DEF CheckSuspendLoop
    <3>3. CountExact'
      BY <3>1, <3>2, ChargeOne DEF CountExact
    <3>4. WithinBudget'
      BY <2>3, <3>2, BudgetAssumption DEF BudgetExceeded, WithinBudget, Types
    <3> QED
      BY <2>1, <3>3, <3>4
  <2> QED
    BY <2>2, <2>3
<1>2. ASSUME NEW e \in Suspensions, Claim(e) PROVE IInv'
  <2>1. Types' /\ TimerInv' /\ OnceInv'
    BY <1>2 DEF Claim, Stop, Types, TimerInv, OnceInv
  <2>2. Charged' = Charged
    BY <1>2 DEF Claim, Charged, Types
  <2> QED
    BY <1>2, <2>1, <2>2 DEF Claim, CountExact, WithinBudget
<1>3. ASSUME NEW e \in Suspensions, PayBack(e) PROVE IInv'
  <2>1. Types' /\ TimerInv' /\ OnceInv'
    BY <1>3, BudgetAssumption DEF PayBack, OnRelease, Types, TimerInv, OnceInv
  <2>2. e \in Charged /\ Charged \in SUBSET Suspensions /\ Charged' = Charged \ {e}
    BY <1>3 DEF PayBack, Charged, Types, OnceInv
  <2>3. CountExact'
    BY <1>3, <2>2, ReleaseOne DEF PayBack, OnRelease, CountExact
  <2>4. WithinBudget'
    BY <1>3, BudgetAssumption DEF PayBack, OnRelease, WithinBudget, Types
  <2> QED
    BY <2>1, <2>3, <2>4
<1>4. ASSUME NEW e \in Suspensions, Release(e) PROVE IInv'
  <2>1. TimerInv' /\ timer' \in [Suspensions -> {"none", "armed", "stopped", "fired"}]
    BY <1>4 DEF Release, Stop, GiveUp, Types, TimerInv
  <2> QED
    BY <1>4, <2>1, GiveUpInv DEF Release, Types
<1>5. ASSUME NEW e \in Suspensions, ExpireCallback(e) PROVE IInv'
  <2>1. life[e] \in {"held", "gone"}
    BY <1>5 DEF ExpireCallback, TimerInv
  <2>2. due' \in [Suspensions -> Nat]
    BY <1>5 DEF ExpireCallback, Types
  <2>3. TimerInv'
    BY <1>5, <2>1 DEF ExpireCallback, GiveUp, Types, TimerInv
  <2> QED
    BY <1>5, <2>1, <2>2, <2>3, GiveUpInv DEF ExpireCallback, Types
<1>6. ASSUME NEW e \in Suspensions, WithSuspendTTL(e) \/ Expire(e) PROVE IInv'
  <2>1. UNCHANGED <<life, resumes, owing, count, bytes>>
    BY <1>6 DEF WithSuspendTTL, Expire
  <2>2. CASE WithSuspendTTL(e)
    BY <2>1, <2>2, BudgetAssumption DEF WithSuspendTTL, Types, TimerInv, OnceInv, CountExact, Charged, WithinBudget
  <2>3. CASE Expire(e)
    BY <2>1, <2>3 DEF Expire, Types, TimerInv, OnceInv, CountExact, Charged, WithinBudget
  <2> QED
    BY <1>6, <2>2, <2>3
<1>7. CASE UNCHANGED vars
  BY <1>7 DEF vars, Types, TimerInv, OnceInv, CountExact, Charged, WithinBudget
<1> QED
  BY <1>1, <1>2, <1>3, <1>4, <1>5, <1>6, <1>7 DEF Next, Caller, Clock
-----------------------------------------------------------------------------
THEOREM Invariance == Spec => []IInv
  BY InitInv, NextInv, PTL DEF Spec

\* SuspendCount is the number of snapshots held or being handed over.
THEOREM CountCorrect == Spec => []CountExact
<1>1. IInv => CountExact
  BY DEF IInv
<1> QED
  BY <1>1, Invariance, PTL

\* Neither limit of the agent's suspend budget is ever exceeded.
THEOREM BudgetCorrect == Spec => []WithinBudget
<1>1. IInv => WithinBudget
  BY DEF IInv
<1> QED
  BY <1>1, Invariance, PTL

\* Racing Resume, ResumeStream, Release and timers continue a conversation once.
THEOREM SingleResume == Spec => []ResumedOnce
<1>1. IInv => ResumedOnce
  BY DEF IInv, OnceInv, ResumedOnce
<1> QED
  BY <1>1, Invariance, PTL

\* No step brings a released, expired or resumed value back.
THEOREM NoRevival == Spec => GoneForGood
<1>1. ASSUME IInv, [Next]_vars
      PROVE  \A e \in Suspensions : life[e] = "gone" => life'[e] = "gone" /\ resumes'[e] = resumes[e]
  <2> SUFFICES ASSUME NEW e \in Suspensions, life[e] = "gone"
               PROVE  life'[e] = "gone" /\ resumes'[e] = resumes[e]
    OBVIOUS
  <2>1. CASE UNCHANGED vars
    BY <2>1 DEF vars
  <2>2. ASSUME NEW d \in Suspensions, CheckSuspendLoop(d) \/ Caller(d) \/ PayBack(d) \/ Clock(d)
        PROVE  life'[e] = "gone" /\ resumes'[e] = resumes[e]
    BY <1>1, <2>2 DEF IInv, Types, CheckSuspendLoop, Caller, Claim, Release, WithSuspendTTL,
                      PayBack, Clock, Expire, ExpireCallback, GiveUp
  <2> QED
    BY <1>1, <2>1, <2>2 DEF Next
<1> QED
  BY <1>1, Invariance, PTL DEF Spec, GoneForGood
=============================================================================
