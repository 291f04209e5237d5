---------------------------- MODULE AgentSuspend ----------------------------
(***************************************************************************)
(* Suspended runs of one agent (agent/suspend.go): checkSuspendLoop turns  *)
(* a suspend signal into an ErrSuspended that holds a snapshot of the      *)
(* conversation against the agent's budget of snapshots and bytes.  It is  *)
(* given up by Resume or ResumeStream, by Release, or by its TTL timer,    *)
(* all of which may race.                                                  *)
(*                                                                         *)
(* Everything under e.mu is one step.  Resume calls onRelease only after   *)
(* it has unlocked e.mu, which is a step of its own; Release and the timer *)
(* callback call it with e.mu held.  A timer that has fired runs its       *)
(* callback in a goroutine that Stop no longer reaches.                    *)
(***************************************************************************)
EXTENDS Naturals, FiniteSets, FiniteSetsExt

CONSTANTS
    Suspensions, \* the ErrSuspended values of the agent's runs
    Size,        \* Size[e]: estimateSnapshotSize of its messages
    MaxSnap,     \* cfg.MaxSuspendSnapshots
    MaxBytes,    \* cfg.MaxSuspendBytes
    MaxTTLCalls  \* bound on the calls of WithSuspendTTL by the caller, per value

ASSUME BudgetAssumption == /\ IsFiniteSet(Suspensions)
                           /\ Size \in [Suspensions -> Nat]
                           /\ MaxSnap \in Nat \ {0}
                           /\ MaxBytes \in Nat \ {0}
                           /\ MaxTTLCalls \in Nat

VARIABLES
    life,     \* "unborn", "refused", "held" (closures set) or "gone" (closures nil)
    resumes,  \* how many calls of Resume or ResumeStream got the closure
    owing,    \* values whose Resume has taken onRelease and not called it yet
    timer,    \* the current ttlTimer: "none", "armed", "stopped" or "fired"
    due,      \* callbacks of fired timers that have not taken e.mu yet
    ttlCalls, \* calls of WithSuspendTTL by the caller
    count,    \* *cfg.SuspendCount
    bytes     \* *cfg.SuspendBytes

vars == <<life, resumes, owing, timer, due, ttlCalls, count, bytes>>

Init == /\ life = [e \in Suspensions |-> "unborn"]
        /\ resumes = [e \in Suspensions |-> 0]
        /\ owing = {}
        /\ timer = [e \in Suspensions |-> "none"]
        /\ due = [e \in Suspensions |-> 0]
        /\ ttlCalls = [e \in Suspensions |-> 0]
        /\ count = 0 /\ bytes = 0

TypeOK == /\ life \in [Suspensions -> {"unborn", "refused", "held", "gone"}]
          /\ resumes \in [Suspensions -> Nat]
          /\ owing \in SUBSET Suspensions
          /\ timer \in [Suspensions -> {"none", "armed", "stopped", "fired"}]
          /\ due \in [Suspensions -> Nat]
          /\ ttlCalls \in [Suspensions -> 0..MaxTTLCalls]
          /\ count \in Nat /\ bytes \in Nat

-----------------------------------------------------------------------------
\* Mutant: the check admits one snapshot too many.
BudgetExceededLate(e) == count > MaxSnap \/ bytes + Size[e] > MaxBytes

\* Mutant: the size of the new snapshot is left out of the check.
BudgetExceededOld(e) == count >= MaxSnap \/ bytes > MaxBytes

BudgetExceeded(e) == count >= MaxSnap \/ bytes + Size[e] > MaxBytes

\* Mutant: the new value is given no TTL.
CheckSuspendLoopNoTTL(e) ==
    /\ life[e] = "unborn"
    /\ IF BudgetExceeded(e)
       THEN /\ life' = [life EXCEPT ![e] = "refused"]
            /\ UNCHANGED <<count, bytes>>
       ELSE /\ life' = [life EXCEPT ![e] = "held"]
            /\ count' = count + 1
            /\ bytes' = bytes + Size[e]
    /\ UNCHANGED <<resumes, owing, timer, due, ttlCalls>>

\* checkSuspendLoop: the budget is checked and charged under SuspendMu; the new
\* value carries both closures and the default TTL.
CheckSuspendLoop(e) ==
    /\ life[e] = "unborn"
    /\ IF BudgetExceeded(e)
       THEN /\ life' = [life EXCEPT ![e] = "refused"]
            /\ UNCHANGED <<count, bytes, timer>>
       ELSE /\ life' = [life EXCEPT ![e] = "held"]
            /\ count' = count + 1
            /\ bytes' = bytes + Size[e]
            /\ timer' = [timer EXCEPT ![e] = "armed"]
    /\ UNCHANGED <<resumes, owing, due, ttlCalls>>

\* ttlTimer.Stop(): without effect on a timer that has fired.
Stop(e) == timer' = [timer EXCEPT ![e] = IF @ = "armed" THEN "stopped" ELSE @]

\* Mutant: the bytes are not given back.
OnReleaseCountOnly(e) == count' = count - 1 /\ bytes' = bytes

\* onRelease(e.snapshotSize)
OnRelease(e) == /\ count' = count - 1
                /\ bytes' = bytes - Size[e]

\* Mutant: the closures survive the call.
ClaimKeepsClosure(e) ==
    /\ life[e] \in {"held", "gone"}
    /\ Stop(e)
    /\ IF life[e] = "held"
       THEN /\ resumes' = [resumes EXCEPT ![e] = @ + 1]
            /\ owing' = owing \cup {e}
       ELSE UNCHANGED <<resumes, owing>>
    /\ UNCHANGED <<life, due, ttlCalls, count, bytes>>

\* Resume or ResumeStream, up to e.mu.Unlock().
Claim(e) ==
    /\ life[e] \in {"held", "gone"}
    /\ Stop(e)
    /\ life' = [life EXCEPT ![e] = "gone"]
    /\ IF life[e] = "held"
       THEN /\ resumes' = [resumes EXCEPT ![e] = @ + 1]
            /\ owing' = owing \cup {e}
       ELSE UNCHANGED <<resumes, owing>>
    /\ UNCHANGED <<due, ttlCalls, count, bytes>>

\* Resume or ResumeStream goes on: the budget is given back, then runLoop starts.
PayBack(e) ==
    /\ e \in owing
    /\ owing' = owing \ {e}
    /\ OnRelease(e)
    /\ UNCHANGED <<life, resumes, timer, due, ttlCalls>>

\* Mutant: the budget is given back although the closures are gone already.
GiveUpAlways(e) == /\ OnRelease(e)
                   /\ life' = [life EXCEPT ![e] = "gone"]

\* What Release and the timer callback do to the closures and the budget.
GiveUp(e) == /\ IF life[e] = "held" THEN OnRelease(e) ELSE UNCHANGED <<count, bytes>>
             /\ life' = [life EXCEPT ![e] = "gone"]

Release(e) ==
    /\ life[e] \in {"held", "gone"}
    /\ Stop(e)
    /\ GiveUp(e)
    /\ UNCHANGED <<resumes, owing, due, ttlCalls>>

\* The caller's WithSuspendTTL: a new timer takes the place of the old one.
WithSuspendTTL(e) ==
    /\ life[e] \in {"held", "gone"} /\ ttlCalls[e] < MaxTTLCalls
    /\ ttlCalls' = [ttlCalls EXCEPT ![e] = @ + 1]
    /\ timer' = [timer EXCEPT ![e] = "armed"]
    /\ UNCHANGED <<life, resumes, owing, due, count, bytes>>

Expire(e) ==
    /\ timer[e] = "armed"
    /\ timer' = [timer EXCEPT ![e] = "fired"]
    /\ due' = [due EXCEPT ![e] = @ + 1]
    /\ UNCHANGED <<life, resumes, owing, ttlCalls, count, bytes>>

\* The callback of a fired timer, from e.mu.Lock() on.
ExpireCallback(e) ==
    /\ due[e] > 0
    /\ due' = [due EXCEPT ![e] = @ - 1]
    /\ GiveUp(e)
    /\ UNCHANGED <<resumes, owing, timer, ttlCalls>>

Caller(e) == Claim(e) \/ Release(e) \/ WithSuspendTTL(e)
Clock(e)  == Expire(e) \/ ExpireCallback(e)

Next == \E e \in Suspensions : CheckSuspendLoop(e) \/ Caller(e) \/ PayBack(e) \/ Clock(e)

\* Timers fire and their goroutines run; a Resume that has unlocked e.mu goes on.
Fairness == \A e \in Suspensions : WF_vars(Clock(e)) /\ WF_vars(PayBack(e))

Spec     == Init /\ [][Next]_vars
FairSpec == Spec /\ Fairness
-----------------------------------------------------------------------------
\* The values whose snapshot is charged to the budget.
Charged == {e \in Suspensions : life[e] = "held"} \cup owing

\* SuspendCount equals the number of charged snapshots, whatever races: no path
\* gives one back twice, none forgets it ("prevent double-decrement" in Release).
CountExact == count = Cardinality(Charged)

\* SuspendBytes is the sum of their sizes, although each closure gives back the
\* size it remembers.
BytesExact == bytes = MapThenSumSet(LAMBDA e : Size[e], Charged)

\* Both: no race of Resume, Release and timers charges or pays back twice, or never.
BudgetExact == CountExact /\ BytesExact

\* checkSuspendLoop: concurrent suspensions never exceed the agent's limits.
WithinBudget == count <= MaxSnap /\ bytes <= MaxBytes

\* Of all calls of Resume, ResumeStream and Release and the timer callbacks, one
\* gets the closure: a suspended conversation continues at most once.
ResumedOnce == \A e \in Suspensions : resumes[e] <= 1

\* Once released, expired or resumed, a value never yields a run again.
GoneForGood == [][\A e \in Suspensions :
                      life[e] = "gone" => life'[e] = "gone" /\ resumes'[e] = resumes[e]]_vars

\* The TTL: an abandoned suspension gives its budget back in the end, whatever the
\* caller does or fails to do.
NothingLeaks == \A e \in Suspensions : (life[e] = "held") ~> (e \notin Charged)
=============================================================================
