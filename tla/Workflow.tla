------------------------------ MODULE Workflow ------------------------------
(***************************************************************************)
(* The DAG engine of package workflow (exec.go): Execute, the reactive     *)
(* coordinator runDAG, one goroutine per launched step (executeStep,       *)
(* executeWithRetry, recordStepOutcome), buildResult, and the resumption   *)
(* of a suspended run (executeResume).                                     *)
(*                                                                         *)
(* The coordinator is a single goroutine.  It owns completed, remaining,   *)
(* inflight and pending, and meets the step goroutines at the buffered     *)
(* channel done.  The step goroutines share executionState (results,       *)
(* failureSkipped, suspendedStep, failedStep) under its mutex and the      *)
(* run's cancellable context (cancelled).  What a step function computes   *)
(* is left out; whether it succeeds, fails or suspends is nondeterministic.*)
(* Of the events of a streamed run only step-start can hold a step up; the *)
(* others are dropped when the channel is full.                            *)
(***************************************************************************)
EXTENDS Naturals, FiniteSets

CONSTANTS
    Steps,           \* names of the steps (w.steps)
    After,           \* After[s]: the steps s waits for (w.edges)
    Conditional,     \* the steps that carry a When() condition
    Retries,         \* Retries[s]: additional attempts after the first (s.retry)
    MaxResumes,      \* bound on the number of Resume calls that start a run
    CallerMayCancel, \* can the caller's context end (cancel or deadline)?
    NoStep           \* the empty step name

ASSUME StepsAssumption == /\ IsFiniteSet(Steps)
                          /\ NoStep \notin Steps
                          /\ Conditional \subseteq Steps
                          /\ After \in [Steps -> SUBSET Steps]
                          /\ Retries \in [Steps -> Nat]
                          /\ MaxResumes \in Nat
                          /\ CallerMayCancel \in BOOLEAN

\* New() rejects a cyclic graph (detectCycle): every non-empty set of steps has
\* a member that waits for no other member.
ASSUME AcyclicAssumption == \A T \in SUBSET Steps :
                                T # {} => \E s \in T : After[s] \cap T = {}

VARIABLES
    phase,          \* "idle", "running" (inside runDAG) or "returned"
    outcome,        \* what buildResult returned
    results,        \* executionState.results, "none" where the map has no entry
    failureSkipped, \* executionState.failureSkipped
    suspendedStep,  \* executionState.suspendedStep
    failedStep,     \* executionState.failedStep
    cancelled,      \* ctx.Err() # nil for the context of the run
    reader,         \* of the stream channel: "reading" (also when ch is nil) or "gone"
    completed,      \* runDAG: launched, skipped or pre-populated steps
    remaining,      \* runDAG: in-degree still to be satisfied
    inflight,       \* runDAG: number of goroutines not yet received from done
    pending,        \* runDAG: edges of the completion being handled, not yet visited
    done,           \* runDAG: contents of the done channel
    gor,            \* where the goroutine of each step is
    attempt,        \* executeWithRetry's loop counter
    snapshot,       \* the results captured by ErrSuspended
    resumes,        \* number of Resume calls so far
    okCount,        \* history: successful executions of each step function
    condFalse       \* history: steps skipped because When() was false

state == <<results, failureSkipped, suspendedStep, failedStep>>
dag   == <<completed, remaining, inflight, pending, done>>
call  == <<phase, outcome, snapshot, resumes, reader>>
vars  == <<phase, outcome, results, failureSkipped, suspendedStep, failedStep,
           cancelled, reader, completed, remaining, inflight, pending, done, gor,
           attempt, snapshot, resumes, okCount, condFalse>>

Final   == {"success", "failed", "suspended", "skipped"}
Active  == {"starting", "announcing", "running", "waiting", "failing"}
Empty   == [s \in Steps |-> "none"]
EdgesFrom(S) == {e \in S \X Steps : e[1] \in After[e[2]]}

TypeOK ==
    /\ phase \in {"idle", "running", "returned"}
    /\ outcome \in {"none", "success", "failed", "suspended"}
    /\ results \in [Steps -> Final \cup {"none", "running"}]
    /\ failureSkipped \in SUBSET Steps
    /\ suspendedStep \in Steps \cup {NoStep}
    /\ failedStep \in Steps \cup {NoStep}
    /\ cancelled \in BOOLEAN /\ reader \in {"reading", "gone"}
    /\ completed \in SUBSET Steps
    /\ remaining \in [Steps -> Nat]
    /\ inflight \in Nat
    /\ pending \in SUBSET (Steps \X Steps)
    /\ done \in SUBSET Steps
    /\ gor \in [Steps -> Active \cup {"idle", "sent", "reaped"}]
    /\ attempt \in [Steps -> Nat]
    /\ snapshot \in [Steps -> {"none", "success", "skipped"}]
    /\ resumes \in 0..MaxResumes
    /\ okCount \in [Steps -> Nat]
    /\ condFalse \in SUBSET Steps

-----------------------------------------------------------------------------
\* Mutant: a suspended dependency counts as satisfied.
HasFailedUpstreamNoSuspend(s, res, skipped) ==
    \E u \in After[s] : res[u] = "failed" \/ (res[u] = "skipped" /\ u \in skipped)

\* Mutant: a step skipped by When() counts as a failure.
HasFailedUpstreamAnySkip(s, res, skipped) ==
    \E u \in After[s] : res[u] \in {"failed", "suspended", "skipped"}

\* Mutant: the failure of a step reaches its direct dependents only.
HasFailedUpstreamDirect(s, res, skipped) ==
    \E u \in After[s] : res[u] \in {"failed", "suspended"}

\* hasFailedUpstream: some dependency failed, suspended or was failure-skipped.
HasFailedUpstream(s, res, skipped) ==
    \E u \in After[s] : \/ res[u] \in {"failed", "suspended"}
                        \/ res[u] = "skipped" /\ u \in skipped

\* What skipStep (on the steps of bad) and the goroutine start of launch (on
\* the steps of good) do to the results res and the goroutines g.
Dispatch(good, bad, res, skipped, comp, n, edges, g) ==
    /\ results' = [s \in Steps |-> IF s \in bad THEN "skipped" ELSE res[s]]
    /\ failureSkipped' = skipped \cup bad
    /\ completed' = comp \cup good \cup bad
    /\ inflight' = n + Cardinality(good)
    /\ pending' = edges \cup EdgesFrom(bad)
    /\ gor' = [s \in Steps |-> IF s \in good THEN "starting" ELSE g[s]]

\* Mutant: the pre-populated steps do not lower their dependents' in-degree.
InDegreeIgnoresHave(s, have) == Cardinality(After[s])

\* remaining[s] once the pre-populated steps have been subtracted.
InDegree(s, have) == IF s \in have THEN Cardinality(After[s]) ELSE Cardinality(After[s] \ have)

\* The start of runDAG on the pre-populated results pre: in-degrees, then the
\* launch of every step that waits for nothing.
BeginRun(pre) ==
    LET have  == {s \in Steps : pre[s] # "none"}
        roots == {s \in Steps \ have : InDegree(s, have) = 0}
        bad   == {s \in roots : HasFailedUpstream(s, pre, {})}
    IN  /\ phase' = "running"
        /\ outcome' = "none"
        /\ suspendedStep' = NoStep
        /\ failedStep' = NoStep
        /\ cancelled' = FALSE /\ reader' = "reading"
        /\ remaining' = [s \in Steps |-> InDegree(s, have)]
        /\ done' = {}
        /\ attempt' = [s \in Steps |-> 0]
        /\ condFalse' = condFalse \cap have
        /\ Dispatch(roots \ bad, bad, pre, {}, have, 0, {}, [s \in Steps |-> "idle"])
        /\ UNCHANGED okCount

Init ==
    /\ phase = "idle" /\ outcome = "none"
    /\ results = Empty /\ failureSkipped = {}
    /\ suspendedStep = NoStep /\ failedStep = NoStep
    /\ cancelled = FALSE /\ reader = "reading"
    /\ completed = {} /\ remaining = [s \in Steps |-> 0] /\ inflight = 0
    /\ pending = {} /\ done = {}
    /\ gor = [s \in Steps |-> "idle"] /\ attempt = [s \in Steps |-> 0]
    /\ snapshot = Empty /\ resumes = 0
    /\ okCount = [s \in Steps |-> 0] /\ condFalse = {}

Execute ==
    /\ phase = "idle"
    /\ BeginRun(Empty)
    /\ UNCHANGED <<snapshot, resumes>>

\* ErrSuspended.Resume: single use, and re-runs the DAG on the snapshot.
Resume ==
    /\ phase = "returned" /\ outcome = "suspended"
    /\ resumes < MaxResumes
    /\ resumes' = resumes + 1
    /\ BeginRun(snapshot)
    /\ UNCHANGED snapshot

CallerCancel ==
    /\ CallerMayCancel /\ phase = "running" /\ ~cancelled
    /\ cancelled' = TRUE
    /\ UNCHANGED <<state, dag, call, gor, attempt, okCount, condFalse>>

\* The caller of a streamed run no longer reads its channel, and the channel is full.
ReaderStops ==
    /\ phase = "running" /\ reader = "reading"
    /\ reader' = "gone"
    /\ UNCHANGED <<state, dag, phase, outcome, snapshot, resumes, cancelled, gor, attempt,
                   okCount, condFalse>>

-----------------------------------------------------------------------------
\* The coordinator.

\* name := <-done; inflight--; its dependents are visited next.
Receive(s) ==
    /\ phase = "running" /\ pending = {} /\ s \in done
    /\ done' = done \ {s}
    /\ inflight' = inflight - 1
    /\ gor' = [gor EXCEPT ![s] = "reaped"]
    /\ pending' = EdgesFrom({s})
    /\ UNCHANGED <<state, call, cancelled, completed, remaining, attempt, okCount, condFalse>>

\* One dependent d of the finished or skipped step u: its in-degree drops and at
\* zero it is launched; below a failure-skipped step it is skipped outright.
Visit(u, d) ==
    /\ phase = "running" /\ <<u, d>> \in pending
    /\ IF d \in completed
       THEN /\ pending' = pending \ {<<u, d>>}
            /\ UNCHANGED <<results, failureSkipped, completed, remaining, inflight, gor>>
       ELSE /\ remaining' = [remaining EXCEPT ![d] = @ - 1]
            /\ LET ready == IF remaining[d] = 1 THEN {d} ELSE {}
                   bad   == {s \in ready : \/ u \in failureSkipped
                                           \/ HasFailedUpstream(s, results, failureSkipped)}
               IN  Dispatch(ready \ bad, bad, results, failureSkipped, completed,
                            inflight, pending \ {<<u, d>>}, gor)
    /\ UNCHANGED <<call, suspendedStep, failedStep, cancelled, done, attempt, okCount, condFalse>>

\* Mutant: the loop stops once no completion is waiting to be received.
DrainedEarly == pending = {} /\ done = {}

\* The loop condition of runDAG.
Drained == pending = {} /\ inflight = 0

\* Mutant: every skipped step is kept, the failure-skipped ones included.
KeptAnySkip(s) == results[s] \in {"success", "skipped"}

\* Mutant: everything but a failure is kept.
KeptUnlessFailed(s) == results[s] # "failed" /\ s \notin failureSkipped

\* Mutant: only the skipped steps are kept.
KeptSkipsOnly(s) == results[s] = "skipped" /\ s \notin failureSkipped

\* The results ErrSuspended carries into the resumed run.
Kept(s) == results[s] = "success" \/ (results[s] = "skipped" /\ s \notin failureSkipped)

\* Mutant: a failure wins over a suspension.
OutcomeFailureFirst == IF failedStep # NoStep THEN "failed"
                       ELSE IF suspendedStep # NoStep THEN "suspended" ELSE "success"

\* buildResult lets a suspension win over a failure.
Outcome == IF suspendedStep # NoStep THEN "suspended"
           ELSE IF failedStep # NoStep THEN "failed" ELSE "success"

Return ==
    /\ phase = "running" /\ Drained
    /\ phase' = "returned"
    /\ outcome' = Outcome
    /\ snapshot' = IF Outcome # "suspended" THEN snapshot
                   ELSE [s \in Steps |-> IF Kept(s) THEN results[s] ELSE "none"]
    /\ UNCHANGED <<state, dag, cancelled, reader, gor, attempt, resumes, okCount, condFalse>>

-----------------------------------------------------------------------------
\* The goroutine of step s.

\* The last thing it does: done <- name.
Finish(s, r) ==
    /\ results' = [results EXCEPT ![s] = r]
    /\ gor' = [gor EXCEPT ![s] = "sent"]
    /\ done' = done \cup {s}

\* executeStep finds the context already cancelled.
SkipOnCancel(s) ==
    /\ gor[s] = "starting" /\ cancelled
    /\ Finish(s, "skipped")
    /\ UNCHANGED <<call, failureSkipped, suspendedStep, failedStep, cancelled, completed,
                   remaining, inflight, pending, attempt, okCount, condFalse>>

\* executeStep evaluates When() to false.
SkipOnCondition(s) ==
    /\ gor[s] = "starting" /\ ~cancelled /\ s \in Conditional
    /\ Finish(s, "skipped")
    /\ condFalse' = condFalse \cup {s}
    /\ UNCHANGED <<call, failureSkipped, suspendedStep, failedStep, cancelled, completed,
                   remaining, inflight, pending, attempt, okCount>>

\* The context lives and When() holds: step-start is to be sent.
Announce(s) ==
    /\ gor[s] = "starting" /\ ~cancelled
    /\ gor' = [gor EXCEPT ![s] = "announcing"]
    /\ UNCHANGED <<call, dag, state, cancelled, attempt, okCount, condFalse>>

\* Mutant: the send of step-start does not watch the context.
AnnouncedWhenRead == reader = "reading"

\* select { case ch <- step-start: case <-ctx.Done(): }
Announced == reader = "reading" \/ cancelled

\* The step function is called, even if it was the end of the context that let it go on.
Start(s) ==
    /\ gor[s] = "announcing" /\ Announced
    /\ results' = [results EXCEPT ![s] = "running"]
    /\ gor' = [gor EXCEPT ![s] = "running"]
    /\ UNCHANGED <<call, dag, failureSkipped, suspendedStep, failedStep, cancelled,
                   attempt, okCount, condFalse>>

Succeed(s) ==
    /\ gor[s] = "running"
    /\ Finish(s, "success")
    /\ okCount' = [okCount EXCEPT ![s] = @ + 1]
    /\ UNCHANGED <<call, failureSkipped, suspendedStep, failedStep, cancelled, completed,
                   remaining, inflight, pending, attempt, condFalse>>

\* recordStepOutcome on errSuspend: the first suspended step is the one reported.
Suspend(s) ==
    /\ gor[s] = "running"
    /\ Finish(s, "suspended")
    /\ suspendedStep' = IF suspendedStep = NoStep THEN s ELSE suspendedStep
    /\ UNCHANGED <<call, failureSkipped, failedStep, cancelled, completed, remaining,
                   inflight, pending, attempt, okCount, condFalse>>

\* recordStepOutcome on an error, up to the release of the mutex.
RecordFailure(s) ==
    /\ results' = [results EXCEPT ![s] = "failed"]
    /\ failedStep' = IF failedStep = NoStep THEN s ELSE failedStep
    /\ gor' = [gor EXCEPT ![s] = "failing"]
    /\ UNCHANGED attempt

\* run() returned an error: another attempt follows unless the attempts are
\* used up or the context has ended.
AttemptError(s) ==
    /\ gor[s] = "running"
    /\ IF cancelled \/ attempt[s] = Retries[s]
       THEN RecordFailure(s)
       ELSE /\ attempt' = [attempt EXCEPT ![s] = @ + 1]
            /\ gor' = [gor EXCEPT ![s] = "waiting"]
            /\ UNCHANGED <<results, failedStep>>
    /\ UNCHANGED <<call, dag, failureSkipped, suspendedStep, cancelled, okCount, condFalse>>

\* The retry delay expires.
RetryFires(s) ==
    /\ gor[s] = "waiting"
    /\ gor' = [gor EXCEPT ![s] = "running"]
    /\ UNCHANGED <<state, dag, call, cancelled, attempt, okCount, condFalse>>

\* The context ends during the retry delay.
RetryCancelled(s) ==
    /\ gor[s] = "waiting" /\ cancelled
    /\ RecordFailure(s)
    /\ UNCHANGED <<call, dag, failureSkipped, suspendedStep, cancelled, okCount, condFalse>>

\* state.cancel(), after the failure is visible to the others, then done <- name.
FailFast(s) ==
    /\ gor[s] = "failing"
    /\ cancelled' = TRUE
    /\ gor' = [gor EXCEPT ![s] = "sent"]
    /\ done' = done \cup {s}
    /\ UNCHANGED <<state, call, completed, remaining, inflight, pending, attempt, okCount, condFalse>>

StepGoroutine(s) ==
    \/ SkipOnCancel(s) \/ SkipOnCondition(s) \/ Announce(s) \/ Start(s) \/ Succeed(s) \/ Suspend(s)
    \/ AttemptError(s) \/ RetryFires(s) \/ RetryCancelled(s) \/ FailFast(s)

Coordinator ==
    \/ \E s \in Steps : Receive(s)
    \/ \E u, d \in Steps : Visit(u, d)
    \/ Return

Next ==
    \/ Execute \/ Resume \/ CallerCancel \/ ReaderStops \/ Coordinator
    \/ \E s \in Steps : StepGoroutine(s)

\* Go schedules every runnable goroutine, and step functions return.
Fairness == /\ WF_vars(Coordinator)
            /\ \A s \in Steps : WF_vars(StepGoroutine(s))

Spec     == Init /\ [][Next]_vars
FairSpec == Spec /\ Fairness
-----------------------------------------------------------------------------
\* Properties.

\* launch: a step's goroutine exists only if each of its dependencies has succeeded
\* or was skipped without a failure above it, whatever the others are doing.
StartsAfterDependencies ==
    \A s \in Steps : gor[s] # "idle" =>
        \A u \in After[s] : results[u] \in {"success", "skipped"} /\ u \notin failureSkipped

\* runDAG returns only after every goroutine it started has been received from
\* done, and by then every step of the graph has a final result.
NothingLeftBehind ==
    phase = "returned" => /\ done = {}
                          /\ \A s \in Steps : /\ results[s] \in Final
                                             /\ gor[s] \in {"idle", "reaped"}

\* Across the first run and all its resumptions no step function succeeds twice:
\* "Pre-populate completed steps so they don't re-execute" (executeResume).
SucceedsOnce == \A s \in Steps : okCount[s] <= 1

\* At the end of a run exactly the steps below a failed or suspended step are
\* failure-skipped: skipStep's cascade neither stops early nor spreads too far.
BlockedExactly ==
    phase = "returned" => \A s \in Steps :
        s \in failureSkipped <=> \E u \in After[s] : \/ results[u] \in {"failed", "suspended"}
                                                   \/ u \in failureSkipped

\* The steps pre-populated on resume are closed under dependencies, so that no
\* resumed step is counted as done while one it waited for runs again.
SnapshotClosed ==
    \A s \in Steps : snapshot[s] # "none" => \A u \in After[s] : snapshot[u] # "none"

\* The dependencies of d that remaining[d] still has to count: those whose
\* completion the coordinator has not carried to d.
Handled(s) == s \in completed /\ gor[s] \in {"idle", "reaped"}
Open(d) == {u \in After[d] : ~Handled(u) \/ <<u, d>> \in pending}

\* remaining, decremented in three places of runDAG, is at any moment the number
\* of dependencies not yet carried over; it never reaches zero early or twice.
InDegreeExact ==
    phase = "running" => \A d \in Steps \ completed : /\ remaining[d] = Cardinality(Open(d))
                                                     /\ remaining[d] > 0

\* inflight counts the goroutines whose completion has not been received, so
\* that the receive on done can never block for ever.
InflightExact ==
    phase = "running" => inflight = Cardinality({s \in Steps : gor[s] \in Active \cup {"sent"}})

\* Both counters of the coordinator are exact at every moment of a run.
CountsExact == InDegreeExact /\ InflightExact

\* A run that reports success ran every step or skipped it by its condition
\* (WorkflowResult.Status), if it is a first run and its context was not ended from
\* outside: no failure, skip or lost completion hides behind a reported success.
FirstSuccessMeansDone ==
    resumes = 0 /\ (cancelled => \E s \in Steps : results[s] = "failed") /\ outcome = "success"
        => \A s \in Steps : results[s] = "success" \/ s \in condFalse

\* The outcome of a run tells what happened: suspended iff a step suspended, failed iff
\* one failed and none suspended (buildResult's priority), success only if all is done.
OutcomeTruthful ==
    /\ phase = "returned" =>
        /\ outcome = "suspended" <=> \E s \in Steps : results[s] = "suspended"
        /\ outcome = "failed" <=> /\ \E s \in Steps : results[s] = "failed"
                                 /\ \A s \in Steps : results[s] # "suspended"
    /\ FirstSuccessMeansDone

\* executeResume: "Only steps that completed successfully (or were skipped by a
\* When() condition) are pre-populated".
PrePopulatedWereRun == \A s \in Steps : snapshot[s] = "skipped" => s \in condFalse

\* The engine implements the abstract contract of module WorkflowContract: every
\* interleaving of the coordinator and the step goroutines settles the steps in an
\* order the contract allows.
Contract == INSTANCE WorkflowContract WITH status <- results, blocked <- failureSkipped
KeepsContract == Contract!CSpec

\* A success is never withdrawn, by a failure elsewhere, a suspension or a resumption.
SuccessIsKept == [][\A s \in Steps : results[s] = "success" => results'[s] = "success"]_vars

\* Whatever fails, suspends or is cancelled, and in whatever order the goroutines
\* report, every call of Execute or Resume returns, unless it streams to a caller who
\* stops reading; once its context has ended it returns even then.
RunReturns == (phase = "running") ~> (phase = "returned" \/ (reader = "gone" /\ ~cancelled))
=============================================================================
