--------------------------- MODULE Workflow_proofs ---------------------------
(***************************************************************************)
(* Proofs about the DAG engine of module Workflow, for every acyclic graph,*)
(* every choice of conditions and retries, any number of resumptions and   *)
(* whether or not the caller cancels.                                      *)
(***************************************************************************)
EXTENDS Workflow, FiniteSetTheorems, TLAPS

\* A dependency that lets its dependents run, and one that blocks them.
Good(u) == results[u] \in {"success", "skipped"} /\ u \notin failureSkipped
Bad(u)  == results[u] \in {"failed", "suspended"} \/ u \in failureSkipped

\* The goroutines still to be received from done.
Live == {s \in Steps : gor[s] \in Active \cup {"sent"}}

-----------------------------------------------------------------------------
\* The parts of the inductive invariant.

\* Where the goroutine of a step is determines what its result may be.
StepInv ==
    \A s \in Steps :
        /\ s \notin completed => gor[s] = "idle" /\ results[s] = "none"
        /\ s \in completed /\ gor[s] = "idle" => results[s] \in {"success", "skipped"}
        /\ gor[s] \in {"starting", "announcing"} => results[s] = "none"
        /\ gor[s] \in {"running", "waiting"} => results[s] = "running"
        /\ gor[s] = "failing" => results[s] = "failed"
        /\ gor[s] \in {"sent", "reaped"} => results[s] \in Final
        /\ s \in done <=> gor[s] = "sent"
        /\ s \in failureSkipped => gor[s] = "idle" /\ results[s] = "skipped"

\* A step is taken up only above good dependencies, and blocked only below a bad one.
OrderInv ==
    \A s \in completed : IF s \in failureSkipped
                         THEN \E u \in After[s] : Bad(u)
                         ELSE \A u \in After[s] : Good(u)

PendingInv ==
    \A u, d \in Steps : <<u, d>> \in pending => u \in After[d] /\ Handled(u)

\* Outside runDAG nothing is under way; before the first run nothing has happened.
QuietInv ==
    /\ phase # "running" => pending = {} /\ \A s \in Steps : gor[s] \in {"idle", "reaped"}
    /\ phase = "idle" => completed = {} /\ snapshot = Empty /\ okCount = [s \in Steps |-> 0]
    /\ phase = "returned" => completed = Steps

\* suspendedStep and failedStep witness the results they stand for.
WitnessInv ==
    /\ suspendedStep # NoStep => results[suspendedStep] = "suspended"
    /\ suspendedStep = NoStep => \A s \in Steps : results[s] # "suspended"
    /\ failedStep # NoStep => results[failedStep] = "failed"
    /\ failedStep = NoStep => \A s \in Steps : results[s] # "failed"
    /\ phase = "returned" => outcome = Outcome
    /\ phase # "returned" => outcome = "none"

SnapshotInv ==
    /\ SnapshotClosed
    /\ phase = "returned" /\ outcome = "suspended" =>
           \A s \in Steps : snapshot[s] = IF Kept(s) THEN results[s] ELSE "none"

CountInv == \A s \in Steps : okCount[s] = 0 \/ (okCount[s] = 1 /\ results[s] = "success")

IInv == /\ TypeOK /\ StepInv /\ OrderInv /\ PendingInv /\ QuietInv /\ WitnessInv
        /\ SnapshotInv /\ CountInv /\ InDegreeExact /\ InflightExact
-----------------------------------------------------------------------------
\* A set of steps is finite, and its cardinality is a natural number.
LEMMA StepSets == \A T \in SUBSET Steps : IsFiniteSet(T) /\ Cardinality(T) \in Nat
  BY StepsAssumption, FS_Subset, FS_CardinalityType

\* The invariant holds before Execute is called.
LEMMA InitInv == Init => IInv
<1> SUFFICES ASSUME Init PROVE IInv
  OBVIOUS
<1>1. TypeOK
  <2>1. pending \in SUBSET (Steps \X Steps) /\ cancelled \in BOOLEAN
    BY Zenon DEF Init
  <2>2. resumes \in 0..MaxResumes
    BY StepsAssumption DEF Init
  <2> QED
    BY <2>1, <2>2 DEF Init, TypeOK, Empty, Final, Active
<1>2. StepInv /\ OrderInv /\ PendingInv /\ QuietInv
  BY DEF Init, StepInv, OrderInv, PendingInv, QuietInv, Empty
<1>3. WitnessInv /\ SnapshotInv /\ CountInv
  BY DEF Init, WitnessInv, SnapshotInv, SnapshotClosed, CountInv, Empty
<1>4. InDegreeExact /\ InflightExact
  BY DEF Init, InDegreeExact, InflightExact
<1> QED
  BY <1>1, <1>2, <1>3, <1>4 DEF IInv

\* A step goroutine that moves on, touching its own result, its place and done only,
\* disturbs none of the structural parts of the invariant.
LEMMA GoroutineStep ==
    ASSUME IInv, NEW s \in Steps, gor[s] \in Active,
           NEW r \in Final \cup {"none", "running"}, NEW g \in Active \cup {"sent"},
           results' = [results EXCEPT ![s] = r],
           gor' = [gor EXCEPT ![s] = g],
           done' = IF g = "sent" THEN done \cup {s} ELSE done,
           gor[s] = "failing" => r = "failed",
           g \in {"starting", "announcing"} => r = "none",
           g \in {"running", "waiting"} => r = "running",
           g = "failing" => r = "failed",
           g = "sent" => r \in Final,
           UNCHANGED <<call, failureSkipped, completed, remaining, inflight, pending>>
    PROVE  StepInv' /\ OrderInv' /\ PendingInv' /\ QuietInv' /\ SnapshotInv'
           /\ InDegreeExact' /\ InflightExact' /\ phase = "running"
<1> USE DEF IInv, TypeOK, Active, Final, call
<1>1. phase = "running"
  BY DEF QuietInv
<1>2. StepInv'
  BY DEF StepInv
<1>3. \A u \in Steps : (Good(u) => Good(u)') /\ (Bad(u) => Bad(u)')
  BY DEF StepInv, Good, Bad
<1>4. OrderInv'
  BY <1>3, StepsAssumption, Zenon DEF OrderInv
<1>5. \A u \in Steps : Handled(u)' <=> Handled(u)
  BY DEF Handled
<1>6. PendingInv'
  BY <1>5 DEF PendingInv
<1>7. QuietInv' /\ SnapshotInv'
  BY <1>1 DEF QuietInv, SnapshotInv, SnapshotClosed
<1>8. \A d \in Steps : Open(d)' = Open(d)
  BY <1>5, StepsAssumption, Zenon DEF Open
<1>9. InDegreeExact'
  BY <1>1, <1>8 DEF InDegreeExact
<1>10. Live' = Live
  BY DEF Live
<1>11. InflightExact'
  BY <1>1, <1>10, Zenon DEF InflightExact, Live
<1> QED
  BY <1>1, <1>2, <1>4, <1>6, <1>7, <1>9, <1>11
\* What a step goroutine does keeps the invariant.
LEMMA GoroutineInv == ASSUME IInv, NEW s \in Steps, StepGoroutine(s) PROVE IInv'
<1> USE DEF Active, Final, call, dag, state
<1> DEFINE Rest == StepInv' /\ OrderInv' /\ PendingInv' /\ QuietInv' /\ SnapshotInv'
                   /\ InDegreeExact' /\ InflightExact' /\ phase = "running"
<1>1. CASE SkipOnCancel(s)
  <2> USE <1>1 DEF SkipOnCancel, Finish
  <2>1. Rest
    BY GoroutineStep, Zenon DEF IInv, TypeOK, StepInv
  <2>2. TypeOK'
    BY DEF IInv, TypeOK
  <2>3. WitnessInv' /\ CountInv'
    BY <2>1, StepsAssumption DEF IInv, TypeOK, StepInv, WitnessInv, CountInv
  <2> QED
    BY <2>1, <2>2, <2>3 DEF IInv
<1>2. CASE SkipOnCondition(s)
  <2> USE <1>2 DEF SkipOnCondition, Finish
  <2>1. Rest
    BY GoroutineStep, Zenon DEF IInv, TypeOK, StepInv
  <2>2. TypeOK'
    BY DEF IInv, TypeOK
  <2>3. WitnessInv' /\ CountInv'
    BY <2>1, StepsAssumption DEF IInv, TypeOK, StepInv, WitnessInv, CountInv
  <2> QED
    BY <2>1, <2>2, <2>3 DEF IInv
<1>3. CASE Start(s)
  <2> USE <1>3 DEF Start
  <2>1. Rest
    BY GoroutineStep, Zenon DEF IInv, TypeOK, StepInv
  <2>2. TypeOK'
    BY DEF IInv, TypeOK
  <2>3. WitnessInv' /\ CountInv'
    BY <2>1, StepsAssumption DEF IInv, TypeOK, StepInv, WitnessInv, CountInv
  <2> QED
    BY <2>1, <2>2, <2>3 DEF IInv
<1>10. CASE Announce(s)
  <2>1. /\ gor[s] = "starting" /\ gor' = [gor EXCEPT ![s] = "announcing"]
        /\ UNCHANGED <<call, state, dag, cancelled, attempt, okCount, condFalse>>
    BY <1>10 DEF Announce
  <2>2. Rest
    <3>1. results' = [results EXCEPT ![s] = "none"]
      BY <2>1 DEF IInv, TypeOK, StepInv
    <3>2. /\ gor[s] \in Active /\ gor[s] # "failing" /\ "announcing" \in Active \cup {"sent"}
          /\ "none" \in Final \cup {"none", "running"}
          /\ done' = IF "announcing" = "sent" THEN done \cup {s} ELSE done
      BY <2>1
    <3>3. UNCHANGED <<call, failureSkipped, completed, remaining, inflight, pending>>
      BY <2>1
    <3> QED
      BY <2>1, <3>1, <3>2, <3>3, GoroutineStep, ZenonT(60)
  <2>3. TypeOK'
    BY <2>1 DEF IInv, TypeOK
  <2>4. WitnessInv' /\ CountInv'
    BY <2>1, <2>2 DEF IInv, WitnessInv, Outcome, CountInv
  <2> QED
    BY <2>2, <2>3, <2>4 DEF IInv
<1>4. CASE Succeed(s)
  <2> USE <1>4 DEF Succeed, Finish
  <2>1. Rest
    BY GoroutineStep, Zenon DEF IInv, TypeOK, StepInv
  <2>2. TypeOK'
    BY DEF IInv, TypeOK
  <2>3. WitnessInv' /\ CountInv'
    BY <2>1, StepsAssumption DEF IInv, TypeOK, StepInv, WitnessInv, CountInv
  <2> QED
    BY <2>1, <2>2, <2>3 DEF IInv
<1>5. CASE Suspend(s)
  <2> USE <1>5 DEF Suspend, Finish
  <2>1. Rest
    BY GoroutineStep, Zenon DEF IInv, TypeOK, StepInv
  <2>2. TypeOK'
    BY DEF IInv, TypeOK
  <2>3. WitnessInv' /\ CountInv'
    BY <2>1, StepsAssumption DEF IInv, TypeOK, StepInv, WitnessInv, CountInv
  <2> QED
    BY <2>1, <2>2, <2>3 DEF IInv
<1>6. CASE AttemptError(s)
  <2> USE <1>6 DEF AttemptError, RecordFailure
  <2>1. Rest
    BY GoroutineStep DEF IInv, TypeOK, StepInv
  <2>2. TypeOK'
    BY DEF IInv, TypeOK
  <2>3. WitnessInv' /\ CountInv'
    BY <2>1, StepsAssumption DEF IInv, TypeOK, StepInv, WitnessInv, CountInv
  <2> QED
    BY <2>1, <2>2, <2>3, SMTT(60) DEF IInv
<1>7. CASE RetryFires(s)
  <2>1. Rest
    <3>1. results' = [results EXCEPT ![s] = "running"] /\ gor' = [gor EXCEPT ![s] = "running"]
          /\ done' = done /\ gor[s] \in Active
          /\ UNCHANGED <<call, failureSkipped, completed, remaining, inflight, pending>>
      BY <1>7 DEF RetryFires, IInv, TypeOK, StepInv
    <3>2. gor[s] = "failing" => "running" = "failed"
      BY <1>7 DEF RetryFires
    <3> QED
      BY <3>1, <3>2, GoroutineStep, Zenon
  <2> USE <1>7 DEF RetryFires
  <2>2. TypeOK'
    BY DEF IInv, TypeOK
  <2>3. WitnessInv' /\ CountInv'
    BY <2>1, StepsAssumption DEF IInv, TypeOK, StepInv, WitnessInv, CountInv
  <2> QED
    BY <2>1, <2>2, <2>3 DEF IInv
<1>8. CASE RetryCancelled(s)
  <2> USE <1>8 DEF RetryCancelled, RecordFailure
  <2>1. Rest
    BY GoroutineStep, Zenon DEF IInv, TypeOK, StepInv
  <2>2. TypeOK'
    BY DEF IInv, TypeOK
  <2>3. WitnessInv' /\ CountInv'
    BY <2>1, StepsAssumption DEF IInv, TypeOK, StepInv, WitnessInv, CountInv
  <2> QED
    BY <2>1, <2>2, <2>3 DEF IInv
<1>9. CASE FailFast(s)
  <2>1. Rest
    <3>1. results' = [results EXCEPT ![s] = "failed"] /\ gor' = [gor EXCEPT ![s] = "sent"]
          /\ done' = done \cup {s} /\ gor[s] \in Active
          /\ UNCHANGED <<call, failureSkipped, completed, remaining, inflight, pending>>
      BY <1>9 DEF FailFast, IInv, TypeOK, StepInv
    <3>2. gor[s] = "failing" => "failed" = "failed"
      BY <1>9 DEF FailFast
    <3> QED
      BY <3>1, <3>2, GoroutineStep, Zenon
  <2> USE <1>9 DEF FailFast
  <2>2. TypeOK'
    BY DEF IInv, TypeOK
  <2>3. WitnessInv' /\ CountInv'
    BY <2>1, StepsAssumption DEF IInv, TypeOK, StepInv, WitnessInv, CountInv
  <2> QED
    BY <2>1, <2>2, <2>3 DEF IInv
<1> QED
  BY <1>1, <1>2, <1>3, <1>4, <1>5, <1>6, <1>7, <1>8, <1>9, <1>10 DEF StepGoroutine
\* The end of the caller's context, or of their reading, changes nothing but the flag.
LEMMA CancelInv == ASSUME IInv, CallerCancel \/ ReaderStops PROVE IInv'
<1> USE DEF CallerCancel, ReaderStops, state, dag, call
<1>1. TypeOK'
  <2>1. CASE CallerCancel
    BY <2>1, ZenonT(60) DEF IInv, TypeOK
  <2>2. CASE ReaderStops
    BY <2>2, ZenonT(60) DEF IInv, TypeOK
  <2> QED
    BY <2>1, <2>2
<1>4. StepInv' /\ PendingInv' /\ QuietInv'
  BY SMTT(60) DEF IInv, StepInv, PendingInv, Handled, QuietInv
<1>2. OrderInv' /\ WitnessInv' /\ SnapshotInv' /\ CountInv'
  BY SMTT(60) DEF IInv, OrderInv, Good, Bad, WitnessInv, Outcome, SnapshotInv, SnapshotClosed, Kept, CountInv
<1>3. InDegreeExact' /\ InflightExact'
  BY DEF IInv, InDegreeExact, Open, Handled, InflightExact
<1> QED
  BY <1>1, <1>2, <1>3, <1>4 DEF IInv

\* Receiving a completion: the step becomes handled, its edges pending, and one
\* goroutine fewer is live.
LEMMA ReceiveInv == ASSUME IInv, NEW s \in Steps, Receive(s) PROVE IInv'
<1> USE DEF Receive, state, call
<1>1. gor[s] = "sent" /\ s \in completed
  BY DEF IInv, TypeOK, StepInv
<1>2. StepInv'
  BY <1>1, SMTT(60) DEF IInv, TypeOK, StepInv, Final
<1>3. OrderInv' /\ WitnessInv' /\ SnapshotInv' /\ CountInv' /\ QuietInv'
  BY DEF IInv, OrderInv, Good, Bad, WitnessInv, Outcome, SnapshotInv, SnapshotClosed, Kept,
         CountInv, QuietInv
<1>4. \A u \in Steps : Handled(u)' <=> Handled(u) \/ u = s
  BY <1>1, SMTT(60) DEF IInv, TypeOK, Handled
<1>5. \A u, d \in Steps : <<u, d>> \in pending' <=> u = s /\ u \in After[d]
  BY DEF EdgesFrom
<1>6. PendingInv'
  BY <1>4, <1>5, Zenon DEF PendingInv
<1>7. \A d \in Steps : Open(d)' = Open(d)
  <2>1. ~Handled(s) /\ pending = {}
    BY <1>1 DEF Handled
  <2>2. ASSUME NEW d \in Steps PROVE Open(d)' = Open(d)
    <3>1. \A u \in After[d] : u \in Steps
      BY StepsAssumption
    <3> QED
      BY <2>1, <3>1, <1>4, <1>5, Zenon DEF Open
  <2> QED
    BY <2>2
<1>8. InDegreeExact'
  BY <1>7 DEF IInv, InDegreeExact
<1>9. inflight' = Cardinality(Live') /\ inflight' \in Nat
  <2>1. Live' = Live \ {s} /\ s \in Live /\ Live \in SUBSET Steps
    BY <1>1 DEF Live, IInv, TypeOK, Active
  <2>2. inflight = Cardinality(Live)
    BY DEF IInv, InflightExact, Live
  <2>3. Cardinality(Live \ {s}) = Cardinality(Live) - 1
    BY <2>1, StepSets, FS_RemoveElement
  <2>4. Cardinality(Live \ {s}) \in Nat
    BY <2>1, StepSets
  <2> QED
    BY <2>1, <2>2, <2>3, <2>4
<1>10. InflightExact'
  BY <1>9 DEF InflightExact, Live
<1>11. TypeOK'
  <2>1. pending' \in SUBSET (Steps \X Steps)
    BY DEF EdgesFrom
  <2> QED
    BY <2>1, <1>9 DEF IInv, TypeOK
<1> QED
  BY <1>2, <1>3, <1>6, <1>8, <1>10, <1>11 DEF IInv

\* When the loop of runDAG ends every step has been taken up: otherwise one that
\* waits only for handled steps would have a positive in-degree and no open edge.
LEMMA AllTakenUp ==
    ASSUME IInv, phase = "running", Drained
    PROVE  completed = Steps /\ \A s \in Steps : gor[s] \in {"idle", "reaped"}
<1>1. \A s \in Steps : gor[s] \in {"idle", "reaped"}
  <2>1. Live \in SUBSET Steps /\ Cardinality(Live) = 0
    BY DEF Live, IInv, InflightExact, Drained
  <2>2. Live = {}
    BY <2>1, StepSets, FS_EmptySet
  <2> QED
    BY <2>2 DEF Live, IInv, TypeOK, Active
<1>2. SUFFICES ASSUME Steps \ completed # {} PROVE FALSE
  BY <1>1 DEF IInv, TypeOK
<1>3. PICK s \in Steps \ completed : After[s] \cap (Steps \ completed) = {}
  BY <1>2, AcyclicAssumption, ZenonT(60)
<1>4. Open(s) = {}
  BY <1>1, <1>3, StepsAssumption DEF Open, Handled, Drained
<1>5. remaining[s] = Cardinality(Open(s)) /\ remaining[s] > 0
  BY <1>3 DEF IInv, InDegreeExact
<1> QED
  BY <1>4, <1>5, FS_EmptySet

LEMMA ReturnInv == ASSUME IInv, Return PROVE IInv'
<1> USE DEF Return, state, dag
<1>1. completed = Steps /\ \A s \in Steps : gor[s] \in {"idle", "reaped"}
  BY AllTakenUp
<1>2. TypeOK'
  BY DEF IInv, TypeOK, Outcome, Kept
<1>3. StepInv' /\ PendingInv' /\ OrderInv' /\ CountInv'
  BY DEF IInv, StepInv, PendingInv, Handled, OrderInv, Good, Bad, CountInv
<1>4. QuietInv' /\ WitnessInv' /\ InDegreeExact' /\ InflightExact'
  BY <1>1 DEF IInv, TypeOK, QuietInv, WitnessInv, Outcome, InDegreeExact, InflightExact, Drained
<1>5. SnapshotInv'
  <2>1. \A s \in Steps : Kept(s) => \A u \in After[s] : Kept(u)
    BY <1>1, StepsAssumption DEF IInv, StepInv, OrderInv, Good, Kept
  <2>2. CASE Outcome = "suspended"
    BY <2>1, <2>2, StepsAssumption DEF SnapshotInv, SnapshotClosed, Kept, IInv, TypeOK
  <2>3. CASE Outcome # "suspended"
    BY <2>3, Zenon DEF SnapshotInv, SnapshotClosed, IInv
  <2> QED
    BY <2>2, <2>3, SMTT(60)
<1> QED
  BY <1>2, <1>3, <1>4, <1>5 DEF IInv
\* A step whose last open edge is the one from u waits for handled steps only.
LEMMA LastEdge ==
    ASSUME IInv, phase = "running", NEW u \in Steps, NEW d \in Steps \ completed,
           <<u, d>> \in pending
    PROVE  /\ u \in After[d] /\ Handled(u) /\ u \in Open(d)
           /\ Cardinality(Open(d) \ {u}) = remaining[d] - 1
           /\ Cardinality(Open(d) \ {u}) \in Nat
           /\ remaining[d] = 1 => \A v \in After[d] : Handled(v)
<1>1. u \in After[d] /\ Handled(u)
  BY DEF IInv, PendingInv
<1>2. u \in Open(d) /\ Open(d) \in SUBSET Steps
  BY <1>1, StepsAssumption DEF Open
<1>3. remaining[d] = Cardinality(Open(d))
  BY DEF IInv, InDegreeExact
<1>4. Cardinality(Open(d) \ {u}) = remaining[d] - 1 /\ IsFiniteSet(Open(d) \ {u})
  BY <1>2, <1>3, StepSets, FS_RemoveElement
<1>5. Cardinality(Open(d) \ {u}) \in Nat
  BY <1>4, FS_CardinalityType
<1>6. ASSUME remaining[d] = 1 PROVE Open(d) \ {u} = {}
  BY <1>4, <1>6, FS_EmptySet
<1>7. remaining[d] = 1 => \A v \in After[d] : Handled(v)
  BY <1>1, <1>6, ZenonT(60) DEF Open
<1> QED
  BY <1>1, <1>2, <1>4, <1>5, <1>7

LEMMA VisitInv == ASSUME IInv, NEW u \in Steps, NEW d \in Steps, Visit(u, d) PROVE IInv'
<1> USE DEF call
<1>0. phase = "running" /\ <<u, d>> \in pending
  BY DEF Visit
<1>1. CASE d \in completed
  <2>1. /\ pending' = pending \ {<<u, d>>}
        /\ UNCHANGED <<phase, outcome, snapshot, resumes, reader, results, failureSkipped, completed,
                       remaining, inflight, gor, suspendedStep, failedStep, cancelled, done,
                       attempt, okCount, condFalse>>
    BY <1>1, SMTT(60) DEF Visit
  <2>2. TypeOK' /\ StepInv' /\ OrderInv' /\ PendingInv' /\ QuietInv'
    BY <1>0, <2>1, SMTT(60) DEF IInv, TypeOK, StepInv, OrderInv, Good, Bad, PendingInv, Handled, QuietInv
  <2>3. WitnessInv' /\ SnapshotInv' /\ CountInv'
    BY <2>1 DEF IInv, WitnessInv, Outcome, SnapshotInv, SnapshotClosed, Kept, CountInv
  <2>4. InflightExact'
    BY <2>1, SMTT(60) DEF IInv, InflightExact
  <2>5. \A x \in Steps \ completed : Open(x)' = Open(x)
    BY <1>1, <2>1 DEF Open, Handled
  <2>6. InDegreeExact'
    BY <2>1, <2>5 DEF IInv, InDegreeExact
  <2> QED
    BY <2>2, <2>3, <2>4, <2>6 DEF IInv
<1>2. CASE d \notin completed /\ remaining[d] # 1
  <2>1. /\ pending' = pending \ {<<u, d>>}
        /\ remaining' = [remaining EXCEPT ![d] = @ - 1]
        /\ UNCHANGED <<phase, outcome, snapshot, resumes, reader, suspendedStep, failedStep, cancelled,
                       done, attempt, okCount, condFalse>>
    BY <1>2 DEF Visit, Dispatch, EdgesFrom
  <2>2. UNCHANGED <<results, failureSkipped, completed, inflight, gor>>
    <3>1. Dispatch({}, {}, results, failureSkipped, completed, inflight, pending \ {<<u, d>>}, gor)
      BY <1>2 DEF Visit
    <3>2. Cardinality({}) = 0
      BY FS_EmptySet
    <3> QED
      BY <3>1, <3>2 DEF Dispatch, IInv, TypeOK
  <2>3. /\ u \in Open(d) /\ Cardinality(Open(d) \ {u}) = remaining[d] - 1
        /\ Cardinality(Open(d) \ {u}) \in Nat
    BY <1>0, <1>2, LastEdge
  <2>4. TypeOK'
    BY <2>1, <2>2, <2>3, SMTT(60) DEF IInv, TypeOK
  <2>5. StepInv' /\ OrderInv' /\ PendingInv' /\ QuietInv'
    BY <1>0, <2>1, <2>2, SMTT(60) DEF IInv, TypeOK, StepInv, OrderInv, Good, Bad, PendingInv, Handled, QuietInv
  <2>6. WitnessInv' /\ SnapshotInv' /\ CountInv' /\ InflightExact'
    BY <2>1, <2>2 DEF IInv, WitnessInv, Outcome, SnapshotInv, SnapshotClosed, Kept, CountInv,
                      InflightExact
  <2>7. \A x \in Steps : Open(x)' = IF x = d THEN Open(d) \ {u} ELSE Open(x)
    <3>1. Handled(u)
      BY <1>0, <1>2, LastEdge, Zenon
    <3>2. \A v \in Steps : Handled(v)' <=> Handled(v)
      BY <2>2 DEF Handled
    <3>3. \A v, x \in Steps : <<v, x>> \in pending' <=> <<v, x>> \in pending /\ ~(v = u /\ x = d)
      BY <2>1
    <3> QED
      BY <3>1, <3>2, <3>3, StepsAssumption DEF Open
  <2>8. InDegreeExact'
    <3> SUFFICES ASSUME NEW x \in Steps \ completed
                 PROVE  remaining'[x] = Cardinality(Open(x)') /\ remaining'[x] > 0
      BY <2>2 DEF InDegreeExact
    <3>1. CASE x = d
      <4>1. remaining'[d] = remaining[d] - 1 /\ remaining[d] \in Nat /\ remaining[d] > 0
        BY <1>0, <1>2, <2>1 DEF IInv, TypeOK, InDegreeExact
      <4> QED
        <5>1. Open(x)' = Open(d) \ {u} /\ remaining'[x] = remaining'[d]
          BY <2>7, <3>1
        <5>2. Cardinality(Open(x)') = Cardinality(Open(d) \ {u})
          BY <5>1
        <5> QED
          BY <1>2, <2>3, <4>1, <5>1, <5>2
    <3>2. CASE x # d
      <4>1. remaining'[x] = remaining[x] /\ Open(x)' = Open(x)
        BY <2>1, <2>7, <3>2 DEF IInv, TypeOK
      <4> QED
        BY <1>0, <4>1 DEF IInv, InDegreeExact
    <3> QED
      BY <3>1, <3>2
  <2> QED
    BY <2>4, <2>5, <2>6, <2>8 DEF IInv
<1>3. CASE d \notin completed /\ remaining[d] = 1
  <2>1. PICK bad \in SUBSET {d} :
            /\ bad = {d} <=> u \in failureSkipped \/ HasFailedUpstream(d, results, failureSkipped)
            /\ remaining' = [remaining EXCEPT ![d] = @ - 1]
            /\ Dispatch({d} \ bad, bad, results, failureSkipped, completed, inflight,
                        pending \ {<<u, d>>}, gor)
    <3> DEFINE B == {s \in {d} : u \in failureSkipped \/ HasFailedUpstream(s, results, failureSkipped)}
    <3>1. B \in SUBSET {d} /\ (B = {d} <=> u \in failureSkipped
                                        \/ HasFailedUpstream(d, results, failureSkipped))
      OBVIOUS
    <3>2. /\ remaining' = [remaining EXCEPT ![d] = @ - 1]
          /\ Dispatch({d} \ B, B, results, failureSkipped, completed, inflight,
                      pending \ {<<u, d>>}, gor)
      BY <1>3 DEF Visit
    <3> QED
      BY <3>1, <3>2, Zenon
  <2>2. UNCHANGED <<phase, outcome, snapshot, resumes, reader, suspendedStep, failedStep, cancelled,
                    done, attempt, okCount, condFalse>>
    BY DEF Visit
  <2>3. /\ u \in After[d] /\ \A v \in After[d] : v \in Steps /\ Handled(v)
        /\ Cardinality(Open(d) \ {u}) = remaining[d] - 1
    BY <1>0, <1>3, LastEdge, StepsAssumption
  <2>4. \A v \in After[d] : results[v] \in Final
    BY <2>3 DEF IInv, TypeOK, StepInv, Handled, Final
  <2>5. CASE bad = {d}
    <3>1. /\ results' = [results EXCEPT ![d] = "skipped"]
          /\ failureSkipped' = failureSkipped \cup {d}
          /\ completed' = completed \cup {d}
          /\ pending' = (pending \ {<<u, d>>}) \cup EdgesFrom({d})
          /\ gor' = gor
      BY <2>1, <2>5, Zenon DEF Dispatch, IInv, TypeOK
    <3>2. inflight' = inflight
      <4>1. Cardinality({d} \ bad) = 0
        BY <2>5, FS_EmptySet
      <4> QED
        BY <2>1, <4>1 DEF Dispatch, IInv, TypeOK
    <3>3. \E v \in After[d] : Bad(v)
      BY <2>1, <2>3, <2>5 DEF Bad, HasFailedUpstream
    <3>4. \A v, x \in Steps : <<v, x>> \in pending' <=>
              ((<<v, x>> \in pending /\ ~(v = u /\ x = d)) \/ (v = d /\ v \in After[x]))
      <4>1. \A v, x \in Steps : <<v, x>> \in EdgesFrom({d}) <=> v = d /\ v \in After[x]
        BY DEF EdgesFrom
      <4>2. \A v, x \in Steps : <<v, x>> \in {<<u, d>>} <=> v = u /\ x = d
        OBVIOUS
      <4> QED
        BY <3>1, <4>1, <4>2, Zenon
    <3>5. \A v \in Steps : Handled(v)' <=> Handled(v) \/ v = d
      BY <1>3, <3>1 DEF IInv, TypeOK, StepInv, Handled
    <3>6. TypeOK'
      <4>1. EdgesFrom({d}) \in SUBSET (Steps \X Steps)
        BY DEF EdgesFrom
      <4>2. remaining' \in [Steps -> Nat]
        BY <1>3, <2>1 DEF IInv, TypeOK
      <4> QED
        BY <2>2, <3>1, <3>2, <4>1, <4>2, ZenonT(60) DEF IInv, TypeOK, Final
    <3>7. StepInv'
      BY <1>3, <2>2, <3>1 DEF IInv, TypeOK, StepInv, Final
    <3>8. \A v \in Steps : (Good(v) => Good(v)') /\ (Bad(v) => Bad(v)')
      BY <1>3, <3>1 DEF IInv, TypeOK, StepInv, Good, Bad
    <3>9. OrderInv'
      BY <3>1, <3>3, <3>8, <1>3, StepsAssumption, Zenon DEF IInv, TypeOK, OrderInv
    <3>10. PendingInv'
      BY <3>4, <3>5, Zenon DEF IInv, PendingInv
    <3>11. QuietInv' /\ CountInv' /\ SnapshotInv'
      BY <1>0, <1>3, <2>2, <3>1, ZenonT(60) DEF IInv, TypeOK, StepInv, QuietInv, CountInv, SnapshotInv, SnapshotClosed
    <3>12. WitnessInv'
      BY <1>0, <1>3, <2>2, <3>1, StepsAssumption DEF IInv, TypeOK, StepInv, WitnessInv
    <3>13. InflightExact'
      BY <2>2, <3>1, <3>2, SMTT(60) DEF IInv, InflightExact
    <3>14. \A x \in Steps \ completed' : Open(x)' = Open(x)
      <4>1. ~Handled(d)
        BY <1>3, SMTT(60) DEF Handled
      <4> QED
        <5> SUFFICES ASSUME NEW x \in Steps \ completed' PROVE Open(x)' = Open(x)
          OBVIOUS
        <5>1. x # d /\ \A v \in After[x] : v \in Steps
          BY <3>1, StepsAssumption
        <5> QED
          BY <3>4, <3>5, <4>1, <5>1 DEF Open
    <3>15. InDegreeExact'
      BY <1>0, <2>1, <2>2, <3>1, <3>14 DEF IInv, TypeOK, InDegreeExact
    <3> QED
      BY <3>6, <3>7, <3>9, <3>10, <3>11, <3>12, <3>13, <3>15 DEF IInv
  <2>6. CASE bad = {}
    <3>1. /\ results' = results /\ failureSkipped' = failureSkipped
          /\ completed' = completed \cup {d}
          /\ pending' = pending \ {<<u, d>>}
          /\ gor' = [gor EXCEPT ![d] = "starting"]
      BY <2>1, <2>6, Zenon DEF Dispatch, IInv, TypeOK, EdgesFrom
    <3>2. inflight' = inflight + 1
      <4>1. Cardinality({d} \ bad) = 1
        BY <2>6, FS_Singleton, Zenon
      <4> QED
        BY <2>1, <4>1, Zenon DEF Dispatch
    <3>3. \A v \in After[d] : Good(v)
      BY <2>1, <2>3, <2>4, <2>6, Zenon DEF Good, HasFailedUpstream, Final, IInv, StepInv
    <3>4. \A v, x \in Steps : <<v, x>> \in pending' <=> <<v, x>> \in pending /\ ~(v = u /\ x = d)
      BY <3>1
    <3>5. \A v \in Steps : Handled(v)' <=> Handled(v)
      BY <1>3, <3>1, SMTT(60) DEF IInv, TypeOK, Handled
    <3>6. TypeOK'
      <4>1. remaining' \in [Steps -> Nat]
        BY <1>3, <2>1 DEF IInv, TypeOK
      <4> QED
        <5>1. inflight' \in Nat /\ pending' \in SUBSET (Steps \X Steps)
          BY <3>1, <3>2 DEF IInv, TypeOK
        <5>2. gor' \in [Steps -> Active \cup {"idle", "sent", "reaped"}]
          BY <3>1, SMTT(60) DEF IInv, TypeOK, Active
        <5> QED
          BY <2>2, <3>1, <4>1, <5>1, <5>2 DEF IInv, TypeOK
    <3>7. StepInv'
      BY <1>3, <2>2, <3>1, SMTT(60) DEF IInv, TypeOK, StepInv
    <3>8. OrderInv'
      BY <1>3, <3>1, <3>3 DEF IInv, TypeOK, StepInv, OrderInv, Good, Bad
    <3>9. PendingInv'
      BY <3>4, <3>5, Zenon DEF IInv, PendingInv
    <3>10. QuietInv' /\ CountInv' /\ SnapshotInv' /\ WitnessInv'
      BY <1>0, <2>2, <3>1, ZenonT(60) DEF IInv, QuietInv, CountInv, SnapshotInv, SnapshotClosed, WitnessInv
    <3>11. InflightExact'
      <4>1. Live' = Live \cup {d} /\ d \notin Live /\ Live \in SUBSET Steps
        BY <1>3, <3>1 DEF Live, IInv, TypeOK, StepInv, Active
      <4>2. Cardinality(Live \cup {d}) = Cardinality(Live) + 1
        BY <4>1, StepSets, FS_AddElement
      <4> QED
        BY <1>0, <3>2, <4>1, <4>2, SMTT(60) DEF IInv, InflightExact, Live
    <3>12. \A x \in Steps \ completed' : Open(x)' = Open(x)
      BY <3>1, <3>4, <3>5, StepsAssumption, SMTT(60) DEF Open
    <3>13. InDegreeExact'
      BY <1>0, <2>1, <2>2, <3>1, <3>12 DEF IInv, TypeOK, InDegreeExact
    <3> QED
      BY <3>6, <3>7, <3>8, <3>9, <3>10, <3>11, <3>13, SMTT(60) DEF IInv
  <2> QED
    BY <2>5, <2>6
<1> QED
  BY <1>1, <1>2, <1>3
\* runDAG starts well on any dependency-closed set of good results.
LEMMA BeginInv ==
    ASSUME IInv, NEW pre \in [Steps -> {"none", "success", "skipped"}],
           \A s \in Steps : pre[s] # "none" => \A u \in After[s] : pre[u] # "none",
           \A s \in Steps : okCount[s] = 0 \/ (okCount[s] = 1 /\ pre[s] = "success"),
           BeginRun(pre), snapshot' = snapshot, resumes' \in 0..MaxResumes
    PROVE  IInv'
<1> DEFINE have  == {s \in Steps : pre[s] # "none"}
           roots == {s \in Steps \ have : InDegree(s, have) = 0}
<1>1. \A s \in Steps : InDegree(s, have) \in Nat
                       /\ (s \notin have => InDegree(s, have) = Cardinality(After[s] \ have))
  <2>1. \A s \in Steps : After[s] \in SUBSET Steps /\ After[s] \ have \in SUBSET Steps
    BY StepsAssumption
  <2> QED
    BY <2>1, StepSets DEF InDegree
<1>2. \A s \in Steps : ~HasFailedUpstream(s, pre, {})
  BY StepsAssumption DEF HasFailedUpstream
<1>3. {s \in roots : HasFailedUpstream(s, pre, {})} = {} /\ EdgesFrom({}) = {}
  BY <1>2 DEF EdgesFrom
<1>4. /\ phase' = "running" /\ outcome' = "none"
      /\ suspendedStep' = NoStep /\ failedStep' = NoStep /\ cancelled' = FALSE /\ reader' = "reading"
      /\ remaining' = [s \in Steps |-> InDegree(s, have)]
      /\ done' = {} /\ attempt' = [s \in Steps |-> 0]
      /\ condFalse' = condFalse \cap have /\ okCount' = okCount
      /\ Dispatch(roots \ {}, {}, pre, {}, have, 0, {}, [s \in Steps |-> "idle"])
  BY <1>3, Zenon DEF BeginRun
<1>5. /\ results' = pre /\ failureSkipped' = {}
      /\ completed' = have \cup roots
      /\ pending' = {}
      /\ gor' = [s \in Steps |-> IF s \in roots THEN "starting" ELSE "idle"]
  BY <1>3, <1>4, ZenonT(60) DEF Dispatch
<1>6. inflight' = Cardinality(roots) /\ roots \in SUBSET Steps
  <2>1. roots \ {} = roots /\ Cardinality(roots) \in Nat
    BY StepSets, Zenon
  <2> QED
    BY <1>4, <2>1 DEF Dispatch
<1> HIDE DEF roots
<1>7. roots \cap have = {}
  BY DEF roots
<1>8. TypeOK'
  <2>1. remaining' \in [Steps -> Nat] /\ inflight' \in Nat
    BY <1>1, <1>4, <1>6, StepSets, ZenonT(60)
  <2>2. cancelled' \in BOOLEAN /\ pending' \in SUBSET (Steps \X Steps)
    BY <1>4, <1>5, Zenon
  <2>3. gor' \in [Steps -> Active \cup {"idle", "sent", "reaped"}]
    BY <1>5 DEF Active
  <2>4. results' \in [Steps -> Final \cup {"none", "running"}] /\ completed' \in SUBSET Steps
    BY <1>5, <1>6 DEF Final
  <2> QED
    BY <1>4, <1>5, <2>1, <2>2, <2>3, <2>4, Zenon DEF IInv, TypeOK
<1>9. StepInv'
  BY <1>4, <1>5, <1>7, ZenonT(60) DEF StepInv
<1>10. \A s \in roots : s \in Steps \ have /\ \A u \in After[s] : u \in have
  <2> SUFFICES ASSUME NEW s \in roots PROVE s \in Steps \ have /\ After[s] \ have = {}
    OBVIOUS
  <2>1. s \in Steps \ have /\ Cardinality(After[s] \ have) = 0
    BY <1>1 DEF roots
  <2>2. After[s] \ have \in SUBSET Steps
    BY <2>1, StepsAssumption
  <2> QED
    BY <2>1, <2>2, StepSets, FS_EmptySet, SMTT(60)
<1>11. OrderInv'
  <2>1. \A u \in have : Good(u)'
    BY <1>5 DEF Good
  <2>2. \A s \in have : \A u \in After[s] : u \in have
    BY StepsAssumption
  <2> QED
    BY <1>5, <1>10, <2>1, <2>2 DEF OrderInv
<1>12. PendingInv' /\ QuietInv' /\ WitnessInv' /\ SnapshotInv' /\ CountInv'
  BY <1>4, <1>5, StepsAssumption, Zenon
     DEF IInv, PendingInv, QuietInv, WitnessInv, SnapshotInv, SnapshotClosed, CountInv
<1>13. InDegreeExact'
  <2>1. \A u \in Steps : Handled(u)' <=> u \in have
    BY <1>5, <1>7, SMTT(60) DEF Handled
  <2>2. ASSUME NEW d \in Steps \ completed' PROVE remaining'[d] = Cardinality(Open(d)') /\ remaining'[d] > 0
    <3>1. Open(d)' = After[d] \ have
      BY <1>5, <2>1, StepsAssumption DEF Open
    <3>2. d \notin have /\ d \notin roots /\ remaining'[d] = InDegree(d, have)
      BY <1>4, <1>5, ZenonT(60)
    <3>3. InDegree(d, have) # 0
      BY <3>2 DEF roots
    <3>4. Cardinality(Open(d)') = Cardinality(After[d] \ have)
      BY <3>1
    <3> QED
      BY <1>1, <3>2, <3>3, <3>4
  <2> QED
    BY <2>2, ZenonT(60) DEF InDegreeExact
<1>14. InflightExact'
  <2>1. Live' = roots
    BY <1>5, <1>6 DEF Live, Active
  <2> QED
    BY <1>6, <2>1, Zenon DEF InflightExact, Live
<1> QED
  BY <1>8, <1>9, <1>11, <1>12, <1>13, <1>14, ZenonT(60) DEF IInv

\* Every step of the engine keeps the invariant.
LEMMA NextInv == IInv /\ [Next]_vars => IInv'
<1> SUFFICES ASSUME IInv, [Next]_vars PROVE IInv'
  OBVIOUS
<1>1. CASE Execute
  <2>1. snapshot' = snapshot /\ resumes' \in 0..MaxResumes /\ BeginRun(Empty)
    BY <1>1 DEF Execute, IInv, TypeOK
  <2>2. \A s \in Steps : okCount[s] = 0 /\ Empty[s] = "none"
    BY <1>1 DEF Execute, IInv, QuietInv, Empty
  <2>3. Empty \in [Steps -> {"none", "success", "skipped"}]
    BY DEF Empty
  <2> QED
    BY <2>1, <2>2, <2>3, BeginInv
<1>2. CASE Resume
  <2>1. snapshot' = snapshot /\ resumes' \in 0..MaxResumes /\ BeginRun(snapshot)
    BY <1>2, StepsAssumption DEF Resume, IInv, TypeOK
  <2>2. \A s \in Steps : okCount[s] = 0 \/ (okCount[s] = 1 /\ snapshot[s] = "success")
    BY <1>2 DEF Resume, IInv, SnapshotInv, CountInv, Kept
  <2>3. \A s \in Steps : snapshot[s] # "none" => \A u \in After[s] : snapshot[u] # "none"
    BY DEF IInv, SnapshotInv, SnapshotClosed
  <2>4. snapshot \in [Steps -> {"none", "success", "skipped"}]
    BY DEF IInv, TypeOK
  <2> QED
    BY <2>1, <2>2, <2>3, <2>4, BeginInv
<1>3. CASE CallerCancel \/ ReaderStops
  BY <1>3, CancelInv
<1>4. CASE Coordinator
  BY <1>4, ReceiveInv, VisitInv, ReturnInv DEF Coordinator
<1>5. ASSUME NEW s \in Steps, StepGoroutine(s) PROVE IInv'
  BY <1>5, GoroutineInv
<1>6. CASE UNCHANGED vars
  <2> USE <1>6 DEF vars
  <2>1. TypeOK' /\ StepInv' /\ OrderInv'
    BY DEF IInv, TypeOK, StepInv, OrderInv, Good, Bad
  <2>2. PendingInv' /\ QuietInv'
    BY DEF IInv, PendingInv, Handled, QuietInv
  <2>3. WitnessInv' /\ SnapshotInv'
    BY ZenonT(60) DEF IInv, WitnessInv, Outcome, SnapshotInv, SnapshotClosed, Kept
  <2>4. CountInv' /\ InflightExact'
    BY DEF IInv, CountInv, InflightExact
  <2>5. InDegreeExact'
    BY DEF IInv, InDegreeExact, Open, Handled
  <2> QED
    BY <2>1, <2>2, <2>3, <2>4, <2>5, SMTT(60) DEF IInv
<1> QED
  BY <1>1, <1>2, <1>3, <1>4, <1>5, <1>6 DEF Next
-----------------------------------------------------------------------------
\* The inductive invariant holds in every reachable state.
THEOREM Invariance == Spec => []IInv
  BY InitInv, NextInv, PTL DEF Spec

\* The state of a run, its counters included, keeps its type: inflight and the
\* in-degrees never become negative.
THEOREM TypeCorrect == Spec => []TypeOK
<1>1. IInv => TypeOK
  BY DEF IInv
<1> QED
  BY <1>1, Invariance, PTL

\* A step's goroutine exists only above settled, good dependencies.
THEOREM OrderCorrect == Spec => []StartsAfterDependencies
<1>1. IInv => StartsAfterDependencies
  BY ZenonT(60) DEF IInv, TypeOK, StepInv, OrderInv, Good, StartsAfterDependencies
<1> QED
  BY <1>1, Invariance, PTL

\* runDAG leaves no goroutine and no step of an acyclic graph behind.
THEOREM Completeness == Spec => []NothingLeftBehind
<1>1. IInv => NothingLeftBehind
  BY DEF IInv, TypeOK, StepInv, QuietInv, NothingLeftBehind, Final
<1> QED
  BY <1>1, Invariance, PTL

\* No step function succeeds twice, however often the workflow is resumed.
THEOREM SingleSuccess == Spec => []SucceedsOnce
<1>1. ASSUME CountInv PROVE SucceedsOnce
  <2>1. SUFFICES ASSUME NEW s \in Steps PROVE okCount[s] <= 1
    BY DEF SucceedsOnce
  <2>2. okCount[s] = 0 \/ okCount[s] = 1
    BY <1>1 DEF CountInv
  <2> QED
    BY <2>2
<1>2. IInv => CountInv
  BY DEF IInv
<1> QED
  BY <1>1, <1>2, Invariance, PTL

\* Exactly the steps below a failed or suspended one are failure-skipped.
THEOREM BlockingExact == Spec => []BlockedExactly
<1>1. IInv => BlockedExactly
  BY StepsAssumption DEF IInv, TypeOK, StepInv, QuietInv, OrderInv, Good, Bad, BlockedExactly
<1> QED
  BY <1>1, Invariance, PTL

\* What a suspension carries into the next run is closed under dependencies.
THEOREM SnapshotCorrect == Spec => []SnapshotClosed
<1>1. IInv => SnapshotClosed
  BY DEF IInv, SnapshotInv
<1> QED
  BY <1>1, Invariance, PTL

\* The coordinator's two counters are exact at every moment of a run.
THEOREM CountersExact == Spec => []CountsExact
<1>1. IInv => CountsExact
  BY DEF IInv, CountsExact
<1> QED
  BY <1>1, Invariance, PTL

\* No step of the engine turns a success into anything else.
THEOREM SuccessStable == Spec => SuccessIsKept
<1>1. IInv /\ [Next]_vars => [\A s \in Steps : results[s] = "success" => results'[s] = "success"]_vars
  <2> SUFFICES ASSUME IInv, Next, NEW s \in Steps, results[s] = "success"
               PROVE  results'[s] = "success"
    OBVIOUS
  <2>1. CASE Execute
    BY <2>1 DEF Execute, IInv, QuietInv, StepInv
  <2>2. CASE Resume
    <3>1. snapshot[s] = "success" /\ results' = [x \in Steps |->
              IF x \in {y \in {z \in Steps \ {v \in Steps : snapshot[v] # "none"} :
                                   InDegree(z, {v \in Steps : snapshot[v] # "none"}) = 0} :
                            HasFailedUpstream(y, snapshot, {})}
              THEN "skipped" ELSE snapshot[x]]
      BY <2>2, Zenon DEF Resume, IInv, SnapshotInv, Kept, BeginRun, Dispatch
    <3> QED
      BY <3>1
  <2>3. CASE CallerCancel \/ ReaderStops
    BY <2>3 DEF CallerCancel, ReaderStops, state
  <2>4. CASE Coordinator
    <3>1. s \in completed
      BY DEF IInv, StepInv
    <3>2. ASSUME NEW u \in Steps, NEW d \in Steps, Visit(u, d) PROVE results'[s] = "success"
      BY <3>1, <3>2 DEF Visit, Dispatch
    <3> QED
      BY <2>4, <3>2, ZenonT(60) DEF Coordinator, Receive, Return, state
  <2>5. ASSUME NEW x \in Steps, StepGoroutine(x) PROVE results'[s] = "success"
    <3>1. results'[s] = results[s] \/ x = s
      BY <2>5, Zenon DEF StepGoroutine, SkipOnCancel, SkipOnCondition, Announce, Start, Succeed, Suspend, AttemptError,
                  RetryFires, RetryCancelled, FailFast, Finish, RecordFailure, state, IInv, TypeOK
    <3>2. x # s
      BY <2>5, ZenonT(60) DEF StepGoroutine, SkipOnCancel, SkipOnCondition, Announce, Start, Succeed, Suspend, AttemptError,
                  RetryFires, RetryCancelled, FailFast, IInv, StepInv
    <3> QED
      BY <3>1, <3>2
  <2> QED
    BY <2>1, <2>2, <2>3, <2>4, <2>5, ZenonT(60) DEF Next
<1> QED
  BY <1>1, Invariance, PTL DEF Spec, SuccessIsKept
-----------------------------------------------------------------------------
\* Each step of the engine is a step of the contract or leaves its state alone.
LEMMA StepRefines == IInv /\ [Next]_vars => [Contract!CNext]_Contract!cvars
<1> USE DEF Contract!CNext, Contract!cvars
<1> SUFFICES ASSUME IInv, Next
             PROVE  Contract!CNext \/ UNCHANGED <<phase, results, failureSkipped>>
  BY DEF vars
<1>0. \A u \in Steps : /\ Good(u) <=> Contract!Satisfied(u)
                       /\ results[u] \in Final <=> Contract!Settled(u)
  BY DEF Good, Final, Contract!Satisfied, Contract!Settled
<1>1. CASE Execute
  <2>1. results = Empty /\ failureSkipped = {}
    BY <1>1 DEF Execute, IInv, TypeOK, QuietInv, StepInv, Empty
  <2>2. \A s \in Steps : ~HasFailedUpstream(s, Empty, {})
    BY StepsAssumption DEF HasFailedUpstream, Empty
  <2>3. results' = Empty /\ failureSkipped' = {}
    BY <1>1, <2>2, Zenon DEF Execute, BeginRun, Dispatch, Empty
  <2> QED
    BY <1>1, <2>1, <2>3, ZenonT(60) DEF Execute, BeginRun, Contract!Begin
<1>2. CASE Resume
  <2>1. \A s \in Steps : ~HasFailedUpstream(s, snapshot, {})
    BY StepsAssumption DEF HasFailedUpstream, IInv, TypeOK
  <2>2. results' = snapshot /\ failureSkipped' = {} /\ phase' = "running"
    BY <1>2, <2>1, ZenonT(60) DEF Resume, BeginRun, Dispatch, IInv, TypeOK
  <2>3. \A s \in Steps : Kept(s) <=> Good(s)
    BY DEF Kept, Good, IInv, StepInv
  <2>4. phase = "returned" /\ \A s \in Steps : snapshot[s] = IF Good(s) THEN results[s] ELSE "none"
    BY <1>2, <2>3 DEF Resume, IInv, SnapshotInv
  <2>5. results' = [s \in Steps |-> IF Contract!Satisfied(s) THEN results[s] ELSE "none"]
    BY <1>0, <2>2, <2>4 DEF IInv, TypeOK
  <2>6. \E s \in Steps : results[s] = "suspended"
    BY <1>2, StepsAssumption, SMTT(60) DEF Resume, IInv, TypeOK, WitnessInv, Outcome
  <2>7. \A s \in Steps : Contract!Satisfied(s) => \A u \in After[s] : Contract!Satisfied(u)
    BY <1>0, <2>4, StepsAssumption DEF IInv, TypeOK, QuietInv, OrderInv, Good
  <2> QED
    BY <2>2, <2>4, <2>5, <2>6, <2>7 DEF Contract!Again
<1>3. CASE CallerCancel \/ ReaderStops
  BY <1>3 DEF CallerCancel, ReaderStops, state, call
<1>4. ASSUME NEW s \in Steps, Receive(s) PROVE UNCHANGED <<phase, results, failureSkipped>>
  BY <1>4 DEF Receive, state, call
<1>5. ASSUME NEW u \in Steps, NEW d \in Steps, Visit(u, d)
      PROVE  Contract!CNext \/ UNCHANGED <<phase, results, failureSkipped>>
  <2>1. phase = "running" /\ phase' = phase /\ <<u, d>> \in pending
    BY <1>5 DEF Visit, call
  <2>2. CASE d \in completed \/ remaining[d] # 1
    BY <1>5, <2>1, <2>2, Zenon DEF Visit, Dispatch, IInv, TypeOK
  <2>3. CASE d \notin completed /\ remaining[d] = 1
    <3>1. u \in After[d] /\ \A v \in After[d] : v \in Steps /\ results[v] \in Final
      BY <2>1, <2>3, LastEdge, StepsAssumption, Zenon DEF IInv, TypeOK, StepInv, Handled, Final
    <3>2. CASE u \in failureSkipped \/ HasFailedUpstream(d, results, failureSkipped)
      <4>0. {s \in {d} : u \in failureSkipped \/ HasFailedUpstream(s, results, failureSkipped)} = {d}
        BY <3>2
      <4>1. results' = [results EXCEPT ![d] = "skipped"] /\ failureSkipped' = failureSkipped \cup {d}
        BY <1>5, <2>3, <4>0, ZenonT(60) DEF Visit, Dispatch, IInv, TypeOK
      <4>2. \E v \in After[d] : ~Contract!Satisfied(v)
        BY <3>1, <3>2, Zenon DEF HasFailedUpstream, Contract!Satisfied
      <4>3. results[d] = "none"
        BY <2>3 DEF IInv, StepInv
      <4>4. Contract!Block(d)
        BY <1>0, <2>1, <3>1, <4>1, <4>2, <4>3 DEF Contract!Block
      <4> QED
        BY <4>4
    <3>3. CASE ~(u \in failureSkipped \/ HasFailedUpstream(d, results, failureSkipped))
      <4>1. {s \in {d} : u \in failureSkipped \/ HasFailedUpstream(s, results, failureSkipped)} = {}
        BY <3>3, SMTT(60)
      <4>2. results' = results /\ failureSkipped' = failureSkipped
        BY <1>5, <2>3, <4>1, ZenonT(60) DEF Visit, Dispatch, IInv, TypeOK
      <4> QED
        BY <2>1, <4>2
    <3> QED
      BY <3>2, <3>3, SMTT(60)
  <2> QED
    BY <2>2, <2>3
<1>6. CASE Return
  <2>1. \A s \in Steps : results[s] \in Final
    BY <1>6, AllTakenUp, Zenon DEF Return, IInv, StepInv, Final
  <2> QED
    BY <1>0, <1>6, <2>1 DEF Return, state, Contract!End
<1>7. ASSUME NEW s \in Steps, StepGoroutine(s)
      PROVE  Contract!CNext \/ UNCHANGED <<phase, results, failureSkipped>>
  <2>1. gor[s] \in Active
    BY <1>7, ZenonT(60) DEF StepGoroutine, SkipOnCancel, SkipOnCondition, Announce, Start, Succeed, Suspend, AttemptError,
                RetryFires, RetryCancelled, FailFast, Active
  <2>2. phase = "running" /\ \A u \in After[s] : Contract!Satisfied(u)
    BY <1>0, <2>1, StepsAssumption
       DEF Active, IInv, TypeOK, QuietInv, StepInv, OrderInv
  <2>3. phase' = phase /\ failureSkipped' = failureSkipped
    BY <1>7, Zenon DEF StepGoroutine, SkipOnCancel, SkipOnCondition, Announce, Start, Succeed, Suspend, AttemptError,
                RetryFires, RetryCancelled, FailFast, call, state
  <2>4. CASE SkipOnCancel(s) \/ SkipOnCondition(s)
    <3>1. results[s] = "none" /\ results' = [results EXCEPT ![s] = "skipped"]
      BY <2>4 DEF SkipOnCancel, SkipOnCondition, Finish, IInv, StepInv
    <3>2. Contract!PassOver(s)
      BY <2>2, <2>3, <3>1 DEF Contract!PassOver
    <3> QED
      BY <3>2, SMTT(60)
  <2>5. CASE Start(s)
    <3>1. results[s] = "none" /\ results' = [results EXCEPT ![s] = "running"]
      BY <2>5 DEF Start, IInv, StepInv
    <3>2. Contract!Run(s)
      BY <2>2, <2>3, <3>1 DEF Contract!Run
    <3> QED
      BY <3>2
  <2>6. ASSUME NEW r \in {"success", "failed", "suspended"}, results[s] = "running",
               results' = [results EXCEPT ![s] = r]
        PROVE  Contract!CNext
    <3>1. Contract!Settle(s, r)
      BY <2>2, <2>3, <2>6 DEF Contract!Settle
    <3> QED
      BY <3>1
  <2>7. CASE Succeed(s) \/ Suspend(s) \/ AttemptError(s) \/ RetryCancelled(s)
    <3>1. results[s] = "running"
      BY <2>7, Zenon DEF Succeed, Suspend, AttemptError, RetryCancelled, IInv, StepInv
    <3>2. \/ results' = [results EXCEPT ![s] = "success"]
          \/ results' = [results EXCEPT ![s] = "suspended"]
          \/ results' = [results EXCEPT ![s] = "failed"]
          \/ results' = results
      BY <2>7, ZenonT(60) DEF Succeed, Suspend, AttemptError, RetryCancelled, Finish, RecordFailure
    <3> QED
      BY <2>3, <2>6, <3>1, <3>2
  <2>8. CASE Announce(s) \/ RetryFires(s) \/ FailFast(s)
    BY <2>3, <2>8 DEF Announce, RetryFires, FailFast, state
  <2> QED
    BY <1>7, <2>4, <2>5, <2>7, <2>8 DEF StepGoroutine
<1> QED
  BY <1>1, <1>2, <1>3, <1>4, <1>5, <1>6, <1>7 DEF Next, Coordinator

\* The engine implements the abstract contract.
THEOREM Refinement == Spec => KeepsContract
<1>1. Init => Contract!CInit
  BY DEF Init, Empty, Contract!CInit
<1> QED
  BY <1>1, StepRefines, Invariance, PTL DEF Spec, KeepsContract, Contract!CSpec
-----------------------------------------------------------------------------
\* Before any resumption a step is skipped by its condition, below a failure or
\* suspension, or because the context has ended.
CauseInv ==
    resumes = 0 => \A s \in Steps : results[s] = "skipped" =>
                       s \in condFalse \/ s \in failureSkipped \/ cancelled

LEMMA CauseStep == IInv /\ CauseInv /\ [Next]_vars => CauseInv'
<1> SUFFICES ASSUME IInv, CauseInv, [Next]_vars, resumes' = 0
             PROVE  \A s \in Steps : results'[s] = "skipped" =>
                        s \in condFalse' \/ s \in failureSkipped' \/ cancelled'
  BY DEF CauseInv
<1> USE DEF call, state, dag
<1>1. CASE Execute
  BY <1>1, ZenonT(60) DEF Execute, BeginRun, Dispatch, Empty
<1>2. CASE Resume
  BY <1>2 DEF Resume, IInv, TypeOK
<1>3. CASE Coordinator
  <2>1. UNCHANGED <<resumes, cancelled, failedStep, condFalse>>
    BY <1>3, Zenon DEF Coordinator, Receive, Visit, Return
  <2>2. \A s \in Steps : /\ results'[s] = "skipped" => results[s] = "skipped" \/ s \in failureSkipped'
                         /\ s \in failureSkipped => s \in failureSkipped'
    <3>1. ASSUME NEW u \in Steps, NEW d \in Steps, Visit(u, d), NEW s \in Steps
          PROVE  /\ results'[s] = "skipped" => results[s] = "skipped" \/ s \in failureSkipped'
                 /\ s \in failureSkipped => s \in failureSkipped'
      BY <3>1, SMTT(60) DEF Visit, Dispatch
    <3> QED
      BY <1>3, <3>1, ZenonT(60) DEF Coordinator, Receive, Return
  <2> QED
    BY <2>1, <2>2 DEF CauseInv
<1>4. ASSUME NEW x \in Steps, StepGoroutine(x)
      PROVE  \A s \in Steps : results'[s] = "skipped" =>
                 s \in condFalse' \/ s \in failureSkipped' \/ cancelled'
  <2>1. resumes = 0 /\ failureSkipped' = failureSkipped /\ condFalse \subseteq condFalse'
    BY <1>4, Zenon DEF StepGoroutine, SkipOnCancel, SkipOnCondition, Announce, Start, Succeed, Suspend, AttemptError,
                RetryFires, RetryCancelled, FailFast, RecordFailure
  <2>2. cancelled => cancelled'
    <3>1. CASE FailFast(x)
      BY <3>1 DEF FailFast
    <3>2. CASE ~FailFast(x)
      <4>1. cancelled' = cancelled
        BY <1>4, <3>2, Zenon DEF StepGoroutine, SkipOnCancel, SkipOnCondition, Announce, Start, Succeed, Suspend,
                    AttemptError, RetryFires, RetryCancelled
      <4> QED
        BY <4>1
    <3> QED
      BY <3>1, <3>2
  <2>3. \A s \in Steps : results'[s] = "skipped" =>
            results[s] = "skipped" \/ s \in condFalse' \/ cancelled
    BY <1>4, <2>1, ZenonT(60) DEF StepGoroutine, SkipOnCancel, SkipOnCondition, Announce, Start, Succeed, Suspend, AttemptError,
                RetryFires, RetryCancelled, FailFast, RecordFailure, Finish, IInv, TypeOK
  <2> QED
    BY <2>1, <2>2, <2>3 DEF CauseInv
<1>5. CASE CallerCancel \/ ReaderStops \/ UNCHANGED vars
  BY <1>5 DEF CallerCancel, ReaderStops, state, vars, CauseInv
<1> QED
  BY <1>1, <1>2, <1>3, <1>4, <1>5 DEF Next

\* A first run whose context is not ended from outside reports success only if every step
\* ran successfully or was skipped by its own condition.
THEOREM FirstSuccessCorrect == Spec => []FirstSuccessMeansDone
<1>1. Init => CauseInv
  BY DEF Init, CauseInv, Empty
<1>2. IInv /\ CauseInv => FirstSuccessMeansDone
  <2> SUFFICES ASSUME IInv, CauseInv, resumes = 0, outcome = "success",
                      cancelled => \E s \in Steps : results[s] = "failed"
               PROVE  \A s \in Steps : results[s] = "success" \/ s \in condFalse
    BY DEF FirstSuccessMeansDone
  <2>1. phase = "returned" /\ suspendedStep = NoStep /\ failedStep = NoStep
    BY SMTT(60) DEF IInv, TypeOK, WitnessInv, Outcome
  <2>2. completed = Steps /\ \A s \in Steps : results[s] \in {"success", "skipped"}
    BY <2>1 DEF IInv, TypeOK, QuietInv, StepInv, WitnessInv, Final
  <2>3. ASSUME failureSkipped # {} PROVE FALSE
    <3>1. PICK s \in failureSkipped : After[s] \cap failureSkipped = {}
      BY <2>3, AcyclicAssumption DEF IInv, TypeOK
    <3>2. \E u \in After[s] : u \in Steps /\ Bad(u)
      BY <2>2, <3>1, StepsAssumption DEF IInv, TypeOK, OrderInv
    <3> QED
      BY <2>2, <3>1, <3>2, ZenonT(60) DEF Bad
  <2>4. ~cancelled
    BY <2>2
  <2> QED
    BY <2>2, <2>3, <2>4 DEF CauseInv
<1> QED
  BY <1>1, <1>2, CauseStep, Invariance, PTL DEF Spec

\* buildResult reports a suspension, a failure or a success as it happened.
THEOREM ReportCorrect == Spec => []OutcomeTruthful
<1>1. IInv /\ FirstSuccessMeansDone => OutcomeTruthful
  BY StepsAssumption DEF IInv, TypeOK, WitnessInv, Outcome, OutcomeTruthful
<1> QED
  BY <1>1, Invariance, FirstSuccessCorrect, PTL
=============================================================================
