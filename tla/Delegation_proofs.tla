-------------------------- MODULE Delegation_proofs --------------------------
(***************************************************************************)
(* The delegation ledger for any number of calls, tasks, iterations and    *)
(* workers, streamed or not, whatever children, contexts and channels do.  *)
(* The argument: a call at work has its key in flight, a key in flight is  *)
(* entered by nobody else, and a key is done exactly when some call of the *)
(* run has succeeded with it.                                              *)
(***************************************************************************)
EXTENDS Delegation, TLAPS

Types == /\ pc \in [Calls -> {"queued", "starting", "running", "returned", "done"}]
         /\ out \in [Calls -> Outs]
         /\ ledger \in [Keys -> {"absent", "inflight", "done"}]

\* A call at work owns its key; only a call that is through has an outcome.
OwnInv == \A c \in Calls : /\ Active(c) => ledger[KeyOf[c]] = "inflight"
                           /\ pc[c] # "done" => out[c] = "none"

DoneInv == /\ \A k \in Keys : ledger[k] = "done" => \E c \in Calls : out[c] = "ok" /\ KeyOf[c] = k
           /\ \A c \in Calls : out[c] = "ok" => ledger[KeyOf[c]] = "done"

IInv == Types /\ OwnInv /\ DoneInv /\ OneRunner /\ SucceedsOnce /\ ReplayHasSource
-----------------------------------------------------------------------------
LEMMA InitInv == Init => IInv
<1> SUFFICES ASSUME Init PROVE IInv
  OBVIOUS
<1>1. Types /\ OwnInv /\ DoneInv
  BY DelegationAssumption DEF Init, Types, Outs, OwnInv, Active, DoneInv
<1>2. OneRunner /\ SucceedsOnce /\ ReplayHasSource
  BY DEF Init, Active, OneRunner, SucceedsOnce, ReplayHasSource
<1> QED
  BY <1>1, <1>2 DEF IInv

\* A call that was not done finishes without success; its key keeps its entry, or,
\* if the call owned it, is evicted.
LEMMA FinishInv ==
    ASSUME IInv, NEW c \in Calls, NEW how \in Outs \ {"ok"}, Finish(c, how), pc[c] # "done",
           \/ ledger' = ledger
           \/ Active(c) /\ ledger' = [ledger EXCEPT ![KeyOf[c]] = "absent"],
           how = "replayed" => ledger[KeyOf[c]] = "done"
    PROVE  IInv'
<1>1. KeyOf[c] \in Keys /\ \A d \in Calls : KeyOf[d] \in Keys
  BY DelegationAssumption
<1>2. /\ pc' = [pc EXCEPT ![c] = "done"] /\ out' = [out EXCEPT ![c] = how]
      /\ out[c] = "none"
  BY DEF Finish, IInv, OwnInv
<1>3. Types'
  BY <1>1, <1>2 DEF IInv, Types
<1>4. \A d \in Calls : out'[d] = "ok" <=> out[d] = "ok"
  BY <1>2 DEF IInv, Types
<1>5. \A d \in Calls : Active(d)' => d # c /\ Active(d) /\ pc'[d] = pc[d]
  BY <1>2 DEF IInv, Types, Active
<1>6. OneRunner' /\ SucceedsOnce'
  BY <1>4, <1>5 DEF IInv, OneRunner, SucceedsOnce
<1>7. OwnInv'
  BY <1>1, <1>2, <1>5 DEF IInv, Types, OwnInv, OneRunner
<1>8. DoneInv'
  BY <1>1, <1>4 DEF IInv, Types, OwnInv, DoneInv
<1>9. ReplayHasSource'
  <2> SUFFICES ASSUME NEW d \in Calls, out'[d] = "replayed"
               PROVE  \E e \in Calls : out'[e] = "ok" /\ KeyOf[e] = KeyOf[d]
    BY DEF ReplayHasSource
  <2>1. \E e \in Calls : out[e] = "ok" /\ KeyOf[e] = KeyOf[d]
    <3>1. CASE d = c
      BY <1>1, <1>2, <3>1 DEF IInv, Types, DoneInv
    <3>2. CASE d # c
      BY <1>2, <3>2 DEF IInv, Types, ReplayHasSource
    <3> QED
      BY <3>1, <3>2
  <2> QED
    BY <1>4, <2>1
<1> QED
  BY <1>3, <1>6, <1>7, <1>8, <1>9 DEF IInv

\* A child's success enters the ledger.
LEMMA SuccessInv ==
    ASSUME IInv, NEW c \in Calls, Finish(c, "ok"), Active(c), Settle(c, FALSE)
    PROVE  IInv'
<1>1. KeyOf[c] \in Keys /\ \A d \in Calls : KeyOf[d] \in Keys
  BY DelegationAssumption
<1>2. /\ pc' = [pc EXCEPT ![c] = "done"] /\ out' = [out EXCEPT ![c] = "ok"]
      /\ ledger' = [ledger EXCEPT ![KeyOf[c]] = "done"]
      /\ out[c] = "none" /\ ledger[KeyOf[c]] = "inflight"
  BY DEF Finish, Settle, IInv, OwnInv, Active
<1>3. Types'
  BY <1>1, <1>2 DEF IInv, Types, Outs
<1>4. \A d \in Calls : out'[d] = "ok" <=> d = c \/ out[d] = "ok"
  BY <1>2 DEF IInv, Types
<1>5. \A d \in Calls : Active(d)' => d # c /\ Active(d) /\ pc'[d] = pc[d]
  BY <1>2 DEF IInv, Types, Active
<1>6. OneRunner' /\ OwnInv'
  BY <1>1, <1>2, <1>5 DEF IInv, Types, OwnInv, OneRunner
<1>7. SucceedsOnce'
  BY <1>2, <1>4 DEF IInv, DoneInv, SucceedsOnce
<1>8. DoneInv'
  BY <1>1, <1>2, <1>4 DEF IInv, Types, DoneInv
<1>9. ReplayHasSource'
  BY <1>2, <1>4 DEF IInv, Types, ReplayHasSource
<1> QED
  BY <1>3, <1>6, <1>7, <1>8, <1>9 DEF IInv

\* A call at work moves on.
LEMMA MoveInv ==
    ASSUME IInv, NEW c \in Calls, Active(c), NEW where \in {"running", "returned"},
           pc' = [pc EXCEPT ![c] = where] \/ pc' = pc, UNCHANGED <<out, ledger>>
    PROVE  IInv'
<1>1. Types' /\ \A d \in Calls : (Active(d)' <=> Active(d)) /\ (pc'[d] = "done" <=> pc[d] = "done")
  BY DEF IInv, Types, Active
<1> QED
  BY <1>1 DEF IInv, OwnInv, DoneInv, OneRunner, SucceedsOnce, ReplayHasSource

LEMMA QuietInv == ASSUME IInv, UNCHANGED <<pc, out, ledger>> PROVE IInv'
  BY DEF IInv, Types, OwnInv, Active, DoneInv, OneRunner, SucceedsOnce, ReplayHasSource

LEMMA TakeInv == ASSUME IInv, NEW c \in Calls, Take(c) PROVE IInv'
<1>1. KeyOf[c] \in Keys /\ \A d \in Calls : KeyOf[d] \in Keys
  BY DelegationAssumption
<1>2. ledger[KeyOf[c]] \in {"absent", "inflight", "done"}
  BY <1>1 DEF IInv, Types
<1>3. CASE ctxDone /\ ~Single(c)
  BY <1>3, FinishInv DEF Take, Outs
<1>4. CASE ~(ctxDone /\ ~Single(c)) /\ ledger[KeyOf[c]] = "inflight"
  BY <1>4, FinishInv DEF Take, LedgerCheck, Outs
<1>5. CASE ~(ctxDone /\ ~Single(c)) /\ ledger[KeyOf[c]] = "done"
  BY <1>5, FinishInv DEF Take, LedgerCheck, Outs
<1>6. CASE ~(ctxDone /\ ~Single(c)) /\ ledger[KeyOf[c]] = "absent"
  <2>1. /\ pc' = [pc EXCEPT ![c] = "starting"] /\ out' = out /\ pc[c] = "queued"
        /\ ledger' = [ledger EXCEPT ![KeyOf[c]] = "inflight"]
    BY <1>6 DEF Take, LedgerCheck
  <2>2. Types'
    BY <1>1, <2>1 DEF IInv, Types
  <2>3. \A d \in Calls : Active(d)' <=> d = c \/ Active(d)
    BY <2>1 DEF IInv, Types, Active
  <2>4. \A d \in Calls : Active(d) => KeyOf[d] # KeyOf[c]
    BY <1>6 DEF IInv, OwnInv
  <2>5. OneRunner'
    BY <2>3, <2>4 DEF IInv, OneRunner
  <2>6. OwnInv'
    BY <1>1, <2>1, <2>3 DEF IInv, Types, OwnInv
  <2>7. DoneInv' /\ SucceedsOnce' /\ ReplayHasSource'
    BY <1>1, <1>6, <2>1 DEF IInv, Types, DoneInv, SucceedsOnce, ReplayHasSource
  <2> QED
    BY <2>2, <2>5, <2>6, <2>7 DEF IInv
<1> QED
  BY <1>2, <1>3, <1>4, <1>5, <1>6

LEMMA NextInv == IInv /\ [Next]_vars => IInv'
<1> SUFFICES ASSUME IInv, [Next]_vars PROVE IInv'
  OBVIOUS
<1>1. ASSUME NEW c \in Calls, AgentStart(c) PROVE IInv'
  <2>1. Active(c) /\ pc[c] # "done"
    BY <1>1 DEF AgentStart, Active
  <2>2. CASE pc' = [pc EXCEPT ![c] = "running"] /\ UNCHANGED <<out, ledger>>
    BY <2>1, <2>2, MoveInv
  <2>3. CASE Finish(c, "failed") /\ Settle(c, TRUE)
    BY <2>1, <2>3, FinishInv DEF Settle, Outs
  <2>4. CASE Finish(c, "panicked") /\ UNCHANGED ledger
    BY <2>1, <2>4, FinishInv DEF Outs
  <2> QED
    BY <1>1, <2>2, <2>3, <2>4 DEF AgentStart
<1>2. ASSUME NEW c \in Calls, AgentFinish(c) PROVE IInv'
  <2>1. Active(c) /\ pc[c] # "done"
    BY <1>2 DEF AgentFinish, Active
  <2>2. CASE Finish(c, "panicked") /\ UNCHANGED ledger
    BY <2>1, <2>2, FinishInv DEF Outs
  <2>3. CASE result[c] = "ok" /\ Settle(c, FALSE) /\ Finish(c, "ok")
    BY <2>1, <2>3, SuccessInv
  <2>4. CASE result[c] # "ok" /\ Settle(c, TRUE) /\ Finish(c, "failed")
    BY <2>1, <2>4, FinishInv DEF Settle, Outs
  <2> QED
    BY <1>2, <2>2, <2>3, <2>4 DEF AgentFinish
<1>3. ASSUME NEW c \in Calls, Child(c) PROVE IInv'
  <2>1. Active(c) /\ pc[c] # "done" /\ ledger' = ledger
    BY <1>3 DEF Child, ChildEnds, ChildRefused, ChildPanics, Attempt, Active
  <2>2. CASE (pc' = [pc EXCEPT ![c] = "returned"] \/ pc' = pc) /\ out' = out
    BY <2>1, <2>2, MoveInv
  <2>3. CASE Finish(c, "panicked")
    BY <2>1, <2>3, FinishInv DEF Outs
  <2>4. ASSUME NEW state, Recover(c, state) PROVE IInv'
    BY <2>2, <2>3, <2>4 DEF Recover
  <2>5. ASSUME NEW again, Errs(c, again) PROVE IInv'
    BY <2>2, <2>5 DEF Errs
  <2>6. CASE ChildEnds(c)
    BY <2>2, <2>4, <2>5, <2>6 DEF ChildEnds
  <2>7. CASE ChildRefused(c)
    BY <2>5, <2>7 DEF ChildRefused
  <2>8. CASE ChildPanics(c)
    BY <2>4, <2>8 DEF ChildPanics
  <2> QED
    BY <1>3, <2>6, <2>7, <2>8 DEF Child
<1>4. ASSUME NEW c \in Calls, Forwarder(c) \/ ChildTimeout(c) PROVE IInv'
  BY <1>4, QuietInv DEF Forwarder, Receive, Forward, ForwarderEnds, DrainTimeout, SetFwd, ChildTimeout
<1>5. CASE Collect \/ CollectCancelled \/ CtxEnd \/ UNCHANGED vars
  BY <1>5, QuietInv DEF Collect, CollectCancelled, CtxEnd, vars
<1> QED
  BY <1>1, <1>2, <1>3, <1>4, <1>5, TakeInv DEF Next, Worker
-----------------------------------------------------------------------------
THEOREM Invariance == Spec => []IInv
  BY InitInv, NextInv, PTL DEF Spec

\* The ledger admits one runner per (agent, task), in every interleaving.
THEOREM ExclusiveDelegation == Spec => []OneRunner
<1>1. IInv => OneRunner
  BY DEF IInv
<1> QED
  BY <1>1, Invariance, PTL

\* No task of a run succeeds twice.
THEOREM SingleSuccess == Spec => []SucceedsOnce
<1>1. IInv => SucceedsOnce
  BY DEF IInv
<1> QED
  BY <1>1, Invariance, PTL

\* What the ledger replays was really produced in this run.
THEOREM ReplayFaithful == Spec => []ReplayHasSource
<1>1. IInv => ReplayHasSource
  BY DEF IInv
<1> QED
  BY <1>1, Invariance, PTL
=============================================================================
