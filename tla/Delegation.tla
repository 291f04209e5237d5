----------------------------- MODULE Delegation -----------------------------
(***************************************************************************)
(* Delegation inside one Execute run of a Network: the router's tool calls *)
(* are dispatched in batches by a pool of workers (agent/dispatch.go), each *)
(* goes through the run's delegationLedger (network/network.go), and runs  *)
(* the child under RestartOnFail (network/supervisor.go), its events being *)
(* forwarded to the parent's channel ch (agent/llm.go) when the run is     *)
(* streamed.                                                               *)
(*                                                                         *)
(* Of the conversation between the router and its LLM only the batches of  *)
(* calls are kept; a call is identified with the (agent, task) pair it     *)
(* asks for.  What happens to channels is kept exactly: a send on a closed *)
(* channel panics, a select with a closed channel and an ended context     *)
(* takes either, and only a panic below a recover is survived.             *)
(***************************************************************************)
EXTENDS Naturals, FiniteSets

CONSTANTS
    Calls,       \* the tool calls of the run
    Keys,        \* (agent, task) pairs
    KeyOf,       \* KeyOf[c]: what call c asks for
    BatchOf,     \* BatchOf[c]: the iteration, 1..Batches, whose response holds c
    Batches,
    MaxWorkers,  \* cfg.MaxParallelDispatch
    MaxRestarts, \* MaxRestarts[k]: RestartOnFail's maxRestarts for the agent of k
    Guarded      \* keys whose agent is under a CircuitBreaker

ASSUME DelegationAssumption ==
    /\ IsFiniteSet(Calls)
    /\ KeyOf \in [Calls -> Keys] /\ BatchOf \in [Calls -> 1..Batches]
    /\ Batches \in Nat /\ MaxWorkers \in Nat \ {0} /\ MaxRestarts \in [Keys -> Nat]
    /\ Guarded \subseteq Keys

VARIABLES
    streaming, \* is the run streamed (ch # nil)?
    batch,    \* current iteration; Batches + 1 when the loop is over
    ctxDone,  \* the run's context has ended
    chOpen,   \* the parent's channel is not closed
    crashed,  \* a panic outside every recover
    pc,       \* of a call: "queued", "starting", "running", "returned" or "done"
    out,      \* what the dispatch of a call gave
    result,   \* how the child returned: "none" yet, "ok", "error" or "panic"
    attempts, \* attempts of the child that have ended
    expired,  \* calls whose own deadline (childTimeout) has passed
    subCh,    \* of a call: "open", "closed" by the child, or "forced" (safeCloseSubCh)
    fwd,      \* its forwarder: "none", "fresh" (no event yet), "waiting", "holding",
              \* "draining" or "done"
    ledger    \* of a key: "absent", "inflight" or "done"

vars == <<streaming, batch, ctxDone, chOpen, crashed, pc, out, result, attempts, expired, subCh, fwd, ledger>>
run  == <<streaming, batch, ctxDone, chOpen, crashed>>
sub  == <<result, attempts, expired, subCh, fwd>>

Outs == {"none", "ok", "failed", "duplicate", "replayed", "cancelled", "panicked"}

Init == /\ streaming \in BOOLEAN
        /\ batch = 1 /\ ctxDone = FALSE /\ chOpen = TRUE /\ crashed = FALSE
        /\ pc = [c \in Calls |-> "queued"] /\ out = [c \in Calls |-> "none"]
        /\ result = [c \in Calls |-> "none"] /\ attempts = [c \in Calls |-> 0]
        /\ expired = {}
        /\ subCh = [c \in Calls |-> "open"] /\ fwd = [c \in Calls |-> "none"]
        /\ ledger = [k \in Keys |-> "absent"]

TypeOK == /\ batch \in 1..(Batches + 1)
          /\ {streaming, ctxDone, chOpen, crashed} \subseteq BOOLEAN
          /\ pc \in [Calls -> {"queued", "starting", "running", "returned", "done"}]
          /\ out \in [Calls -> Outs]
          /\ result \in [Calls -> {"none", "ok", "error", "panic"}]
          /\ \A c \in Calls : attempts[c] \in 0..(MaxRestarts[KeyOf[c]] + 1)
          /\ expired \in SUBSET Calls
          /\ subCh \in [Calls -> {"open", "closed", "forced"}]
          /\ fwd \in [Calls -> {"none", "fresh", "waiting", "holding", "draining", "done"}]
          /\ ledger \in [Keys -> {"absent", "inflight", "done"}]

Active(c) == pc[c] \in {"starting", "running", "returned"}
Ended(c)  == ctxDone \/ c \in expired          \* execCtx.Err() # nil

\* The only call of its response, which dispatchParallel runs inline.
Single(c) == \A d \in Calls : BatchOf[d] = BatchOf[c] => d = c

Finish(c, how) == /\ pc' = [pc EXCEPT ![c] = "done"]
                  /\ out' = [out EXCEPT ![c] = how]

-----------------------------------------------------------------------------
\* A worker of dispatchParallel takes the next call, which it refuses when the context
\* has ended; a single call is taken unseen.  dispatchAgent looks it up in the ledger
\* and enters it, all under ledger.mu.

\* Mutant: only completed delegations are looked at.
LedgerCheckDoneOnly(c) == IF ledger[KeyOf[c]] = "done" THEN "replayed" ELSE "none"

\* Mutant: a completed delegation is run again.
LedgerCheckInflightOnly(c) == IF ledger[KeyOf[c]] = "inflight" THEN "duplicate" ELSE "none"

LedgerCheck(c) == CASE ledger[KeyOf[c]] = "inflight" -> "duplicate"
                    [] ledger[KeyOf[c]] = "done"     -> "replayed"
                    [] ledger[KeyOf[c]] = "absent"   -> "none"

Take(c) ==
    /\ pc[c] = "queued" /\ BatchOf[c] = batch
    /\ Single(c) \/ Cardinality({d \in Calls : Active(d)}) < MaxWorkers
    /\ IF ctxDone /\ ~Single(c)
       THEN Finish(c, "cancelled") /\ UNCHANGED ledger
       ELSE IF LedgerCheck(c) # "none"
       THEN Finish(c, LedgerCheck(c)) /\ UNCHANGED ledger
       ELSE /\ pc' = [pc EXCEPT ![c] = "starting"]
            /\ ledger' = [ledger EXCEPT ![KeyOf[c]] = "inflight"]
            /\ UNCHANGED out
    /\ UNCHANGED <<run, sub>>

\* Mutant: failures stay in the ledger.
SettleKeepsFailed(c, failed) == ledger' = IF failed THEN ledger ELSE [ledger EXCEPT ![KeyOf[c]] = "done"]

\* settle: successes are kept for replay, failures are evicted.
Settle(c, failed) == ledger' = [ledger EXCEPT ![KeyOf[c]] = IF failed THEN "absent" ELSE "done"]

\* The agent-start event, then ExecuteAgent begins.
AgentStart(c) ==
    /\ pc[c] = "starting"
    /\ \/ /\ ~streaming \/ chOpen
          /\ pc' = [pc EXCEPT ![c] = "running"]
          /\ fwd' = [fwd EXCEPT ![c] = IF streaming THEN "fresh" ELSE "done"]
          /\ UNCHANGED <<out, ledger>>
       \/ /\ streaming /\ ctxDone
          /\ Finish(c, "failed") /\ Settle(c, TRUE) /\ UNCHANGED fwd
       \/ /\ streaming /\ ~chOpen                     \* recovered by safeDispatch
          /\ Finish(c, "panicked") /\ UNCHANGED <<ledger, fwd>>
    /\ UNCHANGED <<run, result, attempts, expired, subCh>>

-----------------------------------------------------------------------------
\* The child, under restartAgent.Execute.

\* Mutant: one attempt too many.
TriesAgainMore(c) == attempts[c] <= MaxRestarts[KeyOf[c]] /\ ~Ended(c)

TriesAgain(c) == attempts[c] < MaxRestarts[KeyOf[c]] /\ ~Ended(c)

\* Mutant: the recover leaves subCh open.
RecoverLeavesOpen(c, state) ==
    /\ pc' = [pc EXCEPT ![c] = "returned"]
    /\ result' = [result EXCEPT ![c] = "panic"]
    /\ UNCHANGED <<out, subCh>>

\* The recover of ExecuteAgent, subCh being in the given state at the panic: its
\* safeCloseSubCh has a sync.Once of its own, shared only with drainSubCh.  After a
\* close by the child it panics in turn, and the call is lost to safeDispatch, above
\* dispatchAgent.
Recover(c, state) ==
    IF streaming /\ state = "closed"
    THEN /\ Finish(c, "panicked")
         /\ subCh' = [subCh EXCEPT ![c] = state]
         /\ UNCHANGED result
    ELSE /\ pc' = [pc EXCEPT ![c] = "returned"]
         /\ result' = [result EXCEPT ![c] = "panic"]
         /\ subCh' = IF streaming THEN [subCh EXCEPT ![c] = "forced"] ELSE subCh
         /\ UNCHANGED out

\* The child returns an error: restartAgent tries again or returns it.
Errs(c, again) == /\ pc' = IF again THEN pc ELSE [pc EXCEPT ![c] = "returned"]
                  /\ result' = [result EXCEPT ![c] = "error"]
                  /\ UNCHANGED out

Attempt(c) == /\ pc[c] = "running"
              /\ attempts' = [attempts EXCEPT ![c] = @ + 1]
              /\ UNCHANGED <<run, expired, fwd, ledger>>

\* An attempt that runs to its end closes subCh, if it is still open; if an earlier
\* attempt or the drain timeout has closed it, a send or the close panics.
ChildEnds(c) ==
    /\ Attempt(c)
    /\ IF streaming /\ subCh[c] # "open"
       THEN Recover(c, subCh[c])
       ELSE /\ subCh' = IF streaming THEN [subCh EXCEPT ![c] = "closed"] ELSE subCh
            /\ \/ /\ pc' = [pc EXCEPT ![c] = "returned"]
                  /\ result' = [result EXCEPT ![c] = "ok"]
                  /\ UNCHANGED out
               \/ Errs(c, TriesAgain(c))

\* An error without a run, thus without an event, which leaves subCh as it is:
\* ErrCircuitOpen, from a breaker within or around the restarts, or a context that has
\* ended before the attempt or before its run-start event.
ChildRefused(c) ==
    /\ Attempt(c)
    /\ fwd[c] \in {"fresh", "done"} \/ subCh[c] # "open"
    /\ \/ KeyOf[c] \in Guarded /\ \E again \in {FALSE, TriesAgain(c)} : Errs(c, again)
       \/ Ended(c) /\ Errs(c, FALSE)
    /\ UNCHANGED subCh

\* The child panics, before or (in a scorer or middleware) after it has closed subCh.
ChildPanics(c) ==
    /\ Attempt(c)
    /\ \E state \in {subCh[c]} \cup {s \in {"closed"} : subCh[c] = "open"} : Recover(c, state)

ChildTimeout(c) ==
    /\ pc[c] \in {"running", "returned"} /\ c \notin expired
    /\ expired' = expired \cup {c}
    /\ UNCHANGED <<run, pc, out, result, attempts, subCh, fwd, ledger>>

-----------------------------------------------------------------------------
\* The forwarder goroutine of a streamed child.

SetFwd(c, s) == /\ fwd' = [fwd EXCEPT ![c] = s]
                /\ UNCHANGED <<streaming, batch, ctxDone, chOpen, pc, out, result, attempts, expired, ledger>>

\* An event of the child is at hand; buffered ones outlive the close of subCh.
Receive(c) == /\ fwd[c] \in {"fresh", "waiting"} /\ (subCh[c] = "open" => pc[c] = "running")
              /\ SetFwd(c, "holding") /\ UNCHANGED <<crashed, subCh>>

\* select { ch <- ev; <-ctx.Done() }: a closed ch brings the process down.
Forward(c) ==
    /\ fwd[c] = "holding"
    /\ \/ chOpen /\ SetFwd(c, "waiting") /\ UNCHANGED <<crashed, subCh>>
       \/ Ended(c) /\ SetFwd(c, "draining") /\ UNCHANGED <<crashed, subCh>>
       \/ ~chOpen /\ crashed' = TRUE /\ SetFwd(c, "done") /\ UNCHANGED subCh

\* subCh is closed and empty.
ForwarderEnds(c) == /\ fwd[c] \in {"fresh", "waiting", "draining"} /\ subCh[c] # "open"
                    /\ SetFwd(c, "done") /\ UNCHANGED <<crashed, subCh>>

\* drainSubCh gives up after 60 seconds and closes subCh itself.
DrainTimeout(c) == /\ fwd[c] = "draining" /\ subCh[c] = "open"
                   /\ SetFwd(c, "done") /\ subCh' = [subCh EXCEPT ![c] = "forced"]
                   /\ UNCHANGED crashed


\* <-done, the agent-finish event, settle and the result of dispatchAgent.
AgentFinish(c) ==
    /\ pc[c] = "returned" /\ fwd[c] = "done"
    /\ \/ /\ ~streaming \/ chOpen \/ ctxDone
          /\ Settle(c, result[c] # "ok")
          /\ Finish(c, IF result[c] = "ok" THEN "ok" ELSE "failed")
       \/ /\ streaming /\ ~chOpen                     \* recovered by safeDispatch
          /\ Finish(c, "panicked") /\ UNCHANGED ledger
    /\ UNCHANGED <<run, sub>>

-----------------------------------------------------------------------------
\* The router's loop.

\* dispatchParallel has all results; the next iteration follows, and after the last
\* one finalizeRun closes ch.
Collect ==
    /\ batch <= Batches
    /\ \A c \in Calls : BatchOf[c] = batch => pc[c] = "done"
    /\ batch' = batch + 1
    /\ chOpen' = (chOpen /\ batch < Batches)
    /\ UNCHANGED <<streaming, ctxDone, crashed, pc, out, sub, ledger>>

\* dispatchParallel returns early, unless it runs a single call; the next LLM call fails
\* and the run is finalized.  The workers go on.
CollectCancelled ==
    /\ ctxDone /\ batch <= Batches
    /\ \A c \in Calls : BatchOf[c] = batch /\ Single(c) => ~Active(c)
    /\ batch' = Batches + 1
    /\ chOpen' = FALSE
    /\ UNCHANGED <<streaming, ctxDone, crashed, pc, out, sub, ledger>>

CtxEnd ==
    /\ ~ctxDone
    /\ ctxDone' = TRUE
    /\ UNCHANGED <<streaming, batch, chOpen, crashed, pc, out, sub, ledger>>

Child(c)     == ChildEnds(c) \/ ChildRefused(c) \/ ChildPanics(c)
Forwarder(c) == Receive(c) \/ Forward(c) \/ ForwarderEnds(c) \/ DrainTimeout(c)
Worker(c)    == Take(c) \/ AgentStart(c) \/ AgentFinish(c)

Next == /\ ~crashed
        /\ \/ Collect \/ CollectCancelled \/ CtxEnd
           \/ \E c \in Calls : Worker(c) \/ Child(c) \/ ChildTimeout(c) \/ Forwarder(c)

\* Goroutines run, children return; a forwarder with an event and a closed subCh is
\* not fed for ever.
Fairness == /\ WF_vars(~crashed /\ Collect)
            /\ \A c \in Calls : /\ WF_vars(~crashed /\ Worker(c)) /\ WF_vars(~crashed /\ Child(c))
                                /\ WF_vars(~crashed /\ Forward(c)) /\ SF_vars(~crashed /\ ForwarderEnds(c))

Spec     == Init /\ [][Next]_vars
FairSpec == Spec /\ Fairness
-----------------------------------------------------------------------------
\* The ledger: no two children run the same task of the same agent at a time.
OneRunner == \A c, d \in Calls : c # d /\ Active(c) /\ Active(d) => KeyOf[c] # KeyOf[d]

\* The ledger: a task that has succeeded is not run again in this Execute.
SucceedsOnce == \A c, d \in Calls : c # d /\ out[c] = "ok" /\ out[d] = "ok" => KeyOf[c] # KeyOf[d]

\* A replay repeats a result that some call of this run really produced.
ReplayHasSource == \A c \in Calls : out[c] = "replayed" =>
                       \E d \in Calls : out[d] = "ok" /\ KeyOf[d] = KeyOf[c]

\* "Failed delegations are evicted so the router may retry them": a key is in flight
\* only while a call is at it; the exception are calls lost to a panic, whose key stays
\* in flight for the rest of the run.
InflightIsOwned == \A k \in Keys : ledger[k] = "inflight" =>
    \E c \in Calls : KeyOf[c] = k /\ (Active(c) \/ out[c] = "panicked")


\* safeDispatch and ExecuteAgent: no panic of a delegation ends the process.
NoCrash == ~crashed

\* The child was refused and nobody closes subCh: <-done waits for the forwarder, and
\* the forwarder for subCh.
Abandoned(c) == streaming /\ pc[c] = "returned" /\ result[c] = "error" /\ subCh[c] = "open"

\* Every run ends, and no worker, child or forwarder waits for ever, unless a child was
\* refused on a stream, by its breaker or by an ended context.
RunEnds == <>[](batch = Batches + 1 \/ crashed \/ \E c \in Calls : Abandoned(c))
=============================================================================
