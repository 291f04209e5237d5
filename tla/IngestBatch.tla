----------------------------- MODULE IngestBatch -----------------------------
(***************************************************************************)
(* IngestBatch and ResumeBatch (ingest/ingest_batch.go) over a store with  *)
(* checkpoints: items are ingested by up to Concurrency goroutines, the    *)
(* names of the finished ones are kept in a checkpoint, and a later call   *)
(* skips what the checkpoint names.  Nothing makes the names of the items  *)
(* different.  The process may crash between any two steps, and the        *)
(* context of a call may end; store operations under an ended context fail *)
(* (store/sqlite, store/postgres), and any save or deletion of the         *)
(* checkpoint may, of which the batch takes no notice.                     *)
(*                                                                         *)
(* saveBatchCheckpoint marshals completedIDs into bcp under mu, and passes *)
(* bcp by value to the store after it has unlocked mu: copy and write are  *)
(* steps of their own, so writes may overtake each other.  A copy made     *)
(* while another goroutine assigns bcp.BatchData may be torn; torn JSON    *)
(* does not decode and counts as a checkpoint that names no item.          *)
(***************************************************************************)
EXTENDS Naturals, FiniteSets

CONSTANTS
    N,           \* number of items
    Filename,    \* Filename[i]: the name of item i, as a number in 1..N
    Concurrency, \* the values ing.batchConcurrency may have
    MaxCalls     \* bound on the calls of IngestBatch and ResumeBatch

ASSUME BatchAssumption == /\ N \in Nat \ {0} /\ MaxCalls \in Nat
                          /\ Concurrency \subseteq Nat \ {0}
                          /\ Filename \in [1..N -> 1..N]

Items == 1..N
Names == 1..N
NoCheckpoint == {0}   \* differs from every set of names

VARIABLES
    concurrency,  \* ing.batchConcurrency
    docs,         \* store: how many documents an item has become
    ckpt,         \* store: NoCheckpoint, or the names in the batch checkpoint
    call,         \* "none" (not called, or crashed), "running" or "returned"
    calls,
    ctxEnded,
    skip,         \* completed: what the checkpoint named when the call began
    next, passed, \* the dispatch loop: next item; its context check has passed
    item,         \* where processItem stands with an item
    completedIDs, bcpData,
    copy,         \* of an item: the BatchData its save is about to write
    keeps,        \* result.Checkpoint # "" of the last call that returned
    flushed,      \* history: its last save or deletion has reached the store
    settled,      \* history: items whose save has reached the store
    disturbed     \* history: a crash, the end of a context or a lost save has happened

store  == <<docs, ckpt>>
memory == <<skip, next, passed, item, completedIDs, bcpData, copy>>
batch  == <<concurrency, call, calls, ctxEnded, keeps, flushed>>
past   == <<settled, disturbed>>
vars   == <<batch, store, memory, past>>

Stages == {"todo", "ingesting", "stored", "marked", "marshalled", "writing", "ok", "failed"}

Init == /\ concurrency \in Concurrency
        /\ docs = [i \in Items |-> 0] /\ ckpt = NoCheckpoint
        /\ call = "none" /\ calls = 0 /\ ctxEnded = FALSE
        /\ skip = {} /\ next = 1 /\ passed = FALSE
        /\ item = [i \in Items |-> "todo"]
        /\ completedIDs = {} /\ bcpData = {}
        /\ copy = [i \in Items |-> {}]
        /\ keeps = FALSE /\ flushed = FALSE /\ settled = {} /\ disturbed = FALSE

TypeOK == /\ concurrency \in Concurrency /\ disturbed \in BOOLEAN /\ flushed \in BOOLEAN
          /\ docs \in [Items -> 0..MaxCalls]
          /\ ckpt = NoCheckpoint \/ ckpt \in SUBSET Names
          /\ call \in {"none", "running", "returned"} /\ calls \in 0..MaxCalls
          /\ ctxEnded \in BOOLEAN /\ passed \in BOOLEAN /\ keeps \in BOOLEAN
          /\ skip \in SUBSET Names /\ completedIDs \in SUBSET Names /\ bcpData \in SUBSET Names
          /\ next \in 1..(N + 1)
          /\ item \in [Items -> Stages] /\ copy \in [Items -> SUBSET Names]
          /\ settled \in SUBSET Items

Active == {i \in Items : item[i] \notin {"todo", "ok", "failed"}}
Failed == {i \in Items : item[i] = "failed"}

-----------------------------------------------------------------------------
\* runBatch begins, with the names in done already completed.
Begin(done) ==
    /\ calls < MaxCalls /\ calls' = calls + 1
    /\ call' = "running"
    /\ skip' = done /\ completedIDs' = done /\ bcpData' = done
    /\ next' = 1 /\ passed' = FALSE
    /\ item' = [i \in Items |-> "todo"]
    /\ copy' = [i \in Items |-> {}]
    /\ UNCHANGED <<concurrency, docs, keeps, flushed, settled>>

\* The first call saves an empty checkpoint, if the store takes it.
StartBatch ==
    /\ calls = 0
    /\ \E ended, lost \in BOOLEAN :
         /\ ended => lost
         /\ ctxEnded' = ended /\ disturbed' = lost
         /\ ckpt' = IF lost THEN ckpt ELSE {}
    /\ Begin({})

\* ResumeBatch with the ID of a checkpoint that is in the store.
ResumeBatch ==
    /\ call # "running" /\ calls > 0 /\ ckpt # NoCheckpoint
    /\ ctxEnded' = FALSE
    /\ Begin(ckpt)
    /\ UNCHANGED <<ckpt, disturbed>>

\* Mutant: the loop runs one item too far.
CheckCtxTooFar ==
    /\ call = "running" /\ next <= N + 1 /\ ~passed
    /\ concurrency = 1 => Active = {}
    /\ passed' = ~ctxEnded
    /\ next' = IF ctxEnded THEN N + 1 ELSE next
    /\ UNCHANGED <<batch, store, past, skip, item, completedIDs, bcpData, copy>>

\* The dispatch loop: if ctx.Err() != nil { break }
CheckCtx ==
    /\ call = "running" /\ next <= N /\ ~passed
    /\ concurrency = 1 => Active = {}
    /\ passed' = ~ctxEnded
    /\ next' = IF ctxEnded THEN N + 1 ELSE next
    /\ UNCHANGED <<batch, store, past, skip, item, completedIDs, bcpData, copy>>

\* Mutant: the items of the previous call are not skipped.
SkippedNever(i) == FALSE

\* completed[item.Filename]
Skipped(i) == Filename[i] \in skip

\* The semaphore has room; processItem returns at once for a completed item.
StartItem ==
    /\ call = "running" /\ passed
    /\ Cardinality(Active) < concurrency
    /\ passed' = FALSE /\ next' = next + 1
    /\ item' = [item EXCEPT ![next] = IF Skipped(next) THEN "ok" ELSE "ingesting"]
    /\ UNCHANGED <<batch, store, past, skip, completedIDs, bcpData, copy>>

To(i, stage) == item' = [item EXCEPT ![i] = stage]

\* IngestFile up to and with StoreDocument.
StoreDocument(i) ==
    /\ item[i] = "ingesting" /\ ~ctxEnded
    /\ To(i, "stored")
    /\ docs' = [docs EXCEPT ![i] = @ + 1]
    /\ UNCHANGED <<batch, ckpt, past, skip, next, passed, completedIDs, bcpData, copy>>

\* Mutant: a failed item is entered as completed.
FailIsCompleted(i) ==
    /\ item[i] \in {"ingesting", "stored"}
    /\ To(i, "failed")
    /\ completedIDs' = completedIDs \cup {Filename[i]}
    /\ UNCHANGED <<batch, store, past, skip, next, passed, bcpData, copy>>

\* Mutant: the goroutine of a failed item keeps its place in the wait group.
FailNeverDone(i) ==
    /\ item[i] \in {"ingesting", "stored"}
    /\ To(i, "stuck")
    /\ UNCHANGED <<batch, store, past, skip, next, passed, completedIDs, bcpData, copy>>

\* IngestFile fails, possibly in graph extraction after the document is stored.
Fail(i) ==
    /\ item[i] \in {"ingesting", "stored"}
    /\ To(i, "failed")
    /\ UNCHANGED <<batch, store, past, skip, next, passed, completedIDs, bcpData, copy>>

\* processItem after success: completedIDs grows under mu.
Mark(i) ==
    /\ item[i] = "stored"
    /\ To(i, "marked")
    /\ completedIDs' = completedIDs \cup {Filename[i]}
    /\ UNCHANGED <<batch, store, past, skip, next, passed, bcpData, copy>>

\* saveBatchCheckpoint: the critical section.
Marshal(i) ==
    /\ item[i] = "marked"
    /\ To(i, "marshalled")
    /\ bcpData' = completedIDs
    /\ UNCHANGED <<batch, store, past, skip, next, passed, completedIDs, copy>>

\* bcp is copied for the call of saveCheckpoint, outside mu; another goroutine that
\* is at its assignment can tear the copy.
CopyBcp(i) ==
    /\ item[i] = "marshalled"
    /\ To(i, "writing")
    /\ \E data \in {bcpData} \cup {{} : j \in {j \in Items : item[j] = "marked"}} :
         copy' = [copy EXCEPT ![i] = data]
    /\ UNCHANGED <<batch, store, past, skip, next, passed, completedIDs, bcpData>>

\* SaveCheckpoint, an upsert, whose error is only logged; then the goroutine ends.
Write(i) ==
    /\ item[i] = "writing"
    /\ To(i, "ok")
    /\ \/ /\ ~ctxEnded
          /\ ckpt' = copy[i] /\ settled' = settled \cup {i}
          /\ UNCHANGED disturbed
       \/ disturbed' = TRUE /\ UNCHANGED <<ckpt, settled>>
    /\ copy' = [copy EXCEPT ![i] = {}]
    /\ UNCHANGED <<batch, docs, skip, next, passed, completedIDs, bcpData>>

\* Mutant: the checkpoint of a partial result is left as the last item saved it.
FlushDeletesOnly(reached) ==
    /\ bcpData' = bcpData
    /\ ckpt' = IF reached /\ Failed = {} THEN NoCheckpoint ELSE ckpt

\* The end of runBatch: without failures the checkpoint is deleted, otherwise it is
\* saved once more; the store takes it or not.
Flush(reached) ==
    /\ bcpData' = IF Failed = {} THEN bcpData ELSE completedIDs
    /\ ckpt' = IF ~reached THEN ckpt ELSE IF Failed = {} THEN NoCheckpoint ELSE completedIDs

\* Without failures the result names no checkpoint.
Finish ==
    /\ call = "running" /\ next = N + 1 /\ Active = {}
    /\ call' = "returned"
    /\ keeps' = (Failed # {})
    /\ \E reached \in BOOLEAN :
         /\ reached => ~ctxEnded
         /\ Flush(reached)
         /\ flushed' = reached /\ disturbed' = (disturbed \/ ~reached)
    /\ UNCHANGED <<concurrency, docs, calls, ctxEnded, settled, skip, next, passed, item, completedIDs, copy>>

EndCtx == /\ call = "running" /\ ~ctxEnded
          /\ ctxEnded' = TRUE /\ disturbed' = TRUE
          /\ UNCHANGED <<concurrency, store, memory, call, calls, keeps, flushed, settled>>

\* The process dies: only the store survives.
Crash == /\ call = "running"
         /\ call' = "none" /\ ctxEnded' = FALSE
         /\ skip' = {} /\ completedIDs' = {} /\ bcpData' = {}
         /\ next' = 1 /\ passed' = FALSE
         /\ item' = [i \in Items |-> "todo"] /\ copy' = [i \in Items |-> {}]
         /\ disturbed' = TRUE
         /\ UNCHANGED <<concurrency, store, calls, keeps, flushed, settled>>

Process(i) == StoreDocument(i) \/ Fail(i) \/ Mark(i) \/ Marshal(i) \/ CopyBcp(i) \/ Write(i)

Next == \/ StartBatch \/ ResumeBatch \/ CheckCtx \/ StartItem \/ Finish \/ EndCtx \/ Crash
        \/ \E i \in Items : Process(i)

\* The dispatch loop and the goroutines run.
Fairness == /\ WF_vars(CheckCtx) /\ WF_vars(StartItem) /\ WF_vars(Finish)
            /\ \A i \in Items : WF_vars(Process(i))

Spec     == Init /\ [][Next]_vars
FairSpec == Spec /\ Fairness
-----------------------------------------------------------------------------
Stored == {Filename[i] : i \in {i \in Items : docs[i] > 0}}

\* A checkpoint names only what some item of that name has been stored for: no resume,
\* after whatever crash, failure, lost or overtaking save, skips an item that was lost,
\* unless another item has the same name.
CheckpointTruthful == ckpt # NoCheckpoint => ckpt \subseteq Stored

\* A call that returns with failures, and whose last save reaches the store, leaves a
\* checkpoint that names exactly what is done, although the saves of its items may have
\* overtaken each other or got lost.
PartialIsExact == call = "returned" /\ keeps /\ flushed =>
                      ckpt = {Filename[i] : i \in Items \ Failed}

\* An item whose save has reached the store is never ingested again, whatever is
\* resumed, by a sequential batch; by a concurrent one, whose saves may overtake each
\* other, as long as no call was cut short and no save or deletion was lost.
NoReingest == [][concurrency = 1 \/ ~disturbed => \A i \in settled : docs'[i] = docs[i]]_vars

\* Every call returns: the semaphore and the wait group never block for ever.
CallReturns == (call = "running") ~> (call # "running")

\* "Delete batch checkpoint on full success; keep it for partial results.": a call
\* that has stored something names no checkpoint only when every item is done.
PartialKeepsCheckpoint == call = "returned" /\ ~keeps /\ (\E i \in Items : docs[i] > 0) =>
                              \A i \in Items : docs[i] > 0

\* "already done in a previous run": an item that is skipped has been stored.
SkippedWereDone == call = "running" => \A i \in Items : Skipped(i) => docs[i] > 0
=============================================================================
