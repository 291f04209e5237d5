-------------------------- MODULE IngestBatch_proofs --------------------------
(***************************************************************************)
(* The checkpoint of a batch names only what was stored: proved for every  *)
(* number and naming of the items, every number of goroutines, calls,      *)
(* crashes and lost saves.                                                 *)
(*                                                                         *)
(* The name of an item travels from its goroutine to completedIDs, bcp,    *)
(* the copy that is written, the store and the next call.  The             *)
(* strengthening says that every place on that way holds only names under  *)
(* which a document was stored.                                            *)
(***************************************************************************)
EXTENDS IngestBatch, TLAPS

Types == /\ docs \in [Items -> Nat]
         /\ item \in [Items -> Stages]
         /\ copy \in [Items -> SUBSET Names]

\* All that may name a completed item, and the documents behind it.
NamesDone == /\ ckpt # NoCheckpoint => ckpt \subseteq Stored
             /\ completedIDs \subseteq Stored /\ bcpData \subseteq Stored
             /\ skip \subseteq Stored
             /\ \A i \in Items : copy[i] \subseteq Stored
             /\ \A i \in Items : item[i] = "stored" => docs[i] > 0

IInv == Types /\ NamesDone

\* A step that stores nothing keeps the names with a document.
LEMMA SameStored == ASSUME docs' = docs PROVE Stored' = Stored
BY DEF Stored

LEMMA StoredNames == Stored \subseteq Names
BY BatchAssumption DEF Stored, Items, Names

LEMMA Step == ASSUME IInv, [Next]_vars PROVE IInv'
<1> USE DEF IInv
<1>1. ASSUME NEW done \in SUBSET Stored, Begin(done), (ckpt' = ckpt \/ ckpt' = {}) PROVE IInv'
  <2>1. Stored' = Stored BY <1>1, SameStored DEF Begin
  <2>2. Types' BY <1>1 DEF Begin, Types, Stages
  <2>3. /\ completedIDs' = done /\ bcpData' = done /\ skip' = done /\ docs' = docs
        /\ copy' = [i \in Items |-> {}] /\ item' = [i \in Items |-> "todo"]
    BY <1>1 DEF Begin
  <2>4. NamesDone' BY <1>1, <2>1, <2>3 DEF NamesDone
  <2> QED BY <2>2, <2>4
<1>2. CASE StartBatch
  <2>1. ckpt' = ckpt \/ ckpt' = {} BY <1>2 DEF StartBatch
  <2>2. {} \in SUBSET Stored OBVIOUS
  <2> QED BY <1>1, <1>2, <2>1, <2>2 DEF StartBatch
<1>3. CASE ResumeBatch
  <2>1. ckpt \in SUBSET Stored BY <1>3 DEF ResumeBatch, NamesDone
  <2> QED BY <1>1, <1>3, <2>1 DEF ResumeBatch
<1>4. CASE CheckCtx \/ EndCtx \/ UNCHANGED vars
  <2>1. UNCHANGED <<store, item, skip, completedIDs, bcpData, copy>>
    BY <1>4 DEF CheckCtx, EndCtx, vars, memory
  <2>2. Stored' = Stored BY <2>1, SameStored DEF store
  <2> QED BY <2>1, <2>2 DEF Types, NamesDone, store
<1>5. CASE StartItem
  <2>1. UNCHANGED <<store, skip, completedIDs, bcpData, copy>> BY <1>5 DEF StartItem
  <2>2. Stored' = Stored BY <2>1, SameStored DEF store
  <2>3. PICK s \in {"ok", "ingesting"} : item' = [item EXCEPT ![next] = s]
    BY <1>5 DEF StartItem
  <2>4. Types' BY <2>1, <2>3 DEF Types, Stages, store
  <2>5. \A j \in Items : item'[j] = "stored" => item[j] = "stored"
    BY <2>3 DEF Types
  <2> QED BY <2>1, <2>2, <2>4, <2>5 DEF NamesDone, store
<1>6. ASSUME NEW i \in Items, StoreDocument(i) PROVE IInv'
  <2>1. /\ docs' = [docs EXCEPT ![i] = @ + 1] /\ item' = [item EXCEPT ![i] = "stored"]
        /\ UNCHANGED <<ckpt, skip, completedIDs, bcpData, copy>>
    BY <1>6 DEF StoreDocument, To
  <2>2. Types' BY <2>1 DEF Types, Stages
  <2>3. \A j \in Items : docs[j] > 0 => docs'[j] > 0 BY <2>1 DEF Types
  <2>4. docs'[i] > 0 BY <2>1 DEF Types
  <2>5. Stored \subseteq Stored' BY <2>3 DEF Stored
  <2>6. \A j \in Items : item'[j] = "stored" => docs'[j] > 0
    BY <2>1, <2>3, <2>4 DEF Types, NamesDone
  <2> QED BY <2>1, <2>2, <2>5, <2>6 DEF NamesDone
<1>7. ASSUME NEW i \in Items, NEW s \in Stages \ {"stored"}, To(i, s), docs' = docs
      PROVE  /\ item' \in [Items -> Stages] /\ Stored' = Stored
             /\ \A j \in Items : item'[j] = "stored" => docs'[j] > 0
  <2>1. Stored' = Stored BY <1>7, SameStored
  <2> QED BY <1>7, <2>1 DEF To, Types, NamesDone
<1>8. ASSUME NEW i \in Items, Fail(i) PROVE IInv'
  <2>1. To(i, "failed") /\ UNCHANGED <<docs, ckpt, skip, completedIDs, bcpData, copy>>
    BY <1>8 DEF Fail, store
  <2>2. "failed" \in Stages \ {"stored"} BY DEF Stages
  <2> QED BY <1>7, <2>1, <2>2 DEF Types, NamesDone
<1>9. ASSUME NEW i \in Items, Mark(i) PROVE IInv'
  <2>1. /\ To(i, "marked") /\ completedIDs' = completedIDs \cup {Filename[i]}
        /\ item[i] = "stored" /\ UNCHANGED <<docs, ckpt, skip, bcpData, copy>>
    BY <1>9 DEF Mark, store
  <2>2. "marked" \in Stages \ {"stored"} BY DEF Stages
  <2>3. Filename[i] \in Stored BY <2>1 DEF NamesDone, Stored
  <2> QED BY <1>7, <2>1, <2>2, <2>3 DEF Types, NamesDone
<1>10. ASSUME NEW i \in Items, Marshal(i) PROVE IInv'
  <2>1. /\ To(i, "marshalled") /\ bcpData' = completedIDs
        /\ UNCHANGED <<docs, ckpt, skip, completedIDs, copy>>
    BY <1>10 DEF Marshal, store
  <2>2. "marshalled" \in Stages \ {"stored"} BY DEF Stages
  <2> QED BY <1>7, <2>1, <2>2 DEF Types, NamesDone
<1>11. ASSUME NEW i \in Items, CopyBcp(i) PROVE IInv'
  <2>1. PICK data \in {bcpData, {}} : copy' = [copy EXCEPT ![i] = data]
    BY <1>11 DEF CopyBcp
  <2>2. To(i, "writing") /\ UNCHANGED <<docs, ckpt, skip, completedIDs, bcpData>>
    BY <1>11 DEF CopyBcp, store
  <2>3. "writing" \in Stages \ {"stored"} BY DEF Stages
  <2>4. data \subseteq Stored /\ data \subseteq Names BY StoredNames DEF NamesDone
  <2>5. copy' \in [Items -> SUBSET Names] /\ \A j \in Items : copy'[j] \subseteq Stored
    BY <2>1, <2>4 DEF Types, NamesDone
  <2> QED BY <1>7, <2>2, <2>3, <2>5 DEF Types, NamesDone
<1>12. ASSUME NEW i \in Items, Write(i) PROVE IInv'
  <2>1. /\ To(i, "ok") /\ (ckpt' = ckpt \/ ckpt' = copy[i])
        /\ copy' = [copy EXCEPT ![i] = {}] /\ UNCHANGED <<docs, skip, completedIDs, bcpData>>
    BY <1>12 DEF Write
  <2>2. "ok" \in Stages \ {"stored"} BY DEF Stages
  <2>3. copy' \in [Items -> SUBSET Names] /\ \A j \in Items : copy'[j] \subseteq Stored
    BY <2>1 DEF Types, NamesDone
  <2> QED BY <1>7, <2>1, <2>2, <2>3 DEF Types, NamesDone
<1>13. CASE Finish
  <2>1. /\ bcpData' \in {bcpData, completedIDs} /\ ckpt' \in {ckpt, NoCheckpoint, completedIDs}
        /\ UNCHANGED <<docs, skip, item, completedIDs, copy>>
    BY <1>13 DEF Finish, Flush
  <2>2. Stored' = Stored BY <2>1, SameStored
  <2> QED BY <2>1, <2>2 DEF Types, NamesDone
<1>14. CASE Crash
  <2>1. /\ item' = [i \in Items |-> "todo"] /\ copy' = [i \in Items |-> {}]
        /\ skip' = {} /\ completedIDs' = {} /\ bcpData' = {} /\ UNCHANGED <<docs, ckpt>>
    BY <1>14 DEF Crash, store
  <2>2. Stored' = Stored BY <2>1, SameStored
  <2>3. Types' BY <2>1 DEF Types, Stages
  <2> QED BY <2>1, <2>2, <2>3 DEF NamesDone
<1> QED
  BY <1>2, <1>3, <1>4, <1>5, <1>6, <1>8, <1>9, <1>10, <1>11, <1>12, <1>13, <1>14
  DEF Next, Process

LEMMA Invariance == Spec => []IInv
<1>1. Init => IInv
  BY DEF Init, IInv, Types, NamesDone, Stages, NoCheckpoint
<1>2. IInv /\ [Next]_vars => IInv' BY Step
<1> QED BY <1>1, <1>2, PTL DEF Spec

\* No checkpoint in the store ever holds a name under which nothing was stored, for any
\* number and naming of items, goroutines, resumed calls, crashes and lost saves.
THEOREM NamesStored == Spec => []CheckpointTruthful
<1>1. IInv => CheckpointTruthful BY DEF IInv, NamesDone, CheckpointTruthful
<1> QED BY <1>1, Invariance, PTL

\* If no two items have the same name, runBatch skips ("already done in a previous run")
\* only items that have a document: no resumed call loses one.
THEOREM NothingSkipped ==
    ASSUME \A i, j \in Items : Filename[i] = Filename[j] => i = j
    PROVE  Spec => []SkippedWereDone
<1>1. IInv => SkippedWereDone BY DEF IInv, NamesDone, SkippedWereDone, Skipped, Stored
<1> QED BY <1>1, Invariance, PTL
=============================================================================
