---------------------------- MODULE MCIngestBatch ----------------------------
(* Instances of IngestBatch for TLC. *)
EXTENDS IngestBatch

\* Items 1 and 3 have the same name.
MCFilename == <<1, 2, 1>>
=============================================================================
