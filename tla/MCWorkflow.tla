----------------------------- MODULE MCWorkflow -----------------------------
(* Instances of Workflow for TLC: small graphs. *)
EXTENDS Workflow, TLC

CONSTANTS a, b, c, d, e

\* Two roots: c joins a and b, d follows a, e joins c and d.
JoinAfter == (a :> {}) @@ (b :> {}) @@ (c :> {a, b}) @@ (d :> {a}) @@ (e :> {c, d})

\* Three roots, joined by d.
ForkAfter == (a :> {}) @@ (b :> {}) @@ (c :> {}) @@ (d :> {a, b, c})

\* b may be tried twice, the others once.
RetryB == [s \in Steps |-> IF s = b THEN 1 ELSE 0]
=============================================================================
