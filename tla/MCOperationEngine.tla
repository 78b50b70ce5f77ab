-------------------------- MODULE MCOperationEngine --------------------------
(* Instances of OperationEngine for TLC. *)
EXTENDS OperationEngine

\* Only the first step may be retried.
FirstIdempotent == {1}
=============================================================================
