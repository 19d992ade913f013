-------------------------- MODULE MCRefundPipeline --------------------------
(* Small instances of RefundPipeline for TLC. *)
EXTENDS RefundPipeline, TLC
Interchangeable == Permutations(Workers) \cup Permutations(Users)
=============================================================================
