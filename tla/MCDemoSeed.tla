----------------------------- MODULE MCDemoSeed -----------------------------
(* A small instance of DemoSeed for TLC. *)
EXTENDS DemoSeed

\* The sample the workflow delivers too and the one that is refunded for real.
SomeSamples == <<"intake", "normal">>
=============================================================================
