--------------------------- MODULE MCIdempotency ----------------------------
EXTENDS Idempotency, TLC
Interchangeable == Permutations(Slots) \cup Permutations(Flows)
=============================================================================
