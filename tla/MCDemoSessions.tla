--------------------------- MODULE MCDemoSessions ---------------------------
EXTENDS DemoSessions, TLC
Interchangeable == Permutations(Slots) \cup Permutations(Tokens) \cup Permutations(Users)
=============================================================================
