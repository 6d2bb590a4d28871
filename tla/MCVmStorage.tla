---------------------------- MODULE MCVmStorage ----------------------------
EXTENDS VmStorage, TLC
Symm == Permutations(Names) \cup Permutations(Threads) \cup Permutations(Uuids)
=============================================================================
