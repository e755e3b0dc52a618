--------------------------- MODULE MCOrderService ---------------------------
EXTENDS OrderService, TLC

Symmetry == Permutations(Process) \cup Permutations(Uuid)
=============================================================================
