------------------------------ MODULE MCPaging -------------------------------
(* Paging with processes and written values that TLC may exchange: no         *)
(* operation of the code tells one process or one nonzero byte from another.  *)
EXTENDS Paging

Symmetry == Permutations(Procs) \cup Permutations(Values)
=============================================================================
