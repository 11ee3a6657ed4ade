------------------------------- MODULE MCKmem --------------------------------
(* Kmem with CPUs that TLC may exchange: no call asks which CPU makes it.     *)
EXTENDS Kmem

Symmetry == Permutations(Cpus)
=============================================================================
