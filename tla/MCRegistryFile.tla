--------------------------- MODULE MCRegistryFile ---------------------------
(* TLC instances of RegistryFile.                                          *)
EXTENDS RegistryFile, TLC

Symmetry == Permutations(Writers) \cup Permutations(Keys) \cup Permutations(Values)
=============================================================================
