------------------------ MODULE MCTranscodeRegistry ------------------------
(* TLC instances of TranscodeRegistry.                                     *)
EXTENDS TranscodeRegistry, TLC

\* Jobs, keys, processes and request threads are interchangeable.
Symmetry == Permutations(Jobs) \cup Permutations(Keys)
              \cup Permutations(Procs) \cup Permutations(Clients)
=============================================================================
