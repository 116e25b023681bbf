--------------------------- MODULE MCServerUpdate ---------------------------
(* TLC instances of ServerUpdate.                                          *)
EXTENDS ServerUpdate, TLC

\* the third release changes the fork alone
MCServerOf == <<1, 2, 2>>

Symmetry == Permutations(Workers) \cup Permutations(Ids)
=============================================================================
