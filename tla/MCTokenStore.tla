---------------------------- MODULE MCTokenStore -----------------------------
(* The instance of TokenStore that TLC checks.                                *)
EXTENDS TokenStore, TLC

Symmetry == Permutations(Token) \cup Permutations(Name) \cup Permutations(Editor)

==============================================================================
