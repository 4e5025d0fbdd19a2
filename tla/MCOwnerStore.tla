---------------------------- MODULE MCOwnerStore -----------------------------
(* The instance of OwnerStore that TLC checks.                                *)
EXTENDS OwnerStore, TLC

Symmetry == Permutations(Login) \cup Permutations(Credential) \cup Permutations(Attempt)

==============================================================================
