---------------------------- MODULE MCLoginGrants ----------------------------
(* The instance of LoginGrants that TLC checks: symmetry over the kinds of    *)
(* value that no definition tells apart.                                      *)
EXTENDS LoginGrantsProofs, TLC

Symmetry ==
    Permutations(Grant) \cup Permutations(Browser) \cup Permutations(Req)
        \cup Permutations(Attempt) \cup Permutations(Token)
        \cup Permutations(Login)

==============================================================================
