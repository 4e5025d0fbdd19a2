---------------------------- MODULE TokenRegistry ----------------------------
(* What the token store promises to those who use it, without memory, disk or *)
(* handlers: a token that was withdrawn and reported so is sealed, and no     *)
(* crash brings it back.  A withdrawal that was not reported may be undone.   *)
(* TokenStore implements this module.                                         *)

CONSTANT Token

VARIABLES
    standing,  \* "unborn", "live" (its secret opens the proxy) or "dead"
    sealed     \* the tokens whose withdrawal was reported

vars == <<standing, sealed>>

Init ==
    /\ standing = [t \in Token |-> "unborn"]
    /\ sealed = {}

Issue(t) ==
    /\ standing[t] = "unborn"
    /\ standing' = [standing EXCEPT ![t] = "live"]
    /\ UNCHANGED sealed

\* An issue that failed: the token never lives.
Void(t) ==
    /\ standing[t] = "unborn"
    /\ standing' = [standing EXCEPT ![t] = "dead"]
    /\ UNCHANGED sealed

\* The tokens of T die and those of S, none of them alive, are reported dead.
Withdraw(T, S) ==
    /\ \A t \in T : standing[t] = "live"
    /\ standing' = [t \in Token |-> IF t \in T THEN "dead" ELSE standing[t]]
    /\ \A t \in S : standing'[t] = "dead"
    /\ sealed' = sealed \cup S

\* A crash undoes withdrawals that nobody was told of.
Undo(T) ==
    /\ \A t \in T : standing[t] = "dead" /\ t \notin sealed
    /\ standing' = [t \in Token |-> IF t \in T THEN "live" ELSE standing[t]]
    /\ UNCHANGED sealed

Next ==
    \/ \E t \in Token : Issue(t) \/ Void(t)
    \/ \E T, S \in SUBSET Token : Withdraw(T, S)
    \/ \E T \in SUBSET Token : Undo(T)

Spec == Init /\ [][Next]_vars

==============================================================================
