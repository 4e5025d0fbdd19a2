------------------------------ MODULE Ownership -------------------------------
(* What the owner store promises: a deployment is claimed once, and from then *)
(* on it only ever takes credentials of the account that claimed it.  Nothing *)
(* is said of how failed writes and restarts are survived.                    *)
CONSTANTS Login, Credential, NoLogin, NoCredential

VARIABLES
    account,    \* the account that each credential was issued to
    owner,      \* the account that claimed the deployment
    custodian   \* the credential that its sign-ins left behind

vars == <<account, owner, custodian>>

Init ==
    /\ account \in [Credential -> Login \cup {NoLogin}]
    /\ owner = NoLogin
    /\ custodian = NoCredential

\* GitHub issues a credential.
Issue(l, c) ==
    /\ account[c] = NoLogin
    /\ account' = [account EXCEPT ![c] = l]
    /\ UNCHANGED <<owner, custodian>>

\* The first sign-in claims the deployment for its account.
Claim(c) ==
    /\ owner = NoLogin
    /\ account[c] # NoLogin
    /\ owner' = account[c]
    /\ custodian' = c
    /\ UNCHANGED account

\* Later ones bring fresh credentials of the owner.
Refresh(c) ==
    /\ owner # NoLogin
    /\ account[c] = owner
    /\ custodian' = c
    /\ UNCHANGED <<account, owner>>

Next ==
    \E c \in Credential : Claim(c) \/ Refresh(c) \/ \E l \in Login : Issue(l, c)

Spec == Init /\ [][Next]_vars

===============================================================================
