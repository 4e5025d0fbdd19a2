------------------------------ MODULE OwnerStore ------------------------------
(* The owner store (internal/owner) under the sign-in goroutines that use it: *)
(* trust on first use, the pre-seeded fallback custodian that restricts it,   *)
(* and owner.json, written before the memory follows.                         *)
(*                                                                            *)
(* A goroutine reads the store three times before it calls SignIn, each time  *)
(* under the lock but not between, so that other sign-ins come between; the   *)
(* process may stop between the renamed file and the memory.                  *)
EXTENDS FiniteSets

CONSTANTS
    Login,        \* GitHub accounts
    Credential,   \* GitHub tokens, each issued once
    Attempt,      \* slots for sign-in goroutines that GitHub has authorised
    NoLogin, NoCredential

ASSUME OwnerSentinels ==
    /\ NoLogin \notin Login
    /\ NoCredential \notin Credential

VARIABLES
    account,        \* the account that GitHub issued each token to
    fallback,       \* Store.fallback, from BGH_GITHUB_TOKEN or the config
    fallbackLogin,  \* Store.fallbackLogin
    rec,            \* Store.rec
    disk,           \* owner.json
    att,            \* the goroutines
    accepted,       \* the sign-ins that SignIn answered with ok
    claim           \* the claim of the deployment and the fallback it met

vars == <<account, fallback, fallbackLogin, rec, disk, att, accepted, claim>>

Record == [login: Login \cup {NoLogin}, token: Credential \cup {NoCredential}]
Unclaimed == [login |-> NoLogin, token |-> NoCredential]

\* claimed, fallbackOwner, resolve, set: the test before SignIn.  commit: SignIn
\* has renamed the file and holds the lock.
AttPC == {"idle", "claimed", "fallbackOwner", "resolve", "set", "signin", "commit"}

AttRec == [pc: AttPC, token: Credential \cup {NoCredential}]

Idle == [pc |-> "idle", token |-> NoCredential]

\* Who a token's viewer{login} is; resolveLogin.
Who(a) == account[att[a].token]

\* The types; nobody but GitHub makes tokens, so every one in use was issued.
TypeOK ==
    /\ account \in [Credential -> Login \cup {NoLogin}]
    /\ fallback \in Credential \cup {NoCredential}
    /\ fallbackLogin \in Login \cup {NoLogin}
    /\ rec \in Record
    /\ disk \in Record
    /\ att \in [Attempt -> AttRec]
    /\ accepted \subseteq Record
    /\ claim \in [login: Login \cup {NoLogin}, fallback: Credential \cup {NoCredential}]
    /\ \A c \in {fallback, rec.token, disk.token} \ {NoCredential} :
           account[c] # NoLogin

Init ==
    /\ \E c \in Credential, l \in Login :
          \/ /\ fallback = NoCredential
             /\ account = [d \in Credential |-> NoLogin]
          \/ /\ fallback = c
             /\ account = [d \in Credential |-> IF d = c THEN l ELSE NoLogin]
    /\ fallbackLogin = NoLogin
    /\ rec = Unclaimed
    /\ disk = Unclaimed
    /\ att = [a \in Attempt |-> Idle]
    /\ accepted = {}
    /\ claim = [login |-> NoLogin, fallback |-> NoCredential]

\* Store.mu is held by a SignIn between its file and its memory.
Unlocked == \A a \in Attempt : att[a].pc # "commit"

Goto(a, p) == att' = [att EXCEPT ![a] = [@ EXCEPT !.pc = p]]

\* The goroutine denies its grant.
Deny(a) == att' = [att EXCEPT ![a] = Idle]

(* ------------------------------------------------------------------------- *)
(* The goroutine before SignIn                                               *)
(* ------------------------------------------------------------------------- *)

\* DeviceFlow returns the token that GitHub issued to whoever authorised it, and
\* resolveLogin says whose it is.
Authorised(a, l, c) ==
    /\ att[a].pc = "idle"
    /\ account[c] = NoLogin
    /\ account' = [account EXCEPT ![c] = l]
    /\ att' = [att EXCEPT ![a] = [pc |-> "claimed", token |-> c]]
    /\ UNCHANGED <<fallback, fallbackLogin, rec, disk, accepted, claim>>

\* Owner.Claimed() and Owner.HasFallback().
ReadClaimed(a) ==
    /\ att[a].pc = "claimed"
    /\ Unlocked
    /\ Goto(a, IF rec.login = NoLogin /\ fallback # NoCredential
               THEN "fallbackOwner" ELSE "signin")
    /\ UNCHANGED <<account, fallback, fallbackLogin, rec, disk, accepted, claim>>

\* Owner.FallbackOwner().
ReadFallbackOwner(a) ==
    /\ att[a].pc = "fallbackOwner"
    /\ Unlocked
    /\ Goto(a, IF fallbackLogin = NoLogin THEN "resolve" ELSE "signin")
    /\ UNCHANGED <<account, fallback, fallbackLogin, rec, disk, accepted, claim>>

\* resolveLogin of the fallback token asks GitHub, without the lock, and may fail.
ResolveFallback(a) ==
    /\ att[a].pc = "resolve"
    /\ Goto(a, "set") \/ Deny(a)
    /\ UNCHANGED <<account, fallback, fallbackLogin, rec, disk, accepted, claim>>

\* SetFallbackOwner: the first one counts.
SetFallbackOwner(a) ==
    /\ att[a].pc = "set"
    /\ Unlocked
    /\ fallbackLogin' = IF fallbackLogin = NoLogin THEN account[fallback] ELSE fallbackLogin
    /\ Goto(a, "signin")
    /\ UNCHANGED <<account, fallback, rec, disk, accepted, claim>>

(* ------------------------------------------------------------------------- *)
(* SignIn                                                                    *)
(* ------------------------------------------------------------------------- *)

\* Who may claim an unclaimed deployment, without the fallback's say.
MayClaimOpen(a) == rec.login = NoLogin

\* Who may claim an unclaimed deployment: with a fallback custodian, its account.
MayClaim(a) ==
    /\ rec.login = NoLogin
    /\ fallback # NoCredential => fallbackLogin = Who(a)

\* A later sign-in that takes any account's token.
MayRefreshAny(a) == rec.login # NoLogin

\* A later sign-in must be the owner's.
MayRefresh(a) == rec.login # NoLogin /\ rec.login = Who(a)

\* What SignIn writes: the token of a refresh, under the login it has.
Candidate(a) ==
    [login |-> IF rec.login = NoLogin THEN Who(a) ELSE rec.login,
     token |-> att[a].token]

\* SignIn that sets the memory before the file.
SignInMemoryFirst(a) ==
    /\ att[a].pc = "signin"
    /\ Unlocked
    /\ \/ /\ MayClaim(a) \/ MayRefresh(a)
          /\ rec' = Candidate(a)
          /\ claim' = IF rec.login = NoLogin
                      THEN [login |-> Who(a), fallback |-> fallback] ELSE claim
          /\ \/ disk' = Candidate(a) /\ Goto(a, "commit")
             \/ disk' = disk /\ Deny(a)
       \/ /\ Deny(a)
          /\ UNCHANGED <<rec, disk, claim>>
    /\ UNCHANGED <<account, fallback, fallbackLogin, accepted>>

\* SignIn that goes on when the file could not be written.
SignInUnpersisted(a) ==
    /\ att[a].pc = "signin"
    /\ Unlocked
    /\ \/ /\ MayClaim(a) \/ MayRefresh(a)
          /\ disk' \in {disk, Candidate(a)}
          /\ claim' = IF rec.login = NoLogin
                      THEN [login |-> Who(a), fallback |-> fallback] ELSE claim
          /\ Goto(a, "commit")
       \/ /\ Deny(a)
          /\ UNCHANGED <<disk, claim>>
    /\ UNCHANGED <<account, fallback, fallbackLogin, rec, accepted>>

\* SignIn up to persistRecord: the file is replaced, or the sign-in fails and
\* leaves everything as it was.
SignIn(a) ==
    /\ att[a].pc = "signin"
    /\ Unlocked
    /\ \/ /\ MayClaim(a) \/ MayRefresh(a)
          /\ disk' = Candidate(a)
          /\ claim' = IF rec.login = NoLogin
                      THEN [login |-> Who(a), fallback |-> fallback] ELSE claim
          /\ Goto(a, "commit")
       \/ /\ Deny(a)      \* not the owner, or the file could not be written
          /\ UNCHANGED <<disk, claim>>
    /\ UNCHANGED <<account, fallback, fallbackLogin, rec, accepted>>

\* The memory follows; the sign-in is accepted.
Commit(a) ==
    /\ att[a].pc = "commit"
    /\ rec' = Candidate(a)
    /\ accepted' = accepted \cup {Candidate(a)}
    /\ att' = [att EXCEPT ![a] = Idle]
    /\ UNCHANGED <<account, fallback, fallbackLogin, disk, claim>>

\* The process stops and Open reads the file.  The operator may have seeded
\* another token meanwhile, or none.
Restart(seed) ==
    /\ seed # NoCredential => account[seed] # NoLogin
    /\ fallback' = seed
    /\ fallbackLogin' = NoLogin
    /\ rec' = disk
    /\ att' = [a \in Attempt |-> Idle]
    /\ UNCHANGED <<account, disk, accepted, claim>>

AttStep(a) ==
    \/ \E l \in Login, c \in Credential : Authorised(a, l, c)
    \/ ReadClaimed(a) \/ ReadFallbackOwner(a) \/ ResolveFallback(a)
    \/ SetFallbackOwner(a) \/ SignIn(a) \/ Commit(a)

Next ==
    \/ \E a \in Attempt : AttStep(a)
    \/ \E seed \in Credential \cup {NoCredential} : Restart(seed)

Spec == Init /\ [][Next]_vars

(* ------------------------------------------------------------------------- *)
(* Properties                                                                *)
(* ------------------------------------------------------------------------- *)

\* Token(): what the proxy asks GitHub with.
Custodian == IF rec.token # NoCredential THEN rec.token ELSE fallback

\* "every later sign-in must be that same login": all the sign-ins ever accepted
\* were of one account, through failed writes, crashes and restarts.
OneOwner == \A s1, s2 \in accepted : s1.login = s2.login

\* "with a fallback configured, only this login may claim the deployment": also
\* when several goroutines find the fallback's account unresolved at once.
SeededClaimIsCustodians ==
    claim.fallback # NoCredential => claim.login = account[claim.fallback]

\* A claimed deployment asks GitHub only with tokens of its owner.
CustodianIsOwners ==
    rec.login # NoLogin => Custodian # NoCredential /\ account[Custodian] = rec.login

\* "a persist failure must leave the live owner/custodian state untouched": what
\* serves is what a restart would serve, except inside SignIn's lock.
MemoryMirrorsFile == Unlocked => rec = disk

Promise == INSTANCE Ownership WITH owner <- disk.login, custodian <- disk.token

\* The file never changes hands: it implements Ownership.
ImplementsOwnership == Promise!Spec

===============================================================================
