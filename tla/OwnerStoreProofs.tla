--------------------------- MODULE OwnerStoreProofs ---------------------------
(* Proofs about OwnerStore, for any number of accounts, credentials and       *)
(* concurrent sign-ins: one owner for good, and only the owner's credentials. *)
EXTENDS OwnerStore, TLAPS

(* ------------------------------------------------------------------------- *)
(* The inductive invariant                                                   *)
(* ------------------------------------------------------------------------- *)

\* The shapes alone.
Shape ==
    /\ account \in [Credential -> Login \cup {NoLogin}]
    /\ fallback \in Credential \cup {NoCredential}
    /\ fallbackLogin \in Login \cup {NoLogin}
    /\ rec \in Record
    /\ disk \in Record
    /\ att \in [Attempt -> AttRec]
    /\ accepted \subseteq Record
    /\ claim \in [login: Login \cup {NoLogin}, fallback: Credential \cup {NoCredential}]

\* A record is blank, or the issued token of its login.
Sound(r) ==
    \/ r = Unclaimed
    \/ r.login \in Login /\ r.token \in Credential /\ account[r.token] = r.login

\* Every token in use was issued: those of the goroutines, the fallback and the
\* one that the claim met.
Issued ==
    /\ \A a \in Attempt : att[a].pc # "idle" =>
           att[a].token \in Credential /\ account[att[a].token] \in Login
    /\ fallback \in Credential => account[fallback] \in Login
    /\ claim.fallback \in Credential => account[claim.fallback] \in Login

\* The goroutines that ask for the fallback's account have a fallback, and what
\* they found out is true.
FallbackKnown ==
    /\ \A a \in Attempt :
           att[a].pc \in {"fallbackOwner", "resolve", "set"} => fallback \in Credential
    /\ fallbackLogin \in Login => fallback \in Credential /\ fallbackLogin = account[fallback]

\* Inside SignIn's lock the file is one sign-in ahead of the memory.
FileLeads ==
    /\ \A a, b \in Attempt : att[a].pc = "commit" /\ att[b].pc = "commit" => a = b
    /\ \A a \in Attempt : att[a].pc = "commit" =>
           disk = Candidate(a) /\ rec.login \in {NoLogin, Who(a)}
    /\ Unlocked => rec = disk

\* Memory and accepted sign-ins are of the login on file.
OneLogin ==
    /\ rec.login \in Login => rec.login = disk.login
    /\ \A s \in accepted : s.login \in Login /\ s.login = disk.login

IInv ==
    /\ Shape
    /\ Sound(rec) /\ Sound(disk)
    /\ Issued
    /\ FallbackKnown
    /\ FileLeads
    /\ OneLogin
    /\ SeededClaimIsCustodians

(* ------------------------------------------------------------------------- *)
(* Its parts                                                                 *)
(* ------------------------------------------------------------------------- *)

\* The initial states satisfy the invariant.
LEMMA InitIInv == Init => IInv
<1> SUFFICES ASSUME Init PROVE IInv
    OBVIOUS
<1> USE OwnerSentinels DEF Init
<1>1. Shape
    BY DEF Shape, Record, Unclaimed, AttRec, AttPC, Idle
<1>2. Sound(rec) /\ Sound(disk)
    BY DEF Sound
<1>3. Issued
    BY DEF Issued, Idle
<1>4. FallbackKnown
    BY DEF FallbackKnown, Idle
<1>5. FileLeads
    BY DEF FileLeads, Idle, Unlocked
<1>6. OneLogin
    BY DEF OneLogin, Unclaimed
<1>7. SeededClaimIsCustodians
    BY DEF SeededClaimIsCustodians
<1> QED BY <1>1, <1>2, <1>3, <1>4, <1>5, <1>6, <1>7 DEF IInv

\* The invariant implies the properties that the run checks.
LEMMA IInvImplies ==
    IInv => TypeOK /\ OneOwner /\ CustodianIsOwners /\ MemoryMirrorsFile
<1> SUFFICES ASSUME IInv PROVE TypeOK /\ OneOwner /\ CustodianIsOwners /\ MemoryMirrorsFile
    OBVIOUS
<1> USE OwnerSentinels DEF IInv
<1>1. TypeOK
    BY DEF TypeOK, Shape, Issued, Sound, Unclaimed, Record
<1>2. OneOwner
    BY DEF OneOwner, OneLogin
<1>3. CustodianIsOwners
    BY DEF CustodianIsOwners, Custodian, Sound, Unclaimed, Shape, Record
<1>4. MemoryMirrorsFile
    BY DEF MemoryMirrorsFile, FileLeads
<1> QED BY <1>1, <1>2, <1>3, <1>4

\* What an action of one goroutine does to the others' records.
LEMMA MovedAttempt ==
    ASSUME Shape, NEW a \in Attempt, NEW p \in AttPC, Goto(a, p)
    PROVE  /\ att' \in [Attempt -> AttRec]
           /\ att'[a].pc = p /\ att'[a].token = att[a].token
           /\ \A b \in Attempt : b # a => att'[b] = att[b]
BY DEF Goto, Shape, AttRec

\* What giving up does to them.
LEMMA DeniedAttempt ==
    ASSUME Shape, NEW a \in Attempt, Deny(a)
    PROVE  /\ att' \in [Attempt -> AttRec]
           /\ att'[a] = Idle
           /\ \A b \in Attempt : b # a => att'[b] = att[b]
BY DEF Deny, Shape, AttRec, AttPC, Idle

\* The actions that only move a goroutine on, outside SignIn, preserve the
\* invariant: `p` is where it goes, "idle" when it gives up.
LEMMA QuietStep ==
    ASSUME IInv, NEW a \in Attempt, att[a].pc \notin {"idle", "commit"},
           UNCHANGED <<account, fallback, rec, disk, accepted, claim>>,
           \/ fallbackLogin' = fallbackLogin
           \/ fallback \in Credential /\ fallbackLogin' = account[fallback],
           NEW p \in AttPC \ {"commit"},
           p \in {"fallbackOwner", "resolve", "set"} => fallback \in Credential,
           Goto(a, p) \/ Deny(a)
    PROVE  IInv'
<1> USE DEF IInv
<1>1. /\ att' \in [Attempt -> AttRec]
      /\ \A b \in Attempt : b # a => att'[b] = att[b]
      /\ \/ att'[a].pc = p /\ att'[a].token = att[a].token
         \/ att'[a] = Idle
    BY MovedAttempt, DeniedAttempt
<1>2. fallbackLogin' \in Login \cup {NoLogin}
    BY DEF Issued, Shape
<1>3. Shape'
    BY <1>1, <1>2 DEF Shape
<1>4. Sound(rec)' /\ Sound(disk)'
    BY DEF Sound
<1>5. Issued'
    BY <1>1 DEF Issued, Idle
<1>6. FallbackKnown'
    BY <1>1 DEF FallbackKnown, Idle
<1>7. FileLeads'
    <2>1. \A b \in Attempt : att'[b].pc = "commit" <=> att[b].pc = "commit"
        BY <1>1 DEF Idle
    <2>2. \A b \in Attempt : att[b].pc = "commit" => att'[b] = att[b]
        BY <1>1
    <2>3. \A b \in Attempt : att[b].pc = "commit" =>
              Candidate(b)' = Candidate(b) /\ Who(b)' = Who(b)
        BY <2>2 DEF Candidate, Who
    <2>4. Unlocked' <=> Unlocked
        BY <2>1 DEF Unlocked
    <2> QED BY <2>1, <2>3, <2>4 DEF FileLeads
<1>8. OneLogin'
    BY DEF OneLogin
<1>9. SeededClaimIsCustodians'
    BY DEF SeededClaimIsCustodians
<1> QED BY <1>3, <1>4, <1>5, <1>6, <1>7, <1>8, <1>9

(* ------------------------------------------------------------------------- *)
(* One lemma per action                                                      *)
(* ------------------------------------------------------------------------- *)

\* A fresh token changes the account of no token in use.
LEMMA AuthorisedStep ==
    ASSUME IInv, NEW a \in Attempt, NEW l \in Login, NEW c \in Credential,
           Authorised(a, l, c)
    PROVE  IInv'
<1> USE OwnerSentinels DEF IInv, Authorised
<1>1. /\ account' \in [Credential -> Login \cup {NoLogin}]
      /\ account'[c] = l
      /\ \A d \in Credential : account[d] \in Login => account'[d] = account[d]
    BY DEF Shape
<1>2. /\ att' \in [Attempt -> AttRec]
      /\ att'[a].pc = "claimed" /\ att'[a].token = c
      /\ \A b \in Attempt : b # a => att'[b] = att[b]
    BY DEF Shape, AttRec, AttPC
<1>3. Shape'
    BY <1>1, <1>2 DEF Shape
<1>4. Sound(rec)' /\ Sound(disk)'
    BY <1>1 DEF Sound
<1>5. Issued'
    BY <1>1, <1>2 DEF Issued
<1>6. FallbackKnown'
    BY <1>1, <1>2 DEF FallbackKnown, Issued
<1>7. FileLeads'
    <2>1. \A b \in Attempt : att'[b].pc = "commit" <=> att[b].pc = "commit"
        BY <1>2
    <2>2. \A b \in Attempt : att[b].pc = "commit" =>
              att'[b] = att[b] /\ account'[att[b].token] = account[att[b].token]
        BY <1>1, <1>2 DEF Issued
    <2>3. \A b \in Attempt : att[b].pc = "commit" =>
              Candidate(b)' = Candidate(b) /\ Who(b)' = Who(b)
        BY <2>2 DEF Candidate, Who
    <2>4. Unlocked' <=> Unlocked
        BY <2>1 DEF Unlocked
    <2> QED BY <2>1, <2>3, <2>4 DEF FileLeads
<1>8. OneLogin'
    BY DEF OneLogin
<1>9. SeededClaimIsCustodians'
    BY <1>1 DEF SeededClaimIsCustodians, Issued, Shape
<1> QED BY <1>3, <1>4, <1>5, <1>6, <1>7, <1>8, <1>9

\* The three reads before SignIn, and the answer of GitHub between them.
LEMMA ReadingStep ==
    ASSUME IInv, NEW a \in Attempt,
           \/ ReadClaimed(a) \/ ReadFallbackOwner(a)
           \/ ResolveFallback(a) \/ SetFallbackOwner(a)
    PROVE  IInv'
<1>1. CASE ReadClaimed(a)
    <2>1. PICK p \in {"fallbackOwner", "signin"} :
              Goto(a, p) /\ (p = "fallbackOwner" => fallback # NoCredential)
        BY <1>1 DEF ReadClaimed
    <2>2. p = "fallbackOwner" => fallback \in Credential
        BY <2>1 DEF IInv, Shape
    <2>3. /\ att[a].pc = "claimed" /\ p \in AttPC \ {"commit"}
          /\ UNCHANGED <<account, fallback, fallbackLogin, rec, disk, accepted, claim>>
        BY <1>1, <2>1 DEF ReadClaimed, AttPC
    <2> QED BY <2>1, <2>2, <2>3, QuietStep
<1>2. CASE ReadFallbackOwner(a)
    <2>1. PICK p \in {"resolve", "signin"} : Goto(a, p)
        BY <1>2 DEF ReadFallbackOwner
    <2>2. fallback \in Credential
        BY <1>2 DEF ReadFallbackOwner, IInv, FallbackKnown
    <2>3. /\ att[a].pc = "fallbackOwner" /\ p \in AttPC \ {"commit"}
          /\ UNCHANGED <<account, fallback, fallbackLogin, rec, disk, accepted, claim>>
        BY <1>2, <2>1 DEF ReadFallbackOwner, AttPC
    <2> QED BY <2>1, <2>2, <2>3, QuietStep
<1>3. CASE ResolveFallback(a)
    <2>1. Goto(a, "set") \/ Deny(a)
        BY <1>3 DEF ResolveFallback
    <2>2. fallback \in Credential
        BY <1>3 DEF ResolveFallback, IInv, FallbackKnown
    <2>3. /\ att[a].pc = "resolve" /\ "set" \in AttPC \ {"commit"}
          /\ UNCHANGED <<account, fallback, fallbackLogin, rec, disk, accepted, claim>>
        BY <1>3 DEF ResolveFallback, AttPC
    <2> QED BY <2>1, <2>2, <2>3, QuietStep
<1>4. CASE SetFallbackOwner(a)
    <2>1. fallback \in Credential
        BY <1>4 DEF SetFallbackOwner, IInv, FallbackKnown
    <2>2. fallbackLogin' = fallbackLogin \/ fallbackLogin' = account[fallback]
        BY <1>4 DEF SetFallbackOwner
    <2>3. /\ att[a].pc = "set" /\ "signin" \in AttPC \ {"commit"}
          /\ Goto(a, "signin")
          /\ UNCHANGED <<account, fallback, rec, disk, accepted, claim>>
        BY <1>4, <2>1 DEF SetFallbackOwner, AttPC
    <2> QED BY <2>1, <2>2, <2>3, QuietStep
<1> QED BY <1>1, <1>2, <1>3, <1>4

\* The sign-in that SignIn lets through has the login on file, or claims.
LEMMA AcceptedCandidate ==
    ASSUME IInv, NEW a \in Attempt, att[a].pc = "signin", MayClaim(a) \/ MayRefresh(a)
    PROVE  /\ Candidate(a) = [login |-> Who(a), token |-> att[a].token]
           /\ Who(a) \in Login /\ att[a].token \in Credential
           /\ Candidate(a) \in Record
<1>1. Who(a) \in Login /\ att[a].token \in Credential
    BY DEF IInv, Issued, Who
<1>2. Candidate(a) = [login |-> Who(a), token |-> att[a].token]
    BY DEF Candidate, MayClaim, MayRefresh
<1> QED BY <1>1, <1>2 DEF Record

\* The file is written.
LEMMA SignInStep ==
    ASSUME IInv, NEW a \in Attempt, SignIn(a)
    PROVE  IInv'
<1> USE OwnerSentinels DEF IInv
<1>1. CASE Deny(a) /\ UNCHANGED <<disk, claim>>
    <2>1. /\ att[a].pc = "signin" /\ "signin" \in AttPC \ {"commit"}
          /\ UNCHANGED <<account, fallback, fallbackLogin, rec, disk, accepted, claim>>
        BY <1>1 DEF SignIn, AttPC
    <2> QED BY <1>1, <2>1, QuietStep
<1>2. CASE /\ MayClaim(a) \/ MayRefresh(a)
           /\ disk' = Candidate(a)
           /\ claim' = IF rec.login = NoLogin
                       THEN [login |-> Who(a), fallback |-> fallback] ELSE claim
           /\ Goto(a, "commit")
    <2>0. /\ att[a].pc = "signin" /\ Unlocked /\ rec = disk
          /\ UNCHANGED <<account, fallback, fallbackLogin, rec, accepted>>
        BY DEF SignIn, FileLeads
    <2>1. /\ Candidate(a) = [login |-> Who(a), token |-> att[a].token]
          /\ Who(a) \in Login /\ att[a].token \in Credential
          /\ Candidate(a) \in Record
        BY <1>2, <2>0, AcceptedCandidate
    <2>2. /\ att' \in [Attempt -> AttRec]
          /\ att'[a].pc = "commit" /\ att'[a].token = att[a].token
          /\ \A b \in Attempt : b # a => att'[b] = att[b]
        BY <1>2, MovedAttempt DEF AttPC
    <2>3. disk'.login = Who(a) /\ disk'.token = att[a].token
        BY <1>2, <2>1
    <2>4. rec.login \in {NoLogin, Who(a)}
        BY <1>2 DEF MayClaim, MayRefresh
    <2>5. Shape'
        BY <1>2, <2>0, <2>1, <2>2 DEF Shape
    <2>6. Sound(rec)' /\ Sound(disk)'
        BY <2>0, <2>1, <2>3 DEF Sound, Who
    <2>7. Issued'
        BY <1>2, <2>0, <2>2 DEF Issued
    <2>8. FallbackKnown'
        BY <2>0, <2>2 DEF FallbackKnown
    <2>9. FileLeads'
        <3>1. \A b \in Attempt : att'[b].pc = "commit" <=> b = a
            BY <2>0, <2>2 DEF Unlocked
        <3>2. Candidate(a)' = Candidate(a) /\ Who(a)' = Who(a)
            BY <2>0, <2>2 DEF Candidate, Who
        <3>3. ~Unlocked'
            BY <2>2 DEF Unlocked
        <3> QED BY <1>2, <2>0, <2>4, <3>1, <3>2, <3>3 DEF FileLeads
    <2>10. OneLogin'
        BY <2>0, <2>1, <2>3, <2>4 DEF OneLogin
    <2>11. SeededClaimIsCustodians'
        BY <1>2, <2>0, <2>1, <2>4
        DEF MayClaim, MayRefresh, FallbackKnown, SeededClaimIsCustodians
    <2> QED BY <2>5, <2>6, <2>7, <2>8, <2>9, <2>10, <2>11
<1> QED BY <1>1, <1>2 DEF SignIn

\* The memory catches up.
LEMMA CommitStep ==
    ASSUME IInv, NEW a \in Attempt, Commit(a)
    PROVE  IInv'
<1> USE OwnerSentinels DEF IInv
<1>0. /\ rec' = disk /\ accepted' = accepted \cup {disk}
      /\ UNCHANGED <<account, fallback, fallbackLogin, disk, claim>>
    BY DEF Commit, FileLeads
<1>1. Deny(a)
    BY DEF Commit, Deny
<1>2. /\ att' \in [Attempt -> AttRec]
      /\ att'[a] = Idle
      /\ \A b \in Attempt : b # a => att'[b] = att[b]
    BY <1>1, DeniedAttempt
<1>3. disk.login \in Login
    BY DEF Commit, FileLeads, Issued, Who, Candidate
<1>4. Shape'
    BY <1>0, <1>2 DEF Shape
<1>5. Sound(rec)' /\ Sound(disk)'
    BY <1>0 DEF Sound
<1>6. Issued'
    BY <1>0, <1>2 DEF Issued, Idle
<1>7. FallbackKnown'
    BY <1>0, <1>2 DEF FallbackKnown, Idle
<1>8. FileLeads'
    <2>1. \A b \in Attempt : att'[b].pc # "commit"
        BY <1>2 DEF FileLeads, Commit, Idle
    <2> QED BY <1>0, <2>1 DEF FileLeads
<1>9. OneLogin'
    BY <1>0, <1>3 DEF OneLogin
<1>10. SeededClaimIsCustodians'
    BY <1>0 DEF SeededClaimIsCustodians
<1> QED BY <1>4, <1>5, <1>6, <1>7, <1>8, <1>9, <1>10

\* The file survives what the memory does not.
LEMMA RestartStep ==
    ASSUME IInv, NEW seed \in Credential \cup {NoCredential}, Restart(seed)
    PROVE  IInv'
<1> USE OwnerSentinels DEF IInv, Restart
<1>1. att' \in [Attempt -> AttRec] /\ \A b \in Attempt : att'[b].pc = "idle"
    BY DEF AttRec, AttPC, Idle
<1>2. Shape'
    BY <1>1 DEF Shape
<1>3. Sound(rec)' /\ Sound(disk)'
    BY DEF Sound
<1>4. Issued'
    BY <1>1 DEF Issued, Shape
<1>5. FallbackKnown'
    BY <1>1 DEF FallbackKnown
<1>6. FileLeads'
    BY <1>1 DEF FileLeads
<1>7. OneLogin'
    BY DEF OneLogin
<1>8. SeededClaimIsCustodians'
    BY DEF SeededClaimIsCustodians
<1> QED BY <1>2, <1>3, <1>4, <1>5, <1>6, <1>7, <1>8

\* Every step of the specification preserves the invariant.
LEMMA NextIInv == IInv /\ [Next]_vars => IInv'
<1> SUFFICES ASSUME IInv, [Next]_vars PROVE IInv'
    OBVIOUS
<1>1. CASE \E a \in Attempt : AttStep(a)
    BY <1>1, AuthorisedStep, ReadingStep, SignInStep, CommitStep DEF AttStep
<1>2. CASE \E seed \in Credential \cup {NoCredential} : Restart(seed)
    BY <1>2, RestartStep
<1>3. CASE UNCHANGED vars
    <2>1. \A a \in Attempt : Candidate(a)' = Candidate(a) /\ Who(a)' = Who(a)
        BY <1>3 DEF vars, Candidate, Who
    <2>2. Unlocked' <=> Unlocked
        BY <1>3 DEF vars, Unlocked
    <2>3. FileLeads'
        BY <1>3, <2>1, <2>2 DEF IInv, FileLeads, vars
    <2>4. Shape' /\ Issued' /\ FallbackKnown'
        BY <1>3 DEF IInv, Shape, Issued, FallbackKnown, vars
    <2>5. Sound(rec)' /\ Sound(disk)' /\ OneLogin' /\ SeededClaimIsCustodians'
        BY <1>3 DEF IInv, Sound, OneLogin, SeededClaimIsCustodians, vars
    <2> QED BY <2>3, <2>4, <2>5 DEF IInv
<1> QED BY <1>1, <1>2, <1>3 DEF Next

(* ------------------------------------------------------------------------- *)
(* The theorems                                                              *)
(* ------------------------------------------------------------------------- *)

\* The inductive invariant holds in every reachable state.
THEOREM IInvAlways == Spec => []IInv
<1>1. Init => IInv
    BY InitIInv
<1>2. IInv /\ [Next]_vars => IInv'
    BY NextIInv
<1> QED BY <1>1, <1>2, PTL DEF Spec

\* The variables of owner.Store and of its callers keep their types, and every
\* token that the store holds was issued.
THEOREM TypeOKHolds == Spec => []TypeOK
<1>1. IInv => TypeOK
    BY IInvImplies
<1> QED BY <1>1, IInvAlways, PTL

\* Every sign-in that owner.Store ever accepted was of one account, through
\* failed writes, crashes, restarts and any number of concurrent sign-ins.
THEOREM OneOwnerHolds == Spec => []OneOwner
<1>1. IInv => OneOwner
    BY IInvImplies
<1> QED BY <1>1, IInvAlways, PTL

\* A deployment seeded with a fallback token was claimed by that token's account.
THEOREM SeededClaimHolds == Spec => []SeededClaimIsCustodians
<1>1. IInv => SeededClaimIsCustodians
    BY DEF IInv
<1> QED BY <1>1, IInvAlways, PTL

\* A claimed deployment serves with a token of the account that claimed it.
THEOREM CustodianIsOwnersHolds == Spec => []CustodianIsOwners
<1>1. IInv => CustodianIsOwners
    BY IInvImplies
<1> QED BY <1>1, IInvAlways, PTL

\* Outside SignIn's lock the memory is what a restart would read.
THEOREM MemoryMirrorsFileHolds == Spec => []MemoryMirrorsFile
<1>1. IInv => MemoryMirrorsFile
    BY IInvImplies
<1> QED BY <1>1, IInvAlways, PTL

(* ------------------------------------------------------------------------- *)
(* The file implements Ownership                                             *)
(* ------------------------------------------------------------------------- *)

\* Every step is one of the promise's, or a stutter of it.
LEMMA PromisedStep ==
    ASSUME IInv, [Next]_vars
    PROVE  [Promise!Next]_(Promise!vars)
<1> USE OwnerSentinels DEF Promise!vars
<1>1. CASE UNCHANGED vars
    BY <1>1 DEF vars
<1>2. ASSUME NEW a \in Attempt, NEW l \in Login, NEW c \in Credential, Authorised(a, l, c)
      PROVE  [Promise!Next]_(Promise!vars)
    BY <1>2 DEF Authorised, Promise!Next, Promise!Issue
<1>3. ASSUME NEW a \in Attempt,
             \/ ReadClaimed(a) \/ ReadFallbackOwner(a) \/ ResolveFallback(a)
             \/ SetFallbackOwner(a) \/ Commit(a)
      PROVE  UNCHANGED Promise!vars
    BY <1>3 DEF ReadClaimed, ReadFallbackOwner, ResolveFallback, SetFallbackOwner, Commit
<1>4. ASSUME NEW a \in Attempt, SignIn(a)
      PROVE  [Promise!Next]_(Promise!vars)
    <2>1. CASE UNCHANGED disk
        BY <1>4, <2>1 DEF SignIn
    <2>2. CASE (MayClaim(a) \/ MayRefresh(a)) /\ disk' = Candidate(a)
        <3>1. rec = disk /\ att[a].pc = "signin" /\ UNCHANGED account
            BY <1>4 DEF SignIn, IInv, FileLeads
        <3>2. /\ Candidate(a) = [login |-> Who(a), token |-> att[a].token]
              /\ Who(a) \in Login /\ att[a].token \in Credential
            BY <2>2, <3>1, AcceptedCandidate
        <3>3. disk'.login = account[att[a].token] /\ disk'.token = att[a].token
            BY <2>2, <3>2 DEF Who
        <3>4. CASE disk.login = NoLogin
            <4>1. Promise!Claim(att[a].token)
                BY <3>1, <3>2, <3>3, <3>4 DEF Promise!Claim, Who
            <4> QED BY <4>1, <3>2 DEF Promise!Next
        <3>5. CASE disk.login # NoLogin
            <4>1. Promise!Refresh(att[a].token)
                BY <2>2, <3>1, <3>2, <3>3, <3>5
                DEF Promise!Refresh, Who, MayClaim, MayRefresh
            <4> QED BY <4>1, <3>2 DEF Promise!Next
        <3> QED BY <3>4, <3>5
    <2> QED BY <1>4, <2>1, <2>2 DEF SignIn
<1>5. ASSUME NEW seed \in Credential \cup {NoCredential}, Restart(seed)
      PROVE  UNCHANGED Promise!vars
    BY <1>5 DEF Restart
<1> QED BY <1>1, <1>2, <1>3, <1>4, <1>5 DEF Next, AttStep

\* The file changes hands only as Ownership allows: it is claimed once, and then
\* only ever takes tokens of the account that claimed it.
THEOREM ImplementsOwnershipHolds == Spec => ImplementsOwnership
<1>1. Init => Promise!Init
    BY InitIInv DEF IInv, Shape, Init, Promise!Init, Unclaimed
<1>2. IInv /\ [Next]_vars => [Promise!Next]_(Promise!vars)
    BY PromisedStep
<1> QED BY <1>1, <1>2, IInvAlways, PTL DEF Spec, ImplementsOwnership, Promise!Spec

===============================================================================
