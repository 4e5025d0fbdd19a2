-------------------------- MODULE LoginGrantsProofs --------------------------
(* Proofs about LoginGrants, for every set of grants, browsers, requests,     *)
(* attempts, tokens and logins.                                               *)
(*                                                                            *)
(* The inductive invariant IInv says who may be where: which request holds    *)
(* which reservation, which token belongs to which grant, and which browser   *)
(* and owner stand behind it.                                                 *)
EXTENDS LoginGrants, TLAPS

\* Handlers, goroutines, tokens and cookies name only grants that were issued.
NamesKnownGrants ==
    /\ \A r \in Req : req[r].pc # "idle" => req[r].g \in used /\ req[r].b \in Browser
    /\ \A a \in Attempt : att[a].pc # "unused" => att[a].g \in used
    /\ \A t \in Token :
           minted[t] # NoGrant => minted[t] \in used /\ minter[t] \in Browser
    /\ \A b \in Browser : cookie[b] # NoGrant => cookie[b] \in used

\* A cookie, present or about to be set, names a grant bound to that browser.
CookieIsBinders ==
    /\ \A b \in Browser : cookie[b] # NoGrant => grants[cookie[b]].binder = b
    /\ \A r \in Req : req[r].pc # "idle" /\ req[r].setsCookie
                         => grants[req[r].g].binder = req[r].b

\* One request at most holds a grant, live or not, and while the grant is stored
\* it is approved with no secret.
HolderIsExclusive ==
    /\ \A r1, r2 \in Req, g \in Grant : Holds(r1, g) /\ Holds(r2, g) => r1 = r2
    /\ \A r \in Req, g \in stored :
           Holds(r, g) => grants[g].status = "approved" /\ grants[g].secret = NoToken

\* A reserved grant has its holder.
ReservedIsHeld ==
    \A g \in Grant : Reserved(g) => \E r \in Req : Holds(r, g)

\* Tokens, the secrets of grants and the requests about to fill them in agree.
TokensAccounted ==
    /\ \A g \in used : grants[g].secret # NoToken =>
           grants[g].status = "approved" /\ minted[grants[g].secret] = g
    /\ \A r \in Req : req[r].pc \in {"revert", "mint", "mintfail"} =>
           \A t \in Token : minted[t] # req[r].g
    /\ \A r \in Req : req[r].pc = "fill" =>
           req[r].t \in Token /\ minted[req[r].t] = req[r].g
    /\ \A t \in Token : minted[t] # NoGrant /\ Live(minted[t]) =>
           \/ grants[minted[t]].secret = t
           \/ \E r \in Req : req[r].pc = "fill" /\ req[r].g = minted[t]

\* The request about to mint comes from the grant's browser.
MinterIsBinder ==
    \A r \in Req : req[r].pc = "mint" => req[r].b = grants[req[r].g].binder

\* A secret leaves with its grant.
HandedIsConsumed ==
    \A t \in Token :
        handed[t] = 0 \/ (handed[t] = 1 /\ minted[t] # NoGrant /\ minted[t] \notin stored)

\* A sign-in has a name, and one that was accepted was the owner's.
SettlesAsOwner ==
    \A a \in Attempt :
        /\ att[a].pc = "signin" => att[a].who # NoLogin
        /\ att[a].pc = "settle" => att[a].who = owner /\ owner # NoLogin

IInv ==
    /\ TypeOK
    /\ NamesKnownGrants
    /\ CookieIsBinders
    /\ HolderIsExclusive
    /\ ReservedIsHeld
    /\ TokensAccounted
    /\ OneTokenPerGrant
    /\ MinterIsBinder
    /\ MintedByBinder
    /\ HandedIsConsumed
    /\ SettlesAsOwner
    /\ AuthenticatedAsOwner

(* ------------------------------------------------------------------------- *)
(* Types                                                                     *)
(* ------------------------------------------------------------------------- *)

\* The records that the actions write have the right fields.
LEMMA NewRecords ==
    /\ \A f \in Flow, b \in Browser \cup {NoBrowser}, s \in BOOLEAN :
           NewGrant(f, b, s) \in GrantRec
    /\ \A p \in ReqPC, g \in Grant \cup {NoGrant}, b \in Browser \cup {NoBrowser},
          c \in BOOLEAN : Request(p, g, b, c) \in ReqRec
    /\ \A p \in AttPC, g \in Grant \cup {NoGrant} : NewAttempt(p, g) \in AttRec
    /\ IdleReq \in ReqRec
    /\ UnusedAtt \in AttRec
  BY DEF NewGrant, GrantRec, Flow, Status, Request, IdleReq, ReqRec, ReqPC,
         NewAttempt, UnusedAtt, AttRec, AttPC

\* A grant record has fields of their types and keeps them under each update
\* that an action makes.
LEMMA GrantUpdates ==
  ASSUME NEW x \in GrantRec
  PROVE  /\ x.flow \in Flow /\ x.status \in Status /\ x.started \in BOOLEAN
         /\ x.binder \in Browser \cup {NoBrowser}
         /\ x.login \in Login \cup {NoLogin}
         /\ x.secret \in Token \cup {NoToken}
         /\ x.cancel \in Attempt \cup {NoAttempt}
         /\ \A v \in Status : [x EXCEPT !.status = v] \in GrantRec
         /\ \A v \in BOOLEAN : [x EXCEPT !.started = v] \in GrantRec
         /\ \A v \in BOOLEAN, b \in Browser \cup {NoBrowser} :
                [x EXCEPT !.started = v, !.binder = b] \in GrantRec
         /\ \A v \in Attempt : [x EXCEPT !.cancel = v] \in GrantRec
         /\ \A v \in Token \cup {NoToken} : [x EXCEPT !.secret = v] \in GrantRec
         /\ \A v \in Status, w \in Login \cup {NoLogin} :
                [x EXCEPT !.status = v, !.login = w] \in GrantRec
  BY DEF GrantRec

\* The same of the request records.
LEMMA RequestUpdates ==
  ASSUME NEW x \in ReqRec
  PROVE  /\ x.pc \in ReqPC /\ x.g \in Grant \cup {NoGrant}
         /\ x.b \in Browser \cup {NoBrowser} /\ x.setsCookie \in BOOLEAN
         /\ x.a \in Attempt \cup {NoAttempt} /\ x.t \in Token \cup {NoToken}
         /\ \A p \in ReqPC : [x EXCEPT !.pc = p] \in ReqRec
         /\ \A p \in ReqPC, a \in Attempt : [x EXCEPT !.pc = p, !.a = a] \in ReqRec
         /\ \A p \in ReqPC, t \in Token : [x EXCEPT !.pc = p, !.t = t] \in ReqRec
  BY DEF ReqRec

\* The same of the attempt records.
LEMMA AttemptUpdates ==
  ASSUME NEW x \in AttRec
  PROVE  /\ x.pc \in AttPC /\ x.g \in Grant \cup {NoGrant}
         /\ x.who \in Login \cup {NoLogin} /\ x.cancelled \in BOOLEAN
         /\ \A v \in BOOLEAN : [x EXCEPT !.disclosed = v] \in AttRec
         /\ \A v \in BOOLEAN : [x EXCEPT !.cancelled = v] \in AttRec
         /\ \A p \in AttPC : [x EXCEPT !.pc = p] \in AttRec
         /\ \A p \in AttPC, v \in BOOLEAN :
                /\ [x EXCEPT !.pc = p, !.sentCode = v] \in AttRec
                /\ [x EXCEPT !.pc = p, !.sentErr = v] \in AttRec
                /\ [x EXCEPT !.pc = p, !.cancelled = v] \in AttRec
         /\ \A p \in AttPC, w \in Login \cup {NoLogin} :
                [x EXCEPT !.pc = p, !.who = w] \in AttRec
  BY DEF AttRec

\* Calling CancelFuncs changes nothing else of an attempt.
LEMMA CancelledForType ==
  ASSUME TypeOK, NEW G
  PROVE  CancelledFor(G) \in [Attempt -> AttRec]
  BY AttemptUpdates DEF TypeOK, CancelledFor

\* The initial state is well typed.
LEMMA TypeInit == Init => TypeOK
<1>1. NewGrant("device", NoBrowser, FALSE) \in GrantRec
  BY NewRecords DEF Flow
<1>2. IdleReq \in ReqRec /\ UnusedAtt \in AttRec
  BY NewRecords
<1> SUFFICES ASSUME Init PROVE TypeOK
  OBVIOUS
<1>3. grants \in [Grant -> GrantRec]
  BY <1>1 DEF Init
<1>4. req \in [Req -> ReqRec] /\ att \in [Attempt -> AttRec]
  BY <1>2 DEF Init
<1>5. /\ minted \in [Token -> Grant \cup {NoGrant}]
      /\ minter \in [Token -> Browser \cup {NoBrowser}]
      /\ handed \in [Token -> Nat]
  BY DEF Init
<1> QED
  BY <1>3, <1>4, <1>5 DEF Init, TypeOK

\* Every step keeps the types.
LEMMA TypeStep == ASSUME TypeOK, [Next]_vars PROVE TypeOK'
<1> USE DEF TypeOK, tokenVars
<1>1. ASSUME NEW g \in Grant, DeviceCode(g) PROVE TypeOK'
  BY <1>1, NewRecords DEF DeviceCode, Flow, Add
<1>2. ASSUME NEW g \in Grant, Expire(g) PROVE TypeOK'
  BY <1>2 DEF Expire
<1>3. ASSUME NEW g \in Grant, AccessToken(g) PROVE TypeOK'
  <2>1. grants[g].secret \in Token
    BY <1>3, GrantUpdates DEF AccessToken
  <2>2. handed' \in [Token -> Nat]
    BY <1>3, <2>1 DEF AccessToken
  <2>3. att' \in [Attempt -> AttRec]
    BY <1>3, CancelledForType DEF AccessToken
  <2> QED
    BY <1>3, <2>2, <2>3 DEF AccessToken
<1>4. ASSUME NEW g \in Grant, NEW b \in Browser, AuthorizePageWeb(g, b) PROVE TypeOK'
  BY <1>4, NewRecords DEF AuthorizePageWeb, Flow, Add
<1>5. ASSUME NEW r \in Req, NEW g \in Grant, NEW b \in Browser, StartStandalone(r, g, b) PROVE TypeOK'
  BY <1>5, NewRecords DEF StartStandalone, Flow, ReqPC, Add
<1>6. ASSUME NEW r \in Req, NEW g \in Grant, NEW b \in Browser, Begin(r, g, b) PROVE TypeOK'
  BY <1>6, NewRecords, GrantUpdates DEF Begin, ReqPC, WithGrant
<1>7. ASSUME NEW r \in Req, NEW g \in Grant, NEW b \in Browser, Reserve(r, g, b) PROVE TypeOK'
  <2>1. PICK keysValid \in BOOLEAN :
           req' = [req EXCEPT ![r] =
               Request(IF GrantCookieMatches(b, g) /\ keysValid
                       THEN "mint" ELSE "revert", g, b, FALSE)]
    BY <1>7 DEF Reserve
  <2>2. req' \in [Req -> ReqRec]
    BY <2>1, NewRecords DEF ReqPC
  <2>3. grants' \in [Grant -> GrantRec]
    BY <1>7, GrantUpdates DEF Reserve, Status, WithGrant
  <2> QED
    BY <1>7, <2>2, <2>3 DEF Reserve
<1>8. ASSUME NEW r \in Req, NEW a \in Attempt, Launch(r, a) PROVE TypeOK'
  BY <1>8, NewRecords, GrantUpdates, RequestUpdates, CancelledForType DEF Launch, ReqPC, AttPC, WithGrant
<1>9. ASSUME NEW r \in Req, StartAnswered(r) PROVE TypeOK'
  <2>1. CookieAfterReply(r) \in [Browser -> Grant \cup {NoGrant}]
    BY RequestUpdates DEF CookieAfterReply
  <2>2. cookie' \in [Browser -> Grant \cup {NoGrant}]
    BY <1>9, <2>1 DEF StartAnswered
  <2>3. att' \in [Attempt -> AttRec]
    <3> DEFINE x == req[r].a
    <3>1. CASE x \in Attempt
      <4>1. [att[x] EXCEPT !.disclosed = TRUE] \in AttRec
        BY <3>1, AttemptUpdates
      <4> QED
        BY <1>9, <4>1 DEF StartAnswered
    <3>2. CASE x \notin Attempt
      BY <1>9, <3>2 DEF StartAnswered
    <3> QED
      BY <3>1, <3>2
  <2>4. req' \in [Req -> ReqRec]
    BY <1>9, NewRecords DEF StartAnswered
  <2> QED
    BY <1>9, <2>2, <2>3, <2>4 DEF StartAnswered
<1>10. ASSUME NEW r \in Req, StartFails(r) PROVE TypeOK'
  BY <1>10, RequestUpdates DEF StartFails, ReqPC
<1>11. ASSUME NEW r \in Req, AfterFailedStart(r) PROVE TypeOK'
  <2>1. CookieAfterReply(r) \in [Browser -> Grant \cup {NoGrant}]
    BY RequestUpdates DEF CookieAfterReply
  <2>2. cookie' \in [Browser -> Grant \cup {NoGrant}]
    BY <1>11, <2>1 DEF AfterFailedStart
  <2>3. att' \in [Attempt -> AttRec]
    BY <1>11, CancelledForType DEF AfterFailedStart
  <2>4. grants' \in [Grant -> GrantRec]
    <3> DEFINE x == req[r].g
    <3>1. Live(x) => x \in Grant
      BY DEF Live
    <3>2. x \in Grant => [grants[x] EXCEPT !.started = FALSE] \in GrantRec
      BY GrantUpdates
    <3> QED
      BY <1>11, <3>1, <3>2 DEF AfterFailedStart, WithGrant
  <2>5. req' \in [Req -> ReqRec]
    BY <1>11, NewRecords DEF AfterFailedStart
  <2> QED
    BY <1>11, <2>2, <2>3, <2>4, <2>5 DEF AfterFailedStart
<1>12. ASSUME NEW r \in Req, Revert(r) PROVE TypeOK'
  BY <1>12, NewRecords, GrantUpdates DEF Revert, Status, WithGrant
<1>13. ASSUME NEW r \in Req, Mint(r) PROVE TypeOK'
  <2>1. req' \in [Req -> ReqRec]
    <3>1. [req[r] EXCEPT !.pc = "mintfail"] \in ReqRec
      BY RequestUpdates DEF ReqPC
    <3>2. \A t \in Token : [req[r] EXCEPT !.pc = "fill", !.t = t] \in ReqRec
      BY RequestUpdates DEF ReqPC
    <3>3. \/ \E t \in Token : req' = [req EXCEPT ![r] = [@ EXCEPT !.pc = "fill", !.t = t]]
          \/ req' = [req EXCEPT ![r] = [@ EXCEPT !.pc = "mintfail"]]
      BY <1>13 DEF Mint
    <3> QED
      BY <3>1, <3>2, <3>3
  <2>2. /\ minted' \in [Token -> Grant \cup {NoGrant}]
        /\ minter' \in [Token -> Browser \cup {NoBrowser}]
    <3>1. /\ req[r].g \in Grant \cup {NoGrant}
          /\ req[r].b \in Browser \cup {NoBrowser}
      BY RequestUpdates
    <3> QED
      BY <1>13, <3>1 DEF Mint
  <2> QED
    BY <1>13, <2>1, <2>2 DEF Mint
<1>14. ASSUME NEW r \in Req, MintFailed(r) PROVE TypeOK'
  BY <1>14, NewRecords, GrantUpdates DEF MintFailed, Status, WithGrant
<1>15. ASSUME NEW r \in Req, Fill(r) PROVE TypeOK'
  BY <1>15, NewRecords, GrantUpdates, RequestUpdates DEF Fill, WithGrant
<1>16. ASSUME NEW a \in Attempt, ContextExpires(a) PROVE TypeOK'
  BY <1>16, AttemptUpdates DEF ContextExpires, AttPC
<1>17. ASSUME NEW a \in Attempt, CodeArrives(a) PROVE TypeOK'
  BY <1>17, AttemptUpdates DEF CodeArrives, AttPC
<1>18. ASSUME NEW a \in Attempt, FlowFails(a) PROVE TypeOK'
  BY <1>18, AttemptUpdates DEF FlowFails, AttPC
<1>19. ASSUME NEW a \in Attempt, FlowCancelled(a) PROVE TypeOK'
  BY <1>19, AttemptUpdates DEF FlowCancelled, AttPC
<1>20. ASSUME NEW a \in Attempt, NEW who \in Login, Authorised(a, who) PROVE TypeOK'
  BY <1>20, AttemptUpdates DEF Authorised, AttPC
<1>21. ASSUME NEW a \in Attempt, IdentityFails(a) PROVE TypeOK'
  BY <1>21, AttemptUpdates DEF IdentityFails, AttPC
<1>22. ASSUME NEW a \in Attempt, OwnerSignIn(a) PROVE TypeOK'
  <2>1. att' \in [Attempt -> AttRec]
    <3>1. [att[a] EXCEPT !.pc = "settle"] \in AttRec
      BY AttemptUpdates DEF AttPC
    <3>2. [att[a] EXCEPT !.pc = "deny"] \in AttRec
      BY AttemptUpdates DEF AttPC
    <3> QED
      BY <1>22, <3>1, <3>2 DEF OwnerSignIn
  <2>2. owner' \in Login \cup {NoLogin}
    BY <1>22, AttemptUpdates DEF OwnerSignIn
  <2> QED
    BY <1>22, <2>1, <2>2 DEF OwnerSignIn
<1>23. ASSUME NEW a \in Attempt, Settle(a) PROVE TypeOK'
  <2>1. att' \in [Attempt -> AttRec]
    <3>1. [att[a] EXCEPT !.pc = "done", !.cancelled = TRUE] \in AttRec
      BY AttemptUpdates DEF AttPC
    <3> QED
      BY <1>23, <3>1 DEF Settle
  <2>2. grants' \in [Grant -> GrantRec]
    <3> DEFINE g == att[a].g
               x == grants[g]
               y == IF x.status = "pending"
                 THEN [x EXCEPT !.status = "authenticated", !.login = att[a].who] ELSE x
    <3>1. Live(g) => g \in Grant
      BY DEF Live
    <3>2. ASSUME g \in Grant PROVE y \in GrantRec
      <4>1. x \in GrantRec
        BY <3>2
      <4>2. att[a].who \in Login \cup {NoLogin}
        BY AttemptUpdates
      <4> HIDE DEF x
      <4>3. [x EXCEPT !.status = "authenticated", !.login = att[a].who] \in GrantRec
        BY <4>1, <4>2, GrantUpdates DEF Status
      <4> QED
        BY <4>1, <4>3
    <3>3. WithGrant(g, y)
      BY <1>23 DEF Settle
    <3> HIDE DEF g, y
    <3> QED
      BY <3>1, <3>2, <3>3 DEF WithGrant
  <2> QED
    BY <1>23, <2>1, <2>2 DEF Settle
<1>24. ASSUME NEW a \in Attempt, DenyGrant(a) PROVE TypeOK'
  <2>1. att' \in [Attempt -> AttRec]
    <3>1. [att[a] EXCEPT !.pc = "done", !.cancelled = TRUE] \in AttRec
      BY AttemptUpdates DEF AttPC
    <3> QED
      BY <1>24, <3>1 DEF DenyGrant
  <2>2. grants' \in [Grant -> GrantRec]
    <3> DEFINE g == att[a].g
               x == grants[g]
               y == IF x.status = "pending" THEN [x EXCEPT !.status = "denied"] ELSE x
    <3>1. Live(g) => g \in Grant
      BY DEF Live
    <3>2. ASSUME g \in Grant PROVE y \in GrantRec
      <4>1. x \in GrantRec
        BY <3>2
      <4> HIDE DEF x
      <4>2. [x EXCEPT !.status = "denied"] \in GrantRec
        BY <4>1, GrantUpdates DEF Status
      <4> QED
        BY <4>1, <4>2
    <3>3. WithGrant(g, y)
      BY <1>24 DEF DenyGrant
    <3> HIDE DEF g, y
    <3> QED
      BY <3>1, <3>2, <3>3 DEF WithGrant
  <2> QED
    BY <1>24, <2>1, <2>2 DEF DenyGrant
<1>25. ASSUME Sweep PROVE TypeOK'
  BY <1>25, CancelledForType DEF Sweep
<1>26. ASSUME Restart PROVE TypeOK'
  BY <1>26, NewRecords DEF Restart
<1>27. CASE UNCHANGED vars
  BY <1>27 DEF vars
<1> QED
  BY <1>1, <1>2, <1>3, <1>4, <1>5, <1>6, <1>7, <1>8, <1>9, <1>10, <1>11, <1>12, <1>13, <1>14, <1>15, <1>16, <1>17, <1>18, <1>19, <1>20, <1>21, <1>22, <1>23, <1>24, <1>25, <1>26, <1>27
  DEF Next, BrowserStep, ReqStep, AttStep

\* Every step keeps the inductive invariant.
LEMMA IInvStep == ASSUME IInv, [Next]_vars PROVE IInv'
<1> USE SentinelAssumption DEF IInv, TypeOK, tokenVars
<1>0. TypeOK'
  BY TypeStep
<1>1. ASSUME NEW g \in Grant, DeviceCode(g) PROVE IInv'
  <2>1. /\ g \notin used /\ g \notin stored
        /\ stored' = stored \cup {g} /\ used' = used \cup {g}
        /\ \A x \in Grant : x # g => grants'[x] = grants[x]
        /\ grants'[g].status = "pending" /\ grants'[g].secret = NoToken
    BY <1>1 DEF DeviceCode, Add, NewGrant
  <2>2. UNCHANGED <<expired, owner, minted, minter, handed>>
    BY <1>1 DEF DeviceCode
  <2>3. UNCHANGED <<cookie, req, att>>
    BY <1>1 DEF DeviceCode
  <2>4. NamesKnownGrants'
    BY <2>1, <2>2, <2>3 DEF NamesKnownGrants
  <2>5. CookieIsBinders'
    BY <2>1, <2>2, <2>3 DEF CookieIsBinders, NamesKnownGrants
  <2>6. HolderIsExclusive'
    BY <2>1, <2>2, <2>3 DEF HolderIsExclusive, NamesKnownGrants, Holds
  <2>7. ReservedIsHeld'
    BY <2>1, <2>2, <2>3 DEF ReservedIsHeld, Holds, Reserved, Live
  <2>8. TokensAccounted'
    BY <2>1, <2>2, <2>3 DEF TokensAccounted, NamesKnownGrants, HolderIsExclusive, Holds, Live
  <2>9. OneTokenPerGrant'
    BY <2>1, <2>2, <2>3 DEF OneTokenPerGrant
  <2>10. MinterIsBinder'
    BY <2>1, <2>2, <2>3 DEF MinterIsBinder, NamesKnownGrants, CookieIsBinders
  <2>11. MintedByBinder'
    BY <2>1, <2>2, <2>3 DEF MintedByBinder, NamesKnownGrants
  <2>12. HandedIsConsumed'
    BY <2>1, <2>2, <2>3 DEF HandedIsConsumed, NamesKnownGrants
  <2>13. SettlesAsOwner'
    BY <2>1, <2>2, <2>3 DEF SettlesAsOwner
  <2>14. AuthenticatedAsOwner'
    BY <2>1, <2>2, <2>3 DEF AuthenticatedAsOwner
  <2> QED
    BY <1>0, <2>4, <2>5, <2>6, <2>7, <2>8, <2>9, <2>10, <2>11, <2>12, <2>13, <2>14 DEF IInv
<1>2. ASSUME NEW g \in Grant, Expire(g) PROVE IInv'
  <2>1. NamesKnownGrants'
    BY <1>2 DEF Expire, NamesKnownGrants, Holds, Live, Reserved, GrantRec, ReqRec, AttRec
  <2>2. CookieIsBinders'
    BY <1>2 DEF Expire, CookieIsBinders, Holds, Live, Reserved, GrantRec, ReqRec, AttRec
  <2>3. HolderIsExclusive'
    BY <1>2 DEF Expire, HolderIsExclusive, Holds, Live, Reserved, GrantRec, ReqRec, AttRec
  <2>4. ReservedIsHeld'
    BY <1>2 DEF Expire, ReservedIsHeld, Holds, Live, Reserved, GrantRec, ReqRec, AttRec
  <2>5. TokensAccounted'
    BY <1>2 DEF Expire, TokensAccounted, Holds, Live, Reserved, GrantRec, ReqRec, AttRec
  <2>6. OneTokenPerGrant'
    BY <1>2 DEF Expire, OneTokenPerGrant, Holds, Live, Reserved, GrantRec, ReqRec, AttRec
  <2>7. MinterIsBinder'
    BY <1>2 DEF Expire, MinterIsBinder, Holds, Live, Reserved, GrantRec, ReqRec, AttRec
  <2>8. MintedByBinder'
    BY <1>2 DEF Expire, MintedByBinder, Holds, Live, Reserved, GrantRec, ReqRec, AttRec
  <2>9. HandedIsConsumed'
    BY <1>2 DEF Expire, HandedIsConsumed, Holds, Live, Reserved, GrantRec, ReqRec, AttRec
  <2>10. SettlesAsOwner'
    BY <1>2 DEF Expire, SettlesAsOwner, Holds, Live, Reserved, GrantRec, ReqRec, AttRec
  <2>11. AuthenticatedAsOwner'
    BY <1>2 DEF Expire, AuthenticatedAsOwner, Holds, Live, Reserved, GrantRec, ReqRec, AttRec
  <2> QED
    BY <1>0, <2>1, <2>2, <2>3, <2>4, <2>5, <2>6, <2>7, <2>8, <2>9, <2>10, <2>11
<1>3. ASSUME NEW g \in Grant, AccessToken(g) PROVE IInv'
  <2>1. /\ UNCHANGED <<grants, expired, used, cookie, req, owner, minted, minter>>
        /\ g \in stored /\ stored' = stored \ {g}
        /\ grants[g].secret \in Token /\ minted[grants[g].secret] = g
        /\ handed' = [handed EXCEPT ![grants[g].secret] = @ + 1]
    BY <1>3 DEF AccessToken, Live, GrantRec, TokensAccounted
  <2>2. \A a \in Attempt : /\ att'[a].pc = att[a].pc
                           /\ att'[a].g = att[a].g
                           /\ att'[a].who = att[a].who
    BY <1>3 DEF AccessToken, CancelledFor, AttRec
  <2>3. handed[grants[g].secret] = 0
    BY <2>1 DEF HandedIsConsumed
  <2>4. NamesKnownGrants'
    BY <2>1, <2>2, <2>3 DEF NamesKnownGrants
  <2>5. CookieIsBinders'
    BY <2>1, <2>2, <2>3 DEF CookieIsBinders, NamesKnownGrants
  <2>6. HolderIsExclusive'
    BY <2>1, <2>2, <2>3 DEF HolderIsExclusive, NamesKnownGrants, Holds
  <2>7. ReservedIsHeld'
    BY <2>1, <2>2, <2>3 DEF ReservedIsHeld, Holds, Reserved, Live
  <2>8. TokensAccounted'
    BY <2>1, <2>2, <2>3 DEF TokensAccounted, NamesKnownGrants, HolderIsExclusive, Holds, Live
  <2>9. OneTokenPerGrant'
    BY <2>1, <2>2, <2>3 DEF OneTokenPerGrant
  <2>10. MinterIsBinder'
    BY <2>1, <2>2, <2>3 DEF MinterIsBinder, NamesKnownGrants, CookieIsBinders
  <2>11. MintedByBinder'
    BY <2>1, <2>2, <2>3 DEF MintedByBinder, NamesKnownGrants
  <2>12. HandedIsConsumed'
    BY <2>1, <2>2, <2>3 DEF HandedIsConsumed, NamesKnownGrants
  <2>13. SettlesAsOwner'
    BY <2>1, <2>2, <2>3 DEF SettlesAsOwner
  <2>14. AuthenticatedAsOwner'
    BY <2>1, <2>2, <2>3 DEF AuthenticatedAsOwner
  <2> QED
    BY <1>0, <2>4, <2>5, <2>6, <2>7, <2>8, <2>9, <2>10, <2>11, <2>12, <2>13, <2>14 DEF IInv
<1>4. ASSUME NEW g \in Grant, NEW b \in Browser, AuthorizePageWeb(g, b) PROVE IInv'
  <2>1. /\ g \notin used /\ g \notin stored
        /\ stored' = stored \cup {g} /\ used' = used \cup {g}
        /\ \A x \in Grant : x # g => grants'[x] = grants[x]
        /\ grants'[g].status = "pending" /\ grants'[g].secret = NoToken
        /\ grants'[g].binder = b
    BY <1>4 DEF AuthorizePageWeb, Add, NewGrant
  <2>2. UNCHANGED <<expired, owner, minted, minter, handed>>
    BY <1>4 DEF AuthorizePageWeb
  <2>3. /\ UNCHANGED <<req, att>>
        /\ \A x \in Browser : cookie'[x] = cookie[x] \/ (x = b /\ cookie'[x] = g)
    BY <1>4 DEF AuthorizePageWeb
  <2>4. NamesKnownGrants'
    BY <2>1, <2>2, <2>3 DEF NamesKnownGrants
  <2>5. CookieIsBinders'
    BY <2>1, <2>2, <2>3 DEF CookieIsBinders, NamesKnownGrants
  <2>6. HolderIsExclusive'
    BY <2>1, <2>2, <2>3 DEF HolderIsExclusive, NamesKnownGrants, Holds
  <2>7. ReservedIsHeld'
    BY <2>1, <2>2, <2>3 DEF ReservedIsHeld, Holds, Reserved, Live
  <2>8. TokensAccounted'
    BY <2>1, <2>2, <2>3 DEF TokensAccounted, NamesKnownGrants, HolderIsExclusive, Holds, Live
  <2>9. OneTokenPerGrant'
    BY <2>1, <2>2, <2>3 DEF OneTokenPerGrant
  <2>10. MinterIsBinder'
    BY <2>1, <2>2, <2>3 DEF MinterIsBinder, NamesKnownGrants, CookieIsBinders
  <2>11. MintedByBinder'
    BY <2>1, <2>2, <2>3 DEF MintedByBinder, NamesKnownGrants
  <2>12. HandedIsConsumed'
    BY <2>1, <2>2, <2>3 DEF HandedIsConsumed, NamesKnownGrants
  <2>13. SettlesAsOwner'
    BY <2>1, <2>2, <2>3 DEF SettlesAsOwner
  <2>14. AuthenticatedAsOwner'
    BY <2>1, <2>2, <2>3 DEF AuthenticatedAsOwner
  <2> QED
    BY <1>0, <2>4, <2>5, <2>6, <2>7, <2>8, <2>9, <2>10, <2>11, <2>12, <2>13, <2>14 DEF IInv
<1>5. ASSUME NEW r \in Req, NEW g \in Grant, NEW b \in Browser, StartStandalone(r, g, b) PROVE IInv'
  <2>1. /\ g \notin used /\ g \notin stored
        /\ stored' = stored \cup {g} /\ used' = used \cup {g}
        /\ \A x \in Grant : x # g => grants'[x] = grants[x]
        /\ grants'[g].status = "pending" /\ grants'[g].secret = NoToken
        /\ grants'[g].binder = b
    BY <1>5 DEF StartStandalone, Add, NewGrant
  <2>2. UNCHANGED <<expired, owner, minted, minter, handed>>
    BY <1>5 DEF StartStandalone
  <2>3. /\ UNCHANGED <<cookie, att>>
        /\ req[r].pc = "idle" /\ req'[r].pc = "launch"
        /\ req'[r].g = g /\ req'[r].b = b
        /\ \A q \in Req : q # r => req'[q] = req[q]
    BY <1>5 DEF StartStandalone, Request
  <2>4. NamesKnownGrants'
    BY <2>1, <2>2, <2>3 DEF NamesKnownGrants
  <2>5. CookieIsBinders'
    BY <2>1, <2>2, <2>3 DEF CookieIsBinders, NamesKnownGrants
  <2>6. HolderIsExclusive'
    BY <2>1, <2>2, <2>3 DEF HolderIsExclusive, NamesKnownGrants, Holds
  <2>7. ReservedIsHeld'
    BY <2>1, <2>2, <2>3 DEF ReservedIsHeld, Holds, Reserved, Live
  <2>8. TokensAccounted'
    BY <2>1, <2>2, <2>3 DEF TokensAccounted, NamesKnownGrants, HolderIsExclusive, Holds, Live
  <2>9. OneTokenPerGrant'
    BY <2>1, <2>2, <2>3 DEF OneTokenPerGrant
  <2>10. MinterIsBinder'
    BY <2>1, <2>2, <2>3 DEF MinterIsBinder, NamesKnownGrants, CookieIsBinders
  <2>11. MintedByBinder'
    BY <2>1, <2>2, <2>3 DEF MintedByBinder, NamesKnownGrants
  <2>12. HandedIsConsumed'
    BY <2>1, <2>2, <2>3 DEF HandedIsConsumed, NamesKnownGrants
  <2>13. SettlesAsOwner'
    BY <2>1, <2>2, <2>3 DEF SettlesAsOwner
  <2>14. AuthenticatedAsOwner'
    BY <2>1, <2>2, <2>3 DEF AuthenticatedAsOwner
  <2> QED
    BY <1>0, <2>4, <2>5, <2>6, <2>7, <2>8, <2>9, <2>10, <2>11, <2>12, <2>13, <2>14 DEF IInv
<1>6. ASSUME NEW r \in Req, NEW g \in Grant, NEW b \in Browser, Begin(r, g, b) PROVE IInv'
  <2>1. /\ g \in stored /\ g \in used
        /\ \A x \in Grant : x # g => grants'[x] = grants[x]
        /\ grants'[g].status = grants[g].status
        /\ grants'[g].secret = grants[g].secret
        /\ grants'[g].login = grants[g].login
        /\ grants'[g].binder = IF grants[g].binder = NoBrowser THEN b ELSE grants[g].binder
    BY <1>6 DEF Begin, WithGrant, Live, GrantRec
  <2>2. /\ UNCHANGED <<stored, expired, used, cookie, att, owner, minted, minter, handed>>
        /\ req[r].pc = "idle" /\ req'[r].pc = "launch"
        /\ req'[r].g = g /\ req'[r].b = b
        /\ req'[r].setsCookie <=> grants[g].binder = NoBrowser
        /\ \A q \in Req : q # r => req'[q] = req[q]
    BY <1>6 DEF Begin, Request
  <2>3. NamesKnownGrants'
    BY <2>1, <2>2 DEF NamesKnownGrants
  <2>4. CookieIsBinders'
    BY <2>1, <2>2 DEF CookieIsBinders, NamesKnownGrants
  <2>5. HolderIsExclusive'
    BY <2>1, <2>2 DEF HolderIsExclusive, NamesKnownGrants, Holds
  <2>6. ReservedIsHeld'
    BY <2>1, <2>2 DEF ReservedIsHeld, Holds, Reserved, Live
  <2>7. TokensAccounted'
    BY <2>1, <2>2 DEF TokensAccounted, NamesKnownGrants, HolderIsExclusive, Holds, Live
  <2>8. OneTokenPerGrant'
    BY <2>1, <2>2 DEF OneTokenPerGrant
  <2>9. MinterIsBinder'
    BY <2>1, <2>2 DEF MinterIsBinder, NamesKnownGrants, CookieIsBinders
  <2>10. MintedByBinder'
    BY <2>1, <2>2 DEF MintedByBinder, NamesKnownGrants
  <2>11. HandedIsConsumed'
    BY <2>1, <2>2 DEF HandedIsConsumed, NamesKnownGrants
  <2>12. SettlesAsOwner'
    BY <2>1, <2>2 DEF SettlesAsOwner
  <2>13. AuthenticatedAsOwner'
    BY <2>1, <2>2 DEF AuthenticatedAsOwner
  <2> QED
    BY <1>0, <2>3, <2>4, <2>5, <2>6, <2>7, <2>8, <2>9, <2>10, <2>11, <2>12, <2>13 DEF IInv
<1>7. ASSUME NEW r \in Req, NEW g \in Grant, NEW b \in Browser, Reserve(r, g, b) PROVE IInv'
  <2>1. PICK keysValid \in BOOLEAN :
           req' = [req EXCEPT ![r] =
               Request(IF GrantCookieMatches(b, g) /\ keysValid
                       THEN "mint" ELSE "revert", g, b, FALSE)]
    BY <1>7 DEF Reserve
  <2>2. /\ req[r].pc = "idle" /\ req'[r].pc \in {"mint", "revert"}
        /\ req'[r].g = g /\ req'[r].b = b /\ ~req'[r].setsCookie
        /\ req'[r].pc = "mint" => GrantCookieMatches(b, g)
        /\ \A q \in Req : q # r => req'[q] = req[q]
    BY <1>7, <2>1 DEF Reserve, Request
  <2>3. /\ g \in stored /\ g \in used /\ g \notin expired
        /\ grants[g].status = "authenticated" /\ grants'[g].status = "approved"
        /\ grants'[g].secret = grants[g].secret
        /\ grants'[g].login = grants[g].login
        /\ grants'[g].binder = grants[g].binder
        /\ \A x \in Grant : x # g => grants'[x] = grants[x]
    BY <1>7 DEF Reserve, WithGrant, Live, GrantRec
  <2>4. UNCHANGED <<stored, expired, used, cookie, att, owner, minted, minter, handed>>
    BY <1>7 DEF Reserve
  <2>5. grants[g].secret = NoToken
    BY <2>3 DEF TokensAccounted
  <2>6. \A q \in Req : ~Holds(q, g)
    BY <2>3 DEF HolderIsExclusive
  <2>7. \A t \in Token : minted[t] # g
    BY <2>3, <2>5, <2>6 DEF TokensAccounted, Holds, Live
  <2>8. grants[g].binder = b \/ req'[r].pc = "revert"
    BY <2>2 DEF GrantCookieMatches, CookieIsBinders
  <2>9. NamesKnownGrants'
    BY <2>2, <2>3, <2>4, <2>5, <2>6, <2>7, <2>8 DEF NamesKnownGrants
  <2>10. CookieIsBinders'
    BY <2>2, <2>3, <2>4, <2>5, <2>6, <2>7, <2>8 DEF CookieIsBinders, NamesKnownGrants
  <2>11. HolderIsExclusive'
    BY <2>2, <2>3, <2>4, <2>5, <2>6, <2>7, <2>8 DEF HolderIsExclusive, NamesKnownGrants, Holds
  <2>12. ReservedIsHeld'
    BY <2>2, <2>3, <2>4, <2>5, <2>6, <2>7, <2>8 DEF ReservedIsHeld, Holds, Reserved, Live
  <2>13. TokensAccounted'
    BY <2>2, <2>3, <2>4, <2>5, <2>6, <2>7, <2>8 DEF TokensAccounted, NamesKnownGrants, HolderIsExclusive, Holds, Live
  <2>14. OneTokenPerGrant'
    BY <2>2, <2>3, <2>4, <2>5, <2>6, <2>7, <2>8 DEF OneTokenPerGrant
  <2>15. MinterIsBinder'
    BY <2>2, <2>3, <2>4, <2>5, <2>6, <2>7, <2>8 DEF MinterIsBinder, NamesKnownGrants, CookieIsBinders
  <2>16. MintedByBinder'
    BY <2>2, <2>3, <2>4, <2>5, <2>6, <2>7, <2>8 DEF MintedByBinder, NamesKnownGrants
  <2>17. HandedIsConsumed'
    BY <2>2, <2>3, <2>4, <2>5, <2>6, <2>7, <2>8 DEF HandedIsConsumed, NamesKnownGrants
  <2>18. SettlesAsOwner'
    BY <2>2, <2>3, <2>4, <2>5, <2>6, <2>7, <2>8 DEF SettlesAsOwner
  <2>19. AuthenticatedAsOwner'
    BY <2>2, <2>3, <2>4, <2>5, <2>6, <2>7, <2>8 DEF AuthenticatedAsOwner
  <2> QED
    BY <1>0, <2>9, <2>10, <2>11, <2>12, <2>13, <2>14, <2>15, <2>16, <2>17, <2>18, <2>19 DEF IInv
<1>8. ASSUME NEW r \in Req, NEW a \in Attempt, Launch(r, a) PROVE IInv'
  <2>1. /\ UNCHANGED <<stored, expired, used, cookie, owner, minted, minter, handed>>
        /\ req[r].pc = "launch" /\ req'[r].pc = "wait"
        /\ req'[r].g = req[r].g /\ req'[r].b = req[r].b
        /\ req'[r].setsCookie = req[r].setsCookie
        /\ req[r].g \in used
        /\ \A q \in Req : q # r => req'[q] = req[q]
    BY <1>8 DEF Launch, NamesKnownGrants, ReqRec
  <2>2. \A x \in Grant : /\ grants'[x].status = grants[x].status
                         /\ grants'[x].secret = grants[x].secret
                         /\ grants'[x].login = grants[x].login
                         /\ grants'[x].binder = grants[x].binder
    BY <1>8 DEF Launch, WithGrant, GrantRec
  <2>3. att'[a].pc = "flow" /\ att'[a].g = req[r].g
    BY <1>8, CancelledForType DEF Launch, NewAttempt
  <2>4. \A c \in Attempt : c # a => /\ att'[c].pc = att[c].pc
                                    /\ att'[c].g = att[c].g
                                    /\ att'[c].who = att[c].who
    BY <1>8 DEF Launch, CancelledFor, AttRec
  <2>5. \A q \in Req, x \in Grant : Holds(q, x)' <=> Holds(q, x)
    BY <2>1 DEF Holds
  <2>6. NamesKnownGrants'
    BY <2>1, <2>2, <2>3, <2>4, <2>5 DEF NamesKnownGrants
  <2>7. CookieIsBinders'
    BY <2>1, <2>2, <2>3, <2>4, <2>5 DEF CookieIsBinders, NamesKnownGrants
  <2>8. HolderIsExclusive'
    BY <2>1, <2>2, <2>3, <2>4, <2>5 DEF HolderIsExclusive, NamesKnownGrants, Holds
  <2>9. ReservedIsHeld'
    BY <2>1, <2>2, <2>3, <2>4, <2>5 DEF ReservedIsHeld, Holds, Reserved, Live
  <2>10. TokensAccounted'
    BY <2>1, <2>2, <2>3, <2>4, <2>5 DEF TokensAccounted, NamesKnownGrants, HolderIsExclusive, Holds, Live
  <2>11. OneTokenPerGrant'
    BY <2>1, <2>2, <2>3, <2>4, <2>5 DEF OneTokenPerGrant
  <2>12. MinterIsBinder'
    BY <2>1, <2>2, <2>3, <2>4, <2>5 DEF MinterIsBinder, NamesKnownGrants, CookieIsBinders
  <2>13. MintedByBinder'
    BY <2>1, <2>2, <2>3, <2>4, <2>5 DEF MintedByBinder, NamesKnownGrants
  <2>14. HandedIsConsumed'
    BY <2>1, <2>2, <2>3, <2>4, <2>5 DEF HandedIsConsumed, NamesKnownGrants
  <2>15. SettlesAsOwner'
    BY <2>1, <2>2, <2>3, <2>4, <2>5 DEF SettlesAsOwner
  <2>16. AuthenticatedAsOwner'
    BY <2>1, <2>2, <2>3, <2>4, <2>5 DEF AuthenticatedAsOwner
  <2> QED
    BY <1>0, <2>6, <2>7, <2>8, <2>9, <2>10, <2>11, <2>12, <2>13, <2>14, <2>15, <2>16 DEF IInv
<1>9. ASSUME NEW r \in Req, StartAnswered(r) PROVE IInv'
  <2>1. /\ UNCHANGED <<grants, stored, expired, used, owner, minted, minter, handed>>
        /\ req[r].pc = "wait" /\ req'[r].pc = "idle"
        /\ req[r].g \in used /\ req[r].b \in Browser
        /\ \A q \in Req : q # r => req'[q] = req[q]
    BY <1>9 DEF StartAnswered, NamesKnownGrants, IdleReq, Request
  <2>2. \A x \in Browser :
           \/ cookie'[x] = cookie[x]
           \/ cookie'[x] = req[r].g /\ grants[req[r].g].binder = x
    BY <1>9, <2>1 DEF StartAnswered, CookieAfterReply, CookieIsBinders
  <2>3. \A a \in Attempt : /\ att'[a].pc = att[a].pc
                           /\ att'[a].g = att[a].g
                           /\ att'[a].who = att[a].who
    BY <1>9 DEF StartAnswered, AttRec
  <2>4. \A q \in Req, x \in Grant : Holds(q, x)' <=> Holds(q, x)
    BY <2>1 DEF Holds
  <2>5. NamesKnownGrants'
    BY <2>1, <2>2, <2>3, <2>4 DEF NamesKnownGrants
  <2>6. CookieIsBinders'
    BY <2>1, <2>2, <2>3, <2>4 DEF CookieIsBinders, NamesKnownGrants
  <2>7. HolderIsExclusive'
    BY <2>1, <2>2, <2>3, <2>4 DEF HolderIsExclusive, NamesKnownGrants, Holds
  <2>8. ReservedIsHeld'
    BY <2>1, <2>2, <2>3, <2>4 DEF ReservedIsHeld, Holds, Reserved, Live
  <2>9. TokensAccounted'
    BY <2>1, <2>2, <2>3, <2>4 DEF TokensAccounted, NamesKnownGrants, HolderIsExclusive, Holds, Live
  <2>10. OneTokenPerGrant'
    BY <2>1, <2>2, <2>3, <2>4 DEF OneTokenPerGrant
  <2>11. MinterIsBinder'
    BY <2>1, <2>2, <2>3, <2>4 DEF MinterIsBinder, NamesKnownGrants, CookieIsBinders
  <2>12. MintedByBinder'
    BY <2>1, <2>2, <2>3, <2>4 DEF MintedByBinder, NamesKnownGrants
  <2>13. HandedIsConsumed'
    BY <2>1, <2>2, <2>3, <2>4 DEF HandedIsConsumed, NamesKnownGrants
  <2>14. SettlesAsOwner'
    BY <2>1, <2>2, <2>3, <2>4 DEF SettlesAsOwner
  <2>15. AuthenticatedAsOwner'
    BY <2>1, <2>2, <2>3, <2>4 DEF AuthenticatedAsOwner
  <2> QED
    BY <1>0, <2>5, <2>6, <2>7, <2>8, <2>9, <2>10, <2>11, <2>12, <2>13, <2>14, <2>15 DEF IInv
<1>10. ASSUME NEW r \in Req, StartFails(r) PROVE IInv'
  <2>1. NamesKnownGrants'
    BY <1>10 DEF StartFails, NamesKnownGrants, Holds, Live, Reserved, GrantRec, ReqRec, AttRec
  <2>2. CookieIsBinders'
    BY <1>10 DEF StartFails, CookieIsBinders, Holds, Live, Reserved, GrantRec, ReqRec, AttRec
  <2>3. HolderIsExclusive'
    BY <1>10 DEF StartFails, HolderIsExclusive, Holds, Live, Reserved, GrantRec, ReqRec, AttRec
  <2>4. ReservedIsHeld'
    BY <1>10 DEF StartFails, ReservedIsHeld, Holds, Live, Reserved, GrantRec, ReqRec, AttRec
  <2>5. TokensAccounted'
    BY <1>10 DEF StartFails, TokensAccounted, Holds, Live, Reserved, GrantRec, ReqRec, AttRec
  <2>6. OneTokenPerGrant'
    BY <1>10 DEF StartFails, OneTokenPerGrant, Holds, Live, Reserved, GrantRec, ReqRec, AttRec
  <2>7. MinterIsBinder'
    BY <1>10 DEF StartFails, MinterIsBinder, Holds, Live, Reserved, GrantRec, ReqRec, AttRec
  <2>8. MintedByBinder'
    BY <1>10 DEF StartFails, MintedByBinder, Holds, Live, Reserved, GrantRec, ReqRec, AttRec
  <2>9. HandedIsConsumed'
    BY <1>10 DEF StartFails, HandedIsConsumed, Holds, Live, Reserved, GrantRec, ReqRec, AttRec
  <2>10. SettlesAsOwner'
    BY <1>10 DEF StartFails, SettlesAsOwner, Holds, Live, Reserved, GrantRec, ReqRec, AttRec
  <2>11. AuthenticatedAsOwner'
    BY <1>10 DEF StartFails, AuthenticatedAsOwner, Holds, Live, Reserved, GrantRec, ReqRec, AttRec
  <2> QED
    BY <1>0, <2>1, <2>2, <2>3, <2>4, <2>5, <2>6, <2>7, <2>8, <2>9, <2>10, <2>11
<1>11. ASSUME NEW r \in Req, AfterFailedStart(r) PROVE IInv'
  <2>1. /\ UNCHANGED <<expired, used, owner, minted, minter, handed>>
        /\ req[r].pc = "startfail" /\ req'[r].pc = "idle"
        /\ req[r].g \in used /\ req[r].b \in Browser
        /\ \A q \in Req : q # r => req'[q] = req[q]
        /\ stored' \subseteq stored
        /\ stored' # stored => grants' = grants /\ stored' = stored \ {req[r].g}
    BY <1>11 DEF AfterFailedStart, NamesKnownGrants, IdleReq, Request
  <2>2. \A x \in Grant : /\ grants'[x].status = grants[x].status
                         /\ grants'[x].secret = grants[x].secret
                         /\ grants'[x].login = grants[x].login
                         /\ grants'[x].binder = grants[x].binder
    BY <1>11 DEF AfterFailedStart, WithGrant, GrantRec
  <2>3. \A x \in Browser :
           \/ cookie'[x] = cookie[x]
           \/ cookie'[x] = req[r].g /\ grants[req[r].g].binder = x
    BY <1>11, <2>1 DEF AfterFailedStart, CookieAfterReply, CookieIsBinders
  <2>4. \A a \in Attempt : /\ att'[a].pc = att[a].pc
                           /\ att'[a].g = att[a].g
                           /\ att'[a].who = att[a].who
    BY <1>11 DEF AfterFailedStart, CancelledFor, AttRec
  <2>5. \A q \in Req, x \in Grant : Holds(q, x)' <=> Holds(q, x)
    BY <2>1 DEF Holds
  <2>6. /\ \A x \in Grant : Live(x)' => Live(x)
        /\ \A q \in Req : /\ req'[q].pc \in {"revert", "mint", "mintfail", "fill"}
                             => req'[q] = req[q]
                         /\ req[q].pc = "fill" => req'[q] = req[q]
    BY <2>1 DEF Live
  <2>7. NamesKnownGrants'
    BY <2>1, <2>2, <2>3, <2>4, <2>5, <2>6 DEF NamesKnownGrants
  <2>8. CookieIsBinders'
    BY <2>1, <2>2, <2>3, <2>4, <2>5, <2>6 DEF CookieIsBinders, NamesKnownGrants
  <2>9. HolderIsExclusive'
    BY <2>1, <2>2, <2>3, <2>4, <2>5, <2>6 DEF HolderIsExclusive, NamesKnownGrants, Holds
  <2>10. ReservedIsHeld'
    BY <2>1, <2>2, <2>3, <2>4, <2>5, <2>6 DEF ReservedIsHeld, Holds, Reserved, Live
  <2>11. TokensAccounted'
    <3>1. \A g \in used' : grants'[g].secret # NoToken =>
             grants'[g].status = "approved" /\ minted'[grants'[g].secret] = g
      BY <2>1, <2>2 DEF TokensAccounted
    <3>2. \A q \in Req : req'[q].pc \in {"revert", "mint", "mintfail"} =>
             \A t \in Token : minted'[t] # req'[q].g
      BY <2>1, <2>6 DEF TokensAccounted
    <3>3. \A q \in Req : req'[q].pc = "fill" =>
             req'[q].t \in Token /\ minted'[req'[q].t] = req'[q].g
      BY <2>1, <2>6 DEF TokensAccounted
    <3>4. \A t \in Token : minted'[t] # NoGrant /\ Live(minted[t])' =>
             \/ grants'[minted'[t]].secret = t
             \/ \E q \in Req : req'[q].pc = "fill" /\ req'[q].g = minted'[t]
      <4> SUFFICES ASSUME NEW t \in Token, minted[t] # NoGrant, Live(minted[t])'
                   PROVE  \/ grants'[minted[t]].secret = t
                          \/ \E q \in Req : req'[q].pc = "fill" /\ req'[q].g = minted[t]
        BY <2>1
      <4>1. minted[t] \in Grant
        OBVIOUS
      <4>2. Live(minted[t])
        BY <2>1 DEF Live
      <4>3. CASE grants[minted[t]].secret = t
        BY <4>1, <4>3, <2>2
      <4>4. CASE \E q \in Req : req[q].pc = "fill" /\ req[q].g = minted[t]
        <5>1. PICK q \in Req : req[q].pc = "fill" /\ req[q].g = minted[t]
          BY <4>4
        <5>2. q # r
          BY <5>1, <2>1
        <5>3. req'[q] = req[q]
          BY <5>2, <2>1
        <5> QED
          BY <5>1, <5>3
      <4> QED
        BY <4>2, <4>3, <4>4 DEF TokensAccounted
    <3> QED
      BY <3>1, <3>2, <3>3, <3>4 DEF TokensAccounted
  <2>12. OneTokenPerGrant'
    BY <2>1, <2>2, <2>3, <2>4, <2>5, <2>6 DEF OneTokenPerGrant
  <2>13. MinterIsBinder'
    BY <2>1, <2>2, <2>3, <2>4, <2>5, <2>6 DEF MinterIsBinder, NamesKnownGrants, CookieIsBinders
  <2>14. MintedByBinder'
    BY <2>1, <2>2, <2>3, <2>4, <2>5, <2>6 DEF MintedByBinder, NamesKnownGrants
  <2>15. HandedIsConsumed'
    BY <2>1, <2>2, <2>3, <2>4, <2>5, <2>6 DEF HandedIsConsumed, NamesKnownGrants
  <2>16. SettlesAsOwner'
    BY <2>1, <2>2, <2>3, <2>4, <2>5, <2>6 DEF SettlesAsOwner
  <2>17. AuthenticatedAsOwner'
    BY <2>1, <2>2, <2>3, <2>4, <2>5, <2>6 DEF AuthenticatedAsOwner
  <2> QED
    BY <1>0, <2>7, <2>8, <2>9, <2>10, <2>11, <2>12, <2>13, <2>14, <2>15, <2>16, <2>17 DEF IInv
<1>12. ASSUME NEW r \in Req, Revert(r) PROVE IInv'
  <2>1. NamesKnownGrants'
    BY <1>12 DEF Revert, WithGrant, IdleReq, Request, NamesKnownGrants, Holds, Live, Reserved, GrantRec, ReqRec, AttRec
  <2>2. CookieIsBinders'
    BY <1>12 DEF Revert, WithGrant, IdleReq, Request, CookieIsBinders, Holds, Live, Reserved, GrantRec, ReqRec, AttRec
  <2>3. HolderIsExclusive'
    BY <1>12 DEF Revert, WithGrant, IdleReq, Request, HolderIsExclusive, Holds, Live, Reserved, GrantRec, ReqRec, AttRec
  <2>4. ReservedIsHeld'
    BY <1>12 DEF Revert, WithGrant, IdleReq, Request, ReservedIsHeld, Holds, Live, Reserved, GrantRec, ReqRec, AttRec
  <2>5. TokensAccounted'
    BY <1>12 DEF Revert, WithGrant, IdleReq, Request, TokensAccounted, Holds, Live, Reserved, GrantRec, ReqRec, AttRec
  <2>6. OneTokenPerGrant'
    BY <1>12 DEF Revert, WithGrant, IdleReq, Request, OneTokenPerGrant, Holds, Live, Reserved, GrantRec, ReqRec, AttRec
  <2>7. MinterIsBinder'
    BY <1>12 DEF Revert, WithGrant, IdleReq, Request, MinterIsBinder, Holds, Live, Reserved, GrantRec, ReqRec, AttRec
  <2>8. MintedByBinder'
    BY <1>12 DEF Revert, WithGrant, IdleReq, Request, MintedByBinder, Holds, Live, Reserved, GrantRec, ReqRec, AttRec
  <2>9. HandedIsConsumed'
    BY <1>12 DEF Revert, WithGrant, IdleReq, Request, HandedIsConsumed, Holds, Live, Reserved, GrantRec, ReqRec, AttRec
  <2>10. SettlesAsOwner'
    BY <1>12 DEF Revert, WithGrant, IdleReq, Request, SettlesAsOwner, Holds, Live, Reserved, GrantRec, ReqRec, AttRec
  <2>11. AuthenticatedAsOwner'
    BY <1>12 DEF Revert, WithGrant, IdleReq, Request, AuthenticatedAsOwner, Holds, Live, Reserved, GrantRec, ReqRec, AttRec
  <2> QED
    BY <1>0, <2>1, <2>2, <2>3, <2>4, <2>5, <2>6, <2>7, <2>8, <2>9, <2>10, <2>11
<1>13. ASSUME NEW r \in Req, Mint(r) PROVE IInv'
  <2>1. /\ UNCHANGED <<grants, stored, expired, used, cookie, att, owner, handed>>
        /\ req[r].pc = "mint"
    BY <1>13 DEF Mint
  <2>2. /\ req[r].g \in used /\ req[r].b \in Browser
        /\ \A t \in Token : minted[t] # req[r].g
    BY <2>1 DEF NamesKnownGrants, TokensAccounted
  <2>3. \A q \in Req : Holds(q, req[r].g) => q = r
    BY <2>1, <2>2 DEF HolderIsExclusive, Holds
  <2>4. req[r].b = grants[req[r].g].binder
    BY <2>1 DEF MinterIsBinder
  <2>5. ASSUME UNCHANGED <<minted, minter>>,
               req' = [req EXCEPT ![r] = [@ EXCEPT !.pc = "mintfail"]]
        PROVE  IInv'
    <3>1. /\ req'[r].pc = "mintfail"
          /\ req'[r].g = req[r].g /\ req'[r].b = req[r].b
          /\ req'[r].setsCookie = req[r].setsCookie
          /\ \A q \in Req : q # r => req'[q] = req[q]
      BY <2>5 DEF ReqRec
    <3>2. NamesKnownGrants'
      BY <2>1, <2>2, <2>3, <2>4, <2>5, <3>1 DEF NamesKnownGrants
    <3>3. CookieIsBinders'
      BY <2>1, <2>2, <2>3, <2>4, <2>5, <3>1 DEF CookieIsBinders, NamesKnownGrants
    <3>4. HolderIsExclusive'
      BY <2>1, <2>2, <2>3, <2>4, <2>5, <3>1 DEF HolderIsExclusive, NamesKnownGrants, Holds
    <3>5. ReservedIsHeld'
      BY <2>1, <2>2, <2>3, <2>4, <2>5, <3>1 DEF ReservedIsHeld, Holds, Reserved, Live
    <3>6. TokensAccounted'
      BY <2>1, <2>2, <2>3, <2>4, <2>5, <3>1 DEF TokensAccounted, NamesKnownGrants, HolderIsExclusive, Holds, Live
    <3>7. OneTokenPerGrant'
      BY <2>1, <2>2, <2>3, <2>4, <2>5, <3>1 DEF OneTokenPerGrant
    <3>8. MinterIsBinder'
      BY <2>1, <2>2, <2>3, <2>4, <2>5, <3>1 DEF MinterIsBinder, NamesKnownGrants, CookieIsBinders
    <3>9. MintedByBinder'
      BY <2>1, <2>2, <2>3, <2>4, <2>5, <3>1 DEF MintedByBinder, NamesKnownGrants
    <3>10. HandedIsConsumed'
      BY <2>1, <2>2, <2>3, <2>4, <2>5, <3>1 DEF HandedIsConsumed, NamesKnownGrants
    <3>11. SettlesAsOwner'
      BY <2>1, <2>2, <2>3, <2>4, <2>5, <3>1 DEF SettlesAsOwner
    <3>12. AuthenticatedAsOwner'
      BY <2>1, <2>2, <2>3, <2>4, <2>5, <3>1 DEF AuthenticatedAsOwner
    <3> QED
      BY <1>0, <3>2, <3>3, <3>4, <3>5, <3>6, <3>7, <3>8, <3>9, <3>10, <3>11, <3>12 DEF IInv
  <2>6. ASSUME NEW t \in Token, minted[t] = NoGrant,
               minted' = [minted EXCEPT ![t] = req[r].g],
               minter' = [minter EXCEPT ![t] = req[r].b],
               req' = [req EXCEPT ![r] = [@ EXCEPT !.pc = "fill", !.t = t]]
        PROVE  IInv'
    <3>1. /\ req'[r].pc = "fill" /\ req'[r].t = t
          /\ req'[r].g = req[r].g /\ req'[r].b = req[r].b
          /\ req'[r].setsCookie = req[r].setsCookie
          /\ \A q \in Req : q # r => req'[q] = req[q]
      BY <2>6 DEF ReqRec
    <3>2. /\ minted'[t] = req[r].g /\ minter'[t] = req[r].b
          /\ \A u \in Token : u # t => minted'[u] = minted[u] /\ minter'[u] = minter[u]
      BY <2>6
    <3>3. minted[t] = NoGrant /\ req[r].g \in Grant /\ req[r].g # NoGrant
      BY <2>2, <2>6
    <3>4. NamesKnownGrants'
      BY <2>1, <2>2, <2>3, <2>4, <3>1, <3>2, <3>3 DEF NamesKnownGrants
    <3>5. CookieIsBinders'
      BY <2>1, <2>2, <2>3, <2>4, <3>1, <3>2, <3>3 DEF CookieIsBinders, NamesKnownGrants
    <3>6. HolderIsExclusive'
      BY <2>1, <2>2, <2>3, <2>4, <3>1, <3>2, <3>3 DEF HolderIsExclusive, NamesKnownGrants, Holds
    <3>7. ReservedIsHeld'
      BY <2>1, <2>2, <2>3, <2>4, <3>1, <3>2, <3>3 DEF ReservedIsHeld, Holds, Reserved, Live
    <3>8. TokensAccounted'
      <4>1. \A x \in used' : grants'[x].secret # NoToken =>
               grants'[x].status = "approved" /\ minted'[grants'[x].secret] = x
        <5>1. ASSUME NEW x \in used, grants[x].secret # NoToken
              PROVE  grants[x].status = "approved" /\ minted'[grants[x].secret] = x
          <6>1. grants[x].status = "approved" /\ minted[grants[x].secret] = x
            BY <5>1 DEF TokensAccounted
          <6>2. grants[x].secret \in Token /\ grants[x].secret # t
            BY <3>3, <5>1, <6>1 DEF GrantRec
          <6> QED
            BY <3>2, <6>1, <6>2
        <5> QED
          BY <2>1, <5>1
      <4>2. ASSUME NEW q \in Req
            PROVE  /\ req'[q].pc \in {"revert", "mint", "mintfail"} =>
                         \A u \in Token : minted'[u] # req'[q].g
                   /\ req'[q].pc = "fill" =>
                         req'[q].t \in Token /\ minted'[req'[q].t] = req'[q].g
        <5>1. CASE q = r
          BY <3>1, <3>2, <5>1
        <5>2. CASE q # r
          <6>1. req'[q] = req[q]
            BY <3>1, <5>2
          <6>2. req[q].pc \in {"revert", "mint", "mintfail", "fill"} =>
                   req[q].g # req[r].g
            BY <2>3, <5>2 DEF Holds
          <6>3. req[q].pc = "fill" => req[q].t \in Token /\ minted[req[q].t] = req[q].g
                                      /\ req[q].t # t
            BY <2>1, <2>2, <3>3 DEF TokensAccounted, NamesKnownGrants
          <6> QED
            BY <3>2, <6>1, <6>2, <6>3 DEF TokensAccounted
        <5> QED
          BY <5>1, <5>2
      <4>3. ASSUME NEW u \in Token, minted'[u] # NoGrant, Live(minted[u])'
            PROVE  \/ grants'[minted'[u]].secret = u
                   \/ \E q \in Req : req'[q].pc = "fill" /\ req'[q].g = minted'[u]
        <5>1. CASE u = t
          BY <3>1, <3>2, <5>1
        <5>2. CASE u # t
          <6>1. minted'[u] = minted[u] /\ Live(minted[u])
            BY <2>1, <3>2, <4>3, <5>2 DEF Live
          <6>2. \/ grants[minted[u]].secret = u
                \/ \E q \in Req : req[q].pc = "fill" /\ req[q].g = minted[u]
            BY <4>3, <6>1 DEF TokensAccounted
          <6> QED
            BY <2>1, <3>1, <6>1, <6>2
        <5> QED
          BY <5>1, <5>2
      <4> QED
        BY <4>1, <4>2, <4>3 DEF TokensAccounted
    <3>9. OneTokenPerGrant'
      BY <2>1, <2>2, <2>3, <2>4, <3>1, <3>2, <3>3 DEF OneTokenPerGrant
    <3>10. MinterIsBinder'
      BY <2>1, <2>2, <2>3, <2>4, <3>1, <3>2, <3>3 DEF MinterIsBinder, NamesKnownGrants, CookieIsBinders
    <3>11. MintedByBinder'
      BY <2>1, <2>2, <2>3, <2>4, <3>1, <3>2, <3>3 DEF MintedByBinder, NamesKnownGrants
    <3>12. HandedIsConsumed'
      BY <2>1, <2>2, <2>3, <2>4, <3>1, <3>2, <3>3 DEF HandedIsConsumed, NamesKnownGrants
    <3>13. SettlesAsOwner'
      BY <2>1, <2>2, <2>3, <2>4, <3>1, <3>2, <3>3 DEF SettlesAsOwner
    <3>14. AuthenticatedAsOwner'
      BY <2>1, <2>2, <2>3, <2>4, <3>1, <3>2, <3>3 DEF AuthenticatedAsOwner
    <3> QED
      BY <1>0, <3>4, <3>5, <3>6, <3>7, <3>8, <3>9, <3>10, <3>11, <3>12, <3>13, <3>14 DEF IInv
  <2> QED
    BY <1>13, <2>5, <2>6 DEF Mint
<1>14. ASSUME NEW r \in Req, MintFailed(r) PROVE IInv'
  <2>1. /\ UNCHANGED <<stored, expired, used, cookie, att, owner, minted, minter, handed>>
        /\ req[r].pc = "mintfail" /\ req'[r].pc = "idle"
        /\ \A q \in Req : q # r => req'[q] = req[q]
    BY <1>14 DEF MintFailed, IdleReq, Request
  <2>2. \A x \in Grant : /\ grants'[x].secret = grants[x].secret
                         /\ grants'[x].binder = grants[x].binder
                         /\ grants'[x].login = grants[x].login
                         /\ \/ grants'[x].status = grants[x].status
                            \/ /\ x = req[r].g /\ x \in stored /\ x \notin expired
                               /\ grants'[x].status = "authenticated"
    BY <1>14 DEF MintFailed, WithGrant, Live, GrantRec
  <2>3. \A x \in Grant : x = req[r].g /\ x \in stored =>
           grants[x].status = "approved" /\ grants[x].secret = NoToken
    BY <2>1 DEF HolderIsExclusive, Holds
  <2>4. grants[req[r].g].secret = NoToken \/ req[r].g \notin stored
    BY <2>1, <2>3
  <2>5. ~Live(req[r].g) => UNCHANGED grants
    BY <1>14 DEF MintFailed, WithGrant
  <2>6. \A q \in Req : Holds(q, req[r].g) => q = r
    BY <2>1 DEF HolderIsExclusive, Holds, NamesKnownGrants
  <2>7. Live(req[r].g) => grants'[req[r].g].status = "authenticated"
    BY <1>14 DEF MintFailed, WithGrant, Live, GrantRec
  <2>8. NamesKnownGrants'
    BY <2>1, <2>2, <2>3, <2>4, <2>5, <2>6, <2>7 DEF NamesKnownGrants
  <2>9. CookieIsBinders'
    BY <2>1, <2>2, <2>3, <2>4, <2>5, <2>6, <2>7 DEF CookieIsBinders, NamesKnownGrants
  <2>10. HolderIsExclusive'
    BY <2>1, <2>2, <2>3, <2>4, <2>5, <2>6, <2>7 DEF HolderIsExclusive, NamesKnownGrants, Holds
  <2>11. ReservedIsHeld'
    BY <2>1, <2>2, <2>3, <2>4, <2>5, <2>6, <2>7 DEF ReservedIsHeld, Holds, Reserved, Live
  <2>12. TokensAccounted'
    BY <2>1, <2>2, <2>3 DEF TokensAccounted, NamesKnownGrants, Live
  <2>13. OneTokenPerGrant'
    BY <2>1, <2>2, <2>3, <2>4, <2>5, <2>6, <2>7 DEF OneTokenPerGrant
  <2>14. MinterIsBinder'
    BY <2>1, <2>2, <2>3, <2>4, <2>5, <2>6, <2>7 DEF MinterIsBinder, NamesKnownGrants, CookieIsBinders
  <2>15. MintedByBinder'
    BY <2>1, <2>2, <2>3, <2>4, <2>5, <2>6, <2>7 DEF MintedByBinder, NamesKnownGrants
  <2>16. HandedIsConsumed'
    BY <2>1, <2>2, <2>3, <2>4, <2>5, <2>6, <2>7 DEF HandedIsConsumed, NamesKnownGrants
  <2>17. SettlesAsOwner'
    BY <2>1, <2>2, <2>3, <2>4, <2>5, <2>6, <2>7 DEF SettlesAsOwner
  <2>18. AuthenticatedAsOwner'
    BY <2>1, <2>2, <2>3, <2>4, <2>5, <2>6, <2>7 DEF AuthenticatedAsOwner
  <2> QED
    BY <1>0, <2>8, <2>9, <2>10, <2>11, <2>12, <2>13, <2>14, <2>15, <2>16, <2>17, <2>18 DEF IInv
<1>15. ASSUME NEW r \in Req, Fill(r) PROVE IInv'
  <2>1. /\ UNCHANGED <<stored, expired, used, cookie, att, owner, minted, minter, handed>>
        /\ req[r].pc = "fill" /\ req[r].g \in used
        /\ req[r].t \in Token /\ minted[req[r].t] = req[r].g
        /\ req'[r].pc = "idle"
        /\ \A q \in Req : q # r => req'[q] = req[q]
    BY <1>15 DEF Fill, NamesKnownGrants, TokensAccounted, IdleReq, Request
  <2>2. \A q \in Req : Holds(q, req[r].g) => q = r
    BY <2>1 DEF HolderIsExclusive, Holds
  <2>3. \A x \in Grant : x # req[r].g => grants'[x] = grants[x]
    BY <1>15 DEF Fill, WithGrant
  <2>4. CASE Live(req[r].g)
    <3>1. /\ grants[req[r].g].status = "approved"
          /\ grants[req[r].g].secret = NoToken
      BY <2>1, <2>4 DEF HolderIsExclusive, Holds, Live
    <3>2. /\ grants'[req[r].g].secret = req[r].t
          /\ grants'[req[r].g].status = "approved"
          /\ grants'[req[r].g].login = grants[req[r].g].login
          /\ grants'[req[r].g].binder = grants[req[r].g].binder
      BY <1>15, <2>1, <2>4, <3>1 DEF Fill, WithGrant, GrantRec
    <3>3. NamesKnownGrants'
      BY <2>1, <2>2, <2>3, <2>4, <3>1, <3>2 DEF NamesKnownGrants
    <3>4. CookieIsBinders'
      BY <2>1, <2>2, <2>3, <2>4, <3>1, <3>2 DEF CookieIsBinders, NamesKnownGrants
    <3>5. HolderIsExclusive'
      BY <2>1, <2>2, <2>3, <2>4, <3>1, <3>2 DEF HolderIsExclusive, NamesKnownGrants, Holds
    <3>6. ReservedIsHeld'
      BY <2>1, <2>2, <2>3, <2>4, <3>1, <3>2 DEF ReservedIsHeld, Holds, Reserved, Live
    <3>7. TokensAccounted'
      <4>1. \A x \in used' : grants'[x].secret # NoToken =>
               grants'[x].status = "approved" /\ minted'[grants'[x].secret] = x
        BY <2>1, <2>3, <3>2 DEF TokensAccounted
      <4>2. ASSUME NEW q \in Req
            PROVE  /\ req'[q].pc \in {"revert", "mint", "mintfail"} =>
                         \A t \in Token : minted'[t] # req'[q].g
                   /\ req'[q].pc = "fill" =>
                         req'[q].t \in Token /\ minted'[req'[q].t] = req'[q].g
        BY <2>1 DEF TokensAccounted
      <4>3. ASSUME NEW t \in Token, minted'[t] # NoGrant, Live(minted[t])'
            PROVE  \/ grants'[minted'[t]].secret = t
                   \/ \E q \in Req : req'[q].pc = "fill" /\ req'[q].g = minted'[t]
        <5>1. minted'[t] = minted[t] /\ Live(minted[t])
          BY <2>1, <4>3 DEF Live
        <5>2. CASE minted[t] = req[r].g
          BY <2>1, <3>2, <5>1, <5>2 DEF OneTokenPerGrant, NamesKnownGrants
        <5>3. CASE minted[t] # req[r].g
          <6>1. grants'[minted[t]] = grants[minted[t]]
            BY <2>3, <4>3, <5>1, <5>3
          <6>2. \/ grants[minted[t]].secret = t
                \/ \E q \in Req : req[q].pc = "fill" /\ req[q].g = minted[t]
            BY <4>3, <5>1 DEF TokensAccounted
          <6> QED
            BY <2>1, <5>1, <5>3, <6>1, <6>2
        <5> QED
          BY <5>2, <5>3
      <4> QED
        BY <4>1, <4>2, <4>3 DEF TokensAccounted
    <3>8. OneTokenPerGrant'
      BY <2>1, <2>2, <2>3, <2>4, <3>1, <3>2 DEF OneTokenPerGrant
    <3>9. MinterIsBinder'
      BY <2>1, <2>2, <2>3, <2>4, <3>1, <3>2 DEF MinterIsBinder, NamesKnownGrants, CookieIsBinders
    <3>10. MintedByBinder'
      BY <2>1, <2>2, <2>3, <2>4, <3>1, <3>2 DEF MintedByBinder, NamesKnownGrants
    <3>11. HandedIsConsumed'
      BY <2>1, <2>2, <2>3, <2>4, <3>1, <3>2 DEF HandedIsConsumed, NamesKnownGrants
    <3>12. SettlesAsOwner'
      BY <2>1, <2>2, <2>3, <2>4, <3>1, <3>2 DEF SettlesAsOwner
    <3>13. AuthenticatedAsOwner'
      BY <2>1, <2>2, <2>3, <2>4, <3>1, <3>2 DEF AuthenticatedAsOwner
    <3> QED
      BY <1>0, <3>3, <3>4, <3>5, <3>6, <3>7, <3>8, <3>9, <3>10, <3>11, <3>12, <3>13 DEF IInv
  <2>5. CASE ~Live(req[r].g)
    <3>1. grants' = grants
      BY <1>15, <2>5 DEF Fill, WithGrant
    <3>2. NamesKnownGrants'
      BY <2>1, <2>2, <2>5, <3>1 DEF NamesKnownGrants
    <3>3. CookieIsBinders'
      BY <2>1, <2>2, <2>5, <3>1 DEF CookieIsBinders, NamesKnownGrants
    <3>4. HolderIsExclusive'
      BY <2>1, <2>2, <2>5, <3>1 DEF HolderIsExclusive, NamesKnownGrants, Holds
    <3>5. ReservedIsHeld'
      BY <2>1, <2>2, <2>5, <3>1 DEF ReservedIsHeld, Holds, Reserved, Live
    <3>6. TokensAccounted'
      BY <2>1, <2>2, <2>5, <3>1 DEF TokensAccounted, NamesKnownGrants, HolderIsExclusive, Holds, Live
    <3>7. OneTokenPerGrant'
      BY <2>1, <2>2, <2>5, <3>1 DEF OneTokenPerGrant
    <3>8. MinterIsBinder'
      BY <2>1, <2>2, <2>5, <3>1 DEF MinterIsBinder, NamesKnownGrants, CookieIsBinders
    <3>9. MintedByBinder'
      BY <2>1, <2>2, <2>5, <3>1 DEF MintedByBinder, NamesKnownGrants
    <3>10. HandedIsConsumed'
      BY <2>1, <2>2, <2>5, <3>1 DEF HandedIsConsumed, NamesKnownGrants
    <3>11. SettlesAsOwner'
      BY <2>1, <2>2, <2>5, <3>1 DEF SettlesAsOwner
    <3>12. AuthenticatedAsOwner'
      BY <2>1, <2>2, <2>5, <3>1 DEF AuthenticatedAsOwner
    <3> QED
      BY <1>0, <3>2, <3>3, <3>4, <3>5, <3>6, <3>7, <3>8, <3>9, <3>10, <3>11, <3>12 DEF IInv
  <2> QED
    BY <2>4, <2>5
<1>16. ASSUME NEW a \in Attempt, ContextExpires(a) PROVE IInv'
  <2>1. NamesKnownGrants'
    BY <1>16 DEF ContextExpires, NamesKnownGrants, Holds, Live, Reserved, GrantRec, ReqRec, AttRec
  <2>2. CookieIsBinders'
    BY <1>16 DEF ContextExpires, CookieIsBinders, Holds, Live, Reserved, GrantRec, ReqRec, AttRec
  <2>3. HolderIsExclusive'
    BY <1>16 DEF ContextExpires, HolderIsExclusive, Holds, Live, Reserved, GrantRec, ReqRec, AttRec
  <2>4. ReservedIsHeld'
    BY <1>16 DEF ContextExpires, ReservedIsHeld, Holds, Live, Reserved, GrantRec, ReqRec, AttRec
  <2>5. TokensAccounted'
    BY <1>16 DEF ContextExpires, TokensAccounted, Holds, Live, Reserved, GrantRec, ReqRec, AttRec
  <2>6. OneTokenPerGrant'
    BY <1>16 DEF ContextExpires, OneTokenPerGrant, Holds, Live, Reserved, GrantRec, ReqRec, AttRec
  <2>7. MinterIsBinder'
    BY <1>16 DEF ContextExpires, MinterIsBinder, Holds, Live, Reserved, GrantRec, ReqRec, AttRec
  <2>8. MintedByBinder'
    BY <1>16 DEF ContextExpires, MintedByBinder, Holds, Live, Reserved, GrantRec, ReqRec, AttRec
  <2>9. HandedIsConsumed'
    BY <1>16 DEF ContextExpires, HandedIsConsumed, Holds, Live, Reserved, GrantRec, ReqRec, AttRec
  <2>10. SettlesAsOwner'
    BY <1>16 DEF ContextExpires, SettlesAsOwner, Holds, Live, Reserved, GrantRec, ReqRec, AttRec
  <2>11. AuthenticatedAsOwner'
    BY <1>16 DEF ContextExpires, AuthenticatedAsOwner, Holds, Live, Reserved, GrantRec, ReqRec, AttRec
  <2> QED
    BY <1>0, <2>1, <2>2, <2>3, <2>4, <2>5, <2>6, <2>7, <2>8, <2>9, <2>10, <2>11
<1>17. ASSUME NEW a \in Attempt, CodeArrives(a) PROVE IInv'
  <2>1. NamesKnownGrants'
    BY <1>17 DEF CodeArrives, NamesKnownGrants, Holds, Live, Reserved, GrantRec, ReqRec, AttRec
  <2>2. CookieIsBinders'
    BY <1>17 DEF CodeArrives, CookieIsBinders, Holds, Live, Reserved, GrantRec, ReqRec, AttRec
  <2>3. HolderIsExclusive'
    BY <1>17 DEF CodeArrives, HolderIsExclusive, Holds, Live, Reserved, GrantRec, ReqRec, AttRec
  <2>4. ReservedIsHeld'
    BY <1>17 DEF CodeArrives, ReservedIsHeld, Holds, Live, Reserved, GrantRec, ReqRec, AttRec
  <2>5. TokensAccounted'
    BY <1>17 DEF CodeArrives, TokensAccounted, Holds, Live, Reserved, GrantRec, ReqRec, AttRec
  <2>6. OneTokenPerGrant'
    BY <1>17 DEF CodeArrives, OneTokenPerGrant, Holds, Live, Reserved, GrantRec, ReqRec, AttRec
  <2>7. MinterIsBinder'
    BY <1>17 DEF CodeArrives, MinterIsBinder, Holds, Live, Reserved, GrantRec, ReqRec, AttRec
  <2>8. MintedByBinder'
    BY <1>17 DEF CodeArrives, MintedByBinder, Holds, Live, Reserved, GrantRec, ReqRec, AttRec
  <2>9. HandedIsConsumed'
    BY <1>17 DEF CodeArrives, HandedIsConsumed, Holds, Live, Reserved, GrantRec, ReqRec, AttRec
  <2>10. SettlesAsOwner'
    BY <1>17 DEF CodeArrives, SettlesAsOwner, Holds, Live, Reserved, GrantRec, ReqRec, AttRec
  <2>11. AuthenticatedAsOwner'
    BY <1>17 DEF CodeArrives, AuthenticatedAsOwner, Holds, Live, Reserved, GrantRec, ReqRec, AttRec
  <2> QED
    BY <1>0, <2>1, <2>2, <2>3, <2>4, <2>5, <2>6, <2>7, <2>8, <2>9, <2>10, <2>11
<1>18. ASSUME NEW a \in Attempt, FlowFails(a) PROVE IInv'
  <2>1. NamesKnownGrants'
    BY <1>18 DEF FlowFails, NamesKnownGrants, Holds, Live, Reserved, GrantRec, ReqRec, AttRec
  <2>2. CookieIsBinders'
    BY <1>18 DEF FlowFails, CookieIsBinders, Holds, Live, Reserved, GrantRec, ReqRec, AttRec
  <2>3. HolderIsExclusive'
    BY <1>18 DEF FlowFails, HolderIsExclusive, Holds, Live, Reserved, GrantRec, ReqRec, AttRec
  <2>4. ReservedIsHeld'
    BY <1>18 DEF FlowFails, ReservedIsHeld, Holds, Live, Reserved, GrantRec, ReqRec, AttRec
  <2>5. TokensAccounted'
    BY <1>18 DEF FlowFails, TokensAccounted, Holds, Live, Reserved, GrantRec, ReqRec, AttRec
  <2>6. OneTokenPerGrant'
    BY <1>18 DEF FlowFails, OneTokenPerGrant, Holds, Live, Reserved, GrantRec, ReqRec, AttRec
  <2>7. MinterIsBinder'
    BY <1>18 DEF FlowFails, MinterIsBinder, Holds, Live, Reserved, GrantRec, ReqRec, AttRec
  <2>8. MintedByBinder'
    BY <1>18 DEF FlowFails, MintedByBinder, Holds, Live, Reserved, GrantRec, ReqRec, AttRec
  <2>9. HandedIsConsumed'
    BY <1>18 DEF FlowFails, HandedIsConsumed, Holds, Live, Reserved, GrantRec, ReqRec, AttRec
  <2>10. SettlesAsOwner'
    BY <1>18 DEF FlowFails, SettlesAsOwner, Holds, Live, Reserved, GrantRec, ReqRec, AttRec
  <2>11. AuthenticatedAsOwner'
    BY <1>18 DEF FlowFails, AuthenticatedAsOwner, Holds, Live, Reserved, GrantRec, ReqRec, AttRec
  <2> QED
    BY <1>0, <2>1, <2>2, <2>3, <2>4, <2>5, <2>6, <2>7, <2>8, <2>9, <2>10, <2>11
<1>19. ASSUME NEW a \in Attempt, FlowCancelled(a) PROVE IInv'
  <2>1. NamesKnownGrants'
    BY <1>19 DEF FlowCancelled, NamesKnownGrants, Holds, Live, Reserved, GrantRec, ReqRec, AttRec
  <2>2. CookieIsBinders'
    BY <1>19 DEF FlowCancelled, CookieIsBinders, Holds, Live, Reserved, GrantRec, ReqRec, AttRec
  <2>3. HolderIsExclusive'
    BY <1>19 DEF FlowCancelled, HolderIsExclusive, Holds, Live, Reserved, GrantRec, ReqRec, AttRec
  <2>4. ReservedIsHeld'
    BY <1>19 DEF FlowCancelled, ReservedIsHeld, Holds, Live, Reserved, GrantRec, ReqRec, AttRec
  <2>5. TokensAccounted'
    BY <1>19 DEF FlowCancelled, TokensAccounted, Holds, Live, Reserved, GrantRec, ReqRec, AttRec
  <2>6. OneTokenPerGrant'
    BY <1>19 DEF FlowCancelled, OneTokenPerGrant, Holds, Live, Reserved, GrantRec, ReqRec, AttRec
  <2>7. MinterIsBinder'
    BY <1>19 DEF FlowCancelled, MinterIsBinder, Holds, Live, Reserved, GrantRec, ReqRec, AttRec
  <2>8. MintedByBinder'
    BY <1>19 DEF FlowCancelled, MintedByBinder, Holds, Live, Reserved, GrantRec, ReqRec, AttRec
  <2>9. HandedIsConsumed'
    BY <1>19 DEF FlowCancelled, HandedIsConsumed, Holds, Live, Reserved, GrantRec, ReqRec, AttRec
  <2>10. SettlesAsOwner'
    BY <1>19 DEF FlowCancelled, SettlesAsOwner, Holds, Live, Reserved, GrantRec, ReqRec, AttRec
  <2>11. AuthenticatedAsOwner'
    BY <1>19 DEF FlowCancelled, AuthenticatedAsOwner, Holds, Live, Reserved, GrantRec, ReqRec, AttRec
  <2> QED
    BY <1>0, <2>1, <2>2, <2>3, <2>4, <2>5, <2>6, <2>7, <2>8, <2>9, <2>10, <2>11
<1>20. ASSUME NEW a \in Attempt, NEW who \in Login, Authorised(a, who) PROVE IInv'
  <2>1. NamesKnownGrants'
    BY <1>20 DEF Authorised, NamesKnownGrants, Holds, Live, Reserved, GrantRec, ReqRec, AttRec
  <2>2. CookieIsBinders'
    BY <1>20 DEF Authorised, CookieIsBinders, Holds, Live, Reserved, GrantRec, ReqRec, AttRec
  <2>3. HolderIsExclusive'
    BY <1>20 DEF Authorised, HolderIsExclusive, Holds, Live, Reserved, GrantRec, ReqRec, AttRec
  <2>4. ReservedIsHeld'
    BY <1>20 DEF Authorised, ReservedIsHeld, Holds, Live, Reserved, GrantRec, ReqRec, AttRec
  <2>5. TokensAccounted'
    BY <1>20 DEF Authorised, TokensAccounted, Holds, Live, Reserved, GrantRec, ReqRec, AttRec
  <2>6. OneTokenPerGrant'
    BY <1>20 DEF Authorised, OneTokenPerGrant, Holds, Live, Reserved, GrantRec, ReqRec, AttRec
  <2>7. MinterIsBinder'
    BY <1>20 DEF Authorised, MinterIsBinder, Holds, Live, Reserved, GrantRec, ReqRec, AttRec
  <2>8. MintedByBinder'
    BY <1>20 DEF Authorised, MintedByBinder, Holds, Live, Reserved, GrantRec, ReqRec, AttRec
  <2>9. HandedIsConsumed'
    BY <1>20 DEF Authorised, HandedIsConsumed, Holds, Live, Reserved, GrantRec, ReqRec, AttRec
  <2>10. SettlesAsOwner'
    BY <1>20 DEF Authorised, SettlesAsOwner, Holds, Live, Reserved, GrantRec, ReqRec, AttRec
  <2>11. AuthenticatedAsOwner'
    BY <1>20 DEF Authorised, AuthenticatedAsOwner, Holds, Live, Reserved, GrantRec, ReqRec, AttRec
  <2> QED
    BY <1>0, <2>1, <2>2, <2>3, <2>4, <2>5, <2>6, <2>7, <2>8, <2>9, <2>10, <2>11
<1>21. ASSUME NEW a \in Attempt, IdentityFails(a) PROVE IInv'
  <2>1. NamesKnownGrants'
    BY <1>21 DEF IdentityFails, NamesKnownGrants, Holds, Live, Reserved, GrantRec, ReqRec, AttRec
  <2>2. CookieIsBinders'
    BY <1>21 DEF IdentityFails, CookieIsBinders, Holds, Live, Reserved, GrantRec, ReqRec, AttRec
  <2>3. HolderIsExclusive'
    BY <1>21 DEF IdentityFails, HolderIsExclusive, Holds, Live, Reserved, GrantRec, ReqRec, AttRec
  <2>4. ReservedIsHeld'
    BY <1>21 DEF IdentityFails, ReservedIsHeld, Holds, Live, Reserved, GrantRec, ReqRec, AttRec
  <2>5. TokensAccounted'
    BY <1>21 DEF IdentityFails, TokensAccounted, Holds, Live, Reserved, GrantRec, ReqRec, AttRec
  <2>6. OneTokenPerGrant'
    BY <1>21 DEF IdentityFails, OneTokenPerGrant, Holds, Live, Reserved, GrantRec, ReqRec, AttRec
  <2>7. MinterIsBinder'
    BY <1>21 DEF IdentityFails, MinterIsBinder, Holds, Live, Reserved, GrantRec, ReqRec, AttRec
  <2>8. MintedByBinder'
    BY <1>21 DEF IdentityFails, MintedByBinder, Holds, Live, Reserved, GrantRec, ReqRec, AttRec
  <2>9. HandedIsConsumed'
    BY <1>21 DEF IdentityFails, HandedIsConsumed, Holds, Live, Reserved, GrantRec, ReqRec, AttRec
  <2>10. SettlesAsOwner'
    BY <1>21 DEF IdentityFails, SettlesAsOwner, Holds, Live, Reserved, GrantRec, ReqRec, AttRec
  <2>11. AuthenticatedAsOwner'
    BY <1>21 DEF IdentityFails, AuthenticatedAsOwner, Holds, Live, Reserved, GrantRec, ReqRec, AttRec
  <2> QED
    BY <1>0, <2>1, <2>2, <2>3, <2>4, <2>5, <2>6, <2>7, <2>8, <2>9, <2>10, <2>11
<1>22. ASSUME NEW a \in Attempt, OwnerSignIn(a) PROVE IInv'
  <2>1. /\ UNCHANGED <<grants, stored, expired, used, cookie, req, minted, minter, handed>>
        /\ att[a].pc = "signin"
        /\ \/ /\ owner \in {NoLogin, att[a].who} /\ owner' = att[a].who
              /\ att' = [att EXCEPT ![a] = [@ EXCEPT !.pc = "settle"]]
           \/ /\ owner' = owner
              /\ att' = [att EXCEPT ![a] = [@ EXCEPT !.pc = "deny"]]
    BY <1>22 DEF OwnerSignIn
  <2>2. att[a].who # NoLogin
    BY <2>1 DEF SettlesAsOwner
  <2>3. /\ att'[a].g = att[a].g /\ att'[a].who = att[a].who
        /\ att'[a].pc \in {"settle", "deny"}
        /\ \A c \in Attempt : c # a => att'[c] = att[c]
    BY <2>1 DEF AttRec
  <2>4. att'[a].pc = "settle" => owner \in {NoLogin, att[a].who} /\ owner' = att[a].who
    BY <2>1 DEF AttRec
  <2>5. owner' = owner \/ owner = NoLogin
    BY <2>1
  <2>6. NamesKnownGrants'
    BY <2>1, <2>2, <2>3, <2>4, <2>5 DEF NamesKnownGrants
  <2>7. CookieIsBinders'
    BY <2>1, <2>2, <2>3, <2>4, <2>5 DEF CookieIsBinders, NamesKnownGrants
  <2>8. HolderIsExclusive'
    BY <2>1, <2>2, <2>3, <2>4, <2>5 DEF HolderIsExclusive, NamesKnownGrants, Holds
  <2>9. ReservedIsHeld'
    BY <2>1, <2>2, <2>3, <2>4, <2>5 DEF ReservedIsHeld, Holds, Reserved, Live
  <2>10. TokensAccounted'
    BY <2>1, <2>2, <2>3, <2>4, <2>5 DEF TokensAccounted, NamesKnownGrants, HolderIsExclusive, Holds, Live
  <2>11. OneTokenPerGrant'
    BY <2>1, <2>2, <2>3, <2>4, <2>5 DEF OneTokenPerGrant
  <2>12. MinterIsBinder'
    BY <2>1, <2>2, <2>3, <2>4, <2>5 DEF MinterIsBinder, NamesKnownGrants, CookieIsBinders
  <2>13. MintedByBinder'
    BY <2>1, <2>2, <2>3, <2>4, <2>5 DEF MintedByBinder, NamesKnownGrants
  <2>14. HandedIsConsumed'
    BY <2>1, <2>2, <2>3, <2>4, <2>5 DEF HandedIsConsumed, NamesKnownGrants
  <2>15. SettlesAsOwner'
    BY <2>1, <2>2, <2>3, <2>4, <2>5 DEF SettlesAsOwner
  <2>16. AuthenticatedAsOwner'
    BY <2>1, <2>2, <2>3, <2>4, <2>5 DEF AuthenticatedAsOwner
  <2> QED
    BY <1>0, <2>6, <2>7, <2>8, <2>9, <2>10, <2>11, <2>12, <2>13, <2>14, <2>15, <2>16 DEF IInv
<1>23. ASSUME NEW a \in Attempt, Settle(a) PROVE IInv'
  <2>1. /\ UNCHANGED <<stored, expired, used, cookie, req, owner, minted, minter, handed>>
        /\ att[a].pc = "settle" /\ att'[a].pc = "done" /\ att'[a].g = att[a].g
        /\ \A c \in Attempt : c # a => att'[c] = att[c]
        /\ att[a].who = owner /\ owner # NoLogin
    BY <1>23 DEF Settle, AttRec, SettlesAsOwner
  <2>2. \A x \in Grant : /\ grants'[x].secret = grants[x].secret
                         /\ grants'[x].binder = grants[x].binder
                         /\ \/ /\ grants'[x].status = grants[x].status
                               /\ grants'[x].login = grants[x].login
                            \/ /\ grants[x].status = "pending"
                               /\ grants'[x].status = "authenticated"
                               /\ grants'[x].login = att[a].who
    BY <1>23 DEF Settle, WithGrant, GrantRec
  <2>3. NamesKnownGrants'
    BY <2>1, <2>2 DEF NamesKnownGrants
  <2>4. CookieIsBinders'
    BY <2>1, <2>2 DEF CookieIsBinders, NamesKnownGrants
  <2>5. HolderIsExclusive'
    BY <2>1, <2>2 DEF HolderIsExclusive, NamesKnownGrants, Holds
  <2>6. ReservedIsHeld'
    BY <2>1, <2>2 DEF ReservedIsHeld, Holds, Reserved, Live
  <2>7. TokensAccounted'
    BY <2>1, <2>2 DEF TokensAccounted, NamesKnownGrants, HolderIsExclusive, Holds, Live
  <2>8. OneTokenPerGrant'
    BY <2>1, <2>2 DEF OneTokenPerGrant
  <2>9. MinterIsBinder'
    BY <2>1, <2>2 DEF MinterIsBinder, NamesKnownGrants, CookieIsBinders
  <2>10. MintedByBinder'
    BY <2>1, <2>2 DEF MintedByBinder, NamesKnownGrants
  <2>11. HandedIsConsumed'
    BY <2>1, <2>2 DEF HandedIsConsumed, NamesKnownGrants
  <2>12. SettlesAsOwner'
    BY <2>1, <2>2 DEF SettlesAsOwner
  <2>13. AuthenticatedAsOwner'
    BY <2>1, <2>2 DEF AuthenticatedAsOwner
  <2> QED
    BY <1>0, <2>3, <2>4, <2>5, <2>6, <2>7, <2>8, <2>9, <2>10, <2>11, <2>12, <2>13 DEF IInv
<1>24. ASSUME NEW a \in Attempt, DenyGrant(a) PROVE IInv'
  <2>1. NamesKnownGrants'
    BY <1>24 DEF DenyGrant, WithGrant, NamesKnownGrants, Holds, Live, Reserved, GrantRec, ReqRec, AttRec
  <2>2. CookieIsBinders'
    BY <1>24 DEF DenyGrant, WithGrant, CookieIsBinders, Holds, Live, Reserved, GrantRec, ReqRec, AttRec
  <2>3. HolderIsExclusive'
    BY <1>24 DEF DenyGrant, WithGrant, HolderIsExclusive, Holds, Live, Reserved, GrantRec, ReqRec, AttRec
  <2>4. ReservedIsHeld'
    BY <1>24 DEF DenyGrant, WithGrant, ReservedIsHeld, Holds, Live, Reserved, GrantRec, ReqRec, AttRec
  <2>5. TokensAccounted'
    BY <1>24 DEF DenyGrant, WithGrant, TokensAccounted, Holds, Live, Reserved, GrantRec, ReqRec, AttRec
  <2>6. OneTokenPerGrant'
    BY <1>24 DEF DenyGrant, WithGrant, OneTokenPerGrant, Holds, Live, Reserved, GrantRec, ReqRec, AttRec
  <2>7. MinterIsBinder'
    BY <1>24 DEF DenyGrant, WithGrant, MinterIsBinder, Holds, Live, Reserved, GrantRec, ReqRec, AttRec
  <2>8. MintedByBinder'
    BY <1>24 DEF DenyGrant, WithGrant, MintedByBinder, Holds, Live, Reserved, GrantRec, ReqRec, AttRec
  <2>9. HandedIsConsumed'
    BY <1>24 DEF DenyGrant, WithGrant, HandedIsConsumed, Holds, Live, Reserved, GrantRec, ReqRec, AttRec
  <2>10. SettlesAsOwner'
    BY <1>24 DEF DenyGrant, WithGrant, SettlesAsOwner, Holds, Live, Reserved, GrantRec, ReqRec, AttRec
  <2>11. AuthenticatedAsOwner'
    BY <1>24 DEF DenyGrant, WithGrant, AuthenticatedAsOwner, Holds, Live, Reserved, GrantRec, ReqRec, AttRec
  <2> QED
    BY <1>0, <2>1, <2>2, <2>3, <2>4, <2>5, <2>6, <2>7, <2>8, <2>9, <2>10, <2>11
<1>25. ASSUME Sweep PROVE IInv'
  <2>1. NamesKnownGrants'
    BY <1>25 DEF Sweep, CancelledFor, NamesKnownGrants, Holds, Live, Reserved, GrantRec, ReqRec, AttRec
  <2>2. CookieIsBinders'
    BY <1>25 DEF Sweep, CancelledFor, CookieIsBinders, Holds, Live, Reserved, GrantRec, ReqRec, AttRec
  <2>3. HolderIsExclusive'
    BY <1>25 DEF Sweep, CancelledFor, HolderIsExclusive, Holds, Live, Reserved, GrantRec, ReqRec, AttRec
  <2>4. ReservedIsHeld'
    BY <1>25 DEF Sweep, CancelledFor, ReservedIsHeld, Holds, Live, Reserved, GrantRec, ReqRec, AttRec
  <2>5. TokensAccounted'
    BY <1>25 DEF Sweep, CancelledFor, TokensAccounted, Holds, Live, Reserved, GrantRec, ReqRec, AttRec
  <2>6. OneTokenPerGrant'
    BY <1>25 DEF Sweep, CancelledFor, OneTokenPerGrant, Holds, Live, Reserved, GrantRec, ReqRec, AttRec
  <2>7. MinterIsBinder'
    BY <1>25 DEF Sweep, CancelledFor, MinterIsBinder, Holds, Live, Reserved, GrantRec, ReqRec, AttRec
  <2>8. MintedByBinder'
    BY <1>25 DEF Sweep, CancelledFor, MintedByBinder, Holds, Live, Reserved, GrantRec, ReqRec, AttRec
  <2>9. HandedIsConsumed'
    BY <1>25 DEF Sweep, CancelledFor, HandedIsConsumed, Holds, Live, Reserved, GrantRec, ReqRec, AttRec
  <2>10. SettlesAsOwner'
    BY <1>25 DEF Sweep, CancelledFor, SettlesAsOwner, Holds, Live, Reserved, GrantRec, ReqRec, AttRec
  <2>11. AuthenticatedAsOwner'
    BY <1>25 DEF Sweep, CancelledFor, AuthenticatedAsOwner, Holds, Live, Reserved, GrantRec, ReqRec, AttRec
  <2> QED
    BY <1>0, <2>1, <2>2, <2>3, <2>4, <2>5, <2>6, <2>7, <2>8, <2>9, <2>10, <2>11
<1>26. ASSUME Restart PROVE IInv'
  <2>1. NamesKnownGrants'
    BY <1>26 DEF Restart, IdleReq, UnusedAtt, Request, NewAttempt, NamesKnownGrants, Holds, Live, Reserved, GrantRec, ReqRec, AttRec
  <2>2. CookieIsBinders'
    BY <1>26 DEF Restart, IdleReq, UnusedAtt, Request, NewAttempt, CookieIsBinders, Holds, Live, Reserved, GrantRec, ReqRec, AttRec
  <2>3. HolderIsExclusive'
    BY <1>26 DEF Restart, IdleReq, UnusedAtt, Request, NewAttempt, HolderIsExclusive, Holds, Live, Reserved, GrantRec, ReqRec, AttRec
  <2>4. ReservedIsHeld'
    BY <1>26 DEF Restart, IdleReq, UnusedAtt, Request, NewAttempt, ReservedIsHeld, Holds, Live, Reserved, GrantRec, ReqRec, AttRec
  <2>5. TokensAccounted'
    BY <1>26 DEF Restart, IdleReq, UnusedAtt, Request, NewAttempt, TokensAccounted, Holds, Live, Reserved, GrantRec, ReqRec, AttRec
  <2>6. OneTokenPerGrant'
    BY <1>26 DEF Restart, IdleReq, UnusedAtt, Request, NewAttempt, OneTokenPerGrant, Holds, Live, Reserved, GrantRec, ReqRec, AttRec
  <2>7. MinterIsBinder'
    BY <1>26 DEF Restart, IdleReq, UnusedAtt, Request, NewAttempt, MinterIsBinder, Holds, Live, Reserved, GrantRec, ReqRec, AttRec
  <2>8. MintedByBinder'
    BY <1>26 DEF Restart, IdleReq, UnusedAtt, Request, NewAttempt, MintedByBinder, Holds, Live, Reserved, GrantRec, ReqRec, AttRec
  <2>9. HandedIsConsumed'
    BY <1>26 DEF Restart, IdleReq, UnusedAtt, Request, NewAttempt, HandedIsConsumed, Holds, Live, Reserved, GrantRec, ReqRec, AttRec
  <2>10. SettlesAsOwner'
    BY <1>26 DEF Restart, IdleReq, UnusedAtt, Request, NewAttempt, SettlesAsOwner, Holds, Live, Reserved, GrantRec, ReqRec, AttRec
  <2>11. AuthenticatedAsOwner'
    BY <1>26 DEF Restart, IdleReq, UnusedAtt, Request, NewAttempt, AuthenticatedAsOwner, Holds, Live, Reserved, GrantRec, ReqRec, AttRec
  <2> QED
    BY <1>0, <2>1, <2>2, <2>3, <2>4, <2>5, <2>6, <2>7, <2>8, <2>9, <2>10, <2>11
<1>27. CASE UNCHANGED vars
  BY <1>27 DEF vars, Holds, Live, Reserved, NamesKnownGrants, CookieIsBinders, HolderIsExclusive, ReservedIsHeld, TokensAccounted, OneTokenPerGrant, MinterIsBinder, MintedByBinder, HandedIsConsumed, SettlesAsOwner, AuthenticatedAsOwner
<1> QED
  BY <1>1, <1>2, <1>3, <1>4, <1>5, <1>6, <1>7, <1>8, <1>9, <1>10, <1>11, <1>12, <1>13, <1>14, <1>15, <1>16, <1>17, <1>18, <1>19, <1>20, <1>21, <1>22, <1>23, <1>24, <1>25, <1>26, <1>27 DEF Next, BrowserStep, ReqStep, AttStep

\* The initial state satisfies the inductive invariant.
LEMMA IInvInit == Init => IInv
<1> SUFFICES ASSUME Init PROVE IInv
  OBVIOUS
<1>1. TypeOK
  BY TypeInit
<1>2. /\ \A r \in Req : req[r].pc = "idle" /\ ~req[r].setsCookie
      /\ \A a \in Attempt : att[a].pc = "unused"
      /\ \A g \in Grant : ~Live(g)
  BY DEF Init, IdleReq, Request, UnusedAtt, NewAttempt, Live
<1>3. NamesKnownGrants /\ CookieIsBinders
  BY <1>2 DEF Init, NamesKnownGrants, CookieIsBinders
<1>4. HolderIsExclusive /\ ReservedIsHeld /\ MinterIsBinder
  BY <1>2 DEF Init, HolderIsExclusive, ReservedIsHeld, MinterIsBinder, Holds, Reserved
<1>5. TokensAccounted /\ OneTokenPerGrant /\ MintedByBinder
  BY <1>2 DEF Init, TokensAccounted, OneTokenPerGrant, MintedByBinder
<1>6. HandedIsConsumed /\ SettlesAsOwner /\ AuthenticatedAsOwner
  BY <1>2 DEF Init, HandedIsConsumed, SettlesAsOwner, AuthenticatedAsOwner
<1> QED
  BY <1>1, <1>3, <1>4, <1>5, <1>6 DEF IInv

(* ------------------------------------------------------------------------- *)
(* The theorems                                                              *)
(* ------------------------------------------------------------------------- *)

\* Every reachable state has the declared types: what the handlers, goroutines,
\* sweeps and restarts write is always a well-formed grant, request or attempt.
THEOREM TypeCorrect == Spec => []TypeOK
<1>1. Init => TypeOK
  BY TypeInit
<1>2. TypeOK /\ [Next]_vars => TypeOK'
  BY TypeStep
<1> QED
  BY <1>1, <1>2, PTL DEF Spec

\* The inductive invariant holds in every reachable state.
THEOREM IInvHolds == Spec => []IInv
<1>1. Init => IInv
  BY IInvInit
<1>2. IInv /\ [Next]_vars => IInv'
  BY IInvStep
<1> QED
  BY <1>1, <1>2, PTL DEF Spec

\* apiApprove mints at most one token for a sign-in, however many approvals,
\* retries, polls and restarts there are.
THEOREM OneTokenPerGrantHolds == Spec => []OneTokenPerGrant
<1>1. IInv => OneTokenPerGrant
  BY DEF IInv
<1> QED
  BY <1>1, IInvHolds, PTL

\* accessToken never answers with the same secret twice.
THEOREM SecretHandedOnceHolds == Spec => []SecretHandedOnce
<1>1. IInv => SecretHandedOnce
  BY DEF IInv, HandedIsConsumed, SecretHandedOnce
<1> QED
  BY <1>1, IInvHolds, PTL

\* Only the browser that a grant is bound to gets a token minted from it.
THEOREM MintedByBinderHolds == Spec => []MintedByBinder
<1>1. IInv => MintedByBinder
  BY DEF IInv
<1> QED
  BY <1>1, IInvHolds, PTL

\* A live reserved grant has exactly one approving request in flight, and every
\* approving request in flight has its live grant reserved.
THEOREM ReservationHasOneHolderHolds == Spec => []ReservationHasOneHolder
<1>1. IInv => ReservationHasOneHolder
  <2> SUFFICES ASSUME IInv, NEW g \in Grant, Live(g)
               PROVE  /\ Reserved(g) => \E r \in Req : Holds(r, g)
                      /\ \A r1, r2 \in Req : Holds(r1, g) /\ Holds(r2, g) => r1 = r2
                      /\ \A r \in Req : Holds(r, g) => Reserved(g)
    BY DEF ReservationHasOneHolder
  <2>1. Reserved(g) => \E r \in Req : Holds(r, g)
    BY DEF IInv, ReservedIsHeld
  <2>2. \A r1, r2 \in Req : Holds(r1, g) /\ Holds(r2, g) => r1 = r2
    BY DEF IInv, HolderIsExclusive
  <2>3. \A r \in Req : Holds(r, g) => Reserved(g)
    BY DEF IInv, HolderIsExclusive, Reserved, Live
  <2> QED
    BY <2>1, <2>2, <2>3
<1> QED
  BY <1>1, IInvHolds, PTL

\* A minted token waits in its live grant until gh collects it.
THEOREM MintedTokenIsCollectableHolds == Spec => []MintedTokenIsCollectable
<1>1. IInv => MintedTokenIsCollectable
  <2> SUFFICES ASSUME IInv, NEW t \in Token, minted[t] # NoGrant,
                      Live(minted[t]), ~\E r \in Req : Holds(r, minted[t])
               PROVE  /\ grants[minted[t]].status = "approved"
                      /\ grants[minted[t]].secret = t
    BY DEF MintedTokenIsCollectable
  <2>1. minted[t] \in used
    BY DEF IInv, TypeOK, Live
  <2>2. grants[minted[t]].secret = t
    BY DEF IInv, TokensAccounted, Holds
  <2>3. t # NoToken
    BY SentinelAssumption
  <2> QED
    BY <2>1, <2>2, <2>3 DEF IInv, TokensAccounted
<1> QED
  BY <1>1, IInvHolds, PTL

\* Whoever raced to claim the deployment, a grant that is good for a token was
\* authenticated as its one owner.
THEOREM AuthenticatedAsOwnerHolds == Spec => []AuthenticatedAsOwner
<1>1. IInv => AuthenticatedAsOwner
  BY DEF IInv
<1> QED
  BY <1>1, IInvHolds, PTL

(* ------------------------------------------------------------------------- *)
(* One live attempt                                                          *)
(* ------------------------------------------------------------------------- *)

\* The attempt still polls, or is about to settle what it learned.
Running(a) == att[a].pc \notin {"unused", "done"} /\ ~att[a].cancelled

\* What almost every step leaves alone: it starts no attempt, revives no grant
\* and replaces no CancelFunc.
StartsNoAttempt ==
    /\ \A a \in Attempt : Running(a)' => Running(a) /\ att'[a].g = att[a].g
    /\ \A g \in used : Live(g)' => Live(g) /\ grants'[g].cancel = grants[g].cancel

\* A step that starts no attempt keeps the one that a grant would cancel.
LEMMA NoAttemptStarts ==
    ASSUME IInv, OneLiveAttempt, StartsNoAttempt
    PROVE  OneLiveAttempt'
<1> SUFFICES ASSUME NEW a \in Attempt, Running(a)', Live(att[a].g)'
             PROVE  grants'[att'[a].g].cancel = a
    BY DEF OneLiveAttempt, Running
<1>1. Running(a) /\ att'[a].g = att[a].g
    BY DEF StartsNoAttempt
<1>2. att[a].g \in used
    BY <1>1 DEF IInv, NamesKnownGrants, Running
<1>3. Live(att[a].g) /\ grants'[att[a].g].cancel = grants[att[a].g].cancel
    BY <1>1, <1>2 DEF StartsNoAttempt, Live
<1> QED BY <1>1, <1>3 DEF OneLiveAttempt, Running

\* Calling CancelFuncs starts nothing.
LEMMA CancellingStopsOnly ==
    ASSUME TypeOK, NEW G, NEW a \in Attempt
    PROVE  /\ CancelledFor(G)[a].pc = att[a].pc /\ CancelledFor(G)[a].g = att[a].g
           /\ CancelledFor(G)[a].cancelled <=>
                  (att[a].cancelled \/ \E g \in G : grants[g].cancel = a)
BY DEF TypeOK, CancelledFor, AttRec

\* WithGrant keeps the CancelFunc if the record does.
LEMMA CancelFuncKept ==
    ASSUME TypeOK, NEW g, NEW rec, WithGrant(g, rec), rec.cancel = grants[g].cancel
    PROVE  \A x \in Grant : grants'[x].cancel = grants[x].cancel
BY DEF TypeOK, WithGrant

\* No other update of a grant touches its CancelFunc.
LEMMA OtherFieldsKeepCancel ==
    ASSUME NEW x \in GrantRec
    PROVE  \A v, w : /\ [x EXCEPT !.status = v].cancel = x.cancel
                     /\ [x EXCEPT !.started = v].cancel = x.cancel
                     /\ [x EXCEPT !.secret = v].cancel = x.cancel
                     /\ [x EXCEPT !.started = v, !.binder = w].cancel = x.cancel
                     /\ [x EXCEPT !.status = v, !.login = w].cancel = x.cancel
BY DEF GrantRec

\* An attempt stays with its grant, and a cancelled one stays cancelled.
LEMMA AttemptUpdateKeeps ==
    ASSUME NEW x \in AttRec, NEW p, NEW v
    PROVE  /\ [x EXCEPT !.cancelled = TRUE].g = x.g /\ [x EXCEPT !.cancelled = TRUE].cancelled
           /\ [x EXCEPT !.pc = p].g = x.g /\ [x EXCEPT !.pc = p].pc = p
           /\ [x EXCEPT !.pc = p].cancelled <=> x.cancelled
           /\ [x EXCEPT !.pc = p, !.sentCode = v].g = x.g
           /\ [x EXCEPT !.pc = p, !.sentErr = v].g = x.g
           /\ [x EXCEPT !.pc = p, !.who = v].g = x.g
           /\ [x EXCEPT !.pc = p, !.cancelled = TRUE].g = x.g
           /\ [x EXCEPT !.pc = p, !.cancelled = TRUE].cancelled
BY DEF AttRec

\* Only Launch starts an attempt, and it cancels the one it replaces.
LEMMA OneLiveAttemptStep ==
    ASSUME IInv, OneLiveAttempt, [Next]_vars
    PROVE  OneLiveAttempt'
<1> USE DEF tokenVars
<1>0. TypeOK /\ NamesKnownGrants /\ used \subseteq Grant
    BY DEF IInv, TypeOK
<1>1. ASSUME NEW g \in Grant, NEW rec, Add(g, rec), UNCHANGED <<expired, att>>
      PROVE  StartsNoAttempt
    BY <1>0, <1>1 DEF StartsNoAttempt, Add, Running, Live, TypeOK
<1>2. ASSUME NEW g, NEW rec, WithGrant(g, rec), rec.cancel = grants[g].cancel,
             UNCHANGED <<stored, expired>>,
             \A a \in Attempt : Running(a)' => Running(a) /\ att'[a].g = att[a].g
      PROVE  StartsNoAttempt
    BY <1>0, <1>2, CancelFuncKept DEF StartsNoAttempt, Live
<1>3. ASSUME NEW G, att' = CancelledFor(G), stored' \subseteq stored,
             UNCHANGED <<grants, expired>>
      PROVE  StartsNoAttempt
    <2>1. ASSUME NEW a \in Attempt, Running(a)'
          PROVE  Running(a) /\ att'[a].g = att[a].g
        BY <1>0, <1>3, <2>1, CancellingStopsOnly DEF Running
    <2> QED BY <1>3, <2>1 DEF StartsNoAttempt, Live
<1>4. ASSUME UNCHANGED grants, stored' \subseteq stored, expired \subseteq expired',
             \A a \in Attempt : Running(a)' => Running(a) /\ att'[a].g = att[a].g
      PROVE  StartsNoAttempt
    BY <1>4 DEF StartsNoAttempt, Live
<1>5. UNCHANGED att => \A a \in Attempt : Running(a)' => Running(a) /\ att'[a].g = att[a].g
    BY DEF Running
<1>6. ASSUME NEW r \in Req, NEW a \in Attempt, Launch(r, a)
      PROVE  OneLiveAttempt'
    <2> DEFINE g == req[r].g
    <2>0. /\ req[r].pc = "launch" /\ att[a].pc = "unused"
          /\ WithGrant(g, [grants[g] EXCEPT !.cancel = a])
          /\ att' = [(IF Live(g) THEN CancelledFor({g}) ELSE att) EXCEPT
                         ![a] = NewAttempt("flow", g)]
          /\ UNCHANGED <<stored, expired>>
        BY <1>6 DEF Launch
    <2>1. g \in Grant
        BY <1>0, <2>0 DEF NamesKnownGrants
    <2> HIDE DEF g
    <2>2. \A x : Live(x)' <=> Live(x)
        BY <2>0 DEF Live
    <2>3. att'[a].g = g
        BY <1>0, <2>0, CancelledForType DEF TypeOK, NewAttempt
    <2>4. ASSUME NEW x \in Attempt, x # a
          PROVE  /\ att'[x].pc = att[x].pc /\ att'[x].g = att[x].g
                 /\ att'[x].cancelled <=> att[x].cancelled \/ (Live(g) /\ grants[g].cancel = x)
        <3>1. att'[x] = IF Live(g) THEN CancelledFor({g})[x] ELSE att[x]
            BY <1>0, <2>0, <2>4, CancelledForType DEF TypeOK
        <3>2. CASE Live(g)
            BY <1>0, <3>1, <3>2, CancellingStopsOnly
        <3>3. CASE ~Live(g)
            BY <1>0, <3>1, <3>3 DEF TypeOK, AttRec
        <3> QED BY <3>2, <3>3
    <2>5. ASSUME NEW x \in Attempt, Running(x)', Live(att[x].g)'
          PROVE  grants'[att'[x].g].cancel = x
        <3>1. CASE x = a
            <4>1. Live(g)
                BY <2>2, <2>3, <2>5, <3>1 DEF Live
            <4>2. grants'[g].cancel = a
                BY <1>0, <2>0, <2>1, <4>1 DEF WithGrant, TypeOK, GrantRec
            <4> QED BY <2>3, <3>1, <4>2
        <3>2. CASE x # a
            <4>1. Running(x) /\ att'[x].g = att[x].g /\ Live(att[x].g)
                BY <2>2, <2>4, <2>5, <3>2 DEF Running, Live
            <4>2. grants[att[x].g].cancel = x
                BY <4>1 DEF OneLiveAttempt, Running
            <4>3. att[x].g # g
                BY <2>4, <2>5, <3>2, <4>1, <4>2 DEF Running
            <4>4. att[x].g \in Grant
                BY <1>0, <4>1 DEF TypeOK, Live
            <4>5. grants'[att[x].g] = grants[att[x].g]
                BY <1>0, <2>0, <4>3, <4>4 DEF WithGrant, TypeOK
            <4> QED BY <4>1, <4>2, <4>5
        <3> QED BY <3>1, <3>2
    <2> QED BY <2>5 DEF OneLiveAttempt, Running
<1>7. ASSUME NEW g \in Grant, DeviceCode(g) \/ \E b \in Browser : AuthorizePageWeb(g, b)
                               \/ \E r \in Req, c \in Browser : StartStandalone(r, g, c)
      PROVE  StartsNoAttempt
    BY <1>1, <1>7 DEF DeviceCode, AuthorizePageWeb, StartStandalone
<1>8. ASSUME NEW g \in Grant, AccessToken(g) PROVE StartsNoAttempt
    BY <1>3, <1>8 DEF AccessToken
<1>9. ASSUME Sweep PROVE StartsNoAttempt
    BY <1>3, <1>9 DEF Sweep
<1>10. ASSUME NEW g \in Grant, Expire(g) PROVE StartsNoAttempt
    BY <1>4, <1>5, <1>10 DEF Expire
<1>11. ASSUME Restart PROVE StartsNoAttempt
    <2>1. \A a \in Attempt : ~Running(a)'
        BY <1>11 DEF Restart, Running, UnusedAtt, NewAttempt
    <2> QED BY <1>4, <2>1, <1>11 DEF Restart
<1>12. ASSUME NEW r \in Req, StartFails(r) \/ Mint(r) PROVE StartsNoAttempt
    BY <1>4, <1>5, <1>12 DEF StartFails, Mint
<1>13. ASSUME NEW r \in Req, StartAnswered(r) PROVE StartsNoAttempt
    <2>1. \A a \in Attempt : att'[a].pc = att[a].pc /\ att'[a].g = att[a].g
                             /\ att'[a].cancelled = att[a].cancelled
        BY <1>0, <1>13 DEF StartAnswered, TypeOK, AttRec
    <2> QED BY <1>4, <2>1, <1>13 DEF StartAnswered, Running
<1>14. ASSUME NEW r \in Req, AfterFailedStart(r) PROVE StartsNoAttempt
    <2>1. CASE grants[req[r].g].flow = "standalone" /\ req[r].g \in stored
        BY <1>3, <1>14, <2>1 DEF AfterFailedStart
    <2>2. CASE grants[req[r].g].flow = "standalone" /\ req[r].g \notin stored
        BY <1>4, <1>5, <1>14, <2>2 DEF AfterFailedStart
    <2>3. CASE grants[req[r].g].flow # "standalone"
        <3>1. grants[req[r].g] \in GrantRec
            BY <1>0, <1>14 DEF AfterFailedStart, NamesKnownGrants, TypeOK
        <3> QED BY <1>2, <1>5, <1>14, <2>3, <3>1, OtherFieldsKeepCancel DEF AfterFailedStart
    <2> QED BY <2>1, <2>2, <2>3
<1>15. ASSUME NEW r \in Req, NEW g \in Grant, NEW b \in Browser,
              Begin(r, g, b) \/ Reserve(r, g, b)
       PROVE  StartsNoAttempt
    <2>1. grants[g] \in GrantRec
        BY <1>0 DEF TypeOK
    <2>2. CASE Begin(r, g, b)
        <3> DEFINE y == [grants[g] EXCEPT
                            !.started = TRUE,
                            !.binder = IF @ = NoBrowser THEN b ELSE @]
        <3>1. y.cancel = grants[g].cancel
            BY <2>1 DEF GrantRec
        <3>2. WithGrant(g, y) /\ UNCHANGED <<stored, expired, att>>
            BY <2>2 DEF Begin
        <3> HIDE DEF y
        <3> QED BY <1>2, <1>5, <3>1, <3>2
    <2>3. CASE Reserve(r, g, b)
        BY <1>2, <1>5, <2>1, <2>3, OtherFieldsKeepCancel DEF Reserve
    <2> QED BY <1>15, <2>2, <2>3
<1>16. ASSUME NEW r \in Req, Revert(r) \/ MintFailed(r) \/ Fill(r)
       PROVE  StartsNoAttempt
    <2>1. grants[req[r].g] \in GrantRec
        BY <1>0, <1>16 DEF Revert, MintFailed, Fill, NamesKnownGrants, TypeOK
    <2>2. CASE Revert(r)
        BY <1>2, <1>5, <2>1, <2>2, OtherFieldsKeepCancel DEF Revert
    <2>3. CASE MintFailed(r)
        BY <1>2, <1>5, <2>1, <2>3, OtherFieldsKeepCancel DEF MintFailed
    <2>4. CASE Fill(r)
        BY <1>2, <1>5, <2>1, <2>4, OtherFieldsKeepCancel DEF Fill
    <2> QED BY <1>16, <2>2, <2>3, <2>4
<1>17. ASSUME NEW a \in Attempt,
              \/ ContextExpires(a) \/ CodeArrives(a) \/ FlowFails(a) \/ FlowCancelled(a)
              \/ (\E who \in Login : Authorised(a, who))
              \/ IdentityFails(a) \/ OwnerSignIn(a) \/ Settle(a) \/ DenyGrant(a)
       PROVE  \A x \in Attempt : Running(x)' => Running(x) /\ att'[x].g = att[x].g
    <2>1. att[a].pc # "unused" /\ (att[a].cancelled => att[a].pc # "done")
        BY <1>17 DEF ContextExpires, CodeArrives, FlowFails, FlowCancelled, Authorised,
           IdentityFails, OwnerSignIn, Settle, DenyGrant
    <2>2. \A x \in Attempt : x # a => att'[x] = att[x]
        BY <1>0, <1>17 DEF TypeOK, ContextExpires, CodeArrives, FlowFails, FlowCancelled,
           Authorised, IdentityFails, OwnerSignIn, Settle, DenyGrant
    <2>3. /\ att'[a].g = att[a].g
          /\ att[a].cancelled => att'[a].cancelled \/ att'[a].pc = "done"
          /\ att[a].pc # "done"
        <3> DEFINE y == att'[a]
        <3>1. att[a] \in AttRec
            BY <1>0 DEF TypeOK
        <3>2. ASSUME NEW f, att' = [att EXCEPT ![a] = f] PROVE y = f
            BY <1>0, <3>2 DEF TypeOK
        <3>3. CASE ContextExpires(a)
            BY <3>1, <3>2, <3>3, AttemptUpdateKeeps DEF ContextExpires
        <3>4. CASE CodeArrives(a)
            BY <3>1, <3>2, <3>4, AttemptUpdateKeeps DEF CodeArrives
        <3>5. CASE FlowFails(a)
            BY <3>1, <3>2, <3>5, AttemptUpdateKeeps DEF FlowFails
        <3>6. CASE FlowCancelled(a)
            BY <3>1, <3>2, <3>6, AttemptUpdateKeeps DEF FlowCancelled
        <3>7. ASSUME NEW who \in Login, Authorised(a, who)
              PROVE  y.g = att[a].g /\ att[a].pc # "done" /\ ~att[a].cancelled
            BY <3>1, <3>2, <3>7, AttemptUpdateKeeps DEF Authorised
        <3>8. CASE IdentityFails(a)
            BY <3>1, <3>2, <3>8, AttemptUpdateKeeps DEF IdentityFails
        <3>9. CASE OwnerSignIn(a)
            <4>1. y = [att[a] EXCEPT !.pc = "settle"] \/ y = [att[a] EXCEPT !.pc = "deny"]
                BY <3>2, <3>9 DEF OwnerSignIn
            <4>2. att[a].pc = "signin"
                BY <3>9 DEF OwnerSignIn
            <4>3. ASSUME NEW p, y = [att[a] EXCEPT !.pc = p]
                  PROVE  y.g = att[a].g /\ (y.cancelled <=> att[a].cancelled)
                BY <3>1, <4>3, AttemptUpdateKeeps
            <4> QED BY <4>1, <4>2, <4>3
        <3>10. CASE Settle(a)
            BY <3>1, <3>2, <3>10, AttemptUpdateKeeps DEF Settle
        <3>11. CASE DenyGrant(a)
            BY <3>1, <3>2, <3>11, AttemptUpdateKeeps DEF DenyGrant
        <3> QED BY <1>17, <3>3, <3>4, <3>5, <3>6, <3>7, <3>8, <3>9, <3>10, <3>11
    <2> QED BY <2>1, <2>2, <2>3 DEF Running
<1>18. ASSUME NEW a \in Attempt,
              \/ ContextExpires(a) \/ CodeArrives(a) \/ FlowFails(a) \/ FlowCancelled(a)
              \/ (\E who \in Login : Authorised(a, who))
              \/ IdentityFails(a) \/ OwnerSignIn(a)
       PROVE  StartsNoAttempt
    BY <1>4, <1>17, <1>18 DEF ContextExpires, CodeArrives, FlowFails,
       FlowCancelled, Authorised, IdentityFails, OwnerSignIn
<1>19. ASSUME NEW a \in Attempt, Settle(a) \/ DenyGrant(a) PROVE StartsNoAttempt
    <2>1. grants[att[a].g] \in GrantRec
        BY <1>0, <1>19 DEF Settle, DenyGrant, NamesKnownGrants, TypeOK
    <2>2. CASE Settle(a)
        <3> DEFINE g == att[a].g
                   rec == IF grants[g].status = "pending"
                          THEN [grants[g] EXCEPT !.status = "authenticated", !.login = att[a].who]
                          ELSE grants[g]
        <3>1. WithGrant(g, rec) /\ UNCHANGED <<stored, expired>>
            BY <2>2 DEF Settle
        <3>2. rec.cancel = grants[g].cancel
            BY <2>1, OtherFieldsKeepCancel
        <3>3. \A x \in Attempt : Running(x)' => Running(x) /\ att'[x].g = att[x].g
            BY <1>17, <2>2
        <3> QED BY <1>2, <3>1, <3>2, <3>3
    <2>3. CASE DenyGrant(a)
        BY <1>2, <1>17, <2>1, <2>3, OtherFieldsKeepCancel DEF DenyGrant
    <2> QED BY <1>19, <2>2, <2>3
<1>20. UNCHANGED vars => StartsNoAttempt
    BY <1>4, <1>5 DEF vars
<1> QED
    BY NoAttemptStarts, <1>6, <1>7, <1>8, <1>9, <1>10, <1>11, <1>12, <1>13, <1>14, <1>15,
       <1>16, <1>18, <1>19, <1>20 DEF Next, BrowserStep, ReqStep, AttStep

\* However starts are retried, a live grant has one attempt at GitHub at most.
THEOREM OneLiveAttemptHolds == Spec => []OneLiveAttempt
<1>1. Init => OneLiveAttempt
    BY DEF Init, OneLiveAttempt, UnusedAtt, NewAttempt
<1>2. IInv /\ OneLiveAttempt /\ [Next]_vars => OneLiveAttempt'
    BY OneLiveAttemptStep
<1> QED BY <1>1, <1>2, IInvHolds, PTL DEF Spec

(* ------------------------------------------------------------------------- *)
(* The grants implement the tickets                                          *)
(* ------------------------------------------------------------------------- *)

\* What a ticket's phase is read from, besides the grant's status.
Sold(g) == \E t \in Token : minted[t] = g
Held(g) == \E r \in Req : Holds(r, g)
HoldingPC == {"revert", "mint", "mintfail", "fill"}

\* The initial grants are tickets that were not opened.
LEMMA InitRefines == Init => Tickets!Init
BY DEF Init, Tickets!Init, TicketPhase

\* A step leaves a ticket in its phase when the grant was exchanged, or when all
\* that the phase is read from stays.
LEMMA SamePhase ==
    ASSUME NEW g \in Grant, UNCHANGED <<used, minted>>,
           \/ Sold(g)
           \/ /\ g \in stored' <=> g \in stored
              /\ Held(g)' <=> Held(g)
              /\ grants'[g].status = grants[g].status
    PROVE  TicketPhase(g)' = TicketPhase(g)
BY DEF TicketPhase, Sold, Held

\* Handlers that hold no grant before or after a step of their own leave the
\* holders as they were.
LEMMA HoldersStay ==
    ASSUME TypeOK, NEW r \in Req, NEW x, req' = [req EXCEPT ![r] = x], NEW g,
           \/ req[r].g # g
           \/ req[r].pc \notin HoldingPC,
           \/ x.g # g
           \/ x.pc \notin HoldingPC
    PROVE  Held(g)' <=> Held(g)
BY DEF TypeOK, Held, Holds, HoldingPC

\* Nothing happens to the tickets when no phase changes.
LEMMA QuietStep ==
    ASSUME UNCHANGED <<owner, minted, handed>>,
           \A g \in Grant : TicketPhase(g)' = TicketPhase(g)
    PROVE  UNCHANGED Tickets!vars
BY DEF Tickets!vars

\* One phase that changes is one entry of the ticket's phases.
LEMMA OnePhaseChanges ==
    ASSUME NEW h \in Grant, NEW v, TicketPhase(h)' = v,
           \A g \in Grant \ {h} : TicketPhase(g)' = TicketPhase(g)
    PROVE  [g \in Grant |-> TicketPhase(g)]' =
               [[g \in Grant |-> TicketPhase(g)] EXCEPT ![h] = v]
OBVIOUS

\* An update of a grant that leaves its status alone leaves every status alone.
LEMMA StatusStays ==
    ASSUME NEW g \in Grant, grants \in [Grant -> GrantRec], NEW y,
           y.status = grants[g].status, WithGrant(g, y)
    PROVE  \A h \in Grant : grants'[h].status = grants[h].status
  BY DEF WithGrant

\* A step that removes grants and releases holders, and keeps the phase of the
\* grants that stay stored, closes tickets.
LEMMA ClosingStep ==
    ASSUME TypeOK, UNCHANGED <<used, owner, minted, handed>>, stored' \subseteq stored,
           \A g \in Grant : Held(g)' => Held(g),
           \A g \in stored' : TicketPhase(g)' = TicketPhase(g)
    PROVE  Tickets!Next
<1> DEFINE K == {g \in Grant : TicketPhase(g)' # TicketPhase(g)}
<1>1. ASSUME NEW g \in K
      PROVE  TicketPhase(g)' = "closed" /\ TicketPhase(g) \in {"open", "verified", "refused"}
    <2>1. g \in Grant /\ g \notin stored' /\ TicketPhase(g)' # TicketPhase(g)
        OBVIOUS
    <2>2. g \in used
        BY <2>1 DEF TicketPhase
    <2>3. ~Sold(g)
        BY <2>1, SamePhase
    <2>4. ~Held(g)'
        BY <2>1, <2>2, <2>3 DEF TicketPhase, Sold, Held
    <2>5. TicketPhase(g)' = "closed"
        BY <2>1, <2>2, <2>3, <2>4 DEF TicketPhase, Sold, Held
    <2>6. Held(g) => TicketPhase(g) = "verified"
        BY <2>2, <2>3 DEF TicketPhase, Sold, Held
    <2>7. ~Held(g) => g \in stored
        BY <2>1, <2>2, <2>3, <2>5 DEF TicketPhase, Sold, Held
    <2>8. ~Held(g) => TicketPhase(g) \in {"open", "verified", "refused"}
        BY <2>2, <2>3, <2>7 DEF TicketPhase, Sold, Held
    <2> QED BY <2>5, <2>6, <2>8
<1>2. [g \in Grant |-> TicketPhase(g)]' =
          [k \in Grant |-> IF k \in K THEN "closed" ELSE [g \in Grant |-> TicketPhase(g)][k]]
    BY <1>1
<1>3. K \in SUBSET Grant
    OBVIOUS
<1> HIDE DEF K
<1>4. Tickets!Close(K)
    BY <1>1, <1>2, <1>3 DEF Tickets!Close
<1> QED BY <1>3, <1>4 DEF Tickets!Next

\* Every step is a step of the tickets or changes nothing of them.
LEMMA NextRefines == IInv /\ [Next]_vars => [Tickets!Next]_(Tickets!vars)
<1> SUFFICES ASSUME IInv, [Next]_vars PROVE [Tickets!Next]_(Tickets!vars)
    OBVIOUS
<1> USE DEF tokenVars
<1>0. TypeOK /\ NamesKnownGrants /\ stored \subseteq used /\ used \subseteq Grant
    BY DEF IInv, TypeOK
<1>1. ASSUME NEW h \in Grant, NEW rec, Add(h, rec), rec.status = "pending",
             UNCHANGED <<owner, minted, handed>>, \A g \in Grant : Held(g)' <=> Held(g)
      PROVE  Tickets!Next
    <2>1. h \notin used /\ used' = used \cup {h} /\ stored' = stored \cup {h}
          /\ grants' = [grants EXCEPT ![h] = rec]
        BY <1>1 DEF Add
    <2>2. \A g \in Grant \ {h} : TicketPhase(g)' = TicketPhase(g)
        BY <1>0, <1>1, <2>1 DEF TicketPhase, Held, TypeOK
    <2>3. ~Sold(h) /\ ~Held(h)
        BY <1>0, <2>1, SentinelAssumption DEF NamesKnownGrants, Sold, Held, Holds, TypeOK
    <2>4. TicketPhase(h) = "none"
        BY <2>1 DEF TicketPhase
    <2>5. TicketPhase(h)' = "open"
        BY <1>0, <1>1, <2>1, <2>3 DEF TicketPhase, Sold, Held, TypeOK
    <2>6. Tickets!Open(h)
        BY <1>1, <2>2, <2>4, <2>5, OnePhaseChanges DEF Tickets!Open
    <2> QED BY <2>6 DEF Tickets!Next
<1>2. ASSUME NEW g \in Grant, DeviceCode(g) \/ \E b \in Browser : AuthorizePageWeb(g, b)
      PROVE  Tickets!Next
    <2>1. \A x \in Grant : Held(x)' <=> Held(x)
        BY <1>2 DEF DeviceCode, AuthorizePageWeb, Held, Holds
    <2> QED BY <1>1, <1>2, <2>1 DEF DeviceCode, AuthorizePageWeb, NewGrant
<1>3. ASSUME NEW r \in Req, NEW x, req' = [req EXCEPT ![r] = x],
             req[r].pc \notin HoldingPC, x.pc \notin HoldingPC
      PROVE  \A g \in Grant : Held(g)' <=> Held(g)
    BY <1>0, <1>3, HoldersStay
<1>4. ASSUME NEW r \in Req, NEW g \in Grant, NEW b \in Browser, StartStandalone(r, g, b)
      PROVE  Tickets!Next
    <2>1. \A x \in Grant : Held(x)' <=> Held(x)
        BY <1>3, <1>4 DEF StartStandalone, Request, HoldingPC
    <2> QED BY <1>1, <1>4, <2>1 DEF StartStandalone, NewGrant
<1>5. ASSUME UNCHANGED <<used, owner, minted, handed>>,
             \A g \in Grant : \/ Sold(g)
                              \/ /\ g \in stored' <=> g \in stored
                                 /\ Held(g)' <=> Held(g)
                                 /\ grants'[g].status = grants[g].status
      PROVE  UNCHANGED Tickets!vars
    BY <1>5, SamePhase, QuietStep
<1>6. ASSUME UNCHANGED <<used, owner, minted, handed, grants, stored, req>>
      PROVE  UNCHANGED Tickets!vars
    BY <1>5, <1>6 DEF Held, Holds
<1>7. ASSUME NEW g \in Grant, Expire(g) PROVE UNCHANGED Tickets!vars
    BY <1>6, <1>7 DEF Expire
<1>8. ASSUME NEW a \in Attempt,
             \/ ContextExpires(a) \/ CodeArrives(a) \/ FlowFails(a) \/ FlowCancelled(a)
             \/ (\E who \in Login : Authorised(a, who)) \/ IdentityFails(a)
      PROVE  UNCHANGED Tickets!vars
    BY <1>6, <1>8 DEF ContextExpires, CodeArrives, FlowFails, FlowCancelled, Authorised,
       IdentityFails
<1>9. ASSUME NEW a \in Attempt, OwnerSignIn(a) PROVE [Tickets!Next]_(Tickets!vars)
    <2>1. UNCHANGED <<used, minted, handed, grants, stored, req>>
        BY <1>9 DEF OwnerSignIn
    <2>2. \A g \in Grant : TicketPhase(g)' = TicketPhase(g)
        BY <2>1, SamePhase DEF Held, Holds
    <2>3. CASE owner' = owner
        BY <1>6, <2>1, <2>3
    <2>4. CASE owner' # owner
        <3>1. owner = NoLogin /\ owner' = att[a].who /\ att[a].pc = "signin"
            BY <1>9, <2>4 DEF OwnerSignIn
        <3>2. att[a].who \in Login
            BY <1>0, <3>1, AttemptUpdates DEF IInv, SettlesAsOwner, TypeOK
        <3>3. Tickets!Claim(att[a].who)
            BY <2>1, <2>2, <3>1 DEF Tickets!Claim
        <3> QED BY <3>2, <3>3 DEF Tickets!Next
    <2> QED BY <2>3, <2>4
<1>10. ASSUME NEW r \in Req, NEW g \in Grant, NEW b \in Browser, Begin(r, g, b)
       PROVE  UNCHANGED Tickets!vars
    <2>1. \A h \in Grant : Held(h)' <=> Held(h)
        BY <1>3, <1>10 DEF Begin, Request, HoldingPC
    <2>2. \A h \in Grant : grants'[h].status = grants[h].status
        BY <1>0, <1>10 DEF Begin, WithGrant, TypeOK, GrantRec
    <2> QED BY <1>5, <1>10, <2>1, <2>2 DEF Begin
<1>11. ASSUME NEW r \in Req, NEW a \in Attempt, Launch(r, a)
       PROVE  UNCHANGED Tickets!vars
    <2> DEFINE y == [req[r] EXCEPT !.pc = "wait", !.a = a]
    <2>0. req[r] \in ReqRec
        BY <1>0 DEF TypeOK
    <2>1. y.pc = "wait"
        BY <2>0 DEF ReqRec
    <2>2. \A h \in Grant : Held(h)' <=> Held(h)
        BY <1>3, <1>11, <2>1 DEF Launch, HoldingPC
    <2>3. \A h \in Grant : grants'[h].status = grants[h].status
        BY <1>0, <1>11 DEF Launch, WithGrant, TypeOK, GrantRec
    <2> QED BY <1>5, <1>11, <2>2, <2>3 DEF Launch
<1>12. ASSUME NEW r \in Req, StartAnswered(r) \/ StartFails(r)
       PROVE  UNCHANGED Tickets!vars
    <2>1. [req[r] EXCEPT !.pc = "startfail"].pc = "startfail" /\ IdleReq.pc = "idle"
        BY <1>0 DEF TypeOK, ReqRec, IdleReq, Request
    <2>2. \A h \in Grant : Held(h)' <=> Held(h)
        BY <1>3, <1>12, <2>1 DEF StartAnswered, StartFails, HoldingPC
    <2> QED BY <1>5, <1>12, <2>2 DEF StartAnswered, StartFails
<1>13. ASSUME UNCHANGED <<used, owner, minted, handed, grants>>, stored' \subseteq stored,
              \A g \in Grant : Held(g)' <=> Held(g)
       PROVE  Tickets!Next
    <2>1. \A g \in stored' : TicketPhase(g)' = TicketPhase(g)
        BY <1>0, <1>13, SamePhase
    <2> QED BY <1>0, <1>13, <2>1, ClosingStep
<1>14. ASSUME Sweep PROVE Tickets!Next
    BY <1>13, <1>14 DEF Sweep, Held, Holds
<1>15. ASSUME NEW r \in Req, AfterFailedStart(r) PROVE [Tickets!Next]_(Tickets!vars)
    <2>1. \A h \in Grant : Held(h)' <=> Held(h)
        BY <1>3, <1>15 DEF AfterFailedStart, IdleReq, Request, HoldingPC
    <2>2. CASE grants[req[r].g].flow = "standalone"
        BY <1>13, <1>15, <2>1, <2>2 DEF AfterFailedStart
    <2>3. CASE grants[req[r].g].flow # "standalone"
        <3> DEFINE g == req[r].g
                   y == [grants[g] EXCEPT !.started = FALSE]
        <3>1. \A h \in Grant : grants'[h].status = grants[h].status
            <4>1. g \in Grant /\ grants \in [Grant -> GrantRec]
                BY <1>0, <1>15 DEF AfterFailedStart, NamesKnownGrants, TypeOK
            <4>2. grants[g] \in GrantRec
                BY <4>1
            <4>3. y.status = grants[g].status
                BY <4>2 DEF GrantRec
            <4>4. WithGrant(g, y)
                BY <1>15, <2>3 DEF AfterFailedStart
            <4> HIDE DEF g, y
            <4> QED BY <4>1, <4>3, <4>4, StatusStays
        <3> QED BY <1>5, <1>15, <2>1, <2>3, <3>1 DEF AfterFailedStart
    <2> QED BY <2>2, <2>3
<1>16. ASSUME Restart PROVE Tickets!Next
    <2>1. \A g : ~Held(g)'
        BY <1>16 DEF Restart, Held, Holds, IdleReq, Request
    <2> QED BY <1>0, <1>16, <2>1, ClosingStep DEF Restart
<1>17. ASSUME NEW r \in Req, Revert(r) \/ MintFailed(r)
       PROVE  Tickets!Next
    <2>0. PICK h \in Grant : h = req[r].g
        BY <1>0, <1>17 DEF Revert, MintFailed, NamesKnownGrants
    <2>1. /\ req[r].pc \in {"revert", "mintfail"} /\ req' = [req EXCEPT ![r] = IdleReq]
          /\ UNCHANGED <<stored, used, owner, minted, handed>>
        BY <1>17 DEF Revert, MintFailed
    <2>2. h \in used /\ ~Sold(h) /\ Holds(r, h)
        BY <1>0, <2>0, <2>1 DEF IInv, TokensAccounted, NamesKnownGrants, Sold, Holds
    <2>3. \A g \in Grant : /\ Held(g)' => Held(g)
                           /\ g # h => (Held(g)' <=> Held(g))
        BY <1>0, <2>0, <2>1 DEF Held, Holds, IdleReq, Request, TypeOK
    <2>4. \A g \in Grant \ {h} : TicketPhase(g)' = TicketPhase(g)
        <3>1. \A g \in Grant \ {h} : grants'[g] = grants[g]
            BY <1>0, <1>17, <2>0 DEF Revert, MintFailed, WithGrant, TypeOK
        <3> QED BY <2>1, <2>3, <3>1, SamePhase
    <2>5. ASSUME h \in stored PROVE TicketPhase(h)' = TicketPhase(h)
        <3>1. grants[h].status = "approved" /\ grants[h] \in GrantRec
            BY <1>0, <2>2, <2>5 DEF IInv, HolderIsExclusive, TypeOK
        <3>2. grants'[h].status \in {"approved", "authenticated"}
            BY <1>0, <1>17, <2>0, <2>2, <3>1 DEF Revert, MintFailed, WithGrant, TypeOK, GrantRec
        <3>3. TicketPhase(h) = "verified"
            BY <2>2, <3>1 DEF TicketPhase, Sold, Held
        <3>4. TicketPhase(h)' = "verified"
            BY <2>1, <2>2, <2>5, <3>2 DEF TicketPhase, Sold
        <3> QED BY <3>3, <3>4
    <2> QED BY <1>0, <2>1, <2>3, <2>4, <2>5, ClosingStep
<1>18. ASSUME NEW r \in Req, Mint(r) PROVE [Tickets!Next]_(Tickets!vars)
    <2>0. PICK h \in Grant : h = req[r].g
        BY <1>0, <1>18 DEF Mint, NamesKnownGrants
    <2>1. req[r].pc = "mint" /\ UNCHANGED <<grants, stored, used, owner, handed>>
        BY <1>18 DEF Mint
    <2>2. h \in used /\ ~Sold(h) /\ Holds(r, h) /\ h # NoGrant
        BY <1>0, <2>0, <2>1, SentinelAssumption
        DEF IInv, TokensAccounted, NamesKnownGrants, Sold, Holds
    <2>3. req[r] \in ReqRec
        BY <1>0 DEF TypeOK
    <2>4. ASSUME NEW y, req' = [req EXCEPT ![r] = y], y.g = h, y.pc \in HoldingPC
          PROVE  \A g \in Grant : Held(g)' <=> Held(g)
        BY <1>0, <2>0, <2>1, <2>4 DEF Held, Holds, HoldingPC, TypeOK
    <2>5. ASSUME NEW t \in Token, minted[t] = NoGrant, minted' = [minted EXCEPT ![t] = h],
                 req' = [req EXCEPT ![r] = [@ EXCEPT !.pc = "fill", !.t = t]]
          PROVE  Tickets!Next
        <3> DEFINE y == [req[r] EXCEPT !.pc = "fill", !.t = t]
        <3>1. y.g = h /\ y.pc = "fill"
            BY <2>0, <2>3 DEF ReqRec
        <3>2. \A g \in Grant : Held(g)' <=> Held(g)
            BY <2>4, <2>5, <3>1 DEF HoldingPC
        <3>3. \A g \in Grant \ {h} : Sold(g)' <=> Sold(g)
            BY <1>0, <2>5, SentinelAssumption DEF Sold, TypeOK
        <3>4. \A g \in Grant \ {h} : TicketPhase(g)' = TicketPhase(g)
            BY <2>1, <3>2, <3>3 DEF TicketPhase, Sold, Held
        <3>5. minted'[t] = h
            BY <1>0, <2>5 DEF TypeOK
        <3>6. TicketPhase(h)' = "exchanged"
            BY <2>1, <2>2, <3>5 DEF TicketPhase
        <3>7. TicketPhase(h) = "verified"
            BY <2>2 DEF TicketPhase, Sold, Holds
        <3>8. Tickets!Exchange(h, t)
            BY <2>1, <2>2, <2>5, <3>4, <3>6, <3>7, OnePhaseChanges DEF Tickets!Exchange
        <3> QED BY <2>2, <3>8 DEF Tickets!Next
    <2>6. ASSUME UNCHANGED minted, req' = [req EXCEPT ![r] = [@ EXCEPT !.pc = "mintfail"]]
          PROVE  UNCHANGED Tickets!vars
        <3> DEFINE y == [req[r] EXCEPT !.pc = "mintfail"]
        <3>1. y.g = h /\ y.pc = "mintfail"
            BY <2>0, <2>3 DEF ReqRec
        <3>2. \A g \in Grant : Held(g)' <=> Held(g)
            BY <2>4, <2>6, <3>1 DEF HoldingPC
        <3> QED BY <1>5, <2>1, <2>6, <3>2
    <2> QED BY <1>18, <2>0, <2>5, <2>6 DEF Mint
<1>19. ASSUME NEW r \in Req, Fill(r) PROVE UNCHANGED Tickets!vars
    <2> DEFINE h == req[r].g
    <2>1. /\ req[r].pc = "fill" /\ req' = [req EXCEPT ![r] = IdleReq]
          /\ UNCHANGED <<stored, used, owner, minted, handed>>
        BY <1>19 DEF Fill
    <2>2. Sold(h)
        BY <2>1 DEF IInv, TokensAccounted, Sold
    <2>3. \A g \in Grant \ {h} : Held(g)' <=> Held(g)
        BY <1>0, <2>1 DEF Held, Holds, IdleReq, Request, TypeOK
    <2>4. \A g \in Grant \ {h} : grants'[g] = grants[g]
        BY <1>0, <1>19 DEF Fill, WithGrant, TypeOK
    <2> QED BY <1>5, <2>1, <2>2, <2>3, <2>4
<1>20. ASSUME NEW r \in Req, NEW h \in Grant, NEW b \in Browser, Reserve(r, h, b)
       PROVE  UNCHANGED Tickets!vars
    <2>1. /\ req[r].pc = "idle" /\ h \in stored /\ h \in used /\ grants[h].status = "authenticated"
          /\ UNCHANGED <<stored, used, owner, minted, handed>>
        BY <1>0, <1>20 DEF Reserve, Live
    <2>2. /\ \A g \in Grant \ {h} : Held(g)' <=> Held(g)
          /\ Held(h)'
        <3>1. PICK p \in {"mint", "revert"} : req' = [req EXCEPT ![r] = Request(p, h, b, FALSE)]
            BY <1>20 DEF Reserve
        <3> QED BY <1>0, <2>1, <3>1 DEF Held, Holds, Request, TypeOK
    <2>3. \A g \in Grant \ {h} : grants'[g] = grants[g]
        BY <1>0, <1>20 DEF Reserve, WithGrant, TypeOK
    <2>4. TicketPhase(h)' = TicketPhase(h)
        BY <2>1, <2>2 DEF TicketPhase, Held
    <2>5. \A g \in Grant : TicketPhase(g)' = TicketPhase(g)
        BY <2>1, <2>2, <2>3, <2>4, SamePhase
    <2> QED BY <2>1, <2>5, QuietStep
<1>21. ASSUME NEW a \in Attempt, NEW h \in Grant, h = att[a].g, NEW rec,
              WithGrant(h, rec), rec.status # "pending" \/ rec = grants[h],
              grants[h].status = "pending" \/ rec = grants[h],
              UNCHANGED <<stored, used, owner, minted, handed, req>>
       PROVE  \/ UNCHANGED Tickets!vars
              \/ /\ TicketPhase(h) = "open" /\ ~Sold(h) /\ ~Held(h) /\ h \in stored
                 /\ h \in used /\ grants'[h] = rec /\ rec.status # "pending"
                 /\ \A g \in Grant \ {h} : TicketPhase(g)' = TicketPhase(g)
    <2>1. \A g : Held(g)' <=> Held(g)
        BY <1>21 DEF Held, Holds
    <2>2. \A g \in Grant \ {h} : grants'[g] = grants[g]
        BY <1>0, <1>21 DEF WithGrant, TypeOK
    <2>3. CASE ~Live(h) \/ rec = grants[h]
        <3>1. grants' = grants
            BY <1>0, <1>21, <2>3 DEF WithGrant, TypeOK
        <3> QED BY <1>5, <1>21, <2>1, <3>1
    <2>4. CASE Live(h) /\ rec # grants[h]
        <3>1. h \in stored /\ h \in used /\ grants[h].status = "pending" /\ rec.status # "pending"
            BY <1>0, <1>21, <2>4 DEF Live
        <3>2. grants'[h] = rec
            BY <1>0, <1>21, <2>4 DEF WithGrant, TypeOK
        <3>3. ~Held(h)
            BY <3>1 DEF IInv, HolderIsExclusive, Held
        <3>4. ~Sold(h)
            BY <1>0, <2>4, <3>1, <3>3, SentinelAssumption
            DEF IInv, TokensAccounted, Sold, Held, Holds
        <3>5. TicketPhase(h) = "open"
            BY <3>1, <3>3, <3>4 DEF TicketPhase, Held, Sold
        <3>6. \A g \in Grant \ {h} : TicketPhase(g)' = TicketPhase(g)
            BY <1>21, <2>1, <2>2, SamePhase
        <3> QED BY <3>1, <3>2, <3>3, <3>4, <3>5, <3>6
    <2> QED BY <2>3, <2>4
<1>22. ASSUME NEW a \in Attempt, Settle(a) PROVE [Tickets!Next]_(Tickets!vars)
    <2>0. PICK h \in Grant : h = att[a].g
        BY <1>0, <1>22 DEF Settle, NamesKnownGrants
    <2> DEFINE rec == IF grants[h].status = "pending"
                      THEN [grants[h] EXCEPT !.status = "authenticated", !.login = att[a].who]
                      ELSE grants[h]
    <2>1. WithGrant(h, rec) /\ UNCHANGED <<stored, used, owner, minted, handed, req>>
        BY <1>22, <2>0 DEF Settle
    <2>2. /\ rec.status = "authenticated" \/ rec = grants[h]
          /\ grants[h].status = "pending" \/ rec = grants[h]
        BY <1>0 DEF TypeOK, GrantRec
    <2> HIDE DEF rec
    <2>3. \/ UNCHANGED Tickets!vars
          \/ /\ TicketPhase(h) = "open" /\ ~Sold(h) /\ ~Held(h) /\ h \in stored
             /\ h \in used /\ grants'[h] = rec /\ rec.status # "pending"
             /\ \A g \in Grant \ {h} : TicketPhase(g)' = TicketPhase(g)
        BY <1>21, <2>0, <2>1, <2>2
    <2>4. ASSUME ~UNCHANGED Tickets!vars PROVE Tickets!Verify(h)
        <3>1. grants'[h].status = "authenticated"
            BY <1>0, <2>2, <2>3, <2>4 DEF TicketPhase
        <3>2. TicketPhase(h)' = "verified"
            BY <2>1, <2>3, <2>4, <3>1 DEF TicketPhase, Sold
        <3>3. owner # NoLogin
            BY <1>22 DEF Settle, IInv, SettlesAsOwner
        <3> QED BY <2>1, <2>3, <2>4, <3>2, <3>3, OnePhaseChanges DEF Tickets!Verify
    <2> QED BY <2>4 DEF Tickets!Next
<1>23. ASSUME NEW a \in Attempt, DenyGrant(a) PROVE [Tickets!Next]_(Tickets!vars)
    <2>0. PICK h \in Grant : h = att[a].g
        BY <1>0, <1>23 DEF DenyGrant, NamesKnownGrants
    <2> DEFINE rec == IF grants[h].status = "pending"
                      THEN [grants[h] EXCEPT !.status = "denied"]
                      ELSE grants[h]
    <2>1. WithGrant(h, rec) /\ UNCHANGED <<stored, used, owner, minted, handed, req>>
        BY <1>23, <2>0 DEF DenyGrant
    <2>2. /\ rec.status = "denied" \/ rec = grants[h]
          /\ grants[h].status = "pending" \/ rec = grants[h]
        BY <1>0 DEF TypeOK, GrantRec
    <2> HIDE DEF rec
    <2>3. \/ UNCHANGED Tickets!vars
          \/ /\ TicketPhase(h) = "open" /\ ~Sold(h) /\ ~Held(h) /\ h \in stored
             /\ h \in used /\ grants'[h] = rec /\ rec.status # "pending"
             /\ \A g \in Grant \ {h} : TicketPhase(g)' = TicketPhase(g)
        BY <1>21, <2>0, <2>1, <2>2
    <2>4. ASSUME ~UNCHANGED Tickets!vars PROVE Tickets!Refuse(h)
        <3>1. grants'[h].status = "denied"
            BY <1>0, <2>2, <2>3, <2>4 DEF TicketPhase
        <3>2. TicketPhase(h)' = "refused"
            BY <2>1, <2>3, <2>4, <3>1 DEF TicketPhase, Sold, Held, Holds
        <3> QED BY <2>1, <2>3, <2>4, <3>2, OnePhaseChanges DEF Tickets!Refuse
    <2> QED BY <2>4 DEF Tickets!Next
<1>24. ASSUME NEW h \in Grant, AccessToken(h) PROVE Tickets!Next
    <2>0. PICK t \in Token : t = grants[h].secret
        BY <1>0, <1>24, GrantUpdates DEF AccessToken, TypeOK
    <2>1. /\ h \in used /\ h \in stored
          /\ handed' = [handed EXCEPT ![t] = @ + 1] /\ stored' = stored \ {h}
          /\ UNCHANGED <<grants, used, req, owner, minted>>
        BY <1>0, <1>24, <2>0 DEF AccessToken, Live
    <2>2. minted[t] = h /\ h # NoGrant
        BY <1>0, <2>0, <2>1, SentinelAssumption DEF IInv, TokensAccounted
    <2>3. handed[t] = 0
        BY <2>1, <2>2 DEF IInv, HandedIsConsumed
    <2>4. handed' = [handed EXCEPT ![t] = 1]
        BY <2>1, <2>3
    <2>5. \A g \in Grant : TicketPhase(g)' = TicketPhase(g)
        BY <2>1, <2>2, SamePhase DEF Sold, Held, Holds
    <2>6. Tickets!HandOver(t)
        BY <2>1, <2>2, <2>3, <2>4, <2>5 DEF Tickets!HandOver
    <2> QED BY <2>6 DEF Tickets!Next
<1>25. CASE UNCHANGED vars
    BY <1>6, <1>25 DEF vars
<1> QED
    BY <1>2, <1>4, <1>7, <1>8, <1>9, <1>10, <1>11, <1>12, <1>14, <1>15, <1>16, <1>17,
       <1>18, <1>19, <1>20, <1>22, <1>23, <1>24, <1>25
    DEF Next, BrowserStep, ReqStep, AttStep

\* The handlers, goroutines, sweeps and restarts of the sign-in implement
\* one-shot tickets: opened, verified as the owner or refused, exchanged once.
THEOREM ImplementsTicketsHolds == Spec => ImplementsTickets
BY InitRefines, NextRefines, IInvHolds, PTL DEF Spec, ImplementsTickets, Tickets!Spec

==============================================================================
