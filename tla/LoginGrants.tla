----------------------------- MODULE LoginGrants -----------------------------
(* The sign-in grants of internal/loginflow: how one `gh auth login`, or one  *)
(* console sign-in, becomes at most one proxy token handed out at most once.  *)
(*                                                                            *)
(* A grant is added by deviceCode, authorizePageWeb or apiStartStandalone,    *)
(* authenticated by a background goroutine (an ATTEMPT: one runGitHubAuth),   *)
(* approved by apiApprove and collected by accessToken.  Every critical       *)
(* section of grantStore.mu is one action; the HTTP handlers that take the    *)
(* lock several times (apiBegin, apiStartStandalone, apiApprove) are REQUESTS *)
(* with a program counter, so that any other handler, goroutine, expiry or    *)
(* restart may come between two of their critical sections.                   *)
EXTENDS Naturals, FiniteSets

CONSTANTS
    Grant,       \* grant ids (randHex(16), never issued twice)
    Browser,     \* browsers, each with one bgh_grant cookie
    Req,         \* slots for multi-step HTTP requests in flight
    Attempt,     \* slots for runGitHubAuth goroutines, reusable after a restart
    Token,       \* proxy tokens (the minted secrets)
    Login,       \* GitHub logins
    MaxLiveGrants, \* maxLiveGrants: capacity of the grant store
    NoGrant, NoBrowser, NoAttempt, NoToken, NoLogin

ASSUME SentinelAssumption ==
    /\ NoGrant \notin Grant
    /\ NoBrowser \notin Browser
    /\ NoAttempt \notin Attempt
    /\ NoToken \notin Token
    /\ NoLogin \notin Login

ASSUME CapacityAssumption == MaxLiveGrants \in Nat

VARIABLES
    grants,   \* the contents of each grant ever added
    stored,   \* the ids that are keys of grantStore.grants
    expired,  \* the ids whose expiresAt has passed
    used,     \* the ids ever issued
    cookie,   \* the grant named by each browser's bgh_grant cookie
    req,      \* the requests in flight
    att,      \* the background attempts
    owner,    \* the login of the deployment's owner (owner.Store, persisted)
    minted,   \* for each token of the store, the grant that it was minted from
    minter,   \* and the browser whose approval minted it
    handed    \* how many replies of accessToken carried its secret

vars == <<grants, stored, expired, used, cookie, req, att, owner,
          minted, minter, handed>>

tokenVars == <<minted, minter, handed>>

Flow == {"device", "web", "standalone"}
Status == {"pending", "authenticated", "approved", "denied"}

\* browserSecret is the browser it was issued to: it is written once per grant
\* and only that browser is ever sent it.  cancel is the attempt whose context
\* the stored CancelFunc cancels.
GrantRec == [flow: Flow, status: Status, started: BOOLEAN,
             binder: Browser \cup {NoBrowser}, login: Login \cup {NoLogin},
             secret: Token \cup {NoToken}, cancel: Attempt \cup {NoAttempt}]

\* The program counters of the handlers.  launch, wait, startfail: apiBegin and
\* apiStartStandalone around runGitHubAuth.  revert, mint, mintfail, fill:
\* apiApprove after its reservation.
ReqPC == {"idle", "launch", "wait", "startfail",
          "revert", "mint", "mintfail", "fill"}

ReqRec == [pc: ReqPC, g: Grant \cup {NoGrant}, b: Browser \cup {NoBrowser},
           setsCookie: BOOLEAN, a: Attempt \cup {NoAttempt},
           t: Token \cup {NoToken}]

\* The program counters of runGitHubAuth's goroutine.  flow: DeviceFlow has no
\* code yet; poll: it has one and polls; deny: about to call denyGrant; signin:
\* about to call Owner.SignIn; settle: the sign-in was accepted.
AttPC == {"unused", "flow", "poll", "deny", "signin", "settle", "done"}

\* sentCode, sentErr: what waits in codeCh and errCh.  disclosed: the GitHub
\* user code reached the operator, who alone can authorise it.
AttRec == [pc: AttPC, g: Grant \cup {NoGrant}, who: Login \cup {NoLogin},
           cancelled: BOOLEAN, sentCode: BOOLEAN, sentErr: BOOLEAN,
           disclosed: BOOLEAN]

Request(p, g, b, c) ==
    [pc |-> p, g |-> g, b |-> b, setsCookie |-> c,
     a |-> NoAttempt, t |-> NoToken]

IdleReq == Request("idle", NoGrant, NoBrowser, FALSE)

NewAttempt(p, g) ==
    [pc |-> p, g |-> g, who |-> NoLogin, cancelled |-> FALSE,
     sentCode |-> FALSE, sentErr |-> FALSE, disclosed |-> FALSE]

UnusedAtt == NewAttempt("unused", NoGrant)

NewGrant(f, b, s) == [flow |-> f, status |-> "pending", started |-> s,
                      binder |-> b, login |-> NoLogin, secret |-> NoToken,
                      cancel |-> NoAttempt]

\* The types; only issued ids are ever stored, which is what makes an id name
\* one sign-in for good (add).
TypeOK ==
    /\ grants \in [Grant -> GrantRec]
    /\ stored \subseteq used
    /\ expired \subseteq used
    /\ used \subseteq Grant
    /\ cookie \in [Browser -> Grant \cup {NoGrant}]
    /\ req \in [Req -> ReqRec]
    /\ att \in [Attempt -> AttRec]
    /\ owner \in Login \cup {NoLogin}
    /\ minted \in [Token -> Grant \cup {NoGrant}]
    /\ minter \in [Token -> Browser \cup {NoBrowser}]
    /\ handed \in [Token -> Nat]

Init ==
    /\ grants = [g \in Grant |-> NewGrant("device", NoBrowser, FALSE)]
    /\ stored = {}
    /\ expired = {}
    /\ used = {}
    /\ cookie = [b \in Browser |-> NoGrant]
    /\ req = [r \in Req |-> IdleReq]
    /\ att = [a \in Attempt |-> UnusedAtt]
    /\ owner = NoLogin
    /\ minted = [t \in Token |-> NoGrant]
    /\ minter = [t \in Token |-> NoBrowser]
    /\ handed = [t \in Token |-> 0]

(* ------------------------------------------------------------------------- *)
(* The grant store                                                           *)
(* ------------------------------------------------------------------------- *)

\* withGrant and consume find a grant only while it is stored and not expired.
Live(g) == g \in stored /\ g \notin expired

\* withGrant(byID(g), fn) where fn leaves the grant as `rec`: a no-op when the
\* grant is not found.
WithGrant(g, rec) ==
    grants' = IF Live(g) THEN [grants EXCEPT ![g] = rec] ELSE grants

\* add: refused at capacity, otherwise a fresh id.
Add(g, rec) ==
    /\ Cardinality(stored) < MaxLiveGrants
    /\ g \in Grant \ used
    /\ used' = used \cup {g}
    /\ stored' = stored \cup {g}
    /\ grants' = [grants EXCEPT ![g] = rec]

\* The attempts after the CancelFuncs of the grants in G have been called.
CancelledFor(G) ==
    [a \in Attempt |->
        IF \E g \in G : grants[g].cancel = a
        THEN [att[a] EXCEPT !.cancelled = TRUE]
        ELSE att[a]]

\* The expiresAt of a stored grant passes.
Expire(g) ==
    /\ g \in stored \ expired
    /\ expired' = expired \cup {g}
    /\ UNCHANGED <<grants, stored, used, cookie, req, att, owner, tokenVars>>

\* sweepLoop: one tick cancels and deletes every expired grant.
Sweep ==
    /\ stored \cap expired # {}
    /\ att' = CancelledFor(stored \cap expired)
    /\ stored' = stored \ expired
    /\ UNCHANGED <<grants, expired, used, cookie, req, owner, tokenVars>>

(* ------------------------------------------------------------------------- *)
(* The handlers that add a grant                                             *)
(* ------------------------------------------------------------------------- *)

\* deviceCode: gh asks for a device code; no browser is bound yet.
DeviceCode(g) ==
    /\ Add(g, NewGrant("device", NoBrowser, FALSE))
    /\ UNCHANGED <<expired, cookie, req, att, owner, tokenVars>>

\* authorizePageWeb: the browser gh opened is bound at once.  The page, and the
\* cookie with it, may not arrive.
AuthorizePageWeb(g, b) ==
    /\ Add(g, NewGrant("web", b, FALSE))
    /\ \/ cookie' = [cookie EXCEPT ![b] = g]
       \/ cookie' = cookie
    /\ UNCHANGED <<expired, req, att, owner, tokenVars>>

\* BOUND of the model: a start is accepted only while an attempt slot is free
\* for it.
AttemptSlotFree ==
    Cardinality({r \in Req : req[r].pc = "launch"})
        < Cardinality({a \in Attempt : att[a].pc = "unused"})

\* apiStartStandalone up to runGitHubAuth.
StartStandalone(r, g, b) ==
    /\ req[r].pc = "idle"
    /\ AttemptSlotFree
    /\ Add(g, NewGrant("standalone", b, TRUE))
    /\ req' = [req EXCEPT ![r] = Request("launch", g, b, TRUE)]
    /\ UNCHANGED <<expired, cookie, att, owner, tokenVars>>

(* ------------------------------------------------------------------------- *)
(* apiBegin and runGitHubAuth                                                *)
(* ------------------------------------------------------------------------- *)

\* apiBegin claims the start under the lock, binding a device grant to the first
\* browser that claims it.  A grant already started changes nothing.
Begin(r, g, b) ==
    /\ req[r].pc = "idle"
    /\ AttemptSlotFree
    /\ Live(g)
    /\ grants[g].flow # "standalone"
    /\ ~grants[g].started
    /\ WithGrant(g, [grants[g] EXCEPT
           !.started = TRUE,
           !.binder = IF @ = NoBrowser THEN b ELSE @])
    /\ req' = [req EXCEPT ![r] =
           Request("launch", g, b, grants[g].binder = NoBrowser)]
    /\ UNCHANGED <<stored, expired, used, cookie, att, owner, tokenVars>>

\* runGitHubAuth that installs its CancelFunc without cancelling the prior one.
LaunchWithoutCancel(r, a) ==
    LET g == req[r].g IN
    /\ req[r].pc = "launch"
    /\ att[a].pc = "unused"
    /\ WithGrant(g, [grants[g] EXCEPT !.cancel = a])
    /\ att' = [att EXCEPT ![a] = NewAttempt("flow", g)]
    /\ req' = [req EXCEPT ![r] = [@ EXCEPT !.pc = "wait", !.a = a]]
    /\ UNCHANGED <<stored, expired, used, cookie, owner, tokenVars>>

\* runGitHubAuth up to its select: under the lock it cancels the grant's prior
\* attempt and stores its own CancelFunc, then it starts the goroutine.  On a
\* grant that expired meanwhile nothing is stored, but the goroutine starts.
Launch(r, a) ==
    LET g == req[r].g IN
    /\ req[r].pc = "launch"
    /\ att[a].pc = "unused"
    /\ WithGrant(g, [grants[g] EXCEPT !.cancel = a])
    /\ att' = [(IF Live(g) THEN CancelledFor({g}) ELSE att) EXCEPT
                  ![a] = NewAttempt("flow", g)]
    /\ req' = [req EXCEPT ![r] = [@ EXCEPT !.pc = "wait", !.a = a]]
    /\ UNCHANGED <<stored, expired, used, cookie, owner, tokenVars>>

\* The reply sets the cookie of the browser that this request bound.
CookieAfterReply(r) ==
    IF req[r].setsCookie
    THEN [cookie EXCEPT ![req[r].b] = req[r].g]
    ELSE cookie

\* The select of runGitHubAuth picks codeCh: the reply shows the operator the
\* GitHub code.  The reply may be lost, and with it the code and the cookie.
StartAnswered(r) ==
    /\ req[r].pc = "wait"
    /\ att[req[r].a].sentCode
    /\ \/ /\ cookie' = CookieAfterReply(r)
          /\ att' = [att EXCEPT ![req[r].a] = [@ EXCEPT !.disclosed = TRUE]]
       \/ UNCHANGED <<cookie, att>>
    /\ req' = [req EXCEPT ![r] = IdleReq]
    /\ UNCHANGED <<grants, stored, expired, used, owner, tokenVars>>

\* The select picks errCh, or its 20 second timer.
StartFails(r) ==
    /\ req[r].pc = "wait"
    /\ req' = [req EXCEPT ![r] = [@ EXCEPT !.pc = "startfail"]]
    /\ UNCHANGED <<grants, stored, expired, used, cookie, att, owner, tokenVars>>

\* apiBegin's error path opens the grant for a retry (its 502 reply carries the
\* cookie); apiStartStandalone's removes the grant, cancelling the attempt.
AfterFailedStart(r) ==
    LET g == req[r].g IN
    /\ req[r].pc = "startfail"
    /\ \/ /\ grants[g].flow = "standalone"
          /\ att' = IF g \in stored THEN CancelledFor({g}) ELSE att
          /\ stored' = stored \ {g}
          /\ UNCHANGED <<grants, cookie>>
       \/ /\ grants[g].flow # "standalone"
          /\ WithGrant(g, [grants[g] EXCEPT !.started = FALSE])
          /\ cookie' \in {cookie, CookieAfterReply(r)}
          /\ UNCHANGED <<stored, att>>
    /\ req' = [req EXCEPT ![r] = IdleReq]
    /\ UNCHANGED <<expired, used, owner, tokenVars>>

(* ------------------------------------------------------------------------- *)
(* The attempt's goroutine                                                   *)
(* ------------------------------------------------------------------------- *)

\* The attempt's context runs out.  It was created after the grant and lasts as
\* long, so never before the grant's own expiry.
ContextExpires(a) ==
    /\ att[a].pc \notin {"unused", "done"}
    /\ att[a].g \in expired
    /\ ~att[a].cancelled
    /\ att' = [att EXCEPT ![a] = [@ EXCEPT !.cancelled = TRUE]]
    /\ UNCHANGED <<grants, stored, expired, used, cookie, req, owner, tokenVars>>

\* DeviceFlow obtains a code and calls OnCode, which fills codeCh.
CodeArrives(a) ==
    /\ att[a].pc = "flow"
    /\ ~att[a].cancelled
    /\ att' = [att EXCEPT ![a] = [@ EXCEPT !.pc = "poll", !.sentCode = TRUE]]
    /\ UNCHANGED <<grants, stored, expired, used, cookie, req, owner, tokenVars>>

\* DeviceFlow fails of itself (GitHub refuses, or the code expires): the error
\* goes to errCh and the goroutine goes on to denyGrant.
FlowFails(a) ==
    /\ att[a].pc \in {"flow", "poll"}
    /\ ~att[a].cancelled
    /\ att' = [att EXCEPT ![a] = [@ EXCEPT !.pc = "deny", !.sentErr = TRUE]]
    /\ UNCHANGED <<grants, stored, expired, used, cookie, req, owner, tokenVars>>

\* DeviceFlow returns because the context was cancelled: a silent return.
FlowCancelled(a) ==
    /\ att[a].pc \in {"flow", "poll"}
    /\ att[a].cancelled
    /\ att' = [att EXCEPT ![a] = [@ EXCEPT !.pc = "done"]]
    /\ UNCHANGED <<grants, stored, expired, used, cookie, req, owner, tokenVars>>

\* The operator authorised the code: DeviceFlow returns a token and resolveLogin
\* names its user.  With the context cancelled resolveLogin fails.
Authorised(a, who) ==
    /\ att[a].pc = "poll"
    /\ att[a].disclosed
    /\ ~att[a].cancelled
    /\ att' = [att EXCEPT ![a] = [@ EXCEPT !.pc = "signin", !.who = who]]
    /\ UNCHANGED <<grants, stored, expired, used, cookie, req, owner, tokenVars>>

\* DeviceFlow returned a token but resolveLogin fails; no test of the context
\* stands between this and denyGrant.
IdentityFails(a) ==
    /\ att[a].pc = "poll"
    /\ att[a].disclosed
    /\ att' = [att EXCEPT ![a] = [@ EXCEPT !.pc = "deny"]]
    /\ UNCHANGED <<grants, stored, expired, used, cookie, req, owner, tokenVars>>

\* Owner.SignIn that takes a failed write of owner.json for a success.
OwnerSignInUnpersisted(a) ==
    /\ att[a].pc = "signin"
    /\ owner \in {NoLogin, att[a].who}
    /\ owner' \in {owner, att[a].who}
    /\ att' = [att EXCEPT ![a] = [@ EXCEPT !.pc = "settle"]]
    /\ UNCHANGED <<grants, stored, expired, used, cookie, req, tokenVars>>

\* Owner.SignIn: the first accepted sign-in claims the deployment, later ones
\* must be the owner's.  A persist error (or a foreign fallback custodian)
\* denies the grant.
OwnerSignIn(a) ==
    /\ att[a].pc = "signin"
    /\ \/ /\ owner \in {NoLogin, att[a].who}
          /\ owner' = att[a].who
          /\ att' = [att EXCEPT ![a] = [@ EXCEPT !.pc = "settle"]]
       \/ /\ att' = [att EXCEPT ![a] = [@ EXCEPT !.pc = "deny"]]
          /\ owner' = owner
    /\ UNCHANGED <<grants, stored, expired, used, cookie, req, tokenVars>>

\* The goroutine settles a still-pending grant as authenticated.
Settle(a) ==
    LET g == att[a].g IN
    /\ att[a].pc = "settle"
    /\ WithGrant(g, IF grants[g].status = "pending"
                    THEN [grants[g] EXCEPT !.status = "authenticated",
                                           !.login = att[a].who]
                    ELSE grants[g])
    /\ att' = [att EXCEPT ![a] = [@ EXCEPT !.pc = "done", !.cancelled = TRUE]]
    /\ UNCHANGED <<stored, expired, used, cookie, req, owner, tokenVars>>

\* denyGrant that leaves the grant as it is.
DenyGrantForgotten(a) ==
    /\ att[a].pc = "deny"
    /\ att' = [att EXCEPT ![a] = [@ EXCEPT !.pc = "done", !.cancelled = TRUE]]
    /\ UNCHANGED <<grants, stored, expired, used, cookie, req, owner, tokenVars>>

\* denyGrant settles a still-pending grant as denied.
DenyGrant(a) ==
    LET g == att[a].g IN
    /\ att[a].pc = "deny"
    /\ WithGrant(g, IF grants[g].status = "pending"
                    THEN [grants[g] EXCEPT !.status = "denied"]
                    ELSE grants[g])
    /\ att' = [att EXCEPT ![a] = [@ EXCEPT !.pc = "done", !.cancelled = TRUE]]
    /\ UNCHANGED <<stored, expired, used, cookie, req, owner, tokenVars>>

(* ------------------------------------------------------------------------- *)
(* apiApprove and accessToken                                                *)
(* ------------------------------------------------------------------------- *)

\* grantCookieMatches: a grant with no browserSecret never matches.
GrantCookieMatches(b, g) ==
    /\ grants[g].binder # NoBrowser
    /\ cookie[b] = g

\* apiApprove that checks the status but does not reserve the grant.
ReserveWithoutMark(r, g, b) ==
    /\ req[r].pc = "idle"
    /\ Live(g)
    /\ grants[g].status = "authenticated"
    /\ \E keysValid \in BOOLEAN :
           req' = [req EXCEPT ![r] =
               Request(IF GrantCookieMatches(b, g) /\ keysValid
                       THEN "mint" ELSE "revert", g, b, FALSE)]
    /\ UNCHANGED <<grants, stored, expired, used, cookie, att, owner, tokenVars>>

\* apiApprove that does not ask for the binding cookie.
ReserveWithoutCookie(r, g, b) ==
    /\ req[r].pc = "idle"
    /\ Live(g)
    /\ grants[g].status = "authenticated"
    /\ WithGrant(g, [grants[g] EXCEPT !.status = "approved"])
    /\ \E keysValid \in BOOLEAN :
           req' = [req EXCEPT ![r] =
               Request(IF keysValid
                       THEN "mint" ELSE "revert", g, b, FALSE)]
    /\ UNCHANGED <<stored, expired, used, cookie, att, owner, tokenVars>>

\* apiApprove reserves an authenticated grant.  The cookie that came with the
\* request and the resource keys of its policy decide, from values read here,
\* between minting and giving the reservation back.
Reserve(r, g, b) ==
    /\ req[r].pc = "idle"
    /\ Live(g)
    /\ grants[g].status = "authenticated"
    /\ WithGrant(g, [grants[g] EXCEPT !.status = "approved"])
    /\ \E keysValid \in BOOLEAN :
           req' = [req EXCEPT ![r] =
               Request(IF GrantCookieMatches(b, g) /\ keysValid
                       THEN "mint" ELSE "revert", g, b, FALSE)]
    /\ UNCHANGED <<stored, expired, used, cookie, att, owner, tokenVars>>

\* The cookie or the policy was refused: the reservation is given back.
Revert(r) ==
    LET g == req[r].g IN
    /\ req[r].pc = "revert"
    /\ WithGrant(g, IF grants[g].status = "approved"
                    THEN [grants[g] EXCEPT !.status = "authenticated"]
                    ELSE grants[g])
    /\ req' = [req EXCEPT ![r] = IdleReq]
    /\ UNCHANGED <<stored, expired, used, cookie, att, owner, tokenVars>>

\* Store.Create: a new token, or an error that leaves none.
Mint(r) ==
    /\ req[r].pc = "mint"
    /\ \/ \E t \in Token :
             /\ minted[t] = NoGrant
             /\ minted' = [minted EXCEPT ![t] = req[r].g]
             /\ minter' = [minter EXCEPT ![t] = req[r].b]
             /\ req' = [req EXCEPT ![r] = [@ EXCEPT !.pc = "fill", !.t = t]]
       \/ /\ req' = [req EXCEPT ![r] = [@ EXCEPT !.pc = "mintfail"]]
          /\ UNCHANGED <<minted, minter>>
    /\ UNCHANGED <<grants, stored, expired, used, cookie, att, owner, handed>>

\* apiApprove that answers 500 and forgets the reservation.
MintFailedForgotten(r) ==
    /\ req[r].pc = "mintfail"
    /\ req' = [req EXCEPT ![r] = IdleReq]
    /\ UNCHANGED <<grants, stored, expired, used, cookie, att, owner, tokenVars>>

\* Store.Create failed: the status goes back, whatever it is.
MintFailed(r) ==
    LET g == req[r].g IN
    /\ req[r].pc = "mintfail"
    /\ WithGrant(g, [grants[g] EXCEPT !.status = "authenticated"])
    /\ req' = [req EXCEPT ![r] = IdleReq]
    /\ UNCHANGED <<stored, expired, used, cookie, att, owner, tokenVars>>

\* apiApprove that reopens the grant while filling in the secret.
FillReopens(r) ==
    LET g == req[r].g IN
    /\ req[r].pc = "fill"
    /\ WithGrant(g, [grants[g] EXCEPT !.secret = req[r].t, !.status = "authenticated"])
    /\ req' = [req EXCEPT ![r] = IdleReq]
    /\ UNCHANGED <<stored, expired, used, cookie, att, owner, tokenVars>>

\* The minted secret (and a web grant's auth code) is filled in.
Fill(r) ==
    LET g == req[r].g IN
    /\ req[r].pc = "fill"
    /\ WithGrant(g, [grants[g] EXCEPT !.secret = req[r].t])
    /\ req' = [req EXCEPT ![r] = IdleReq]
    /\ UNCHANGED <<stored, expired, used, cookie, att, owner, tokenVars>>

\* Who can name the grant at accessToken: gh knows a device code from the start
\* and an auth code from the redirect; a standalone grant has neither.
Pollable(g) ==
    CASE grants[g].flow = "device" -> TRUE
      [] grants[g].flow = "web" -> grants[g].secret # NoToken
      [] OTHER -> FALSE

\* accessToken that reads the secret under one lock and deletes under another.
AccessTokenKeepsGrant(g) ==
    /\ Live(g)
    /\ Pollable(g)
    /\ grants[g].status = "approved"
    /\ grants[g].secret # NoToken
    /\ handed' = [handed EXCEPT ![grants[g].secret] = @ + 1]
    /\ UNCHANGED <<grants, stored, expired, used, cookie, req, att, owner,
                   minted, minter>>

\* accessToken reads the secret and deletes the grant in one critical section;
\* every other status, and the window before the secret is filled in, is
\* answered without a change.
AccessToken(g) ==
    /\ Live(g)
    /\ Pollable(g)
    /\ grants[g].status = "approved"
    /\ grants[g].secret # NoToken
    /\ handed' = [handed EXCEPT ![grants[g].secret] = @ + 1]
    /\ att' = CancelledFor({g})
    /\ stored' = stored \ {g}
    /\ UNCHANGED <<grants, expired, used, cookie, req, owner, minted, minter>>

\* The process stops and starts again: grants, requests and goroutines are gone;
\* the owner record, the token store and the browsers' cookies are not.
Restart ==
    /\ stored' = {}
    /\ req' = [r \in Req |-> IdleReq]
    /\ att' = [a \in Attempt |-> UnusedAtt]
    /\ UNCHANGED <<grants, expired, used, cookie, owner, tokenVars>>

(* ------------------------------------------------------------------------- *)
(* The specification                                                         *)
(* ------------------------------------------------------------------------- *)

\* A step of the handler that occupies slot r.
ReqStep(r) ==
    \/ \E a \in Attempt : Launch(r, a)
    \/ StartAnswered(r) \/ StartFails(r) \/ AfterFailedStart(r)
    \/ Revert(r) \/ Mint(r) \/ MintFailed(r) \/ Fill(r)

\* A step of the goroutine of attempt a.
AttStep(a) ==
    \/ CodeArrives(a) \/ FlowFails(a) \/ FlowCancelled(a)
    \/ \E who \in Login : Authorised(a, who)
    \/ IdentityFails(a) \/ OwnerSignIn(a) \/ Settle(a) \/ DenyGrant(a)

\* A new request of a browser.
BrowserStep(r, g, b) ==
    \/ StartStandalone(r, g, b) \/ Begin(r, g, b) \/ Reserve(r, g, b)

Next ==
    \/ \E g \in Grant : DeviceCode(g) \/ Expire(g) \/ AccessToken(g)
    \/ \E g \in Grant, b \in Browser : AuthorizePageWeb(g, b)
    \/ \E r \in Req, g \in Grant, b \in Browser : BrowserStep(r, g, b)
    \/ \E r \in Req : ReqStep(r)
    \/ \E a \in Attempt : ContextExpires(a) \/ AttStep(a)
    \/ Sweep
    \/ Restart

Spec == Init /\ [][Next]_vars

\* The Go scheduler runs every goroutine, DeviceFlow stops at its deadline, the
\* select in runGitHubAuth has a timer and sweepLoop a ticker.  Nothing is
\* assumed of browsers, of gh, of GitHub or of the operator.
Fairness ==
    /\ \A r \in Req : WF_vars(ReqStep(r))
    /\ \A a \in Attempt : WF_vars(AttStep(a))
    /\ WF_vars(Sweep)

FairSpec == Spec /\ Fairness

(* ------------------------------------------------------------------------- *)
(* Properties                                                                *)
(* ------------------------------------------------------------------------- *)

\* A request that has reserved grant g and not yet settled what becomes of it.
Holds(r, g) ==
    /\ req[r].pc \in {"revert", "mint", "mintfail", "fill"}
    /\ req[r].g = g

\* The grant is reserved: approved, with the secret still to come.
Reserved(g) ==
    /\ Live(g)
    /\ grants[g].status = "approved"
    /\ grants[g].secret = NoToken

\* apiApprove's reservation: however approvals, failed mints, reverts and polls
\* interleave, one sign-in mints at most one token ("so a double-submit can't
\* mint twice").
OneTokenPerGrant ==
    \A t1, t2 \in Token :
        minted[t1] # NoGrant /\ minted[t1] = minted[t2] => t1 = t2

\* accessToken's single critical section: no secret is ever in two replies.
SecretHandedOnce == \A t \in Token : handed[t] <= 1

\* The binding cookie: a token is minted only by an approval from the browser
\* that started the grant's sign-in, whichever browsers knew the grant id.
MintedByBinder ==
    \A t \in Token :
        minted[t] # NoGrant => minter[t] = grants[minted[t]].binder

\* A live grant is in the reserved state exactly while one request in flight is
\* bound to resolve it: no reservation is ever left behind by an error path and
\* no two approvals hold one grant.
ReservationHasOneHolder ==
    \A g \in Grant :
        Live(g) =>
            /\ Reserved(g) => \E r \in Req : Holds(r, g)
            /\ \A r1, r2 \in Req : Holds(r1, g) /\ Holds(r2, g) => r1 = r2
            /\ \A r \in Req : Holds(r, g) => Reserved(g)

\* What was minted for gh can be collected: once the approving handler is done,
\* the token's grant still holds its secret, unless the secret was handed over
\* or the grant expired or was lost in a restart.
MintedTokenIsCollectable ==
    \A t \in Token :
        /\ minted[t] # NoGrant
        /\ Live(minted[t])
        /\ ~\E r \in Req : Holds(r, minted[t])
        => /\ grants[minted[t]].status = "approved"
           /\ grants[minted[t]].secret = t

\* Every grant that is (or was) good for a token was authenticated as the one
\* owner of the deployment, also when several sign-ins raced to claim it.
AuthenticatedAsOwner ==
    \A g \in stored :
        grants[g].status \in {"authenticated", "approved"} =>
            /\ grants[g].login = owner
            /\ owner # NoLogin

\* A live grant has at most one attempt that still polls GitHub, and it is the
\* one that removing the grant would cancel (the audit fix that made a retry
\* cancel the attempt before it).
OneLiveAttempt ==
    \A a \in Attempt :
        /\ att[a].pc \notin {"unused", "done"}
        /\ ~att[a].cancelled
        /\ Live(att[a].g)
        => grants[att[a].g].cancel = a

\* A reservation is resolved: the secret arrives, or the grant is given back,
\* or it is gone.
ReservationResolves == \A g \in Grant : Reserved(g) ~> ~Reserved(g)

\* A started sign-in does not stay pending for ever: it is authenticated or
\* denied, opened for a retry, or gone.
StartedSignInSettles ==
    \A g \in Grant :
        g \in stored /\ grants[g].started /\ grants[g].status = "pending"
            ~> ~(g \in stored /\ grants[g].started /\ grants[g].status = "pending")

\* loginflow.go:281-282 "a cancelled orphan cannot clobber the live attempt's
\* pending grant into denied": only the attempt that owns the grant denies it.
OrphanNeverDenies ==
    [][\A a \in Attempt :
          att[a].pc = "deny" /\ att'[a].pc = "done" /\ att[a].g \in Grant
          => \/ grants[att[a].g].cancel = a
             \/ grants'[att[a].g].status = grants[att[a].g].status]_vars

(* ------------------------------------------------------------------------- *)
(* The grants implement the tickets                                          *)
(* ------------------------------------------------------------------------- *)

\* The phase of the ticket that a grant stands for.  A grant that was removed
\* while an approval holds it can still be exchanged.
TicketPhase(g) ==
    IF g \notin used THEN "none"
    ELSE IF \E t \in Token : minted[t] = g THEN "exchanged"
    ELSE IF \E r \in Req : Holds(r, g) THEN "verified"
    ELSE IF g \notin stored THEN "closed"
    ELSE CASE grants[g].status = "pending" -> "open"
           [] grants[g].status = "denied" -> "refused"
           [] OTHER -> "verified"

Tickets == INSTANCE SignInTickets WITH
    Ticket <- Grant, NoTicket <- NoGrant,
    phase <- [g \in Grant |-> TicketPhase(g)],
    soldFor <- minted, copies <- handed

\* Every behaviour of the handlers, goroutines, sweeps and restarts is one of
\* the one-shot tickets of SignInTickets.
ImplementsTickets == Tickets!Spec

==============================================================================
