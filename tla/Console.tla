------------------------------- MODULE Console -------------------------------
(* The owner console (internal/loginflow: console.go, and the rate limiter of *)
(* grants.go): sign-ins that browsers start, upgrade to a session while they  *)
(* last, and use to manage tokens; sessions end by logout, by age or with the *)
(* process.  What becomes of a sign-in at GitHub is LoginGrants' subject:     *)
(* here it succeeds or fails.                                                 *)
(*                                                                            *)
(* Time is a count of units; the limiter's ticker may be late by Lag of them. *)
EXTENDS Integers, FiniteSets

CONSTANTS
    Browser, Address,
    Grant, Session,         \* ids of sign-ins and of sessions, never drawn twice
    Handler,                \* the goroutines that serve apiSession
    NoBrowser, NoGrant, NoSession,
    GrantTTL, SessionTTL,   \* 15 and 30 minutes in the code
    Window, Limit,          \* of the limiter: a minute, 30 hits
    Lag,
    Delay,                  \* the units that apiSession takes at most after its check
    MaxKeys,                \* addresses that the limiter counts, 100000
    MaxLiveGrants,          \* sign-ins that the store holds, 2048
    MaxTime                 \* bound on the clock

ASSUME ConsoleSentinels ==
    NoBrowser \notin Browser /\ NoGrant \notin Grant /\ NoSession \notin Session

ASSUME ConsoleTimes ==
    /\ GrantTTL \in Nat \ {0} /\ SessionTTL \in Nat \ {0} /\ MaxTime \in Nat
    /\ Window \in Nat \ {0} /\ Lag \in Nat /\ Lag < Window /\ Delay \in Nat

ASSUME ConsoleCaps == Limit \in Nat /\ MaxKeys \in Nat /\ MaxLiveGrants \in Nat

VARIABLES
    now,
    due,      \* when the limiter's ticker fires next
    counts,   \* rateLimiter.counts, 0 where there is no entry
    recent,   \* the hits let through in the last i + 1 units, this one included
    grant,    \* grantStore.grants
    cookie,   \* the sign-in that each browser's cookie binds
    session,  \* sessionStore.byID
    carries,  \* the session cookie of each browser
    upgrade,  \* what each apiSession found, until it has made the session
    until,    \* when the last sign-in that succeeded in each browser expires
    ended     \* the sessions ended by logout or with the process

limiter == <<due, counts, recent>>
signIns == <<grant, cookie, until>>
sessions == <<session, carries, upgrade, ended>>
vars == <<now, limiter, signIns, sessions>>

\* unused: the id was not drawn; gone: no longer in the store.
GrantRec ==
    [status: {"unused", "pending", "authenticated", "denied", "gone"},
     flow: {"standalone", "gh"}, expires: Nat, binder: Browser \cup {NoBrowser}]

SessionRec ==
    [status: {"unused", "held", "gone"}, made: Nat, expires: Nat,
     holder: Browser \cup {NoBrowser}]

\* The browser that asks, NoBrowser in a handler that serves none, and when its
\* sign-in was found good.
UpgradeRec == [browser: Browser \cup {NoBrowser}, since: Nat]

TypeOK ==
    /\ now \in 0..MaxTime
    /\ due \in Nat
    /\ counts \in [Address -> 0..Limit]
    /\ recent \in [Address -> [0..(Window - 1) -> Nat]]
    /\ grant \in [Grant -> GrantRec]
    /\ cookie \in [Browser -> Grant \cup {NoGrant}]
    /\ session \in [Session -> SessionRec]
    /\ carries \in [Browser -> Session \cup {NoSession}]
    /\ upgrade \in [Handler -> UpgradeRec]
    /\ until \in [Browser -> Nat]
    /\ ended \subseteq Session

NewGrant == [status |-> "unused", flow |-> "gh", expires |-> 0, binder |-> NoBrowser]
NewSession == [status |-> "unused", made |-> 0, expires |-> 0, holder |-> NoBrowser]
NoUpgrade == [browser |-> NoBrowser, since |-> 0]
NoHits == [a \in Address |-> 0]

Init ==
    /\ now = 0 /\ due = Window
    /\ counts = NoHits
    /\ recent = [a \in Address |-> [i \in 0..(Window - 1) |-> 0]]
    /\ grant = [g \in Grant |-> NewGrant]
    /\ cookie = [b \in Browser |-> NoGrant]
    /\ session = [s \in Session |-> NewSession]
    /\ carries = [b \in Browser |-> NoSession]
    /\ upgrade = [h \in Handler |-> NoUpgrade]
    /\ until = [b \in Browser |-> 0]
    /\ ended = {}

(* ------------------------------------------------------------------------- *)
(* The rate limiter                                                          *)
(* ------------------------------------------------------------------------- *)

Keys == {a \in Address : counts[a] > 0}

\* What allow answers.
mayHit(a) == counts[a] < Limit /\ (counts[a] > 0 \/ Cardinality(Keys) < MaxKeys)

\* allow: the hit is counted if it is let through.
allow(a) ==
    /\ mayHit(a)
    /\ counts' = [counts EXCEPT ![a] = @ + 1]
    /\ recent' = [recent EXCEPT ![a] = [i \in 0..(Window - 1) |-> @[i] + 1]]
    /\ due' = due

\* The handlers of apiSession between their check and their session.
Upgrading == {h \in Handler : upgrade[h].browser # NoBrowser}

\* The clock goes on, but no tick of the limiter waits longer than Lag, and no
\* handler longer than Delay.
Clock ==
    /\ now < MaxTime /\ now < due + Lag
    /\ \A h \in Upgrading : now < upgrade[h].since + Delay
    /\ now' = now + 1
    /\ recent' = [a \in Address |->
           [i \in 0..(Window - 1) |-> IF i = 0 THEN 0 ELSE recent[a][i - 1]]]
    /\ UNCHANGED <<due, counts, signIns, sessions>>

\* ResetCounts of a ticker whose period is cut short.
ResetCountsEarly ==
    /\ now >= due - 1
    /\ counts' = NoHits /\ due' = due + 1
    /\ UNCHANGED <<now, recent, signIns, sessions>>

\* newRateLimiter: every Window the counts start anew.
ResetCounts ==
    /\ now >= due
    /\ counts' = NoHits /\ due' = due + Window
    /\ UNCHANGED <<now, recent, signIns, sessions>>

(* ------------------------------------------------------------------------- *)
(* Sign-ins                                                                  *)
(* ------------------------------------------------------------------------- *)

Held == {g \in Grant : grant[g].status \notin {"unused", "gone"}}
Alive(g) == g \in Held /\ grant[g].expires > now

\* grantStore.add, and the cookie that binds the sign-in to the browser.
add(g, flow, b) ==
    /\ grant[g].status = "unused" /\ Cardinality(Held) < MaxLiveGrants
    /\ grant' = [grant EXCEPT ![g] =
           [status |-> "pending", flow |-> flow, expires |-> now + GrantTTL, binder |-> b]]
    /\ cookie' = [cookie EXCEPT ![b] = g]
    /\ until' = until

\* apiStartStandalone, of the console's page, and the pages of a sign-in that gh
\* started.
Start(b, a, flow, g) ==
    /\ allow(a) /\ add(g, flow, b)
    /\ UNCHANGED <<now, sessions>>

\* A hit that the limiter lets through and that binds no browser: deviceCode,
\* apiBegin, a store at its cap, a start whose device flow fails and whose
\* sign-in is removed before the browser hears of it.
Hit(a) ==
    /\ allow(a)
    /\ UNCHANGED <<now, signIns, sessions>>

\* The end of runGitHubAuth: the user is the owner, or is not.
Settle(g) ==
    LET b == grant[g].binder IN
    /\ Alive(g) /\ grant[g].status = "pending"
    /\ \E status \in {"authenticated", "denied"} :
          /\ grant' = [grant EXCEPT ![g].status = status]
          /\ until' = [until EXCEPT ![b] =
                 IF status = "authenticated" /\ grant[g].flow = "standalone" /\ @ < grant[g].expires
                 THEN grant[g].expires ELSE @]
    /\ UNCHANGED <<now, limiter, cookie, sessions>>

\* grantStore.consume: gh collected its token.
Collect(g) ==
    /\ Alive(g) /\ grant[g].flow = "gh" /\ grant[g].status = "authenticated"
    /\ grant' = [grant EXCEPT ![g].status = "gone"]
    /\ UNCHANGED <<now, limiter, cookie, until, sessions>>

Lapsed == {g \in Held : grant[g].expires <= now}

\* grantStore.sweepLoop that keeps the sign-ins that were settled.
SweepGrantsPending ==
    /\ Lapsed # {}
    /\ grant' = [g \in Grant |-> IF g \in Lapsed /\ grant[g].status = "pending"
                                 THEN [grant[g] EXCEPT !.status = "gone"] ELSE grant[g]]
    /\ UNCHANGED <<now, limiter, cookie, until, sessions>>

\* grantStore.sweepLoop.
SweepGrants ==
    /\ Lapsed # {}
    /\ grant' = [g \in Grant |-> IF g \in Lapsed
                                 THEN [grant[g] EXCEPT !.status = "gone"] ELSE grant[g]]
    /\ UNCHANGED <<now, limiter, cookie, until, sessions>>

(* ------------------------------------------------------------------------- *)
(* Sessions                                                                  *)
(* ------------------------------------------------------------------------- *)

\* grantCookieMatches of the code before audit F2: to know the id was enough.
grantCookieMatchesAny(b, g) == TRUE

\* grantCookieMatches: the browser started the sign-in.
grantCookieMatches(b, g) == cookie[b] = g

\* upgradable without a look at the flow.
upgradableAny(g) == Alive(g) /\ grant[g].status = "authenticated"

\* The sign-ins that apiSession upgrades: the console's own that succeeded (a
\* token minted from one in the meantime, "approved", makes no difference).
upgradable(g) == Alive(g) /\ grant[g].flow = "standalone" /\ grant[g].status = "authenticated"

\* apiSession finds, under the lock of the sign-ins, one that it may upgrade.
apiSession(h, b, g) ==
    /\ h \notin Upgrading
    /\ upgradable(g) /\ grantCookieMatches(b, g)
    /\ upgrade' = [upgrade EXCEPT ![h] = [browser |-> b, since |-> now]]
    /\ UNCHANGED <<now, limiter, signIns, session, carries, ended>>

\* createSession that goes by the clock of the check.
createSessionOfCheck(h, s) ==
    LET b == upgrade[h].browser IN
    /\ h \in Upgrading /\ session[s].status = "unused"
    /\ session' = [session EXCEPT ![s] =
           [status |-> "held", made |-> now, expires |-> upgrade[h].since + SessionTTL,
            holder |-> b]]
    /\ carries' = [carries EXCEPT ![b] = s]
    /\ upgrade' = [upgrade EXCEPT ![h] = NoUpgrade]
    /\ UNCHANGED <<now, limiter, signIns, ended>>

\* sessionStore.create, later and by the clock of that moment, whatever has become
\* of the sign-in; any number of sessions come of one.
createSession(h, s) ==
    LET b == upgrade[h].browser IN
    /\ h \in Upgrading /\ session[s].status = "unused"
    /\ session' = [session EXCEPT ![s] =
           [status |-> "held", made |-> now, expires |-> now + SessionTTL, holder |-> b]]
    /\ carries' = [carries EXCEPT ![b] = s]
    /\ upgrade' = [upgrade EXCEPT ![h] = NoUpgrade]
    /\ UNCHANGED <<now, limiter, signIns, ended>>

\* sessionStore.lookup.
lookup(s) == session[s].status = "held" /\ session[s].expires > now

\* sessionLogin: what every request to manage tokens asks first.
sessionLogin(b) == carries[b] # NoSession /\ lookup(carries[b])

\* apiLogout that leaves the session to its age.
LogoutOfCookie(b) ==
    /\ carries[b] # NoSession
    /\ ended' = ended \cup {carries[b]}
    /\ carries' = [carries EXCEPT ![b] = NoSession]
    /\ UNCHANGED <<now, limiter, signIns, session, upgrade>>

\* apiLogout: the session leaves the store, and the cookie the browser.
apiLogout(b) ==
    /\ carries[b] # NoSession
    /\ session' = [session EXCEPT ![carries[b]].status = "gone"]
    /\ ended' = ended \cup {carries[b]}
    /\ carries' = [carries EXCEPT ![b] = NoSession]
    /\ UNCHANGED <<now, limiter, signIns, upgrade>>

\* Aged that takes a session in its last unit.
AgedEarly == {s \in Session : session[s].status = "held" /\ session[s].expires <= now + 1}

\* The sessions that the sweep takes.
Aged == {s \in Session : session[s].status = "held" /\ session[s].expires <= now}

\* sessionStore.sweepLoop.
SweepSessions ==
    /\ Aged # {}
    /\ session' = [s \in Session |-> IF s \in Aged
                                     THEN [session[s] EXCEPT !.status = "gone"] ELSE session[s]]
    /\ UNCHANGED <<now, limiter, signIns, carries, upgrade, ended>>

\* The process stops and starts: its memory and the handlers are lost, the
\* cookies are not.
Restart ==
    /\ grant' = [g \in Grant |-> IF g \in Held
                                 THEN [grant[g] EXCEPT !.status = "gone"] ELSE grant[g]]
    /\ ended' = ended \cup {s \in Session : session[s].status = "held"}
    /\ session' = [s \in Session |-> IF session[s].status = "held"
                                     THEN [session[s] EXCEPT !.status = "gone"] ELSE session[s]]
    /\ upgrade' = [h \in Handler |-> NoUpgrade]
    /\ counts' = NoHits /\ due' = now + Window
    /\ recent' = [a \in Address |-> [i \in 0..(Window - 1) |-> 0]]
    /\ UNCHANGED <<now, cookie, until, carries>>

Next ==
    \/ Clock \/ ResetCounts
    \/ \E b \in Browser, a \in Address, flow \in {"standalone", "gh"}, g \in Grant :
           Start(b, a, flow, g)
    \/ \E a \in Address : Hit(a)
    \/ \E g \in Grant : Settle(g) \/ Collect(g)
    \/ SweepGrants \/ SweepSessions
    \/ \E h \in Handler, b \in Browser, g \in Grant : apiSession(h, b, g)
    \/ \E h \in Handler, s \in Session : createSession(h, s)
    \/ \E b \in Browser : apiLogout(b)
    \/ Restart

\* The tickers of the two sweeps fire every minute.
Fairness == WF_vars(SweepGrants) /\ WF_vars(SweepSessions)

Spec == Init /\ [][Next]_vars
FairSpec == Spec /\ Fairness

(* ------------------------------------------------------------------------- *)
(* Properties                                                                *)
(* ------------------------------------------------------------------------- *)

\* What apiSession and its cookie are for (audit F2): a browser manages tokens
\* only on the strength of a sign-in of the console that it started itself and
\* that succeeded, and no longer than a session after that sign-in expired (and
\* the time that apiSession took over it, in which the sign-in may have expired,
\* been swept or been replaced), however often it was upgraded, logged out of and
\* upgraded again.  The last unit of a sign-in is the one before `until`.
ManagesOnItsOwnSignIn ==
    \A b \in Browser : sessionLogin(b) =>
        /\ session[carries[b]].holder = b
        /\ now + 1 < until[b] + Delay + SessionTTL

\* A session holds for SessionTTL from when it was made, and neither shorter (the
\* sweep) nor longer (lookup), unless a logout or the process ended it.
SessionsLastTheirTime ==
    \A s \in Session : session[s].status # "unused" =>
        (lookup(s) <=> s \notin ended /\ now < session[s].made + SessionTTL)

\* The most that the windows touched by Window units let through: two windows,
\* and a third when a late tick was followed by a punctual one.
Burst == (IF Lag = 0 THEN 2 ELSE 3) * Limit

\* The limiter's promise for any Window units, wherever they begin: its counts
\* start anew at ticks and not at an address's first hit, and what it lets through
\* stays bounded all the same.
BurstsAreBounded == \A a \in Address : recent[a][Window - 1] <= Burst

\* The stores forget: whatever expires is removed, so that a full store of
\* sign-ins accepts new ones again.
WhatExpiresIsSwept == []<>(Lapsed = {}) /\ []<>(Aged = {})

==============================================================================
