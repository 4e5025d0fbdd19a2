----------------------------- MODULE ConsoleProofs -----------------------------
(* Proofs about Console, for any number of browsers, sign-ins and sessions    *)
(* and for all times to live: whose sessions they are, how long they hold,    *)
(* and what the rate limiter lets through.                                    *)
EXTENDS Console, TLAPS

(* ------------------------------------------------------------------------- *)
(* The inductive invariant                                                   *)
(* ------------------------------------------------------------------------- *)

\* A cookie binds a sign-in that its browser started.
CookiesAreOfTheirBrowser ==
    \A b \in Browser : cookie[b] # NoGrant =>
        grant[cookie[b]].status # "unused" /\ grant[cookie[b]].binder = b

\* Every sign-in was started by a browser; one of the console's that succeeded is
\* among those that `until` looks back on.
SignInsAreKnown ==
    \A g \in Grant : grant[g].status # "unused" =>
        /\ grant[g].binder \in Browser
        /\ grant[g].status = "authenticated" /\ grant[g].flow = "standalone"
             => grant[g].expires <= until[grant[g].binder]

\* A browser carries a session that was made for it.
CarriedByTheirHolder ==
    \A b \in Browser : carries[b] # NoSession =>
        session[carries[b]].status # "unused" /\ session[carries[b]].holder = b

\* An upgrade was found good while a sign-in of its browser lasted, and is not
\* older than Delay.
UpgradesAreBacked ==
    \A h \in Upgrading :
        /\ upgrade[h].since < until[upgrade[h].browser]
        /\ now <= upgrade[h].since + Delay

\* A session was made no later than Delay after a sign-in of its holder, for
\* SessionTTL.
SessionsAreBacked ==
    \A s \in Session : session[s].status # "unused" =>
        /\ session[s].expires = session[s].made + SessionTTL
        /\ session[s].holder \in Browser
        /\ session[s].made < until[session[s].holder] + Delay

\* What leaves the store was ended or is over.
SessionsEnd ==
    \A s \in Session :
        /\ session[s].status \in {"unused", "held"} => s \notin ended
        /\ session[s].status = "gone" => s \in ended \/ session[s].expires <= now

IInv ==
    /\ TypeOK
    /\ CookiesAreOfTheirBrowser
    /\ SignInsAreKnown
    /\ UpgradesAreBacked
    /\ CarriedByTheirHolder
    /\ SessionsAreBacked
    /\ SessionsEnd

\* The part about sign-ins, and the part about sessions.
SignInPart == CookiesAreOfTheirBrowser /\ SignInsAreKnown
SessionPart == CarriedByTheirHolder /\ SessionsAreBacked /\ SessionsEnd

\* The initial states satisfy the invariant.
LEMMA InitIInv == Init => IInv
<1> SUFFICES ASSUME Init PROVE IInv
    OBVIOUS
<1> USE ConsoleSentinels, ConsoleTimes, ConsoleCaps DEF Init, NewGrant, NewSession, NoUpgrade
<1>1. TypeOK
    <2>1. counts \in [Address -> 0..Limit]
        BY DEF NoHits
    <2>2. recent \in [Address -> [0..(Window - 1) -> Nat]]
        OBVIOUS
    <2>3. /\ grant \in [Grant -> GrantRec] /\ session \in [Session -> SessionRec]
          /\ upgrade \in [Handler -> UpgradeRec]
        BY DEF GrantRec, SessionRec, UpgradeRec
    <2> QED BY <2>1, <2>2, <2>3 DEF TypeOK
<1>2. CookiesAreOfTheirBrowser /\ SignInsAreKnown /\ CarriedByTheirHolder
    BY DEF CookiesAreOfTheirBrowser, SignInsAreKnown, CarriedByTheirHolder
<1>3. SessionsAreBacked /\ SessionsEnd
    BY DEF SessionsAreBacked, SessionsEnd
<1>4. UpgradesAreBacked
    BY DEF UpgradesAreBacked, Upgrading
<1> QED BY <1>1, <1>2, <1>3, <1>4 DEF IInv

(* ------------------------------------------------------------------------- *)
(* Types                                                                     *)
(* ------------------------------------------------------------------------- *)

\* A hit that is let through keeps the limiter's types.
LEMMA AllowTypes ==
    ASSUME TypeOK, NEW a \in Address, allow(a)
    PROVE  /\ counts' \in [Address -> 0..Limit]
           /\ recent' \in [Address -> [0..(Window - 1) -> Nat]]
           /\ due' \in Nat
<1> USE ConsoleTimes, ConsoleCaps
<1>1. counts[a] \in 0..Limit /\ counts[a] < Limit
    BY DEF TypeOK, allow, mayHit
<1>2. counts' \in [Address -> 0..Limit]
    BY <1>1 DEF TypeOK, allow
<1>3. recent[a] \in [0..(Window - 1) -> Nat]
    BY DEF TypeOK
<1>4. [i \in 0..(Window - 1) |-> recent[a][i] + 1] \in [0..(Window - 1) -> Nat]
    BY <1>3
<1>5. recent' = [recent EXCEPT ![a] = [i \in 0..(Window - 1) |-> recent[a][i] + 1]]
    BY DEF allow, TypeOK
<1>6. recent' \in [Address -> [0..(Window - 1) -> Nat]]
    BY <1>4, <1>5 DEF TypeOK
<1> QED BY <1>2, <1>6 DEF allow, TypeOK

\* The upgrades under way are not touched by what neither stops the clock nor
\* takes from what a browser's sign-ins grant.
LEMMA UpgradesStay ==
    ASSUME IInv, now' = now, upgrade' = upgrade,
           \A b \in Browser : until'[b] \in Nat /\ until[b] <= until'[b]
    PROVE  UpgradesAreBacked'
<1>1. \A h \in Upgrading : upgrade[h].browser \in Browser /\ upgrade[h].since \in Nat
    BY DEF IInv, TypeOK, Upgrading, UpgradeRec
<1>2. \A b \in Browser : until[b] \in Nat
    BY DEF IInv, TypeOK
<1> QED BY <1>1, <1>2 DEF IInv, UpgradesAreBacked, Upgrading

\* The limiter and the clock.
LEMMA TimeKeeps ==
    ASSUME IInv, Clock \/ ResetCounts \/ \E a \in Address : Hit(a)
    PROVE  IInv'
<1> USE ConsoleTimes, ConsoleCaps
<1>u. UNCHANGED <<signIns, sessions>> /\ now' \in Nat /\ now <= now'
    BY DEF Clock, ResetCounts, Hit, IInv, TypeOK
<1>1. TypeOK'
    <2>t. TypeOK
        BY DEF IInv
    <2>1. CASE Clock
        <3>1. recent' \in [Address -> [0..(Window - 1) -> Nat]]
            <4>1. ASSUME NEW a \in Address, NEW i \in 0..(Window - 1)
                  PROVE  (IF i = 0 THEN 0 ELSE recent[a][i - 1]) \in Nat
                <5>1. recent[a] \in [0..(Window - 1) -> Nat]
                    BY <2>t DEF TypeOK
                <5>2. i # 0 => i - 1 \in 0..(Window - 1)
                    OBVIOUS
                <5> QED BY <5>1, <5>2
            <4> QED BY <4>1, <2>1 DEF Clock
        <3>2. now' \in 0..MaxTime
            BY <2>1, <2>t DEF Clock, TypeOK
        <3> QED BY <3>1, <3>2, <2>1, <2>t DEF Clock, TypeOK, signIns, sessions
    <2>2. CASE ResetCounts
        BY <2>2, <2>t DEF ResetCounts, NoHits, TypeOK, signIns, sessions
    <2>3. ASSUME NEW a \in Address, Hit(a) PROVE TypeOK'
        BY <2>3, <2>t, AllowTypes DEF Hit, TypeOK, signIns, sessions
    <2> QED BY <2>1, <2>2, <2>3
<1>2. SignInPart'
    BY <1>u DEF IInv, SignInPart, CookiesAreOfTheirBrowser, SignInsAreKnown, signIns
<1>3. CarriedByTheirHolder' /\ SessionsAreBacked'
    BY <1>u DEF IInv, CarriedByTheirHolder, SessionsAreBacked, signIns, sessions
<1>4. SessionsEnd'
    <2>1. \A s \in Session : session[s].expires \in Nat /\ now \in Nat
        BY DEF IInv, TypeOK, SessionRec
    <2> QED BY <1>u, <2>1 DEF IInv, SessionsEnd, sessions
<1>5. UpgradesAreBacked'
    <2>1. /\ Upgrading' = Upgrading
          /\ \A h \in Upgrading : upgrade[h].since \in Nat
          /\ now \in Nat /\ UNCHANGED <<upgrade, until>>
        BY <1>u DEF IInv, TypeOK, Upgrading, UpgradeRec, signIns, sessions
    <2>2. \A h \in Upgrading : now' <= upgrade[h].since + Delay
        <3>1. CASE Clock
            BY <3>1, <2>1 DEF Clock
        <3>2. CASE now' = now
            BY <3>2 DEF IInv, UpgradesAreBacked
        <3> QED BY <3>1, <3>2 DEF ResetCounts, Hit
    <2> QED BY <2>1, <2>2 DEF IInv, UpgradesAreBacked
<1> QED BY <1>1, <1>2, <1>3, <1>4, <1>5 DEF IInv, SignInPart

(* ------------------------------------------------------------------------- *)
(* Sign-ins                                                                  *)
(* ------------------------------------------------------------------------- *)

\* A browser starts a sign-in.
LEMMA StartKeeps ==
    ASSUME IInv, NEW b \in Browser, NEW a \in Address, NEW flow \in {"standalone", "gh"},
           NEW g \in Grant, Start(b, a, flow, g)
    PROVE  IInv'
<1> USE ConsoleTimes, ConsoleCaps, ConsoleSentinels
<1> DEFINE new == [status |-> "pending", flow |-> flow, expires |-> now + GrantTTL, binder |-> b]
<1>t. TypeOK
    BY DEF IInv
<1>u. /\ grant[g].status = "unused"
      /\ grant' = [grant EXCEPT ![g] = new]
      /\ cookie' = [cookie EXCEPT ![b] = g]
      /\ UNCHANGED <<now, until, session, carries, upgrade, ended>>
      /\ allow(a)
    BY DEF Start, add, sessions
<1>n. new \in GrantRec
    BY <1>t DEF TypeOK, GrantRec
<1>g. /\ grant' \in [Grant -> GrantRec]
      /\ grant'[g] = new
      /\ \A h \in Grant \ {g} : grant'[h] = grant[h]
    BY <1>u, <1>n, <1>t DEF TypeOK
<1>c. /\ cookie' \in [Browser -> Grant \cup {NoGrant}]
      /\ cookie'[b] = g
      /\ \A d \in Browser \ {b} : cookie'[d] = cookie[d]
    BY <1>u, <1>t DEF TypeOK
<1>1. TypeOK'
    BY <1>u, <1>t, <1>g, <1>c, AllowTypes DEF TypeOK
<1>2. CookiesAreOfTheirBrowser'
    <2>1. \A d \in Browser \ {b} : cookie[d] # NoGrant => cookie[d] \in Grant \ {g}
        BY <1>t, <1>u DEF TypeOK, IInv, CookiesAreOfTheirBrowser
    <2> QED BY <2>1, <1>g, <1>c DEF IInv, CookiesAreOfTheirBrowser
<1>3. SignInsAreKnown'
    BY <1>g, <1>u DEF IInv, SignInsAreKnown
<1>4. SessionPart'
    BY <1>u DEF IInv, SessionPart, CarriedByTheirHolder, SessionsAreBacked, SessionsEnd
<1>5. UpgradesAreBacked'
    BY <1>u, <1>t, UpgradesStay DEF TypeOK
<1> QED BY <1>1, <1>2, <1>3, <1>4, <1>5 DEF IInv, SessionPart

\* A sign-in ends at GitHub.
LEMMA SettleKeeps ==
    ASSUME IInv, NEW g \in Grant, Settle(g)
    PROVE  IInv'
<1> DEFINE b == grant[g].binder
<1>t. TypeOK
    BY DEF IInv
<1>0. /\ grant[g].status = "pending" /\ b \in Browser
      /\ grant[g] \in GrantRec /\ grant[g].expires \in Nat
    BY <1>t DEF Settle, IInv, SignInsAreKnown, TypeOK, GrantRec
<1>1. PICK status \in {"authenticated", "denied"} :
          /\ grant' = [grant EXCEPT ![g].status = status]
          /\ until' = [until EXCEPT ![b] =
                 IF status = "authenticated" /\ grant[g].flow = "standalone" /\ @ < grant[g].expires
                 THEN grant[g].expires ELSE @]
    BY DEF Settle
<1>u. UNCHANGED <<now, limiter, cookie, sessions>>
    BY DEF Settle
<1>2. /\ grant' \in [Grant -> GrantRec]
      /\ grant'[g].status = status /\ grant'[g].flow = grant[g].flow
      /\ grant'[g].expires = grant[g].expires /\ grant'[g].binder = b
      /\ \A h \in Grant \ {g} : grant'[h] = grant[h]
    BY <1>1, <1>t, <1>0 DEF TypeOK, GrantRec
<1>3. /\ until' \in [Browser -> Nat]
      /\ \A d \in Browser : until[d] \in Nat /\ until[d] <= until'[d]
      /\ status = "authenticated" /\ grant[g].flow = "standalone" => grant[g].expires <= until'[b]
    BY <1>1, <1>0, <1>t DEF TypeOK
<1>4. TypeOK'
    BY <1>t, <1>u, <1>2, <1>3 DEF TypeOK, limiter, sessions
<1>5. CookiesAreOfTheirBrowser'
    <2>1. \A h \in Grant : /\ grant'[h].binder = grant[h].binder
                           /\ grant'[h].status = "unused" <=> grant[h].status = "unused"
        BY <1>0, <1>2
    <2>2. \A d \in Browser : cookie[d] # NoGrant => cookie[d] \in Grant
        BY <1>t DEF TypeOK
    <2> QED BY <1>u, <2>1, <2>2 DEF IInv, CookiesAreOfTheirBrowser
<1>6. SignInsAreKnown'
    <2> SUFFICES ASSUME NEW h \in Grant, grant'[h].status # "unused"
                 PROVE  /\ grant'[h].binder \in Browser
                        /\ grant'[h].status = "authenticated" /\ grant'[h].flow = "standalone"
                             => grant'[h].expires <= until'[grant'[h].binder]
        BY DEF SignInsAreKnown
    <2>1. CASE h = g
        BY <2>1, <1>0, <1>2, <1>3
    <2>2. CASE h # g
        <3>1. grant'[h] = grant[h] /\ grant[h].expires \in Nat
            BY <2>2, <1>2, <1>t DEF TypeOK, GrantRec
        <3> QED BY <3>1, <1>3 DEF IInv, SignInsAreKnown
    <2> QED BY <2>1, <2>2
<1>7. CarriedByTheirHolder' /\ SessionsEnd'
    BY <1>u DEF IInv, CarriedByTheirHolder, SessionsEnd, sessions
<1>8. SessionsAreBacked'
    <2>1. \A s \in Session : session[s].made \in Nat
        BY <1>t DEF TypeOK, SessionRec
    <2> QED BY <2>1, <1>u, <1>3, ConsoleTimes DEF IInv, SessionsAreBacked, sessions
<1>9. UpgradesAreBacked'
    BY <1>u, <1>3, UpgradesStay DEF sessions
<1> QED BY <1>4, <1>5, <1>6, <1>7, <1>8, <1>9 DEF IInv

\* Sign-ins leave the store: collected, swept, or with the process.
LEMMA SignInsLeave ==
    ASSUME IInv, NEW G \in SUBSET Grant, \A g \in G : grant[g].status # "unused",
           grant' = [g \in Grant |-> IF g \in G THEN [grant[g] EXCEPT !.status = "gone"]
                                     ELSE grant[g]],
           UNCHANGED <<cookie, until>>
    PROVE  grant' \in [Grant -> GrantRec] /\ SignInPart'
<1>t. grant \in [Grant -> GrantRec] /\ cookie \in [Browser -> Grant \cup {NoGrant}]
    BY DEF IInv, TypeOK
<1>1. grant' \in [Grant -> GrantRec]
    BY <1>t DEF GrantRec
<1>2. \A g \in Grant : /\ grant'[g].binder = grant[g].binder
                       /\ grant'[g].flow = grant[g].flow /\ grant'[g].expires = grant[g].expires
                       /\ grant'[g].status = "unused" <=> grant[g].status = "unused"
                       /\ grant'[g].status = "authenticated" => grant[g].status = "authenticated"
    BY <1>t DEF GrantRec
<1>3. CookiesAreOfTheirBrowser'
    BY <1>2, <1>t DEF IInv, CookiesAreOfTheirBrowser
<1>4. SignInsAreKnown'
    BY <1>2 DEF IInv, SignInsAreKnown
<1> QED BY <1>1, <1>3, <1>4 DEF SignInPart

\* gh collects its token, and the sweep takes what expired.
LEMMA CollectKeeps ==
    ASSUME IInv, SweepGrants \/ \E g \in Grant : Collect(g)
    PROVE  IInv'
<1>u. UNCHANGED <<now, limiter, cookie, until, sessions>>
    BY DEF SweepGrants, Collect
<1>1. PICK G \in SUBSET Grant :
          /\ \A g \in G : grant[g].status # "unused"
          /\ grant' = [g \in Grant |-> IF g \in G THEN [grant[g] EXCEPT !.status = "gone"]
                                       ELSE grant[g]]
    <2>1. CASE SweepGrants
        <3>1. Lapsed \in SUBSET Grant /\ \A g \in Lapsed : grant[g].status # "unused"
            BY DEF Lapsed, Held
        <3> QED BY <3>1, <2>1 DEF SweepGrants
    <2>2. ASSUME NEW g \in Grant, Collect(g)
          PROVE  \E G \in SUBSET Grant :
                     /\ \A h \in G : grant[h].status # "unused"
                     /\ grant' = [h \in Grant |-> IF h \in G THEN [grant[h] EXCEPT !.status = "gone"]
                                                  ELSE grant[h]]
        <3>1. grant' = [h \in Grant |-> IF h \in {g} THEN [grant[h] EXCEPT !.status = "gone"]
                                        ELSE grant[h]]
            BY <2>2 DEF Collect, IInv, TypeOK
        <3>2. grant[g].status # "unused"
            BY <2>2 DEF Collect
        <3> QED BY <3>1, <3>2
    <2> QED BY <2>1, <2>2
<1>2. grant' \in [Grant -> GrantRec] /\ SignInPart'
    BY <1>1, <1>u, SignInsLeave
<1>3. TypeOK'
    BY <1>2, <1>u DEF IInv, TypeOK, limiter, sessions
<1>4. SessionPart'
    BY <1>u DEF IInv, SessionPart, CarriedByTheirHolder, SessionsAreBacked, SessionsEnd, sessions
<1>5. UpgradesAreBacked'
    BY <1>u, UpgradesStay DEF IInv, TypeOK, sessions
<1> QED BY <1>2, <1>3, <1>4, <1>5 DEF IInv, SignInPart, SessionPart

(* ------------------------------------------------------------------------- *)
(* Sessions                                                                  *)
(* ------------------------------------------------------------------------- *)

\* A sign-in is found good for a session.
LEMMA UpgradeKeeps ==
    ASSUME IInv, NEW h \in Handler, NEW b \in Browser, NEW g \in Grant, apiSession(h, b, g)
    PROVE  IInv'
<1> USE ConsoleTimes, ConsoleSentinels
<1>t. TypeOK
    BY DEF IInv
<1>u. UNCHANGED <<now, limiter, signIns, session, carries, ended>>
    BY DEF apiSession
<1>n. now \in Nat
    BY <1>t DEF TypeOK
<1>1. /\ upgrade' \in [Handler -> UpgradeRec]
      /\ upgrade'[h] = [browser |-> b, since |-> now]
      /\ \A k \in Handler \ {h} : upgrade'[k] = upgrade[k]
    <2>1. [browser |-> b, since |-> now] \in UpgradeRec
        BY <1>n DEF UpgradeRec
    <2> QED BY <2>1, <1>t DEF apiSession, TypeOK
<1>b. now < until[b]
    <2>1. /\ cookie[b] = g /\ grant[g].status = "authenticated" /\ grant[g].flow = "standalone"
          /\ now < grant[g].expires
        BY DEF apiSession, upgradable, Alive, grantCookieMatches
    <2>2. grant[g].binder = b
        BY <2>1 DEF IInv, CookiesAreOfTheirBrowser
    <2>3. grant[g].expires <= until[b]
        BY <2>1, <2>2 DEF IInv, SignInsAreKnown
    <2>4. grant[g].expires \in Nat /\ until[b] \in Nat
        BY <1>t DEF TypeOK, GrantRec
    <2> QED BY <2>1, <2>3, <2>4, <1>n
<1>2. TypeOK'
    BY <1>u, <1>1, <1>t DEF TypeOK, limiter, signIns
<1>3. SignInPart'
    BY <1>u DEF IInv, SignInPart, CookiesAreOfTheirBrowser, SignInsAreKnown, signIns
<1>4. SessionPart'
    BY <1>u DEF IInv, SessionPart, CarriedByTheirHolder, SessionsAreBacked, SessionsEnd, signIns
<1>5. UpgradesAreBacked'
    <2> SUFFICES ASSUME NEW k \in Handler, upgrade'[k].browser # NoBrowser
                 PROVE  /\ upgrade'[k].since < until'[upgrade'[k].browser]
                        /\ now' <= upgrade'[k].since + Delay
        BY DEF UpgradesAreBacked, Upgrading
    <2>1. CASE k = h
        BY <2>1, <1>u, <1>1, <1>b, <1>n DEF signIns
    <2>2. CASE k # h
        BY <2>2, <1>u, <1>1 DEF IInv, UpgradesAreBacked, Upgrading, signIns
    <2> QED BY <2>1, <2>2
<1> QED BY <1>2, <1>3, <1>4, <1>5 DEF IInv, SignInPart, SessionPart

\* An upgrade becomes a session.
LEMMA SessionKeeps ==
    ASSUME IInv, NEW h \in Handler, NEW s \in Session, createSession(h, s)
    PROVE  IInv'
<1> USE ConsoleTimes, ConsoleSentinels
<1> DEFINE b == upgrade[h].browser
           new == [status |-> "held", made |-> now, expires |-> now + SessionTTL, holder |-> b]
<1>t. TypeOK
    BY DEF IInv
<1>u. /\ session[s].status = "unused"
      /\ session' = [session EXCEPT ![s] = new]
      /\ carries' = [carries EXCEPT ![b] = s]
      /\ upgrade' = [upgrade EXCEPT ![h] = NoUpgrade]
      /\ UNCHANGED <<now, limiter, signIns, ended>>
    BY DEF createSession
<1>h. /\ h \in Upgrading /\ b \in Browser
      /\ upgrade[h].since \in Nat /\ until[b] \in Nat /\ now \in Nat
    BY <1>t DEF createSession, Upgrading, TypeOK, UpgradeRec
<1>b. now < until[b] + Delay
    BY <1>h DEF IInv, UpgradesAreBacked
<1> HIDE DEF b
<1>n. new \in SessionRec
    BY <1>h DEF SessionRec
<1>s. /\ session' \in [Session -> SessionRec]
      /\ session'[s] = new
      /\ \A r \in Session \ {s} : session'[r] = session[r]
    BY <1>u, <1>n, <1>t DEF TypeOK
<1>c. /\ carries' \in [Browser -> Session \cup {NoSession}]
      /\ carries'[b] = s
      /\ \A d \in Browser \ {b} : carries'[d] = carries[d]
    BY <1>u, <1>h, <1>t DEF TypeOK
<1>g. /\ upgrade' \in [Handler -> UpgradeRec]
      /\ \A k \in Handler : upgrade'[k] \in {upgrade[k], NoUpgrade}
    <2>1. NoUpgrade \in UpgradeRec
        BY DEF NoUpgrade, UpgradeRec
    <2> QED BY <2>1, <1>u, <1>t DEF TypeOK
<1>1. TypeOK'
    BY <1>u, <1>s, <1>c, <1>g, <1>t DEF TypeOK, limiter, signIns
<1>2. SignInPart'
    BY <1>u DEF IInv, SignInPart, CookiesAreOfTheirBrowser, SignInsAreKnown, signIns
<1>3. CarriedByTheirHolder'
    <2>1. \A d \in Browser \ {b} : carries[d] # NoSession => carries[d] \in Session \ {s}
        BY <1>t, <1>u DEF TypeOK, IInv, CarriedByTheirHolder
    <2> QED BY <2>1, <1>s, <1>c, <1>h DEF IInv, CarriedByTheirHolder
<1>4. SessionsAreBacked'
    BY <1>s, <1>b, <1>h, <1>u DEF IInv, SessionsAreBacked, signIns
<1>5. SessionsEnd'
    BY <1>s, <1>u DEF IInv, SessionsEnd
<1>6. UpgradesAreBacked'
    BY <1>g, <1>u DEF IInv, UpgradesAreBacked, Upgrading, NoUpgrade, signIns
<1> QED BY <1>1, <1>2, <1>3, <1>4, <1>5, <1>6 DEF IInv, SignInPart

\* Sessions leave the store: those of S.
LEMMA SessionsLeave ==
    ASSUME IInv, NEW S \in SUBSET Session,
           \A s \in S : session[s].status # "unused",
           session' = [s \in Session |-> IF s \in S THEN [session[s] EXCEPT !.status = "gone"]
                                         ELSE session[s]],
           now' = now, until' = until,
           \A s \in S : s \in ended' \/ session[s].expires <= now,
           ended \subseteq ended', ended' \subseteq ended \cup S,
           \A d \in Browser : carries'[d] \in {carries[d], NoSession}
    PROVE  session' \in [Session -> SessionRec] /\ SessionPart'
<1>t. session \in [Session -> SessionRec] /\ carries \in [Browser -> Session \cup {NoSession}]
    BY DEF IInv, TypeOK
<1>1. session' \in [Session -> SessionRec]
    BY <1>t DEF SessionRec
<1>2. \A s \in Session : /\ session'[s].holder = session[s].holder
                         /\ session'[s].made = session[s].made
                         /\ session'[s].expires = session[s].expires
                         /\ session'[s].status = IF s \in S THEN "gone" ELSE session[s].status
    BY <1>t DEF SessionRec
<1>3. CarriedByTheirHolder'
    <2> SUFFICES ASSUME NEW d \in Browser, carries'[d] # NoSession
                 PROVE  session'[carries'[d]].status # "unused" /\ session'[carries'[d]].holder = d
        BY DEF CarriedByTheirHolder
    <2>1. carries'[d] = carries[d] /\ carries[d] \in Session
        BY <1>t
    <2> QED BY <2>1, <1>2 DEF IInv, CarriedByTheirHolder
<1>4. SessionsAreBacked'
    BY <1>2 DEF IInv, SessionsAreBacked
<1>5. SessionsEnd'
    BY <1>2 DEF IInv, SessionsEnd
<1> QED BY <1>1, <1>3, <1>4, <1>5 DEF SessionPart

\* A logout, and the sweep of sessions.
LEMMA LogoutKeeps ==
    ASSUME IInv, SweepSessions \/ \E b \in Browser : apiLogout(b)
    PROVE  IInv'
<1>t. TypeOK
    BY DEF IInv
<1>u. UNCHANGED <<now, limiter, signIns, upgrade>>
    BY DEF SweepSessions, apiLogout
<1>1. session' \in [Session -> SessionRec] /\ SessionPart'
    <2>1. CASE SweepSessions
        <3>1. Aged \in SUBSET Session
              /\ \A s \in Aged : session[s].status # "unused" /\ session[s].expires <= now
            BY DEF Aged
        <3> QED BY <3>1, <2>1, <1>u, SessionsLeave DEF SweepSessions, signIns
    <2>2. ASSUME NEW b \in Browser, apiLogout(b)
          PROVE  session' \in [Session -> SessionRec] /\ SessionPart'
        <3> DEFINE S == {carries[b]}
        <3>1. carries[b] \in Session /\ session[carries[b]].status # "unused"
            BY <2>2, <1>t DEF apiLogout, TypeOK, IInv, CarriedByTheirHolder
        <3>2. session' = [s \in Session |-> IF s \in S THEN [session[s] EXCEPT !.status = "gone"]
                                            ELSE session[s]]
            BY <2>2, <3>1, <1>t DEF apiLogout, TypeOK
        <3>3. ended' = ended \cup S
            BY <2>2 DEF apiLogout
        <3>4. \A d \in Browser : carries'[d] \in {carries[d], NoSession}
            BY <2>2, <1>t DEF apiLogout, TypeOK
        <3> QED BY <3>1, <3>2, <3>3, <3>4, <1>u, SessionsLeave DEF signIns
    <2> QED BY <2>1, <2>2
<1>2. carries' \in [Browser -> Session \cup {NoSession}] /\ ended' \subseteq Session
    <2>1. CASE SweepSessions
        BY <2>1, <1>t DEF SweepSessions, TypeOK
    <2>2. ASSUME NEW b \in Browser, apiLogout(b)
          PROVE  carries' \in [Browser -> Session \cup {NoSession}] /\ ended' \subseteq Session
        BY <2>2, <1>t DEF apiLogout, TypeOK
    <2> QED BY <2>1, <2>2
<1>3. TypeOK'
    BY <1>1, <1>2, <1>u, <1>t DEF TypeOK, limiter, signIns
<1>4. SignInPart'
    BY <1>u DEF IInv, SignInPart, CookiesAreOfTheirBrowser, SignInsAreKnown, signIns
<1>5. UpgradesAreBacked'
    BY <1>u, <1>t, UpgradesStay DEF TypeOK, signIns
<1> QED BY <1>1, <1>3, <1>4, <1>5 DEF IInv, SignInPart, SessionPart

\* The process stops and starts.
LEMMA RestartKeeps ==
    ASSUME IInv, Restart
    PROVE  IInv'
<1> USE ConsoleTimes, ConsoleCaps
<1>t. TypeOK
    BY DEF IInv
<1> DEFINE S == {s \in Session : session[s].status = "held"}
<1>u. UNCHANGED <<now, cookie, until, carries>> /\ ended' = ended \cup S
    BY DEF Restart
<1>1. grant' \in [Grant -> GrantRec] /\ SignInPart'
    <2>1. Held \in SUBSET Grant /\ \A g \in Held : grant[g].status # "unused"
        BY DEF Held
    <2> QED BY <2>1, <1>u, SignInsLeave DEF Restart
<1>2. session' \in [Session -> SessionRec] /\ SessionPart'
    <2>1. session' = [s \in Session |-> IF s \in S THEN [session[s] EXCEPT !.status = "gone"]
                                        ELSE session[s]]
        BY DEF Restart
    <2> QED BY <2>1, <1>u, SessionsLeave
<1>4. /\ upgrade' \in [Handler -> UpgradeRec]
      /\ \A h \in Handler : upgrade'[h].browser = NoBrowser
    BY DEF Restart, NoUpgrade, UpgradeRec
<1>3. TypeOK'
    <2>1. counts' \in [Address -> 0..Limit] /\ due' \in Nat
        BY <1>t DEF Restart, NoHits, TypeOK
    <2>2. recent' \in [Address -> [0..(Window - 1) -> Nat]]
        BY DEF Restart
    <2> QED BY <2>1, <2>2, <1>1, <1>2, <1>4, <1>u, <1>t DEF TypeOK
<1>5. UpgradesAreBacked'
    BY <1>4 DEF UpgradesAreBacked, Upgrading
<1> QED BY <1>1, <1>2, <1>3, <1>5 DEF IInv, SignInPart, SessionPart

(* ------------------------------------------------------------------------- *)
(* The theorems                                                              *)
(* ------------------------------------------------------------------------- *)

\* Every step preserves the invariant.
LEMMA NextIInv == IInv /\ [Next]_vars => IInv'
<1> SUFFICES ASSUME IInv, [Next]_vars PROVE IInv'
    OBVIOUS
<1>1. CASE Clock \/ ResetCounts \/ \E a \in Address : Hit(a)
    BY <1>1, TimeKeeps
<1>2. CASE \E b \in Browser, a \in Address, flow \in {"standalone", "gh"}, g \in Grant :
               Start(b, a, flow, g)
    BY <1>2, StartKeeps
<1>3. CASE \E g \in Grant : Settle(g)
    BY <1>3, SettleKeeps
<1>4. CASE SweepGrants \/ \E g \in Grant : Collect(g)
    BY <1>4, CollectKeeps
<1>5. CASE \/ \E h \in Handler, b \in Browser, g \in Grant : apiSession(h, b, g)
           \/ \E h \in Handler, s \in Session : createSession(h, s)
    BY <1>5, UpgradeKeeps, SessionKeeps
<1>6. CASE SweepSessions \/ \E b \in Browser : apiLogout(b)
    BY <1>6, LogoutKeeps
<1>7. CASE Restart
    BY <1>7, RestartKeeps
<1>8. CASE UNCHANGED vars
    <2>1. TypeOK'
        BY <1>8 DEF vars, limiter, signIns, sessions, IInv, TypeOK
    <2>2. SignInPart'
        BY <1>8 DEF vars, signIns, IInv, SignInPart, CookiesAreOfTheirBrowser, SignInsAreKnown
    <2>3. SessionPart'
        BY <1>8 DEF vars, signIns, sessions, IInv, SessionPart, CarriedByTheirHolder,
                    SessionsAreBacked, SessionsEnd
    <2>4. UpgradesAreBacked'
        BY <1>8, UpgradesStay DEF vars, signIns, sessions, IInv, TypeOK
    <2> QED BY <2>1, <2>2, <2>3, <2>4 DEF IInv, SignInPart, SessionPart
<1> QED BY <1>1, <1>2, <1>3, <1>4, <1>5, <1>6, <1>7, <1>8 DEF Next

\* The inductive invariant holds.
THEOREM IInvHolds == Spec => []IInv
BY InitIInv, NextIInv, PTL DEF Spec

\* Type correctness: no count goes beyond the limit.
THEOREM TypeOKHolds == Spec => []TypeOK
<1>1. IInv => TypeOK
    BY DEF IInv
<1> QED BY <1>1, IInvHolds, PTL

\* A browser manages tokens only on a sign-in of its own that succeeded, and no
\* longer than a session after it expired, and the time that apiSession takes
\* between its look at the sign-in and the session: the clock, the sweeps, other
\* sign-ins and a restart may come in between.
THEOREM ManagesOnItsOwnSignInHolds == Spec => []ManagesOnItsOwnSignIn
<1>1. ASSUME IInv PROVE ManagesOnItsOwnSignIn
    <2> SUFFICES ASSUME NEW b \in Browser, sessionLogin(b)
                 PROVE  /\ session[carries[b]].holder = b
                        /\ now + 1 < until[b] + Delay + SessionTTL
        BY DEF ManagesOnItsOwnSignIn
    <2> DEFINE s == carries[b]
    <2>1. s # NoSession /\ session[s].status = "held" /\ now < session[s].expires
        BY DEF sessionLogin, lookup
    <2>2. s \in Session /\ session[s].holder = b
        BY <1>1, <2>1 DEF IInv, TypeOK, CarriedByTheirHolder
    <2>3. session[s].expires = session[s].made + SessionTTL /\ session[s].made < until[b] + Delay
        BY <1>1, <2>1, <2>2 DEF IInv, SessionsAreBacked
    <2>4. /\ session[s].made \in Nat /\ session[s].expires \in Nat
          /\ until[b] \in Nat /\ now \in Nat /\ SessionTTL \in Nat /\ Delay \in Nat
        BY <1>1, <2>2, ConsoleTimes DEF IInv, TypeOK, SessionRec
    <2> QED BY <2>1, <2>2, <2>3, <2>4
<1> QED BY <1>1, IInvHolds, PTL

\* A session holds for SessionTTL, unless a logout or the process ended it.
THEOREM SessionsLastTheirTimeHolds == Spec => []SessionsLastTheirTime
<1>1. ASSUME IInv PROVE SessionsLastTheirTime
    <2> SUFFICES ASSUME NEW s \in Session, session[s].status # "unused"
                 PROVE  lookup(s) <=> s \notin ended /\ now < session[s].made + SessionTTL
        BY DEF SessionsLastTheirTime
    <2>1. session[s].expires = session[s].made + SessionTTL
        BY <1>1 DEF IInv, SessionsAreBacked
    <2>2. /\ session[s].status \in {"held", "gone"}
          /\ session[s].expires \in Nat /\ now \in Nat
        BY <1>1 DEF IInv, TypeOK, SessionRec
    <2>3. /\ session[s].status = "held" => s \notin ended
          /\ session[s].status = "gone" => s \in ended \/ session[s].expires <= now
        BY <1>1 DEF IInv, SessionsEnd
    <2> QED BY <2>1, <2>2, <2>3 DEF lookup
<1> QED BY <1>1, IInvHolds, PTL

(* ------------------------------------------------------------------------- *)
(* The rate limiter                                                          *)
(* ------------------------------------------------------------------------- *)

\* The ticker is on time, or late by no more than Lag.
OnSchedule == due - Window <= now /\ now <= due + Lag

\* The hits since a moment that is surely after the last tick are in the counts;
\* every tick further back adds another full window at most.
HitsAreCounted ==
    \A a \in Address, i \in 0..(Window - 1) :
        /\ now - i > due + Lag - Window => recent[a][i] <= counts[a]
        /\ now - i > due + Lag - 2 * Window => recent[a][i] <= counts[a] + Limit
        /\ now - i > due + Lag - 3 * Window => recent[a][i] <= counts[a] + 2 * Limit

LimiterInv == TypeOK /\ OnSchedule /\ HitsAreCounted

\* A hit is counted where it is let through.
LEMMA AllowKeeps ==
    ASSUME LimiterInv, NEW a \in Address, allow(a), now' = now
    PROVE  OnSchedule' /\ HitsAreCounted'
<1> USE ConsoleTimes, ConsoleCaps
<1>1. due' = due
    BY DEF allow
<1>2. \A b \in Address : counts'[b] = IF b = a THEN counts[b] + 1 ELSE counts[b]
    BY DEF LimiterInv, TypeOK, allow
<1>3. \A b \in Address, i \in 0..(Window - 1) :
          recent'[b][i] = IF b = a THEN recent[b][i] + 1 ELSE recent[b][i]
    BY DEF LimiterInv, TypeOK, allow
<1>4. \A b \in Address, i \in 0..(Window - 1) : counts[b] \in Nat /\ recent[b][i] \in Nat
    BY DEF LimiterInv, TypeOK
<1>5. HitsAreCounted'
    BY <1>1, <1>2, <1>3, <1>4 DEF LimiterInv, HitsAreCounted
<1> QED BY <1>1, <1>5 DEF LimiterInv, OnSchedule

\* As time goes on, what was let through in i + 1 units was so in i + 2.
LEMMA ClockKeeps ==
    ASSUME LimiterInv, Clock
    PROVE  OnSchedule' /\ HitsAreCounted'
<1> USE ConsoleTimes, ConsoleCaps
<1>1. now' = now + 1 /\ due' = due /\ counts' = counts /\ now < due + Lag
      /\ now \in Nat /\ due \in Nat
    BY DEF Clock, LimiterInv, TypeOK
<1>2. OnSchedule'
    BY <1>1 DEF LimiterInv, OnSchedule
<1>3. ASSUME NEW a \in Address, NEW i \in 0..(Window - 1)
      PROVE  (/\ now - i > due + Lag - Window => recent[a][i] <= counts[a]
              /\ now - i > due + Lag - 2 * Window => recent[a][i] <= counts[a] + Limit
              /\ now - i > due + Lag - 3 * Window => recent[a][i] <= counts[a] + 2 * Limit)'
    <2>1. recent'[a][i] = IF i = 0 THEN 0 ELSE recent[a][i - 1]
        BY DEF Clock
    <2>2. counts[a] \in Nat
        BY DEF LimiterInv, TypeOK
    <2>3. CASE i = 0
        BY <2>1, <2>2, <2>3, <1>1
    <2>4. CASE i # 0
        <3>1. i - 1 \in 0..(Window - 1) /\ now' - i = now - (i - 1)
            BY <2>4, <1>1
        <3> QED BY <2>1, <2>4, <3>1, <1>1 DEF LimiterInv, HitsAreCounted
    <2> QED BY <2>3, <2>4
<1> QED BY <1>2, <1>3 DEF HitsAreCounted

\* A tick: what was counted is a full window at most, and is one tick further back.
LEMMA TickKeeps ==
    ASSUME LimiterInv, ResetCounts
    PROVE  OnSchedule' /\ HitsAreCounted'
<1> USE ConsoleTimes, ConsoleCaps
<1>1. /\ now' = now /\ due' = due + Window /\ due <= now
      /\ recent' = recent /\ now \in Nat /\ due \in Nat
      /\ \A a \in Address : counts'[a] = 0 /\ counts[a] \in 0..Limit
    BY DEF ResetCounts, NoHits, LimiterInv, TypeOK
<1>2. OnSchedule'
    BY <1>1 DEF LimiterInv, OnSchedule
<1>3. ASSUME NEW a \in Address, NEW i \in 0..(Window - 1)
      PROVE  (/\ now - i > due + Lag - Window => recent[a][i] <= counts[a]
              /\ now - i > due + Lag - 2 * Window => recent[a][i] <= counts[a] + Limit
              /\ now - i > due + Lag - 3 * Window => recent[a][i] <= counts[a] + 2 * Limit)'
    <2>1. recent[a][i] \in Nat
        BY DEF LimiterInv, TypeOK
    <2>2. /\ now - i > due + Lag - Window => recent[a][i] <= counts[a]
          /\ now - i > due + Lag - 2 * Window => recent[a][i] <= counts[a] + Limit
        BY DEF LimiterInv, HitsAreCounted
    <2>3. now <= due + Lag
        BY DEF LimiterInv, OnSchedule
    <2> QED BY <2>1, <2>2, <2>3, <1>1
<1> QED BY <1>2, <1>3 DEF HitsAreCounted

\* Every step keeps the schedule and the counts.
LEMMA LimiterStays == LimiterInv /\ IInv /\ IInv' /\ [Next]_vars => LimiterInv'
<1> USE ConsoleTimes, ConsoleCaps
<1> SUFFICES ASSUME LimiterInv, IInv, IInv', [Next]_vars PROVE OnSchedule' /\ HitsAreCounted'
    BY DEF LimiterInv, IInv
<1>1. ASSUME NEW a \in Address, Hit(a) PROVE OnSchedule' /\ HitsAreCounted'
    BY <1>1, AllowKeeps DEF Hit
<1>2. ASSUME NEW b \in Browser, NEW a \in Address, NEW flow \in {"standalone", "gh"},
             NEW g \in Grant, Start(b, a, flow, g)
      PROVE  OnSchedule' /\ HitsAreCounted'
    BY <1>2, AllowKeeps DEF Start
<1>3. CASE Restart
    <2>1. /\ now' = now /\ due' = now + Window /\ now \in Nat
          /\ \A a \in Address : counts'[a] = 0
          /\ \A a \in Address, i \in 0..(Window - 1) : recent'[a][i] = 0
        BY <1>3 DEF Restart, NoHits, LimiterInv, TypeOK
    <2>2. OnSchedule'
        BY <2>1 DEF OnSchedule
    <2>3. HitsAreCounted'
        BY <2>1 DEF HitsAreCounted
    <2> QED BY <2>2, <2>3
<1>4. ASSUME UNCHANGED <<now, limiter>> PROVE OnSchedule' /\ HitsAreCounted'
    BY <1>4 DEF limiter, LimiterInv, OnSchedule, HitsAreCounted
<1>5. ASSUME (\E g \in Grant : Settle(g) \/ Collect(g)) \/ SweepGrants \/ SweepSessions
             \/ (\E h \in Handler, b \in Browser, g \in Grant : apiSession(h, b, g))
             \/ (\E h \in Handler, s \in Session : createSession(h, s))
             \/ (\E b \in Browser : apiLogout(b)) \/ UNCHANGED vars
      PROVE  UNCHANGED <<now, limiter>>
    BY <1>5 DEF Settle, Collect, SweepGrants, SweepSessions, apiSession, createSession,
                    apiLogout, vars
<1> QED BY <1>1, <1>2, <1>3, <1>4, <1>5, ClockKeeps, TickKeeps DEF Next

\* What the limiter lets through in any Window units, wherever they begin, is two
\* limits, or three with a ticker that may be late.
THEOREM BurstsAreBoundedHolds == Spec => []BurstsAreBounded
<1> USE ConsoleTimes, ConsoleCaps
<1>1. Init => LimiterInv
    <2> SUFFICES ASSUME Init PROVE OnSchedule /\ HitsAreCounted
        BY InitIInv DEF LimiterInv, IInv
    <2>1. OnSchedule
        BY DEF Init, OnSchedule
    <2>2. HitsAreCounted
        BY DEF Init, HitsAreCounted, NoHits
    <2> QED BY <2>1, <2>2
<1>2. ASSUME LimiterInv PROVE BurstsAreBounded
    <2> SUFFICES ASSUME NEW a \in Address PROVE recent[a][Window - 1] <= Burst
        BY DEF BurstsAreBounded
    <2>1. /\ recent[a][Window - 1] \in Nat /\ counts[a] \in 0..Limit
          /\ now \in Nat /\ due \in Nat /\ due - Window <= now
        BY <1>2 DEF LimiterInv, TypeOK, OnSchedule
    <2>2. /\ now - (Window - 1) > due + Lag - 2 * Window
             => recent[a][Window - 1] <= counts[a] + Limit
          /\ now - (Window - 1) > due + Lag - 3 * Window
             => recent[a][Window - 1] <= counts[a] + 2 * Limit
        BY <1>2 DEF LimiterInv, HitsAreCounted
    <2>3. CASE Lag = 0
        <3>1. Burst = 2 * Limit
            BY <2>3 DEF Burst
        <3> QED BY <2>1, <2>2, <2>3, <3>1
    <2>4. CASE Lag # 0
        <3>1. Burst = 3 * Limit
            BY <2>4 DEF Burst
        <3> QED BY <2>1, <2>2, <2>4, <3>1
    <2> QED BY <2>3, <2>4
<1> QED BY <1>1, <1>2, IInvHolds, LimiterStays, PTL DEF Spec

==============================================================================
