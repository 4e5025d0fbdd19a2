SPECIFICATION FairSpec
CONSTANTS
    Grant = {g1}
    Browser = {b1, b2}
    Req = {r1, r2}
    Attempt = {a1, a2}
    Token = {t1, t2}
    Login = {l1, l2}
    MaxLiveGrants = 1
    NoGrant = NoGrant
    NoBrowser = NoBrowser
    NoAttempt = NoAttempt
    NoToken = NoToken
    NoLogin = NoLogin
INVARIANTS
    OneTokenPerGrant
    SecretHandedOnce
    MintedByBinder
    MintedTokenIsCollectable
    OneLiveAttempt
    AuthenticatedAsOwner
PROPERTIES
    ReservationResolves
    StartedSignInSettles
    ImplementsTickets
