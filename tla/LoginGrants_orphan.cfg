SPECIFICATION Spec
CONSTANTS
    Grant = {g1}
    Browser = {b1}
    Req = {r1}
    Attempt = {a1, a2}
    Token = {t1}
    Login = {l1}
    MaxLiveGrants = 1
    NoGrant = NoGrant
    NoBrowser = NoBrowser
    NoAttempt = NoAttempt
    NoToken = NoToken
    NoLogin = NoLogin
SYMMETRY Symmetry
PROPERTIES
    OrphanNeverDenies
