SPECIFICATION FairSpec
CONSTANTS
    Browser = {b1, b2}
    Address = {a1}
    Grant = {g1, g2}
    Session = {s1, s2}
    Handler = {h1}
    NoBrowser = NoBrowser
    NoGrant = NoGrant
    NoSession = NoSession
    GrantTTL = 2
    SessionTTL = 1
    Window = 2
    Limit = 1
    Lag = 1
    Delay = 1
    MaxKeys = 1
    MaxLiveGrants = 1
    MaxTime = 4
INVARIANTS
    ManagesOnItsOwnSignIn
    SessionsLastTheirTime
    BurstsAreBounded
PROPERTY
    WhatExpiresIsSwept
CHECK_DEADLOCK FALSE
