SPECIFICATION Spec
CONSTANTS
    Owner = {o1}
    Short = {s1, s2}
    Casing = {"lower", "upper"}
    Resource = {"pulls", "members"}
    Category = {"user"}
    NilMap = NilMap
    NoRepo = NoRepo
    NoOrg = NoOrg
    NoCategory = NoCategory
    Known = {"pulls"}
    Flags <- MCFlags
    Authored <- MCAuthored
    Given <- MCGiven
    MaxFlags = 3
INVARIANTS
    ShortCutsAgree
    LoginRaisesOnlyLoginReads
    OpaqueIdsAreSafe
    RepoPermFlagsHold
