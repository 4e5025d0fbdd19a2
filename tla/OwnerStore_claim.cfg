SPECIFICATION Spec
CONSTANTS
    Login = {l1, l2}
    Credential = {c1, c2, c3, c4}
    Attempt = {a1, a2}
    NoLogin = NoLogin
    NoCredential = NoCredential
SYMMETRY Symmetry
INVARIANTS
    OneOwner
    SeededClaimIsCustodians
    CustodianIsOwners
    MemoryMirrorsFile
PROPERTIES
    ImplementsOwnership
