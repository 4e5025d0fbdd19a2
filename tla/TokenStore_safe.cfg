SPECIFICATION Spec
CONSTANTS
    Token = {t1, t2}
    Name = {n1, n2}
    Editor = {e1}
    NoName = NoName
    NoToken = NoToken
    NoKey = NoKey
SYMMETRY Symmetry
INVARIANTS
    ReportedRevocationIsFinal
    IssuedTokenSurvives
    FailedCreateLeavesNothing
PROPERTIES
    ImplementsRegistry
