SPECIFICATION Spec
CONSTANTS
    Token = {t1, t2}
    Name = {n1}
    Editor = {e1}
    NoName = NoName
    NoToken = NoToken
    NoKey = NoKey
SYMMETRY Symmetry
INVARIANTS
    NotFoundIsFinal
