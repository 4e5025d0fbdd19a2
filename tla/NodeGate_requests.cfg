SPECIFICATION Spec
CONSTANTS
    O = o1
    Open = s1
    Closed = s2
    Pull = n1
    Repository = n2
    Owner = {o1}
    Short = {s1, s2}
    Casing = {"lower"}
    Resource = {"pulls", "metadata"}
    Category = {"user"}
    NilMap = NilMap
    NoRepo = NoRepo
    NoOrg = NoOrg
    NoCategory = NoCategory
    Node = {n1, n2}
    Type <- MCType
    Home <- MCHome
    Unseen = Unseen
    Unattributed = Unattributed
    Slot = {r1, r2}
    Inbox <- MCInbox
    MaxEntries = 1
SYMMETRY Symmetry
INVARIANTS
    TypeOK
    WritesStayAllowed
    WritesMatchTypes
    WritesNeedAScope
    AnswersStayAllowed
