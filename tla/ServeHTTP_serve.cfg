SPECIFICATION FairSpec
CONSTANTS
    Owner = {"o1", "u1"}
    Short = {"open", "secret", "fork"}
    Casing = {"lower"}
    Resource = {"pulls", "issues", "contents", "commits", "actions", "checks", "metadata"}
    Category = {"user", "user_private", "search", "notifications", "events"}
    NilMap = NilMap
    NoRepo = NoRepo
    NoOrg = NoOrg
    NoCategory = NoCategory
    Policies <- MCPolicies
    Paths <- MCPaths
    Requests <- MCRequests
    MaxVia = 3
    Upstream <- MCUpstream
    Moved <- MCMoved
INVARIANTS
    TreatmentFits
    NamesStayHidden
    CountsStayHidden
    NothingReadableIsLost
    WritesReachOnlyWritable
PROPERTY
    EveryRequestIsAnswered
CHECK_DEADLOCK FALSE
