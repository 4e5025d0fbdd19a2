SPECIFICATION Spec
CONSTANTS
    Owner = {"o1", "u1"}
    Short = {"open", "secret", "fork"}
    Casing = {"lower"}
    Resource = {"pulls", "issues", "contents", "commits", "actions", "checks", "metadata"}
    Category = {"user", "user_private", "search", "notifications", "events"}
    NilMap = NilMap
    NoRepo = NoRepo
    NoOrg = NoOrg
    NoCategory = NoCategory
    Policies <- MCOnlyAll
    Paths <- MCPaths
    Requests <- MCShadowed
    MaxVia = 3
    Upstream <- MCUpstream
    Moved <- MCMoved
INVARIANT DescribedEndpointsAnswer
CHECK_DEADLOCK FALSE
