----------------------------- MODULE MCNodeGate ------------------------------
(* The instance of NodeGate that TLC checks: a pull request and a repository, *)
(* two repositories of one owner, and tokens that may write one of the two.   *)
EXTENDS NodeGate, TLC

CONSTANTS O, Open, Closed, Pull, Repository

MCRepo(s) == [owner |-> O, short |-> s, casing |-> "lower"]

MCHome == {MCRepo(Open), MCRepo(Closed)}
MCType == [n \in Node |-> IF n = Pull THEN "pulls" ELSE ""]

MCRule(s, a, perms) == [name |-> MCRepo(s), access |-> a, perms |-> perms]
MCPulls(a) == [k \in {[res |-> "pulls", casing |-> "lower"]} |-> a]

MCPolicy(mode, unscoped, rules) ==
    [mode |-> mode, unscoped |-> unscoped, org |-> << >>, repo |-> rules]

\* A token for one repository, one for all but the other, and one for all of a
\* repository but its pull requests.
OpenOnly == MCPolicy("deny", << >>, <<MCRule(Open, AccessReadWrite, NilMap)>>)
AllButClosed ==
    MCPolicy("allow", [c \in Category |-> AccessNone], <<MCRule(Closed, AccessNone, NilMap)>>)
AllButPulls ==
    MCPolicy("deny", << >>, <<MCRule(Open, AccessReadWrite, MCPulls(AccessNone))>>)

MCPrim(cat) == [repo |-> NoRepo, org |-> NoOrg, res |-> "", cat |-> cat]

MCRequest(p, level, cat, ids, res) ==
    [pol |-> p, level |-> level, prim |-> MCPrim(cat), ids |-> ids,
     under |-> [n \in Node |-> res]]

\* Reads of either node, one with a category beside it; a mutation of the pull
\* request, and one of both nodes under a name that is not the pull request's.
MCInbox ==
    {MCRequest(OpenOnly, "read", NoCategory, {Pull}, {}),
     MCRequest(OpenOnly, "write", NoCategory, {Pull}, {}),
     MCRequest(AllButPulls, "write", NoCategory, Node, {"metadata"})}
    \cup {MCRequest(AllButClosed, "read", c, {Repository}, {}) : c \in Category}

Symmetry == Permutations(Slot)

==============================================================================
