------------------------------ MODULE Classifier ------------------------------
(* The request classifier (internal/classifier), REST half: which scopes a    *)
(* request needs, from its method, its path and the repositories its body     *)
(* names.  A path is a sequence of segments.                                  *)
EXTENDS Policy, FiniteSets, SequencesExt

\* A name in a body is full ("owner/repo") or bare.
BodyName == [form: {"full", "bare"}, owner: Owner, short: Short]

\* One side of a comparison: a ref of the path's repository, "owner:ref", or
\* "owner:repo:ref".
SideSet == [form: {"ref", "owner", "full"}, owner: Owner, short: Short]

Method == {"GET", "HEAD", "POST", "PUT", "PATCH", "DELETE"}

RepoNamed(o, s) == [owner |-> o, short |-> s, casing |-> "lower"]
OrgNamed(o) == [owner |-> o, casing |-> "lower"]

\* The resource of a scope of which the request does not tell it.
NoResource == ""

RepoScope(o, s, res) ==
    [repo |-> RepoNamed(o, s), org |-> OrgNamed(o), res |-> res, cat |-> NoCategory]
OrgScope(o, res) ==
    [repo |-> NoRepo, org |-> OrgNamed(o), res |-> res, cat |-> NoCategory]
CategoryScope(cat) ==
    [repo |-> NoRepo, org |-> NoOrg, res |-> NoResource, cat |-> cat]

IsRead(method) == method \in {"GET", "HEAD"}
AccessOf(method) == IF IsRead(method) THEN "read" ELSE "write"

\* Whether the path has at least n segments, the i-th of them s.
Has(path, n, i, s) == Len(path) >= n /\ path[i] = s

(* ------------------------------------------------------------------------- *)
(* Resources and categories                                                  *)
(* ------------------------------------------------------------------------- *)

\* restResourceMap, by the key it maps to.
restResourceMap ==
    [pulls |-> {"pulls"}, issues |-> {"issues"},
     contents |-> {"contents", "readme", "zipball", "tarball"},
     actions |-> {"actions"}, releases |-> {"releases"},
     commits |-> {"commits", "compare"}, branches |-> {"branches"},
     checks |-> {"check-runs", "check-suites", "statuses"},
     comments |-> {"comments"}, hooks |-> {"hooks"},
     deployments |-> {"deployments", "environments"},
     pages |-> {"pages"}, keys |-> {"keys", "deploy-keys"}]

restMetadataSegments ==
    {"stargazers", "subscribers", "topics", "languages", "tags", "forks",
     "contributors", "collaborators", "teams", "license", "community", "traffic"}

\* gitDataResource: /repos/{o}/{r}/git/... counts as what it reads or writes.
gitDataResource(path) ==
    IF Len(path) <= 4 THEN "unknown"
    ELSE CASE path[5] \in {"refs", "ref", "matching-refs", "tags"} -> "branches"
           [] path[5] \in {"blobs", "trees"} -> "contents"
           [] path[5] = "commits" -> "commits"
           [] OTHER -> "unknown"

\* restResource: the per-resource key of a path below /repos/{o}/{r}.
restResource(path) ==
    LET known == {r \in DOMAIN restResourceMap : path[4] \in restResourceMap[r]} IN
    CASE Len(path) <= 3 -> "metadata"
      [] Len(path) > 3 /\ path[4] = "git" -> gitDataResource(path)
      [] Len(path) > 3 /\ path[4] # "git" ->
            IF known # {} THEN CHOOSE r \in known : TRUE
            ELSE IF path[4] \in restMetadataSegments THEN "metadata"
            ELSE "unknown"

\* orgResource: an organization's sub-path is its own key.
orgResource(path) == IF Len(path) < 3 THEN "metadata" ELSE path[3]

enterpriseResource(path) ==
    IF Len(path) < 3 THEN "metadata"
    ELSE IF path[3] \in {"teams", "members", "memberships", "owners", "admins"}
    THEN "members"
    ELSE path[3]

usersPublicSubtrees ==
    {"events", "followers", "following", "gists", "gpg_keys", "hovercard", "keys",
     "orgs", "packages", "received_events", "repos", "social_accounts",
     "ssh_signing_keys", "starred", "subscriptions", "attestations"}

\* restUnscopedCategory: what a path that names no owner falls under.
restUnscopedCategory(path) ==
    CASE path = <<>> -> "meta"
      [] path # <<>> /\ path[1] = "user" ->
            IF Len(path) = 1 \/ path[2] \in {"repos", "issues", "starred", "subscriptions"}
            THEN "user" ELSE "user_private"
      [] path # <<>> /\ path[1] \in {"search", "gists", "notifications", "events"} ->
            path[1]
      [] path # <<>> /\ path[1] \in {"rate_limit", "feeds", "meta", "octocat", "zen", "emojis"} ->
            "meta"
      [] OTHER -> NoCategory

(* ------------------------------------------------------------------------- *)
(* Repositories named outside the place a path scopes                        *)
(* ------------------------------------------------------------------------- *)

\* compareForkScopes: every side of a comparison that is in another repository
\* of the network; "owner:ref" is the owner's fork, which shares the name.
compareForkScopes(path, sides) ==
    LET compares ==
            \/ Has(path, 5, 4, "compare")
            \/ Has(path, 6, 4, "dependency-graph") /\ path[5] = "compare"
        target(s) == IF s.form = "full" THEN <<s.owner, s.short>> ELSE <<s.owner, path[3]>>
        foreign == {target(s) : s \in {x \in sides : x.form # "ref"}} \ {<<path[2], path[3]>>}
    IN  IF compares THEN {RepoScope(t[1], t[2], "commits") : t \in foreign} ELSE {}

\* The key under which a body's repositories are scoped, {} if they are not.
BodyResource(path) ==
    CASE Len(path) = 3 /\ path[1] = "orgs" /\ path[3] = "migrations" -> {"migrations"}
      [] path = <<"user", "migrations">> -> {"migrations"}
      [] Len(path) = 6 /\ path[1] = "repos"
         /\ path[4] = "code-scanning" /\ path[5] = "codeql" /\ path[6] = "variant-analyses" ->
            {restResource(path)}
      [] Len(path) = 4 /\ path[1] = "orgs" /\ path[3] = "properties" /\ path[4] = "values" ->
            {"properties"}
      [] Len(path) = 3 /\ path[1] = "orgs" /\ path[3] = "teams" -> {"teams"}
      [] OTHER -> {}

\* bodyNamedRepoScopes that reads only the first of the fields.
bodyNamedRepoScopesOfRepositories(method, path, body) ==
    {RepoScope(n.owner, n.short, res) :
        n \in {x \in body.repositories : x.form = "full"}, res \in BodyResource(path)}

\* bodyNamedRepoScopes: the repositories that a migration, a variant analysis,
\* property values or a new team name in the body; a bare name of property
\* values is the organization's.
bodyNamedRepoScopes(method, path, body) ==
    LET full == {n \in body.repositories \cup body.repo_names \cup body.repository_names :
                     n.form = "full"}
        bare == {n \in body.repository_names : n.form = "bare"}
        res == BodyResource(path)
    IN  IF method \notin {"POST", "PATCH", "PUT"} THEN {}
        ELSE {RepoScope(n.owner, n.short, r) : n \in full, r \in res}
             \cup {OrgScope(o, r) : o \in body.repository_owners, r \in res}
             \cup {RepoScope(path[2], n.short, r) : n \in bare, r \in res \cap {"properties"}}

\* pathEmbeddedRepoScopes: a repository named deeper in the path than the owner.
pathEmbeddedRepoScopes(path) ==
    CASE Has(path, 7, 1, "orgs") /\ path[3] = "teams" /\ path[5] = "repos" ->
            {RepoScope(path[6], path[7], NoResource)}
      [] Has(path, 5, 1, "teams") /\ path[3] = "repos" ->
            {RepoScope(path[4], path[5], NoResource)}
      [] Has(path, 6, 1, "orgs") /\ path[3] = "migrations" /\ path[5] = "repos" ->
            {RepoScope(path[2], path[6], NoResource)}
      [] Len(path) = 4 /\ path[1] = "user" /\ path[2] = "starred" ->
            {RepoScope(path[3], path[4], "metadata")}
      [] Has(path, 3, 1, "networks") ->
            {RepoScope(path[2], path[3], NoResource)}
      [] OTHER -> {}

(* ------------------------------------------------------------------------- *)
(* Classify                                                                  *)
(* ------------------------------------------------------------------------- *)

Scoped(primary, additional) == [primary |-> primary, additional |-> additional]

\* Classify of a REST request: the primary scope, and the others it touches.
Classify(method, path, body, sides) ==
    LET named == bodyNamedRepoScopes(method, path, body) IN
    CASE Has(path, 3, 1, "repos") ->
            Scoped(RepoScope(path[2], path[3], restResource(path)),
                   compareForkScopes(path, sides) \cup named)
      [] Has(path, 4, 1, "agents") /\ path[2] = "repos" ->
            Scoped(RepoScope(path[3], path[4], restResource(Tail(path))), {})
      [] Has(path, 2, 1, "orgs") ->
            Scoped(OrgScope(path[2], orgResource(path)),
                   named \cup pathEmbeddedRepoScopes(path))
      [] Has(path, 2, 1, "users") ->
            IF Len(path) >= 3 /\ path[3] \notin usersPublicSubtrees
            THEN Scoped(CategoryScope("user_private"), {})
            ELSE Scoped(OrgScope(path[2], orgResource(path)), {})
      [] Has(path, 2, 1, "enterprises") ->
            Scoped(OrgScope(path[2], enterpriseResource(path)), {})
      [] Has(path, 2, 1, "organizations") ->
            Scoped(OrgScope(path[2], orgResource(path)), {})
      [] Has(path, 3, 1, "teams") /\ path[3] \in {"members", "memberships"} ->
            Scoped(OrgScope(path[2], "members"), {})
      [] OTHER ->
            Scoped(CategoryScope(restUnscopedCategory(path)),
                   named \cup pathEmbeddedRepoScopes(path))

AllScopes(c) == {c.primary} \cup c.additional
HasRepo(c) == c.primary.repo # NoRepo

\* evaluateScopes that stops at the primary scope.
evaluatePrimary(pol, c, level) == Evaluate(pol, c.primary, level)

\* evaluateScopes: the policy must allow every scope.
evaluateScopes(pol, c, level) == \A s \in AllScopes(c) : Evaluate(pol, s, level)

==============================================================================
