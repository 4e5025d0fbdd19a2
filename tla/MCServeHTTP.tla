---------------------------- MODULE MCServeHTTP -----------------------------
(* The instances of ServeHTTP that TLC checks: three repositories, policies   *)
(* that deny one in every way a policy can, an endpoint of every kind that    *)
(* the proxy tells apart, and what GitHub may answer there.                   *)
EXTENDS ServeHTTP, TLC

Open == <<"o1", "open">>
Secret == <<"o1", "secret">>
Fork == <<"u1", "fork">>
Known == {Open, Secret, Fork}

(* ------------------------------------------------------------------------- *)
(* Policies                                                                  *)
(* ------------------------------------------------------------------------- *)

Rule(r, access, perms) == [name |-> RepoNamed(r[1], r[2]), access |-> access, perms |-> perms]
Key(res) == [res |-> res, casing |-> "lower"]

\* What a policy may say of the secret repository.
SecretRules ==
    {<< >>, <<Rule(Secret, AccessNone, NilMap)>>, <<Rule(Secret, AccessRead, NilMap)>>,
     <<Rule(Secret, AccessRead, Key("issues") :> AccessNone)>>,
     <<Rule(Secret, AccessNone, Key("issues") :> AccessRead)>>}

\* And of the other two.
OtherRules ==
    {<<Rule(Fork, AccessNone, NilMap)>>, <<Rule(Open, AccessReadWrite, NilMap)>>}

\* A policy that grants an organization, or one that grants the categories.
OrgGrant == <<[name |-> OrgNamed("o1"), access |-> AccessReadWrite, perms |-> NilMap]>>
CategoryGrant == [c \in Category |-> AccessReadWrite]
Granted == {[unscoped |-> << >>, org |-> OrgGrant], [unscoped |-> CategoryGrant, org |-> << >>]}

MCPolicies ==
    {[mode |-> m, unscoped |-> g.unscoped, org |-> g.org, repo |-> s \o o] :
        m \in Mode, g \in Granted, s \in SecretRules, o \in OtherRules}

(* ------------------------------------------------------------------------- *)
(* Answers                                                                   *)
(* ------------------------------------------------------------------------- *)

\* Bodies put together from smaller ones.
Obj(f) ==
    [p \in {<< >>} \cup UNION {{<<k>> \o q : q \in DOMAIN f[k]} : k \in DOMAIN f} |->
        IF p = << >> THEN Object ELSE f[Head(p)][Tail(p)]]
Arr(s) ==
    LET f == [k \in {ToString(i) : i \in DOMAIN s} |->
                 s[CHOOSE i \in DOMAIN s : ToString(i) = k]]
    IN  [Obj(f) EXCEPT ![<< >>] = Array]

Name(form, r) == Leaf(Str(form, r))
Owned(res, r) == Leaf(Content(res, r))
Id(r) == Leaf(RepoId(r))
Count(n) == Leaf(Num(n))
Words == Leaf(Text)
Gone == Leaf(Null)

\* Lists of up to two of the values.
Lists(S) == {Arr(s) : s \in UNION {[1..n -> S] : n \in 0..2}}

RepoRow(r) == Obj([full_name |-> Name("full", r), description |-> Owned("metadata", r)])
Minimal(r) == Obj([id |-> Id(r), url |-> Name("api", r), name |-> Name("bare", r)])
Bare(r) == Obj([id |-> Id(r), name |-> Name("bare", r)])
Issue(r) == Obj([title |-> Owned("issues", r), repository |-> RepoRow(r)])
UrlIssue(r) == Obj([title |-> Owned("issues", r), repository_url |-> Name("api", r)])
Event(r, x) ==
    Obj([repo |-> Obj([id |-> Id(r), url |-> Name("api", r), name |-> Name("full", r)]),
         payload |-> Obj([issue |-> UrlIssue(r), forkee |-> x])])

\* A pull request of r from the repository x, null once that is gone.
Sides(x) == Obj([repo |-> x])
Pull(r, x) == Obj([title |-> Owned("pulls", r), head |-> Sides(x), base |-> Sides(RepoRow(r))])
Optional(S) == S \cup {Gone}

\* An object with a list and the number of its rows.
Counted(list, field, count) ==
    Obj([k \in {field, count} |-> IF k = field THEN list ELSE Count(Cardinality(Below(list, << >>)))])

Bucket(S) == {Counted(l, "repositories", "repository_count") : l \in Lists({RepoRow(r) : r \in S})}
NotFound(S) ==
    {Counted(l, "repository_full_names", "repository_count") : l \in Lists({Name("full", r) : r \in S})}
Analysis(r) ==
    {Obj([controller_repo |-> RepoRow(r),
          scanned_repositories |-> Arr(<<Obj([repository |-> RepoRow(x)])>>),
          skipped_repositories |-> Obj([over_limit_repos |-> b, not_found_repos |-> n])]) :
        x \in Known, b \in Bucket({Secret, Fork}), n \in NotFound({Secret})}

Packument(r) ==
    {Obj([name |-> Words, bugs |-> Obj([url |-> Name("web", r)]), homepage |-> h,
          repository |-> Obj([url |-> Name("scp", r)]),
          dist |-> Obj([tarball |-> Leaf(Link("registry"))])]) :
        h \in {Words, Name("web", r)}}

\* The answers of an endpoint below the repository r.
InRepoAnswers(rest, r) ==
    CASE rest = << >> ->
            {Obj([full_name |-> Name("full", r), description |-> Owned("metadata", r),
                  parent |-> x]) : x \in Optional({RepoRow(y) : y \in Known})}
      [] rest = <<"forks">> -> Lists({RepoRow(x) : x \in Known})
      [] rest = <<"issues">> -> Lists({Issue(r)})
      [] rest = <<"issues", "comments">> ->
            Lists({Obj([body |-> Owned("issues", r), issue_url |-> Words])})
      [] rest = <<"issues", "events">> -> Lists({Obj([issue |-> Issue(r)])})
      [] rest = <<"pulls", "1">> -> {Pull(r, x) : x \in Optional({RepoRow(y) : y \in Known})}
      [] rest = <<"pulls">> -> Lists({Pull(r, RepoRow(x)) : x \in Known})
      [] rest = <<"check-runs", "1">> ->
            {Obj([output |-> Owned("checks", r),
                  pull_requests |-> Arr(<<Obj([head |-> Sides(Minimal(x)),
                                               base |-> Sides(Minimal(r))])>>)]) : x \in Known}
      [] rest = <<"issues", "1", "timeline">> ->
            Lists({Obj([source |-> Obj([issue |-> f])]) : f \in {UrlIssue(x) : x \in Known}}
                  \cup {Obj([source |-> Obj([issue |-> Issue(x)])]) : x \in Known}
                  \cup {Obj([event |-> Owned("issues", r)])})
      [] rest = <<"code-scanning", "codeql", "variant-analyses", "1">> -> Analysis(r)
      [] rest = <<"code-scanning", "codeql", "variant-analyses">> ->
            {Obj([id |-> Words, scanned_repositories |-> Arr(<<Obj([repository |-> RepoRow(x)])>>)]) :
                x \in Known}
      [] rest = <<"zipball", "main">> -> {Owned("contents", r)}
      [] rest = <<"unheard-of">> -> {Owned("metadata", r)}
      [] OTHER -> {}

InOrgAnswers(rest) ==
    CASE rest = <<"issues">> -> Lists({Issue(r) : r \in Known})
      [] rest = <<"migrations">> ->
            Lists({Obj([repositories |-> Arr(<<RepoRow(r)>>)]) : r \in Known})
      [] rest = <<"actions", "secrets", "s", "repositories">> ->
            {Counted(l, "repositories", "total_count") : l \in Lists({RepoRow(r) : r \in Known})}
      [] rest = <<"attestations", "repositories">> -> Lists({Bare(Open), Bare(Secret)})
      [] rest = <<"copilot", "metrics">> ->
            Lists({Obj([pulls |-> Obj([repositories |-> Arr(<<Obj([name |-> Name("bare", r)])>>)])]) :
                      r \in {Open, Secret}})
      [] rest = <<"copilot", "content_exclusion">> ->
            {Leaf(Keyed({Str("bare", r) : r \in S})) : S \in SUBSET {Open, Secret}}
      [] rest = <<"rulesets">> -> Lists({Obj([conditions |-> Id(r)]) : r \in {Open, Secret}})
      [] rest = <<"settings", "billing", "usage">> ->
            {Obj([usageItems |-> l]) : l \in Lists({Obj([repositoryName |-> Name("bare", r)]) :
                                                       r \in {Open, Secret}})}
      [] rest = <<"artifacts", "metadata", "storage-record">> ->
            {Obj([repository |-> Name("bare", r)]) : r \in {Open, Secret}}
      [] rest \in {<<"projectsV2", "1", "items">>, <<"unheard-of">>} ->
            Lists({Obj([content |-> Issue(r)]) : r \in Known} \cup {Obj([content |-> Words])})
      [] OTHER -> {}

MCUpstream(method, s) ==
    CASE method = "HEAD" -> {Empty}
      [] s = <<"repos", "o1", "open", "..", "secret">> -> {RepoRow(Secret)}
      [] s = <<"orgs", "o1", "migrations">> /\ method = "POST" ->
            {Obj([state |-> Words, repositories |-> Arr(<<RepoRow(Secret)>>)])}
      [] method = "POST" /\ Has(s, 4, 4, "forks") -> InRepoAnswers(<< >>, <<s[2], s[3]>>)
      [] method # "HEAD" /\ Has(s, 3, 1, "repos") /\ ~Has(s, 4, 4, "..") ->
            InRepoAnswers(SubSeq(s, 4, Len(s)), <<s[2], s[3]>>)
      [] method # "HEAD" /\ Has(s, 2, 1, "orgs") -> InOrgAnswers(SubSeq(s, 3, Len(s)))
      [] s = <<"agents", "repos", "o1", "open", "tasks">> -> Lists({Id(Open)})
      [] s = <<"agents", "tasks">> -> Lists({Id(r) : r \in Known})
      [] s = <<"user", "repos">> /\ method = "GET" -> Lists({RepoRow(r) : r \in Known})
      [] s = <<"user", "repos">> /\ method = "POST" ->
            {Obj([full_name |-> Words, template_repository |-> RepoRow(r)]) : r \in Known}
      [] s = <<"user", "emails">> -> {Words}
      [] s = <<"users", "u1", "starred">> ->
            Lists({RepoRow(r) : r \in Known} \cup {Obj([repo |-> RepoRow(r)]) : r \in Known})
      [] s = <<"users", "u1", "settings", "billing", "usage">> ->
            {Obj([usageItems |-> l]) : l \in Lists({Obj([repositoryName |-> Name("bare", Fork)])})}
      [] s = <<"search", "issues">> ->
            {Counted(l, "items", "total_count") : l \in Lists({Issue(r) : r \in Known})}
      [] s = <<"notifications", "threads", "1">> ->
            {Obj([repository |-> RepoRow(r), subject |-> Owned("issues", r)]) : r \in Known}
      [] s = <<"events">> ->
            Lists({Event(r, x) : r \in {Open, Secret}, x \in Optional({RepoRow(Fork)})})
      [] s = <<"user", "codespaces">> ->
            {Counted(l, "codespaces", "total_count") :
                l \in Lists({Obj([repository |-> RepoRow(r)]) : r \in Known})}
      [] s = <<"classrooms">> -> Lists({Obj([id |-> Words, name |-> Words])})
      [] s = <<"@", "o1", "pkg">> /\ method = "GET" -> UNION {Packument(r) : r \in Known}
      [] OTHER -> {}

\* The same below another repository, once with the method and once as a read.
\* Something of another kind there: for an archive, a list.
Elsewhere(s) ==
    IF Has(s, 3, 1, "repos")
    THEN {<<"repos", r[1], r[2]>> \o SubSeq(s, 4, Len(s)) : r \in {Open, Secret} \ {<<s[2], s[3]>>}}
    ELSE {}
Otherwise(s) == IF Has(s, 4, 4, "zipball") THEN {SubSeq(s, 1, 3) \o <<"forks">>} ELSE {}

MCMoved(s) ==
    [path: Elsewhere(s), keeps: BOOLEAN]
    \cup [path: Otherwise(s) \cup {<<"user", "repos">>}, keeps: {FALSE}]

(* ------------------------------------------------------------------------- *)
(* Requests                                                                  *)
(* ------------------------------------------------------------------------- *)

NoFields == {"repositories", "repo_names", "repository_names", "repository_owners",
             "selected_repository_ids"}
NoRequestBody == [f \in NoFields |-> {}]
WithBody(field, value) == [NoRequestBody EXCEPT ![field] = {value}]
FullBody(r) == [form |-> "full", owner |-> r[1], short |-> r[2]]

Ask(method, s, body, sides) ==
    [method |-> method, path |-> s, body |-> body, sides |-> sides, token |-> TRUE]
Get(s) == Ask("GET", s, NoRequestBody, {})

OpenPath(rest) == <<"repos", "o1", "open">> \o rest
OrgPath(rest) == <<"orgs", "o1">> \o rest
Analyses == <<"code-scanning", "codeql", "variant-analyses">>

ReadPaths ==
    {OpenPath(rest) : rest \in {<< >>, <<"forks">>, <<"pulls", "1">>, <<"check-runs", "1">>,
        <<"issues", "1", "timeline">>, Analyses \o <<"1">>, <<"zipball", "main">>,
        <<"issues">>, <<"unheard-of">>, <<"..", "secret">>}}
    \cup {OrgPath(rest) : rest \in {<<"issues">>, <<"migrations">>,
        <<"actions", "secrets", "s", "repositories">>, <<"attestations", "repositories">>,
        <<"copilot", "metrics">>, <<"copilot", "content_exclusion">>, <<"rulesets">>,
        <<"settings", "billing", "usage">>, <<"projectsV2", "1", "items">>, <<"unheard-of">>}}
    \cup {<<"agents", "repos", "o1", "open", "tasks">>, <<"agents", "tasks">>,
          <<"user", "repos">>, <<"user", "emails">>, <<"users", "u1", "starred">>,
          <<"users", "u1", "settings", "billing", "usage">>, <<"search", "issues">>,
          <<"notifications", "threads", "1">>, <<"events">>, <<"user", "codespaces">>,
          <<"user">>, <<"@", "o1", "pkg">>, <<"@", "o1", "pkg", "-", "1.tgz">>, <<"-", "whoami">>}

Comparisons ==
    {Ask("GET", OpenPath(<<"compare", "1">>), NoRequestBody, {side}) :
        side \in {[form |-> "owner", owner |-> "u1", short |-> "open"],
                  [form |-> "full", owner |-> "o1", short |-> "secret"]}}

Writes ==
    {Ask("PATCH", OpenPath(<<"pulls", "1">>), NoRequestBody, {}),
     Ask("POST", OpenPath(<<"forks">>), NoRequestBody, {}),
     Ask("DELETE", OpenPath(<< >>), NoRequestBody, {}),
     Ask("POST", <<"user", "repos">>, NoRequestBody, {}),
     Ask("POST", OrgPath(<<"teams">>), WithBody("repo_names", FullBody(Secret)), {}),
     Ask("POST", OrgPath(<<"migrations">>), WithBody("repositories", FullBody(Secret)), {}),
     Ask("PATCH", OrgPath(<<"properties", "values">>),
         WithBody("repository_names", [FullBody(Secret) EXCEPT !.form = "bare"]), {}),
     Ask("POST", OpenPath(Analyses), WithBody("repositories", FullBody(Secret)), {}),
     Ask("POST", OpenPath(Analyses), WithBody("repository_owners", "o1"), {}),
     Ask("PUT", OrgPath(<<"actions", "secrets", "s">>),
         WithBody("selected_repository_ids", Secret), {}),
     Ask("POST", OrgPath(<<"projectsV2", "1", "items">>), NoRequestBody, {}),
     Ask("POST", OrgPath(<<"artifacts", "metadata", "storage-record">>), NoRequestBody, {}),
     Ask("POST", OrgPath(<<"rulesets">>), NoRequestBody, {}),
     Ask("PUT", OrgPath(<<"teams", "t", "repos", "o1", "secret">>), NoRequestBody, {}),
     Ask("PUT", <<"user", "starred", "o1", "secret">>, NoRequestBody, {}),
     Ask("PUT", <<"@", "o1", "pkg">>, NoRequestBody, {})}

MCRequests ==
    {Get(s) : s \in ReadPaths} \cup Comparisons \cup Writes
    \cup {[Get(<<"user", "repos">>) EXCEPT !.method = "HEAD"],
          [Get(<<"user", "repos">>) EXCEPT !.token = FALSE]}

\* The endpoints whose template another template may take.
MCShadowed ==
    {Get(s) : s \in {OpenPath(<<"issues", "comments">>), OpenPath(<<"issues", "events">>),
                     OpenPath(<<"issues">>), <<"user", "codespaces">>}}

\* Their paths, and those that redirects lead to.
RequestPaths == {r.path : r \in MCRequests \cup MCShadowed} \cup {<<"user", "repos">>}
MCPaths == RequestPaths \cup UNION {Elsewhere(s) : s \in RequestPaths}

MCOnlyAll == {[mode |-> "allow", unscoped |-> CategoryGrant, org |-> OrgGrant, repo |-> << >>]}

==============================================================================
