------------------------------ MODULE RestTables ------------------------------
(* The tables of the response filter (internal/restfilter): which endpoints   *)
(* show repositories and where, and which need a treatment of their own.  A   *)
(* template is a path in which Wild ("{}" in the code) stands for one segment. *)
(* Of the generated table there is an endpoint for every list of locations,   *)
(* since endpoints with the same list differ in nothing but their path; the   *)
(* tables that are maintained by hand are complete, their like endpoints      *)
(* written once.                                                              *)
EXTENDS RestFilter

\* repos/{owner}/{repo} with what follows, and what lies below an owner.
InRepo(rest) == <<"repos", Wild, Wild>> \o rest
InOrg(rest) == <<"orgs", Wild>> \o rest
InUser(rest) == <<"users", Wild>> \o rest

Rows(fields) == <<"[]">> \o fields
RowsOf(array, fields) == <<array, "[]">> \o fields
FullName == <<"full_name">>
RepositoryName == <<"repository", "full_name">>

(* ------------------------------------------------------------------------- *)
(* The generated tables                                                      *)
(* ------------------------------------------------------------------------- *)

Entry(path, locs) == [path |-> path, locs |-> locs]

eventLocs == {Rows(<<"payload", "issue", "repository", "full_name">>), Rows(<<"repo", "name">>)}
skippedBucket(b) ==
    <<"skipped_repositories", b, "repositories", "[]", "full_name">>
variantAnalysis ==
    InRepo(<<"code-scanning", "codeql", "variant-analyses">>)

\* repoEnumOps: where the repositories are.
repoEnumOps ==
    {Entry(<<"user", "repos">>, {Rows(FullName)}),
     Entry(InOrg(<<"repos">>), {Rows(FullName)}),
     Entry(InRepo(<<"forks">>), {Rows(FullName)}),
     Entry(InUser(<<"starred">>), {Rows(FullName), Rows(<<"repo", "full_name">>)}),
     Entry(InOrg(<<"issues">>), {Rows(RepositoryName)}),
     Entry(InRepo(<<"issues">>), {Rows(RepositoryName)}),
     Entry(InRepo(<<"issues", Wild>>), {RepositoryName}),
     Entry(InRepo(<<"issues", "events">>), {Rows(<<"issue", "repository", "full_name">>)}),
     Entry(InRepo(<<"issues", "events", Wild>>), {<<"issue", "repository", "full_name">>}),
     Entry(<<"search", "repositories">>, {RowsOf("items", FullName)}),
     Entry(<<"search", "issues">>, {RowsOf("items", RepositoryName)}),
     Entry(InOrg(<<"actions", "secrets", Wild, "repositories">>),
           {RowsOf("repositories", FullName)}),
     Entry(InOrg(<<"actions", "cache", "usage-by-repository">>),
           {RowsOf("repository_cache_usages", FullName)}),
     Entry(InOrg(<<"dependabot", "repository-access">>),
           {RowsOf("accessible_repositories", FullName)}),
     Entry(<<"user", "codespaces">>, {RowsOf("codespaces", RepositoryName)}),
     Entry(<<"user", "codespaces", Wild>>, {RepositoryName}),
     Entry(InRepo(<<"actions", "runs">>), {RowsOf("workflow_runs", RepositoryName)}),
     Entry(InRepo(<<"commits", Wild, "check-suites">>), {RowsOf("check_suites", RepositoryName)}),
     Entry(InOrg(<<"migrations">>), {<<"[]", "repositories", "[]", "full_name">>}),
     Entry(<<"notifications">>, {Rows(RepositoryName)}),
     Entry(<<"notifications", "threads", Wild>>, {RepositoryName}),
     Entry(<<"events">>, eventLocs),
     Entry(InOrg(<<"security-advisories">>), {Rows(<<"private_fork", "full_name">>)}),
     Entry(InRepo(<<"security-advisories", Wild>>), {<<"private_fork", "full_name">>}),
     Entry(InRepo(<< >>), {FullName}),
     Entry(<<"assignments", Wild>>, {<<"starter_code_repository", "full_name">>}),
     Entry(<<"assignments", Wild, "accepted_assignments">>,
           {Rows(<<"assignment", "classroom", "name">>), Rows(RepositoryName)}),
     Entry(<<"classrooms">>, {Rows(<<"name">>)}),
     Entry(<<"classrooms", Wild, "assignments">>, {Rows(<<"classroom", "name">>)}),
     Entry(variantAnalysis \o <<Wild>>,
           {<<"controller_repo", "full_name">>,
            RowsOf("scanned_repositories", RepositoryName)} \cup
           {skippedBucket(b) :
               b \in {"access_mismatch_repos", "no_codeql_db_repos", "over_limit_repos"}})}

\* knownGetOps: endpoints of GitHub's description; of those that no table is
\* about, one of every kind that the proxy tells apart.
knownGetOps ==
    {e.path : e \in repoEnumOps} \cup
    {<<"user", "emails">>, <<"rate_limit">>, <<"user", "codespaces", "secrets">>,
     InRepo(<<"pulls">>), InRepo(<<"pulls", Wild>>), InRepo(<<"compare", Wild>>),
     InRepo(<<"issues", "comments">>), InRepo(<<"issues", Wild, "timeline">>),
     InRepo(<<"zipball", Wild>>), InRepo(<<"check-runs", Wild>>),
     InOrg(<<"settings", "billing", "usage">>), InUser(<<"settings", "billing", "usage">>),
     InOrg(<<"rulesets">>), InOrg(<<"rulesets", "rule-suites">>), InOrg(<<"teams">>),
     InOrg(<<"actions", "secrets", Wild>>), InOrg(<<"attestations", Wild>>),
     InOrg(<<"attestations", "repositories">>), InOrg(<<"copilot", "metrics">>),
     InOrg(<<"copilot", "content_exclusion">>), <<"agents", "tasks">>,
     InOrg(<<"projectsV2", Wild, "items">>), InOrg(<<"projectsV2", Wild, "items", Wild>>)}

\* Lookup: what the tables say of a path.  Where two templates match, the first
\* wins in an order that the process draws when it starts (map iteration).
Lookup(path) ==
    LET found == {e \in repoEnumOps : matches(e.path, path)} IN
    IF found # {} THEN {[dec |-> "NeedsFilter", locs |-> e.locs] : e \in found}
    ELSE IF \E t \in knownGetOps : matches(t, path) THEN {[dec |-> "Pass", locs |-> {}]}
    ELSE {[dec |-> "Unknown", locs |-> {}]}

(* ------------------------------------------------------------------------- *)
(* Scrubs                                                                    *)
(* ------------------------------------------------------------------------- *)

upstreamLocs ==
    {ScrubLoc(<< >>, f, FullName) : f \in {"parent", "source", "template_repository"}}
pullLocs(to) == {ScrubLoc(to \o <<side>>, "repo", FullName) : side \in {"head", "base"}}
checkLocs(to) ==
    {ScrubLoc(to \o <<"pull_requests", "[]", side>>, "repo", <<"url">>) : side \in {"head", "base"}}
runLocs(to) == checkLocs(to) \cup {ScrubLoc(to, "head_repository", FullName)}

\* eventForeignRepoLocs: the fork, and the two sides of a pull request.
eventForeignRepoLocs ==
    {ScrubLoc(<<"[]", "payload">>, "forkee", FullName)}
    \cup pullLocs(<<"[]", "payload", "pull_request">>)

\* Of a table of [paths, locs], the locations for a path.
LocsFor(table, path) ==
    UNION {e.locs : e \in {x \in table : \E t \in x.paths : matches(t, path)}}

\* repoScrubOps: objects of other repositories in what is read.
repoScrubOps ==
    {[paths |-> {InRepo(<<"issues", Wild, "timeline">>)},
      locs |-> {ScrubLoc(<<"[]">>, "source", <<"issue", "repository", "full_name">>)}],
     [paths |-> {InRepo(<< >>)}, locs |-> upstreamLocs],
     [paths |-> {InRepo(<<"pulls">>), InRepo(<<"commits", Wild, "pulls">>)},
      locs |-> pullLocs(<<"[]">>)],
     [paths |-> {InRepo(<<"pulls", Wild>>)}, locs |-> pullLocs(<< >>)],
     [paths |-> {InRepo(<<"check-runs", Wild>>), InRepo(<<"check-suites", Wild>>)},
      locs |-> checkLocs(<< >>)],
     [paths |-> {InRepo(<<"check-suites", Wild, "check-runs">>),
                 InRepo(<<"commits", Wild, "check-runs">>)},
      locs |-> checkLocs(<<"check_runs", "[]">>)],
     [paths |-> {InRepo(<<"commits", Wild, "check-suites">>)},
      locs |-> checkLocs(<<"check_suites", "[]">>)],
     [paths |-> {InRepo(<<"actions", "runs">>), InRepo(<<"actions", "workflows", Wild, "runs">>)},
      locs |-> runLocs(<<"workflow_runs", "[]">>)],
     [paths |-> {InRepo(<<"actions", "runs", Wild>>),
                 InRepo(<<"actions", "runs", Wild, "attempts", Wild>>)},
      locs |-> runLocs(<< >>)],
     [paths |-> {<<"events">>, <<"networks", Wild, Wild, "events">>, InOrg(<<"events">>),
                 InRepo(<<"events">>), InUser(<<"events">>), InUser(<<"events", "orgs", Wild>>),
                 InUser(<<"events", "public">>), InUser(<<"received_events">>),
                 InUser(<<"received_events", "public">>)},
      locs |-> eventForeignRepoLocs]}

\* writeScrubOps: the same objects in the answer to a write.
writeScrubOps ==
    {[paths |-> {InRepo(<< >>), InRepo(<<"forks">>), InRepo(<<"security-advisories", Wild, "forks">>),
                 InOrg(<<"repos">>), <<"user", "repos">>, InRepo(<<"generate">>)},
      locs |-> upstreamLocs],
     [paths |-> {InRepo(<<"pulls">>), InRepo(<<"pulls", Wild>>),
                 InRepo(<<"pulls", Wild, "requested_reviewers">>)},
      locs |-> pullLocs(<< >>)],
     [paths |-> {<<"user", "codespaces", Wild, "publish">>},
      locs |-> {[l EXCEPT !.to = <<"repository">>] : l \in upstreamLocs}],
     [paths |-> {InRepo(<<"check-runs">>), InRepo(<<"check-runs", Wild>>), InRepo(<<"check-suites">>)},
      locs |-> checkLocs(<< >>)]}

\* contentRepoScrubOps: fields with what the client linked by a node id.
contentRepoScrubOps ==
    {[paths |-> (UNION {{owner \o <<"projectsV2", Wild, "items">>,
                        owner \o <<"projectsV2", Wild, "items", Wild>>,
                        owner \o <<"projectsV2", Wild, "views", Wild, "items">>} :
                       owner \in {InOrg(<< >>), InUser(<< >>)}})
                \cup {InOrg(<<"projectsV2", Wild, "drafts">>),
                      <<"user", Wild, "projectsV2", Wild, "drafts">>},
      locs |-> {"content"}],
     [paths |-> {variantAnalysis}, locs |-> {"scanned_repositories", "skipped_repositories"}],
     [paths |-> {<<"user", "codespaces">>, <<"user", "codespaces", Wild>>}
                \cup UNION {{<<"user", "codespaces", Wild, verb>>,
                             InOrg(<<"members", Wild, "codespaces", Wild, verb>>)} :
                            verb \in {"start", "stop"}},
      locs |-> {"repository"}]}

\* repoStringArrayOps: lists of plain names.
repoStringArrayOps ==
    {[paths |-> {variantAnalysis \o <<Wild>>},
      locs |-> {[container |-> <<"skipped_repositories", "not_found_repos">>,
                 array |-> "repository_full_names", count |-> "repository_count"]}]}

(* ------------------------------------------------------------------------- *)
(* Resources, opaque ids, bare names                                         *)
(* ------------------------------------------------------------------------- *)

dependencyFeeds ==
    {InRepo(<<"issues", Wild, "dependencies", side>>) : side \in {"blocked_by", "blocking"}}

\* contentEnumResourceOps, by the key that governs the content of a feed.
contentEnumResourceOps ==
    [issues |->
        {<<"issues">>, <<"user", "issues">>, InOrg(<<"issues">>), InRepo(<<"issues">>),
         InRepo(<<"issues", "events">>), InRepo(<<"issues", Wild, "sub_issues">>),
         <<"search", "issues">>, <<"notifications">>, <<"notifications", "threads", Wild>>,
         InRepo(<<"notifications">>), <<"events">>, <<"networks", Wild, Wild, "events">>,
         InOrg(<<"events">>), InRepo(<<"events">>), InUser(<<"events">>),
         InUser(<<"events", "public">>), InUser(<<"events", "orgs", Wild>>),
         InUser(<<"received_events">>), InUser(<<"received_events", "public">>)}
        \cup dependencyFeeds,
     contents |-> {<<"search", "code">>},
     commits |-> {<<"search", "commits">>},
     actions |-> {InRepo(<<"actions", "runs">>), InRepo(<<"actions", "workflows", Wild, "runs">>)},
     checks |-> {InRepo(<<"commits", Wild, "check-suites">>)}]

\* EnumContentResource that leaves every feed to the resource of its path.
EnumContentResourceOfPath(path, res) == res

\* EnumContentResource: the feed's key, or the one of the path.
EnumContentResource(path, res) ==
    LET own == {r \in DOMAIN contentEnumResourceOps :
                   \E t \in contentEnumResourceOps[r] : matches(t, path)}
    IN  IF own # {} THEN CHOOSE r \in own : TRUE ELSE res

\* opaqueRepoIDOps: repositories by nothing but a number.
opaqueRepoIDOps ==
    {<<"agents", "tasks">>, <<"agents", "tasks", Wild>>,
     <<"app", "hook", "deliveries">>, <<"app", "hook", "deliveries", Wild>>,
     InOrg(<<"hooks", Wild, "deliveries">>), InOrg(<<"hooks", Wild, "deliveries", Wild>>),
     InOrg(<<"attestations", Wild>>), InUser(<<"attestations", Wild>>),
     InOrg(<<"rulesets">>), InOrg(<<"rulesets", Wild>>),
     InOrg(<<"rulesets", Wild, "history">>), InOrg(<<"rulesets", Wild, "history", Wild>>)}
    \cup UNION {{owner \o <<"copilot-spaces">>, owner \o <<"copilot-spaces", Wild>>,
                 owner \o <<"copilot-spaces", Wild, "resources">>,
                 owner \o <<"copilot-spaces", Wild, "resources", Wild>>} :
                owner \in {InOrg(<< >>), InUser(<< >>)}}

orgNamedRepoArrayOps == {InOrg(<<"attestations", "repositories">>)}
nestedBareNameRepoOps ==
    {InOrg(<<"copilot", "metrics">>), InOrg(<<"team", Wild, "copilot", "metrics">>)}
repoKeyedMapOps == {InOrg(<<"copilot", "content_exclusion">>)}

MatchesAny(templates, path) == \E t \in templates : matches(t, path)

\* HasOpaqueRepoID as ServeHTTP asks it: the endpoints whose names can be
\* redacted are not lost to a template with a wildcard.
OnlyOpaqueIds(path) ==
    /\ MatchesAny(opaqueRepoIDOps, path)
    /\ ~MatchesAny(orgNamedRepoArrayOps \cup nestedBareNameRepoOps, path)

(* ------------------------------------------------------------------------- *)
(* How the tables fit together                                               *)
(* ------------------------------------------------------------------------- *)

\* Two templates that some path matches both.
Compete(t, u) == Len(t) = Len(u) /\ \A i \in DOMAIN t : t[i] = u[i] \/ Wild \in {t[i], u[i]}

ScrubTables == repoScrubOps \cup writeScrubOps

ASSUME TablesTyped ==
    /\ \A e \in repoEnumOps : e.path \in Seq(STRING) /\ e.locs \subseteq Seq(STRING)
    /\ \A x \in ScrubTables : x.paths \subseteq Seq(STRING) /\ \A l \in x.locs :
          l.to \in Seq(STRING) /\ l.name \in Seq(STRING) /\ l.field \in STRING
    /\ \A x \in contentRepoScrubOps : x.paths \subseteq Seq(STRING)
    /\ \A x \in repoStringArrayOps : x.paths \subseteq Seq(STRING) /\ \A l \in x.locs :
          l.container \in Seq(STRING) /\ l.array \in STRING

\* The filters of one answer do not take from each other what they look at: no
\* rows lie within what is scrubbed, nor within what a content field holds, and
\* an endpoint with content fields has no other scrubs.
ASSUME TablesAreApart ==
    /\ \A e \in repoEnumOps, x \in repoScrubOps : \A l \in e.locs, m \in x.locs :
          IsArrayLoc(l) => ~IsPrefix(Append(m.to, m.field), Append(RowsAt(l), "[]"))
    /\ \A e \in repoEnumOps, x \in contentRepoScrubOps : \A l \in e.locs, t \in x.paths :
          IsArrayLoc(l) /\ Compete(e.path, t) =>
              \A i \in DOMAIN RowsAt(l) :
                  (\A j \in 1..(i - 1) : RowsAt(l)[j] = "[]") => RowsAt(l)[i] \notin x.locs
    /\ \A x \in contentRepoScrubOps : \A t \in x.paths :
          \A u \in (UNION {y.paths : y \in ScrubTables}) \cup UNION {y.paths : y \in repoStringArrayOps} :
              ~Compete(t, u)

==============================================================================
