------------------------------- MODULE ServeHTTP -------------------------------
(* One REST or npm request through the proxy (internal/proxy: ServeHTTP,      *)
(* serveNpm, EnforceRedirectPolicy, forward): authentication, the scopes of   *)
(* the request against the policy, the choice of what is done to the answer,  *)
(* the upstream with its redirects, and what the client is sent.  GraphQL     *)
(* requests branch off into what NodeGate models.                             *)
(*                                                                            *)
(* Policies come with the token, and the answer of the upstream is any that   *)
(* GitHub's description of the endpoint admits: both are constants.           *)
EXTENDS Classifier, RestTables

CONSTANTS
    Policies,         \* the policies that tokens and the socket can have
    Paths,            \* the paths of requests and of redirects
    Requests,         \* the requests that clients send
    MaxVia,           \* 10 in the code
    Upstream(_, _),   \* the bodies that may answer a method on a path
    Moved(_)          \* the redirects that may answer a path: where to, and
                      \* whether the request keeps its method (307, 308) or a
                      \* write becomes a read (301, 302, 303)

Repo == Owner \X Short

\* A request: the names that its body holds, by field, the two sides of a
\* comparison, and whether it carries a token of the store.
RequestBody ==
    [repositories: SUBSET BodyName, repo_names: SUBSET BodyName,
     repository_names: SUBSET BodyName, repository_owners: SUBSET Owner,
     selected_repository_ids: SUBSET Repo]
RequestSet ==
    [method: Method, path: Paths, body: RequestBody, sides: SUBSET SideSet, token: BOOLEAN]

ASSUME RedirectsBounded == MaxVia \in Nat \ {0}
ASSUME InputsTyped ==
    /\ Policies \subseteq PolicySet /\ Requests \subseteq RequestSet
    /\ Paths \subseteq Seq(STRING)
\* JSON: all but the whole lies below an object or an array.
IsJson(body) ==
    /\ << >> \in DOMAIN body /\ DOMAIN body \subseteq Seq(STRING)
    /\ \A p \in DOMAIN body : \A i \in 0..(Len(p) - 1) :
          LET q == SubSeq(p, 1, i) IN q \in DOMAIN body /\ body[q].kind \in {"obj", "arr"}

ASSUME AnswersAreJson ==
    \A m \in Method, s \in Paths : \A body \in Upstream(m, s) : IsJson(body)
ASSUME RedirectsTyped == \A s \in Paths : Moved(s) \subseteq [path: Paths, keeps: BOOLEAN]

\* What a path names is never taken for the absence of a name.
ASSUME NamesAreNoSentinels ==
    /\ NoRepo \notin [owner: STRING, short: STRING, casing: {"lower"}]
    /\ NoOrg \notin [owner: STRING, casing: {"lower"}]

VARIABLES
    mode,       \* "ghe" authenticates against the token store, "socket" does not
    pol,        \* the policy of the request
    req,        \* the request
    pc,         \* idle, upstream (forwarded, not answered yet), answered
    asked,      \* what the upstream is asked for, redirects followed
    hops,       \* redirects followed
    filter,     \* what will be done to the body
    answer,     \* the body the upstream sent
    status,     \* how the request ended
    sent        \* the body the client was sent

vars == <<mode, pol, req, pc, asked, hops, filter, answer, status, sent>>

(* ------------------------------------------------------------------------- *)
(* npm                                                                       *)
(* ------------------------------------------------------------------------- *)

\* A path of the registry starts with its scope, which the model writes as a
\* segment "@" before the owner; without one there is "-" (utilities).
IsRegistryPath(s) == s # << >> /\ s[1] \in {"@", "-"}

\* IsPackument: the scope and the name of a package, nothing else.
IsPackument(s) == Len(s) <= 3 /\ s[1] = "@"

\* The one scope of serveNpm.
PackageScope(s) == Scoped(OrgScope(s[2], "packages"), {})

(* ------------------------------------------------------------------------- *)
(* What is done to the answer                                                *)
(* ------------------------------------------------------------------------- *)

ReadableAs(p, res) == {r \in Repo : Evaluate(p, RepoScope(r[1], r[2], res), "read")}

\* canReadFor that asks for the endpoint's resource alone.
canReadResource(p, res) == ReadableAs(p, res)

\* canReadFor: the repositories whose metadata and whose resource are readable.
canReadFor(p, res) == ReadableAs(p, "metadata") \cap ReadableAs(p, res)

\* pathOwnerForScan: below /users the bare names are the user's.
pathOwnerForScan(s) == IF Has(s, 2, 1, "users") THEN s[2] ELSE NoOwner

\* The owner that completes a bare name: the scope's, or for a scan the path's.
ScopeOwner(c) == IF c.primary.org = NoOrg THEN NoOwner ELSE c.primary.org.owner
ScanOwner(c, s) == IF ScopeOwner(c) # NoOwner THEN ScopeOwner(c) ELSE pathOwnerForScan(s)

Plan(kind, owner) ==
    [kind |-> kind, owner |-> owner, locs |-> {}, scrub |-> {}, strings |-> {}, content |-> {}]
Stream == Plan("stream", NoOwner)
Deny == Plan("deny", NoOwner)

\* Unlocated that scans what names its repositories by numbers.
UnlocatedScanned(c, s) == Plan("scan", ScanOwner(c, s))

\* A path that scopes no repository and in whose answer the tables locate none.
Unlocated(c, s) ==
    CASE OnlyOpaqueIds(s) -> Deny
      [] MatchesAny(orgNamedRepoArrayOps, s) -> Plan("named", ScopeOwner(c))
      [] MatchesAny(nestedBareNameRepoOps, s) -> Plan("nested", ScopeOwner(c))
      [] MatchesAny(repoKeyedMapOps, s) -> Plan("keyed", ScopeOwner(c))
      [] OTHER -> UnlocatedScanned(c, s)

\* ReadPlan that streams what the description does not know.
ReadPlanOpen(c, s, found) == Stream

\* The block of ServeHTTP for GET and HEAD.
ReadPlan(c, s, found) ==
    LET redact == [Plan("redact", ScanOwner(c, s)) EXCEPT
                      !.locs = found.locs, !.scrub = LocsFor(repoScrubOps, s),
                      !.strings = LocsFor(repoStringArrayOps, s),
                      !.content = LocsFor(contentRepoScrubOps, s)]
    IN  IF found.dec = "NeedsFilter" \/ redact.scrub \cup redact.strings \cup redact.content # {}
        THEN redact
        ELSE IF HasRepo(c) THEN Stream
        ELSE IF found.dec = "Unknown" THEN Deny
        ELSE Unlocated(c, s)

\* WritePlan of the code before writes were filtered.
WritePlanNone(c, s, found) == Stream

\* The blocks of ServeHTTP for all other methods.
WritePlan(c, s, found) ==
    LET scrubbed == [Plan("write", NoOwner) EXCEPT
                        !.scrub = LocsFor(writeScrubOps, s),
                        !.content = LocsFor(contentRepoScrubOps, s)]
    IN  IF scrubbed.scrub \cup scrubbed.content # {} THEN scrubbed
        ELSE IF HasRepo(c) \/ found.dec = "NeedsFilter" THEN Stream
        ELSE Unlocated(c, s)

\* The scopes of a request, and the resource that governs what the answer holds
\* of each repository: of a feed by what it is made of.
ScopesOf(r) == Classify(r.method, r.path, r.body, r.sides)
ContentResource(r) ==
    LET own == ScopesOf(r).primary.res IN
    IF IsRead(r.method) THEN EnumContentResource(r.path, own) ELSE own

\* What may be done to the answer of a request, REST or for a package: for a
\* REST path, all that the tables may say of it.
Treatments(r) ==
    IF IsRegistryPath(r.path)
    THEN {IF r.method = "GET" /\ IsPackument(r.path) THEN Plan("packument", NoOwner) ELSE Stream}
    ELSE {IF IsRead(r.method) THEN ReadPlan(ScopesOf(r), r.path, found)
          ELSE WritePlan(ScopesOf(r), r.path, found) : found \in Lookup(r.path)}

\* The repositories that the answer may show: of a package's, those whose
\* metadata is readable.
Allowed(p, r) ==
    IF IsRegistryPath(r.path) THEN ReadableAs(p, "metadata")
    ELSE canReadFor(p, ContentResource(r))

\* HiddenTargets that lets every list of ids pass.
NoHiddenTargets(c, r, p) == FALSE

\* A write whose body names its repositories by number (BodyHasOpaqueRepoIDs),
\* under an organization with a repository that is not to be written.
HiddenTargets(c, r, p) ==
    /\ c.primary.repo = NoRepo /\ c.primary.org # NoOrg
    /\ ~IsRead(r.method) /\ r.body.selected_repository_ids # {}
    /\ AnyRepoDeniesWriteUnderOrg(p, c.primary.org, c.primary.res)

\* A body that is not of a JSON type: the scan leaves it alone, and every other
\* filter fails to parse it.
Raw == Leaf([kind |-> "raw"])

\* The answer with an error, and the others that fit no description.
Message == [p \in {<< >>, <<"message">>} |-> IF p = << >> THEN Object ELSE Text]
Odd == {Empty, Garbled, Raw, Message}

\* respFilter, applied to a body that is JSON or should be.
Filtered(f, allowed, body) ==
    LET redacted == Redact(body, f.locs, allowed)
        scrubbed == DropRepoStrings(Scrub(redacted, f.scrub, allowed), f.strings, allowed)
        located == ScrubDeniedContent(scrubbed, f.content, allowed)
    IN  CASE f.kind = "redact" -> Scanned(located, f.owner, allowed)
          [] f.kind = "write" -> located
          [] f.kind = "scan" -> Scanned(body, f.owner, allowed)
          [] f.kind = "named" -> RedactOrgNamedRepos(body, f.owner, allowed)
          [] f.kind = "nested" -> RedactNestedBareNameRepos(body, f.owner, allowed)
          [] f.kind = "keyed" -> RedactRepoKeyedMap(body, f.owner, allowed)
          [] f.kind = "packument" -> ScrubPackument(body, allowed)

\* What the client is sent of a body.
Apply(f, allowed, body) ==
    IF f.kind = "stream" \/ (f.kind = "scan" /\ body = Raw) THEN body
    ELSE Filtered(f, allowed, IF body = Raw THEN Garbled ELSE body)

(* ------------------------------------------------------------------------- *)
(* Actions                                                                   *)
(* ------------------------------------------------------------------------- *)

NoFilter == Stream
NoBody == Leaf([kind |-> "nothing"])

Init ==
    /\ mode \in {"ghe", "socket"}
    /\ pol \in Policies
    /\ req \in Requests
    /\ pc = "idle"
    /\ asked = req
    /\ hops = 0
    /\ filter = NoFilter
    /\ answer = NoBody /\ status = "none" /\ sent = NoBody

Finish(code, body) ==
    /\ pc' = "answered" /\ status' = code /\ sent' = body
    /\ UNCHANGED <<mode, pol, req>>

\* The request is sent to the upstream, and how its answer is treated is settled.
Forward(plan) ==
    /\ pc' = "upstream" /\ filter' = plan
    /\ UNCHANGED <<mode, pol, req, asked, hops, answer, status, sent>>

\* The request ends before it reaches the upstream.
Reject(code, body) ==
    /\ Finish(code, body)
    /\ UNCHANGED <<asked, hops, filter, answer>>

Unauthorized == mode = "ghe" /\ ~req.token
Synthetic ==
    /\ mode = "ghe" /\ req.token
    /\ req.method = "GET" /\ req.path \in {<< >>, <<"user">>}

\* HasDotSegment that knows "." only.
HasDotOnly(s) == \E i \in DOMAIN s : s[i] = "."

\* HasDotSegment: a segment that the upstream might resolve.
HasDotSegment(s) == \E i \in DOMAIN s : s[i] \in {".", ".."}

\* In GHE mode a request needs a token of the store.
RejectUnauthorized ==
    /\ pc = "idle" /\ Unauthorized
    /\ Reject("401", NoBody)

\* GET / and GET /user are answered by the proxy itself.
AnswerSynthetic ==
    /\ pc = "idle" /\ ~Unauthorized /\ Synthetic
    /\ Reject("200", Leaf(Text))

RejectDotSegment ==
    /\ pc = "idle" /\ ~Unauthorized /\ ~Synthetic /\ HasDotSegment(req.path)
    /\ Reject("400", NoBody)

Admitted == pc = "idle" /\ ~Unauthorized /\ ~Synthetic /\ ~HasDotSegment(req.path)

\* The REST path of ServeHTTP: the scopes, the plan, the refusals that come
\* with it, and the forwarding.
Receive ==
    /\ Admitted /\ ~IsRegistryPath(req.path)
    /\ \E plan \in Treatments(req) :
         IF /\ evaluateScopes(pol, ScopesOf(req), AccessOf(req.method))
            /\ plan # Deny /\ ~HiddenTargets(ScopesOf(req), req, pol)
         THEN Forward(plan) ELSE Reject("403", NoBody)

\* serveNpm: the scope's owner must grant packages, a path without one is
\* refused, and a packument that is read is scrubbed.
ReceiveNpm ==
    /\ Admitted /\ IsRegistryPath(req.path)
    /\ \E plan \in Treatments(req) :
         IF /\ req.path[1] = "@"
            /\ evaluateScopes(pol, PackageScope(req.path), AccessOf(req.method))
         THEN Forward(plan) ELSE Reject("403", NoBody)

NamesNothing(r) == r.body = [k \in DOMAIN r.body |-> {}]
Bodiless(r) == [r EXCEPT !.body = [k \in DOMAIN r.body |-> {}]]

\* The request that follows a redirect.
Hop(r, moved) ==
    [Bodiless(r) EXCEPT !.path = moved.path,
                        !.method = IF moved.keeps \/ IsRead(@) THEN @ ELSE "GET"]

\* MayFollow that asks for a repository on both sides only.
MayFollowRepos(hop) == HasRepo(ScopesOf(Bodiless(req))) /\ HasRepo(ScopesOf(hop))

\* MayFollow that takes what is redirected for a read.
MayFollowReads(hop) ==
    /\ HasRepo(ScopesOf(Bodiless(req))) /\ HasRepo(ScopesOf(hop))
    /\ evaluateScopes(pol, ScopesOf(hop), "read")

\* EnforceRedirectPolicy of a redirect to the same host: it is classified
\* without a body, must like the origin scope one repository, and be allowed.
MayFollow(hop) ==
    /\ HasRepo(ScopesOf(Bodiless(req))) /\ HasRepo(ScopesOf(hop))
    /\ evaluateScopes(pol, ScopesOf(hop), AccessOf(hop.method))

\* The requests sent before the proxy gives up, the first one among them.
WithinLimit == hops + 1 < MaxVia

\* NextHop that forgets to count.
SameHop(n) == n

\* One more redirect was followed.
NextHop(n) == n + 1

\* The client's http library follows a redirect, that of a write too, unless the
\* body would have to be sent again: the redirect then is the answer.  (A body
\* that names nothing may be empty.)
Redirect ==
    /\ pc = "upstream"
    /\ \E moved \in Moved(asked.path) :
         /\ moved.keeps => NamesNothing(asked)
         /\ IF WithinLimit /\ MayFollow(Hop(asked, moved))
            THEN /\ asked' = Hop(asked, moved) /\ hops' = NextHop(hops)
                 /\ UNCHANGED <<mode, pol, req, pc, filter, answer, status, sent>>
            ELSE Reject("502", NoBody)

\* What a refused body is answered with: the scan tells a denied repository from
\* a body that it cannot read.
Refusal(body) == IF filter.kind = "scan" /\ body # Garbled THEN "403" ELSE "502"

\* forward: the body is filtered, or refused when it cannot be.  A redirect to
\* another host is not checked, and serves what the path asked for.
Respond ==
    /\ pc = "upstream"
    /\ \E body \in Upstream(asked.method, asked.path) \cup Odd :
         LET out == Apply(filter, Allowed(pol, req), body) IN
         /\ answer' = body
         /\ IF out = Refused THEN Finish(Refusal(body), NoBody) ELSE Finish("200", out)
         /\ UNCHANGED <<asked, hops, filter>>

\* The response is longer than what the proxy reads to filter it: refused.
RespondTooLarge ==
    /\ pc = "upstream" /\ filter.kind # "stream"
    /\ Reject("502", NoBody)

\* The upstream does not answer.
UpstreamFails ==
    /\ pc = "upstream"
    /\ Reject("502", NoBody)

Next ==
    \/ RejectUnauthorized \/ AnswerSynthetic \/ RejectDotSegment
    \/ Receive \/ ReceiveNpm
    \/ Redirect \/ Respond \/ RespondTooLarge \/ UpstreamFails

\* The handler runs, and the upstream redirects, answers or times out.
Fairness == WF_vars(Next)

Spec == Init /\ [][Next]_vars
FairSpec == Spec /\ Fairness

(* ------------------------------------------------------------------------- *)
(* Properties                                                                *)
(* ------------------------------------------------------------------------- *)

TypeOK ==
    /\ mode \in {"ghe", "socket"} /\ pol \in Policies /\ req \in Requests
    /\ pc \in {"idle", "upstream", "answered"}
    /\ asked \in RequestSet /\ hops \in 0..(MaxVia - 1)
    /\ status \in {"none", "200", "400", "401", "403", "502"}
    /\ status = "none" <=> pc # "answered"

\* What GitHub takes a request to be about.  In the path, the two segments after
\* certain beginnings, and those of two endpoints more.
RepoPlaces ==
    {<<"repos">>, <<"agents", "repos">>, <<"teams", Wild, "repos">>,
     InOrg(<<"teams", Wild, "repos">>)}
NamedAfter(t, s) ==
    IF Len(s) >= Len(t) + 2 /\ matches(t, SubSeq(s, 1, Len(t)))
    THEN {<<s[Len(t) + 1], s[Len(t) + 2]>>} ELSE {}
Starred(s) ==
    IF matches(<<"user", "starred", Wild, Wild>>, s) THEN {<<s[3], s[4]>>} ELSE {}
Locked(s) ==
    IF matches(InOrg(<<"migrations", Wild, "repos", Wild, "lock">>), s)
    THEN {<<s[2], s[6]>>} ELSE {}
PathTargets(s) == (UNION {NamedAfter(t, s) : t \in RepoPlaces}) \cup Starred(s) \cup Locked(s)

\* In the body, the names in the field that the endpoint takes; the bare ones are
\* of the path's organization.
NamePlaces ==
    [repositories |-> {InOrg(<<"migrations">>), <<"user", "migrations">>, variantAnalysis},
     repo_names |-> {InOrg(<<"teams">>)},
     repository_names |-> {InOrg(<<"properties", "values">>)}]
BodyTargets(r) ==
    LET named(f) == IF MatchesAny(NamePlaces[f], r.path) THEN r.body[f] ELSE {}
        full == {n \in UNION {named(f) : f \in DOMAIN NamePlaces} : n.form = "full"}
        bare == {n \in named("repository_names") : n.form = "bare"}
    IN  IF r.method \notin {"POST", "PATCH", "PUT"} THEN {}
        ELSE {<<n.owner, n.short>> : n \in full} \cup {<<r.path[2], n.short>> : n \in bare}

\* And the organization's own among the numbers that select repositories for
\* something in one of its areas.
IdTargets(r) ==
    IF Has(r.path, 3, 1, "orgs") /\ r.path[3] \notin Indeterminate
    THEN {t \in r.body.selected_repository_ids : t[1] = r.path[2]} ELSE {}

Targets(r) == PathTargets(r.path) \cup BodyTargets(r) \cup IdTargets(r)

\* What a value tells: that a repository exists, or what belongs to it.
Shows(v) ==
    CASE v.kind \in {"str", "id"} -> {<<v.repo, "metadata">>}
      [] v.kind = "content" -> {<<v.repo, v.res>>}
      [] v.kind = "keyed" -> {<<w.repo, "metadata">> : w \in v.names}
      [] OTHER -> {}

Disclosed(body) == UNION {Shows(body[p]) : p \in DOMAIN body}

MayRead(d) == Evaluate(pol, RepoScope(d[1][1], d[1][2], d[2]), "read")

\* The repository of a name in the path or, at an endpoint that takes it, in the
\* body: that it exists the client did not learn from the answer.
AskedFor(d) ==
    /\ d[2] = "metadata"
    /\ \/ \E i \in 2..(Len(asked.path) - 1) : d[1] = <<asked.path[i], asked.path[i + 1]>>
       \/ d[1] \in BodyTargets(req)

\* What a field holds that the client linked by a node id: it is there if the
\* client may read the repository's metadata, whatever else may be denied there
\* (ScrubDeniedContent asks no more).
Linked(d) == filter.content # {} /\ MayRead(<<d[1], "metadata">>)

\* No redirect has changed what is to be done to the answer: it is what the
\* tables may say of what is asked now (but for the owner that completes bare
\* names), and the same resource governs the content.
KeptShape ==
    /\ \E t \in Treatments(asked) : filter = [t EXCEPT !.owner = filter.owner]
    /\ ContentResource(asked) = ContentResource(req)

\* What proxy.go says of EnforceRedirectPolicy: "A same-host redirect must not
\* change the response-FILTER shape the proxy already fixed for the REQUESTED
\* endpoint", and what is refused costs "availability on exotic same-host
\* redirects ..., never a leak": wherever a redirect that is followed leads, a
\* body that reaches the client tells nothing that its policy does not let it read.
RedirectsLeakNothing ==
    status = "200" => \A d \in Disclosed(sent) : MayRead(d) \/ AskedFor(d) \/ Linked(d)

\* Whatever endpoint is asked, in whatever repository its redirects end, a body
\* that reaches the client tells nothing of a repository that its policy does not
\* let it read there: the scopes of the request, the tables and the filters of
\* ServeHTTP, the redirect check and forward together leave no gap between them.
\* What a redirect to another kind of endpoint tells is not claimed: it is not
\* refused, as RedirectsLeakNothing shows.
NamesStayHidden == KeptShape => RedirectsLeakNothing

\* Where Redact, Scrub, DropRepoStrings and ScrubDeniedContent look for the
\* repository of what lies at p, and the filters of rows with bare names and of
\* packuments.
InLocations(body, p, repo, locs) ==
    \E l \in locs :
        IF IsArrayLoc(l)
        THEN \E row \in ElementsAt(body, RowsAt(l)) :
                IsPrefix(row, p) /\ repo \in readRepo(body, row, InRow(l))
        ELSE repo \in readRepo(body, << >>, l)
InScrubbed(body, p, repo, locs) ==
    \E l \in locs : \E t \in ScrubbedAt(body, l) : IsPrefix(t, p) /\ repo \in Told(body, t, l.name)
InStrings(body, p, repo, locs) ==
    p \in UNION {StringsAt(body, l) : l \in locs} /\ repo \in NamedBy(body[p], {"full"})
InContent(body, p, repo, fields) ==
    \E t \in ContentAt(body, fields) : IsPrefix(t, p) /\ repo \in MarkedRepos(body, t)
InNamedRow(body, p, repo, owner, lists) ==
    \E a \in lists : \E row \in Below(body, a) :
        /\ IsPrefix(row, p) /\ BareNamed(body, row)
        /\ repo = <<owner, Field(body, row, "name").repo[2]>>
InBacking(body, p, repo) ==
    \E k \in {"repository", "bugs", "homepage"} : \E t \in Fields(body, k) :
        IsPrefix(t, p) /\ repo \in backingRepo(body, t)

LooksAt(f, body, p, repo) ==
    CASE f.kind = "redact" -> \/ InLocations(body, p, repo, f.locs)
                              \/ InScrubbed(body, p, repo, f.scrub)
                              \/ InStrings(body, p, repo, f.strings)
                              \/ InContent(body, p, repo, f.content)
      [] f.kind = "write" -> InScrubbed(body, p, repo, f.scrub) \/ InContent(body, p, repo, f.content)
      [] f.kind = "scan" -> repo \in NamedRepos(body, f.owner)
      [] f.kind = "named" -> InNamedRow(body, p, repo, f.owner, OrgLists(body))
      [] f.kind = "nested" -> InNamedRow(body, p, repo, f.owner, NestedLists(body))
      [] f.kind = "keyed" -> \A w \in body[p].names : w.repo = repo => repo \in Qualified(w, f.owner)
      [] f.kind = "packument" -> InBacking(body, p, repo)
      [] OTHER -> FALSE

\* The resources by which the filter judges a repository; of what the client
\* linked it judges any.
Judged(f, r) ==
    IF IsRegistryPath(r.path) THEN {"metadata"} ELSE {"metadata", ContentResource(r)}

\* The scopes of what the upstream is asked for, after redirects too.
OwnScopes ==
    IF IsRegistryPath(asked.path) THEN AllScopes(PackageScope(asked.path))
    ELSE AllScopes(ScopesOf(asked))

\* The tables are complete: whatever an answer of the upstream tells belongs to
\* a scope that was granted, to a name in the request, or lies where the
\* treatment that the tables chose will look for its repository, as long as the
\* redirects lead to the same kind of endpoint.
TreatmentFits ==
    pc = "upstream" /\ KeptShape =>
        \A body \in Upstream(asked.method, asked.path) : \A p \in DOMAIN body : \A d \in Shows(body[p]) :
            \/ RepoScope(d[1][1], d[1][2], d[2]) \in OwnScopes
            \/ AskedFor(d)
            \/ LooksAt(filter, body, p, d[1]) /\ d[2] \in Judged(filter, req)
            \/ InContent(body, p, d[1], filter.content)

\* Every count in the body is the number of rows that it stands beside.
CountsMatch(body) ==
    \A c \in Fields(body, "total_count") \cup Fields(body, "repository_count") :
        \E a \in Below(body, Front(c)) :
            IsArray(body, a) /\ Cardinality(Below(body, a)) = body[c].n

\* A count never tells how many rows of denied repositories were dropped
\* (Redact, descendGroup, DropRepoStrings).
CountsStayHidden ==
    status = "200" /\ answer # NoBody /\ CountsMatch(answer) => CountsMatch(sent)

\* A template with a wildcard takes a path that has a template of its own.
Shadowed(s) == \E e \in repoEnumOps : matches(e.path, s) /\ e.path # s
                   /\ \E t \in knownGetOps : matches(t, s) /\ t # e.path

\* The answer, as it is when nothing needs to go: a packument's links lead back
\* through the proxy (rewriteRegistryURL).
Untouched == IF filter.kind = "packument" THEN Edit(answer, {}, Rewritten(answer)) ELSE answer

Described == answer \notin Odd \cup {NoBody} /\ \A d \in Disclosed(answer) : MayRead(d)

\* The filters only take away what is denied: an answer of the described shape,
\* all of which the policy lets the client read, arrives as it was sent, unless
\* two templates compete for the path or a redirect led to another kind of one.
NothingReadableIsLost == Described /\ KeptShape /\ ~Shadowed(asked.path) => sent = Untouched

\* The same of every endpoint, as the package comment of restfilter says it: "For
\* a recognized endpoint the filter walks the response to the repository locations
\* the spec gives and drops denied array elements".
DescribedEndpointsAnswer == Described => sent = Untouched

Forwarded == pc = "upstream" \/ answer # NoBody

\* A write that is forwarded, or redirected as a write, reaches no repository that
\* the policy does not let the client write, however the request names it
\* (bodyNamedRepoScopes, pathEmbeddedRepoScopes, BodyHasOpaqueRepoIDs).
WritesReachOnlyWritable ==
    Forwarded /\ ~IsRead(asked.method) =>
        \A t \in Targets(asked) :
            \E res \in {"metadata", ScopesOf(asked).primary.res} \cup BodyResource(asked.path) :
                Evaluate(pol, RepoScope(t[1], t[2], res), "write")

\* Every request is answered: redirects that go round in circles end, and what
\* cannot be filtered is refused rather than held.
EveryRequestIsAnswered == <>(pc = "answered")

==============================================================================
