# A verification development of bgh-proxy

bgh-proxy stands between `gh` (or any GitHub API client) and GitHub. It holds one
GitHub credential, the *custodian*, and hands out *proxy tokens*, each with a policy
that says which repositories, organizations and account data it may read or write.
Clients sign in as they would at GitHub; what the custodian could do and the policy
forbids never leaves the proxy.

This directory holds TLA+ modules of the parts where that promise is made, TLC
configurations that check them on small instances, and TLAPS proofs of the most
important results for every instance. Everything is translated from the Go code;
`PROJECT.json` maps each definition to the lines it stands for.

    tlc -workers 2 -config LoginGrants_one.cfg MCLoginGrants      # one run
    tlapm LoginGrantsProofs.tla                                   # one set of proofs

## 1. Inventory of the system

### 1.1 Components

| Component | Source | State | Operations | Here |
|---|---|---|---|---|
| Login grants | `internal/loginflow/loginflow.go`, `grants.go` | `grantStore.grants`: a record per sign-in under one mutex, fifteen minutes of life, at most `maxLiveGrants`; a goroutine and a cancel function per attempt | `deviceCode`, `authorizePageWeb`, `apiStartStandalone`, `apiBegin`, `runGitHubAuth`, `apiApprove`, `accessToken`, `denyGrant`, `sweepLoop` | `LoginGrants` |
| Console sessions | `console.go` 22-131, 385-395 | map session id to login, thirty minutes | `apiSession`, `sessionLogin`, `apiLogout`, sweep | `Console` |
| Rate limiter | `grants.go` 188-234 | counters per address, reset on a ticker | `allow` | `Console` |
| Owner store | `internal/owner/owner.go` | `Record` (login, custodian token), the seeded fallback and its login; `owner.json` | `Open`, `SignIn`, `SetFallbackOwner`, readers | `OwnerStore` |
| Token store | `internal/store/store.go`, `internal/web/web.go` | slice of hashed tokens with their policies; `tokens.json` rewritten as a whole | `Create`, `Revoke`, `Delete`, `Lookup`, `TouchLastUsed`, `Open` | `TokenStore` |
| Policy engine | `internal/policy/policy.go` | none (a policy is a value) | `Evaluate`, `AllowsAnyWrite`, `AllowsAnyRead`, `CanReadAnything`, `AnyRepoDeniesWriteUnderOrg`, `ValidateResourceKeys` | `Policy` |
| Token policies | `cmd/bgh-proxy/main.go` (`tokenCreate`), `internal/loginflow/console.go` | the policy on its way from flags or JSON to `tokens.json` and back | flags, `ensureLoginUsable`, `omitempty` | `TokenPolicy` |
| Request classifier | `internal/classifier` | none | `Classify`, REST and GraphQL | REST in `Classifier`; the GraphQL result is an input |
| Forwarding, redirects | `proxy.go` | a request on its way | `ServeHTTP`, `forward`, `EnforceRedirectPolicy` | `ServeHTTP` |
| REST response decisions | `proxy.go` 306-548, `internal/restfilter` | none | which filter, scan or refusal an endpoint gets; `Redact`, `Scrub`, `DropRepoStrings`, `ScrubDeniedContent`, the body scan, bare names | `ServeHTTP`, `RestFilter` |
| OpenAPI tables | `openapi_table.go`, `content_resource.go`, `opaque_repo.go`, ... | maps built at start | `Lookup` and the tables maintained by hand | `RestTables` |
| npm proxy | `internal/npm`, `serveNpm` | none | the packument filter | `ServeHTTP`, `RestFilter` |
| Node resolution and cache | `proxy.go`, `internal/nodecache` | shared map node id to repository with expiry and a capacity | `resolveNodeScopes`, `resolveFromGitHub`, `Get`, `Put`, `evictLoop`, `evaluateScopes` | `NodeGate` |
| GraphQL response filter | `internal/gqlfilter`, `filterGraphQLResponse` | none | `Augment`, `FilterWithDecision`, `RedactDeniedOwnerPrivate` | the decision, in `NodeGate` |
| Audit log | `internal/audit` | channel of 1024, dropped counter, the file | `Log`, `writer` | `AuditLog` |
| GitHub device flow | `internal/oauth` | the poll interval | `DeviceFlow` | its outcomes, in `LoginGrants` |
| Admin secret, config, TLS, table generator | `internal/auth`, `config`, `tlsgen`, `restfilter/gen` | files read once | | not modelled |

### 1.2 How they interact

* `deviceCode` (from `gh`), `authorizePageWeb` or `apiStartStandalone` (from a browser)
  add a grant. `apiBegin` starts a **goroutine** (`runGitHubAuth`) that runs GitHub's own
  device flow, finds out who signed in, and calls `owner.SignIn`; it takes the grant
  store's lock only for single updates and shares the grant with every HTTP handler.
* `apiApprove` reserves the grant, unlocks, calls `store.Create`, and takes the lock again
  to leave the secret there for `accessToken` to collect.
* `ServeHTTP` looks the token up, classifies the request, resolves node ids through the
  shared cache or at GitHub with the custodian token, asks the policy about every scope,
  forwards with the custodian token **read again**, and redacts the response. What is done
  to a REST answer is decided before the request is forwarded, from the path that was
  asked; redirects on the same host, of reads and of writes, may move the request after
  that.
  `TouchLastUsed` runs in a goroutine of its own.
* Every handler logs into the audit channel and never waits; one goroutine writes.
* A console session comes of an authenticated standalone grant, and of the cookie that
  binds it to the browser; from then on the two live apart.
* `owner.json` and `tokens.json` are written before or after the memory changes, in an
  order that differs between the two stores; the process may stop in between.

### 1.3 What is hard to test here

Interleavings of handlers that take one lock several times (approval, start, sign-in);
goroutines that outlive the grant, the retry or the process that started them; failed or
half-done writes followed by restarts; a cache filled by one token's requests and read by
another's; short cuts (`AllowsAnyWrite`, `CanReadAnything`, promotion of scopes) that must
agree with the full decision for *every* policy; flags in any order over Go's random
map iteration; tables of endpoints that must agree with each other, with the classifier
and with the choice of filter; a channel at its limit, whose drops must show; sessions
that outlive what they came from; and a ticker that may be late. The list, with the line
where each bites and the property that watches it, is `hazards` in `PROJECT.json`.

### 1.4 What makes each part correct

* *Login grants*: a sign-in mints at most one token; only the browser that started it can
  approve it; the secret is handed over at most once and, once minted, is never lost while
  the grant lives; a reservation is always resolved; every usable grant was authenticated
  as the one owner.
* *Owner store*: the deployment is claimed once; a seeded deployment only by the seed's
  account; the custodian is always that account's.
* *Token store*: what was reported revoked stays so; what was handed out stays valid; what
  failed leaves nothing.
* *Policy*: the short cuts agree with `Evaluate`; minting, flags and persistence keep its
  meaning.
* *REST*: whatever endpoint is asked, in whatever repository its redirects end, no body
  tells of a repository the policy denies, since the tables look wherever an answer may tell
  of one; nothing readable is lost, no count gives away what was dropped, and no write,
  redirected or not, reaches a repository that may not be written.
* *Console*: a browser manages tokens only on a sign-in of its own, and no longer than a
  session after it (and the moment between its check and the session); a session holds for
  its time, and no longer.
* *Audit log*: nothing is lost unseen, nothing is out of order, drops are reported.
* *Node gate*: writes only reach repositories the policy lets them write, reads only show
  what it lets them read, however stale the cache is.

## 2. Modules

| Module | What it is | Notes |
|---|---|---|
| `LoginGrants` | grants, requests in flight, attempts, cookies, owner, minted tokens | one action per critical section |
| `SignInTickets` | the abstract promise: one-shot tickets | implemented by `LoginGrants` |
| `OwnerStore` | memory, file and the sign-in goroutines before and in `SignIn` | |
| `Ownership` | the abstract promise: claimed once, refreshed by its owner | implemented by `OwnerStore` |
| `TokenStore` | memory, file, handlers, console edits, touch goroutines | |
| `TokenRegistry` | the abstract promise: reported withdrawals are final | implemented by `TokenStore` |
| `Policy` | the decision procedures as operators | constants only |
| `TokenPolicy` | a policy's life from flags or console to disk | extends `Policy` |
| `NodeGate` | GraphQL requests by node id, cache, GitHub, response | extends `Policy` |
| `Classifier` | the scopes a REST request needs | extends `Policy` |
| `RestFilter` | the filters, as functions on JSON bodies | constants only |
| `RestTables` | which endpoints show repositories, and where | extends `RestFilter` |
| `ServeHTTP` | one REST or npm request through the proxy | composes `Classifier`, `Policy`, `RestFilter`, `RestTables` |
| `Console` | sign-ins of browsers, sessions, the rate limiter, the clock | |
| `AuditLog` | channel, counter, writer, file, restarts | |
| `LoginGrantsProofs`, `OwnerStoreProofs`, `TokenStoreProofs`, `TokenPolicyProofs`, `NodeGateProofs`, `ServeHTTPProofs`, `ConsoleProofs`, `AuditLogProofs` | the proofs | each extends the module it is named for and stands alone: the few lemmas about `Policy` that several need are repeated |
| `MC*` | instances for TLC: values, symmetry | `Console` and `AuditLog` need none |

### 2.1 LoginGrants

State and code: `grants`/`stored` are the map of `grantStore`, `expired` the entries whose
`expiresAt` passed (they stay in the map until `Sweep`), `cookie` each browser's one
`bgh_grant` cookie, `req` the program counters of handlers that lock more than once, `att`
those of `runGitHubAuth` goroutines, with what waits in `codeCh` and `errCh`. `owner`
stands for the owner store, whose details are `OwnerStore`'s. `minted`, `minter` and
`handed` record what the handlers did with tokens and are read by no action.

`Reserve`, `Mint`, `MintFailed`, `Fill` and `Revert` are the critical sections of
`apiApprove`; `Begin`, `Launch`, `StartAnswered`, `StartFails`, `AfterFailedStart` those
of `apiBegin` around the `select` in `runGitHubAuth`, whose timer may fire at any time.
`CodeArrives` … `Settle`, `DenyGrant` are the goroutine. A restart loses all grants,
requests and goroutines and keeps the owner and the tokens.

Ids are never issued twice (`randHex(16)`), so that `Grant` bounds the sign-ins of a run.
A cookie may be lost on its way back to the browser, a reply may be lost by being read by
nobody: `accessToken` is complete once it is sent.

### 2.2 OwnerStore

`rec`, `fallback` and `fallbackLogin` are the fields of `Store`; `disk` is `owner.json`,
replaced by a rename and therefore atomically; `att` a goroutine between GitHub's answer
and `SignIn`. The test in `loginflow.go:303` is **two** actions, since `Claimed`,
`HasFallback` and `FallbackOwner` each take the lock (the first two are one action: the
seed does not change while the process runs, so that nothing can come between them that
the second would notice). `SignIn` is split where the file is renamed: a stop in between
leaves the file one sign-in ahead. `account` is GitHub's: whose each token is. A restart
may come with another seed, of any account that ever got a token, or none.

Logins differ only by account; the code compares them without case, as GitHub does.

### 2.3 TokenStore

`mem` and `disk` hold, for every token, whether it is absent, live or revoked; `answered`
and `told` what the creator and the one who revoked were told; `touching` the goroutines
of `TouchLastUsed`; `edit` a console edit between minting the new token and revoking the
old. `Flush` writes the whole slice to a temporary file and renames it: it replaces the
file or fails and leaves it. `Revoke` marks in memory first and **keeps** the mark when
the write fails; `Create` rolls back; `Delete` does not. `Key` is a token's id or a name,
which several tokens may share.

### 2.4 Policy, TokenPolicy

A name is its owner, its short name and a *casing*: two names match when they differ only
there, as `strings.EqualFold` has it. Permission maps are functions, and a nil map is
distinct from an empty one, because `Evaluate` and `json` treat them differently. The
decision procedures are operators over a policy and a scope, with the first matching rule
chosen as in the Go loops.

`TokenPolicy` has two ways in: flags are given one at a time, gathered in a list for each
of the four kinds (`flags`, as `tokenCreate` gathers them in two slices and two maps), and
assembled (`TokenCreate`, for every order in which Go may walk the maps), or the owner
authors a policy in the console (`ConsoleMint`, every policy of `Authored`). Both validate
and mint; `ensureLoginUsable` raises the login categories; `Restart` reads the policy back
with `omitempty` applied.

### 2.5 NodeGate

`home` is where GitHub says each node is: in a repository, in none that is known
(`Unseen`: null, or a user, say), or of a kind that must be refused because its repository
cannot be told (`Unattributed`: the five `nodeDeny` cases of `resolveFromGitHub`). It changes at any moment (`Move`), which stands
for transfers, deletions and for a custodian that was refreshed between two calls. `cache`
and `lapsed` are the node cache; expiry and eviction are separate, as in the code.

A request goes through `Receive` (the gate), `LookUp` per id, `Ask`, `Note` per id,
`Forward` or `Refuse`. Every access to the cache is an action of its own, since it takes
the lock per id. `Forward` joins execution at GitHub, the answer and its redaction: the
proxy's own state takes no part in between and the markers by which the filter goes are
in the same answer as the objects. What the classifier makes of a request is its input:
`Inbox` holds requests of the shapes the classifier returns (a mutation never has an
unscoped category, a node no field names a resource for has none).

### 2.6 Classifier, RestFilter, RestTables, ServeHTTP

`ServeHTTP` follows one request: authentication (`RejectUnauthorized`), the two paths that
the proxy answers itself, dot segments, then `Receive` (or `ReceiveNpm`), which joins the
classification, the verdict on every scope and the choice of the filter, since no state
outside the request is touched in between; then the upstream: `Redirect`,
`Respond`, `RespondTooLarge`, `UpstreamFails`.

`asked` is the request as it stands before the upstream, which redirects change: Go's
client, built in `main.go:302-310` with `EnforceRedirectPolicy`, follows 301, 302 and 303 of
a write as a GET (`Moved`'s `keeps` is false) and 307 and 308 with the method, unless a body
would have to be sent again (`forward`'s reader cannot be rewound: the redirect then is the
answer). `MayFollow` judges the hop, `WithinLimit` counts as the code does, with the request
itself among the ten. The filter stays the one chosen for the request as it came. `KeptShape`
says that this is still what the tables would choose for what is asked now; the code does not
test it, and the properties say where they need it.

`ReadPlan` and `WritePlan` are the two blocks of `ServeHTTP` that choose what is done to
the answer, with their early exits; a plan is a record with the locations that the tables
give. `Treatments` joins them over what `Lookup` may say, `Allowed` is the set of
repositories that the closure `canReadFor` lets pass, and `Apply` is `forward` with the
filter at work.

A body is a function from positions to values, a position the sequence of fields and
elements on the way there. So the walks of the code (`descendGroup`, `scrubWalk`,
`walkToObject`, the scan) become sets of positions (`Reached`, `Within`, `Fields`), each
filter says what it cuts and what it puts, and `Edit` does both at once; nothing recurses,
which is what lets the filters be proved about. Locations that reach the same rows decide
together, counts go down by what was dropped below them, and every refusal of the code is
the body `Refused`. A string counts only by the form in which it names a repository;
"content" is anything else that belongs to one, under a resource.

`RestTables` has the tables that are maintained by hand in full, their like endpoints
written once. Of the generated table there is one endpoint for every list of locations:
endpoints that share a list differ in nothing but their path. `Lookup` answers with *any*
template that matches, because the code walks a Go map once at start.

What GitHub answers is a constant: `Upstream` gives, for every endpoint of `Requests`, the
bodies that its description admits over three repositories, and `Odd` adds errors, empty
bodies, and bodies that are no JSON.

### 2.7 Console

`now` counts units of time; `grant` and `session` are the two stores, `cookie` and
`carries` the two cookies of each browser, which survive a restart of the proxy. `upgrade`
is what a handler of `apiSession` knows after it has released the grants lock
(`console.go:113-117`): the check (`apiSession`) and the making of the session
(`createSession`, `console.go:125` and `:47`, under another lock and by a later clock) are
two actions, with anything in between. A handler takes up to `Delay` units over it, which
is what a goroutine may take from one statement to the next; without a bound nothing could
be said of how long a session outlives its sign-in. `until`,
`ended` and `recent` (the hits let through in the last one, two, ... units) are history. `Start` is `apiStartStandalone` and the pages of a
sign-in from `gh`; what becomes of a grant at GitHub is abstracted to `Settle`. Ageing is
by the clock and the sweeps are separate, as in the code: `lookup` looks at the time and
does not rely on them. The limiter's ticker fires at `due` or up to `Lag` later, as Go's
tickers may, and the counters start anew for all addresses at once.

### 2.8 AuditLog

`Log` sends or turns away; the addition to `dropped` is an action of its own (`Count`),
since the writer may empty the channel between Log's `default` and its `atomic.Add`. The
writer takes an entry, fails to open the file (`OpenFails`, the entry is gone and nothing
counts it), or writes a report if there is one and the entry, each of which may fail
(`Write`). `Restart` loses the channel: `cmdServe` returns on a signal without
`Logger.Close`, so that this is the orderly end too. `before`, `turnedAway`, `uncounted`
and `muted` record what the properties ask about.

## 3. Runs

Bounds are named where they are not the size of a constant: `AttemptSlotFree` (a goroutine
starts when a slot of `Attempt` is free), `MaxFlags`, `Flags`, `Given` and `Authored`
(command lines and console policies), `Inbox`, `Requests` and `Policies` (requests),
`MaxTime`, `MaxLogs`, `MaxRuns`, and the finite `Credential` (GitHub issues each token
once).

| Run | Instance | Properties | Shows |
|---|---|---|---|
| `one` | 1 grant, 2 browsers, 2 requests, 2 attempts, 2 tokens, 2 logins, fair | `OneTokenPerGrant`, `SecretHandedOnce`, `MintedByBinder`, `MintedTokenIsCollectable`, `OneLiveAttempt`, `AuthenticatedAsOwner`, `ReservationResolves`, `StartedSignInSettles`, `ImplementsTickets` | two of everything that can race over one sign-in, and that nothing is left pending |
| `orphan` | 2 attempts | `OrphanNeverDenies` | **violated**, finding 1 |
| `owner` | 2 accounts, 4 tokens, 2 goroutines | `OneOwner`, `SeededClaimIsCustodians`, `CustodianIsOwners`, `MemoryMirrorsFile`, `ImplementsOwnership` | claim, refresh, crash, reseed |
| `store` | 2 tokens, 2 names, 1 editor | `ReportedRevocationIsFinal`, `IssuedTokenSurvives`, `FailedCreateLeavesNothing`, `ImplementsRegistry` | failing writes and restarts |
| `notfound` | 1 name | `NotFoundIsFinal` | **violated**, finding 2 |
| `policies` | 1 organization, 2 repositories, 2 casings, 2 resources, 3 flags | `ShortCutsAgree`, `LoginRaisesOnlyLoginReads`, `OpaqueIdsAreSafe`, `RepoPermFlagsHold` | every policy of two repository rules, or of one rule of each kind; command lines with permissions of two repositories, and with one repository in two casings |
| `nodes` | 2 nodes, 2 repositories, 2 slots, cache of 1 | `TypeOK`, `WritesStayAllowed`, `WritesMatchTypes`, `WritesNeedAScope`, `AnswersStayAllowed` | stale cache, transfers, capacity |
| `serve` | 3 repositories, 60 policies, an endpoint of every kind, every answer of up to 2 rows, fair | `TreatmentFits`, `NamesStayHidden`, `CountsStayHidden`, `NothingReadableIsLost`, `WritesReachOnlyWritable`, `EveryRequestIsAnswered` | tables, classifier, filters, redirects and `forward` leave no gap between them |
| `collide` | a policy that allows everything | `DescribedEndpointsAnswer` | **violated**, finding 3 |
| `moved` | as `serve` | `RedirectsLeakNothing` | **violated**, finding 4 |
| `console` | 2 browsers, 2 sign-ins, 2 sessions, 1 address, 1 handler, time up to 4, fair | `ManagesOnItsOwnSignIn`, `SessionsLastTheirTime`, `BurstsAreBounded`, `WhatExpiresIsSwept` | upgrade, logout, upgrade again, expiry and sweeps also within an upgrade, late ticker, restart |
| `audit` | channel of 2, 6 entries, 2 runs of the process, fair | `EntriesAreKept`, `NoSilentGap`, `DropsAreReported` | overload, failing file, restart |

Some of these are the conjunction of two named parts, defined next to each other:
`AnswersStayAllowed` (`CategoriesStayGuarded`, `ReadsStayAllowed`), `EntriesAreKept`
(`EveryEntryIsSomewhere`, `FileIsInOrder`), `ShortCutsAgree` (`GatesAreComplete`,
`RedactionFollowsPolicy`), `RepoPermFlagsHold` (`RepoPermFlagsDecide`,
`BareRepoPermGrantsNoMore`). The type invariants are proved (section 4); only that of
`NodeGate`, which bounds the cache, is also run, and `ReservationHasOneHolder` is proved
and not run.

Why these bounds are enough to be of interest:

* A handler races with at most one other over a grant (a second approval, a poll, a retry);
  grants meet only in the capacity, the owner and the cookie. One grant with two of
  everything is where the races are, and the proofs lift the bound for the safety
  properties.
* Two tokens under two names cover sharing a name and not; one editor replaces the first
  by the second.
* `Evaluate` looks at the first matching repository rule and the first matching
  organization rule: two rules of a kind cover "first match wins", and names in two
  casings cover case folding. Command lines have three names: one repository in both
  casings, another in one. Three flags are enough for two names with permissions and no
  base (the two orders of a map), for two bases and a permission, and for a permission given
  again. Two resources (a repository's and one that is none) cover
  known and unknown keys; three access levels are all there are.
* With a capacity of one and two nodes the cache is full at once; two nodes are what a
  request needs for one to resolve and one not to, and for a field and a type to differ.
  The mutation of both nodes is one that may only go through while the pull request
  resolves to nothing; those of which every node resolves are left to the theorems (4.5).
* The policies of `serve` deny the secret repository in every way a rule can (no rule, a
  base, a permission, either against the other, any mode) and a third of another owner.
  Two rows show the difference between dropping one and dropping all, and a count that must
  follow. Every treatment of `ReadPlan` and `WritePlan` has an endpoint, and so has every
  table. A limit of three (two redirects) shows the limit, a loop, and a read
  or a write that ends in another repository under the same kind of endpoint, under another
  kind, or where nothing is scoped. Writes are redirected as writes and as reads.
* In `console` sessions live shorter than sign-ins although the code has it the other way
  round (thirty minutes to fifteen): that way a sign-in can be upgraded, the session age,
  and the sign-in be upgraded again, within three units; the proofs hold for every pair of
  times. One unit of `Delay` is enough for a sign-in to expire and be swept between its
  check and the session. A window of two units, a limit of one, a lag of one and four units
  of time are the smallest for which a tick that is late is followed by one that is
  punctual, and the three hits before, between and after them fall into one window: the
  bound of `BurstsAreBounded` is reached.
* A channel of two is full while the writer holds an entry; six entries are enough to drop
  twice with a report between, two runs to restart in the middle of it.

Each property of each passing run has a mutant in `PROJECT.json`: a plausible bug in a
mapped definition (`...Always`, `...Unbounded`, `...InPlace` and so on, written next to
it) under which the run finds the property violated.

### 3.1 Fairness

* `one`: weak fairness of each request's own next step, of each attempt's own next step
  and of the sweep. The Go scheduler runs every runnable goroutine; `DeviceFlow` stops at
  its context's deadline; the `select` in `runGitHubAuth` has a 20-second timer and
  `sweepLoop` a ticker. Nothing is assumed of browsers, `gh`, GitHub or the operator, so
  that neither property says that a sign-in succeeds.
* `serve`: weak fairness of `Next`, that is, the handler is not abandoned: the upstream
  redirects, answers, or runs into the transport's timeout (`UpstreamFails`), all of which
  are steps. That redirects end is therefore the limit's doing.
* `console`: weak fairness of the two sweeps, which have tickers of a minute each. Not of
  the clock: nothing is promised of what never expires.
* `audit`: weak fairness of the writer's goroutine (`Take`; `OpenFails` or `Write`) and of
  each pending addition to the counter. The file may fail every time.

### 3.2 Findings

1. `orphan` - an attempt tests `ctx.Err()` before it takes the lock to deny: superseded in
   between, it still denies the attempt that superseded it (`loginflow.go:283`).
2. `notfound` - `Delete` whose write failed is answered 500, its retry 404, while the file
   still holds the live token (`store.go:201-205`).
3. `collide` - templates with a wildcard take the paths of other endpoints, and which one
   wins is drawn at start (`openapi.go:31`, `:75`): a described endpoint is refused with
   502 although the policy allows everything (`/repos/{o}/{r}/issues/comments`), or works
   or not from one start to the next (`.../issues/events`).
4. `moved` - the redirect check asks for a repository on both sides (`proxy.go:1240`) and
   not, as its comment has it (`:1229`), that the filter stays right: a read that is streamed
   and redirected to the list of a repository's forks, or a write redirected to a read of
   another shape, is answered under the wrong treatment. GitHub is said to redirect only
   renamed repositories, with their sub-path; of those `NamesStayHidden` speaks.

Smaller disagreements between documentation and code, met while modelling, that have no run:

* A start that fails before GitHub gave a code both denies the grant (`loginflow.go:290`)
  and opens it for another start (`:443`, "allow a retry"): the retry goes through GitHub's
  whole flow for a grant that stays denied. TLC finds it with one grant and one attempt, as
  the violation of: a live grant that is not started is pending.
* `--repo` and `--repo-perm` are joined by the string that was typed (`main.go:691`), while
  names match without case (README.md:311). Of one repository in two casings
  (`--repo o/r=none --repo-perm O/R:pulls=read`) the second rule is never reached, and the
  permission is lost without an error, be it a grant or a restriction; if neither has a
  `--repo`, Go's map order chooses the one that counts. `RepoPermFlagsDecide` says this:
  it is about the spelling that governs (`GoverningNames`). A command line that spells each
  name once has no other.
* The comment of `apiStartStandalone` says that `apiApprove` returns the secret of a
  standalone grant to the browser (`loginflow.go:220-222`); the answer has a status and, for
  gh's, a redirect, and no secret (`:571`). The console mints through `apiCreateToken`.
* `CanReadAnything` is to keep what is readable in any way and redact what is entirely
  unreadable (`policy.go:341-343`). Of an organization rule, whose keys nothing validates,
  with one key in two casings (`Members=none`, `MEMBERS=read`) `lookupResource` takes the
  lesser access (`policy.go:391`) and `CanReadAnything` sees the greater (`policy.go:366`):
  a repository of which nothing is readable is kept, as a shell. This is what the
  hypothesis of `ReadsAlwaysStayAllowed` and `AnswersAlwaysStayAllowed` leaves out (4.5);
  TLC finds `ReadsStayAllowed` violated with such a rule in `Inbox`.
* README.md:360 denies a mutation whose ids cannot *all* be resolved; the code passes over
  those that resolve to null beside one that is allowed (`proxy.go:917`). The comment at
  `proxy.go:882` describes the code.
* README.md:571 says that every request is logged. Beside the drops it admits elsewhere
  (:582, :622), `cmdServe` returns on a signal without `Logger.Close`, so that what is
  queued then is lost and no `SYSTEM` entry says so.
* `policy_test.go:398` is named "empty permissions map behaves like nil"; for a write to an
  indeterminate resource it does not (`policy.go:151`, `:169`): the empty map denies, nil
  falls back to the base access.
* The comment at `policy.go:248-250` says that `AnyRepoDeniesWriteUnderOrg` mirrors how
  `Evaluate` gates a single repository; for an unknown resource it falls back to the base
  access (`:259`) where `Evaluate` denies. `OpaqueIdsAreSafe` is therefore stated of known
  resources.

Behaviour that is as written and that a reader of the properties should know:

* What a field of a project item shows of a linked issue is gated by the metadata of its
  repository and the grant for projects, not by that repository's `issues`
  (`content_scrub.go`); the property `NamesStayHidden` says so in `Linked`.
* The rows of an events feed are judged by `issues` whatever their kind
  (`content_resource.go:122`).
* Every answer of an endpoint with locations that does not have the described shape,
  an error's body for one, becomes 502.
* `GET /classrooms` drops every classroom: its location is the classroom's own name
  (`openapi_table.go:10`), which no policy knows as a repository.
* `repository_owners` in the body of a variant analysis is scoped as an organization only.
* `apiLogout` ends the session and leaves the grant and its cookie: the browser may upgrade
  again until the grant expires. `ManagesOnItsOwnSignIn` bounds what follows from it.
* The limiter lets through up to twice its limit in a window around a punctual tick, and
  up to three times around one that is late.

## 4. Proofs

### 4.1 LoginGrantsProofs

For any number of grants, browsers, requests, attempts, tokens and logins:
`TypeCorrect`, `OneTokenPerGrantHolds`, `SecretHandedOnceHolds`, `MintedByBinderHolds`,
`ReservationHasOneHolderHolds`, `MintedTokenIsCollectableHolds`,
`AuthenticatedAsOwnerHolds`, `OneLiveAttemptHolds`, and `ImplementsTicketsHolds`: the grants
implement `SignInTickets`. Assumptions: the sentinels are not members of their sets
(`SentinelAssumption`) and `MaxLiveGrants` is a natural number.

None of the properties is inductive. `IInv` adds:

* `NamesKnownGrants` - whatever names a grant names one that was issued (a fresh id can
  therefore not be meant by an old request, cookie or token);
* `CookieIsBinders` - a cookie that names a grant is its binder's;
* `HolderIsExclusive`, `ReservedIsHeld` - at most one request is between a reservation
  and its resolution, and a reserved grant has one;
* `TokensAccounted` - the token of a grant is in the hands of that request, or in the
  grant's record, or was handed over with the record's removal; this is what turns
  "at most one holder" into "at most one token";
* `MinterIsBinder`, `HandedIsConsumed`, `SettlesAsOwner` - the history variables follow.

`IInvStep` has one step per action and below it one per part that the action disturbs;
`GrantUpdates`, `RequestUpdates` and `AttemptUpdates` say what an update of a record
leaves alone.

`OneLiveAttempt` is inductive relative to `IInv`: most actions start no attempt and leave
the `cancel` of every live grant in place (`StartsNoAttempt`), so that only `Launch`, which
cancels before it starts, and the removal of grants need an argument of their own.

The refinement reads a ticket's phase off the grant that holds it and off the requests
between reservation and resolution. Most actions change no phase (`QuietStep`) or one
(`OnePhaseChanges`); sweeps, denials of a full store and restarts close any number at once
(`ClosingStep`). It needs `IInv` where a phase is read off more than one place: a token in
the hands of a request is exchanged only if no other request holds the same grant.

### 4.2 OwnerStoreProofs

For any number of accounts, tokens and goroutines: `TypeOKHolds`, `OneOwnerHolds`,
`SeededClaimHolds`, `CustodianIsOwnersHolds`, `MemoryMirrorsFileHolds`, and
`ImplementsOwnershipHolds`: the store implements `Ownership`. Assumption: `OwnerSentinels`.

`IInv` adds to `SeededClaimIsCustodians`: `Sound` (a record, in memory or on file, is blank
or holds a token of its login), `Issued` (no token is in use that GitHub did not issue, so
that `account` never changes under a token in use), `FallbackKnown` (a goroutine that asks
for the fallback's login has a fallback, and the login found is its account's),
`FileLeads` (inside `SignIn`'s lock the file is one sign-in ahead, otherwise the same) and
`OneLogin` (memory and accepted sign-ins are of the login on file). `QuietStep` proves the
steps that only move a goroutine on; the other actions have a lemma each.

The refinement needs `IInv`: that `SignIn` compares with the *memory* and writes the
*file* is a claim or a refresh only because the two agree when the lock is free.

### 4.3 TokenStoreProofs

For any number of tokens, names and editors: `TypeOKHolds`,
`ReportedRevocationHolds`, `IssuedTokenHolds`, `FailedCreateHolds` and
`ImplementsRegistryHolds`, the refinement of `TokenRegistry`. Assumption: `StoreSentinels`.

`IInv` adds `NothingToldOfUncreated`; `LiveIsWritten` (what lives in memory lives in the
file; the reverse fails after a revocation whose write failed); and `EditedTokenSurvives`
(between the two halves of a console edit the new token stands as if it were handed out).
`CreateEffect` and `WithdrawalEffect` say once what the store's operations do to memory and
file; the lemmas about handlers cite them, and so does the refinement.

### 4.4 TokenPolicyProofs

First come the lemmas about the decision procedures, for policies of any number of
rules over any names, casings, resources and categories. `EvaluateHasAReason` is the heart:
what `Evaluate` allows comes of an access in some rule, of a category or of the mode, which
is what the gates look for. `KeptIsReadable` is the converse that the response filter needs,
`UnscopedWritesNeedACategory` the guard of unscoped writes. Assumptions: `PolicySentinels`,
`NilIsNoMap` (a nil map is not a map) and `PolicyLifeAssumption`.

The theorems are about the life of a policy, for command lines of any length, any
authored policies and any number of restarts: `TypeOKAlways`, `ShortCutsAlwaysAgree`,
`OpaqueIdsAlwaysAreSafe`, `LoginAlwaysRaisesOnlyLoginReads` and `RepoPermFlagsAlwaysHold`.
The first four follow from theorems about any policy with validated keys; what the life
adds is the invariant `PolicyInv`: the policy is well formed, its repository keys were
validated, and it says what its flags say (`FlagsSay`). `RulesSayFlags` proves the last of
`tokenCreate` for every order of the maps (the first rule of a name has the permissions of
all flags for that name, whether or not a base flag names it), and `RestartKeeps` that
`omitempty` takes away no entry.

`RepoPermFlagsAlwaysHold` has no hypothesis on spelling. `GoverningRule` is its heart: the
rules of base flags come first and in their order, so that the first rule that matches a
repository is that of its first `--repo` flag, or, without one, one that the walk of the map
brought first; and as the first of its spelling it has all permissions of that spelling.

One hypothesis carries weight: `RedactionFollowsPolicy` needs validated keys. With one key in
two casings, one of them `none`, `lookupResource` takes the lesser and `CanReadAnything`
sees the greater; minting validates, and `PolicyInv` says that nothing undoes it.

### 4.5 NodeGateProofs

For any nodes, repositories, policies, requests in flight and capacity of the cache:
`TypeOKAlways`, `WritesAlwaysStayAllowed`, `WritesAlwaysMatchTypes`,
`WritesAlwaysNeedAScope`, `CategoriesAlwaysStayGuarded`, `ReadsAlwaysStayAllowed` and
`AnswersAlwaysStayAllowed`. Assumptions: `NodeGateAssumption` (requests of the classifier's
shape, by tokens whose policies were validated) and those of `Policy`.

None of these is inductive: they say something of an executed request, and nothing of how it
got there. `IInv` adds `OnlyItsIds` (a request deals with no node it does not name),
`AnswerIsJudged` (what was executed had been allowed, and was filtered by where its nodes
were) and `WriteIsFresh`, which follows a write stage by stage: it has taken nothing from
the cache, what GitHub said is true of every node that has not moved since the write
arrived, and at the verdict each such node is known by the repository it is in. `moved` is
what makes that inductive while `Move` may happen between any two steps. One lemma per
action says what becomes of the request it is about (`LookUpKeeps` ... `ForwardKeeps`);
`OneRequest` says that the others stay.

The theorems about reads have the hypothesis `OrgKeysSpeltOnce`, for the reason given
in 3.2. Those about writes need none.

### 4.6 ConsoleProofs

For any number of browsers, addresses, sign-ins and sessions and all times to live:
`TypeOKHolds`, `ManagesOnItsOwnSignInHolds`, `SessionsLastTheirTimeHolds`,
`BurstsAreBoundedHolds`. Assumptions:
`ConsoleSentinels`, `ConsoleTimes`, `ConsoleCaps`.

`IInv` adds `CookiesAreOfTheirBrowser`, `SignInsAreKnown` (`until` looks back on every
console sign-in that succeeded), `CarriedByTheirHolder`, `UpgradesAreBacked` (what a handler
found good was good when it looked, and it has not waited longer than `Delay`),
`SessionsAreBacked` (a session was made no later than `Delay` after a sign-in of its holder
was good) and `SessionsEnd` (what left the store was ended
or is over, so that a sweep is never noticed).

`BurstsAreBounded` has an invariant of its own, `LimiterInv`. It compares moments with
`due`: hits since a moment that is surely after the last tick are in the counts, and each
tick that may lie in between adds one limit (`HitsAreCounted`); the ticker is never more
than `Lag` late (`OnSchedule`). A stretch of `Window` units begins after the last tick but
one, or but two if ticks may be late, whence two limits or three.

### 4.7 ServeHTTPProofs

For any policies, requests, paths, redirects, bound on redirects and JSON answers of any
size and depth:

* `Types`: `TypeOK`, and with it that no request is sent more often than the limit allows.
* `WritesStayInside`: `WritesReachOnlyWritable`. `AdmissionHolds` is the invariant it needs:
  whatever REST request was forwarded had every scope granted and was no write to hidden
  targets, and every write that a redirect made of it had its scopes granted too and names
  nothing but its path. What remains is about the classifier and the policy alone
  (`WhatIsAdmittedIsWritable`): a repository that the path or the body names has a scope of
  its own in what `Classify` yields (`PathTargetsAreScoped`, `BodyTargetsAreScoped`), and of
  those that are named by number (`IdTargetsAreBelow`) the organization's grant decides,
  since `AnyRepoDeniesWriteUnderOrg` found no rule that closes one (`WriteBelowOrganization`).
* `HiddenNamesStayHidden`: `NamesStayHidden`, of every behavior in which the tables are
  complete (`[]TreatmentFits`). Redirects of reads and of writes are followed as the code
  follows them; what an answer tells is claimed as long as they change neither the treatment
  nor the resource (`KeptShape`); of the others the run `moved` shows it to be false. The tables are the code's and GitHub's description is not:
  that an answer shows a repository nowhere but where the tables look is a property of
  GitHub, which the run `serve` checks against an endpoint of every kind and the mutants
  break. Given that, nothing is assumed of the answers but that they are JSON.

The argument of the last: each filter *trims* a body (`RedactTrims`, `ScrubTrims`,
`DropStringsTrims`, `ContentTrims`, by `EditTrims`): a value that still tells something is
where it was, with all that leads to it. So what a filter leaves standing does not lie where
it looks for a denied repository (`LocatedTrims`, and one lemma ending in `Hides` for each
kind of treatment, joined by `WhatIsSentHides`), also when four filters follow each other:
none takes from another what the other looks at (`TablesAreApart`). `FollowingHolds` carries
it through a request, redirects included: the treatment is one that the request calls for,
and the scopes of whatever path the upstream is now asked for are all granted.
`AnswersHideNames` then does the step in which the client is answered; for a write it needs
that what may be written may be read (`WriteGrantsRead`).

Assumptions: `PolicySentinels`, `InputsTyped`, `RedirectsBounded`, `RedirectsTyped`,
`AnswersAreJson`, `NamesAreNoSentinels`, `TablesTyped` and `TablesAreApart`. TLC evaluates
them all on the instances; the last two are about the code's tables, which are the same for
every instance.

### 4.8 AuditLogProofs

For any capacity, any number of entries and any number of restarts: `TypeOKHolds`,
`EntriesAreKeptHolds`, `NoSilentGapHolds`. Assumption: `AuditBounds`.

`IInv` adds `InOrder` and `FileIsBehind` (channel, writer and file hold entries in the
order of the log calls, so that an entry the writer appends is later than all in the file),
`Placed` (the places place by place), `InThePast` (no accepted entry counts drops to come)
and `Told` (the last report of this run is on file unless it is the one that failed); the
last two carry `NoSilentGap` over the write of an entry.

### 4.9 What is only model-checked

* Liveness: `ReservationResolves`, `StartedSignInSettles`, `EveryRequestIsAnswered`,
  `WhatExpiresIsSwept`, `DropsAreReported` (outside the prover's reach).
* `TreatmentFits`: what GitHub answers is a constant of the model, so that no proof can say
  that the tables are complete for it. The run says so for an endpoint of every kind.
* `CountsStayHidden` and `NothingReadableIsLost`. The first compares a count with the
  cardinality of the list beside it, through filters that drop rows from lists in each
  other; the second needs, of every filter, that it changes nothing at all when all is
  allowed, and the shape of the answers that makes it so is again GitHub's.
* The violations are TLC's counterexamples.

## 5. What is not modelled, and why

* Strings, HTTP framing, headers, hashing, random ids: names are model values, ids are
  fresh, a secret is its token. JSON is modelled as trees where a filter walks it; how a
  string is recognised as a repository's URL or name is abstracted to the form it has.
* Streaming: a body arrives or does not. An answer too long to be filtered is refused.
* Time, except in `Console`: what expires may expire at any moment, timers may fire at any
  moment.
* The GraphQL half of the classifier (a traversal of the query's syntax tree with tables of
  GitHub's fields) and of `gqlfilter` (insertion of markers into queries, scrubbing of
  error texts, owner-private fields): tree rewriting over GitHub's published schema, without
  state, covered by the repository's table tests. What the first yields is `NodeGate`'s
  input, what the second decides is its `shown`.
* The write that a transfer overtakes between its resolution and its execution at GitHub:
  `WritesStayAllowed` excludes nodes that moved meanwhile. The proxy cannot close it. Nor is
  it promised that a request stops when its token is revoked after the lookup.
* `Targets` is what the classifier has a rule for. The numbers of an account's own
  selections (`/user/...`), of which the code asks nothing, and `repository_owners`, which it
  takes for organizations only, are not among the targets of a write.
* The generator of the tables (`restfilter/gen`, `specderive`): it runs offline.
* The admin secret (a constant-time comparison with a file read once), configuration and
  TLS: no state after start.

## 6. What could come next

1. `CountsStayHidden` as a theorem: lists that lie in no other, then lists in lists.
2. The root fields of GraphQL queries and mutations as a function from a small syntax tree
   to scopes, so that `Inbox` is computed and not given.
