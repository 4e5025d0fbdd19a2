------------------------------- MODULE NodeGate -------------------------------
(* GraphQL requests that name objects by opaque node id, as internal/proxy    *)
(* serves them: the ids are resolved to repositories through a shared cache   *)
(* (reads) or at GitHub (writes, and what the cache lacks), every scope the   *)
(* request touches is judged by the policy of its token, and the response is  *)
(* redacted by the repository that each object says it is in.                 *)
(*                                                                            *)
(* Objects move at GitHub at any time: a repository is transferred, an object *)
(* deleted, the custodian refreshed by another sign-in that sees more or less. *)
(* Requests of several tokens run side by side and share the cache, taking    *)
(* its lock once for every id.                                                *)
EXTENDS Policy, FiniteSets

CONSTANTS
    Node,          \* node ids
    Type,          \* the resource of each node's type; "": a Repository
    Home,          \* the repositories that nodes may be in
    Unseen,        \* a node that resolves to null (one that is known to be in no
                   \* repository, a user say, is passed over just the same)
    Unattributed,  \* a node whose repository cannot be told from the answer
    Slot,          \* requests in flight
    Inbox,         \* the requests that clients may send
    MaxEntries     \* maxEntries: capacity of the cache

\* A request: the policy of its token, what the classifier made of it (the
\* primary scope, the ids, the resources that root fields refer to each under).
\* More ids than maxResolveIDs are refused unseen.
Request == [pol: PolicySet, level: Level, prim: ScopeSet,
            ids: (SUBSET Node) \ {{}}, under: [Node -> SUBSET Resource]]

\* The keys of a policy's repository rules were validated when it was minted or
\* loaded; those of organization rules never are.
ASSUME NodeGateAssumption ==
    /\ Type \in [Node -> Resource \cup {""}]
    /\ Home \subseteq RepoName
    /\ {Unseen, Unattributed} \cap Home = {}
    /\ Unseen # Unattributed
    /\ Inbox # {} /\ Inbox \subseteq Request
    /\ \A q \in Inbox : ValidateResourceKeys(q.pol, Resource)
    /\ MaxEntries \in Nat

VARIABLES
    home,     \* where GitHub says each node is
    cache,    \* Cache.entries
    lapsed,   \* the entries whose expiresAt has passed
    req       \* the requests in flight

vars == <<home, cache, lapsed, req>>

\* A Repository is always told from the answer.
Places(n) == Home \cup {Unseen} \cup IF Type[n] = "" THEN {} ELSE {Unattributed}
Place == UNION {Places(n) : n \in Node}

\* lookup: ids still to be looked up in the cache; ask: GitHub is to be asked for
\* the missing ones; put: its answer is walked through; judge: all is known that
\* the verdict needs; answered: GitHub has executed the request.
SlotPC == {"idle", "lookup", "ask", "put", "judge", "answered"}

\* todo: the ids not dealt with in this stage.  repoOf, missing, fetched: as in
\* resolveNodeScopes.  at: where the nodes were when GitHub executed the request.
\* moved: those that moved between the arrival of a write and then.  shown: what the client
\* gets to see of each.
SlotRec == [pc: SlotPC, in: Inbox, todo: SUBSET Node, missing: SUBSET Node,
            repoOf: [Node -> Home \cup {Unseen}], fetched: [Node -> Place],
            at: [Node -> Place], moved: SUBSET Node,
            shown: [Node -> {"null", "shell", "whole"}]]

Nowhere == [n \in Node |-> Unseen]

Arrived(q, p) == [pc |-> p, in |-> q, todo |-> q.ids, missing |-> {},
                  repoOf |-> Nowhere, fetched |-> Nowhere, at |-> Nowhere,
                  moved |-> {}, shown |-> [n \in Node |-> "null"]]

Idle == Arrived(CHOOSE q \in Inbox : TRUE, "idle")

\* The types; the cache holds at most MaxEntries nodes ("cannot grow without
\* bound"), and resolved are only nodes that the request names.
TypeOK ==
    /\ home \in [Node -> Place]
    /\ cache \in [Node -> Home \cup {Unseen}]
    /\ Cardinality({n \in Node : cache[n] # Unseen}) <= MaxEntries
    /\ lapsed \subseteq {n \in Node : cache[n] # Unseen}
    /\ req \in [Slot -> SlotRec]
    /\ \A s \in Slot, n \in Node :
           req[s].repoOf[n] # Unseen => n \in req[s].in.ids

Init ==
    /\ home \in {h \in [Node -> Place] : \A n \in Node : h[n] \in Places(n)}
    /\ cache = Nowhere
    /\ lapsed = {}
    /\ req = [s \in Slot |-> Idle]

(* ------------------------------------------------------------------------- *)
(* GitHub and the cache                                                      *)
(* ------------------------------------------------------------------------- *)

\* A node is found elsewhere from now on.
Move(n, h) ==
    /\ h # home[n]
    /\ home' = [home EXCEPT ![n] = h]
    /\ req' = [s \in Slot |->
           IF /\ req[s].pc \notin {"idle", "answered"}
              /\ req[s].in.level = "write"
              /\ n \in req[s].in.ids
           THEN [req[s] EXCEPT !.moved = @ \cup {n}] ELSE req[s]]
    /\ UNCHANGED <<cache, lapsed>>

\* Put that does not look at the capacity.
PutUnbounded(n, h) ==
    /\ cache' = [cache EXCEPT ![n] = h]
    /\ lapsed' = lapsed \ {n}

\* Put: at capacity, lapsed entries included, only what is there is refreshed.
Put(n, h) ==
    IF cache[n] = Unseen /\ Cardinality({m \in Node : cache[m] # Unseen}) >= MaxEntries
    THEN UNCHANGED <<cache, lapsed>>
    ELSE /\ cache' = [cache EXCEPT ![n] = h]
         /\ lapsed' = lapsed \ {n}

\* The time to live of an entry passes.
Lapse(n) ==
    /\ cache[n] # Unseen
    /\ lapsed' = lapsed \cup {n}
    /\ UNCHANGED <<home, cache, req>>

\* evictLoop.
Evict ==
    /\ cache' = [n \in Node |-> IF n \in lapsed THEN Unseen ELSE cache[n]]
    /\ lapsed' = {}
    /\ UNCHANGED <<home, req>>

(* ------------------------------------------------------------------------- *)
(* ServeHTTP up to the verdict                                               *)
(* ------------------------------------------------------------------------- *)

\* canResolve: the gate that spares GitHub the ids of tokens that never could.
CanResolve(q) ==
    IF q.level = "read" THEN AllowsAnyRead(q.pol) ELSE AllowsAnyWrite(q.pol)

\* A request that passes the gate.  (One that does not is answered 403.)
Receive(s, q) ==
    /\ req[s].pc = "idle"
    /\ CanResolve(q)
    /\ req' = [req EXCEPT ![s] = Arrived(q, "lookup")]
    /\ UNCHANGED <<home, cache, lapsed>>

\* The ids of a stage are dealt with, and the next one begins.
Ended(q, p) == [q EXCEPT !.pc = p, !.todo = {}]
Resolved(q) == [q EXCEPT !.pc = "judge", !.todo = {}, !.missing = {}, !.fetched = Nowhere]

\* A request that trusts the cache whatever its level.
TrustsCacheAlways(q) == TRUE

\* A read trusts the cache, a write never does.
TrustsCache(q) == q.in.level = "read"

\* resolveNodeScopes looks one id up.
LookUp(s, n) ==
    LET q == req[s]
        hit == TrustsCache(q) /\ cache[n] # Unseen /\ n \notin lapsed
        done == [q EXCEPT !.todo = @ \ {n},
                          !.repoOf[n] = IF hit THEN cache[n] ELSE @,
                          !.missing = IF hit THEN @ ELSE @ \cup {n}]
    IN  /\ q.pc = "lookup"
        /\ n \in q.todo
        /\ req' = [req EXCEPT ![s] =
               IF done.todo # {} THEN done
               ELSE IF done.missing = {} THEN Resolved(done)
               ELSE Ended(done, "ask")]
        /\ UNCHANGED <<home, cache, lapsed>>

\* Where GitHub sees the nodes of N now.
Answer(N) == [n \in Node |-> IF n \in N THEN home[n] ELSE Unseen]

\* resolveFromGitHub: what GitHub says of the missing ids, all at one moment.
\* An error, or an answer of another length, denies the request.
Ask(s) ==
    /\ req[s].pc = "ask"
    /\ \/ req' = [req EXCEPT ![s] = [@ EXCEPT
              !.pc = "put", !.todo = req[s].missing, !.fetched = Answer(req[s].missing)]]
       \/ req' = [req EXCEPT ![s] = Idle]
    /\ UNCHANGED <<home, cache, lapsed>>

\* One id of the answer: its repository is noted and cached; none denies the
\* request if it should have one, and is passed over otherwise.
Note(s, n) ==
    LET q == req[s]
        h == q.fetched[n]
        done == [q EXCEPT !.todo = @ \ {n}, !.repoOf[n] = IF h \in Home THEN h ELSE @]
    IN  /\ q.pc = "put"
        /\ n \in q.todo
        /\ IF h \in Home THEN Put(n, h) ELSE UNCHANGED <<cache, lapsed>>
        /\ req' = [req EXCEPT ![s] =
               IF h = Unattributed THEN Idle
               ELSE IF done.todo # {} THEN done
               ELSE Resolved(done)]
        /\ UNCHANGED home

\* The scope of a resource of a repository.
OrgOf(r) == [owner |-> r.owner, casing |-> r.casing]
ScopeOf(r, res) == [repo |-> r, org |-> OrgOf(r), res |-> res, cat |-> NoCategory]

\* nodeResourceKeys with the name of the field alone.
KeysByField(level, type, field) == {field}

\* nodeResourceKeys: a write must be allowed under the resource of the field and
\* under the one of the node's type.
NodeResourceKeys(level, type, field) ==
    IF level = "read" THEN {field}
    ELSE IF {field, type} \ {""} = {} THEN {""} ELSE {field, type} \ {""}

\* The scopes of the resolved ids.  A node that no field names a resource for
\* goes, in a read, by the resource of the request.
NodeScopes(q) ==
    UNION {{ScopeOf(q.repoOf[n],
                    IF k = "" /\ q.in.level = "read" THEN q.in.prim.res ELSE k) :
               k \in UNION {NodeResourceKeys(q.in.level, Type[n], f) :
                   f \in IF q.in.under[n] = {} THEN {""} ELSE q.in.under[n]}} :
           n \in {m \in Node : q.repoOf[m] # Unseen}}

\* The primary scope gives way to the first node's whenever it names no
\* repository and no organization.
PrimaryGivesWay(prim) == prim.repo = NoRepo /\ prim.org = NoOrg

\* The primary scope names nothing at all: the first node's takes its place.
PrimaryIsEmpty(prim) ==
    prim.repo = NoRepo /\ prim.org = NoOrg /\ prim.cat = NoCategory

\* AllScopes without the empty primary scope.
ScopesOfNodes(q) ==
    NodeScopes(q) \cup (IF PrimaryIsEmpty(q.in.prim) THEN {} ELSE {q.in.prim})

AllScopes(q) ==
    NodeScopes(q) \cup
        (IF PrimaryIsEmpty(q.in.prim) /\ NodeScopes(q) # {} THEN {} ELSE {q.in.prim})

\* evaluateScopes: every scope must be allowed.
Allowed(q) == \A sc \in AllScopes(q) : Evaluate(q.in.pol, sc, q.in.level)

(* ------------------------------------------------------------------------- *)
(* forward and the response filter                                           *)
(* ------------------------------------------------------------------------- *)

\* The decision on an object of repository r by the policy of request q.  A
\* Repository of which anything may be read is kept, as a shell if its metadata
\* is closed; everything else goes by the resource of its type.
Decision(q, n, r) ==
    LET res == IF Type[n] = "" THEN "metadata" ELSE Type[n]
        readable == r \in Home /\ Evaluate(q.in.pol, ScopeOf(r, res), "read")
    IN  IF Type[n] = "" /\ (r \notin Home \/ ~CanReadAnything(q.in.pol, r, OrgOf(r)))
        THEN "null"
        ELSE IF readable THEN "whole"
        ELSE IF Type[n] = "" THEN "shell" ELSE "null"

\* The filter that goes by the repositories that the request was judged by.
FilteredAsJudged(q) == [n \in Node |-> Decision(q, n, q.repoOf[n])]

\* filterGraphQLResponse: every object goes by the repository it is marked with.
Filtered(q) == [n \in Node |-> Decision(q, n, q.at[n])]

\* An allowed request is forwarded, GitHub executes it, and the client is sent
\* the filtered response.
Forward(s) ==
    LET executed == [req[s] EXCEPT !.pc = "answered", !.at = Answer(req[s].in.ids)] IN
    /\ req[s].pc = "judge"
    /\ Allowed(req[s])
    /\ req' = [req EXCEPT ![s] = [executed EXCEPT !.shown = Filtered(executed)]]
    /\ UNCHANGED <<home, cache, lapsed>>

\* One that is not allowed, or that the schema cannot type, is answered 403; one
\* that GitHub does not answer, or whose answer cannot be filtered, 502.
Refuse(s) ==
    /\ req[s].pc = "judge"
    /\ req' = [req EXCEPT ![s] = Idle]
    /\ UNCHANGED <<home, cache, lapsed>>

\* The request is over.
Finish(s) ==
    /\ req[s].pc = "answered"
    /\ req' = [req EXCEPT ![s] = Idle]
    /\ UNCHANGED <<home, cache, lapsed>>

Next ==
    \/ \E n \in Node : Lapse(n) \/ \E h \in Places(n) : Move(n, h)
    \/ Evict
    \/ \E s \in Slot :
          \/ \E q \in Inbox : Receive(s, q)
          \/ \E n \in Node : LookUp(s, n) \/ Note(s, n)
          \/ Ask(s) \/ Forward(s) \/ Refuse(s) \/ Finish(s)

Spec == Init /\ [][Next]_vars

(* ------------------------------------------------------------------------- *)
(* Properties                                                                *)
(* ------------------------------------------------------------------------- *)

\* GitHub has executed the request in slot s.
Executed(s) == req[s].pc = "answered"

\* "a write is authorized against the repository GitHub says the node belongs
\* to": whatever other requests left in the cache, a write only ever changes
\* nodes in repositories that its policy lets it write, unless a node moved
\* while the request was under way.
WritesStayAllowed ==
    \A s \in Slot, n \in Node :
        /\ Executed(s) /\ req[s].in.level = "write"
        /\ n \in req[s].in.ids \ req[s].moved
        /\ req[s].at[n] \in Home
        => \E res \in RequestResource :
               Evaluate(req[s].in.pol, ScopeOf(req[s].at[n], res), "write")

\* nodeResourceKeys: a mutation whose field is named after one resource does not
\* write, under that name, an object whose type belongs to another one that the
\* policy closes.
WritesMatchTypes ==
    \A s \in Slot, n \in Node :
        /\ Executed(s) /\ req[s].in.level = "write"
        /\ n \in req[s].in.ids \ req[s].moved
        /\ req[s].at[n] \in Home
        /\ Type[n] # ""
        => Evaluate(req[s].in.pol, ScopeOf(req[s].at[n], Type[n]), "write")

\* The resolver's claim that "a lone such node leaves the request with no repo
\* scope, which the policy denies": an executed write named a node that GitHub
\* found or could not attribute, or had a scope of its own beside its nodes.
WritesNeedAScope ==
    \A s \in Slot :
        Executed(s) /\ req[s].in.level = "write" =>
            \/ \E n \in req[s].in.ids : req[s].repoOf[n] # Unseen
            \/ ~PrimaryIsEmpty(req[s].in.prim)

\* Round 15: a resolved node never takes the place of an unscoped category, which
\* would let viewer's data through with the node's.
CategoriesStayGuarded ==
    \A s \in Slot :
        LET q == req[s] IN
        Executed(s) /\ q.in.prim.cat # NoCategory =>
            Evaluate(q.in.pol, q.in.prim, q.in.level)

\* "a stale read attribution is moot": however old the mapping was that let the
\* request through, the client is shown an object only if its policy reads the
\* repository that the object was in when GitHub answered.
ReadsStayAllowed ==
    \A s \in Slot, n \in Node :
        LET q == req[s]
            res == IF Type[n] = "" THEN RequestResource ELSE {Type[n]}
        IN  Executed(s) /\ q.shown[n] # "null" =>
                /\ q.at[n] \in Home
                /\ \E r \in res : Evaluate(q.in.pol, ScopeOf(q.at[n], r), "read")

\* What a request is sent is open to it: the objects of nodes by their own
\* repository, and the rest by the category that the request names.
AnswersStayAllowed == CategoriesStayGuarded /\ ReadsStayAllowed

===============================================================================
