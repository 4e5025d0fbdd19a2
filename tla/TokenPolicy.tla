----------------------------- MODULE TokenPolicy -----------------------------
(* The life of a token's policy: assembled from the flags of `bgh-proxy token *)
(* create` (or authored as JSON in the console), validated and minted by the  *)
(* server, then read back from tokens.json after every restart.  What the     *)
(* policy says of requests is Policy's.                                       *)
EXTENDS Policy, FiniteSets

\* --repo name=access and --repo-perm name:resource=access, or the same for an
\* organization.
BaseFlag(Name) == [name: Name, access: Access]
PermFlag(Name) == [name: Name, key: ResourceKey, access: Access]

CONSTANTS
    Known,     \* KnownRepoResourceKeys
    Authored,  \* the policies that the owner may author in the console
    Given,     \* the --default and --unscoped flags that command lines come with
    Flags,     \* the flags of each kind that command lines are written with
    MaxFlags   \* BOUND of the model: flags on one command line

ASSUME PolicyLifeAssumption ==
    /\ NoRepo \notin RepoName
    /\ Known \subseteq Resource
    /\ Authored \subseteq PolicySet
    /\ Given \subseteq [mode: Mode, unscoped: MapOver(Category)]
    /\ Flags \in [org: SUBSET BaseFlag(OrgName), orgPerm: SUBSET PermFlag(OrgName),
                 repo: SUBSET BaseFlag(RepoName), repoPerm: SUBSET PermFlag(RepoName)]
    /\ MaxFlags \in Nat

VARIABLES
    stage,     \* "flags": a command line is being written; "live": minted
    flags,     \* its flags of each kind, oldest first
    pol        \* the policy of the minted token

vars == <<stage, flags, pol>>

FlagsSet == [org: Seq(BaseFlag(OrgName)), orgPerm: Seq(PermFlag(OrgName)),
             repo: Seq(BaseFlag(RepoName)), repoPerm: Seq(PermFlag(RepoName))]

NoFlags == [org |-> << >>, orgPerm |-> << >>, repo |-> << >>, repoPerm |-> << >>]

EmptyPolicy == [mode |-> "deny", unscoped |-> << >>, org |-> << >>, repo |-> << >>]

\* The types: what is minted, and what is read back, is a well-formed policy.
TypeOK ==
    /\ stage \in {"flags", "live"}
    /\ flags \in FlagsSet
    /\ pol \in PolicySet

Init ==
    /\ stage = "flags"
    /\ flags = NoFlags
    /\ pol = EmptyPolicy

(* ------------------------------------------------------------------------- *)
(* tokenCreate                                                               *)
(* ------------------------------------------------------------------------- *)

\* The map that permission flags make for a name: a later flag for the same key
\* replaces an earlier one.
PermsFor(perms, n) ==
    LET given == {i \in DOMAIN perms : perms[i].name = n}
        keys == {perms[i].key : i \in given}
        last(k) == CHOOSE i \in given :
            perms[i].key = k /\ \A j \in given : perms[j].key = k => j <= i
    IN  IF keys = {} THEN NilMap ELSE [k \in keys |-> perms[last(k)].access]

\* tokenCreate that attaches the permissions of a name wherever it is written
\* last.
RulesAttachedLast(bases, perms) ==
    [i \in DOMAIN bases |->
        [name |-> bases[i].name, access |-> bases[i].access,
         perms |-> IF \A j \in DOMAIN bases : j > i => bases[j].name # bases[i].name
                   THEN PermsFor(perms, bases[i].name) ELSE NilMap]]

\* One rule for each base flag; the first of a name, as it is spelled, takes the
\* permissions given for it.
RulesFromBases(bases, perms) ==
    [i \in DOMAIN bases |->
        [name |-> bases[i].name, access |-> bases[i].access,
         perms |-> IF \A j \in DOMAIN bases : j < i => bases[j].name # bases[i].name
                   THEN PermsFor(perms, bases[i].name) ELSE NilMap]]

\* The names with permissions and no base flag.
NamesOf(given) == {given[i].name : i \in DOMAIN given}
Orphans(bases, perms) == NamesOf(perms) \ NamesOf(bases)

\* The orders in which a Go map may be walked.
WalksOf(S) ==
    {w \in [1..Cardinality(S) -> S] : \A x \in S : \E i \in DOMAIN w : w[i] = x}

\* The rules for them, as the older builds made them.
RulesReadBase(perms, walk) ==
    [i \in DOMAIN walk |-> [name |-> walk[i], access |-> AccessRead,
                            perms |-> PermsFor(perms, walk[i])]]

\* The rules for them by a loop whose variable is the same in every round.
RulesShareLast(perms, walk) ==
    [i \in DOMAIN walk |-> [name |-> walk[i], access |-> AccessNone,
                            perms |-> PermsFor(perms, walk[Len(walk)])]]

\* The rules for them: base access none.
RulesFromOrphans(perms, walk) ==
    [i \in DOMAIN walk |-> [name |-> walk[i], access |-> AccessNone,
                            perms |-> PermsFor(perms, walk[i])]]

\* The rules of a kind, in the order in which its orphans were walked.
RulesOf(bases, perms, walk) == RulesFromBases(bases, perms) \o RulesFromOrphans(perms, walk)

\* One more flag is written.
GiveFlag ==
    /\ stage = "flags"
    /\ Len(flags.org) + Len(flags.orgPerm) + Len(flags.repo) + Len(flags.repoPerm) < MaxFlags
    /\ \/ \E f \in Flags.org : flags' = [flags EXCEPT !.org = Append(@, f)]
       \/ \E f \in Flags.orgPerm : flags' = [flags EXCEPT !.orgPerm = Append(@, f)]
       \/ \E f \in Flags.repo : flags' = [flags EXCEPT !.repo = Append(@, f)]
       \/ \E f \in Flags.repoPerm : flags' = [flags EXCEPT !.repoPerm = Append(@, f)]
    /\ UNCHANGED <<stage, pol>>

\* tokenCreate sends the rules to createToken, which mints the token, or refuses
\* unknown keys: then the command ends, and another one may be written.
\* --default and --unscoped go through as they are.
TokenCreate(given) ==
    /\ stage = "flags"
    /\ \E orgs \in WalksOf(Orphans(flags.org, flags.orgPerm)),
          repos \in WalksOf(Orphans(flags.repo, flags.repoPerm)) :
          LET made == [mode |-> given.mode, unscoped |-> given.unscoped,
                       org |-> RulesOf(flags.org, flags.orgPerm, orgs),
                       repo |-> RulesOf(flags.repo, flags.repoPerm, repos)]
          IN  IF ValidateResourceKeys(made, Known)
              THEN pol' = made /\ stage' = "live" /\ flags' = flags
              ELSE flags' = NoFlags /\ UNCHANGED <<pol, stage>>

(* ------------------------------------------------------------------------- *)
(* The console, and restarts                                                 *)
(* ------------------------------------------------------------------------- *)

LoginCategories == {"user", "meta"} \cap Category

\* ensureLoginUsable that allows the categories whatever the policy said.
ensureLoginWritable(p) ==
    [p EXCEPT !.unscoped =
        [c \in DOMAIN p.unscoped \cup LoginCategories |->
            IF c \in LoginCategories THEN AccessReadWrite ELSE p.unscoped[c]]]

\* ensureLoginUsable raises the categories that gh needs to at least read.
ensureLoginUsable(p) ==
    [p EXCEPT !.unscoped =
        [c \in DOMAIN p.unscoped \cup LoginCategories |->
            IF c \in LoginCategories
                 /\ (c \notin DOMAIN p.unscoped \/ p.unscoped[c] < AccessRead)
            THEN AccessRead ELSE p.unscoped[c]]]

\* apiCreateToken and apiApprove mint the policy of the request.
ConsoleMint(p) ==
    /\ stage = "flags"
    /\ flags = NoFlags
    /\ ValidateResourceKeys(p, Known)
    /\ pol' = ensureLoginUsable(p)
    /\ stage' = "live"
    /\ UNCHANGED flags

\* `omitempty`: a permissions map without entries is not written to tokens.json
\* and is read back as nil.
OmitEmpty(rules) ==
    [i \in DOMAIN rules |->
        [rules[i] EXCEPT !.perms = IF Keys(@) = {} THEN NilMap ELSE @]]

Reloaded(p) == [p EXCEPT !.org = OmitEmpty(@), !.repo = OmitEmpty(@)]

\* The server restarts and opens its store.
Restart ==
    /\ stage = "live"
    /\ pol' = Reloaded(pol)
    /\ UNCHANGED <<stage, flags>>

Next ==
    \/ GiveFlag
    \/ \E given \in Given : TokenCreate(given)
    \/ \E p \in Authored : ConsoleMint(p)
    \/ Restart

Spec == Init /\ [][Next]_vars

(* ------------------------------------------------------------------------- *)
(* Properties                                                                *)
(* ------------------------------------------------------------------------- *)

\* The scopes of requests: a repository comes with its owner as organization.
Scopes ==
    {s \in ScopeSet : s.repo # NoRepo =>
        /\ s.org # NoOrg /\ s.org.owner = s.repo.owner
        /\ s.cat = NoCategory}

\* ServeHTTP refuses a request for nodes, without resolving them, when
\* AllowsAnyWrite, or for a read AllowsAnyRead, says no: the gates must never say
\* no to a policy that allows some write, or some read.
GatesAreComplete ==
    \A s \in Scopes :
        /\ Evaluate(pol, s, "write") => AllowsAnyWrite(pol)
        /\ Evaluate(pol, s, "read") => AllowsAnyRead(pol)

\* The GraphQL response filter keeps an object whose repository passes
\* CanReadAnything: it keeps every repository that some request may read, and
\* none that a rule of its own closes to all of them.
RedactionFollowsPolicy ==
    \A s \in Scopes : s.repo # NoRepo =>
        /\ Evaluate(pol, s, "read") => CanReadAnything(pol, s.repo, s.org)
        /\ RepoRulesOf(pol, s.repo) # {} /\ CanReadAnything(pol, s.repo, s.org)
             => \E res \in RequestResource : Evaluate(pol, [s EXCEPT !.res = res], "read")

\* The short cuts that ServeHTTP and the response filter take past Evaluate agree
\* with it.
ShortCutsAgree == GatesAreComplete /\ RedactionFollowsPolicy

\* "this never widens repo access" (README on tokens minted by sign-in): raising
\* the login categories changes no verdict on a repository or an organization
\* and no verdict on a write, whatever the policy and its mode.
LoginRaisesOnlyLoginReads ==
    LET raised == ensureLoginUsable(pol) IN
    \A s \in Scopes, level \in Level :
        Evaluate(raised, s, level) # Evaluate(pol, s, level) =>
            /\ s.repo = NoRepo /\ s.org = NoOrg /\ s.cat \in LoginCategories
            /\ level = "read" /\ Evaluate(raised, s, level)

\* An opaque repository id may be any repository below the organization: when
\* AnyRepoDeniesWriteUnderOrg clears a write to a resource, every repository
\* with a rule there allows it.
OpaqueIdsAreSafe ==
    \A o \in OrgName, res \in Resource :
        ~AnyRepoDeniesWriteUnderOrg(pol, o, res) =>
            \A s \in Scopes :
                /\ s.repo # NoRepo
                /\ s.org = o
                /\ s.res = res
                /\ RepoRulesOf(pol, s.repo) # {}
                => Evaluate(pol, s, "write")

\* The spellings of a repository that may govern it: that of its first --repo
\* flag, or without one any that its --repo-perm flags use.
GoverningNames(repo) ==
    LET based == {i \in DOMAIN flags.repo : SameRepo(flags.repo[i].name, repo)}
    IN  IF based # {} THEN {flags.repo[First(based)].name}
        ELSE {n \in NamesOf(flags.repoPerm) : SameRepo(n, repo)}

\* README "per-resource permissions take priority over the rule's base access":
\* one spelling of a repository governs it, and each --repo-perm flag in that
\* spelling that was not given again decides the requests for its resource.  (A
\* flag in another spelling of a name that is matched whatever its case decides
\* nothing; a command line that spells its names once has no such flag.)
RepoPermFlagsDecide ==
    LET perms == flags.repoPerm
        current(i) == \A j \in DOMAIN perms :
            j > i => perms[j].name # perms[i].name \/ perms[j].key # perms[i].key
    IN  stage = "live" =>
        \A r \in RepoName : GoverningNames(r) # {} => \E n \in GoverningNames(r) :
            \A i \in DOMAIN perms : perms[i].name = n /\ current(i) =>
                \A s \in Scopes, level \in Level :
                    s.repo = r /\ s.res = perms[i].key.res
                    => (Evaluate(pol, s, level) <=> permits(perms[i].access, level))

\* README "grants only pulls": a repository named by --repo-perm flags alone is
\* open for the resources of those flags and for nothing else.
BareRepoPermGrantsNoMore ==
    LET perms == flags.repoPerm
        given(s) == {i \in DOMAIN perms : SameRepo(perms[i].name, s.repo)}
    IN  stage = "live" =>
        \A s \in Scopes, level \in Level :
            /\ s.repo # NoRepo
            /\ given(s) # {}
            /\ \A i \in DOMAIN flags.repo : ~SameRepo(flags.repo[i].name, s.repo)
            /\ Evaluate(pol, s, level)
            => \E i \in given(s) : perms[i].key.res = s.res

\* The --repo-perm flags of a command line mean what README says of them, in
\* whatever order flags of a kind are given and Go walks its maps.
RepoPermFlagsHold == RepoPermFlagsDecide /\ BareRepoPermGrantsNoMore

==============================================================================
