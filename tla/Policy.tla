------------------------------- MODULE Policy --------------------------------
(* The policy engine (internal/policy): what one policy says of one request.  *)
(* A policy holds an ordered list of repository rules, one of organization    *)
(* rules, access levels for categories of requests that name neither, and a   *)
(* default mode.  Everything here is an operator; TokenPolicy gives policies  *)
(* their life.                                                                *)
(*                                                                            *)
(* A name is what it denotes together with the way its letters are cased:     *)
(* strings.EqualFold compares what is denoted.  The same goes for the         *)
(* per-resource keys of a rule.                                               *)
EXTENDS Naturals, Sequences

CONSTANTS
    Owner,     \* organizations and users, as GitHub tells them apart
    Short,     \* repository names below an owner
    Casing,    \* ways to write a name; "lower" is how requests write resources
    Resource,  \* the per-resource keys that requests carry ("pulls", ...)
    Category,  \* the unscoped categories
    NilMap,    \* a permissions map that is nil, unlike an empty one
    NoRepo, NoOrg, NoCategory

ASSUME PolicySentinels ==
    /\ "lower" \in Casing
    /\ Resource \cap {"", "unknown"} = {}
    /\ NoCategory \notin Category

RepoName == [owner: Owner, short: Short, casing: Casing]
OrgName == [owner: Owner, casing: Casing]
ResourceKey == [res: Resource, casing: Casing]

AccessNone == 0
AccessRead == 1
AccessReadWrite == 2
Access == AccessNone..AccessReadWrite

Level == {"read", "write"}
Mode == {"deny", "read", "allow"}

\* "": no resource could be told; "unknown": one the classifier does not know.
Indeterminate == {"", "unknown"}
RequestResource == Resource \cup Indeterminate

\* Maps whose keys are in K.
MapOver(K) == UNION {[D -> Access] : D \in SUBSET K}

\* A nil map is told from an empty one.
ASSUME NilIsNoMap == NilMap \notin MapOver(ResourceKey)

Perms == MapOver(ResourceKey) \cup {NilMap}
RepoRule == [name: RepoName, access: Access, perms: Perms]
OrgRule == [name: OrgName, access: Access, perms: Perms]
PolicySet == [mode: Mode, unscoped: MapOver(Category),
              org: Seq(OrgRule), repo: Seq(RepoRule)]

\* What a request asks of one scope.
ScopeSet == [repo: RepoName \cup {NoRepo}, org: OrgName \cup {NoOrg},
             res: RequestResource, cat: Category \cup {NoCategory}]

\* strings.EqualFold of repository and of organization names.
SameRepo(a, b) == a.owner = b.owner /\ a.short = b.short
SameOrg(a, b) == a.owner = b.owner

\* The rules of the name, and the one of them that governs: the first.
RepoRulesOf(p, repo) ==
    IF repo = NoRepo THEN {} ELSE {i \in DOMAIN p.repo : SameRepo(p.repo[i].name, repo)}
OrgRulesOf(p, org) ==
    IF org = NoOrg THEN {} ELSE {i \in DOMAIN p.org : SameOrg(p.org[i].name, org)}
First(S) == CHOOSE i \in S : \A j \in S : i <= j

permits(rule, level) ==
    \/ rule = AccessReadWrite
    \/ rule = AccessRead /\ level = "read"

Keys(perms) == IF perms = NilMap THEN {} ELSE DOMAIN perms

\* lookupResource: the key as requests write it, else the least access among
\* the keys that differ from it in casing alone.
lookupResource(perms, res) ==
    LET exact == [res |-> res, casing |-> "lower"]
        folding == {k \in Keys(perms) : k.res = res}
    IN  [ok |-> folding # {},
         access |-> IF exact \in Keys(perms) THEN perms[exact]
                    ELSE IF folding = {} THEN AccessReadWrite
                    ELSE CHOOSE a \in Access :
                        /\ \E k \in folding : perms[k] = a
                        /\ \A k \in folding : a <= perms[k]]

\* What the rule that governs a request says: a per-resource entry before the
\* base access, and no base access for a write that cannot be told from a
\* denied resource.
RuleAllows(rule, level, res) ==
    IF res \notin Indeterminate /\ lookupResource(rule.perms, res).ok
    THEN permits(lookupResource(rule.perms, res).access, level)
    ELSE /\ ~(rule.perms # NilMap /\ level = "write" /\ res \in Indeterminate)
         /\ permits(rule.access, level)

\* Evaluate: the first repository rule of the name, else the first organization
\* rule, else the category, else the mode, which never allows an unscoped write.
Evaluate(p, s, level) ==
    IF RepoRulesOf(p, s.repo) # {}
    THEN RuleAllows(p.repo[First(RepoRulesOf(p, s.repo))], level, s.res)
    ELSE IF OrgRulesOf(p, s.org) # {}
    THEN RuleAllows(p.org[First(OrgRulesOf(p, s.org))], level, s.res)
    ELSE IF s.repo = NoRepo /\ s.org = NoOrg /\ s.cat \in DOMAIN p.unscoped
    THEN permits(p.unscoped[s.cat], level)
    ELSE /\ ~(level = "write" /\ s.repo = NoRepo /\ s.org = NoOrg)
         /\ p.mode = "allow" \/ (p.mode = "read" /\ level = "read")

\* The accesses that a rule grants to anything, and those of a list of rules.
Grants(rule) == {rule.access} \cup {rule.perms[k] : k \in Keys(rule.perms)}
GrantsOf(rules) == UNION {Grants(rules[i]) : i \in DOMAIN rules}
UnscopedGrants(p) == {p.unscoped[c] : c \in DOMAIN p.unscoped}

\* AllowsAnyWrite that does not look into the organization rules' permissions.
AllowsAnyWriteByBase(p) ==
    \/ p.mode = "allow"
    \/ AccessReadWrite \in UnscopedGrants(p) \cup GrantsOf(p.repo)
           \cup {p.org[i].access : i \in DOMAIN p.org}

AllowsAnyWrite(p) ==
    \/ p.mode = "allow"
    \/ AccessReadWrite \in UnscopedGrants(p) \cup GrantsOf(p.org) \cup GrantsOf(p.repo)

\* AllowsAnyRead that does not look into the repository rules' permissions.
AllowsAnyReadByBase(p) ==
    \/ p.mode \in {"allow", "read"}
    \/ \E a \in UnscopedGrants(p) \cup GrantsOf(p.org)
                \cup {p.repo[i].access : i \in DOMAIN p.repo} : a # AccessNone

AllowsAnyRead(p) ==
    \/ p.mode \in {"allow", "read"}
    \/ \E a \in UnscopedGrants(p) \cup GrantsOf(p.org) \cup GrantsOf(p.repo) :
           a # AccessNone

\* CanReadAnything that looks at the base access of the rule alone.
CanReadAnythingByBase(p, repo, org) ==
    IF RepoRulesOf(p, repo) # {}
    THEN p.repo[First(RepoRulesOf(p, repo))].access # AccessNone
    ELSE IF OrgRulesOf(p, org) # {}
    THEN p.org[First(OrgRulesOf(p, org))].access # AccessNone
    ELSE p.mode \in {"allow", "read"}

\* CanReadAnything: whether the governing rule grants a read of any part.
CanReadAnything(p, repo, org) ==
    IF RepoRulesOf(p, repo) # {}
    THEN Grants(p.repo[First(RepoRulesOf(p, repo))]) # {AccessNone}
    ELSE IF OrgRulesOf(p, org) # {}
    THEN Grants(p.org[First(OrgRulesOf(p, org))]) # {AccessNone}
    ELSE p.mode \in {"allow", "read"}

\* AnyRepoDeniesWriteUnderOrg that looks at the base access alone.
AnyRepoDeniesWriteByBase(p, org, res) ==
    \E i \in DOMAIN p.repo :
        p.repo[i].name.owner = org.owner /\ ~permits(p.repo[i].access, "write")

\* AnyRepoDeniesWriteUnderOrg: some repository rule below the organization, be
\* it the first of its name or not, refuses a write to the resource.
AnyRepoDeniesWriteUnderOrg(p, org, res) ==
    \E i \in DOMAIN p.repo :
        LET entry == lookupResource(p.repo[i].perms, res) IN
        /\ p.repo[i].name.owner = org.owner
        /\ ~permits(IF res \notin Indeterminate /\ entry.ok
                    THEN entry.access ELSE p.repo[i].access, "write")

\* ValidateResourceKeys: the known keys are written in lower case.
ValidateResourceKeys(p, known) ==
    \A i \in DOMAIN p.repo : \A k \in Keys(p.repo[i].perms) :
        k.casing = "lower" /\ k.res \in known

==============================================================================
