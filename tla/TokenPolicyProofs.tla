--------------------------- MODULE TokenPolicyProofs ---------------------------
(* Proofs about TokenPolicy.  First about any policy: the short cuts that the *)
(* proxy takes past Evaluate agree with it for policies of any length over    *)
(* any names, resources and categories, where the runs have rules for two     *)
(* repositories.  Then about the life of a token's policy: whatever flags,    *)
(* console and restarts make of it, it stays one of those policies, and the   *)
(* --repo-perm flags mean what README says of them.                           *)
EXTENDS TokenPolicy, TLAPS, WellFoundedInduction, FiniteSetTheorems, SequenceTheorems

\* No two keys of a map differ in their casing alone.
SpeltOnce(perms) == \A k, m \in Keys(perms) : k.res = m.res => k = m

(* ------------------------------------------------------------------------- *)
(* The rules that govern                                                     *)
(* ------------------------------------------------------------------------- *)

\* The first of a set of positions is one of them, and no other comes before it.
LEMMA FirstIsOne ==
    ASSUME NEW S \in SUBSET Nat, S # {}
    PROVE  First(S) \in S /\ \A j \in S : First(S) <= j
<1>1. \E i \in S : \A j \in S : <<j, i>> \notin OpToRel(<, Nat)
    BY WFMin, NatLessThanWellFounded, Zenon
<1>2. PICK i \in S : \A j \in S : <<j, i>> \notin OpToRel(<, Nat)
    BY <1>1
<1>3. \A j \in S : ~(j < i)
    BY <1>2 DEF OpToRel
<1>4. \A j \in S : i <= j
    BY <1>3
<1> QED BY <1>4 DEF First

\* The rules of a name are rules of the policy.
LEMMA RulesOfPolicy ==
    ASSUME NEW p \in PolicySet, NEW repo, NEW org
    PROVE  /\ RepoRulesOf(p, repo) # {} =>
                  /\ First(RepoRulesOf(p, repo)) \in RepoRulesOf(p, repo)
                  /\ First(RepoRulesOf(p, repo)) \in DOMAIN p.repo
                  /\ p.repo[First(RepoRulesOf(p, repo))] \in RepoRule
           /\ OrgRulesOf(p, org) # {} =>
                  /\ First(OrgRulesOf(p, org)) \in OrgRulesOf(p, org)
                  /\ First(OrgRulesOf(p, org)) \in DOMAIN p.org
                  /\ p.org[First(OrgRulesOf(p, org))] \in OrgRule
<1>1. p.repo \in Seq(RepoRule) /\ p.org \in Seq(OrgRule)
    BY DEF PolicySet
<1>2. /\ RepoRulesOf(p, repo) \subseteq DOMAIN p.repo /\ DOMAIN p.repo \subseteq Nat
      /\ OrgRulesOf(p, org) \subseteq DOMAIN p.org /\ DOMAIN p.org \subseteq Nat
    BY <1>1 DEF RepoRulesOf, OrgRulesOf
<1>3. RepoRulesOf(p, repo) # {} => First(RepoRulesOf(p, repo)) \in RepoRulesOf(p, repo)
    BY <1>2, FirstIsOne
<1>4. OrgRulesOf(p, org) # {} => First(OrgRulesOf(p, org)) \in OrgRulesOf(p, org)
    BY <1>2, FirstIsOne
<1> QED BY <1>1, <1>2, <1>3, <1>4

\* A permissions map gives each of its keys an access.
LEMMA PermsGiveAccess ==
    ASSUME NEW perms \in Perms, NEW k \in Keys(perms)
    PROVE  perms[k] \in Access /\ k \in ResourceKey
BY DEF Perms, MapOver, Keys

\* What lookupResource finds is the access of some entry for the resource.
LEMMA LookupFindsAnEntry ==
    ASSUME NEW perms \in Perms, NEW res, lookupResource(perms, res).ok
    PROVE  \E k \in Keys(perms) : k.res = res /\ lookupResource(perms, res).access = perms[k]
<1> DEFINE exact == [res |-> res, casing |-> "lower"]
           folding == {k \in Keys(perms) : k.res = res}
           least(a) == (\E k \in folding : perms[k] = a) /\ \A k \in folding : a <= perms[k]
<1>0. folding # {}
    BY DEF lookupResource
<1>1. CASE exact \in Keys(perms)
    BY <1>1 DEF lookupResource
<1>2. CASE exact \notin Keys(perms)
    <2>1. \A k \in folding : perms[k] \in {0, 1, 2}
        BY PermsGiveAccess DEF Access, AccessNone, AccessReadWrite
    <2>2. \E a \in Access : least(a)
        <3>1. CASE \E k \in folding : perms[k] = 0
            BY <3>1, <2>1 DEF Access, AccessNone, AccessReadWrite
        <3>2. CASE (\A k \in folding : perms[k] # 0) /\ \E k \in folding : perms[k] = 1
            BY <3>2, <2>1 DEF Access, AccessNone, AccessReadWrite
        <3>3. CASE \A k \in folding : perms[k] = 2
            BY <3>3, <1>0 DEF Access, AccessNone, AccessReadWrite
        <3> QED BY <3>1, <3>2, <3>3, <2>1
    <2>3. lookupResource(perms, res).access = CHOOSE a \in Access : least(a)
        BY <1>0, <1>2 DEF lookupResource
    <2>4. least(CHOOSE a \in Access : least(a))
        BY <2>2
    <2> QED BY <2>3, <2>4
<1> QED BY <1>1, <1>2

\* What a rule allows, one of its accesses permits.
LEMMA RuleAllowsAGrant ==
    ASSUME NEW rule, rule.perms \in Perms, NEW level, NEW res, RuleAllows(rule, level, res)
    PROVE  \E a \in Grants(rule) : permits(a, level)
<1>1. CASE res \notin Indeterminate /\ lookupResource(rule.perms, res).ok
    <2>1. PICK k \in Keys(rule.perms) : lookupResource(rule.perms, res).access = rule.perms[k]
        BY <1>1, LookupFindsAnEntry
    <2>2. permits(rule.perms[k], level)
        BY <1>1, <2>1 DEF RuleAllows
    <2> QED BY <2>1, <2>2 DEF Grants
<1>2. CASE ~(res \notin Indeterminate /\ lookupResource(rule.perms, res).ok)
    BY <1>2 DEF RuleAllows, Grants
<1> QED BY <1>1, <1>2

\* What Evaluate allows comes of a rule, a category or the mode.
LEMMA EvaluateHasAReason ==
    ASSUME NEW p \in PolicySet, NEW s, NEW level \in Level, Evaluate(p, s, level)
    PROVE  \/ \E i \in DOMAIN p.repo : \E a \in Grants(p.repo[i]) : permits(a, level)
           \/ \E i \in DOMAIN p.org : \E a \in Grants(p.org[i]) : permits(a, level)
           \/ \E c \in DOMAIN p.unscoped : permits(p.unscoped[c], level)
           \/ p.mode = "allow" \/ (p.mode = "read" /\ level = "read")
<1>1. CASE RepoRulesOf(p, s.repo) # {}
    <2> DEFINE i == First(RepoRulesOf(p, s.repo))
    <2>1. i \in DOMAIN p.repo /\ p.repo[i].perms \in Perms
        BY <1>1, RulesOfPolicy DEF RepoRule
    <2>2. RuleAllows(p.repo[i], level, s.res)
        BY <1>1 DEF Evaluate
    <2> QED BY <2>1, <2>2, RuleAllowsAGrant
<1>2. CASE RepoRulesOf(p, s.repo) = {} /\ OrgRulesOf(p, s.org) # {}
    <2> DEFINE i == First(OrgRulesOf(p, s.org))
    <2>1. i \in DOMAIN p.org /\ p.org[i].perms \in Perms
        BY <1>2, RulesOfPolicy DEF OrgRule
    <2>2. RuleAllows(p.org[i], level, s.res)
        BY <1>2 DEF Evaluate
    <2> QED BY <2>1, <2>2, RuleAllowsAGrant
<1>3. CASE RepoRulesOf(p, s.repo) = {} /\ OrgRulesOf(p, s.org) = {}
    BY <1>3 DEF Evaluate
<1> QED BY <1>1, <1>2, <1>3

\* A rule that grants something lets some request read under it, if its map
\* spells no key in two ways.  (Of a key spelled twice the least access counts.)
LEMMA GrantsAreReadable ==
    ASSUME NEW rule, rule.access \in Access, rule.perms \in Perms, SpeltOnce(rule.perms),
           Grants(rule) # {AccessNone}
    PROVE  \E res \in RequestResource : RuleAllows(rule, "read", res)
<1>1. PICK a \in Grants(rule) : a # AccessNone
    BY DEF Grants
<1>2. \A b \in Access : b # AccessNone => permits(b, "read")
    BY DEF permits, Access, AccessReadWrite, AccessRead, AccessNone
<1>3. CASE rule.access # AccessNone
    <2>1. permits(rule.access, "read")
        BY <1>2, <1>3
    <2>2. RuleAllows(rule, "read", "") /\ "" \in RequestResource
        BY <2>1 DEF RuleAllows, Indeterminate, RequestResource
    <2> QED BY <2>2
<1>4. CASE rule.access = AccessNone
    <2>1. PICK k \in Keys(rule.perms) : rule.perms[k] # AccessNone
        BY <1>1, <1>4 DEF Grants
    <2>2. k \in ResourceKey /\ rule.perms[k] \in Access /\ k.res \in Resource
        BY <2>1, PermsGiveAccess DEF ResourceKey
    <2>3. {m \in Keys(rule.perms) : m.res = k.res} = {k}
        BY <2>1 DEF SpeltOnce
    <2>4. lookupResource(rule.perms, k.res).ok
        BY <2>3 DEF lookupResource
    <2>5. PICK m \in Keys(rule.perms) :
              m.res = k.res /\ lookupResource(rule.perms, k.res).access = rule.perms[m]
        BY <2>4, LookupFindsAnEntry
    <2>6. permits(lookupResource(rule.perms, k.res).access, "read")
        BY <2>1, <2>2, <2>3, <2>5, <1>2
    <2>7. k.res \notin Indeterminate /\ k.res \in RequestResource
        BY <2>2, PolicySentinels DEF Indeterminate, RequestResource
    <2>8. RuleAllows(rule, "read", k.res)
        BY <2>4, <2>6, <2>7 DEF RuleAllows
    <2> QED BY <2>7, <2>8
<1> QED BY <1>3, <1>4

\* What CanReadAnything keeps, some request may read: as long as the rule that
\* governs the repository spells no key in two ways.
LEMMA KeptIsReadable ==
    ASSUME NEW p \in PolicySet, NEW repo, NEW org,
           \A i \in RepoRulesOf(p, repo) : SpeltOnce(p.repo[i].perms),
           RepoRulesOf(p, repo) = {} =>
               \A i \in OrgRulesOf(p, org) : SpeltOnce(p.org[i].perms),
           CanReadAnything(p, repo, org)
    PROVE  \E res \in RequestResource :
               \A s : s.repo = repo /\ s.org = org /\ s.res = res /\ s.cat = NoCategory
                      => Evaluate(p, s, "read")
<1> DEFINE R == RepoRulesOf(p, repo)
           O == OrgRulesOf(p, org)
<1>1. CASE R # {}
    <2>1. p.repo[First(R)] \in RepoRule /\ SpeltOnce(p.repo[First(R)].perms)
        BY <1>1, RulesOfPolicy
    <2>2. Grants(p.repo[First(R)]) # {AccessNone}
        BY <1>1 DEF CanReadAnything
    <2>3. PICK res \in RequestResource : RuleAllows(p.repo[First(R)], "read", res)
        BY <2>1, <2>2, GrantsAreReadable DEF RepoRule
    <2> QED BY <1>1, <2>3 DEF Evaluate
<1>2. CASE R = {} /\ O # {}
    <2>1. p.org[First(O)] \in OrgRule /\ SpeltOnce(p.org[First(O)].perms)
        BY <1>2, RulesOfPolicy
    <2>2. Grants(p.org[First(O)]) # {AccessNone}
        BY <1>2 DEF CanReadAnything
    <2>3. PICK res \in RequestResource : RuleAllows(p.org[First(O)], "read", res)
        BY <2>1, <2>2, GrantsAreReadable DEF OrgRule
    <2> QED BY <1>2, <2>3 DEF Evaluate
<1>3. CASE R = {} /\ O = {}
    <2>1. p.mode \in {"allow", "read"}
        BY <1>3 DEF CanReadAnything
    <2>2. "" \in RequestResource
        BY DEF RequestResource, Indeterminate
    <2>3. NoCategory \notin DOMAIN p.unscoped
        BY PolicySentinels DEF PolicySet, MapOver
    <2> QED BY <1>3, <2>1, <2>2, <2>3 DEF Evaluate
<1> QED BY <1>1, <1>2, <1>3

\* A policy whose keys were validated spells none of its repository rules' keys
\* in two ways.
LEMMA ValidatedKeysAreSpeltOnce ==
    ASSUME NEW p \in PolicySet, NEW known, ValidateResourceKeys(p, known)
    PROVE  \A i \in DOMAIN p.repo : SpeltOnce(p.repo[i].perms)
<1> SUFFICES ASSUME NEW i \in DOMAIN p.repo,
                    NEW k \in Keys(p.repo[i].perms), NEW m \in Keys(p.repo[i].perms),
                    k.res = m.res
             PROVE  k = m
    BY DEF SpeltOnce
<1>1. p.repo[i].perms \in Perms
    <2>1. p.repo \in Seq(RepoRule)
        BY DEF PolicySet
    <2>2. p.repo[i] \in RepoRule
        BY <2>1
    <2> QED BY <2>2 DEF RepoRule
<1>2. k \in ResourceKey /\ m \in ResourceKey
    BY <1>1, PermsGiveAccess
<1>3. k.casing = "lower" /\ m.casing = "lower"
    BY DEF ValidateResourceKeys
<1> QED BY <1>2, <1>3 DEF ResourceKey

\* A write that names no repository and no organization is allowed by nothing
\* but the category that it names.
LEMMA UnscopedWritesNeedACategory ==
    ASSUME NEW p \in PolicySet, NEW s, s.repo = NoRepo, s.org = NoOrg, s.cat = NoCategory
    PROVE  ~Evaluate(p, s, "write")
<1>1. NoCategory \notin DOMAIN p.unscoped
    BY PolicySentinels DEF PolicySet, MapOver
<1> QED BY <1>1 DEF Evaluate, RepoRulesOf, OrgRulesOf

(* ------------------------------------------------------------------------- *)
(* The short cuts                                                            *)
(* ------------------------------------------------------------------------- *)

\* The gates before the resolution of nodes refuse nothing that Evaluate allows.
THEOREM GatesAreCompleteAlways == pol \in PolicySet => GatesAreComplete
<1> SUFFICES ASSUME pol \in PolicySet, NEW s \in Scopes
             PROVE  /\ Evaluate(pol, s, "write") => AllowsAnyWrite(pol)
                    /\ Evaluate(pol, s, "read") => AllowsAnyRead(pol)
    BY DEF GatesAreComplete
<1>1. \A a : /\ permits(a, "write") => a = AccessReadWrite
             /\ permits(a, "read") => a # AccessNone
    BY DEF permits, AccessReadWrite, AccessRead, AccessNone
<1>2. ASSUME Evaluate(pol, s, "write") PROVE AllowsAnyWrite(pol)
    <2>1. \/ \E i \in DOMAIN pol.repo : \E a \in Grants(pol.repo[i]) : permits(a, "write")
          \/ \E i \in DOMAIN pol.org : \E a \in Grants(pol.org[i]) : permits(a, "write")
          \/ \E c \in DOMAIN pol.unscoped : permits(pol.unscoped[c], "write")
          \/ pol.mode = "allow"
        BY <1>2, EvaluateHasAReason DEF Level
    <2> QED BY <2>1, <1>1 DEF AllowsAnyWrite, GrantsOf, UnscopedGrants
<1>3. ASSUME Evaluate(pol, s, "read") PROVE AllowsAnyRead(pol)
    <2>1. \/ \E i \in DOMAIN pol.repo : \E a \in Grants(pol.repo[i]) : permits(a, "read")
          \/ \E i \in DOMAIN pol.org : \E a \in Grants(pol.org[i]) : permits(a, "read")
          \/ \E c \in DOMAIN pol.unscoped : permits(pol.unscoped[c], "read")
          \/ pol.mode = "allow" \/ pol.mode = "read"
        BY <1>3, EvaluateHasAReason DEF Level
    <2> QED BY <2>1, <1>1 DEF AllowsAnyRead, GrantsOf, UnscopedGrants
<1> QED BY <1>2, <1>3

\* The response filter's test keeps what some request may read, and, given that
\* keys were validated, nothing that a rule of its own closes to all of them.
\* (With the same key in two casings, one of them closed, it would.)
THEOREM RedactionFollowsPolicyAlways ==
    pol \in PolicySet /\ ValidateResourceKeys(pol, Known) => RedactionFollowsPolicy
<1> SUFFICES ASSUME pol \in PolicySet, ValidateResourceKeys(pol, Known),
                    NEW s \in Scopes, s.repo # NoRepo
             PROVE  /\ Evaluate(pol, s, "read") => CanReadAnything(pol, s.repo, s.org)
                    /\ RepoRulesOf(pol, s.repo) # {} /\ CanReadAnything(pol, s.repo, s.org)
                         => \E res \in RequestResource :
                                Evaluate(pol, [s EXCEPT !.res = res], "read")
    BY DEF RedactionFollowsPolicy
<1> DEFINE R == RepoRulesOf(pol, s.repo)
           O == OrgRulesOf(pol, s.org)
<1>0. \A a : permits(a, "read") => a # AccessNone
    BY DEF permits, AccessReadWrite, AccessRead, AccessNone
<1>1. ASSUME Evaluate(pol, s, "read") PROVE CanReadAnything(pol, s.repo, s.org)
    <2>1. CASE R # {}
        <3>1. pol.repo[First(R)].perms \in Perms
            BY <2>1, RulesOfPolicy DEF RepoRule
        <3>2. RuleAllows(pol.repo[First(R)], "read", s.res)
            BY <1>1, <2>1 DEF Evaluate
        <3>3. \E a \in Grants(pol.repo[First(R)]) : a # AccessNone
            BY <3>1, <3>2, RuleAllowsAGrant, <1>0
        <3> QED BY <3>3, <2>1 DEF CanReadAnything
    <2>2. CASE R = {} /\ O # {}
        <3>1. pol.org[First(O)].perms \in Perms
            BY <2>2, RulesOfPolicy DEF OrgRule
        <3>2. RuleAllows(pol.org[First(O)], "read", s.res)
            BY <1>1, <2>2 DEF Evaluate
        <3>3. \E a \in Grants(pol.org[First(O)]) : a # AccessNone
            BY <3>1, <3>2, RuleAllowsAGrant, <1>0
        <3> QED BY <3>3, <2>2 DEF CanReadAnything
    <2>3. CASE R = {} /\ O = {}
        BY <1>1, <2>3 DEF Evaluate, CanReadAnything
    <2> QED BY <2>1, <2>2, <2>3
<1>2. ASSUME R # {}, CanReadAnything(pol, s.repo, s.org)
      PROVE  \E res \in RequestResource : Evaluate(pol, [s EXCEPT !.res = res], "read")
    <2>1. \A i \in R : SpeltOnce(pol.repo[i].perms)
        BY ValidatedKeysAreSpeltOnce DEF RepoRulesOf
    <2>2. PICK res \in RequestResource :
              \A t : t.repo = s.repo /\ t.org = s.org /\ t.res = res /\ t.cat = NoCategory
                     => Evaluate(pol, t, "read")
        BY <1>2, <2>1, KeptIsReadable
    <2>3. /\ [s EXCEPT !.res = res].repo = s.repo /\ [s EXCEPT !.res = res].org = s.org
          /\ [s EXCEPT !.res = res].res = res /\ [s EXCEPT !.res = res].cat = NoCategory
        BY DEF Scopes, ScopeSet
    <2> QED BY <2>2, <2>3
<1> QED BY <1>1, <1>2

\* Both together: a validated policy's short cuts agree with Evaluate.
THEOREM ShortCutsAgreeAlways ==
    pol \in PolicySet /\ ValidateResourceKeys(pol, Known) => ShortCutsAgree
BY GatesAreCompleteAlways, RedactionFollowsPolicyAlways DEF ShortCutsAgree

\* An opaque id is cleared for a write only if every repository rule below the
\* organization allows it.
THEOREM OpaqueIdsAreSafeAlways == pol \in PolicySet => OpaqueIdsAreSafe
<1> SUFFICES ASSUME pol \in PolicySet, NEW o \in OrgName, NEW res \in Resource,
                    ~AnyRepoDeniesWriteUnderOrg(pol, o, res),
                    NEW s \in Scopes, s.repo # NoRepo, s.org = o, s.res = res,
                    RepoRulesOf(pol, s.repo) # {}
             PROVE  Evaluate(pol, s, "write")
    BY DEF OpaqueIdsAreSafe
<1> DEFINE i == First(RepoRulesOf(pol, s.repo))
<1>1. i \in RepoRulesOf(pol, s.repo) /\ i \in DOMAIN pol.repo
    BY RulesOfPolicy
<1>2. pol.repo[i].name.owner = o.owner
    BY <1>1 DEF RepoRulesOf, SameRepo, Scopes
<1>3. res \notin Indeterminate
    BY PolicySentinels DEF Indeterminate
<1>4. LET entry == lookupResource(pol.repo[i].perms, res) IN
          permits(IF entry.ok THEN entry.access ELSE pol.repo[i].access, "write")
    BY <1>1, <1>2, <1>3 DEF AnyRepoDeniesWriteUnderOrg
<1>5. RuleAllows(pol.repo[i], "write", s.res)
    BY <1>3, <1>4 DEF RuleAllows
<1> QED BY <1>5 DEF Evaluate

(* ------------------------------------------------------------------------- *)
(* The login categories                                                      *)
(* ------------------------------------------------------------------------- *)

\* Raising the login categories makes nothing but reads of them readable.
THEOREM LoginRaisesOnlyLoginReadsAlways == pol \in PolicySet => LoginRaisesOnlyLoginReads
<1> SUFFICES ASSUME pol \in PolicySet, NEW s \in Scopes, NEW level \in Level,
                    Evaluate(ensureLoginUsable(pol), s, level) # Evaluate(pol, s, level)
             PROVE  /\ s.repo = NoRepo /\ s.org = NoOrg /\ s.cat \in LoginCategories
                    /\ level = "read" /\ Evaluate(ensureLoginUsable(pol), s, level)
    BY DEF LoginRaisesOnlyLoginReads
<1> DEFINE raised == ensureLoginUsable(pol)
           C == DOMAIN pol.unscoped
<1>1. /\ raised.repo = pol.repo /\ raised.org = pol.org /\ raised.mode = pol.mode
      /\ DOMAIN raised.unscoped = C \cup LoginCategories
      /\ \A c \in C \cup LoginCategories :
             raised.unscoped[c] = IF c \in LoginCategories /\ (c \notin C \/ pol.unscoped[c] < AccessRead)
                                  THEN AccessRead ELSE pol.unscoped[c]
    BY DEF ensureLoginUsable, PolicySet
<1> HIDE DEF raised
<1>2. /\ RepoRulesOf(raised, s.repo) = RepoRulesOf(pol, s.repo)
      /\ OrgRulesOf(raised, s.org) = OrgRulesOf(pol, s.org)
    BY <1>1 DEF RepoRulesOf, OrgRulesOf
<1>3. RepoRulesOf(pol, s.repo) = {} /\ OrgRulesOf(pol, s.org) = {}
    BY <1>1, <1>2 DEF Evaluate, raised
<1>4. s.repo = NoRepo /\ s.org = NoOrg
    BY <1>1, <1>2, <1>3 DEF Evaluate, raised
<1>5. s.cat \in LoginCategories
    <2>1. s.cat \notin LoginCategories => (s.cat \in DOMAIN raised.unscoped <=> s.cat \in C)
        BY <1>1
    <2>2. s.cat \notin LoginCategories /\ s.cat \in C => raised.unscoped[s.cat] = pol.unscoped[s.cat]
        BY <1>1
    <2> QED BY <2>1, <2>2, <1>1, <1>2, <1>3, <1>4 DEF Evaluate, raised
<1>6. s.cat \in C => pol.unscoped[s.cat] \in Access
    BY DEF PolicySet, MapOver
<1>7. Evaluate(raised, s, level) <=> permits(raised.unscoped[s.cat], level)
    BY <1>1, <1>2, <1>3, <1>4, <1>5 DEF Evaluate
<1>8. CASE s.cat \in C /\ pol.unscoped[s.cat] # AccessNone
    <2>1. raised.unscoped[s.cat] = pol.unscoped[s.cat]
        BY <1>1, <1>5, <1>6, <1>8 DEF Access, AccessRead, AccessNone, AccessReadWrite
    <2>2. Evaluate(pol, s, level) <=> permits(pol.unscoped[s.cat], level)
        BY <1>3, <1>4, <1>8 DEF Evaluate
    <2>3. Evaluate(pol, s, level) <=> Evaluate(raised, s, level)
        BY <2>1, <2>2, <1>7
    <2> QED BY <2>3 DEF raised, Evaluate, RuleAllows, permits
<1>9. CASE s.cat \notin C \/ pol.unscoped[s.cat] = AccessNone
    <2>1. raised.unscoped[s.cat] = AccessRead
        BY <1>1, <1>5, <1>9 DEF AccessRead, AccessNone
    <2>2. Evaluate(raised, s, level) <=> level = "read"
        BY <1>7, <2>1 DEF permits, AccessRead, AccessReadWrite
    <2>3. level = "write" => ~Evaluate(pol, s, level)
        BY <1>3, <1>4, <1>9 DEF Evaluate, permits, AccessNone, AccessRead, AccessReadWrite
    <2>4. CASE level = "write"
        <3>1. ~Evaluate(raised, s, level) /\ ~Evaluate(pol, s, level)
            BY <2>2, <2>3, <2>4
        <3>2. Evaluate(raised, s, level) <=> Evaluate(pol, s, level)
            BY <3>1
        <3> QED BY <3>2 DEF raised, Evaluate, RuleAllows, permits
    <2>5. CASE level = "read"
        BY <2>2, <2>5, <1>4, <1>5 DEF raised
    <2> QED BY <2>4, <2>5 DEF Level
<1> QED BY <1>8, <1>9

(* ------------------------------------------------------------------------- *)
(* What tokenCreate makes of its flags                                       *)
(* ------------------------------------------------------------------------- *)

\* Of some positions of a sequence, one is the last.
LEMMA LastIsOne ==
    ASSUME NEW n \in Nat, NEW S \in SUBSET (1..n), S # {}
    PROVE  \E m \in S : \A j \in S : j <= m
<1> DEFINE T == {n - i : i \in S}
<1>0. \A i \in S : i \in Nat /\ i <= n /\ n - i \in Nat
    OBVIOUS
<1>1. T \in SUBSET Nat /\ T # {}
    BY <1>0
<1>2. PICK m \in S : First(T) = n - m
    BY <1>1, FirstIsOne
<1>3. ASSUME NEW j \in S PROVE j <= m
    <2>1. n - j \in T
        OBVIOUS
    <2>2. n - m <= n - j
        BY <1>1, <1>2, <2>1, FirstIsOne
    <2> QED BY <2>2
<1> QED BY <1>3

\* The map made for a name: nil if no flag names it, and otherwise what the last
\* flag for each key says.
LEMMA PermsForSays ==
    ASSUME NEW Name, NEW perms \in Seq(PermFlag(Name)), NEW n
    PROVE  LET P == PermsFor(perms, n) IN
           /\ P \in Perms
           /\ P = NilMap \/ Keys(P) # {}
           /\ \A k \in Keys(P) : \E i \in DOMAIN perms : perms[i].name = n /\ perms[i].key = k
           /\ \A i \in DOMAIN perms :
                 /\ perms[i].name = n
                 /\ \A j \in DOMAIN perms : j > i /\ perms[j].name = n => perms[j].key # perms[i].key
                 => perms[i].key \in Keys(P) /\ P[perms[i].key] = perms[i].access
<1> DEFINE given == {i \in DOMAIN perms : perms[i].name = n}
           keys == {perms[i].key : i \in given}
           isLast(k, i) == perms[i].key = k /\ \A j \in given : perms[j].key = k => j <= i
           last(k) == CHOOSE i \in given : isLast(k, i)
           P == PermsFor(perms, n)
<1>1. DOMAIN perms = 1..Len(perms) /\ Len(perms) \in Nat
    OBVIOUS
<1>2. \A i \in DOMAIN perms : perms[i].key \in ResourceKey /\ perms[i].access \in Access
    <2>1. \A i \in DOMAIN perms : perms[i] \in PermFlag(Name)
        OBVIOUS
    <2> QED BY <2>1 DEF PermFlag
<1>3. ASSUME NEW k \in keys PROVE last(k) \in given /\ isLast(k, last(k))
    <2> DEFINE S == {i \in given : perms[i].key = k}
    <2>1. S \in SUBSET (1..Len(perms)) /\ S # {}
        BY <1>1
    <2>2. PICK m \in S : \A j \in S : j <= m
        BY <1>1, <2>1, LastIsOne
    <2>3. m \in given /\ isLast(k, m)
        BY <2>2
    <2> QED BY <2>3
<1>4. P = IF keys = {} THEN NilMap ELSE [k \in keys |-> perms[last(k)].access]
    BY DEF PermsFor
<1>5. CASE keys = {}
    <2>1. P = NilMap
        BY <1>4, <1>5
    <2> HIDE DEF P
    <2> QED BY <1>5, <2>1 DEF Perms, Keys, P
<1>6. CASE keys # {}
    <2> HIDE DEF P, last
    <2>1. P \in [keys -> Access]
        BY <1>2, <1>3, <1>4, <1>6
    <2>2. keys \in SUBSET ResourceKey
        BY <1>2
    <2>3. P \in MapOver(ResourceKey)
        BY <2>1, <2>2 DEF MapOver
    <2>4. P # NilMap /\ Keys(P) = keys
        BY <2>1, <2>3, NilIsNoMap DEF Keys
    <2>5. ASSUME NEW i \in DOMAIN perms, perms[i].name = n,
                 \A j \in DOMAIN perms : j > i /\ perms[j].name = n => perms[j].key # perms[i].key
          PROVE  perms[i].key \in Keys(P) /\ P[perms[i].key] = perms[i].access
        <3>1. perms[i].key \in keys
            BY <2>5
        <3>2. last(perms[i].key) \in given /\ isLast(perms[i].key, last(perms[i].key))
            BY <3>1, <1>3
        <3>3. last(perms[i].key) = i
            BY <1>1, <2>5, <3>2
        <3>4. P[perms[i].key] = perms[last(perms[i].key)].access
            BY <1>4, <1>6, <3>1
        <3> QED BY <2>4, <3>1, <3>3, <3>4
    <2> QED BY <2>3, <2>4, <2>5, <1>6 DEF Perms, P
<1> QED BY <1>5, <1>6

\* A function over the first n numbers is a sequence.
LEMMA FunctionIsSeq ==
    ASSUME NEW S, NEW n \in Nat, NEW f \in [1..n -> S]
    PROVE  f \in Seq(S) /\ Len(f) = n
<1>1. f \in Seq(S)
    BY SeqDef
<1>2. DOMAIN f = 1..Len(f) /\ Len(f) \in Nat
    BY <1>1, LenProperties
<1> QED BY <1>1, <1>2

\* A walk of the orphans, of which there are finitely many, is a sequence that
\* comes by all of them.
LEMMA WalksAreSequences ==
    ASSUME NEW Name, NEW bases, NEW perms \in Seq(PermFlag(Name)),
           NEW walk \in WalksOf(Orphans(bases, perms))
    PROVE  /\ walk \in Seq(Orphans(bases, perms))
           /\ \A x \in Orphans(bases, perms) : \E i \in DOMAIN walk : walk[i] = x
<1> DEFINE O == Orphans(bases, perms)
           f == [i \in DOMAIN perms |-> perms[i].name]
<1>1. IsFiniteSet(DOMAIN perms)
    <2>1. DOMAIN perms = 1..Len(perms) /\ Len(perms) \in Int
        OBVIOUS
    <2> QED BY <2>1, FS_Interval
<1>2. f \in Surjection(DOMAIN perms, NamesOf(perms))
    BY DEF Surjection, NamesOf
<1>3. IsFiniteSet(NamesOf(perms))
    BY <1>1, <1>2, FS_Surjection
<1>4. O \subseteq NamesOf(perms)
    BY DEF Orphans
<1>5. IsFiniteSet(O) /\ Cardinality(O) \in Nat
    BY <1>3, <1>4, FS_Subset, FS_CardinalityType
<1>6. walk \in [1..Cardinality(O) -> O] /\ \A x \in O : \E i \in DOMAIN walk : walk[i] = x
    BY DEF WalksOf
<1> QED BY <1>5, <1>6

\* What flags say of rules, told without the order in which orphans are walked:
\* the rules are for the names of the flags, those of base flags first and in
\* their order, the first of a name has what was given for it, and a name without
\* a base flag has no more than that.
FlagsSay(rules, bases, perms) ==
    /\ \A i \in DOMAIN bases : i \in DOMAIN rules /\ rules[i].name = bases[i].name
    /\ NamesOf(perms) \subseteq NamesOf(rules)
    /\ NamesOf(rules) \subseteq NamesOf(bases) \cup NamesOf(perms)
    /\ \A i \in DOMAIN rules :
          /\ (\A j \in DOMAIN rules : j < i => rules[j].name # rules[i].name)
                => rules[i].perms = PermsFor(perms, rules[i].name)
          /\ rules[i].name \notin NamesOf(bases)
                => rules[i].access = AccessNone /\ rules[i].perms = PermsFor(perms, rules[i].name)
          /\ rules[i].perms = NilMap \/ Keys(rules[i].perms) # {}

\* The rules that tokenCreate sends are well formed and what the flags say.
LEMMA RulesSayFlags ==
    ASSUME NEW Name, NEW bases \in Seq(BaseFlag(Name)), NEW perms \in Seq(PermFlag(Name)),
           NEW walk \in WalksOf(Orphans(bases, perms))
    PROVE  /\ RulesOf(bases, perms, walk) \in Seq([name: Name, access: Access, perms: Perms])
           /\ FlagsSay(RulesOf(bases, perms, walk), bases, perms)
<1> DEFINE Rule == [name: Name, access: Access, perms: Perms]
           A == RulesFromBases(bases, perms)
           B == RulesFromOrphans(perms, walk)
           R == RulesOf(bases, perms, walk)
           O == Orphans(bases, perms)
<1>1. walk \in Seq(O) /\ \A x \in O : \E i \in DOMAIN walk : walk[i] = x
    BY WalksAreSequences
<1>2. \A n : PermsFor(perms, n) \in Perms /\ (PermsFor(perms, n) = NilMap \/ Keys(PermsFor(perms, n)) # {})
    BY PermsForSays
<1>3. /\ \A i \in DOMAIN bases : bases[i].name \in Name /\ bases[i].access \in Access
      /\ \A i \in DOMAIN perms : perms[i].name \in Name
    <2>1. /\ \A i \in DOMAIN bases : bases[i] \in BaseFlag(Name)
          /\ \A i \in DOMAIN perms : perms[i] \in PermFlag(Name)
        OBVIOUS
    <2> QED BY <2>1 DEF BaseFlag, PermFlag
<1>4. O \subseteq Name
    BY <1>3 DEF Orphans, NamesOf
<1>5. AccessNone \in Access /\ NilMap \in Perms
    BY DEF Access, AccessNone, AccessReadWrite, Perms
<1>6. /\ A \in Seq(Rule) /\ Len(A) = Len(bases) /\ DOMAIN A = DOMAIN bases
      /\ \A i \in DOMAIN bases :
            /\ A[i].name = bases[i].name
            /\ A[i].perms = IF \A j \in DOMAIN bases : j < i => bases[j].name # bases[i].name
                            THEN PermsFor(perms, bases[i].name) ELSE NilMap
    <2>1. \A i \in DOMAIN bases : A[i] \in Rule
        BY <1>2, <1>3, <1>5 DEF RulesFromBases
    <2>2. DOMAIN bases = 1..Len(bases) /\ Len(bases) \in Nat /\ DOMAIN A = DOMAIN bases
        BY DEF RulesFromBases
    <2>3. A \in [1..Len(bases) -> Rule]
        BY <2>1, <2>2 DEF RulesFromBases
    <2> HIDE DEF A, Rule
    <2>4. A \in Seq(Rule) /\ Len(A) = Len(bases)
        BY <2>2, <2>3, FunctionIsSeq
    <2> QED BY <2>2, <2>4 DEF RulesFromBases, A
<1>7. /\ B \in Seq(Rule) /\ Len(B) = Len(walk) /\ DOMAIN B = DOMAIN walk
      /\ \A i \in DOMAIN walk :
            /\ B[i].name = walk[i] /\ B[i].access = AccessNone
            /\ B[i].perms = PermsFor(perms, walk[i]) /\ walk[i] \in O
    <2>0. \A i \in DOMAIN walk : walk[i] \in O
        BY <1>1
    <2>1. \A i \in DOMAIN walk : B[i] \in Rule
        BY <1>2, <1>4, <1>5, <2>0 DEF RulesFromOrphans
    <2>2. DOMAIN walk = 1..Len(walk) /\ Len(walk) \in Nat /\ DOMAIN B = DOMAIN walk
        BY <1>1 DEF RulesFromOrphans
    <2>3. B \in [1..Len(walk) -> Rule]
        BY <2>1, <2>2 DEF RulesFromOrphans
    <2> HIDE DEF B, Rule
    <2>4. B \in Seq(Rule) /\ Len(B) = Len(walk)
        BY <2>2, <2>3, FunctionIsSeq
    <2> QED BY <2>0, <2>2, <2>4 DEF RulesFromOrphans, B
<1>8. R = A \o B
    BY DEF RulesOf
<1> HIDE DEF A, B, R, Rule, O
<1>9. /\ R \in Seq(Rule) /\ Len(R) = Len(A) + Len(B)
      /\ \A i \in 1..Len(A) : R[i] = A[i]
      /\ \A i \in 1..Len(B) : R[Len(A) + i] = B[i]
      /\ \A i \in (1..Len(R)) \ (1..Len(A)) : i - Len(A) \in 1..Len(B) /\ R[i] = B[i - Len(A)]
    <2>1. /\ R \in Seq(Rule) /\ Len(R) = Len(A) + Len(B)
          /\ \A i \in 1..Len(A) + Len(B) : R[i] = IF i <= Len(A) THEN A[i] ELSE B[i - Len(A)]
        BY <1>6, <1>7, <1>8, ConcatProperties
    <2>2. Len(A) \in Nat /\ Len(B) \in Nat
        BY <1>6, <1>7, LenProperties
    <2>3. ASSUME NEW i \in 1..Len(A) PROVE R[i] = A[i]
        BY <2>1, <2>2
    <2>4. ASSUME NEW i \in 1..Len(B) PROVE R[Len(A) + i] = B[i]
        <3>1. Len(A) + i \in 1..Len(A) + Len(B) /\ ~(Len(A) + i <= Len(A)) /\ Len(A) + i - Len(A) = i
            BY <2>2
        <3> QED BY <2>1, <3>1
    <2>5. ASSUME NEW i \in (1..Len(R)) \ (1..Len(A))
          PROVE  i - Len(A) \in 1..Len(B) /\ R[i] = B[i - Len(A)]
        <3>1. i \in 1..Len(A) + Len(B) /\ ~(i <= Len(A)) /\ i - Len(A) \in 1..Len(B)
            BY <2>1, <2>2
        <3> QED BY <2>1, <3>1
    <2> QED BY <2>1, <2>3, <2>4, <2>5
<1>10. /\ DOMAIN R = 1..Len(R) /\ DOMAIN bases = 1..Len(A) /\ DOMAIN walk = 1..Len(B)
      /\ Len(A) \in Nat /\ Len(B) \in Nat /\ Len(R) \in Nat
    BY <1>1, <1>6, <1>7, <1>9
<1>11. ASSUME NEW x \in NamesOf(perms) PROVE x \in NamesOf(R)
    <2>1. CASE x \in NamesOf(bases)
        <3>1. PICK i \in DOMAIN bases : bases[i].name = x
            BY <2>1 DEF NamesOf
        <3>2. i \in DOMAIN R /\ R[i].name = x
            BY <1>6, <1>9, <1>10, <3>1
        <3> QED BY <3>2 DEF NamesOf
    <2>2. CASE x \notin NamesOf(bases)
        <3>1. PICK i \in DOMAIN walk : walk[i] = x
            BY <1>1, <2>2 DEF Orphans, O
        <3>2. Len(A) + i \in DOMAIN R /\ R[Len(A) + i].name = x
            BY <1>7, <1>9, <1>10, <3>1
        <3> QED BY <3>2 DEF NamesOf
    <2> QED BY <2>1, <2>2
<1>12. ASSUME NEW i \in DOMAIN R
       PROVE  /\ R[i].name \in NamesOf(bases) \cup NamesOf(perms)
              /\ (\A j \in DOMAIN R : j < i => R[j].name # R[i].name)
                    => R[i].perms = PermsFor(perms, R[i].name)
              /\ R[i].name \notin NamesOf(bases)
                    => R[i].access = AccessNone /\ R[i].perms = PermsFor(perms, R[i].name)
              /\ R[i].perms = NilMap \/ Keys(R[i].perms) # {}
    <2>1. CASE i \in 1..Len(A)
        <3>1. R[i] = A[i] /\ i \in DOMAIN bases /\ R[i].name = bases[i].name
            BY <1>6, <1>9, <1>10, <2>1
        <3>2. R[i].name \in NamesOf(bases)
            BY <3>1 DEF NamesOf
        <3>3. ASSUME \A j \in DOMAIN R : j < i => R[j].name # R[i].name
              PROVE  R[i].perms = PermsFor(perms, R[i].name)
            <4>1. ASSUME NEW j \in DOMAIN bases, j < i PROVE bases[j].name # bases[i].name
                <5>1. j \in DOMAIN R /\ R[j].name = bases[j].name
                    BY <1>6, <1>9, <1>10, <4>1
                <5> QED BY <3>1, <3>3, <4>1, <5>1
            <4> QED BY <1>6, <3>1, <4>1
        <3> QED BY <1>2, <1>6, <3>1, <3>2, <3>3
    <2>2. CASE i \notin 1..Len(A)
        <3> DEFINE k == i - Len(A)
        <3>1. k \in DOMAIN walk /\ R[i] = B[k]
            BY <1>9, <1>10, <2>2
        <3>2. R[i].name \in NamesOf(perms)
            BY <1>7, <3>1 DEF Orphans, O
        <3> QED BY <1>2, <1>7, <3>1, <3>2
    <2> QED BY <2>1, <2>2
<1>13. NamesOf(R) \subseteq NamesOf(bases) \cup NamesOf(perms)
    BY <1>12 DEF NamesOf
<1>14. \A i \in DOMAIN bases : i \in DOMAIN R /\ R[i].name = bases[i].name
    BY <1>6, <1>9, <1>10
<1>15. FlagsSay(R, bases, perms)
    BY <1>11, <1>12, <1>13, <1>14 DEF FlagsSay
<1> QED BY <1>9, <1>15 DEF R, Rule


(* ------------------------------------------------------------------------- *)
(* The invariant of the policy's life                                        *)
(* ------------------------------------------------------------------------- *)

\* The types; the keys of the policy were validated; and what was minted from
\* flags is what they say, since restarts read it back as it was.
PolicyInv ==
    /\ TypeOK
    /\ ValidateResourceKeys(pol, Known)
    /\ stage = "live" /\ flags # NoFlags => FlagsSay(pol.repo, flags.repo, flags.repoPerm)

\* No flags are well-formed flags.
LEMMA NoFlagsType == NoFlags \in FlagsSet
BY EmptySeq DEF NoFlags, FlagsSet

\* The policy of a new token with no rules is a policy.
LEMMA PolicyInit == Init => PolicyInv
<1> SUFFICES ASSUME Init PROVE PolicyInv
    OBVIOUS
<1>1. << >> \in MapOver(Category)
    <2>1. << >> \in [{} -> Access]
        OBVIOUS
    <2> QED BY <2>1 DEF MapOver
<1>2. << >> \in Seq(OrgRule) /\ << >> \in Seq(RepoRule)
    BY EmptySeq
<1>3. EmptyPolicy \in PolicySet
    BY <1>1, <1>2 DEF EmptyPolicy, PolicySet, Mode
<1>4. TypeOK
    BY <1>3, NoFlagsType DEF Init, TypeOK
<1>5. ValidateResourceKeys(pol, Known)
    BY DEF Init, EmptyPolicy, ValidateResourceKeys
<1> QED BY <1>4, <1>5 DEF Init, PolicyInv, NoFlags

\* A flag that is written is added to the others of its kind.
LEMMA GiveFlagKeeps == PolicyInv /\ GiveFlag => PolicyInv'
<1> SUFFICES ASSUME PolicyInv, GiveFlag PROVE PolicyInv'
    OBVIOUS
<1>1. flags \in FlagsSet /\ stage = "flags" /\ UNCHANGED <<stage, pol>>
    BY DEF PolicyInv, TypeOK, GiveFlag
<1>2. /\ Flags.org \subseteq BaseFlag(OrgName) /\ Flags.orgPerm \subseteq PermFlag(OrgName)
      /\ Flags.repo \subseteq BaseFlag(RepoName) /\ Flags.repoPerm \subseteq PermFlag(RepoName)
    BY PolicyLifeAssumption
<1>3. ASSUME NEW S, NEW s \in Seq(S), NEW f \in S PROVE Append(s, f) \in Seq(S)
    OBVIOUS
<1>4. flags' \in FlagsSet
    <2>1. ASSUME NEW f \in Flags.org, flags' = [flags EXCEPT !.org = Append(@, f)]
          PROVE  flags' \in FlagsSet
        BY <1>1, <1>2, <1>3, <2>1 DEF FlagsSet
    <2>2. ASSUME NEW f \in Flags.orgPerm, flags' = [flags EXCEPT !.orgPerm = Append(@, f)]
          PROVE  flags' \in FlagsSet
        BY <1>1, <1>2, <1>3, <2>2 DEF FlagsSet
    <2>3. ASSUME NEW f \in Flags.repo, flags' = [flags EXCEPT !.repo = Append(@, f)]
          PROVE  flags' \in FlagsSet
        BY <1>1, <1>2, <1>3, <2>3 DEF FlagsSet
    <2>4. ASSUME NEW f \in Flags.repoPerm, flags' = [flags EXCEPT !.repoPerm = Append(@, f)]
          PROVE  flags' \in FlagsSet
        BY <1>1, <1>2, <1>3, <2>4 DEF FlagsSet
    <2> QED BY <2>1, <2>2, <2>3, <2>4 DEF GiveFlag
<1> QED BY <1>1, <1>4 DEF PolicyInv, TypeOK

\* What tokenCreate mints is a policy, and what the flags say.
LEMMA TokenCreateKeeps == ASSUME PolicyInv, NEW given \in Given, TokenCreate(given) PROVE PolicyInv'
<1>1. PICK orgs \in WalksOf(Orphans(flags.org, flags.orgPerm)),
           repos \in WalksOf(Orphans(flags.repo, flags.repoPerm)) :
          LET made == [mode |-> given.mode, unscoped |-> given.unscoped,
                       org |-> RulesOf(flags.org, flags.orgPerm, orgs),
                       repo |-> RulesOf(flags.repo, flags.repoPerm, repos)]
          IN  IF ValidateResourceKeys(made, Known)
              THEN pol' = made /\ stage' = "live" /\ flags' = flags
              ELSE flags' = NoFlags /\ UNCHANGED <<pol, stage>>
    BY DEF TokenCreate
<1> DEFINE made == [mode |-> given.mode, unscoped |-> given.unscoped,
                    org |-> RulesOf(flags.org, flags.orgPerm, orgs),
                    repo |-> RulesOf(flags.repo, flags.repoPerm, repos)]
<1>2. /\ flags.org \in Seq(BaseFlag(OrgName)) /\ flags.orgPerm \in Seq(PermFlag(OrgName))
      /\ flags.repo \in Seq(BaseFlag(RepoName)) /\ flags.repoPerm \in Seq(PermFlag(RepoName))
    BY DEF PolicyInv, TypeOK, FlagsSet
<1>3. RulesOf(flags.org, flags.orgPerm, orgs) \in Seq(OrgRule)
    BY <1>2, RulesSayFlags DEF OrgRule
<1>4. /\ RulesOf(flags.repo, flags.repoPerm, repos) \in Seq(RepoRule)
      /\ FlagsSay(RulesOf(flags.repo, flags.repoPerm, repos), flags.repo, flags.repoPerm)
    BY <1>2, RulesSayFlags DEF RepoRule
<1>5. made \in PolicySet
    BY <1>3, <1>4, PolicyLifeAssumption DEF PolicySet
<1>6. made.repo = RulesOf(flags.repo, flags.repoPerm, repos)
    OBVIOUS
<1> HIDE DEF made
<1>7. CASE ValidateResourceKeys(made, Known)
    <2>1. pol' = made /\ stage' = "live" /\ flags' = flags
        BY <1>1, <1>7 DEF made
    <2> QED BY <1>4, <1>5, <1>6, <1>7, <2>1 DEF PolicyInv, TypeOK
<1>8. CASE ~ValidateResourceKeys(made, Known)
    <2>1. flags' = NoFlags /\ UNCHANGED <<pol, stage>>
        BY <1>1, <1>8 DEF made
    <2> QED BY <2>1, NoFlagsType DEF PolicyInv, TypeOK
<1> QED BY <1>7, <1>8

\* Raising the login categories leaves a policy, and its rules as they were.
LEMMA RaisedType ==
    ASSUME NEW p \in PolicySet
    PROVE  ensureLoginUsable(p) \in PolicySet /\ ensureLoginUsable(p).repo = p.repo
<1> DEFINE D == DOMAIN p.unscoped
           u == [c \in D \cup LoginCategories |->
                    IF c \in LoginCategories /\ (c \notin D \/ p.unscoped[c] < AccessRead)
                    THEN AccessRead ELSE p.unscoped[c]]
<1>1. D \subseteq Category /\ p.unscoped \in [D -> Access]
    BY DEF PolicySet, MapOver
<1>2. u \in [D \cup LoginCategories -> Access]
    BY <1>1 DEF Access, AccessNone, AccessRead, AccessReadWrite
<1>3. D \cup LoginCategories \in SUBSET Category
    BY <1>1 DEF LoginCategories
<1>4. u \in MapOver(Category)
    BY <1>2, <1>3 DEF MapOver
<1>5. ensureLoginUsable(p) = [p EXCEPT !.unscoped = u]
    BY DEF ensureLoginUsable
<1> HIDE DEF u
<1> QED BY <1>4, <1>5 DEF PolicySet

\* What the console mints is a policy.
LEMMA ConsoleMintKeeps == ASSUME PolicyInv, NEW p \in Authored, ConsoleMint(p) PROVE PolicyInv'
<1>1. p \in PolicySet /\ flags = NoFlags /\ UNCHANGED flags /\ stage' = "live"
      /\ pol' = ensureLoginUsable(p) /\ ValidateResourceKeys(p, Known)
    BY PolicyLifeAssumption DEF ConsoleMint
<1>2. pol' \in PolicySet /\ pol'.repo = p.repo
    BY <1>1, RaisedType
<1>3. ValidateResourceKeys(pol', Known)
    BY <1>1, <1>2 DEF ValidateResourceKeys
<1> QED BY <1>1, <1>2, <1>3 DEF PolicyInv, TypeOK

\* A list of rules is read back with the same rules, but for maps without entries.
LEMMA OmitEmptyType ==
    ASSUME NEW Name, NEW rules \in Seq([name: Name, access: Access, perms: Perms])
    PROVE  /\ OmitEmpty(rules) \in Seq([name: Name, access: Access, perms: Perms])
           /\ DOMAIN OmitEmpty(rules) = DOMAIN rules
           /\ \A i \in DOMAIN rules : Keys(OmitEmpty(rules)[i].perms) \subseteq Keys(rules[i].perms)
           /\ (\A i \in DOMAIN rules : rules[i].perms = NilMap \/ Keys(rules[i].perms) # {})
                 => OmitEmpty(rules) = rules
<1> DEFINE Rule == [name: Name, access: Access, perms: Perms]
           R == OmitEmpty(rules)
<1>0. rules \in Seq(Rule)
    OBVIOUS
<1>1. DOMAIN R = DOMAIN rules
    BY DEF OmitEmpty
<1>2. ASSUME NEW i \in DOMAIN rules
      PROVE  /\ R[i] \in Rule
             /\ Keys(R[i].perms) \subseteq Keys(rules[i].perms)
             /\ rules[i].perms = NilMap \/ Keys(rules[i].perms) # {} => R[i] = rules[i]
    <2>1. rules[i] \in Rule
        <3> HIDE DEF Rule
        <3> QED BY <1>0
    <2>2. R[i] = [rules[i] EXCEPT !.perms = IF Keys(@) = {} THEN NilMap ELSE @]
        BY DEF OmitEmpty
    <2>3. NilMap \in Perms
        BY DEF Perms
    <2>4. CASE Keys(rules[i].perms) = {}
        BY <2>1, <2>2, <2>3, <2>4 DEF Keys
    <2>5. CASE Keys(rules[i].perms) # {}
        BY <2>1, <2>2, <2>5
    <2> QED BY <2>4, <2>5
<1> HIDE DEF Rule
<1>3. DOMAIN rules = 1..Len(rules) /\ Len(rules) \in Nat /\ rules \in [1..Len(rules) -> Rule]
    BY <1>0, LenProperties
<1>4. R \in [1..Len(rules) -> Rule]
    BY <1>1, <1>2, <1>3 DEF OmitEmpty
<1>5. R \in Seq(Rule)
    BY <1>3, <1>4, FunctionIsSeq
<1>6. (\A i \in DOMAIN rules : rules[i].perms = NilMap \/ Keys(rules[i].perms) # {}) => R = rules
    <2> SUFFICES ASSUME \A i \in DOMAIN rules : rules[i].perms = NilMap \/ Keys(rules[i].perms) # {}
                 PROVE  R = rules
        OBVIOUS
    <2>1. \A i \in 1..Len(rules) : R[i] = rules[i]
        BY <1>2, <1>3
    <2> HIDE DEF R
    <2> QED BY <1>3, <1>4, <2>1
<1> QED BY <1>1, <1>2, <1>5, <1>6 DEF Rule

\* A restart reads a policy back, and one that was made from flags unchanged.
LEMMA RestartKeeps == PolicyInv /\ Restart => PolicyInv'
<1> SUFFICES ASSUME PolicyInv, Restart PROVE PolicyInv'
    OBVIOUS
<1>1. pol \in PolicySet /\ pol.org \in Seq(OrgRule) /\ pol.repo \in Seq(RepoRule)
    BY DEF PolicyInv, TypeOK, PolicySet
<1>2. stage = "live" /\ UNCHANGED <<stage, flags>> /\ pol' = Reloaded(pol)
    BY DEF Restart
<1>3. OmitEmpty(pol.org) \in Seq(OrgRule) /\ OmitEmpty(pol.repo) \in Seq(RepoRule)
    BY <1>1, OmitEmptyType DEF OrgRule, RepoRule
<1>4. pol' \in PolicySet /\ pol'.repo = OmitEmpty(pol.repo)
    BY <1>1, <1>2, <1>3 DEF Reloaded, PolicySet
<1>5. ValidateResourceKeys(pol', Known)
    <2>1. DOMAIN pol'.repo = DOMAIN pol.repo
          /\ \A i \in DOMAIN pol.repo : Keys(pol'.repo[i].perms) \subseteq Keys(pol.repo[i].perms)
        BY <1>1, <1>4, OmitEmptyType DEF RepoRule
    <2> QED BY <2>1 DEF PolicyInv, ValidateResourceKeys
<1>6. ASSUME flags # NoFlags PROVE FlagsSay(pol'.repo, flags.repo, flags.repoPerm)
    <2>1. FlagsSay(pol.repo, flags.repo, flags.repoPerm)
        BY <1>2, <1>6 DEF PolicyInv
    <2>2. pol'.repo = pol.repo
        BY <1>1, <1>4, <2>1, OmitEmptyType DEF RepoRule, FlagsSay
    <2> QED BY <2>1, <2>2
<1> QED BY <1>2, <1>4, <1>5, <1>6 DEF PolicyInv, TypeOK

\* The invariant holds for whatever flags are given, policies authored, and
\* however often the server restarts.
THEOREM PolicyInvAlways == Spec => []PolicyInv
<1>1. PolicyInv /\ [Next]_vars => PolicyInv'
    <2> SUFFICES ASSUME PolicyInv, [Next]_vars PROVE PolicyInv'
        OBVIOUS
    <2>1. CASE UNCHANGED vars
        BY <2>1 DEF vars, PolicyInv, TypeOK
    <2> QED BY <2>1, GiveFlagKeeps, TokenCreateKeeps, ConsoleMintKeeps, RestartKeeps DEF Next
<1> QED BY <1>1, PolicyInit, PTL DEF Spec


\* Everything that is minted or read back is a well-formed policy.
THEOREM TypeOKAlways == Spec => []TypeOK
<1>1. PolicyInv => TypeOK
    BY DEF PolicyInv
<1> QED BY <1>1, PolicyInvAlways, PTL

\* The short cuts agree with Evaluate for every token that is ever minted.
THEOREM ShortCutsAlwaysAgree == Spec => []ShortCutsAgree
<1>1. PolicyInv => ShortCutsAgree
    BY ShortCutsAgreeAlways DEF PolicyInv, TypeOK
<1> QED BY <1>1, PolicyInvAlways, PTL

\* Opaque ids are judged safely for every token that is ever minted.
THEOREM OpaqueIdsAlwaysAreSafe == Spec => []OpaqueIdsAreSafe
<1>1. PolicyInv => OpaqueIdsAreSafe
    BY OpaqueIdsAreSafeAlways DEF PolicyInv, TypeOK
<1> QED BY <1>1, PolicyInvAlways, PTL

\* Signing in widens no token but for reads of the login categories.
THEOREM LoginAlwaysRaisesOnlyLoginReads == Spec => []LoginRaisesOnlyLoginReads
<1>1. PolicyInv => LoginRaisesOnlyLoginReads
    BY LoginRaisesOnlyLoginReadsAlways DEF PolicyInv, TypeOK
<1> QED BY <1>1, PolicyInvAlways, PTL

(* ------------------------------------------------------------------------- *)
(* The flags hold                                                            *)
(* ------------------------------------------------------------------------- *)

\* A repository named by permission flags alone is governed by a rule made for
\* them, which allows what an entry of its own allows.
LEMMA BareRepoPermGrantsNoMoreStep == PolicyInv => BareRepoPermGrantsNoMore
<1> DEFINE perms == flags.repoPerm
           given(t) == {i \in DOMAIN perms : SameRepo(perms[i].name, t.repo)}
<1> SUFFICES ASSUME PolicyInv, stage = "live", NEW s \in Scopes, NEW level \in Level,
                    s.repo # NoRepo, given(s) # {},
                    \A i \in DOMAIN flags.repo : ~SameRepo(flags.repo[i].name, s.repo),
                    Evaluate(pol, s, level)
             PROVE  \E i \in given(s) : perms[i].key.res = s.res
    BY DEF BareRepoPermGrantsNoMore
<1> DEFINE R == RepoRulesOf(pol, s.repo)
           f == First(R)
           rule == pol.repo[f]
<1>1. /\ pol \in PolicySet /\ pol.repo \in Seq(RepoRule)
      /\ perms \in Seq(PermFlag(RepoName)) /\ flags # NoFlags
    BY DEF PolicyInv, TypeOK, PolicySet, FlagsSet, NoFlags
<1>2. FlagsSay(pol.repo, flags.repo, perms)
    BY <1>1 DEF PolicyInv
<1>3. PICK i \in given(s) : TRUE
    OBVIOUS
<1>4. \E j \in DOMAIN pol.repo : pol.repo[j].name = perms[i].name
    BY <1>2 DEF FlagsSay, NamesOf
<1>5. R # {}
    BY <1>4 DEF RepoRulesOf
<1>6. f \in DOMAIN pol.repo /\ rule \in RepoRule /\ SameRepo(rule.name, s.repo)
    BY <1>1, <1>5, RulesOfPolicy DEF RepoRulesOf
<1>7. rule.name \notin NamesOf(flags.repo)
    BY <1>6 DEF NamesOf
<1>8. rule.access = AccessNone /\ rule.perms = PermsFor(perms, rule.name)
    BY <1>2, <1>6, <1>7 DEF FlagsSay
<1>9. RuleAllows(rule, level, s.res)
    BY <1>5 DEF Evaluate
<1>10. lookupResource(rule.perms, s.res).ok
    BY <1>8, <1>9 DEF RuleAllows, permits, AccessNone, AccessRead, AccessReadWrite
<1>11. PICK k \in Keys(rule.perms) : k.res = s.res
    BY <1>6, <1>10, LookupFindsAnEntry DEF RepoRule
<1>12. \E m \in DOMAIN perms : perms[m].name = rule.name /\ perms[m].key = k
    BY <1>1, <1>8, PermsForSays
<1> QED BY <1>6, <1>11, <1>12

\* The rule that governs a repository is in one of the spellings that may, and
\* carries all permissions given in that spelling.
LEMMA GoverningRule ==
    ASSUME PolicyInv, stage = "live", NEW r \in RepoName, GoverningNames(r) # {}
    PROVE  LET R == RepoRulesOf(pol, r) IN
           /\ R # {} /\ First(R) \in DOMAIN pol.repo
           /\ pol.repo[First(R)].name \in GoverningNames(r)
           /\ pol.repo[First(R)].perms = PermsFor(flags.repoPerm, pol.repo[First(R)].name)
<1> DEFINE bases == flags.repo
           perms == flags.repoPerm
           based == {i \in DOMAIN bases : SameRepo(bases[i].name, r)}
           R == RepoRulesOf(pol, r)
           f == First(R)
           n == pol.repo[f].name
<1>1. /\ pol \in PolicySet /\ pol.repo \in Seq(RepoRule)
      /\ perms \in Seq(PermFlag(RepoName)) /\ bases \in Seq(BaseFlag(RepoName))
    BY DEF PolicyInv, TypeOK, PolicySet, FlagsSet
<1>2. flags # NoFlags
    <2>1. ASSUME flags = NoFlags PROVE FALSE
        <3>1. based = {} /\ NamesOf(perms) = {}
            BY <2>1 DEF NoFlags, NamesOf
        <3> QED BY <3>1 DEF GoverningNames
    <2> QED BY <2>1
<1>3. FlagsSay(pol.repo, bases, perms)
    BY <1>2 DEF PolicyInv
<1>4. R = {i \in DOMAIN pol.repo : SameRepo(pol.repo[i].name, r)}
    BY PolicyLifeAssumption DEF RepoRulesOf
<1>5. based \subseteq R
    BY <1>3, <1>4 DEF FlagsSay
<1>6. R # {}
    <2>1. CASE based # {}
        BY <1>5, <2>1
    <2>2. CASE based = {}
        <3>1. PICK x \in NamesOf(perms) : SameRepo(x, r)
            BY <2>2 DEF GoverningNames
        <3>2. x \in NamesOf(pol.repo)
            BY <1>3, <3>1 DEF FlagsSay
        <3> QED BY <1>4, <3>1, <3>2 DEF NamesOf
    <2> QED BY <2>1, <2>2
<1>7. f \in R /\ f \in Nat /\ \A j \in R : f <= j
    <2>1. R \subseteq Nat
        BY <1>1, <1>4
    <2> QED BY <1>6, <2>1, FirstIsOne
<1>8. f \in DOMAIN pol.repo /\ SameRepo(n, r)
    BY <1>4, <1>7
<1> HIDE DEF R, f
<1>9. n \in GoverningNames(r)
    <2>1. CASE based # {}
        <3> DEFINE b == First(based)
        <3>1. b \in based /\ \A j \in based : b <= j
            <4>1. based \subseteq Nat
                BY <1>1
            <4> QED BY <2>1, <4>1, FirstIsOne
        <3> HIDE DEF b
        <3>2. f <= b /\ b \in DOMAIN bases
            BY <1>5, <1>7, <3>1
        <3>3. f \in DOMAIN bases
            <4>1. DOMAIN bases = 1..Len(bases) /\ Len(bases) \in Nat
                BY <1>1, LenProperties
            <4>2. f >= 1
                BY <1>1, <1>8, LenProperties
            <4> QED BY <1>7, <3>2, <4>1, <4>2
        <3>4. n = bases[f].name
            BY <1>3, <3>3 DEF FlagsSay
        <3>5. f \in based
            BY <1>8, <3>3, <3>4
        <3>6. f = b
            BY <1>1, <1>7, <3>1, <3>2, <3>5
        <3> QED BY <2>1, <3>4, <3>6 DEF GoverningNames, b
    <2>2. CASE based = {}
        <3>1. n \notin NamesOf(bases)
            BY <1>8, <2>2 DEF NamesOf
        <3>2. n \in NamesOf(perms)
            BY <1>3, <1>8, <3>1 DEF FlagsSay, NamesOf
        <3> QED BY <1>8, <2>2, <3>2 DEF GoverningNames
    <2> QED BY <2>1, <2>2
<1>10. \A j \in DOMAIN pol.repo : j < f => pol.repo[j].name # n
    <2>1. \A j \in DOMAIN pol.repo : pol.repo[j].name = n => j \in R
        BY <1>4, <1>8
    <2>2. DOMAIN pol.repo \subseteq Nat
        BY <1>1
    <2> QED BY <1>7, <2>1, <2>2
<1>11. pol.repo[f].perms = PermsFor(perms, n)
    BY <1>3, <1>8, <1>10 DEF FlagsSay
<1> QED BY <1>6, <1>8, <1>9, <1>11 DEF R, f

\* The last flag for a resource decides, in the spelling that governs.
LEMMA RepoPermFlagsDecideStep == PolicyInv => RepoPermFlagsDecide
<1> DEFINE perms == flags.repoPerm
           current(i) == \A j \in DOMAIN perms :
               j > i => perms[j].name # perms[i].name \/ perms[j].key # perms[i].key
<1> SUFFICES ASSUME PolicyInv, stage = "live", NEW r \in RepoName, GoverningNames(r) # {}
             PROVE  \E n \in GoverningNames(r) :
                        \A i \in DOMAIN perms : perms[i].name = n /\ current(i) =>
                            \A s \in Scopes, level \in Level :
                                s.repo = r /\ s.res = perms[i].key.res
                                => (Evaluate(pol, s, level) <=> permits(perms[i].access, level))
    BY DEF RepoPermFlagsDecide
<1> DEFINE R == RepoRulesOf(pol, r)
           f == First(R)
           rule == pol.repo[f]
           P == PermsFor(perms, rule.name)
<1>1. perms \in Seq(PermFlag(RepoName))
    BY DEF PolicyInv, TypeOK, FlagsSet
<1>2. /\ R # {} /\ f \in DOMAIN pol.repo /\ rule.name \in GoverningNames(r)
      /\ rule.perms = P
    BY GoverningRule
<1> SUFFICES ASSUME NEW i \in DOMAIN perms, perms[i].name = rule.name, current(i),
                    NEW s \in Scopes, NEW level \in Level,
                    s.repo = r, s.res = perms[i].key.res
             PROVE  Evaluate(pol, s, level) <=> permits(perms[i].access, level)
    BY <1>2
<1>3. perms[i].key \in ResourceKey
    <2>1. perms[i] \in PermFlag(RepoName)
        BY <1>1
    <2> QED BY <2>1 DEF PermFlag
<1>4. perms[i].key \in Keys(P) /\ P[perms[i].key] = perms[i].access
    <2>1. \A j \in DOMAIN perms : j > i /\ perms[j].name = rule.name => perms[j].key # perms[i].key
        OBVIOUS
    <2> HIDE DEF rule
    <2> QED BY <1>1, <2>1, PermsForSays
<1>5. perms[i].key = [res |-> s.res, casing |-> "lower"]
    BY <1>2, <1>3, <1>4 DEF PolicyInv, ValidateResourceKeys, ResourceKey
<1>6. lookupResource(rule.perms, s.res).ok
       /\ lookupResource(rule.perms, s.res).access = perms[i].access
    BY <1>2, <1>4, <1>5 DEF lookupResource
<1>7. s.res \notin Indeterminate
    BY <1>3, PolicySentinels DEF ResourceKey, Indeterminate
<1>8. Evaluate(pol, s, level) <=> RuleAllows(rule, level, s.res)
    BY <1>2 DEF Evaluate
<1> QED BY <1>6, <1>7, <1>8 DEF RuleAllows

\* For every command line, in whatever order flags are given and Go walks its
\* maps: one spelling of a repository governs it, the --repo-perm flags in that
\* spelling decide what they name, and without --repo the flags open no more,
\* also after restarts.
THEOREM RepoPermFlagsAlwaysHold == Spec => []RepoPermFlagsHold
<1>1. PolicyInv => RepoPermFlagsHold
    BY RepoPermFlagsDecideStep, BareRepoPermGrantsNoMoreStep DEF RepoPermFlagsHold
<1> QED BY <1>1, PolicyInvAlways, PTL

==============================================================================
