---------------------------- MODULE NodeGateProofs -----------------------------
(* Proofs about NodeGate: for any nodes, repositories, policies, requests in  *)
(* flight and capacity of the cache, what is executed and shown is what the   *)
(* policy of the request allows, however objects move meanwhile.              *)
EXTENDS NodeGate, TLAPS, WellFoundedInduction, FiniteSetTheorems

(* ------------------------------------------------------------------------- *)
(* What a policy lets be read and written                                    *)
(* ------------------------------------------------------------------------- *)

\* No two keys of a map differ in their casing alone.
SpeltOnce(perms) == \A k, m \in Keys(perms) : k.res = m.res => k = m

\* The first of a set of positions is one of them, and no other comes before it.
LEMMA FirstIsOne ==
    ASSUME NEW S \in SUBSET Nat, S # {}
    PROVE  First(S) \in S /\ \A j \in S : First(S) <= j
<1>1. \E i \in S : \A j \in S : <<j, i>> \notin OpToRel(<, Nat)
    BY WFMin, NatLessThanWellFounded, Zenon
<1>2. PICK i \in S : \A j \in S : <<j, i>> \notin OpToRel(<, Nat)
    BY <1>1
<1>3. \A j \in S : ~(j < i)
    BY <1>2 DEF OpToRel
<1>4. \A j \in S : i <= j
    BY <1>3
<1> QED BY <1>4 DEF First

\* The rules of a name are rules of the policy.
LEMMA RulesOfPolicy ==
    ASSUME NEW p \in PolicySet, NEW repo, NEW org
    PROVE  /\ RepoRulesOf(p, repo) # {} =>
                  /\ First(RepoRulesOf(p, repo)) \in RepoRulesOf(p, repo)
                  /\ First(RepoRulesOf(p, repo)) \in DOMAIN p.repo
                  /\ p.repo[First(RepoRulesOf(p, repo))] \in RepoRule
           /\ OrgRulesOf(p, org) # {} =>
                  /\ First(OrgRulesOf(p, org)) \in OrgRulesOf(p, org)
                  /\ First(OrgRulesOf(p, org)) \in DOMAIN p.org
                  /\ p.org[First(OrgRulesOf(p, org))] \in OrgRule
<1>1. p.repo \in Seq(RepoRule) /\ p.org \in Seq(OrgRule)
    BY DEF PolicySet
<1>2. /\ RepoRulesOf(p, repo) \subseteq DOMAIN p.repo /\ DOMAIN p.repo \subseteq Nat
      /\ OrgRulesOf(p, org) \subseteq DOMAIN p.org /\ DOMAIN p.org \subseteq Nat
    BY <1>1 DEF RepoRulesOf, OrgRulesOf
<1>3. RepoRulesOf(p, repo) # {} => First(RepoRulesOf(p, repo)) \in RepoRulesOf(p, repo)
    BY <1>2, FirstIsOne
<1>4. OrgRulesOf(p, org) # {} => First(OrgRulesOf(p, org)) \in OrgRulesOf(p, org)
    BY <1>2, FirstIsOne
<1> QED BY <1>1, <1>2, <1>3, <1>4

\* A permissions map gives each of its keys an access.
LEMMA PermsGiveAccess ==
    ASSUME NEW perms \in Perms, NEW k \in Keys(perms)
    PROVE  perms[k] \in Access /\ k \in ResourceKey
BY DEF Perms, MapOver, Keys

\* What lookupResource finds is the access of some entry for the resource.
LEMMA LookupFindsAnEntry ==
    ASSUME NEW perms \in Perms, NEW res, lookupResource(perms, res).ok
    PROVE  \E k \in Keys(perms) : k.res = res /\ lookupResource(perms, res).access = perms[k]
<1> DEFINE exact == [res |-> res, casing |-> "lower"]
           folding == {k \in Keys(perms) : k.res = res}
           least(a) == (\E k \in folding : perms[k] = a) /\ \A k \in folding : a <= perms[k]
<1>0. folding # {}
    BY DEF lookupResource
<1>1. CASE exact \in Keys(perms)
    BY <1>1 DEF lookupResource
<1>2. CASE exact \notin Keys(perms)
    <2>1. \A k \in folding : perms[k] \in {0, 1, 2}
        BY PermsGiveAccess DEF Access, AccessNone, AccessReadWrite
    <2>2. \E a \in Access : least(a)
        <3>1. CASE \E k \in folding : perms[k] = 0
            BY <3>1, <2>1 DEF Access, AccessNone, AccessReadWrite
        <3>2. CASE (\A k \in folding : perms[k] # 0) /\ \E k \in folding : perms[k] = 1
            BY <3>2, <2>1 DEF Access, AccessNone, AccessReadWrite
        <3>3. CASE \A k \in folding : perms[k] = 2
            BY <3>3, <1>0 DEF Access, AccessNone, AccessReadWrite
        <3> QED BY <3>1, <3>2, <3>3, <2>1
    <2>3. lookupResource(perms, res).access = CHOOSE a \in Access : least(a)
        BY <1>0, <1>2 DEF lookupResource
    <2>4. least(CHOOSE a \in Access : least(a))
        BY <2>2
    <2> QED BY <2>3, <2>4
<1> QED BY <1>1, <1>2

\* A rule that grants something lets some request read under it, if its map
\* spells no key in two ways.  (Of a key spelled twice the least access counts.)
LEMMA GrantsAreReadable ==
    ASSUME NEW rule, rule.access \in Access, rule.perms \in Perms, SpeltOnce(rule.perms),
           Grants(rule) # {AccessNone}
    PROVE  \E res \in RequestResource : RuleAllows(rule, "read", res)
<1>1. PICK a \in Grants(rule) : a # AccessNone
    BY DEF Grants
<1>2. \A b \in Access : b # AccessNone => permits(b, "read")
    BY DEF permits, Access, AccessReadWrite, AccessRead, AccessNone
<1>3. CASE rule.access # AccessNone
    <2>1. permits(rule.access, "read")
        BY <1>2, <1>3
    <2>2. RuleAllows(rule, "read", "") /\ "" \in RequestResource
        BY <2>1 DEF RuleAllows, Indeterminate, RequestResource
    <2> QED BY <2>2
<1>4. CASE rule.access = AccessNone
    <2>1. PICK k \in Keys(rule.perms) : rule.perms[k] # AccessNone
        BY <1>1, <1>4 DEF Grants
    <2>2. k \in ResourceKey /\ rule.perms[k] \in Access /\ k.res \in Resource
        BY <2>1, PermsGiveAccess DEF ResourceKey
    <2>3. {m \in Keys(rule.perms) : m.res = k.res} = {k}
        BY <2>1 DEF SpeltOnce
    <2>4. lookupResource(rule.perms, k.res).ok
        BY <2>3 DEF lookupResource
    <2>5. PICK m \in Keys(rule.perms) :
              m.res = k.res /\ lookupResource(rule.perms, k.res).access = rule.perms[m]
        BY <2>4, LookupFindsAnEntry
    <2>6. permits(lookupResource(rule.perms, k.res).access, "read")
        BY <2>1, <2>2, <2>3, <2>5, <1>2
    <2>7. k.res \notin Indeterminate /\ k.res \in RequestResource
        BY <2>2, PolicySentinels DEF Indeterminate, RequestResource
    <2>8. RuleAllows(rule, "read", k.res)
        BY <2>4, <2>6, <2>7 DEF RuleAllows
    <2> QED BY <2>7, <2>8
<1> QED BY <1>3, <1>4

\* What CanReadAnything keeps, some request may read: as long as the rule that
\* governs the repository spells no key in two ways.
LEMMA KeptIsReadable ==
    ASSUME NEW p \in PolicySet, NEW repo, NEW org,
           \A i \in RepoRulesOf(p, repo) : SpeltOnce(p.repo[i].perms),
           RepoRulesOf(p, repo) = {} =>
               \A i \in OrgRulesOf(p, org) : SpeltOnce(p.org[i].perms),
           CanReadAnything(p, repo, org)
    PROVE  \E res \in RequestResource :
               \A s : s.repo = repo /\ s.org = org /\ s.res = res /\ s.cat = NoCategory
                      => Evaluate(p, s, "read")
<1> DEFINE R == RepoRulesOf(p, repo)
           O == OrgRulesOf(p, org)
<1>1. CASE R # {}
    <2>1. p.repo[First(R)] \in RepoRule /\ SpeltOnce(p.repo[First(R)].perms)
        BY <1>1, RulesOfPolicy
    <2>2. Grants(p.repo[First(R)]) # {AccessNone}
        BY <1>1 DEF CanReadAnything
    <2>3. PICK res \in RequestResource : RuleAllows(p.repo[First(R)], "read", res)
        BY <2>1, <2>2, GrantsAreReadable DEF RepoRule
    <2> QED BY <1>1, <2>3 DEF Evaluate
<1>2. CASE R = {} /\ O # {}
    <2>1. p.org[First(O)] \in OrgRule /\ SpeltOnce(p.org[First(O)].perms)
        BY <1>2, RulesOfPolicy
    <2>2. Grants(p.org[First(O)]) # {AccessNone}
        BY <1>2 DEF CanReadAnything
    <2>3. PICK res \in RequestResource : RuleAllows(p.org[First(O)], "read", res)
        BY <2>1, <2>2, GrantsAreReadable DEF OrgRule
    <2> QED BY <1>2, <2>3 DEF Evaluate
<1>3. CASE R = {} /\ O = {}
    <2>1. p.mode \in {"allow", "read"}
        BY <1>3 DEF CanReadAnything
    <2>2. "" \in RequestResource
        BY DEF RequestResource, Indeterminate
    <2>3. NoCategory \notin DOMAIN p.unscoped
        BY PolicySentinels DEF PolicySet, MapOver
    <2> QED BY <1>3, <2>1, <2>2, <2>3 DEF Evaluate
<1> QED BY <1>1, <1>2, <1>3

\* A policy whose keys were validated spells none of its repository rules' keys
\* in two ways.
LEMMA ValidatedKeysAreSpeltOnce ==
    ASSUME NEW p \in PolicySet, NEW known, ValidateResourceKeys(p, known)
    PROVE  \A i \in DOMAIN p.repo : SpeltOnce(p.repo[i].perms)
<1> SUFFICES ASSUME NEW i \in DOMAIN p.repo,
                    NEW k \in Keys(p.repo[i].perms), NEW m \in Keys(p.repo[i].perms),
                    k.res = m.res
             PROVE  k = m
    BY DEF SpeltOnce
<1>1. p.repo[i].perms \in Perms
    <2>1. p.repo \in Seq(RepoRule)
        BY DEF PolicySet
    <2>2. p.repo[i] \in RepoRule
        BY <2>1
    <2> QED BY <2>2 DEF RepoRule
<1>2. k \in ResourceKey /\ m \in ResourceKey
    BY <1>1, PermsGiveAccess
<1>3. k.casing = "lower" /\ m.casing = "lower"
    BY DEF ValidateResourceKeys
<1> QED BY <1>2, <1>3 DEF ResourceKey

\* A write that names no repository and no organization is allowed by nothing
\* but the category that it names.
LEMMA UnscopedWritesNeedACategory ==
    ASSUME NEW p \in PolicySet, NEW s, s.repo = NoRepo, s.org = NoOrg, s.cat = NoCategory
    PROVE  ~Evaluate(p, s, "write")
<1>1. NoCategory \notin DOMAIN p.unscoped
    BY PolicySentinels DEF PolicySet, MapOver
<1> QED BY <1>1 DEF Evaluate, RepoRulesOf, OrgRulesOf

\* The nodes that the cache holds.
Held == {n \in Node : cache[n] # Unseen}

(* ------------------------------------------------------------------------- *)
(* The inductive invariant                                                   *)
(* ------------------------------------------------------------------------- *)

\* A request never deals with a node that it does not name.
OnlyItsIds(q) == q.todo \cup q.missing \subseteq q.in.ids

\* What a write knows of its nodes, stage by stage.  It has looked nothing up in
\* the cache, and while it walks through the answer of GitHub the answer is still
\* true of every node that did not move.
WriteIsFresh(q) ==
    /\ q.pc \in {"lookup", "ask"} => q.repoOf = Nowhere
    /\ q.pc = "lookup" => q.missing = q.in.ids \ q.todo
    /\ q.pc = "ask" => q.missing = q.in.ids
    /\ q.pc = "put" => \A n \in q.in.ids :
          /\ n \notin q.moved => q.fetched[n] = home[n]
          /\ q.repoOf[n] = IF n \notin q.todo /\ q.fetched[n] \in Home
                          THEN q.fetched[n] ELSE Unseen
    /\ q.pc = "judge" => \A n \in q.in.ids \ q.moved :
          home[n] \in Home => q.repoOf[n] = home[n]
    /\ q.pc = "answered" => \A n \in q.in.ids \ q.moved :
          q.at[n] \in Home => q.repoOf[n] = q.at[n]

\* What was executed had been allowed, and went through the filter.
AnswerIsJudged(q) == q.pc = "answered" => Allowed(q) /\ q.shown = Filtered(q)

IInv ==
    /\ TypeOK
    /\ IsFiniteSet(Held)
    /\ \A s \in Slot : OnlyItsIds(req[s]) /\ AnswerIsJudged(req[s])
    /\ \A s \in Slot : req[s].in.level = "write" => WriteIsFresh(req[s])

(* ------------------------------------------------------------------------- *)
(* Types                                                                     *)
(* ------------------------------------------------------------------------- *)

\* A request is in flight, or a slot idle, with everything about it unknown.
LEMMA ArrivedType ==
    ASSUME NEW q \in Inbox, NEW p \in SlotPC
    PROVE  /\ Arrived(q, p) \in SlotRec
           /\ Arrived(q, p).pc = p /\ Arrived(q, p).in = q
           /\ Arrived(q, p).todo = q.ids /\ Arrived(q, p).missing = {}
           /\ Arrived(q, p).repoOf = Nowhere
<1>1. q.ids \in SUBSET Node
    BY NodeGateAssumption DEF Request
<1>2. Nowhere \in [Node -> Home \cup {Unseen}] /\ Nowhere \in [Node -> Place]
    BY DEF Nowhere, Place, Places
<1> QED BY <1>1, <1>2 DEF Arrived, SlotRec

\* A slot without a request holds an arbitrary one, and knows nothing of it.
LEMMA IdleType ==
    /\ Idle \in SlotRec /\ Idle.pc = "idle" /\ Idle.repoOf = Nowhere /\ Idle.in \in Inbox
    /\ Idle.todo = Idle.in.ids /\ Idle.missing = {}
<1>1. (CHOOSE q \in Inbox : TRUE) \in Inbox
    BY NodeGateAssumption
<1> QED BY <1>1, ArrivedType DEF Idle, SlotPC

\* The half of TypeOK about the cache, and the half about the requests.
CacheOK ==
    /\ cache \in [Node -> Home \cup {Unseen}]
    /\ Cardinality(Held) <= MaxEntries
    /\ IsFiniteSet(Held)
    /\ lapsed \subseteq Held

SlotsOK ==
    /\ home \in [Node -> Place]
    /\ req \in [Slot -> SlotRec]
    /\ \A s \in Slot, n \in Node : req[s].repoOf[n] # Unseen => n \in req[s].in.ids

\* TypeOK is these two halves; the finiteness of what the cache holds goes with
\* the first, for Cardinality says nothing of an infinite set.
LEMMA TypeParts == (TypeOK /\ IsFiniteSet(Held)) <=> (CacheOK /\ SlotsOK)
BY DEF TypeOK, CacheOK, SlotsOK, Held

\* The capacity of the cache as a number, for the arithmetic below.
LEMMA CapacityIsANumber == MaxEntries \in Nat
BY NodeGateAssumption

\* Put never takes the cache above its capacity.
LEMMA PutKeepsCache ==
    ASSUME CacheOK, NEW n \in Node, NEW h \in Home, Put(n, h)
    PROVE  CacheOK'
<1>0. h # Unseen
    BY NodeGateAssumption
<1>1. CASE cache[n] = Unseen /\ Cardinality(Held) >= MaxEntries
    BY <1>1 DEF Put, Held, CacheOK
<1>2. CASE cache[n] # Unseen
    <2>1. cache' = [cache EXCEPT ![n] = h] /\ lapsed' = lapsed \ {n}
        BY <1>2 DEF Put
    <2>2. Held' = Held
        BY <1>0, <1>2, <2>1 DEF Held, CacheOK
    <2> QED BY <2>1, <2>2 DEF CacheOK
<1>3. CASE cache[n] = Unseen /\ ~(Cardinality(Held) >= MaxEntries)
    <2>1. cache' = [cache EXCEPT ![n] = h] /\ lapsed' = lapsed \ {n}
        BY <1>3 DEF Put, Held
    <2>2. Held' = Held \cup {n} /\ n \notin Held
        BY <1>0, <1>3, <2>1 DEF Held, CacheOK
    <2>3. IsFiniteSet(Held') /\ Cardinality(Held') = Cardinality(Held) + 1
        BY <2>2, FS_AddElement DEF CacheOK
    <2>4. Cardinality(Held) \in Nat
        BY FS_CardinalityType DEF CacheOK
    <2>5. Cardinality(Held') <= MaxEntries
        BY <1>3, <2>3, <2>4, CapacityIsANumber
    <2>6. cache' \in [Node -> Home \cup {Unseen}] /\ lapsed' \subseteq Held'
        BY <2>1, <2>2 DEF CacheOK
    <2> QED BY <2>3, <2>5, <2>6 DEF CacheOK
<1> QED BY <1>1, <1>2, <1>3

\* No step overfills the cache.
LEMMA CacheStep ==
    ASSUME CacheOK, SlotsOK, [Next]_vars
    PROVE  CacheOK'
<1>1. ASSUME NEW n \in Node, Lapse(n) PROVE CacheOK'
    BY <1>1 DEF Lapse, CacheOK, Held
<1>2. ASSUME Evict PROVE CacheOK'
    <2>1. Held' = Held \ lapsed
        BY <1>2 DEF Evict, CacheOK, Held
    <2>2. IsFiniteSet(Held') /\ Cardinality(Held') <= Cardinality(Held)
        BY <2>1, FS_Subset DEF CacheOK
    <2>3. Cardinality(Held) \in Nat /\ Cardinality(Held') \in Nat
        BY <2>2, FS_CardinalityType DEF CacheOK
    <2>4. Cardinality(Held') <= MaxEntries
        BY <2>2, <2>3, CapacityIsANumber DEF CacheOK
    <2>5. cache' \in [Node -> Home \cup {Unseen}] /\ lapsed' \subseteq Held'
        BY <1>2 DEF Evict, CacheOK
    <2> QED BY <2>2, <2>4, <2>5 DEF CacheOK
<1>3. ASSUME NEW s \in Slot, NEW n \in Node, Note(s, n) PROVE CacheOK'
    <2>1. CASE req[s].fetched[n] \in Home
        BY <1>3, <2>1, PutKeepsCache DEF Note
    <2>2. CASE req[s].fetched[n] \notin Home
        BY <1>3, <2>2 DEF Note, CacheOK, Held
    <2> QED BY <2>1, <2>2
<1>4. ASSUME UNCHANGED <<cache, lapsed>> PROVE CacheOK'
    BY <1>4 DEF CacheOK, Held
<1>5. ASSUME NEW n \in Node, NEW h, Move(n, h) PROVE UNCHANGED <<cache, lapsed>>
    BY <1>5 DEF Move
<1>6. ASSUME NEW s \in Slot, NEW q, Receive(s, q) PROVE UNCHANGED <<cache, lapsed>>
    BY <1>6 DEF Receive
<1>7. ASSUME NEW s \in Slot, NEW n \in Node, LookUp(s, n) PROVE UNCHANGED <<cache, lapsed>>
    BY <1>7 DEF LookUp
<1>8. ASSUME NEW s \in Slot, Ask(s) \/ Forward(s) \/ Refuse(s) \/ Finish(s)
      PROVE  UNCHANGED <<cache, lapsed>>
    BY <1>8 DEF Ask, Forward, Refuse, Finish
<1>9. UNCHANGED vars => UNCHANGED <<cache, lapsed>>
    BY DEF vars
<1> QED BY <1>1, <1>2, <1>3, <1>4, <1>5, <1>6, <1>7, <1>8, <1>9 DEF Next

(* ------------------------------------------------------------------------- *)
(* The invariant is inductive                                                *)
(* ------------------------------------------------------------------------- *)

\* What IInv says of one request.
SlotOK(q) ==
    /\ q \in SlotRec
    /\ \A n \in Node : q.repoOf[n] # Unseen => n \in q.in.ids
    /\ OnlyItsIds(q)
    /\ q.in.level = "write" => WriteIsFresh(q)
    /\ AnswerIsJudged(q)

SlotsKept == home \in [Node -> Place] /\ req \in [Slot -> SlotRec]
             /\ \A s \in Slot : SlotOK(req[s])

\* The invariant is the cache's half and the slots' half: a step disturbs one
\* slot, or the world outside them.
LEMMA IInvParts == IInv <=> CacheOK /\ SlotsKept
<1>1. SlotsKept <=> /\ SlotsOK
                    /\ \A s \in Slot : req[s].in.level = "write" => WriteIsFresh(req[s])
                    /\ \A s \in Slot : OnlyItsIds(req[s]) /\ AnswerIsJudged(req[s])
    BY DEF SlotsKept, SlotsOK, SlotOK
<1> QED BY <1>1, TypeParts DEF IInv

\* A slot that a refused or finished request leaves is in order.
LEMMA IdleKept == SlotOK(Idle)
<1>1. \A n \in Node : Nowhere[n] = Unseen
    BY DEF Nowhere
<1> QED BY <1>1, IdleType DEF SlotOK, OnlyItsIds, WriteIsFresh, AnswerIsJudged

\* A step that changes one request only.
LEMMA OneRequest ==
    ASSUME SlotsKept, NEW s \in Slot, NEW q, SlotOK(q),
           home' = home, req' = [req EXCEPT ![s] = q]
    PROVE  SlotsKept'
<1>1. q \in SlotRec
    BY DEF SlotOK
<1>2. req' \in [Slot -> SlotRec]
    BY <1>1 DEF SlotsKept
<1>3. ASSUME NEW t \in Slot PROVE SlotOK(req[t])'
    <2>1. req'[t] = IF t = s THEN q ELSE req[t]
        BY DEF SlotsKept
    <2>2. SlotOK(req'[t])
        BY <2>1 DEF SlotsKept
    <2> QED BY <2>2 DEF SlotOK, OnlyItsIds, WriteIsFresh, AnswerIsJudged
<1> QED BY <1>2, <1>3 DEF SlotsKept

\* A request that arrives has looked nothing up yet.
LEMMA ReceiveKeeps ==
    ASSUME SlotsKept, NEW s \in Slot, NEW q \in Inbox, Receive(s, q)
    PROVE  SlotsKept'
<1> DEFINE a == Arrived(q, "lookup")
<1>1. /\ a \in SlotRec /\ a.pc = "lookup" /\ a.in = q
      /\ a.todo = q.ids /\ a.missing = {} /\ a.repoOf = Nowhere
    BY ArrivedType DEF SlotPC
<1>2. req' = [req EXCEPT ![s] = a] /\ home' = home
    BY DEF Receive
<1> HIDE DEF a
<1>3. \A n \in Node : Nowhere[n] = Unseen
    BY DEF Nowhere
<1>4. SlotOK(a)
    BY <1>1, <1>3 DEF SlotOK, OnlyItsIds, WriteIsFresh, AnswerIsJudged
<1> QED BY <1>2, <1>4, OneRequest

\* The end of the resolution: what the verdict is to go by is kept.
LEMMA ResolvedIs ==
    ASSUME NEW q \in SlotRec
    PROVE  /\ Resolved(q) \in SlotRec
           /\ Resolved(q).pc = "judge" /\ Resolved(q).in = q.in
           /\ Resolved(q).repoOf = q.repoOf /\ Resolved(q).moved = q.moved
<1>1. Nowhere \in [Node -> Place]
    BY DEF Nowhere, Place, Places
<1> QED BY <1>1 DEF Resolved, SlotRec, SlotPC

\* resolveNodeScopes: a write passes the cache by, so that every id it is done
\* with is among the missing ones.
LEMMA LookUpKeeps ==
    ASSUME SlotsKept, CacheOK, NEW s \in Slot, NEW n \in Node, LookUp(s, n)
    PROVE  SlotsKept'
<1> DEFINE q == req[s]
           hit == TrustsCache(q) /\ cache[n] # Unseen /\ n \notin lapsed
           done == [q EXCEPT !.todo = @ \ {n},
                             !.repoOf[n] = IF hit THEN cache[n] ELSE @,
                             !.missing = IF hit THEN @ ELSE @ \cup {n}]
           next == IF done.todo # {} THEN done
                   ELSE IF done.missing = {} THEN Resolved(done)
                   ELSE Ended(done, "ask")
<1>1. /\ q.pc = "lookup" /\ n \in q.todo /\ home' = home
      /\ req' = [req EXCEPT ![s] = next]
    BY DEF LookUp
<1>2. q \in SlotRec /\ SlotOK(q)
    BY DEF SlotsKept
<1> HIDE DEF q
<1>3. cache[n] \in Home \cup {Unseen}
    BY DEF CacheOK
<1>4. /\ done \in SlotRec /\ done.in = q.in /\ done.pc = "lookup"
      /\ done.todo = q.todo \ {n}
      /\ done.missing = IF hit THEN q.missing ELSE q.missing \cup {n}
      /\ done.repoOf = [q.repoOf EXCEPT ![n] = IF hit THEN cache[n] ELSE @]
    BY <1>1, <1>2, <1>3 DEF SlotRec
<1>5. ~hit => done.repoOf = q.repoOf
    BY <1>2, <1>4 DEF SlotRec
<1>6. q.in.level = "write" => ~hit
    BY DEF TrustsCache
<1> HIDE DEF done, hit
<1>7. /\ \A m \in Node : done.repoOf[m] # Unseen => m \in q.in.ids
      /\ OnlyItsIds(done)
    BY <1>1, <1>2, <1>4 DEF SlotOK, OnlyItsIds, SlotRec
<1>8. q.in.level = "write" =>
          /\ done.repoOf = Nowhere
          /\ done.missing = q.in.ids \ done.todo
    BY <1>1, <1>2, <1>4, <1>5, <1>6 DEF SlotOK, OnlyItsIds, WriteIsFresh
<1>9. q.in.ids # {}
    BY <1>2, NodeGateAssumption DEF SlotRec, Request
<1>10. SlotOK(next)
    <2>1. CASE done.todo # {}
        BY <2>1, <1>4, <1>7, <1>8 DEF SlotOK, WriteIsFresh, AnswerIsJudged
    <2>2. CASE done.todo = {} /\ done.missing = {}
        <3>1. q.in.level # "write"
            BY <2>2, <1>8, <1>9
        <3>2. Resolved(done).todo = {} /\ Resolved(done).missing = {}
            BY <1>4 DEF Resolved, SlotRec
        <3> QED BY <3>1, <3>2, <2>2, <1>4, <1>7, ResolvedIs
                DEF SlotOK, OnlyItsIds, AnswerIsJudged
    <2>3. CASE done.todo = {} /\ done.missing # {}
        <3> DEFINE e == Ended(done, "ask")
        <3>1. /\ e \in SlotRec /\ e.pc = "ask" /\ e.in = q.in /\ e.todo = {}
              /\ e.missing = done.missing /\ e.repoOf = done.repoOf
            BY <1>4 DEF Ended, SlotRec, SlotPC
        <3> HIDE DEF e
        <3>2. e.in.level = "write" => WriteIsFresh(e)
            BY <3>1, <2>3, <1>8 DEF WriteIsFresh
        <3>3. OnlyItsIds(e) /\ AnswerIsJudged(e)
            BY <3>1, <1>4, <1>7 DEF OnlyItsIds, AnswerIsJudged
        <3>4. SlotOK(e)
            BY <3>1, <3>2, <3>3, <1>7 DEF SlotOK
        <3> QED BY <3>4, <2>3 DEF e
    <2> QED BY <2>1, <2>2, <2>3
<1> QED BY <1>1, <1>10, OneRequest DEF q

\* The answer of GitHub is true of every node when it is given.
LEMMA AskKeeps ==
    ASSUME SlotsKept, NEW s \in Slot, Ask(s)
    PROVE  SlotsKept'
<1> DEFINE q == req[s]
           told == [q EXCEPT !.pc = "put", !.todo = q.missing, !.fetched = Answer(q.missing)]
<1>1. /\ q.pc = "ask" /\ home' = home
      /\ req' = [req EXCEPT ![s] = told] \/ req' = [req EXCEPT ![s] = Idle]
    BY DEF Ask
<1>2. q \in SlotRec /\ SlotOK(q)
    BY DEF SlotsKept
<1> HIDE DEF q
<1>3. /\ Answer(q.missing) \in [Node -> Place]
      /\ \A n \in q.missing : Answer(q.missing)[n] = home[n]
    <2>1. \A n \in Node : Unseen \in Place
        BY DEF Place, Places
    <2> QED BY <1>2, <2>1 DEF Answer, SlotsKept, SlotRec
<1>4. /\ told \in SlotRec /\ told.pc = "put" /\ told.in = q.in /\ told.todo = q.missing
      /\ told.missing = q.missing /\ told.fetched = Answer(q.missing)
      /\ told.repoOf = q.repoOf
    BY <1>2, <1>3 DEF SlotRec, SlotPC
<1> HIDE DEF told
<1>5. q.in.level = "write" => q.repoOf = Nowhere /\ q.missing = q.in.ids
    BY <1>1, <1>2 DEF SlotOK, WriteIsFresh
<1>6. q.in.ids \subseteq Node
    BY <1>2, NodeGateAssumption DEF SlotRec, Request
<1>7. q.in.level = "write" => WriteIsFresh(told)
    <2>1. \A n \in Node : Nowhere[n] = Unseen
        BY DEF Nowhere
    <2> QED BY <2>1, <1>3, <1>4, <1>5, <1>6 DEF WriteIsFresh
<1>8. OnlyItsIds(told) /\ AnswerIsJudged(told)
    BY <1>2, <1>4 DEF SlotOK, OnlyItsIds, AnswerIsJudged
<1>9. SlotOK(told)
    BY <1>2, <1>4, <1>7, <1>8 DEF SlotOK
<1> QED BY <1>1, <1>9, IdleKept, OneRequest

\* Its repositories are noted one by one, and all of them before the verdict.
LEMMA NoteKeeps ==
    ASSUME SlotsKept, NEW s \in Slot, NEW n \in Node, Note(s, n)
    PROVE  SlotsKept'
<1> DEFINE q == req[s]
           h == q.fetched[n]
           done == [q EXCEPT !.todo = @ \ {n}, !.repoOf[n] = IF h \in Home THEN h ELSE @]
           next == IF h = Unattributed THEN Idle
                   ELSE IF done.todo # {} THEN done ELSE Resolved(done)
<1>1. /\ q.pc = "put" /\ n \in q.todo /\ home' = home
      /\ req' = [req EXCEPT ![s] = next]
    BY DEF Note
<1>2. q \in SlotRec /\ SlotOK(q)
    BY DEF SlotsKept
<1> HIDE DEF q
<1>3. /\ done \in SlotRec /\ done.in = q.in /\ done.pc = "put" /\ done.todo = q.todo \ {n}
      /\ done.missing = q.missing /\ done.fetched = q.fetched /\ done.moved = q.moved
      /\ done.repoOf = [q.repoOf EXCEPT ![n] = IF h \in Home THEN h ELSE @]
    BY <1>1, <1>2 DEF SlotRec
<1> HIDE DEF done, h
<1>4. n \in q.in.ids
    BY <1>1, <1>2 DEF SlotOK, OnlyItsIds
<1>5. /\ \A m \in Node : done.repoOf[m] # Unseen => m \in q.in.ids
      /\ OnlyItsIds(done)
    BY <1>2, <1>3, <1>4 DEF SlotOK, OnlyItsIds, SlotRec
<1>6. q.in.ids \subseteq Node
    BY <1>2, NodeGateAssumption DEF SlotRec, Request
<1>7. ASSUME q.in.level = "write", NEW m \in q.in.ids
      PROVE  /\ m \notin done.moved => done.fetched[m] = home[m]
             /\ done.repoOf[m] = IF m \notin done.todo /\ done.fetched[m] \in Home
                                 THEN done.fetched[m] ELSE Unseen
    <2>1. /\ m \notin q.moved => q.fetched[m] = home[m]
          /\ q.repoOf[m] = IF m \notin q.todo /\ q.fetched[m] \in Home
                           THEN q.fetched[m] ELSE Unseen
        BY <1>1, <1>2, <1>7 DEF SlotOK, WriteIsFresh
    <2>2. CASE m # n
        BY <2>1, <2>2, <1>2, <1>3, <1>6 DEF SlotRec
    <2>3. CASE m = n
        BY <2>1, <2>3, <1>1, <1>2, <1>3, <1>6 DEF SlotRec, h
    <2> QED BY <2>2, <2>3
<1>8. SlotOK(next)
    <2>1. CASE h = Unattributed
        BY <2>1, IdleKept
    <2>2. CASE h # Unattributed /\ done.todo # {}
        <3>1. q.in.level = "write" => WriteIsFresh(done)
            BY <1>3, <1>7 DEF WriteIsFresh
        <3> QED BY <2>2, <3>1, <1>3, <1>5 DEF SlotOK, AnswerIsJudged
    <2>3. CASE h # Unattributed /\ done.todo = {}
        <3> DEFINE r == Resolved(done)
        <3>1. /\ r \in SlotRec /\ r.pc = "judge" /\ r.in = q.in
              /\ r.repoOf = done.repoOf /\ r.moved = done.moved
              /\ r.todo = {} /\ r.missing = {}
            BY <1>3, ResolvedIs DEF Resolved, SlotRec
        <3> HIDE DEF r
        <3>2. q.in.level = "write" => WriteIsFresh(r)
            BY <2>3, <3>1, <1>7 DEF WriteIsFresh
        <3>3. OnlyItsIds(r) /\ AnswerIsJudged(r)
            BY <3>1 DEF OnlyItsIds, AnswerIsJudged
        <3>4. SlotOK(r)
            BY <3>1, <3>2, <3>3, <1>5 DEF SlotOK
        <3> QED BY <2>3, <3>4 DEF r
    <2> QED BY <2>1, <2>2, <2>3
<1> QED BY <1>1, <1>8, OneRequest

\* The verdict goes by the request and the repositories that were found for it,
\* the filter by where its nodes were.
LEMMA JudgedAlike ==
    ASSUME NEW q, NEW r, q.in = r.in
    PROVE  /\ q.repoOf = r.repoOf => (Allowed(q) <=> Allowed(r))
           /\ q.at = r.at => Filtered(q) = Filtered(r)
<1>1. ASSUME q.repoOf = r.repoOf PROVE AllScopes(q) = AllScopes(r)
    <2>1. NodeScopes(q) = NodeScopes(r)
        BY <1>1 DEF NodeScopes
    <2> QED BY <2>1 DEF AllScopes
<1>2. ASSUME q.at = r.at PROVE Filtered(q) = Filtered(r)
    <2>1. \A n \in Node : Decision(q, n, q.at[n]) = Decision(r, n, r.at[n])
        BY <1>2 DEF Decision
    <2> QED BY <2>1 DEF Filtered
<1> QED BY <1>1, <1>2 DEF Allowed

\* A write is executed on what the verdict went by, but for what has moved.
LEMMA ForwardKeeps ==
    ASSUME SlotsKept, NEW s \in Slot, Forward(s)
    PROVE  SlotsKept'
<1> DEFINE q == req[s]
           executed == [q EXCEPT !.pc = "answered", !.at = Answer(q.in.ids)]
           sent == [executed EXCEPT !.shown = Filtered(executed)]
<1>1. /\ q.pc = "judge" /\ Allowed(q) /\ home' = home
      /\ req' = [req EXCEPT ![s] = sent]
    BY DEF Forward
<1>2. q \in SlotRec /\ SlotOK(q)
    BY DEF SlotsKept
<1> HIDE DEF q
<1>3. q.in.ids \subseteq Node
    BY <1>2, NodeGateAssumption DEF SlotRec, Request
<1>4. /\ Answer(q.in.ids) \in [Node -> Place]
      /\ \A n \in q.in.ids : Answer(q.in.ids)[n] = home[n]
    <2>1. \A n \in Node : Unseen \in Place
        BY DEF Place, Places
    <2> QED BY <1>3, <2>1 DEF Answer, SlotsKept
<1>5. Filtered(executed) \in [Node -> {"null", "shell", "whole"}]
    BY DEF Filtered, Decision
<1>6. /\ sent \in SlotRec /\ sent.pc = "answered" /\ sent.in = q.in
      /\ sent.at = Answer(q.in.ids) /\ sent.moved = q.moved /\ sent.repoOf = q.repoOf
      /\ sent.todo = q.todo /\ sent.missing = q.missing
      /\ sent.shown = Filtered(executed) /\ executed.in = q.in /\ executed.at = sent.at
    BY <1>2, <1>4, <1>5 DEF SlotRec, SlotPC
<1> HIDE DEF sent, executed
<1>7. Allowed(sent) /\ sent.shown = Filtered(sent)
    BY <1>1, <1>6, JudgedAlike
<1>8. q.in.level = "write" => WriteIsFresh(sent)
    BY <1>1, <1>2, <1>3, <1>4, <1>6 DEF SlotOK, WriteIsFresh
<1>9. SlotOK(sent)
    BY <1>2, <1>6, <1>7, <1>8 DEF SlotOK, OnlyItsIds, AnswerIsJudged
<1> QED BY <1>1, <1>9, OneRequest

\* What moves while a write is under way is noted.
LEMMA MoveKeeps ==
    ASSUME SlotsKept, NEW m \in Node, NEW h \in Places(m), Move(m, h)
    PROVE  SlotsKept'
<1> DEFINE hit(q) == /\ q.pc \notin {"idle", "answered"}
                     /\ q.in.level = "write" /\ m \in q.in.ids
<1>1. /\ home' = [home EXCEPT ![m] = h]
      /\ req' = [s \in Slot |-> IF hit(req[s]) THEN [req[s] EXCEPT !.moved = @ \cup {m}]
                                ELSE req[s]]
    BY DEF Move
<1>2. h \in Place
    BY DEF Place
<1>3. home' \in [Node -> Place]
    BY <1>1, <1>2 DEF SlotsKept
<1>4. ASSUME NEW s \in Slot PROVE SlotOK(req[s])'
    <2> DEFINE q == req[s]
               r == req'[s]
    <2>1. q \in SlotRec /\ SlotOK(q)
        BY DEF SlotsKept
    <2>2. r = IF hit(q) THEN [q EXCEPT !.moved = @ \cup {m}] ELSE q
        BY <1>1
    <2> HIDE DEF q
    <2>3. /\ r \in SlotRec /\ r.pc = q.pc /\ r.in = q.in /\ r.todo = q.todo
          /\ r.missing = q.missing /\ r.repoOf = q.repoOf /\ r.fetched = q.fetched
          /\ r.at = q.at /\ r.shown = q.shown
          /\ q.moved \subseteq r.moved /\ (hit(q) => m \in r.moved)
        BY <2>1, <2>2 DEF SlotRec
    <2>4. \A n \in Node : n # m => home'[n] = home[n]
        BY <1>1 DEF SlotsKept
    <2>5. q.in.ids \subseteq Node
        BY <2>1, NodeGateAssumption DEF SlotRec, Request
    <2>6. q.in.level = "write" => WriteIsFresh(req[s])'
        <3> SUFFICES ASSUME q.in.level = "write" PROVE WriteIsFresh(req[s])'
            OBVIOUS
        <3>1. WriteIsFresh(q)
            BY <2>1 DEF SlotOK
        <3>2. q.pc \in {"put", "judge"} => \A n \in q.in.ids \ r.moved :
                  n \notin q.moved /\ home'[n] = home[n]
            BY <2>3, <2>4, <2>5
        <3> QED BY <2>3, <3>1, <3>2 DEF WriteIsFresh
    <2>7. OnlyItsIds(r) /\ AnswerIsJudged(r)
        <3>1. Allowed(q) <=> Allowed(r)
            BY <2>3, JudgedAlike
        <3>2. Filtered(q) = Filtered(r)
            BY <2>3, JudgedAlike
        <3> QED BY <2>1, <2>3, <3>1, <3>2 DEF SlotOK, OnlyItsIds, AnswerIsJudged
    <2>8. \A n \in Node : r.repoOf[n] # Unseen => n \in r.in.ids
        BY <2>1, <2>3 DEF SlotOK
    <2> QED BY <2>3, <2>6, <2>7, <2>8 DEF SlotOK, OnlyItsIds, AnswerIsJudged
<1>5. req' \in [Slot -> SlotRec]
    BY <1>1, <1>4 DEF SlotOK
<1> QED BY <1>3, <1>4, <1>5 DEF SlotsKept

\* Whatever step is taken, every slot stays in order: the one that the step is
\* about by its own lemma above, the others because they stay as they were.
LEMMA SlotsStep ==
    ASSUME SlotsKept, CacheOK, [Next]_vars
    PROVE  SlotsKept'
<1>1. ASSUME UNCHANGED <<home, req>> PROVE SlotsKept'
    BY <1>1 DEF SlotsKept, SlotOK, OnlyItsIds, WriteIsFresh, AnswerIsJudged
<1>2. ASSUME NEW s \in Slot, Refuse(s) \/ Finish(s) PROVE SlotsKept'
    BY <1>2, IdleKept, OneRequest DEF Refuse, Finish
<1>3. (\E n \in Node : Lapse(n)) \/ Evict \/ UNCHANGED vars => UNCHANGED <<home, req>>
    BY DEF Lapse, Evict, vars
<1> QED BY <1>1, <1>2, <1>3, MoveKeeps, ReceiveKeeps, LookUpKeeps, AskKeeps, NoteKeeps,
           ForwardKeeps DEF Next

\* The invariant holds at the start.
LEMMA IInvStarts == Init => IInv
<1> SUFFICES ASSUME Init PROVE CacheOK /\ SlotsKept
    BY IInvParts
<1>1. Held = {}
    BY DEF Init, Held, Nowhere
<1>2. CacheOK
    BY <1>1, FS_EmptySet, CapacityIsANumber DEF Init, CacheOK, Nowhere
<1>3. SlotsKept
    BY IdleKept DEF Init, SlotsKept, SlotOK
<1> QED BY <1>2, <1>3

\* The invariant is inductive.
LEMMA IInvStays == IInv /\ [Next]_vars => IInv'
<1>0. IInv' <=> CacheOK' /\ SlotsKept'
    BY IInvParts, PTL
<1> SUFFICES ASSUME IInv, [Next]_vars PROVE CacheOK' /\ SlotsKept'
    BY <1>0
<1>1. CacheOK /\ SlotsKept /\ SlotsOK
    BY IInvParts DEF SlotsKept, SlotOK, SlotsOK
<1> QED BY <1>1, CacheStep, SlotsStep

\* In every state that the proxy, GitHub and the clients can get to, the cache is
\* within its bound and every request in flight knows what its stage needs.
THEOREM IInvAlways == Spec => []IInv
BY IInvStarts, IInvStays, PTL DEF Spec

\* The cache never outgrows its capacity, whatever requests do to it.
THEOREM TypeOKAlways == Spec => []TypeOK
<1>1. IInv => TypeOK
    BY DEF IInv
<1> QED BY <1>1, IInvAlways, PTL

(* ------------------------------------------------------------------------- *)
(* What is executed and shown                                                *)
(* ------------------------------------------------------------------------- *)

\* The node of an executed write that did not move was judged by the repository
\* that it was in: under its type, and under some resource if it has none.
LEMMA JudgedWhereItWas ==
    ASSUME IInv, NEW s \in Slot, NEW n \in Node,
           Executed(s), req[s].in.level = "write",
           n \in req[s].in.ids \ req[s].moved, req[s].at[n] \in Home
    PROVE  /\ \E res \in RequestResource :
                  Evaluate(req[s].in.pol, ScopeOf(req[s].at[n], res), "write")
           /\ Type[n] # "" => Evaluate(req[s].in.pol, ScopeOf(req[s].at[n], Type[n]), "write")
<1> DEFINE q == req[s]
           fields == IF q.in.under[n] = {} THEN {""} ELSE q.in.under[n]
<1>1. /\ q.pc = "answered" /\ q \in SlotRec /\ WriteIsFresh(q) /\ Allowed(q)
    BY DEF IInv, TypeOK, Executed, AnswerIsJudged
<1>2. q.repoOf[n] = q.at[n] /\ q.repoOf[n] # Unseen
    BY <1>1, NodeGateAssumption DEF WriteIsFresh
<1>3. /\ Type[n] \in Resource \cup {""} /\ q.in.under[n] \subseteq Resource
      /\ q.in.level = "write"
    BY <1>1, NodeGateAssumption DEF SlotRec, Request
<1> HIDE DEF q
<1>4. ASSUME NEW f \in fields, NEW k \in NodeResourceKeys("write", Type[n], f)
      PROVE  Evaluate(q.in.pol, ScopeOf(q.at[n], k), "write")
    <2>1. ScopeOf(q.repoOf[n], k) \in NodeScopes(q)
        <3> DEFINE K == UNION {NodeResourceKeys(q.in.level, Type[n], g) : g \in fields}
                   scopes == {ScopeOf(q.repoOf[n],
                                  IF j = "" /\ q.in.level = "read" THEN q.in.prim.res ELSE j) :
                                  j \in K}
        <3>1. k \in K
            BY <1>3, <1>4
        <3>2. ScopeOf(q.repoOf[n], k) \in scopes
            BY <1>3, <3>1
        <3>3. scopes \subseteq NodeScopes(q)
            BY <1>2 DEF NodeScopes
        <3> QED BY <3>2, <3>3
    <2> QED BY <2>1, <1>1, <1>2, <1>3 DEF Allowed, AllScopes
<1>5. PICK f \in fields : TRUE
    OBVIOUS
<1>6. f \in Resource \cup {""}
    BY <1>3
<1>7. Type[n] # "" => Type[n] \in NodeResourceKeys("write", Type[n], f)
    BY DEF NodeResourceKeys
<1>8. PICK k : k \in NodeResourceKeys("write", Type[n], f) /\ k \in Resource \cup {""}
    BY <1>3, <1>6 DEF NodeResourceKeys
<1>9. k \in RequestResource
    BY <1>8 DEF RequestResource, Indeterminate
<1> QED BY <1>4, <1>5, <1>7, <1>8, <1>9 DEF q

\* A write only changes nodes in repositories that its policy lets it write.
THEOREM WritesAlwaysStayAllowed == Spec => []WritesStayAllowed
<1>1. IInv => WritesStayAllowed
    BY JudgedWhereItWas DEF WritesStayAllowed
<1> QED BY <1>1, IInvAlways, PTL

\* ... and not under the name of another resource than the node's own.
THEOREM WritesAlwaysMatchTypes == Spec => []WritesMatchTypes
<1>1. IInv => WritesMatchTypes
    BY JudgedWhereItWas DEF WritesMatchTypes
<1> QED BY <1>1, IInvAlways, PTL

\* A write whose ids resolve to nothing is executed only for a scope of its own.
THEOREM WritesAlwaysNeedAScope == Spec => []WritesNeedAScope
<1>1. ASSUME IInv, NEW s \in Slot, Executed(s), req[s].in.level = "write",
             \A n \in req[s].in.ids : req[s].repoOf[n] = Unseen,
             PrimaryIsEmpty(req[s].in.prim)
      PROVE  FALSE
    <2> DEFINE q == req[s]
    <2>1. /\ q \in SlotRec /\ Allowed(q) /\ q.in.pol \in PolicySet
          /\ \A n \in Node : q.repoOf[n] # Unseen => n \in q.in.ids
        <3>1. q \in SlotRec /\ Allowed(q)
            BY <1>1 DEF IInv, TypeOK, Executed, AnswerIsJudged
        <3>2. q.in \in Request
            BY <3>1, NodeGateAssumption DEF SlotRec
        <3>3. q.in.pol \in PolicySet
            BY <3>2 DEF Request
        <3> QED BY <1>1, <3>1, <3>3 DEF IInv, TypeOK
    <2>2. NodeScopes(q) = {}
        BY <1>1, <2>1 DEF NodeScopes
    <2>3. q.in.prim \in AllScopes(q)
        BY <2>2 DEF AllScopes
    <2>4. Evaluate(q.in.pol, q.in.prim, "write")
        BY <1>1, <2>1, <2>3 DEF Allowed
    <2> QED BY <1>1, <2>1, <2>4, UnscopedWritesNeedACategory DEF PrimaryIsEmpty
<1>2. IInv => WritesNeedAScope
    BY <1>1 DEF WritesNeedAScope
<1> QED BY <1>2, IInvAlways, PTL

\* The category that a request names is never dropped from its verdict.
THEOREM CategoriesAlwaysStayGuarded == Spec => []CategoriesStayGuarded
<1>1. ASSUME IInv, NEW s \in Slot, Executed(s), req[s].in.prim.cat # NoCategory
      PROVE  Evaluate(req[s].in.pol, req[s].in.prim, req[s].in.level)
    <2>1. Allowed(req[s])
        BY <1>1 DEF IInv, Executed, AnswerIsJudged
    <2>2. req[s].in.prim \in AllScopes(req[s])
        BY <1>1 DEF AllScopes, PrimaryIsEmpty
    <2> QED BY <2>1, <2>2 DEF Allowed
<1>2. IInv => CategoriesStayGuarded
    BY <1>1 DEF CategoriesStayGuarded
<1> QED BY <1>2, IInvAlways, PTL

\* No organization rule spells a key in two ways.  Nothing validates these keys;
\* lookupResource's comment calls such a rule a self-contradictory config.
OrgKeysSpeltOnce ==
    \A q \in Inbox : \A i \in DOMAIN q.pol.org : SpeltOnce(q.pol.org[i].perms)

\* The client is shown an object only if the policy reads the repository that the
\* object was in when GitHub answered.
THEOREM ReadsAlwaysStayAllowed ==
    ASSUME OrgKeysSpeltOnce
    PROVE  Spec => []ReadsStayAllowed
<1>1. ASSUME IInv, NEW s \in Slot, NEW n \in Node, Executed(s), req[s].shown[n] # "null"
      PROVE  /\ req[s].at[n] \in Home
             /\ \E r \in IF Type[n] = "" THEN RequestResource ELSE {Type[n]} :
                    Evaluate(req[s].in.pol, ScopeOf(req[s].at[n], r), "read")
    <2> DEFINE q == req[s]
               h == q.at[n]
               pol == q.in.pol
    <2>1. q \in SlotRec /\ q.shown = Filtered(q)
        BY <1>1 DEF IInv, TypeOK, Executed, AnswerIsJudged
    <2>2. q.in \in Inbox /\ q.in \in Request
        BY <2>1, NodeGateAssumption DEF SlotRec
    <2>3. pol \in PolicySet
        BY <2>2 DEF Request
    <2>4. Decision(q, n, h) # "null"
        BY <1>1, <2>1 DEF Filtered
    <2>5. CASE Type[n] # ""
        BY <2>4, <2>5 DEF Decision
    <2>6. CASE Type[n] = ""
        <3>1. h \in Home /\ CanReadAnything(pol, h, OrgOf(h))
            BY <2>4, <2>6 DEF Decision
        <3>2. \A i \in RepoRulesOf(pol, h) : SpeltOnce(pol.repo[i].perms)
            BY <2>2, <2>3, NodeGateAssumption, ValidatedKeysAreSpeltOnce DEF RepoRulesOf
        <3>3. \A i \in OrgRulesOf(pol, OrgOf(h)) : SpeltOnce(pol.org[i].perms)
            BY <2>2 DEF OrgKeysSpeltOnce, OrgRulesOf
        <3>4. PICK r \in RequestResource :
                  \A t : t.repo = h /\ t.org = OrgOf(h) /\ t.res = r /\ t.cat = NoCategory
                         => Evaluate(pol, t, "read")
            BY <2>3, <3>1, <3>2, <3>3, KeptIsReadable
        <3>5. Evaluate(pol, ScopeOf(h, r), "read")
            BY <3>4 DEF ScopeOf
        <3> QED BY <2>6, <3>1, <3>5
    <2> QED BY <2>5, <2>6
<1>2. IInv => ReadsStayAllowed
    BY <1>1 DEF ReadsStayAllowed
<1> QED BY <1>2, IInvAlways, PTL

\* What a request is sent is open to it.
THEOREM AnswersAlwaysStayAllowed ==
    ASSUME OrgKeysSpeltOnce
    PROVE  Spec => []AnswersStayAllowed
<1>1. CategoriesStayGuarded /\ ReadsStayAllowed => AnswersStayAllowed
    BY DEF AnswersStayAllowed
<1> QED BY <1>1, CategoriesAlwaysStayGuarded, ReadsAlwaysStayAllowed, PTL

================================================================================
