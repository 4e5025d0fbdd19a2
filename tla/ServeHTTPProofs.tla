---------------------------- MODULE ServeHTTPProofs ----------------------------
(* Proofs about ServeHTTP: for any policies, requests, paths, redirects and   *)
(* JSON answers, of any size and depth.  First that no write gets past the    *)
(* scopes of its request.  Then, filter by filter, that what is left of an    *)
(* answer is what the answer told and lies nowhere that the filter looks for  *)
(* a denied repository; and with that, that an answer tells nothing that the  *)
(* policy hides, as far as the tables know where answers tell of repositories. *)
EXTENDS ServeHTTP, TLAPS, WellFoundedInduction

(* ------------------------------------------------------------------------- *)
(* The rules that govern                                                     *)
(* ------------------------------------------------------------------------- *)

\* The first of a set of positions is one of them, and no other comes before it.
LEMMA FirstIsOne ==
    ASSUME NEW S \in SUBSET Nat, S # {}
    PROVE  First(S) \in S /\ \A j \in S : First(S) <= j
<1>1. \E i \in S : \A j \in S : <<j, i>> \notin OpToRel(<, Nat)
    BY WFMin, NatLessThanWellFounded, Zenon
<1>2. PICK i \in S : \A j \in S : <<j, i>> \notin OpToRel(<, Nat)
    BY <1>1
<1>3. \A j \in S : ~(j < i)
    BY <1>2 DEF OpToRel
<1>4. \A j \in S : i <= j
    BY <1>3
<1> QED BY <1>4 DEF First

\* The rules of a name are rules of the policy.
LEMMA RulesOfPolicy ==
    ASSUME NEW p \in PolicySet, NEW repo, NEW org
    PROVE  /\ RepoRulesOf(p, repo) # {} =>
                  /\ First(RepoRulesOf(p, repo)) \in RepoRulesOf(p, repo)
                  /\ First(RepoRulesOf(p, repo)) \in DOMAIN p.repo
                  /\ p.repo[First(RepoRulesOf(p, repo))] \in RepoRule
           /\ OrgRulesOf(p, org) # {} =>
                  /\ First(OrgRulesOf(p, org)) \in OrgRulesOf(p, org)
                  /\ First(OrgRulesOf(p, org)) \in DOMAIN p.org
                  /\ p.org[First(OrgRulesOf(p, org))] \in OrgRule
<1>1. p.repo \in Seq(RepoRule) /\ p.org \in Seq(OrgRule)
    BY DEF PolicySet
<1>2. /\ RepoRulesOf(p, repo) \subseteq DOMAIN p.repo /\ DOMAIN p.repo \subseteq Nat
      /\ OrgRulesOf(p, org) \subseteq DOMAIN p.org /\ DOMAIN p.org \subseteq Nat
    BY <1>1 DEF RepoRulesOf, OrgRulesOf
<1>3. RepoRulesOf(p, repo) # {} => First(RepoRulesOf(p, repo)) \in RepoRulesOf(p, repo)
    BY <1>2, FirstIsOne
<1>4. OrgRulesOf(p, org) # {} => First(OrgRulesOf(p, org)) \in OrgRulesOf(p, org)
    BY <1>2, FirstIsOne
<1> QED BY <1>1, <1>2, <1>3, <1>4

(* ------------------------------------------------------------------------- *)
(* Positions                                                                 *)
(* ------------------------------------------------------------------------- *)

\* The steps of a position.  That a literal is a member of STRING is nothing
\* that the provers know, so those that the filters use are named.
Step ==
    STRING \cup {"[]", "full_name", "repository_url", "url", "name", "total_count",
                "incomplete_results", "repository_count", "repositories", "repository",
                "bugs", "homepage", "message"}
Pos == Seq(Step)

LEMMA StringsAreSteps ==
    ASSUME NEW s \in Seq(STRING)
    PROVE  s \in Pos
<1>1. STRING \subseteq Step
    BY DEF Step
<1>2. ASSUME NEW S, NEW T, S \subseteq T, NEW x \in Seq(S)
      PROVE  x \in Seq(T)
    BY <1>2
<1> QED BY <1>1, <1>2 DEF Pos

\* A position is above another if it agrees with it as far as it goes.
LEMMA PrefixByElement ==
    ASSUME NEW s \in Pos, NEW t \in Pos
    PROVE  IsPrefix(s, t) <=> Len(s) <= Len(t) /\ \A i \in 1..Len(s) : s[i] = t[i]
<1>1. SubSeq(s, 1, Len(s)) = s
    BY DEF Pos
<1>2. ASSUME Len(s) <= Len(t)
      PROVE  s = SubSeq(t, 1, Len(s)) <=> \A i \in 1..Len(s) : s[i] = t[i]
    <2>1. /\ SubSeq(t, 1, Len(s)) \in Seq(Step) /\ Len(SubSeq(t, 1, Len(s))) = Len(s)
          /\ \A i \in 1..Len(s) : SubSeq(t, 1, Len(s))[i] = t[i]
        BY <1>2 DEF Pos
    <2> QED BY <2>1 DEF Pos
<1> QED BY <1>1, <1>2 DEF IsPrefix

\* Above is a partial order, in which what lies above one position is a chain.
LEMMA PrefixOrder ==
    ASSUME NEW s \in Pos, NEW t \in Pos, NEW u \in Pos
    PROVE  /\ IsPrefix(s, s)
           /\ IsPrefix(s, t) /\ IsPrefix(t, u) => IsPrefix(s, u)
           /\ IsPrefix(s, u) /\ IsPrefix(t, u) => IsPrefix(s, t) \/ IsPrefix(t, s)
           /\ IsPrefix(s, t) /\ Len(t) <= Len(s) => s = t
<1>1. /\ IsPrefix(s, t) <=> Len(s) <= Len(t) /\ \A i \in 1..Len(s) : s[i] = t[i]
      /\ IsPrefix(t, u) <=> Len(t) <= Len(u) /\ \A i \in 1..Len(t) : t[i] = u[i]
      /\ IsPrefix(s, u) <=> Len(s) <= Len(u) /\ \A i \in 1..Len(s) : s[i] = u[i]
      /\ IsPrefix(t, s) <=> Len(t) <= Len(s) /\ \A i \in 1..Len(t) : t[i] = s[i]
      /\ IsPrefix(s, s) <=> Len(s) <= Len(s) /\ \A i \in 1..Len(s) : s[i] = s[i]
    BY PrefixByElement
<1>2. Len(s) \in Nat /\ Len(t) \in Nat /\ Len(u) \in Nat
    BY DEF Pos
<1>3. IsPrefix(s, u) /\ IsPrefix(t, u) => IsPrefix(s, t) \/ IsPrefix(t, s)
    <2> SUFFICES ASSUME IsPrefix(s, u), IsPrefix(t, u)
                 PROVE  IsPrefix(s, t) \/ IsPrefix(t, s)
        OBVIOUS
    <2>1. CASE Len(s) <= Len(t)
        BY <1>1, <1>2, <2>1
    <2>2. CASE Len(t) <= Len(s)
        BY <1>1, <1>2, <2>2
    <2> QED BY <1>2, <2>1, <2>2
<1>4. IsPrefix(s, t) /\ Len(t) <= Len(s) => s = t
    BY <1>1, <1>2 DEF Pos
<1>5. IsPrefix(s, t) /\ IsPrefix(t, u) => IsPrefix(s, u)
    BY <1>1, <1>2
<1>6. IsPrefix(s, s)
    BY <1>1, <1>2
<1> QED BY <1>3, <1>4, <1>5, <1>6

\* The beginning of a position lies above it, and what lies above it and is no
\* longer than the beginning lies above that.
LEMMA Beginning ==
    ASSUME NEW q \in Pos, NEW n \in 0..Len(q)
    PROVE  /\ SubSeq(q, 1, n) \in Pos /\ Len(SubSeq(q, 1, n)) = n
           /\ \A i \in 1..n : SubSeq(q, 1, n)[i] = q[i]
           /\ IsPrefix(SubSeq(q, 1, n), q)
           /\ \A t \in Pos : IsPrefix(t, q) /\ Len(t) <= n => IsPrefix(t, SubSeq(q, 1, n))
<1> DEFINE h == SubSeq(q, 1, n)
<1>1. h \in Pos /\ Len(h) = n /\ \A i \in 1..n : h[i] = q[i]
    BY DEF Pos
<1>2. Len(q) \in Nat
    BY DEF Pos
<1> HIDE DEF h
<1>3. IsPrefix(h, q)
    BY <1>1, <1>2, PrefixByElement
<1>4. ASSUME NEW t \in Pos, IsPrefix(t, q), Len(t) <= n
      PROVE  IsPrefix(t, h)
    <2>1. \A i \in 1..Len(t) : t[i] = q[i]
        BY <1>4, PrefixByElement
    <2>2. Len(t) \in Nat
        BY DEF Pos
    <2>3. \A i \in 1..Len(t) : t[i] = h[i]
        BY <1>1, <1>4, <2>1, <2>2
    <2> QED BY <1>1, <1>4, <2>3, PrefixByElement
<1> QED BY <1>1, <1>3, <1>4 DEF h

LEMMA SameBeginning ==
    ASSUME NEW a \in Pos, NEW q \in Pos, IsPrefix(a, q), NEW n \in 0..Len(a)
    PROVE  SubSeq(q, 1, n) = SubSeq(a, 1, n)
<1> DEFINE h == SubSeq(q, 1, n)
           g == SubSeq(a, 1, n)
<1>1. /\ Len(a) <= Len(q) /\ Len(a) \in Nat /\ Len(q) \in Nat
      /\ \A i \in 1..Len(a) : a[i] = q[i]
    BY PrefixByElement DEF Pos
<1>2. n \in 0..Len(q)
    BY <1>1
<1>3. /\ h \in Pos /\ Len(h) = n /\ \A i \in 1..n : h[i] = q[i]
      /\ g \in Pos /\ Len(g) = n /\ \A i \in 1..n : g[i] = a[i]
    BY <1>2, Beginning
<1> HIDE DEF h, g
<1>4. \A i \in 1..n : h[i] = g[i]
    BY <1>1, <1>3
<1>5. h = g
    BY <1>3, <1>4 DEF Pos
<1> QED BY <1>5 DEF h, g

LEMMA AppendIsBelow ==
    ASSUME NEW o \in Pos, NEW k \in Step
    PROVE  /\ Append(o, k) \in Pos /\ Len(Append(o, k)) = Len(o) + 1
           /\ IsPrefix(o, Append(o, k)) /\ Append(o, k)[Len(o) + 1] = k
<1> DEFINE a == Append(o, k)
<1>0. o \in Seq(Step) /\ Len(o) \in Nat
    BY DEF Pos
<1>1. /\ a \in Pos /\ Len(o) \in Nat /\ Len(a) = Len(o) + 1 /\ a[Len(o) + 1] = k
      /\ \A i \in 1..Len(o) : o[i] = a[i]
    <2>1. a \in Seq(Step)
        BY <1>0
    <2>2. Len(a) = Len(o) + 1
        BY <1>0
    <2>3. a[Len(o) + 1] = k
        BY <1>0
    <2>4. \A i \in 1..Len(o) : o[i] = a[i]
        BY <1>0
    <2> QED BY <1>0, <2>1, <2>2, <2>3, <2>4 DEF Pos
<1> HIDE DEF a
<1>2. IsPrefix(o, a)
    BY <1>1, PrefixByElement
<1> QED BY <1>1, <1>2 DEF a

\* A field's object, and an element's array, lie above it.
LEMMA DirectlyAbove ==
    ASSUME NEW q \in Pos, q # << >>
    PROVE  /\ Front(q) \in Pos /\ Len(Front(q)) = Len(q) - 1 /\ Front(q) # q
           /\ Len(q) \in Nat \ {0}
           /\ IsPrefix(Front(q), q) /\ Last(q) \in Step
           /\ \A t \in Pos : IsPrefix(t, q) => t = q \/ IsPrefix(t, Front(q))
<1>1. Len(q) \in Nat \ {0} /\ Last(q) \in Step
    BY DEF Pos, Last
<1> DEFINE n == Len(q) - 1
<1>2. n \in 0..Len(q) /\ n = Len(q) - 1 /\ Front(q) = SubSeq(q, 1, n)
    BY <1>1 DEF Front
<1> HIDE DEF n
<1>3. /\ Front(q) \in Pos /\ Len(Front(q)) = Len(q) - 1 /\ IsPrefix(Front(q), q)
      /\ \A t \in Pos : IsPrefix(t, q) /\ Len(t) <= Len(q) - 1 => IsPrefix(t, Front(q))
    BY <1>2, Beginning
<1>4. ASSUME NEW t \in Pos, IsPrefix(t, q), t # q
      PROVE  Len(t) <= Len(q) - 1
    <2>1. Len(t) \in Nat
        BY DEF Pos
    <2>2. ~(Len(q) <= Len(t))
        BY <1>4, PrefixOrder
    <2> QED BY <1>1, <2>1, <2>2
<1> QED BY <1>1, <1>3, <1>4

(* ------------------------------------------------------------------------- *)
(* What a filter leaves of a body                                            *)
(* ------------------------------------------------------------------------- *)

\* What the filters are given: JSON, or something that is no more than one value.
Tree(body) ==
    /\ << >> \in DOMAIN body /\ DOMAIN body \subseteq Pos
    /\ \A p \in DOMAIN body : \A i \in 0..(Len(p) - 1) :
          LET q == SubSeq(p, 1, i) IN q \in DOMAIN body /\ body[q].kind \in {"obj", "arr"}

\* What lies at p, and all above it, is as it was.
Kept(out, body, p) ==
    /\ p \in DOMAIN body /\ p \in DOMAIN out
    /\ \A q \in DOMAIN body : IsPrefix(q, p) => q \in DOMAIN out /\ out[q] = body[q]

\* All from t downwards is as it was.
Same(out, body, t) ==
    \A q \in Pos : IsPrefix(t, q) =>
        /\ q \in DOMAIN out <=> q \in DOMAIN body
        /\ q \in DOMAIN body => out[q] = body[q]

\* A body tells what the other tells in the same places, or less.
Trims(out, body) ==
    /\ DOMAIN out \subseteq Pos
    /\ \A p \in DOMAIN out : Shows(out[p]) # {} => Kept(out, body, p)

\* What the filters write in the place of what they take away.
LEMMA ShowsNothing ==
    ASSUME NEW v, v.kind \notin {"str", "id", "content", "keyed"}
    PROVE  Shows(v) = {}
BY DEF Shows

LEMMA WrittenShowsNothing ==
    /\ Shows(Null) = {} /\ Shows(Text) = {}
    /\ \A n : Shows(Num(n)) = {} /\ Shows(Link(n)) = {}
    /\ Shows(Refused[<< >>]) = {} /\ DOMAIN Refused = {<< >>}
    /\ Shows(Empty[<< >>]) = {} /\ DOMAIN Empty = {<< >>}
    /\ Shows(Garbled[<< >>]) = {} /\ DOMAIN Garbled = {<< >>}
<1>1. /\ Null.kind = "null" /\ Text.kind = "text"
      /\ \A n : Num(n).kind = "num" /\ Link(n).kind = "link"
      /\ DOMAIN Refused = {<< >>} /\ DOMAIN Empty = {<< >>} /\ DOMAIN Garbled = {<< >>}
      /\ Refused[<< >>].kind = "refused" /\ Empty[<< >>].kind = "empty"
      /\ Garbled[<< >>].kind = "garbled"
    BY DEF Null, Text, Num, Link, Refused, Empty, Garbled, Leaf
<1> QED BY <1>1, ShowsNothing

LEMMA TrimsRefused ==
    ASSUME NEW body PROVE Trims(Refused, body)
BY WrittenShowsNothing DEF Trims, Pos

LEMMA TrimsItself ==
    ASSUME NEW body, DOMAIN body \subseteq Pos PROVE Trims(body, body)
BY DEF Trims, Kept

LEMMA TrimsOnAndOn ==
    ASSUME NEW a, NEW b, NEW c, Trims(b, a), Trims(c, b)
    PROVE  Trims(c, a)
<1> SUFFICES ASSUME NEW p \in DOMAIN c, Shows(c[p]) # {}
             PROVE  Kept(c, a, p)
    BY DEF Trims
<1>1. Kept(c, b, p)
    BY DEF Trims
<1>2. p \in Pos /\ p \in DOMAIN b /\ c[p] = b[p]
    BY <1>1, PrefixOrder DEF Trims, Kept
<1>3. Kept(b, a, p)
    BY <1>2 DEF Trims
<1> QED BY <1>1, <1>3 DEF Kept

(* ------------------------------------------------------------------------- *)
(* Edit                                                                      *)
(* ------------------------------------------------------------------------- *)

LEMMA EditAt ==
    ASSUME NEW body, NEW cut, NEW put, NEW out, out = Edit(body, cut, put), NEW q
    PROVE  /\ q \in DOMAIN out <=>
                /\ q \in DOMAIN body \cup DOMAIN put
                /\ \A c \in cut : ~IsPrefix(c, q)
                /\ \A c \in DOMAIN put : ~IsStrictPrefix(c, q)
           /\ q \in DOMAIN out => out[q] = IF q \in DOMAIN put THEN put[q] ELSE body[q]
BY DEF Edit

\* What an edit leaves to be seen was neither cut nor written, nor was anything
\* above it.
LEMMA EditTrims ==
    ASSUME NEW body, DOMAIN body \subseteq Pos, NEW cut \in SUBSET Pos,
           NEW put, DOMAIN put \subseteq Pos, \A c \in DOMAIN put : Shows(put[c]) = {},
           NEW out, out = Edit(body, cut, put)
    PROVE  /\ Trims(out, body)
           /\ \A p \in DOMAIN out : Shows(out[p]) # {} =>
                \A c \in cut \cup DOMAIN put : ~IsPrefix(c, p)
<1>0. \A q : /\ q \in DOMAIN out <=>
                  /\ q \in DOMAIN body \cup DOMAIN put
                  /\ \A c \in cut : ~IsPrefix(c, q)
                  /\ \A c \in DOMAIN put : ~IsStrictPrefix(c, q)
             /\ q \in DOMAIN out => out[q] = IF q \in DOMAIN put THEN put[q] ELSE body[q]
    BY EditAt
<1>1. DOMAIN out \subseteq Pos
    BY <1>0
<1>2. ASSUME NEW p \in DOMAIN out, Shows(out[p]) # {}
      PROVE  Kept(out, body, p) /\ \A c \in cut \cup DOMAIN put : ~IsPrefix(c, p)
    <2>1. p \notin DOMAIN put /\ p \in DOMAIN body
        BY <1>0, <1>2
    <2>2. \A c \in cut : ~IsPrefix(c, p)
        BY <1>0, <1>2
    <2>3. \A c \in DOMAIN put : ~IsPrefix(c, p)
        BY <1>0, <1>2, <2>1 DEF IsStrictPrefix
    <2>4. ASSUME NEW q \in DOMAIN body, IsPrefix(q, p)
          PROVE  q \in DOMAIN out /\ out[q] = body[q]
        <3>1. \A c \in cut \cup DOMAIN put : ~IsPrefix(c, q)
            BY <1>1, <2>2, <2>3, <2>4, PrefixOrder
        <3>2. q \notin DOMAIN put
            BY <2>3, <2>4
        <3> QED BY <1>0, <3>1, <3>2 DEF IsStrictPrefix
    <2> QED BY <2>1, <2>2, <2>3, <2>4 DEF Kept
<1> QED BY <1>1, <1>2 DEF Trims

\* An edit that neither cuts nor writes above or below a position leaves all
\* from there downwards alone.
LEMMA EditSame ==
    ASSUME NEW body, DOMAIN body \subseteq Pos, NEW cut \in SUBSET Pos,
           NEW put, DOMAIN put \subseteq Pos, NEW t \in Pos,
           \A c \in cut \cup DOMAIN put : ~IsPrefix(c, t) /\ ~IsPrefix(t, c),
           NEW out, out = Edit(body, cut, put)
    PROVE  Same(out, body, t)
<1> SUFFICES ASSUME NEW q \in Pos, IsPrefix(t, q)
             PROVE  /\ q \in DOMAIN out <=> q \in DOMAIN body
                    /\ q \in DOMAIN body => out[q] = body[q]
    BY DEF Same
<1>0. /\ q \in DOMAIN out <=>
           /\ q \in DOMAIN body \cup DOMAIN put
           /\ \A c \in cut : ~IsPrefix(c, q)
           /\ \A c \in DOMAIN put : ~IsStrictPrefix(c, q)
      /\ q \in DOMAIN out => out[q] = IF q \in DOMAIN put THEN put[q] ELSE body[q]
    BY EditAt
<1>1. \A c \in cut \cup DOMAIN put : ~IsPrefix(c, q)
    BY PrefixOrder
<1>2. q \notin DOMAIN put
    OBVIOUS
<1> QED BY <1>0, <1>1, <1>2 DEF IsStrictPrefix

(* ------------------------------------------------------------------------- *)
(* What the steps of a location lead to                                      *)
(* ------------------------------------------------------------------------- *)

\* From the whole body, each step begins at the beginning of the position.
LEMMA ReachedByStep ==
    ASSUME NEW body, DOMAIN body \subseteq Pos, NEW steps \in Pos, NEW q
    PROVE  q \in Reached(body, << >>, steps) <=>
               /\ q \in DOMAIN body /\ Len(q) = Len(steps)
               /\ \A i \in 1..Len(steps) :
                   IF steps[i] = "[]" THEN IsArray(body, SubSeq(q, 1, i - 1))
                   ELSE IsObject(body, SubSeq(q, 1, i - 1)) /\ q[i] = steps[i]
<1>1. Len(steps) \in Nat /\ DOMAIN steps = 1..Len(steps) /\ << >> \in Pos /\ Len(<< >>) = 0
    BY DEF Pos
<1>2. ASSUME q \in DOMAIN body PROVE IsPrefix(<< >>, q)
    BY <1>1, <1>2, PrefixByElement
<1>3. \A i \in 1..Len(steps) : Len(<< >>) + i - 1 = i - 1 /\ Len(<< >>) + i = i
    BY <1>1
<1>4. Len(<< >>) + Len(steps) = Len(steps)
    BY <1>1
<1> QED BY <1>1, <1>2, <1>3, <1>4 DEF Reached

LEMMA ReachedIsKept ==
    ASSUME NEW body, DOMAIN body \subseteq Pos, NEW out, DOMAIN out \subseteq Pos,
           NEW p \in Pos, Kept(out, body, p), NEW steps \in Pos,
           NEW t \in Reached(body, << >>, steps), IsPrefix(t, p)
    PROVE  t \in Reached(out, << >>, steps) /\ out[t] = body[t]
<1>1. /\ t \in DOMAIN body /\ Len(t) = Len(steps) /\ t \in Pos
      /\ \A i \in 1..Len(steps) :
          IF steps[i] = "[]" THEN IsArray(body, SubSeq(t, 1, i - 1))
          ELSE IsObject(body, SubSeq(t, 1, i - 1)) /\ t[i] = steps[i]
    BY ReachedByStep
<1>2. t \in DOMAIN out /\ out[t] = body[t]
    BY <1>1 DEF Kept
<1>3. ASSUME NEW i \in 1..Len(steps), SubSeq(t, 1, i - 1) \in DOMAIN body
      PROVE  /\ SubSeq(t, 1, i - 1) \in DOMAIN out
             /\ out[SubSeq(t, 1, i - 1)] = body[SubSeq(t, 1, i - 1)]
    <2>1. i - 1 \in 0..Len(t)
        BY <1>1 DEF Pos
    <2>2. SubSeq(t, 1, i - 1) \in Pos /\ IsPrefix(SubSeq(t, 1, i - 1), t)
        BY <1>1, <2>1, Beginning
    <2>3. IsPrefix(SubSeq(t, 1, i - 1), p)
        BY <1>1, <2>2, PrefixOrder
    <2> QED BY <1>3, <2>3 DEF Kept
<1>4. \A i \in 1..Len(steps) :
          IF steps[i] = "[]" THEN IsArray(out, SubSeq(t, 1, i - 1))
          ELSE IsObject(out, SubSeq(t, 1, i - 1)) /\ t[i] = steps[i]
    BY <1>1, <1>3 DEF IsArray, IsObject
<1> QED BY <1>1, <1>2, <1>4, ReachedByStep

\* On the way to a row, a position above it stands where the steps of the row go.
LEMMA AboveARow ==
    ASSUME NEW body, DOMAIN body \subseteq Pos, NEW steps \in Pos,
           NEW row \in ElementsAt(body, steps), NEW t \in Pos, IsPrefix(t, row),
           NEW i \in 1..Len(t)
    PROVE  /\ Len(t) <= Len(steps) + 1
           /\ IsArray(body, SubSeq(t, 1, i - 1)) => Append(steps, "[]")[i] = "[]"
           /\ IsObject(body, SubSeq(t, 1, i - 1)) => Append(steps, "[]")[i] = t[i] /\ i \in 1..Len(steps)
<1>1. PICK a \in Reached(body, << >>, steps) : IsArray(body, a) /\ row \in Below(body, a)
    BY DEF ElementsAt, ListsAt
<1>2. /\ a \in DOMAIN body /\ a \in Pos /\ Len(a) = Len(steps)
      /\ \A j \in 1..Len(steps) :
          IF steps[j] = "[]" THEN IsArray(body, SubSeq(a, 1, j - 1))
          ELSE IsObject(body, SubSeq(a, 1, j - 1)) /\ a[j] = steps[j]
    BY <1>1, ReachedByStep
<1>3. row \in Pos /\ Len(row) = Len(steps) + 1 /\ IsPrefix(a, row)
    BY <1>1, <1>2 DEF Below
<1>4. /\ Len(t) <= Len(row) /\ t[i] = row[i]
      /\ Len(t) \in Nat /\ Len(steps) \in Nat
    BY PrefixByElement, <1>3 DEF Pos
<1>5. SubSeq(row, 1, i - 1) = SubSeq(t, 1, i - 1)
    <2>1. i - 1 \in 0..Len(t)
        BY <1>4
    <2> QED BY <1>3, <2>1, SameBeginning
<1>6. SubSeq(row, 1, i - 1) = SubSeq(a, 1, i - 1)
    <2>1. i - 1 \in 0..Len(a)
        BY <1>2, <1>3, <1>4
    <2> QED BY <1>2, <1>3, <2>1, SameBeginning
<1>7. \A at : ~(IsArray(body, at) /\ IsObject(body, at))
    BY DEF IsArray, IsObject
<1>8. CASE i <= Len(steps)
    <2>1. row[i] = a[i]
        BY <1>2, <1>3, <1>4, <1>8, PrefixByElement
    <2>2. Append(steps, "[]")[i] = steps[i]
        BY <1>4, <1>8 DEF Pos
    <2>0. i \in 1..Len(steps) /\ SubSeq(a, 1, i - 1) = SubSeq(t, 1, i - 1) /\ a[i] = t[i]
        BY <1>4, <1>5, <1>6, <1>8, <2>1
    <2>3. IF steps[i] = "[]" THEN IsArray(body, SubSeq(t, 1, i - 1))
          ELSE IsObject(body, SubSeq(t, 1, i - 1)) /\ t[i] = steps[i]
        <3>1. IF steps[i] = "[]" THEN IsArray(body, SubSeq(a, 1, i - 1))
              ELSE IsObject(body, SubSeq(a, 1, i - 1)) /\ a[i] = steps[i]
            BY <1>2, <2>0
        <3> QED BY <2>0, <3>1
    <2>4. i \in 1..Len(steps) /\ Len(t) <= Len(steps) + 1
        BY <1>3, <1>4, <1>8
    <2> QED BY <1>7, <2>2, <2>3, <2>4
<1>9. CASE i = Len(steps) + 1
    <2>1. Append(steps, "[]")[i] = "[]"
        BY <1>4, <1>9 DEF Pos
    <2>2. SubSeq(t, 1, i - 1) = a
        <3>1. SubSeq(a, 1, Len(a)) = a
            BY <1>2 DEF Pos
        <3> QED BY <1>2, <1>4, <1>5, <1>6, <1>9, <3>1
    <2> QED BY <1>1, <1>3, <1>4, <1>7, <2>1, <2>2
<1> QED BY <1>3, <1>4, <1>8, <1>9

\* What an object names, and what its location tells of it, lies in it.
LEMMA SameIsTold ==
    ASSUME NEW body, DOMAIN body \subseteq Pos, NEW out, DOMAIN out \subseteq Pos,
           NEW t \in Pos, Same(out, body, t)
    PROVE  /\ MarkedRepos(out, t) = MarkedRepos(body, t)
           /\ \A name \in Pos : Told(out, t, name) = Told(body, t, name)
<1>1. ASSUME NEW q \in Pos, IsPrefix(t, q)
      PROVE  /\ q \in DOMAIN out <=> q \in DOMAIN body
             /\ q \in DOMAIN body => out[q] = body[q]
             /\ IsArray(out, q) <=> IsArray(body, q)
             /\ IsObject(out, q) <=> IsObject(body, q)
    BY <1>1 DEF Same, IsArray, IsObject
<1>2. ASSUME NEW o \in Pos, IsPrefix(t, o), NEW k \in Step
      PROVE  Field(out, o, k) = Field(body, o, k)
    <2>1. Append(o, k) \in Pos /\ IsPrefix(o, Append(o, k))
        BY AppendIsBelow
    <2>2. IsPrefix(t, Append(o, k))
        BY <1>2, <2>1, PrefixOrder
    <2> QED BY <1>1, <1>2, <2>1, <2>2 DEF Field, HasField
<1>3. MarkedRepos(out, t) = MarkedRepos(body, t)
    <2>1. Within(out, t) = Within(body, t)
        BY <1>1 DEF Within
    <2>2. ASSUME NEW o \in Within(body, t)
          PROVE  /\ Field(out, o, "full_name") = Field(body, o, "full_name")
                 /\ Field(out, o, "repository_url") = Field(body, o, "repository_url")
        <3>1. o \in Pos /\ IsPrefix(t, o)
            BY DEF Within
        <3>2. "full_name" \in Step /\ "repository_url" \in Step
            BY DEF Step
        <3> QED BY <1>2, <3>1, <3>2
    <2> QED BY <2>1, <2>2 DEF MarkedRepos
<1>4. ASSUME NEW name \in Pos
      PROVE  Told(out, t, name) = Told(body, t, name)
    <2>1. Reached(out, t, name) = Reached(body, t, name)
        <3>1. ASSUME NEW q \in Pos, IsPrefix(t, q), Len(q) = Len(t) + Len(name),
                     NEW i \in DOMAIN name
              PROVE  LET at == SubSeq(q, 1, Len(t) + i - 1) IN at \in Pos /\ IsPrefix(t, at)
            <4>1. Len(t) \in Nat /\ Len(name) \in Nat /\ i \in 1..Len(name)
                BY DEF Pos
            <4> DEFINE n == Len(t) + i - 1
            <4>2. n \in 0..Len(q) /\ Len(t) <= n
                BY <3>1, <4>1
            <4> HIDE DEF n
            <4>3. SubSeq(q, 1, n) \in Pos /\ IsPrefix(t, SubSeq(q, 1, n))
                BY <3>1, <4>2, Beginning
            <4> QED BY <4>3 DEF n
        <3> QED BY <1>1, <3>1 DEF Reached
    <2>2. \A q \in Reached(body, t, name) : out[q] = body[q]
        BY <1>1 DEF Reached
    <2>3. NamedAt(out, t, name, {"full", "api"}) = NamedAt(body, t, name, {"full", "api"})
        BY <2>1, <2>2 DEF NamedAt
    <2> QED BY <1>3, <2>3 DEF Told
<1> QED BY <1>3, <1>4

(* ------------------------------------------------------------------------- *)
(* Types                                                                     *)
(* ------------------------------------------------------------------------- *)

LEMMA RequestsTyped ==
    ASSUME NEW r \in RequestSet
    PROVE  r.path \in Paths /\ r.path \in Seq(STRING) /\ r.method \in Method
BY InputsTyped DEF RequestSet

\* What follows a redirect is a request without a body, of the path it was sent to.
LEMMA HopsAre ==
    ASSUME NEW r \in RequestSet, NEW moved \in [path: Paths, keeps: BOOLEAN], NEW h,
           h = Hop(r, moved)
    PROVE  h \in RequestSet /\ h.body.selected_repository_ids = {}
<1> DEFINE empty == [k \in DOMAIN r.body |-> {}]
           method == IF moved.keeps \/ IsRead(r.method) THEN r.method ELSE "GET"
<1>1. r.body \in RequestBody /\ r.method \in Method
    BY DEF RequestSet
<1>2. DOMAIN r.body = {"repositories", "repo_names", "repository_names", "repository_owners",
                       "selected_repository_ids"}
    BY <1>1 DEF RequestBody
<1>3. empty = [repositories |-> {}, repo_names |-> {}, repository_names |-> {},
               repository_owners |-> {}, selected_repository_ids |-> {}]
    BY <1>2
<1>4. empty \in RequestBody /\ empty.selected_repository_ids = {}
    BY <1>3 DEF RequestBody
<1>5. method \in Method
    BY <1>1 DEF Method
<1> HIDE DEF method, empty
<1>6. h = [r EXCEPT !.body = empty, !.path = moved.path, !.method = method]
    BY DEF Hop, Bodiless, RequestSet, empty, method
<1> QED BY <1>4, <1>5, <1>6 DEF RequestSet

\* The variables keep their types along every request, whatever the answers and
\* however many redirects; the redirects followed stay within the limit.
THEOREM Types == Spec => []TypeOK
<1>1. Init => TypeOK
    BY InputsTyped, RedirectsBounded DEF Init, TypeOK
<1>2. TypeOK /\ [Next]_vars => TypeOK'
    <2> SUFFICES ASSUME TypeOK, [Next]_vars PROVE TypeOK'
        OBVIOUS
    <2> USE DEF TypeOK
    <2>1. CASE RejectUnauthorized
        BY <2>1 DEF RejectUnauthorized, Reject, Finish
    <2>2. CASE AnswerSynthetic
        BY <2>2 DEF AnswerSynthetic, Reject, Finish
    <2>3. CASE RejectDotSegment
        BY <2>3 DEF RejectDotSegment, Reject, Finish
    <2>4. CASE Receive
        BY <2>4 DEF Receive, Admitted, Forward, Reject, Finish
    <2>5. CASE ReceiveNpm
        BY <2>5 DEF ReceiveNpm, Admitted, Forward, Reject, Finish
    <2>6. CASE Redirect
        <3>1. PICK moved \in Moved(asked.path) :
                 IF WithinLimit /\ MayFollow(Hop(asked, moved))
                 THEN /\ asked' = Hop(asked, moved) /\ hops' = NextHop(hops)
                      /\ UNCHANGED <<mode, pol, req, pc, filter, answer, status, sent>>
                 ELSE Reject("502", NoBody)
            BY <2>6 DEF Redirect
        <3>2. Hop(asked, moved) \in RequestSet
            BY RequestsTyped, RedirectsTyped, HopsAre
        <3>3. CASE WithinLimit /\ MayFollow(Hop(asked, moved))
            BY <3>1, <3>2, <3>3, RedirectsBounded DEF WithinLimit, NextHop
        <3>4. CASE ~(WithinLimit /\ MayFollow(Hop(asked, moved)))
            BY <3>1, <3>4 DEF Reject, Finish
        <3> QED BY <3>3, <3>4
    <2>7. CASE Respond
        BY <2>7 DEF Respond, Refusal, Finish
    <2>8. CASE RespondTooLarge
        BY <2>8 DEF RespondTooLarge, Reject, Finish
    <2>9. CASE UpstreamFails
        BY <2>9 DEF UpstreamFails, Reject, Finish
    <2>10. CASE UNCHANGED vars
        BY <2>10 DEF vars
    <2> QED
        BY <2>1, <2>2, <2>3, <2>4, <2>5, <2>6, <2>7, <2>8, <2>9, <2>10 DEF Next
<1> QED BY <1>1, <1>2, PTL DEF Spec

(* ------------------------------------------------------------------------- *)
(* Writes                                                                    *)
(* ------------------------------------------------------------------------- *)

\* A write that is allowed without a resource is allowed with any: a rule with
\* permissions refuses what could be a resource that it denies.
LEMMA WriteWithoutResource ==
    ASSUME NEW p, NEW o, NEW s, NEW res, Evaluate(p, RepoScope(o, s, NoResource), "write")
    PROVE  Evaluate(p, RepoScope(o, s, res), "write")
<1>0. NoResource \in Indeterminate
    BY Zenon DEF NoResource, Indeterminate
<1>1. \A rule : RuleAllows(rule, "write", NoResource) => RuleAllows(rule, "write", res)
    <2> SUFFICES ASSUME NEW rule, RuleAllows(rule, "write", NoResource)
                 PROVE  RuleAllows(rule, "write", res)
        OBVIOUS
    <2>1. rule.perms = NilMap /\ permits(rule.access, "write")
        BY <1>0 DEF RuleAllows
    <2>2. ~lookupResource(rule.perms, res).ok
        BY <2>1 DEF lookupResource, Keys
    <2> QED BY <2>1, <2>2 DEF RuleAllows
<1> QED BY <1>1 DEF Evaluate, RepoScope

\* Where no rule below an organization refuses a write, and the organization
\* itself is granted it, so is every repository of it.
LEMMA WriteBelowOrganization ==
    ASSUME NEW p \in PolicySet, NEW o \in STRING, NEW s, NEW res, res \notin Indeterminate,
           Evaluate(p, OrgScope(o, res), "write"),
           ~AnyRepoDeniesWriteUnderOrg(p, OrgNamed(o), res)
    PROVE  Evaluate(p, RepoScope(o, s, res), "write")
<1> DEFINE R == RepoRulesOf(p, RepoNamed(o, s))
<1>1. OrgNamed(o) # NoOrg
    BY NamesAreNoSentinels DEF OrgNamed
<1>2. CASE R # {}
    <2> DEFINE rule == p.repo[First(R)]
    <2>1. First(R) \in R /\ First(R) \in DOMAIN p.repo
        BY <1>2, RulesOfPolicy
    <2>2. rule.name.owner = o
        <3>1. \A i \in R : SameRepo(p.repo[i].name, RepoNamed(o, s))
            BY DEF RepoRulesOf
        <3> QED BY <2>1, <3>1 DEF SameRepo, RepoNamed
    <2>3. permits(IF lookupResource(rule.perms, res).ok
                  THEN lookupResource(rule.perms, res).access ELSE rule.access, "write")
        BY <2>1, <2>2 DEF AnyRepoDeniesWriteUnderOrg, OrgNamed
    <2>4. RuleAllows(rule, "write", res)
        BY <2>3 DEF RuleAllows
    <2> QED BY <1>2, <2>4 DEF Evaluate, RepoScope
<1>3. CASE R = {}
    BY <1>1, <1>3 DEF Evaluate, RepoScope, OrgScope, RepoRulesOf
<1> QED BY <1>2, <1>3

LEMMA Literals ==
    Wild \notin {"repos", "agents", "teams", "orgs", "user", "starred", "migrations",
                "code-scanning", "codeql", "variant-analyses", "properties", "values"}
BY Zenon DEF Wild

\* A path agrees with a template that it matches in all but the wildcards.
LEMMA Segments ==
    ASSUME NEW t, NEW s \in Seq(STRING), matches(t, s)
    PROVE  /\ Len(t) = Len(s) /\ Len(s) \in Nat
           /\ \A i \in 1..Len(s) : t[i] # Wild => s[i] = t[i]
BY DEF matches

LEMMA SegmentsAtBeginning ==
    ASSUME NEW t, NEW s \in Seq(STRING), NEW n \in Nat, Len(t) = n, Len(s) >= n,
           matches(t, SubSeq(s, 1, n))
    PROVE  \A i \in 1..n : t[i] # Wild => s[i] = t[i]
<1> DEFINE h == SubSeq(s, 1, n)
<1>1. h \in Seq(STRING) /\ Len(h) = n /\ \A i \in 1..n : h[i] = s[i]
    OBVIOUS
<1>2. matches(t, h)
    OBVIOUS
<1> HIDE DEF h
<1> QED BY <1>1, <1>2, Segments

\* The templates of what lies below an organization or a repository.
LEMMA Templates ==
    ASSUME NEW S, NEW rest \in Seq(S)
    PROVE  /\ Len(InOrg(rest)) = 2 + Len(rest) /\ Len(InRepo(rest)) = 3 + Len(rest)
           /\ InOrg(rest)[1] = "orgs" /\ InOrg(rest)[2] = Wild
           /\ InRepo(rest)[1] = "repos" /\ InRepo(rest)[2] = Wild /\ InRepo(rest)[3] = Wild
           /\ \A i \in 3..(Len(rest) + 2) : InOrg(rest)[i] = rest[i - 2]
           /\ \A i \in 4..(Len(rest) + 3) : InRepo(rest)[i] = rest[i - 3]
<1>1. PICK T : <<"orgs", Wild>> \in Seq(T) /\ <<"repos", Wild, Wild>> \in Seq(T) /\ rest \in Seq(T)
    <2> DEFINE T == S \cup {"orgs", "repos", Wild}
    <2>1. "orgs" \in T /\ "repos" \in T /\ Wild \in T
        OBVIOUS
    <2>2. rest \in Seq(T)
        OBVIOUS
    <2> HIDE DEF T
    <2>3. <<"orgs", Wild>> \in Seq(T) /\ <<"repos", Wild, Wild>> \in Seq(T)
        BY <2>1
    <2> QED BY <2>2, <2>3
<1>2. ASSUME NEW h \in Seq(T)
      PROVE  /\ Len(h \o rest) = Len(h) + Len(rest)
             /\ \A i \in 1..Len(h) : (h \o rest)[i] = h[i]
             /\ \A i \in (Len(h) + 1)..(Len(h) + Len(rest)) : (h \o rest)[i] = rest[i - Len(h)]
    BY <1>1
<1> QED BY <1>1, <1>2 DEF InOrg, InRepo

\* The paths that name a repository in themselves.
LEMMA PathTargetsAre ==
    ASSUME NEW s \in Seq(STRING), NEW t \in PathTargets(s)
    PROVE  \/ Len(s) >= 3 /\ s[1] = "repos" /\ t = <<s[2], s[3]>>
           \/ Len(s) >= 4 /\ s[1] = "agents" /\ s[2] = "repos" /\ t = <<s[3], s[4]>>
           \/ Len(s) >= 5 /\ s[1] = "teams" /\ s[3] = "repos" /\ t = <<s[4], s[5]>>
           \/ Len(s) >= 7 /\ s[1] = "orgs" /\ s[3] = "teams" /\ s[5] = "repos" /\ t = <<s[6], s[7]>>
           \/ Len(s) = 4 /\ s[1] = "user" /\ s[2] = "starred" /\ t = <<s[3], s[4]>>
           \/ Len(s) = 7 /\ s[1] = "orgs" /\ s[3] = "migrations" /\ s[5] = "repos" /\ t = <<s[2], s[6]>>
<1>1. ASSUME NEW u \in RepoPlaces, Len(s) >= Len(u) + 2, matches(u, SubSeq(s, 1, Len(u))),
             t = <<s[Len(u) + 1], s[Len(u) + 2]>>
      PROVE  \/ Len(s) >= 3 /\ s[1] = "repos" /\ t = <<s[2], s[3]>>
             \/ Len(s) >= 4 /\ s[1] = "agents" /\ s[2] = "repos" /\ t = <<s[3], s[4]>>
             \/ Len(s) >= 5 /\ s[1] = "teams" /\ s[3] = "repos" /\ t = <<s[4], s[5]>>
             \/ Len(s) >= 7 /\ s[1] = "orgs" /\ s[3] = "teams" /\ s[5] = "repos" /\ t = <<s[6], s[7]>>
    <2> DEFINE n == Len(u)
    <2>1. ASSUME n \in Nat PROVE \A i \in 1..n : u[i] # Wild => s[i] = u[i]
        <3>1. Len(s) \in Nat
            OBVIOUS
        <3> HIDE DEF n
        <3>2. Len(u) = n BY DEF n
        <3>3. Len(s) >= n /\ matches(u, SubSeq(s, 1, n))
            BY <1>1, <2>1, <3>1 DEF n
        <3> QED BY <2>1, <3>2, <3>3, SegmentsAtBeginning
    <2>2. CASE u = <<"repos">>
        BY <1>1, <2>1, <2>2, Literals
    <2>3. CASE u = <<"agents", "repos">>
        BY <1>1, <2>1, <2>3, Literals
    <2>4. CASE u = <<"teams", Wild, "repos">>
        BY <1>1, <2>1, <2>4, Literals
    <2>5. CASE u = InOrg(<<"teams", Wild, "repos">>)
        <3>1. /\ Len(u) = 5 /\ u[1] = "orgs" /\ u[3] = "teams" /\ u[5] = "repos"
            <4> DEFINE rest == <<"teams", Wild, "repos">>
                   S == {"teams", Wild, "repos"}
            <4>1. /\ rest \in Seq(S)
                  /\ Len(rest) = 3 /\ rest[1] = "teams" /\ rest[3] = "repos"
                OBVIOUS
            <4>2. u = InOrg(rest)
                BY <2>5
            <4> HIDE DEF rest, S
            <4>3. /\ Len(InOrg(rest)) = 2 + Len(rest) /\ InOrg(rest)[1] = "orgs"
                  /\ \A i \in 3..(Len(rest) + 2) : InOrg(rest)[i] = rest[i - 2]
                BY <4>1, Templates
            <4> QED BY <4>1, <4>2, <4>3
        <3> QED BY <1>1, <2>1, <3>1, Literals
    <2> QED BY <2>2, <2>3, <2>4, <2>5 DEF RepoPlaces
<1>2. CASE matches(<<"user", "starred", Wild, Wild>>, s) /\ t = <<s[3], s[4]>>
    BY <1>2, Segments, Literals
<1>3. CASE matches(InOrg(<<"migrations", Wild, "repos", Wild, "lock">>), s) /\ t = <<s[2], s[6]>>
    <2> DEFINE rest == <<"migrations", Wild, "repos", Wild, "lock">>
           S == {"migrations", Wild, "repos", "lock"}
    <2>1. /\ rest \in Seq(S)
          /\ Len(rest) = 5 /\ rest[1] = "migrations" /\ rest[3] = "repos"
        OBVIOUS
    <2>2. matches(InOrg(rest), s)
        BY <1>3
    <2> HIDE DEF rest, S
    <2>3. /\ Len(InOrg(rest)) = 2 + Len(rest) /\ InOrg(rest)[1] = "orgs"
          /\ \A i \in 3..(Len(rest) + 2) : InOrg(rest)[i] = rest[i - 2]
        BY <2>1, Templates
    <2>4. /\ Len(InOrg(rest)) = 7 /\ InOrg(rest)[1] = "orgs" /\ InOrg(rest)[3] = "migrations"
          /\ InOrg(rest)[5] = "repos"
        BY <2>1, <2>3
    <2> QED BY <1>3, <2>2, <2>4, Segments, Literals
<1>4. CASE \E u \in RepoPlaces : t \in NamedAfter(u, s)
    <2>1. PICK u \in RepoPlaces : t \in NamedAfter(u, s)
        BY <1>4
    <2>2. /\ Len(s) >= Len(u) + 2 /\ matches(u, SubSeq(s, 1, Len(u)))
          /\ t = <<s[Len(u) + 1], s[Len(u) + 2]>>
        BY <2>1 DEF NamedAfter
    <2> QED BY <1>1, <2>2
<1>5. (\E u \in RepoPlaces : t \in NamedAfter(u, s)) \/ t \in Starred(s) \/ t \in Locked(s)
    BY DEF PathTargets
<1> QED BY <1>2, <1>3, <1>4, <1>5 DEF Starred, Locked

\* What the classifier makes of the paths in which other scopes may hide.
LEMMA ClassifiedRepos ==
    ASSUME NEW m, NEW s, NEW b, NEW x, NEW c, c = Classify(m, s, b, x), Len(s) \in Nat
    PROVE  /\ Has(s, 3, 1, "repos") =>
                /\ c.primary = RepoScope(s[2], s[3], restResource(s))
                /\ bodyNamedRepoScopes(m, s, b) \subseteq c.additional
           /\ Has(s, 4, 1, "agents") /\ s[2] = "repos" =>
                c.primary = RepoScope(s[3], s[4], restResource(Tail(s)))
           /\ Has(s, 2, 1, "orgs") =>
                /\ c.primary = OrgScope(s[2], orgResource(s))
                /\ bodyNamedRepoScopes(m, s, b) \subseteq c.additional
                /\ pathEmbeddedRepoScopes(s) \subseteq c.additional
           /\ Len(s) >= 1 /\ s[1] = "user" =>
                /\ bodyNamedRepoScopes(m, s, b) \subseteq c.additional
                /\ pathEmbeddedRepoScopes(s) \subseteq c.additional
           /\ Has(s, 3, 1, "teams") /\ s[3] = "repos" =>
                pathEmbeddedRepoScopes(s) \subseteq c.additional
<1>1. ASSUME Has(s, 3, 1, "repos")
      PROVE  c = Scoped(RepoScope(s[2], s[3], restResource(s)),
                        compareForkScopes(s, x) \cup bodyNamedRepoScopes(m, s, b))
    BY <1>1 DEF Classify, Has
<1>2. ASSUME Has(s, 4, 1, "agents"), s[2] = "repos"
      PROVE  c = Scoped(RepoScope(s[3], s[4], restResource(Tail(s))), {})
    BY <1>2 DEF Classify, Has
<1>3. ASSUME Has(s, 2, 1, "orgs")
      PROVE  c = Scoped(OrgScope(s[2], orgResource(s)),
                        bodyNamedRepoScopes(m, s, b) \cup pathEmbeddedRepoScopes(s))
    BY <1>3 DEF Classify, Has
<1>4. ASSUME (Len(s) >= 1 /\ s[1] = "user") \/ (Has(s, 3, 1, "teams") /\ s[3] = "repos")
      PROVE  c = Scoped(CategoryScope(restUnscopedCategory(s)),
                        bodyNamedRepoScopes(m, s, b) \cup pathEmbeddedRepoScopes(s))
    BY <1>4 DEF Classify, Has
<1>5. \A p, a : Scoped(p, a).primary = p /\ Scoped(p, a).additional = a
    BY DEF Scoped
<1>6. Has(s, 3, 1, "repos") =>
          /\ c.primary = RepoScope(s[2], s[3], restResource(s))
          /\ bodyNamedRepoScopes(m, s, b) \subseteq c.additional
    BY <1>1, <1>5
<1>7. Has(s, 4, 1, "agents") /\ s[2] = "repos" =>
          c.primary = RepoScope(s[3], s[4], restResource(Tail(s)))
    BY <1>2, <1>5
<1>8. Has(s, 2, 1, "orgs") =>
          /\ c.primary = OrgScope(s[2], orgResource(s))
          /\ bodyNamedRepoScopes(m, s, b) \subseteq c.additional
          /\ pathEmbeddedRepoScopes(s) \subseteq c.additional
    BY <1>3, <1>5
<1>9. ASSUME (Len(s) >= 1 /\ s[1] = "user") \/ (Has(s, 3, 1, "teams") /\ s[3] = "repos")
      PROVE  /\ bodyNamedRepoScopes(m, s, b) \subseteq c.additional
             /\ pathEmbeddedRepoScopes(s) \subseteq c.additional
    BY <1>4, <1>5, <1>9
<1> QED BY <1>6, <1>7, <1>8, <1>9

\* Whatever a path names in itself is among the scopes of the request.
LEMMA PathTargetsAreScoped ==
    ASSUME NEW m, NEW s \in Seq(STRING), NEW b, NEW x, NEW c, c = Classify(m, s, b, x),
           NEW t \in PathTargets(s)
    PROVE  \E res \in {"metadata", c.primary.res, NoResource} :
               RepoScope(t[1], t[2], res) \in AllScopes(c)
<1>0. Len(s) \in Nat
    OBVIOUS
<1>1. CASE Len(s) >= 3 /\ s[1] = "repos" /\ t = <<s[2], s[3]>>
    <2>1. c.primary = RepoScope(s[2], s[3], restResource(s))
        BY <1>0, <1>1, ClassifiedRepos DEF Has
    <2>2. c.primary = RepoScope(t[1], t[2], c.primary.res)
        BY <1>1, <2>1 DEF RepoScope
    <2> QED BY <2>2 DEF AllScopes
<1>2. CASE Len(s) >= 4 /\ s[1] = "agents" /\ s[2] = "repos" /\ t = <<s[3], s[4]>>
    <2>1. c.primary = RepoScope(s[3], s[4], restResource(Tail(s)))
        BY <1>0, <1>2, ClassifiedRepos DEF Has
    <2>2. c.primary = RepoScope(t[1], t[2], c.primary.res)
        BY <1>2, <2>1 DEF RepoScope
    <2> QED BY <2>2 DEF AllScopes
<1>3. CASE Len(s) >= 5 /\ s[1] = "teams" /\ s[3] = "repos" /\ t = <<s[4], s[5]>>
    <2>1. pathEmbeddedRepoScopes(s) \subseteq c.additional
        BY <1>0, <1>3, ClassifiedRepos DEF Has
    <2>2. pathEmbeddedRepoScopes(s) = {RepoScope(t[1], t[2], NoResource)}
        BY <1>0, <1>3 DEF pathEmbeddedRepoScopes, Has
    <2> QED BY <2>1, <2>2 DEF AllScopes
<1>4. CASE Len(s) >= 7 /\ s[1] = "orgs" /\ s[3] = "teams" /\ s[5] = "repos" /\ t = <<s[6], s[7]>>
    <2>1. pathEmbeddedRepoScopes(s) \subseteq c.additional
        BY <1>0, <1>4, ClassifiedRepos DEF Has
    <2>2. pathEmbeddedRepoScopes(s) = {RepoScope(t[1], t[2], NoResource)}
        BY <1>0, <1>4 DEF pathEmbeddedRepoScopes, Has
    <2> QED BY <2>1, <2>2 DEF AllScopes
<1>5. CASE Len(s) = 4 /\ s[1] = "user" /\ s[2] = "starred" /\ t = <<s[3], s[4]>>
    <2>1. pathEmbeddedRepoScopes(s) \subseteq c.additional
        <3>1. Len(s) >= 1 /\ s[1] = "user"
            BY <1>5
        <3> QED BY <1>0, <3>1, ClassifiedRepos
    <2>2. pathEmbeddedRepoScopes(s) = {RepoScope(t[1], t[2], "metadata")}
        BY <1>0, <1>5 DEF pathEmbeddedRepoScopes, Has
    <2> QED BY <2>1, <2>2 DEF AllScopes
<1>6. CASE Len(s) = 7 /\ s[1] = "orgs" /\ s[3] = "migrations" /\ s[5] = "repos" /\ t = <<s[2], s[6]>>
    <2>1. pathEmbeddedRepoScopes(s) \subseteq c.additional
        BY <1>0, <1>6, ClassifiedRepos DEF Has
    <2>2. pathEmbeddedRepoScopes(s) = {RepoScope(t[1], t[2], NoResource)}
        BY <1>0, <1>6 DEF pathEmbeddedRepoScopes, Has
    <2> QED BY <2>1, <2>2 DEF AllScopes
<1> QED BY <1>0, <1>1, <1>2, <1>3, <1>4, <1>5, <1>6, PathTargetsAre

\* The paths whose body names repositories are about that.
LEMMA NamePlacesAre ==
    ASSUME NEW s \in Seq(STRING), NEW f \in DOMAIN NamePlaces, MatchesAny(NamePlaces[f], s)
    PROVE  /\ BodyResource(s) # {}
           /\ \/ Has(s, 3, 1, "repos") \/ Has(s, 2, 1, "orgs") \/ (Len(s) >= 1 /\ s[1] = "user")
           /\ f = "repository_names" => "properties" \in BodyResource(s)
<1>0. Len(s) \in Nat
    OBVIOUS
<1>1. PICK u \in NamePlaces[f] : matches(u, s)
    BY DEF MatchesAny
<1>2. /\ Len(u) = Len(s)
      /\ \A i \in 1..Len(s) : u[i] # Wild => s[i] = u[i]
    BY <1>1, Segments
<1>3. \/ f = "repositories" /\ u = InOrg(<<"migrations">>)
      \/ f = "repositories" /\ u = <<"user", "migrations">>
      \/ f = "repositories" /\ u = variantAnalysis
      \/ f = "repo_names" /\ u = InOrg(<<"teams">>)
      \/ f = "repository_names" /\ u = InOrg(<<"properties", "values">>)
    BY <1>1 DEF NamePlaces
<1>4. CASE \E a \in {"migrations", "teams"} : f # "repository_names" /\ u = InOrg(<<a>>)
    <2>1. PICK a \in {"migrations", "teams"} : u = InOrg(<<a>>)
        BY <1>4
    <2> DEFINE rest == <<a>>
    <2>2. rest \in Seq({a}) /\ Len(rest) = 1 /\ rest[1] = a
        OBVIOUS
    <2> HIDE DEF rest
    <2>3. /\ Len(InOrg(rest)) = 2 + Len(rest) /\ InOrg(rest)[1] = "orgs"
          /\ \A i \in 3..(Len(rest) + 2) : InOrg(rest)[i] = rest[i - 2]
        BY <2>2, Templates
    <2>4. Len(s) = 3 /\ u[1] = "orgs" /\ u[3] = a
        BY <1>2, <2>1, <2>2, <2>3 DEF rest
    <2>5. s[1] = "orgs" /\ s[3] = a
        BY <1>2, <2>1, <2>4, Literals
    <2>6. BodyResource(s) = {s[3]}
        BY <2>1, <2>4, <2>5 DEF BodyResource
    <2>7. BodyResource(s) # {} /\ Has(s, 2, 1, "orgs")
        BY <2>4, <2>5, <2>6 DEF Has
    <2> QED BY <1>4, <2>7
<1>5. CASE f = "repositories" /\ u = <<"user", "migrations">>
    <2>1. Len(s) = 2 /\ s[1] = "user" /\ s[2] = "migrations"
        BY <1>2, <1>5, Literals
    <2>2. s = <<"user", "migrations">>
        BY <2>1
    <2>3. BodyResource(s) = {"migrations"}
        BY <2>1, <2>2 DEF BodyResource
    <2> QED BY <1>5, <2>1, <2>3
<1>6. CASE f = "repositories" /\ u = variantAnalysis
    <2> DEFINE rest == <<"code-scanning", "codeql", "variant-analyses">>
               S == {"code-scanning", "codeql", "variant-analyses"}
    <2>1. rest \in Seq(S) /\ Len(rest) = 3 /\ u = InRepo(rest)
        BY <1>6 DEF variantAnalysis
    <2>2. rest[1] = "code-scanning" /\ rest[2] = "codeql" /\ rest[3] = "variant-analyses"
        OBVIOUS
    <2> HIDE DEF rest, S
    <2>3. /\ Len(InRepo(rest)) = 3 + Len(rest) /\ InRepo(rest)[1] = "repos"
          /\ \A i \in 4..(Len(rest) + 3) : InRepo(rest)[i] = rest[i - 3]
        BY <2>1, Templates
    <2>4. /\ Len(u) = 6 /\ u[1] = "repos" /\ u[4] = "code-scanning" /\ u[5] = "codeql"
          /\ u[6] = "variant-analyses"
        BY <2>1, <2>2, <2>3
    <2>5. /\ Len(s) = 6 /\ s[1] = "repos" /\ s[4] = "code-scanning" /\ s[5] = "codeql"
          /\ s[6] = "variant-analyses"
        BY <1>2, <2>4, Literals
    <2>6. BodyResource(s) = {restResource(s)}
        BY <2>5 DEF BodyResource
    <2>7. BodyResource(s) # {} /\ Has(s, 3, 1, "repos")
        BY <2>5, <2>6 DEF Has
    <2> QED BY <1>6, <2>7
<1>7. CASE f = "repository_names" /\ u = InOrg(<<"properties", "values">>)
    <2> DEFINE rest == <<"properties", "values">>
               S == {"properties", "values"}
    <2>1. rest \in Seq(S) /\ Len(rest) = 2 /\ u = InOrg(rest)
        BY <1>7
    <2>2. rest[1] = "properties" /\ rest[2] = "values"
        OBVIOUS
    <2> HIDE DEF rest, S
    <2>3. /\ Len(InOrg(rest)) = 2 + Len(rest) /\ InOrg(rest)[1] = "orgs"
          /\ \A i \in 3..(Len(rest) + 2) : InOrg(rest)[i] = rest[i - 2]
        BY <2>1, Templates
    <2>4. Len(u) = 4 /\ u[1] = "orgs" /\ u[3] = "properties" /\ u[4] = "values"
        BY <2>1, <2>2, <2>3
    <2>5. Len(s) = 4 /\ s[1] = "orgs" /\ s[3] = "properties" /\ s[4] = "values"
        BY <1>2, <2>4, Literals
    <2>6. BodyResource(s) = {"properties"}
        BY <2>5 DEF BodyResource
    <2>7. "properties" \in BodyResource(s) /\ Has(s, 2, 1, "orgs")
        BY <2>5, <2>6 DEF Has
    <2> QED BY <1>7, <2>7
<1> QED BY <1>3, <1>4, <1>5, <1>6, <1>7

\* Whatever the body names at an endpoint that takes names is among the scopes.
LEMMA BodyTargetsAreScoped ==
    ASSUME NEW r \in RequestSet, NEW t \in BodyTargets(r)
    PROVE  \E res \in BodyResource(r.path) :
               RepoScope(t[1], t[2], res) \in AllScopes(ScopesOf(r))
<1> DEFINE named(f) == IF MatchesAny(NamePlaces[f], r.path) THEN r.body[f] ELSE {}
           D == DOMAIN NamePlaces
<1>0. D = {"repositories", "repo_names", "repository_names"}
    BY DEF NamePlaces
<1>1. /\ r.method \in {"POST", "PATCH", "PUT"}
      /\ \/ \E f \in D : \E n \in named(f) : n.form = "full" /\ t = <<n.owner, n.short>>
         \/ \E n \in named("repository_names") : n.form = "bare" /\ t = <<r.path[2], n.short>>
    BY DEF BodyTargets
<1>2. PICK f \in D : \E n \in named(f) : \/ n.form = "full" /\ t = <<n.owner, n.short>>
                                        \/ /\ f = "repository_names" /\ n.form = "bare"
                                           /\ t = <<r.path[2], n.short>>
    BY <1>0, <1>1
<1>3. PICK n \in r.body[f] : \/ n.form = "full" /\ t = <<n.owner, n.short>>
                            \/ /\ f = "repository_names" /\ n.form = "bare"
                               /\ t = <<r.path[2], n.short>>
    BY <1>2
<1>4. MatchesAny(NamePlaces[f], r.path)
    BY <1>2
<1> HIDE DEF named, D
<1>5. /\ BodyResource(r.path) # {} /\ r.path \in Seq(STRING) /\ Len(r.path) \in Nat
      /\ \/ Has(r.path, 3, 1, "repos") \/ Has(r.path, 2, 1, "orgs")
         \/ (Len(r.path) >= 1 /\ r.path[1] = "user")
      /\ f = "repository_names" => "properties" \in BodyResource(r.path)
    BY <1>4, RequestsTyped, NamePlacesAre DEF D
<1>6. \E res \in BodyResource(r.path) :
          RepoScope(t[1], t[2], res) \in bodyNamedRepoScopes(r.method, r.path, r.body)
    <2>1. f \in {"repositories", "repo_names", "repository_names"}
        BY <1>0
    <2>2. CASE n.form = "full" /\ t = <<n.owner, n.short>>
        <3>1. n \in r.body.repositories \cup r.body.repo_names \cup r.body.repository_names
            BY <2>1, <1>3
        <3>2. PICK res \in BodyResource(r.path) : TRUE
            BY <1>5
        <3>3. RepoScope(n.owner, n.short, res) \in bodyNamedRepoScopes(r.method, r.path, r.body)
            BY <1>1, <2>2, <3>1, <3>2 DEF bodyNamedRepoScopes
        <3> QED BY <2>2, <3>2, <3>3
    <2>3. CASE f = "repository_names" /\ n.form = "bare" /\ t = <<r.path[2], n.short>>
        <3>1. n \in r.body.repository_names /\ "properties" \in BodyResource(r.path)
            BY <2>3, <1>3, <1>5
        <3>2. RepoScope(r.path[2], n.short, "properties")
                  \in bodyNamedRepoScopes(r.method, r.path, r.body)
            BY <1>1, <2>3, <3>1 DEF bodyNamedRepoScopes
        <3> QED BY <2>3, <3>1, <3>2
    <2> QED BY <1>3, <2>2, <2>3
<1>7. bodyNamedRepoScopes(r.method, r.path, r.body) \subseteq ScopesOf(r).additional
    <2> DEFINE s == r.path
               c == ScopesOf(r)
    <2>1. c = Classify(r.method, s, r.body, r.sides)
        BY DEF ScopesOf
    <2>2. /\ Len(s) \in Nat
          /\ Has(s, 3, 1, "repos") \/ Has(s, 2, 1, "orgs") \/ (Len(s) >= 1 /\ s[1] = "user")
        BY <1>5
    <2> HIDE DEF s, c
    <2>3. bodyNamedRepoScopes(r.method, s, r.body) \subseteq c.additional
        BY <2>1, <2>2, ClassifiedRepos
    <2> QED BY <2>3 DEF s, c
<1> QED BY <1>6, <1>7 DEF AllScopes

\* The ids of repositories are those of the path's organization, whose scope the
\* request has.
LEMMA IdTargetsAreBelow ==
    ASSUME NEW r \in RequestSet, NEW t \in IdTargets(r)
    PROVE  /\ ScopesOf(r).primary = OrgScope(t[1], ScopesOf(r).primary.res)
           /\ ScopesOf(r).primary.res \notin Indeterminate
           /\ t[1] \in STRING /\ r.body.selected_repository_ids # {}
<1> DEFINE s == r.path
           c == ScopesOf(r)
<1>1. /\ s \in Seq(STRING) /\ Len(s) \in Nat
      /\ Has(s, 3, 1, "orgs") /\ s[3] \notin Indeterminate
      /\ t \in r.body.selected_repository_ids /\ t[1] = s[2]
    BY RequestsTyped DEF IdTargets
<1>2. c = Classify(r.method, s, r.body, r.sides)
    BY DEF ScopesOf
<1> HIDE DEF s, c
<1>3. Has(s, 2, 1, "orgs") /\ Len(s) >= 3
    BY <1>1 DEF Has
<1>4. c.primary = OrgScope(s[2], orgResource(s))
    BY <1>1, <1>2, <1>3, ClassifiedRepos
<1>5. orgResource(s) = s[3] /\ s[2] \in STRING
    BY <1>1, <1>3 DEF orgResource
<1>6. c.primary = OrgScope(t[1], c.primary.res) /\ c.primary.res = s[3]
    BY <1>1, <1>4, <1>5 DEF OrgScope
<1>7. t[1] \in STRING /\ r.body.selected_repository_ids # {}
    BY <1>1, <1>5
<1> QED BY <1>1, <1>6, <1>7 DEF c

\* A registry path is none that names a repository.
LEMMA RegistryHasNoTargets ==
    ASSUME NEW r \in RequestSet, IsRegistryPath(r.path)
    PROVE  Targets(r) = {}
<1> DEFINE s == r.path
<1>0. s \in Seq(STRING) /\ Len(s) \in Nat /\ Len(s) >= 1 /\ s[1] \in {"@", "-"}
    BY RequestsTyped DEF IsRegistryPath
<1>1. PathTargets(s) = {}
    BY <1>0, PathTargetsAre
<1>2. BodyTargets(r) = {}
    <2>1. \A f \in DOMAIN NamePlaces : ~MatchesAny(NamePlaces[f], s)
        BY <1>0, NamePlacesAre DEF Has
    <2>2. \A f \in DOMAIN NamePlaces :
              (IF MatchesAny(NamePlaces[f], r.path) THEN r.body[f] ELSE {}) = {}
        BY <2>1
    <2>3. "repository_names" \in DOMAIN NamePlaces
        BY DEF NamePlaces
    <2> QED BY <2>2, <2>3 DEF BodyTargets
<1>3. IdTargets(r) = {}
    BY <1>0 DEF IdTargets, Has
<1> QED BY <1>1, <1>2, <1>3 DEF Targets

\* What the upstream is asked has all its scopes allowed, and hides no target
\* among ids; after a redirect it has no ids.
Admission ==
    /\ pc = "idle" => asked = req
    /\ Forwarded => \/ IsRegistryPath(asked.path)
                    \/ /\ evaluateScopes(pol, ScopesOf(asked), AccessOf(asked.method))
                       /\ ~HiddenTargets(ScopesOf(asked), asked, pol)
NotYetAnswered == pc = "idle" => answer = NoBody

LEMMA WhatIsAdmittedIsWritable ==
    ASSUME pol \in PolicySet, NEW r \in RequestSet, ~IsRead(r.method),
           evaluateScopes(pol, ScopesOf(r), AccessOf(r.method)),
           ~HiddenTargets(ScopesOf(r), r, pol),
           NEW t \in Targets(r)
    PROVE  \E res \in {"metadata", ScopesOf(r).primary.res} \cup BodyResource(r.path) :
               Evaluate(pol, RepoScope(t[1], t[2], res), "write")
<1> DEFINE c == ScopesOf(r)
<1>1. \A x \in AllScopes(c) : Evaluate(pol, x, "write")
    BY DEF evaluateScopes, AccessOf
<1>2. CASE t \in PathTargets(r.path)
    <2>1. c = Classify(r.method, r.path, r.body, r.sides) /\ r.path \in Seq(STRING)
        BY RequestsTyped DEF ScopesOf
    <2> HIDE DEF c
    <2>2. PICK res \in {"metadata", c.primary.res, NoResource} :
              RepoScope(t[1], t[2], res) \in AllScopes(c)
        BY <1>2, <2>1, PathTargetsAreScoped
    <2>3. Evaluate(pol, RepoScope(t[1], t[2], res), "write")
        BY <1>1, <2>2
    <2>4. CASE res = NoResource
        <3>1. Evaluate(pol, RepoScope(t[1], t[2], "metadata"), "write")
            BY <2>3, <2>4, WriteWithoutResource
        <3> QED BY <3>1
    <2> QED BY <2>2, <2>3, <2>4 DEF c
<1>3. CASE t \in BodyTargets(r)
    <2>1. PICK res \in BodyResource(r.path) : RepoScope(t[1], t[2], res) \in AllScopes(c)
        BY <1>3, BodyTargetsAreScoped
    <2> QED BY <1>1, <2>1
<1>4. CASE t \in IdTargets(r)
    <2>1. /\ c.primary = OrgScope(t[1], c.primary.res) /\ c.primary.res \notin Indeterminate
          /\ t[1] \in STRING /\ r.body.selected_repository_ids # {}
        BY <1>4, IdTargetsAreBelow
    <2>2. c.primary.repo = NoRepo /\ c.primary.org = OrgNamed(t[1]) /\ OrgNamed(t[1]) # NoOrg
        <3>1. OrgNamed(t[1]) # NoOrg
            BY <2>1, NamesAreNoSentinels DEF OrgNamed
        <3> QED BY <2>1, <3>1 DEF OrgScope
    <2>3. ~AnyRepoDeniesWriteUnderOrg(pol, OrgNamed(t[1]), c.primary.res)
        BY <2>1, <2>2 DEF HiddenTargets
    <2>4. Evaluate(pol, OrgScope(t[1], c.primary.res), "write")
        BY <1>1, <2>1 DEF AllScopes
    <2> HIDE DEF c
    <2>5. Evaluate(pol, RepoScope(t[1], t[2], c.primary.res), "write")
        BY <2>1, <2>3, <2>4, WriteBelowOrganization
    <2> QED BY <2>5 DEF c
<1> QED BY <1>2, <1>3, <1>4 DEF Targets

\* Whatever the upstream is asked was admitted: the request when it was forwarded,
\* and what follows a redirect by the redirect check.
LEMMA AdmissionHolds == Spec => [](Admission /\ NotYetAnswered)
<1> USE DEF Admission, NotYetAnswered, Forwarded
<1>1. Init => Admission /\ NotYetAnswered
    BY DEF Init
<1>2. TypeOK /\ Admission /\ NotYetAnswered /\ [Next]_vars => (Admission /\ NotYetAnswered)'
    <2> SUFFICES ASSUME TypeOK, Admission, NotYetAnswered, [Next]_vars
                 PROVE  Admission' /\ NotYetAnswered'
        OBVIOUS
    <2>1. CASE RejectUnauthorized
        BY <2>1 DEF RejectUnauthorized, Reject, Finish
    <2>2. CASE AnswerSynthetic
        BY <2>2 DEF AnswerSynthetic, Reject, Finish
    <2>3. CASE RejectDotSegment
        BY <2>3 DEF RejectDotSegment, Reject, Finish
    <2>4. CASE Receive
        BY <2>4 DEF Receive, Admitted, Forward, Reject, Finish
    <2>5. CASE ReceiveNpm
        BY <2>5 DEF ReceiveNpm, Admitted, Forward, Reject, Finish
    <2>6. CASE Redirect
        <3>1. PICK moved \in Moved(asked.path) :
                 IF WithinLimit /\ MayFollow(Hop(asked, moved))
                 THEN /\ asked' = Hop(asked, moved) /\ hops' = NextHop(hops)
                      /\ UNCHANGED <<mode, pol, req, pc, filter, answer, status, sent>>
                 ELSE Reject("502", NoBody)
            BY <2>6 DEF Redirect
        <3>2. CASE Reject("502", NoBody)
            BY <2>6, <3>2 DEF Redirect, Reject, Finish
        <3>3. CASE /\ MayFollow(Hop(asked, moved)) /\ asked' = Hop(asked, moved)
                   /\ UNCHANGED <<pol, pc, answer>>
            <4>1. evaluateScopes(pol, ScopesOf(asked'), AccessOf(asked'.method))
                BY <3>3 DEF MayFollow
            <4>2. asked'.body.selected_repository_ids = {}
                BY <3>3, RequestsTyped, RedirectsTyped, HopsAre DEF TypeOK
            <4>3. ~HiddenTargets(ScopesOf(asked'), asked', pol)
                BY <4>2 DEF HiddenTargets
            <4> QED BY <2>6, <3>3, <4>1, <4>3 DEF Redirect
        <3> QED BY <3>1, <3>2, <3>3
    <2>7. CASE Respond
        BY <2>7 DEF Respond, Finish
    <2>8. CASE RespondTooLarge
        BY <2>8 DEF RespondTooLarge, Reject, Finish
    <2>9. CASE UpstreamFails
        BY <2>9 DEF UpstreamFails, Reject, Finish
    <2>10. CASE UNCHANGED vars
        BY <2>10 DEF vars
    <2> QED
        BY <2>1, <2>2, <2>3, <2>4, <2>5, <2>6, <2>7, <2>8, <2>9, <2>10 DEF Next
<1> QED BY <1>1, <1>2, Types, PTL DEF Spec

\* A write that is forwarded, or redirected as a write, reaches no repository that the policy does not let
\* the client write, whatever the policy, and however the request names the
\* repository: in the path, in the body, or by a number.
THEOREM WritesStayInside == Spec => []WritesReachOnlyWritable
<1>1. TypeOK /\ Admission => WritesReachOnlyWritable
    <2> SUFFICES ASSUME TypeOK, Admission, Forwarded, ~IsRead(asked.method), NEW t \in Targets(asked)
                 PROVE  \E res \in {"metadata", ScopesOf(asked).primary.res} \cup BodyResource(asked.path) :
                            Evaluate(pol, RepoScope(t[1], t[2], res), "write")
        BY DEF WritesReachOnlyWritable
    <2>1. pol \in PolicySet /\ asked \in RequestSet
        BY InputsTyped DEF TypeOK
    <2>2. ~IsRegistryPath(asked.path)
        BY <2>1, RegistryHasNoTargets
    <2>3. /\ evaluateScopes(pol, ScopesOf(asked), AccessOf(asked.method))
          /\ ~HiddenTargets(ScopesOf(asked), asked, pol)
        BY <2>2 DEF Admission
    <2> QED BY <2>1, <2>3, WhatIsAdmittedIsWritable
<1> QED BY <1>1, Types, AdmissionHolds, PTL

(* ------------------------------------------------------------------------- *)
(* Redact                                                                    *)
(* ------------------------------------------------------------------------- *)

LEMMA NothingIsShown ==
    /\ \A p \in DOMAIN Refused : Shows(Refused[p]) = {}
    /\ \A p \in DOMAIN Empty : Shows(Empty[p]) = {}
    /\ \A p \in DOMAIN Garbled : Shows(Garbled[p]) = {}
BY WrittenShowsNothing

\* The counts that Redact writes: where they are, and that they show nothing.
LEMMA CountsAreWritten ==
    ASSUME NEW body, DOMAIN body \subseteq Pos, NEW rows, NEW put,
           put = Over(LessTotal(body, rows), LessCounts(body, rows))
    PROVE  /\ DOMAIN put \subseteq Pos /\ \A c \in DOMAIN put : Shows(put[c]) = {}
           /\ \A c \in DOMAIN put :
                 \/ c \in {<<"total_count">>, <<"incomplete_results">>}
                 \/ /\ c \in DOMAIN body /\ c # << >> /\ Last(c) = "repository_count"
                    /\ \E row \in rows : IsPrefix(Front(c), row)
<1> DEFINE T == LessTotal(body, rows)
           C == LessCounts(body, rows)
           total == {<<"total_count">>, <<"incomplete_results">>}
<1>1. \A v, n : Shows(Less(v, n)) = {}
    BY WrittenShowsNothing DEF Less
<1>2. DOMAIN T \subseteq total /\ \A c \in DOMAIN T : Shows(T[c]) = {}
    BY <1>1, WrittenShowsNothing DEF LessTotal
<1>3. \A c \in DOMAIN C :
          /\ Shows(C[c]) = {}
          /\ c \in DOMAIN body /\ c # << >> /\ Last(c) = "repository_count"
          /\ \E row \in rows : IsPrefix(Front(c), row)
    BY <1>1 DEF LessCounts, Fields
<1>4. total \subseteq Pos
    <2>1. "total_count" \in Step /\ "incomplete_results" \in Step
        BY DEF Step
    <2> QED BY <2>1 DEF Pos
<1>5. DOMAIN put = DOMAIN T \cup DOMAIN C
    BY DEF Over
<1>6. \A c \in DOMAIN put : put[c] = IF c \in DOMAIN T THEN T[c] ELSE C[c]
    BY DEF Over
<1> HIDE DEF T, C
<1> QED BY <1>2, <1>3, <1>4, <1>5, <1>6

\* What Redact leaves to be seen is in no row and at no location of a repository
\* that is denied; and what it leaves of an object in which there are no rows
\* to drop is the whole of it.
LEMMA RedactTrims ==
    ASSUME NEW body, DOMAIN body \subseteq Pos, NEW locs, NEW allowed,
           NEW out, out = Redact(body, locs, allowed)
    PROVE  /\ Trims(out, body)
           /\ \A p \in DOMAIN out : Shows(out[p]) # {} =>
                /\ \A repo : InLocations(body, p, repo, locs) => repo \in allowed
                /\ \A t \in Pos :
                     /\ IsPrefix(t, p) /\ t # << >>
                     /\ \A l \in locs : IsArrayLoc(l) =>
                           \A row \in ElementsAt(body, RowsAt(l)) : ~IsPrefix(t, row)
                     => Same(out, body, t)
<1> DEFINE single == {l \in locs : ~IsArrayLoc(l)}
           owns(l) == readRepo(body, << >>, l)
           rows == DeniedRows(body, locs \ single, allowed)
           put == Over(LessTotal(body, rows), LessCounts(body, rows))
<1>1. CASE out = Refused
    BY <1>1, NothingIsShown, TrimsRefused
<1>2. CASE out = body /\ locs = {}
    <2>1. \A p, repo : ~InLocations(body, p, repo, locs)
        BY <1>2 DEF InLocations
    <2>2. \A t : Same(out, body, t)
        BY <1>2 DEF Same
    <2> QED BY <1>2, <2>1, <2>2, TrimsItself
<1>3. CASE out = body /\ body \in {Empty, Refused}
    BY <1>3, NothingIsShown, TrimsItself
<1>4. CASE out = Edit(body, rows, put) /\ \A l \in single : owns(l) \subseteq allowed
    <2>4. \A row \in rows : \E l \in locs : IsArrayLoc(l) /\ row \in ElementsAt(body, RowsAt(l))
        BY DEF DeniedRows
    <2>3. ASSUME NEW l \in locs, IsArrayLoc(l), NEW row \in ElementsAt(body, RowsAt(l)),
                 row \notin rows, NEW repo \in readRepo(body, row, InRow(l))
          PROVE  repo \in allowed
        <3> DEFINE steps == RowsAt(l)
                   locs2 == locs \ single
        <3>1. l \in locs2
            BY <2>3
        <3>2. elementAllowed(body, row, steps, locs2, allowed)
            BY <2>3, <3>1 DEF DeniedRows
        <3>3. repo \in Shown(body, row, steps, locs2)
            BY <2>3, <3>1 DEF Shown
        <3> QED BY <3>2, <3>3 DEF elementAllowed
    <2> HIDE DEF rows
    <2>1. rows \in SUBSET Pos
        BY <2>4 DEF ElementsAt, Below
    <2>2. /\ DOMAIN put \subseteq Pos /\ \A c \in DOMAIN put : Shows(put[c]) = {}
          /\ \A c \in DOMAIN put :
                 \/ c \in {<<"total_count">>, <<"incomplete_results">>}
                 \/ /\ c \in DOMAIN body /\ c # << >> /\ Last(c) = "repository_count"
                    /\ \E row \in rows : IsPrefix(Front(c), row)
        BY CountsAreWritten
    <2> HIDE DEF put
    <2>5. /\ Trims(out, body)
          /\ \A p \in DOMAIN out : Shows(out[p]) # {} =>
                 \A c \in rows \cup DOMAIN put : ~IsPrefix(c, p)
        BY <1>4, <2>1, <2>2, EditTrims
    <2>6. ASSUME NEW p \in DOMAIN out, Shows(out[p]) # {}, NEW repo,
                 InLocations(body, p, repo, locs)
          PROVE  repo \in allowed
        <3>1. PICK l \in locs :
                  IF IsArrayLoc(l)
                  THEN \E row \in ElementsAt(body, RowsAt(l)) :
                          IsPrefix(row, p) /\ repo \in readRepo(body, row, InRow(l))
                  ELSE repo \in readRepo(body, << >>, l)
            BY <2>6 DEF InLocations
        <3>2. CASE IsArrayLoc(l)
            <4>1. PICK row \in ElementsAt(body, RowsAt(l)) :
                      IsPrefix(row, p) /\ repo \in readRepo(body, row, InRow(l))
                BY <3>1, <3>2
            <4>2. row \notin rows
                BY <2>5, <2>6, <4>1
            <4> QED BY <2>3, <3>2, <4>1, <4>2
        <3>3. CASE ~IsArrayLoc(l)
            BY <1>4, <3>1, <3>3
        <3> QED BY <3>2, <3>3
    <2>7. ASSUME NEW p \in DOMAIN out, Shows(out[p]) # {}, NEW t \in Pos, IsPrefix(t, p),
                 t # << >>,
                 \A l \in locs : IsArrayLoc(l) =>
                     \A row \in ElementsAt(body, RowsAt(l)) : ~IsPrefix(t, row)
          PROVE  Same(out, body, t)
        <3>0. p \in Pos
            BY <2>5 DEF Trims
        <3>1. \A c \in rows \cup DOMAIN put : ~IsPrefix(c, t)
            BY <2>1, <2>2, <2>5, <2>7, <3>0, PrefixOrder
        <3>2. \A c \in rows : ~IsPrefix(t, c)
            BY <2>4, <2>7
        <3>3. ASSUME NEW c \in DOMAIN put, IsPrefix(t, c) PROVE FALSE
            <4>1. t # c
                BY <3>1, <3>3
            <4>2. c \in Pos /\ c # << >>
                BY <2>2, <3>3, <4>1, <2>7
            <4>3. IsPrefix(t, Front(c))
                BY <3>3, <4>1, <4>2, DirectlyAbove
            <4>4. CASE c \in {<<"total_count">>, <<"incomplete_results">>}
                <5>0. Len(c) = 1
                    BY <4>4
                <5>3. Len(t) \in Nat \ {0}
                    BY <2>7, DirectlyAbove
                <5>4. Len(Front(c)) = Len(c) - 1 /\ Front(c) \in Pos
                    BY <4>2, DirectlyAbove
                <5>1. Len(Front(c)) = 0 /\ Len(t) > 0 /\ Front(c) \in Pos
                    BY <5>0, <5>3, <5>4
                <5>2. Len(t) <= Len(Front(c))
                    BY <4>3, <5>1, PrefixByElement
                <5> QED BY <5>1, <5>2
            <4>5. CASE \E row \in rows : IsPrefix(Front(c), row)
                <5>1. PICK row \in rows : IsPrefix(Front(c), row)
                    BY <4>5
                <5>2. IsPrefix(t, row)
                    BY <2>1, <4>2, <4>3, <5>1, DirectlyAbove, PrefixOrder
                <5> QED BY <3>2, <5>2
            <4> QED BY <2>2, <3>3, <4>4, <4>5
        <3> QED BY <1>4, <2>1, <2>2, <3>1, <3>2, <3>3, EditSame
    <2> QED BY <2>5, <2>6, <2>7
<1>5. \/ out = Refused
      \/ out = body /\ locs = {}
      \/ out = body /\ body \in {Empty, Refused}
      \/ out = Edit(body, rows, put) /\ \A l \in single : owns(l) \subseteq allowed
    BY DEF Redact, Skips
<1> QED BY <1>1, <1>2, <1>3, <1>4, <1>5

(* ------------------------------------------------------------------------- *)
(* Scrub, DropRepoStrings, ScrubDeniedContent                                *)
(* ------------------------------------------------------------------------- *)

\* What is scrubbed is gone: what is left to be seen lies in no object that the
\* scrub would have made null.
LEMMA ScrubTrims ==
    ASSUME NEW body, DOMAIN body \subseteq Pos, NEW locs, NEW allowed,
           NEW out, out = Scrub(body, locs, allowed)
    PROVE  /\ Trims(out, body)
           /\ \A p \in DOMAIN out : Shows(out[p]) # {} =>
                \A l \in locs : \A t \in ScrubbedAt(body, l) :
                    /\ IsPrefix(t, p) => body[t] = Null \/ Stays(body, t, l.name, allowed)
<1> DEFINE cut == UNION {scrubWalk(body, l, allowed) : l \in locs}
           put == Put(cut, Null)
<1>1. CASE out = Refused
    BY <1>1, NothingIsShown, TrimsRefused
<1>2. CASE out = body /\ locs = {}
    BY <1>2, TrimsItself
<1>3. CASE out = body /\ body \in {Empty, Refused}
    BY <1>3, NothingIsShown, TrimsItself
<1>4. CASE out = Edit(body, {}, put)
    <2>1. cut \subseteq Pos
        BY DEF scrubWalk, ScrubbedAt, Reached
    <2>2. DOMAIN put = cut /\ \A c \in cut : Shows(put[c]) = {}
        BY WrittenShowsNothing DEF Put
    <2>3. \A l \in locs : \A t \in ScrubbedAt(body, l) :
              t \notin cut => body[t] = Null \/ Stays(body, t, l.name, allowed)
        BY DEF scrubWalk
    <2> HIDE DEF cut, put
    <2>4. /\ Trims(out, body)
          /\ \A p \in DOMAIN out : Shows(out[p]) # {} => \A c \in {} \cup DOMAIN put : ~IsPrefix(c, p)
        <3>1. {} \in SUBSET Pos
            OBVIOUS
        <3> QED BY <1>4, <2>1, <2>2, <3>1, EditTrims
    <2> QED BY <2>2, <2>3, <2>4
<1>5. \/ out = Refused
      \/ out = body /\ locs = {}
      \/ out = body /\ body \in {Empty, Refused}
      \/ out = Edit(body, {}, put)
    BY DEF Scrub, Skips
<1> QED BY <1>1, <1>2, <1>3, <1>4, <1>5

LEMMA DropStringsTrims ==
    ASSUME NEW body, DOMAIN body \subseteq Pos, NEW locs, NEW allowed,
           NEW out, out = DropRepoStrings(body, locs, allowed)
    PROVE  /\ Trims(out, body)
           /\ \A p \in DOMAIN out : Shows(out[p]) # {} =>
                \A l \in locs : p \in StringsAt(body, l) => NamedBy(body[p], {"full"}) \subseteq allowed
<1> DEFINE counts(l) == Reached(body, << >>, Append(l.container, l.count))
           gone(c) == UNION {dropStrings(body, l, allowed) : l \in {x \in locs : c \in counts(x)}}
           cut == UNION {dropStrings(body, l, allowed) : l \in locs}
           put == [c \in {x \in UNION {counts(l) : l \in locs} : gone(x) # {}} |->
                      Less(body[c], Cardinality(gone(c)))]
<1>1. CASE out = Refused
    BY <1>1, NothingIsShown, TrimsRefused
<1>2. CASE out = body /\ locs = {}
    BY <1>2, TrimsItself
<1>3. CASE out = body /\ body \in {Empty, Refused}
    BY <1>3, NothingIsShown, TrimsItself
<1>4. CASE out = Edit(body, cut, put)
    <2>1. cut \in SUBSET Pos
        BY DEF dropStrings, StringsAt, ElementsAt, Below
    <2>2. \A l, x : x \in counts(l) => x \in Pos
        BY DEF Reached
    <2>3. \A v, n : Shows(Less(v, n)) = {}
        BY WrittenShowsNothing DEF Less
    <2>4. \A l \in locs : \A s \in StringsAt(body, l) :
              s \notin cut => NamedBy(body[s], {"full"}) \subseteq allowed
        BY DEF dropStrings
    <2> HIDE DEF counts, gone, cut
    <2>5. DOMAIN put \subseteq Pos /\ \A c \in DOMAIN put : Shows(put[c]) = {}
        BY <2>2, <2>3
    <2> HIDE DEF put
    <2>6. /\ Trims(out, body)
          /\ \A p \in DOMAIN out : Shows(out[p]) # {} => \A c \in cut \cup DOMAIN put : ~IsPrefix(c, p)
        BY <1>4, <2>1, <2>5, EditTrims
    <2>7. \A p \in DOMAIN out : Shows(out[p]) # {} => p \notin cut
        BY <2>6, PrefixOrder DEF Trims
    <2> QED BY <2>4, <2>6, <2>7
<1>5. \/ out = Refused
      \/ out = body /\ locs = {}
      \/ out = body /\ body \in {Empty, Refused}
      \/ out = Edit(body, cut, put)
    BY DEF DropRepoStrings, Skips
<1> QED BY <1>1, <1>2, <1>3, <1>4, <1>5

LEMMA ContentTrims ==
    ASSUME NEW body, DOMAIN body \subseteq Pos, NEW fields, NEW allowed,
           NEW out, out = ScrubDeniedContent(body, fields, allowed)
    PROVE  /\ Trims(out, body)
           /\ \A p \in DOMAIN out : Shows(out[p]) # {} =>
                \A t \in ContentAt(body, fields) :
                    IsPrefix(t, p) => MarkedRepos(body, t) \subseteq allowed
<1> DEFINE cut == {p \in ContentAt(body, fields) : ~(MarkedRepos(body, p) \subseteq allowed)}
           put == Put(cut, Null)
<1>1. CASE out = Refused
    BY <1>1, NothingIsShown, TrimsRefused
<1>2. CASE out = body /\ fields = {}
    <2>1. ContentAt(body, fields) = {}
        BY <1>2 DEF ContentAt
    <2> QED BY <1>2, <2>1, TrimsItself
<1>3. CASE out = body /\ body \in {Empty, Refused}
    BY <1>3, NothingIsShown, TrimsItself
<1>4. CASE out = Edit(body, {}, put)
    <2>1. cut \subseteq Pos
        BY DEF ContentAt, Fields
    <2>2. DOMAIN put = cut /\ \A c \in cut : Shows(put[c]) = {}
        BY WrittenShowsNothing DEF Put
    <2>3. \A t \in ContentAt(body, fields) : t \notin cut => MarkedRepos(body, t) \subseteq allowed
        OBVIOUS
    <2> HIDE DEF cut, put
    <2>4. /\ Trims(out, body)
          /\ \A p \in DOMAIN out : Shows(out[p]) # {} => \A c \in {} \cup DOMAIN put : ~IsPrefix(c, p)
        <3>1. {} \in SUBSET Pos
            OBVIOUS
        <3> QED BY <1>4, <2>1, <2>2, <3>1, EditTrims
    <2> QED BY <2>2, <2>3, <2>4
<1>5. \/ out = Refused
      \/ out = body /\ fields = {}
      \/ out = body /\ body \in {Empty, Refused}
      \/ out = Edit(body, {}, put)
    BY DEF ScrubDeniedContent, Skips
<1> QED BY <1>1, <1>2, <1>3, <1>4, <1>5

\* The steps to the rows of a location.
LEMMA RowsArePositions ==
    ASSUME NEW l \in Seq(STRING), IsArrayLoc(l)
    PROVE  RowsAt(l) \in Pos
<1> DEFINE S == {n \in Nat : \E j \in DOMAIN l : l[j] = "[]" /\ n = Len(l) - j}
           lastly(i) == l[i] = "[]" /\ \A j \in DOMAIN l : l[j] = "[]" => j <= i
<1>1. Len(l) \in Nat /\ DOMAIN l = 1..Len(l)
    OBVIOUS
<1>2. PICK j \in DOMAIN l : l[j] = "[]"
    BY DEF IsArrayLoc, ToSet
<1>3. S \in SUBSET Nat /\ S # {}
    BY <1>1, <1>2
<1>4. PICK n \in S : \A k \in S : n <= k
    <2> HIDE DEF S
    <2> QED BY <1>3, FirstIsOne
<1>5. PICK i \in DOMAIN l : l[i] = "[]" /\ n = Len(l) - i
    BY <1>4
<1>6. lastly(i)
    <2> SUFFICES ASSUME NEW k \in DOMAIN l, l[k] = "[]" PROVE k <= i
        BY <1>5
    <2>1. Len(l) - k \in S
        BY <1>1
    <2>2. n <= Len(l) - k
        BY <1>4, <2>1
    <2> QED BY <1>1, <1>5, <2>2
<1>7. LastArray(l) = CHOOSE x \in DOMAIN l : lastly(x)
    BY DEF LastArray
<1>8. LastArray(l) \in 1..Len(l)
    BY <1>1, <1>5, <1>6, <1>7
<1>9. SubSeq(l, 1, LastArray(l) - 1) \in Seq(STRING)
    BY <1>8
<1> QED BY <1>9, StringsAreSteps DEF RowsAt

(* ------------------------------------------------------------------------- *)
(* Redact, Scrub, DropRepoStrings and ScrubDeniedContent one after the other *)
(* ------------------------------------------------------------------------- *)

\* What the tables promise of the locations for one path.
Located(f) ==
    /\ f.locs \subseteq Seq(STRING)
    /\ \A m \in f.scrub : m.to \in Seq(STRING) /\ m.name \in Seq(STRING) /\ m.field \in STRING
    /\ \A m \in f.strings : m.container \in Seq(STRING) /\ m.array \in STRING
    /\ \A l \in f.locs, m \in f.scrub :
          IsArrayLoc(l) => ~IsPrefix(Append(m.to, m.field), Append(RowsAt(l), "[]"))
    /\ \A l \in f.locs : IsArrayLoc(l) =>
          \A i \in DOMAIN RowsAt(l) :
              (\A j \in 1..(i - 1) : RowsAt(l)[j] = "[]") => RowsAt(l)[i] \notin f.content
    /\ f.content # {} => f.scrub = {} /\ f.strings = {}

\* What is kept of a body that was trimmed twice.
LEMMA KeptOnAndOn ==
    ASSUME NEW a, NEW b, NEW c, NEW p, Kept(b, a, p), Kept(c, b, p)
    PROVE  Kept(c, a, p)
BY DEF Kept

LEMMA KeptShows ==
    ASSUME NEW out, NEW body, NEW p \in Pos, Kept(out, body, p)
    PROVE  out[p] = body[p] /\ p \in DOMAIN out /\ p \in DOMAIN body
BY PrefixOrder DEF Kept

\* No rows lie below an object that is scrubbed.
LEMMA NoRowsInScrubbed ==
    ASSUME NEW body, DOMAIN body \subseteq Pos, NEW f, Located(f),
           NEW l \in f.locs, IsArrayLoc(l), NEW m \in f.scrub, NEW t \in ScrubbedAt(body, m),
           NEW row \in ElementsAt(body, RowsAt(l))
    PROVE  ~IsPrefix(t, row)
<1> SUFFICES ASSUME IsPrefix(t, row) PROVE FALSE
    OBVIOUS
<1> DEFINE way == Append(m.to, m.field)
           steps == RowsAt(l)
<1>1. way \in Pos /\ steps \in Pos /\ Append(steps, "[]") \in Pos
      /\ Len(Append(steps, "[]")) = Len(steps) + 1
    <2>1. m.to \in Pos /\ m.field \in Step /\ "[]" \in Step
        BY StringsAreSteps DEF Located, Step
    <2>2. steps \in Pos
        BY RowsArePositions DEF Located
    <2> HIDE DEF steps
    <2> QED BY <2>1, <2>2, AppendIsBelow
<1>2. t \in Reached(body, << >>, way)
    BY DEF ScrubbedAt
<1>3. ~IsPrefix(way, Append(steps, "[]"))
    BY DEF Located
<1> HIDE DEF way, steps
<1>4. /\ t \in Pos /\ Len(t) = Len(way)
      /\ \A i \in 1..Len(way) :
           IF way[i] = "[]" THEN IsArray(body, SubSeq(t, 1, i - 1))
           ELSE IsObject(body, SubSeq(t, 1, i - 1)) /\ t[i] = way[i]
    BY <1>1, <1>2, ReachedByStep
<1>5. row \in ElementsAt(body, steps)
    BY DEF steps
<1>6. ASSUME NEW i \in 1..Len(way)
      PROVE  Append(steps, "[]")[i] = way[i] /\ Len(way) <= Len(steps) + 1
    <2>1. i \in 1..Len(t)
        BY <1>4
    <2>2. /\ Len(t) <= Len(steps) + 1
          /\ IsArray(body, SubSeq(t, 1, i - 1)) => Append(steps, "[]")[i] = "[]"
          /\ IsObject(body, SubSeq(t, 1, i - 1)) => Append(steps, "[]")[i] = t[i]
        BY <1>1, <1>4, <1>5, <2>1, AboveARow
    <2> QED BY <1>4, <2>2
<1>7. Len(way) \in Nat \ {0}
    <2>1. m.to \in Pos /\ m.field \in Step
        BY StringsAreSteps DEF Located, Step
    <2>2. Len(way) = Len(m.to) + 1 /\ Len(m.to) \in Nat
        BY <2>1, AppendIsBelow DEF way, Pos
    <2> QED BY <2>2
<1>8. Len(way) <= Len(Append(steps, "[]"))
    BY <1>1, <1>6, <1>7
<1> QED BY <1>1, <1>3, <1>6, <1>8, PrefixByElement

\* Nor below a field with linked content.
LEMMA NoRowsInContent ==
    ASSUME NEW body, DOMAIN body \subseteq Pos, NEW f, Located(f),
           NEW l \in f.locs, IsArrayLoc(l), NEW t \in ContentAt(body, f.content),
           NEW row \in ElementsAt(body, RowsAt(l))
    PROVE  ~IsPrefix(t, row)
<1> SUFFICES ASSUME IsPrefix(t, row) PROVE FALSE
    OBVIOUS
<1> DEFINE steps == RowsAt(l)
           i == Len(t)
<1>1. steps \in Pos /\ row \in ElementsAt(body, steps)
    BY RowsArePositions DEF Located
<1>2. /\ t \in Pos /\ t # << >> /\ Last(t) \in f.content
      /\ IsObject(body, Front(t)) /\ Front(t) \in ContentRoots(body)
    BY DEF ContentAt, Fields
<1>3. /\ Len(t) \in Nat \ {0} /\ Last(t) = t[Len(t)]
      /\ Front(t) = SubSeq(t, 1, Len(t) - 1) /\ Front(t) \in Pos /\ Len(Front(t)) = Len(t) - 1
      /\ IsPrefix(Front(t), t)
    BY <1>2, DirectlyAbove DEF Last, Front
<1>4. ASSUME NEW j \in 1..(i - 1) PROVE IsArray(body, SubSeq(t, 1, j - 1))
    <2>1. j - 1 \in 0..(Len(Front(t)) - 1) /\ j - 1 \in 0..Len(Front(t))
        BY <1>3
    <2>2. IsArray(body, SubSeq(Front(t), 1, j - 1))
        BY <1>2, <2>1 DEF ContentRoots
    <2>3. SubSeq(t, 1, j - 1) = SubSeq(Front(t), 1, j - 1)
        BY <1>2, <1>3, <2>1, SameBeginning
    <2> QED BY <2>2, <2>3
<1>5. \A j \in DOMAIN steps :
          (\A k \in 1..(j - 1) : steps[k] = "[]") => steps[j] \notin f.content
    BY DEF Located
<1> HIDE DEF steps
<1>6. /\ i \in 1..Len(steps) /\ Append(steps, "[]")[i] = t[i]
    <2>1. i \in 1..Len(t) /\ SubSeq(t, 1, i - 1) = Front(t)
        BY <1>3
    <2> HIDE DEF i
    <2>2. IsObject(body, SubSeq(t, 1, i - 1)) /\ t \in Pos
        BY <1>2, <2>1
    <2>3. IsObject(body, SubSeq(t, 1, i - 1)) =>
              Append(steps, "[]")[i] = t[i] /\ i \in 1..Len(steps)
        BY <1>1, <2>1, <2>2, AboveARow
    <2> QED BY <2>2, <2>3
<1>7. ASSUME NEW j \in 1..Len(t)
      PROVE  j \in 1..Len(steps) => Append(steps, "[]")[j] = steps[j]
    BY <1>1, <1>3 DEF Pos
<1>8. \A j \in 1..(i - 1) : steps[j] = "[]"
    <2> SUFFICES ASSUME NEW j \in 1..(i - 1) PROVE steps[j] = "[]"
        OBVIOUS
    <2>1. j \in 1..Len(t) /\ j \in 1..Len(steps)
        BY <1>1, <1>3, <1>6 DEF Pos
    <2>2. Append(steps, "[]")[j] = "[]"
        BY <1>1, <1>2, <1>4, <2>1, AboveARow
    <2> QED BY <1>7, <2>1, <2>2
<1>9. steps[i] \in f.content /\ i \in DOMAIN steps
    <2>1. steps[i] = t[i]
        BY <1>3, <1>6, <1>7
    <2> QED BY <1>1, <1>2, <1>3, <1>6, <2>1 DEF Pos
<1> QED BY <1>5, <1>8, <1>9

\* A string of a list is one of the same list as long as it is kept.
LEMMA StringIsKept ==
    ASSUME NEW body, DOMAIN body \subseteq Pos, NEW out, DOMAIN out \subseteq Pos,
           NEW p \in Pos, Kept(out, body, p), NEW f, Located(f), NEW l \in f.strings,
           p \in StringsAt(body, l)
    PROVE  p \in StringsAt(out, l) /\ out[p] = body[p]
<1> DEFINE steps == Append(l.container, l.array)
<1>1. steps \in Pos
    <2>1. l.container \in Pos /\ l.array \in Step
        BY StringsAreSteps DEF Located, Step
    <2> QED BY <2>1, AppendIsBelow
<1> HIDE DEF steps
<1>2. PICK a \in Reached(body, << >>, steps) : IsArray(body, a) /\ p \in Below(body, a)
    BY DEF StringsAt, ElementsAt, ListsAt, steps
<1>3. IsPrefix(a, p) /\ Len(p) = Len(a) + 1
    BY <1>2 DEF Below
<1>4. a \in Reached(out, << >>, steps) /\ out[a] = body[a]
    BY <1>1, <1>3, ReachedIsKept
<1>5. p \in DOMAIN out /\ out[p] = body[p]
    BY KeptShows
<1>6. IsArray(out, a)
    BY <1>2, <1>4 DEF IsArray, Reached
<1>7. p \in Below(out, a) /\ a \in ListsAt(out, steps)
    BY <1>3, <1>4, <1>5, <1>6 DEF Below, ListsAt
<1> QED BY <1>5, <1>7 DEF StringsAt, ElementsAt, steps

\* And linked content lies in the same field.
LEMMA ContentIsKept ==
    ASSUME NEW body, DOMAIN body \subseteq Pos, NEW out, DOMAIN out \subseteq Pos,
           NEW p \in Pos, Kept(out, body, p), NEW fields,
           NEW t \in ContentAt(body, fields), IsPrefix(t, p)
    PROVE  t \in ContentAt(out, fields)
<1>1. /\ t \in Pos /\ t # << >> /\ t \in DOMAIN body
      /\ IsObject(body, Front(t)) /\ Last(t) \in fields
      /\ Front(t) \in ContentRoots(body)
    BY DEF ContentAt, Fields
<1>2. /\ Front(t) \in Pos /\ IsPrefix(Front(t), t) /\ Len(Front(t)) \in Nat
    BY <1>1, DirectlyAbove DEF Pos
<1>3. IsPrefix(Front(t), p)
    BY <1>1, <1>2, PrefixOrder
<1>4. ASSUME NEW q \in DOMAIN body, IsPrefix(q, p)
      PROVE  q \in DOMAIN out /\ out[q] = body[q]
    BY <1>4 DEF Kept
<1>5. t \in DOMAIN out /\ IsObject(out, Front(t)) /\ Front(t) \in DOMAIN out
    BY <1>1, <1>3, <1>4 DEF IsObject
<1>6. ASSUME NEW i \in 0..(Len(Front(t)) - 1)
      PROVE  IsArray(out, SubSeq(Front(t), 1, i))
    <2>1. i \in 0..Len(Front(t))
        BY <1>2
    <2>2. SubSeq(Front(t), 1, i) \in Pos /\ IsPrefix(SubSeq(Front(t), 1, i), Front(t))
        BY <1>2, <2>1, Beginning
    <2>3. IsPrefix(SubSeq(Front(t), 1, i), p)
        BY <1>2, <1>3, <2>2, PrefixOrder
    <2>4. IsArray(body, SubSeq(Front(t), 1, i))
        BY <1>1 DEF ContentRoots
    <2> QED BY <1>4, <2>3, <2>4 DEF IsArray
<1>7. Front(t) \in ContentRoots(out)
    BY <1>5, <1>6 DEF ContentRoots
<1> QED BY <1>1, <1>5, <1>7 DEF ContentAt, Fields

\* Above what shows something there are objects and arrays only.
LEMMA AboveIsNotNull ==
    ASSUME NEW body, Tree(body), NEW p \in DOMAIN body,
           Shows(body[p]) # {}, NEW t \in Pos, IsPrefix(t, p)
    PROVE  body[t] # Null
<1>0. DOMAIN body \subseteq Pos
    BY DEF Tree
<1>1. CASE t = p
    BY <1>1, WrittenShowsNothing
<1>2. CASE t # p
    <2>1. Len(t) \in Nat /\ Len(p) \in Nat /\ p \in Pos
        BY <1>0 DEF Pos
    <2>2. Len(t) \in 0..(Len(p) - 1) /\ Len(t) \in 0..Len(t)
        BY <1>2, <2>1, PrefixOrder
    <2>3. SubSeq(p, 1, Len(t)) = SubSeq(t, 1, Len(t))
        BY <2>1, <2>2, SameBeginning
    <2>4. SubSeq(t, 1, Len(t)) = t
        BY DEF Pos
    <2>5. body[t].kind \in {"obj", "arr"}
        BY <2>2, <2>3, <2>4 DEF Tree
    <2> QED BY <2>5 DEF Null
<1> QED BY <1>1, <1>2

\* What the four leave to be seen lies nowhere that one of them looks for its
\* repository, unless the repository is allowed.
LEMMA LocatedTrims ==
    ASSUME NEW body, Tree(body), NEW f, Located(f), NEW allowed, NEW b1, NEW b2, NEW b3, NEW out,
           b1 = Redact(body, f.locs, allowed), b2 = Scrub(b1, f.scrub, allowed),
           b3 = DropRepoStrings(b2, f.strings, allowed),
           out = ScrubDeniedContent(b3, f.content, allowed)
    PROVE  /\ Trims(out, body)
           /\ \A p \in DOMAIN out : Shows(out[p]) # {} =>
                \A repo :
                    \/ InLocations(body, p, repo, f.locs)
                    \/ InScrubbed(body, p, repo, f.scrub)
                    \/ InStrings(body, p, repo, f.strings)
                    \/ InContent(body, p, repo, f.content)
                    => repo \in allowed
<1>1. DOMAIN body \subseteq Pos
    BY DEF Tree
<1>2. /\ Trims(b1, body)
      /\ \A p \in DOMAIN b1 : Shows(b1[p]) # {} =>
            /\ \A repo : InLocations(body, p, repo, f.locs) => repo \in allowed
            /\ \A t \in Pos :
                 /\ IsPrefix(t, p) /\ t # << >>
                 /\ \A l \in f.locs : IsArrayLoc(l) =>
                       \A row \in ElementsAt(body, RowsAt(l)) : ~IsPrefix(t, row)
                 => Same(b1, body, t)
    BY <1>1, RedactTrims
<1>3. DOMAIN b1 \subseteq Pos
    BY <1>2 DEF Trims
<1>4. /\ Trims(b2, b1)
      /\ \A p \in DOMAIN b2 : Shows(b2[p]) # {} =>
            \A l \in f.scrub : \A t \in ScrubbedAt(b1, l) :
                IsPrefix(t, p) => b1[t] = Null \/ Stays(b1, t, l.name, allowed)
    BY <1>3, ScrubTrims
<1>5. DOMAIN b2 \subseteq Pos
    BY <1>4 DEF Trims
<1>6. /\ Trims(b3, b2)
      /\ \A p \in DOMAIN b3 : Shows(b3[p]) # {} =>
            \A l \in f.strings : p \in StringsAt(b2, l) => NamedBy(b2[p], {"full"}) \subseteq allowed
    BY <1>5, DropStringsTrims
<1>7. DOMAIN b3 \subseteq Pos
    BY <1>6 DEF Trims
<1>8. /\ Trims(out, b3)
      /\ \A p \in DOMAIN out : Shows(out[p]) # {} =>
            \A t \in ContentAt(b3, f.content) :
                IsPrefix(t, p) => MarkedRepos(b3, t) \subseteq allowed
    BY <1>7, ContentTrims
<1>9. Trims(out, body)
    BY <1>2, <1>4, <1>6, <1>8, TrimsOnAndOn
<1>10. ASSUME NEW p \in DOMAIN out, Shows(out[p]) # {}, NEW repo,
              \/ InLocations(body, p, repo, f.locs)
              \/ InScrubbed(body, p, repo, f.scrub)
              \/ InStrings(body, p, repo, f.strings)
              \/ InContent(body, p, repo, f.content)
       PROVE  repo \in allowed
    <2>1. p \in Pos
        BY <1>9 DEF Trims
    <2>2. Kept(out, b3, p) /\ b3[p] = out[p] /\ p \in DOMAIN b3
        BY <1>8, <1>10, <2>1, KeptShows DEF Trims
    <2>3. Kept(b3, b2, p) /\ b2[p] = out[p] /\ p \in DOMAIN b2
        BY <1>6, <1>10, <2>1, <2>2, KeptShows DEF Trims
    <2>4. Kept(b2, b1, p) /\ b1[p] = out[p] /\ p \in DOMAIN b1
        BY <1>4, <1>10, <2>1, <2>3, KeptShows DEF Trims
    <2>5. Kept(b1, body, p) /\ body[p] = out[p] /\ p \in DOMAIN body
        BY <1>2, <1>10, <2>1, <2>4, KeptShows DEF Trims
    <2>6. CASE InLocations(body, p, repo, f.locs)
        BY <1>2, <1>10, <2>4, <2>6
    <2>7. CASE InScrubbed(body, p, repo, f.scrub)
        <3>0. PICK l \in f.scrub :
                  \E t \in ScrubbedAt(body, l) : IsPrefix(t, p) /\ repo \in Told(body, t, l.name)
            BY <2>7 DEF InScrubbed
        <3>1. PICK t \in ScrubbedAt(body, l) : IsPrefix(t, p) /\ repo \in Told(body, t, l.name)
            BY <3>0
        <3> DEFINE way == Append(l.to, l.field)
        <3>2. way \in Pos /\ Len(way) = Len(l.to) + 1 /\ Len(l.to) \in Nat /\ l.name \in Pos
            <4>1. l.to \in Pos /\ l.field \in Step /\ l.name \in Pos
                BY StringsAreSteps DEF Located, Step
            <4> QED BY <4>1, AppendIsBelow DEF Pos
        <3>3. t \in Reached(body, << >>, way)
            BY DEF ScrubbedAt
        <3> HIDE DEF way
        <3>4. t \in Pos /\ t # << >>
            BY <1>1, <3>2, <3>3, ReachedByStep
        <3>5. t \in Reached(b1, << >>, way) /\ b1[t] = body[t]
            BY <1>1, <1>3, <2>1, <2>5, <3>1, <3>2, <3>3, ReachedIsKept
        <3>6. t \in ScrubbedAt(b1, l)
            BY <3>5 DEF ScrubbedAt, way
        <3>7. \A x \in f.locs : IsArrayLoc(x) =>
                  \A row \in ElementsAt(body, RowsAt(x)) : ~IsPrefix(t, row)
            BY <1>1, NoRowsInScrubbed
        <3>8. Same(b1, body, t)
            BY <1>2, <1>10, <2>4, <3>1, <3>4, <3>7
        <3>9. Told(b1, t, l.name) = Told(body, t, l.name)
            BY <1>1, <1>3, <3>2, <3>4, <3>8, SameIsTold
        <3>10. b1[t] = Null \/ Stays(b1, t, l.name, allowed)
            BY <1>4, <1>10, <2>3, <3>1, <3>6
        <3>11. body[t] # Null
            BY <1>1, <1>10, <2>5, <3>1, <3>4, AboveIsNotNull
        <3> QED BY <3>1, <3>5, <3>9, <3>10, <3>11 DEF Stays
    <2>8. CASE InStrings(body, p, repo, f.strings)
        <3>1. PICK l \in f.strings : p \in StringsAt(body, l) /\ repo \in NamedBy(body[p], {"full"})
            BY <2>8 DEF InStrings
        <3>2. Kept(b2, body, p)
            BY <2>4, <2>5, KeptOnAndOn
        <3>3. p \in StringsAt(b2, l) /\ b2[p] = body[p]
            BY <1>1, <1>5, <2>1, <3>1, <3>2, StringIsKept
        <3> QED BY <1>6, <1>10, <2>2, <3>1, <3>3
    <2>9. CASE InContent(body, p, repo, f.content)
        <3>1. PICK t \in ContentAt(body, f.content) : IsPrefix(t, p) /\ repo \in MarkedRepos(body, t)
            BY <2>9 DEF InContent
        <3>2. f.content # {} /\ f.scrub = {} /\ f.strings = {}
            BY <3>1 DEF ContentAt, Located
        <3>3. b3 = b1
            BY <3>2 DEF Skips, Scrub, DropRepoStrings
        <3>4. t \in ContentAt(b3, f.content)
            BY <1>1, <1>3, <2>1, <2>5, <3>1, <3>3, ContentIsKept
        <3>5. t \in Pos /\ t # << >>
            BY <1>1 DEF ContentAt, Fields
        <3>6. \A x \in f.locs : IsArrayLoc(x) =>
                  \A row \in ElementsAt(body, RowsAt(x)) : ~IsPrefix(t, row)
            BY <1>1, NoRowsInContent
        <3>7. Same(b1, body, t)
            BY <1>2, <1>10, <2>4, <3>1, <3>5, <3>6
        <3>8. MarkedRepos(b1, t) = MarkedRepos(body, t)
            BY <1>1, <1>3, <3>5, <3>7, SameIsTold
        <3> QED BY <1>8, <1>10, <3>1, <3>3, <3>4, <3>8
    <2> QED BY <1>10, <2>6, <2>7, <2>8, <2>9
<1> QED BY <1>9, <1>10

(* ------------------------------------------------------------------------- *)
(* The treatments                                                            *)
(* ------------------------------------------------------------------------- *)

LEMMA MatchedByBoth ==
    ASSUME NEW s, NEW t \in Seq(STRING), NEW u \in Seq(STRING), matches(t, s), matches(u, s),
           s \in Seq(STRING)
    PROVE  Compete(t, u)
<1>1. /\ Len(t) = Len(s) /\ Len(u) = Len(s) /\ DOMAIN t = 1..Len(t) /\ DOMAIN s = 1..Len(s)
      /\ \A i \in DOMAIN s : t[i] \in {Wild, s[i]} /\ u[i] \in {Wild, s[i]}
    BY DEF matches
<1>2. ASSUME NEW i \in DOMAIN t PROVE t[i] = u[i] \/ Wild \in {t[i], u[i]}
    BY <1>1
<1> QED BY <1>1, <1>2 DEF Compete

LEMMA LocationsFor ==
    ASSUME NEW table, NEW s, NEW m \in LocsFor(table, s)
    PROVE  \E x \in table : m \in x.locs /\ \E t \in x.paths : matches(t, s)
BY DEF LocsFor

\* The locations that the tables know for one path fit together.
LEMMA LocatedFor ==
    ASSUME NEW s \in Seq(STRING), NEW f, NEW found \in Lookup(s), f.locs \in {{}, found.locs},
           f.locs = {} \/ f.scrub = LocsFor(repoScrubOps, s),
           f.scrub \in {LocsFor(repoScrubOps, s), LocsFor(writeScrubOps, s)},
           f.strings \in {{}, LocsFor(repoStringArrayOps, s)},
           f.content = LocsFor(contentRepoScrubOps, s)
    PROVE  Located(f)
<1>1. ASSUME NEW l \in f.locs
      PROVE  \E e \in repoEnumOps : matches(e.path, s) /\ f.locs = e.locs
    BY <1>1 DEF Lookup
<1>2. ASSUME NEW m \in f.scrub
      PROVE  \E x \in ScrubTables : m \in x.locs /\ \E t \in x.paths : matches(t, s)
    BY <1>2, LocationsFor DEF ScrubTables
<1>3. ASSUME NEW m \in f.strings
      PROVE  \E x \in repoStringArrayOps : m \in x.locs /\ \E t \in x.paths : matches(t, s)
    BY <1>3, LocationsFor
<1>4. ASSUME NEW m \in f.content
      PROVE  \E x \in contentRepoScrubOps : m \in x.locs /\ \E t \in x.paths : matches(t, s)
    BY <1>4, LocationsFor
<1>5. f.locs \subseteq Seq(STRING)
    BY <1>1, TablesTyped
<1>6. \A m \in f.scrub : m.to \in Seq(STRING) /\ m.name \in Seq(STRING) /\ m.field \in STRING
    BY <1>2, TablesTyped
<1>7. \A m \in f.strings : m.container \in Seq(STRING) /\ m.array \in STRING
    BY <1>3, TablesTyped
<1>8. ASSUME NEW l \in f.locs, NEW m \in f.scrub, IsArrayLoc(l)
      PROVE  ~IsPrefix(Append(m.to, m.field), Append(RowsAt(l), "[]"))
    <2>1. PICK e \in repoEnumOps : f.locs = e.locs
        BY <1>1
    <2>2. PICK x \in repoScrubOps : m \in x.locs
        BY <1>8, LocationsFor
    <2> QED BY <1>8, <2>1, <2>2, TablesAreApart
<1>9. ASSUME NEW l \in f.locs, IsArrayLoc(l), NEW i \in DOMAIN RowsAt(l),
             \A j \in 1..(i - 1) : RowsAt(l)[j] = "[]", RowsAt(l)[i] \in f.content
      PROVE  FALSE
    <2>1. PICK e \in repoEnumOps : matches(e.path, s) /\ f.locs = e.locs
        BY <1>1
    <2>2. PICK x \in contentRepoScrubOps :
              RowsAt(l)[i] \in x.locs /\ \E t \in x.paths : matches(t, s)
        BY <1>4, <1>9
    <2>3. PICK t \in x.paths : matches(t, s)
        BY <2>2
    <2>4. Compete(e.path, t)
        BY <2>1, <2>3, MatchedByBoth, TablesTyped
    <2> QED BY <1>9, <2>1, <2>2, <2>4, TablesAreApart
<1>10. ASSUME NEW c \in f.content, NEW m \in f.scrub \cup f.strings
       PROVE  FALSE
    <2>1. PICK x \in contentRepoScrubOps : \E t \in x.paths : matches(t, s)
        BY <1>4
    <2>2. PICK t \in x.paths : matches(t, s)
        BY <2>1
    <2>3. PICK y \in ScrubTables \cup repoStringArrayOps : \E u \in y.paths : matches(u, s)
        BY <1>2, <1>3
    <2>4. PICK u \in y.paths : matches(u, s)
        BY <2>3
    <2>5. t \in Seq(STRING) /\ u \in Seq(STRING)
        BY TablesTyped
    <2>6. Compete(t, u)
        BY <2>2, <2>4, <2>5, MatchedByBoth
    <2>7. u \in (UNION {z.paths : z \in ScrubTables}) \cup UNION {z.paths : z \in repoStringArrayOps}
        OBVIOUS
    <2> QED BY <2>6, <2>7, TablesAreApart
<1>11. f.content # {} => f.scrub = {} /\ f.strings = {}
    BY <1>10
<1> QED BY <1>5, <1>6, <1>7, <1>8, <1>9, <1>11 DEF Located

\* A treatment works with the locations of the tables, or looks at nothing else
\* than the body.
LEMMA TreatmentsAre ==
    ASSUME NEW r \in RequestSet, NEW f \in Treatments(r)
    PROVE  \/ f = Deny
           \/ f.kind \in {"redact", "write"} /\ Located(f)
           \/ /\ f.kind \in {"stream", "scan", "named", "nested", "keyed", "packument"}
              /\ f.content = {}
<1>1. \A k, o : Plan(k, o).kind = k /\ Plan(k, o).content = {}
    BY DEF Plan
<1>2. CASE IsRegistryPath(r.path)
    BY <1>1, <1>2 DEF Treatments, Stream
<1>3. CASE ~IsRegistryPath(r.path)
    <2> DEFINE s == r.path
               c == ScopesOf(r)
    <2>0. s \in Seq(STRING)
        BY RequestsTyped
    <2>1. PICK found \in Lookup(s) :
              f = IF IsRead(r.method) THEN ReadPlan(c, s, found) ELSE WritePlan(c, s, found)
        BY <1>3 DEF Treatments
    <2> HIDE DEF s, c
    <2>2. Unlocated(c, s) \in {Deny, Plan("named", ScopeOwner(c)), Plan("nested", ScopeOwner(c)),
                               Plan("keyed", ScopeOwner(c)), Plan("scan", ScanOwner(c, s))}
        BY DEF Unlocated, UnlocatedScanned
    <2> DEFINE redact == [Plan("redact", ScanOwner(c, s)) EXCEPT
                             !.locs = found.locs, !.scrub = LocsFor(repoScrubOps, s),
                             !.strings = LocsFor(repoStringArrayOps, s),
                             !.content = LocsFor(contentRepoScrubOps, s)]
               scrubbed == [Plan("write", NoOwner) EXCEPT
                               !.scrub = LocsFor(writeScrubOps, s),
                               !.content = LocsFor(contentRepoScrubOps, s)]
    <2>3. /\ redact.kind = "redact" /\ redact.locs = found.locs
          /\ redact.scrub = LocsFor(repoScrubOps, s)
          /\ redact.strings = LocsFor(repoStringArrayOps, s)
          /\ redact.content = LocsFor(contentRepoScrubOps, s)
        BY DEF Plan
    <2>4. /\ scrubbed.kind = "write" /\ scrubbed.locs = {} /\ scrubbed.strings = {}
          /\ scrubbed.scrub = LocsFor(writeScrubOps, s)
          /\ scrubbed.content = LocsFor(contentRepoScrubOps, s)
        BY DEF Plan
    <2>5. f \in {redact, scrubbed, Stream, Deny, Unlocated(c, s)}
        BY <2>1 DEF ReadPlan, WritePlan
    <2> HIDE DEF redact, scrubbed
    <2>6. CASE f = redact
        BY <2>0, <2>3, <2>6, LocatedFor
    <2>7. CASE f = scrubbed
        BY <2>0, <2>4, <2>7, LocatedFor
    <2>8. CASE f \in {Stream, Deny, Unlocated(c, s)}
        BY <1>1, <2>2, <2>8 DEF Stream, Deny
    <2> QED BY <2>5, <2>6, <2>7, <2>8
<1> QED BY <1>2, <1>3

(* ------------------------------------------------------------------------- *)
(* What each treatment leaves to be seen                                     *)
(* ------------------------------------------------------------------------- *)

\* What is left to be seen was in the body, and lies nowhere that the treatment
\* looks for its repository, unless the repository is allowed.
Hides(f, allowed, body, out) ==
    \A p \in DOMAIN out : \A d \in Shows(out[p]) :
        /\ p \in DOMAIN body /\ d \in Shows(body[p])
        /\ LooksAt(f, body, p, d[1]) \/ InContent(body, p, d[1], f.content) => d[1] \in allowed

LEMMA HiddenIfNothingIsShown ==
    ASSUME NEW f, NEW allowed, NEW body, NEW out, \A p \in DOMAIN out : Shows(out[p]) = {}
    PROVE  Hides(f, allowed, body, out)
BY DEF Hides

\* A body that was trimmed hides what it no longer shows.
LEMMA HiddenByTrimming ==
    ASSUME NEW f, NEW allowed, NEW body, NEW out, Trims(out, body),
           \A p \in DOMAIN out : Shows(out[p]) # {} /\ p \in DOMAIN body =>
               \A repo : LooksAt(f, body, p, repo) \/ InContent(body, p, repo, f.content) =>
                   repo \in allowed
    PROVE  Hides(f, allowed, body, out)
<1> SUFFICES ASSUME NEW p \in DOMAIN out, NEW d \in Shows(out[p])
             PROVE  /\ p \in DOMAIN body /\ d \in Shows(body[p])
                    /\ LooksAt(f, body, p, d[1]) \/ InContent(body, p, d[1], f.content) =>
                           d[1] \in allowed
    BY DEF Hides
<1>1. p \in Pos /\ Kept(out, body, p)
    BY DEF Trims
<1> QED BY <1>1, KeptShows

LEMMA NothingLinked ==
    ASSUME NEW body, NEW p, NEW repo PROVE ~InContent(body, p, repo, {})
BY DEF InContent, ContentAt

\* redact, write
LEMMA LocatedHides ==
    ASSUME NEW body, Tree(body), NEW f, f.kind \in {"redact", "write"}, Located(f),
           NEW allowed, NEW out, out = Filtered(f, allowed, body)
    PROVE  Hides(f, allowed, body, out)
<1> DEFINE b1 == Redact(body, f.locs, allowed)
           b2 == Scrub(b1, f.scrub, allowed)
           b3 == DropRepoStrings(b2, f.strings, allowed)
           located == ScrubDeniedContent(b3, f.content, allowed)
<1>1. /\ Trims(located, body)
      /\ \A p \in DOMAIN located : Shows(located[p]) # {} =>
           \A repo :
               \/ InLocations(body, p, repo, f.locs)
               \/ InScrubbed(body, p, repo, f.scrub)
               \/ InStrings(body, p, repo, f.strings)
               \/ InContent(body, p, repo, f.content)
               => repo \in allowed
    BY LocatedTrims
<1>2. out = IF f.kind = "redact" THEN Scanned(located, f.owner, allowed) ELSE located
    BY DEF Filtered
<1> HIDE DEF located
<1>3. out \in {Refused, located}
    BY <1>2 DEF Scanned
<1>4. CASE out = Refused
    BY <1>4, NothingIsShown, HiddenIfNothingIsShown
<1>5. CASE out = located
    <2>1. ASSUME NEW p, NEW repo, LooksAt(f, body, p, repo)
          PROVE  \/ InLocations(body, p, repo, f.locs)
                 \/ InScrubbed(body, p, repo, f.scrub)
                 \/ InStrings(body, p, repo, f.strings)
                 \/ InContent(body, p, repo, f.content)
        BY <2>1 DEF LooksAt
    <2> QED BY <1>1, <1>5, <2>1, HiddenByTrimming
<1> QED BY <1>3, <1>4, <1>5

\* scan
LEMMA ScanHides ==
    ASSUME NEW body, DOMAIN body \subseteq Pos, NEW f, f.kind = "scan", f.content = {},
           NEW allowed, NEW out, out = Filtered(f, allowed, body)
    PROVE  Hides(f, allowed, body, out)
<1>1. out = Scanned(body, f.owner, allowed)
    BY DEF Filtered
<1>2. CASE out = Refused
    BY <1>2, NothingIsShown, HiddenIfNothingIsShown
<1>3. CASE out = body /\ NamedRepos(body, f.owner) \subseteq allowed
    <2>1. ASSUME NEW p, NEW repo, LooksAt(f, body, p, repo) PROVE repo \in allowed
        BY <1>3, <2>1 DEF LooksAt
    <2>2. Trims(out, body)
        BY <1>3, TrimsItself
    <2> QED BY <2>1, <2>2, NothingLinked, HiddenByTrimming
<1> QED BY <1>1, <1>2, <1>3 DEF Scanned

\* named, nested: of the lists, those rows stay that are named and allowed.
LEMMA RowsHide ==
    ASSUME NEW body, DOMAIN body \subseteq Pos, NEW lists, NEW owner, NEW allowed, NEW out,
           out = Edit(body, UNION {filterNamedRepoArray(body, a, owner, allowed) : a \in lists}, NoPut)
    PROVE  /\ Trims(out, body)
           /\ \A p \in DOMAIN out : Shows(out[p]) # {} =>
                \A repo : InNamedRow(body, p, repo, owner, lists) => repo \in allowed
<1> DEFINE cut == UNION {filterNamedRepoArray(body, a, owner, allowed) : a \in lists}
<1>1. cut \in SUBSET Pos
    BY DEF filterNamedRepoArray, Below
<1>2. DOMAIN NoPut = {}
    BY DEF NoPut, Put
<1> HIDE DEF cut
<1>3. out = Edit(body, cut, NoPut)
    BY DEF cut
<1>4. /\ Trims(out, body)
      /\ \A p \in DOMAIN out : Shows(out[p]) # {} =>
            \A c \in cut \cup DOMAIN NoPut : ~IsPrefix(c, p)
    BY <1>1, <1>2, <1>3, EditTrims
<1>5. ASSUME NEW p \in DOMAIN out, Shows(out[p]) # {}, NEW repo,
             InNamedRow(body, p, repo, owner, lists)
      PROVE  repo \in allowed
    <2>1. PICK a \in lists : \E row \in Below(body, a) :
              /\ IsPrefix(row, p) /\ BareNamed(body, row)
              /\ repo = <<owner, Field(body, row, "name").repo[2]>>
        BY <1>5 DEF InNamedRow
    <2>2. PICK row \in Below(body, a) :
              /\ IsPrefix(row, p) /\ BareNamed(body, row)
              /\ repo = <<owner, Field(body, row, "name").repo[2]>>
        BY <2>1
    <2>3. row \notin filterNamedRepoArray(body, a, owner, allowed)
        BY <1>4, <1>5, <2>2 DEF cut
    <2> QED BY <2>2, <2>3 DEF filterNamedRepoArray
<1> QED BY <1>4, <1>5

LEMMA NamedHides ==
    ASSUME NEW body, DOMAIN body \subseteq Pos, NEW f, f.kind \in {"named", "nested"},
           f.content = {}, NEW allowed, NEW out, out = Filtered(f, allowed, body)
    PROVE  Hides(f, allowed, body, out)
<1> DEFINE lists == IF f.kind = "named" THEN OrgLists(body) ELSE NestedLists(body)
           rest == Edit(body, UNION {filterNamedRepoArray(body, a, f.owner, allowed) : a \in lists}, NoPut)
<1>1. out = IF f.kind = "named" THEN RedactOrgNamedRepos(body, f.owner, allowed)
            ELSE RedactNestedBareNameRepos(body, f.owner, allowed)
    BY DEF Filtered
<1>2. out = Refused \/ (out = body /\ body = Empty) \/ out = rest
    BY <1>1 DEF RedactOrgNamedRepos, RedactNestedBareNameRepos
<1>3. CASE out = Refused \/ (out = body /\ body = Empty)
    BY <1>3, NothingIsShown, HiddenIfNothingIsShown
<1>4. CASE out = rest
    <2>1. ASSUME NEW p, NEW repo, LooksAt(f, body, p, repo)
          PROVE  InNamedRow(body, p, repo, f.owner, lists)
        BY <2>1 DEF LooksAt
    <2> HIDE DEF lists
    <2>2. /\ Trims(out, body)
          /\ \A p \in DOMAIN out : Shows(out[p]) # {} =>
               \A repo : InNamedRow(body, p, repo, f.owner, lists) => repo \in allowed
        BY <1>4, RowsHide
    <2> QED BY <2>1, <2>2, NothingLinked, HiddenByTrimming
<1> QED BY <1>2, <1>3, <1>4

\* keyed
LEMMA KeyedHides ==
    ASSUME NEW body, << >> \in DOMAIN body, NEW f, f.kind = "keyed", f.content = {},
           NEW allowed, NEW out, out = Filtered(f, allowed, body)
    PROVE  Hides(f, allowed, body, out)
<1> DEFINE names == {w \in body[<< >>].names : Qualified(w, f.owner) \subseteq allowed}
<1>1. out = RedactRepoKeyedMap(body, f.owner, allowed)
    BY DEF Filtered
<1>2. \/ out = Refused \/ (out = body /\ body = Empty)
      \/ out = Leaf(Keyed(names)) /\ body[<< >>].kind = "keyed"
    BY <1>1 DEF RedactRepoKeyedMap
<1>3. CASE out = Refused \/ (out = body /\ body = Empty)
    BY <1>3, NothingIsShown, HiddenIfNothingIsShown
<1>4. CASE out = Leaf(Keyed(names)) /\ body[<< >>].kind = "keyed"
    <2>1. SUFFICES ASSUME NEW p \in DOMAIN out, NEW d \in Shows(out[p])
                   PROVE  /\ p \in DOMAIN body /\ d \in Shows(body[p])
                          /\ LooksAt(f, body, p, d[1]) => d[1] \in allowed
        BY NothingLinked DEF Hides
    <2> HIDE DEF names
    <2>2. p = << >> /\ out[p] = Keyed(names)
        BY <1>4 DEF Leaf
    <2>3. Keyed(names).kind = "keyed" /\ Keyed(names).names = names
        BY DEF Keyed
    <2>4. d \in {<<w.repo, "metadata">> : w \in names}
        BY <2>1, <2>2, <2>3 DEF Shows
    <2>5. PICK w \in names : d = <<w.repo, "metadata">>
        BY <2>4
    <2>6. w \in body[<< >>].names /\ Qualified(w, f.owner) \subseteq allowed /\ d[1] = w.repo
        BY <2>5 DEF names
    <2>7. d \in Shows(body[p])
        BY <1>4, <2>2, <2>5, <2>6 DEF Shows
    <2>8. ASSUME LooksAt(f, body, p, d[1]) PROVE d[1] \in allowed
        <3>1. \A v \in body[p].names : v.repo = d[1] => d[1] \in Qualified(v, f.owner)
            BY <2>8 DEF LooksAt
        <3> QED BY <2>2, <2>6, <3>1
    <2> QED BY <2>2, <2>7, <2>8
<1> QED BY <1>2, <1>3, <1>4

\* packument
LEMMA PackumentHides ==
    ASSUME NEW body, DOMAIN body \subseteq Pos, NEW f, f.kind = "packument", f.content = {},
           NEW allowed, NEW out, out = Filtered(f, allowed, body)
    PROVE  Hides(f, allowed, body, out)
<1> DEFINE nulls == Put(DeniedFields(body, {"repository", "bugs"}, allowed), Null)
           texts == Put(DeniedFields(body, {"homepage"}, allowed), Text)
           put == Over(nulls, Over(texts, Rewritten(body)))
<1>1. out = ScrubPackument(body, allowed)
    BY DEF Filtered
<1>2. out = Refused \/ out = Edit(body, {}, put)
    BY <1>1 DEF ScrubPackument
<1>3. CASE out = Refused
    BY <1>3, NothingIsShown, HiddenIfNothingIsShown
<1>4. CASE out = Edit(body, {}, put)
    <2>1. /\ DOMAIN nulls = DeniedFields(body, {"repository", "bugs"}, allowed)
          /\ DOMAIN texts = DeniedFields(body, {"homepage"}, allowed)
          /\ DOMAIN Rewritten(body) \subseteq DOMAIN body
          /\ \A c \in DOMAIN nulls : nulls[c] = Null
          /\ \A c \in DOMAIN texts : texts[c] = Text
          /\ \A c \in DOMAIN Rewritten(body) : Rewritten(body)[c] = Link("proxy")
        BY DEF Put, Rewritten
    <2> HIDE DEF nulls, texts
    <2>2. /\ DOMAIN put = DOMAIN nulls \cup DOMAIN texts \cup DOMAIN Rewritten(body)
          /\ \A c \in DOMAIN put : put[c] \in {Null, Text, Link("proxy")}
        BY <2>1 DEF Over
    <2> HIDE DEF put
    <2>3. DOMAIN put \subseteq Pos
        BY <2>1, <2>2 DEF DeniedFields, Fields
    <2>4. \A c \in DOMAIN put : Shows(put[c]) = {}
        BY <2>2, WrittenShowsNothing
    <2>5. /\ Trims(out, body)
          /\ \A p \in DOMAIN out : Shows(out[p]) # {} =>
                \A c \in {} \cup DOMAIN put : ~IsPrefix(c, p)
        BY <1>4, <2>3, <2>4, EditTrims
    <2>6. ASSUME NEW p \in DOMAIN out, Shows(out[p]) # {}, NEW repo, LooksAt(f, body, p, repo)
          PROVE  repo \in allowed
        <3>1. InBacking(body, p, repo)
            BY <2>6 DEF LooksAt
        <3>2. PICK k \in {"repository", "bugs", "homepage"} : \E t \in Fields(body, k) :
                  IsPrefix(t, p) /\ repo \in backingRepo(body, t)
            BY <3>1 DEF InBacking
        <3>3. PICK t \in Fields(body, k) : IsPrefix(t, p) /\ repo \in backingRepo(body, t)
            BY <3>2
        <3>4. t \notin DOMAIN put
            BY <2>5, <2>6, <3>3
        <3>5. /\ t \notin DeniedFields(body, {"repository", "bugs"}, allowed)
              /\ t \notin DeniedFields(body, {"homepage"}, allowed)
            BY <2>1, <2>2, <3>4
        <3> QED BY <3>3, <3>5 DEF DeniedFields
    <2> QED BY <2>5, <2>6, NothingLinked, HiddenByTrimming
<1> QED BY <1>2, <1>3, <1>4

\* An answer that fits no description shows nothing.
LEMMA OddShowsNothing ==
    ASSUME NEW body \in Odd
    PROVE  Tree(body) /\ \A p \in DOMAIN body : Shows(body[p]) = {}
<1>1. \A p : Len(p) = 0 => 0..(Len(p) - 1) = {}
    OBVIOUS
<1>2. << >> \in Pos /\ Len(<< >>) = 0
    BY DEF Pos
<1>3. ASSUME NEW v, v.kind \notin {"str", "id", "content", "keyed"}, body = Leaf(v)
      PROVE  Tree(body) /\ \A p \in DOMAIN body : Shows(body[p]) = {}
    <2>1. DOMAIN body = {<< >>} /\ body[<< >>] = v
        BY <1>3 DEF Leaf
    <2>2. Shows(v) = {}
        BY <1>3, ShowsNothing
    <2> QED BY <1>1, <1>2, <2>1, <2>2 DEF Tree
<1>4. CASE body = Empty
    BY <1>3, <1>4 DEF Empty
<1>5. CASE body = Garbled
    BY <1>3, <1>5 DEF Garbled
<1>6. CASE body = Raw
    BY <1>3, <1>6 DEF Raw
<1>7. CASE body = Message
    <2> DEFINE q == <<"message">>
    <2>1. "message" \in Step
        BY DEF Step
    <2>2. q \in Pos /\ Len(q) = 1 /\ SubSeq(q, 1, 0) = << >> /\ q # << >>
        BY <2>1 DEF Pos
    <2>3. /\ DOMAIN body = {<< >>, q} /\ body[<< >>] = Object /\ body[q] = Text
        BY <1>7, <2>2 DEF Message
    <2> HIDE DEF q
    <2>4. Object.kind = "obj" /\ Text.kind = "text"
        BY DEF Object, Text
    <2>5. Shows(Object) = {} /\ Shows(Text) = {}
        BY <2>4, ShowsNothing
    <2>6. ASSUME NEW p \in DOMAIN body, NEW i \in 0..(Len(p) - 1)
          PROVE  p = q /\ i = 0
        <3>1. CASE p = << >>
            BY <1>1, <1>2, <3>1
        <3>2. CASE p = q
            <4>1. Len(p) = 1
                BY <2>2, <3>2
            <4> QED BY <3>2, <4>1
        <3> QED BY <2>3, <3>1, <3>2
    <2> QED BY <1>2, <2>2, <2>3, <2>4, <2>5, <2>6 DEF Tree
<1> QED BY <1>4, <1>5, <1>6, <1>7 DEF Odd

\* Whatever the answer of the upstream, what the client is sent of it hides what
\* the treatment looks for.
LEMMA WhatIsSentHides ==
    ASSUME NEW r \in RequestSet, NEW f \in Treatments(r), f # Deny, NEW allowed,
           NEW body, Tree(body), NEW out, out = Apply(f, allowed, body)
    PROVE  Hides(f, allowed, body, out)
<1>1. \/ f.kind \in {"redact", "write"} /\ Located(f)
      \/ /\ f.kind \in {"stream", "scan", "named", "nested", "keyed", "packument"}
         /\ f.content = {}
    BY TreatmentsAre
<1>2. ASSUME NEW b, Tree(b), f.kind # "stream"
      PROVE  Hides(f, allowed, b, Filtered(f, allowed, b))
    <2>1. DOMAIN b \subseteq Pos /\ << >> \in DOMAIN b
        BY <1>2 DEF Tree
    <2>2. CASE f.kind \in {"redact", "write"} /\ Located(f)
        BY <1>2, <2>2, LocatedHides
    <2>3. CASE f.kind = "scan" /\ f.content = {}
        BY <2>1, <2>3, ScanHides
    <2>4. CASE f.kind \in {"named", "nested"} /\ f.content = {}
        BY <2>1, <2>4, NamedHides
    <2>5. CASE f.kind = "keyed" /\ f.content = {}
        BY <2>1, <2>5, KeyedHides
    <2>6. CASE f.kind = "packument" /\ f.content = {}
        BY <2>1, <2>6, PackumentHides
    <2> QED BY <1>1, <1>2, <2>2, <2>3, <2>4, <2>5, <2>6
<1>3. CASE f.kind = "stream"
    <2>1. out = body /\ Trims(out, body)
        BY <1>3, TrimsItself DEF Apply, Tree
    <2>2. \A p, repo : ~LooksAt(f, body, p, repo) /\ ~InContent(body, p, repo, f.content)
        BY <1>1, <1>3, NothingLinked DEF LooksAt
    <2> QED BY <2>1, <2>2, HiddenByTrimming
<1>4. CASE f.kind = "scan" /\ body = Raw
    <2>1. out = body /\ Raw \in Odd
        BY <1>4 DEF Apply, Odd
    <2> QED BY <1>4, <2>1, OddShowsNothing, HiddenIfNothingIsShown
<1>5. CASE f.kind # "stream" /\ ~(f.kind = "scan" /\ body = Raw) /\ body = Raw
    <2>1. out = Filtered(f, allowed, Garbled)
        BY <1>5 DEF Apply
    <2>2. Garbled \in Odd
        BY DEF Odd
    <2>3. Hides(f, allowed, Garbled, out)
        BY <1>2, <1>5, <2>1, <2>2, OddShowsNothing
    <2>4. \A p \in DOMAIN out : Shows(out[p]) = {}
        BY <2>3, NothingIsShown DEF Hides
    <2> QED BY <2>4, HiddenIfNothingIsShown
<1>6. CASE f.kind # "stream" /\ body # Raw
    BY <1>2, <1>6 DEF Apply
<1> QED BY <1>3, <1>4, <1>5, <1>6

(* ------------------------------------------------------------------------- *)
(* Names                                                                     *)
(* ------------------------------------------------------------------------- *)

\* Whoever may write may read.
LEMMA WriteGrantsRead ==
    ASSUME NEW p, NEW s, Evaluate(p, s, "write")
    PROVE  Evaluate(p, s, "read")
<1>1. \A x : permits(x, "write") => permits(x, "read")
    BY DEF permits
<1>2. \A rule, res : RuleAllows(rule, "write", res) => RuleAllows(rule, "read", res)
    BY <1>1 DEF RuleAllows
<1> QED BY <1>1, <1>2 DEF Evaluate

\* A path of the registry scopes no repository, as a REST path.
LEMMA RegistryScopesNoRepo ==
    ASSUME NEW m, NEW s, IsRegistryPath(s), NEW b, NEW x
    PROVE  ~HasRepo(Classify(m, s, b, x))
<1>1. s[1] \in {"@", "-"}
    BY DEF IsRegistryPath
<1>2. Classify(m, s, b, x).primary = CategoryScope(restUnscopedCategory(s))
    BY <1>1 DEF Classify, Has, Scoped
<1> QED BY <1>2 DEF HasRepo, CategoryScope

\* What is forwarded is treated as the request asks, and all that the upstream is
\* asked for, after redirects too, is within the policy.
Following ==
    /\ pc = "idle" => asked = req
    /\ pc = "upstream" =>
        /\ filter \in Treatments(req) /\ filter # Deny
        /\ \A s \in OwnScopes : Evaluate(pol, s, AccessOf(asked.method))

LEMMA FollowingHolds == Spec => []Following
<1>1. Init => Following
    BY DEF Init, Following
<1>2. Following /\ [Next]_vars => Following'
    <2> SUFFICES ASSUME Following, [Next]_vars PROVE Following'
        OBVIOUS
    <2>1. ASSUME pc' = "answered" PROVE Following'
        BY <2>1 DEF Following
    <2>2. CASE Receive
        <3>1. PICK plan \in Treatments(req) :
                  IF /\ evaluateScopes(pol, ScopesOf(req), AccessOf(req.method))
                     /\ plan # Deny /\ ~HiddenTargets(ScopesOf(req), req, pol)
                  THEN Forward(plan) ELSE Reject("403", NoBody)
            BY <2>2 DEF Receive
        <3>2. CASE Reject("403", NoBody)
            BY <2>1, <3>2 DEF Reject, Finish
        <3>3. CASE /\ evaluateScopes(pol, ScopesOf(req), AccessOf(req.method))
                   /\ plan # Deny /\ Forward(plan)
            <4>1. /\ pc' = "upstream" /\ filter' = plan
                  /\ pol' = pol /\ req' = req /\ asked' = req
                BY <2>2, <3>3 DEF Forward, Receive, Admitted, Following
            <4>2. ~IsRegistryPath(req.path)
                BY <2>2 DEF Receive
            <4>3. OwnScopes' = AllScopes(ScopesOf(req))
                BY <4>1, <4>2 DEF OwnScopes, ScopesOf
            <4> QED BY <3>3, <4>1, <4>3 DEF Following, evaluateScopes
        <3> QED BY <3>1, <3>2, <3>3
    <2>3. CASE ReceiveNpm
        <3>1. PICK plan \in Treatments(req) :
                  IF /\ req.path[1] = "@"
                     /\ evaluateScopes(pol, PackageScope(req.path), AccessOf(req.method))
                  THEN Forward(plan) ELSE Reject("403", NoBody)
            BY <2>3 DEF ReceiveNpm
        <3>2. CASE Reject("403", NoBody)
            BY <2>1, <3>2 DEF Reject, Finish
        <3>3. CASE /\ evaluateScopes(pol, PackageScope(req.path), AccessOf(req.method))
                   /\ Forward(plan)
            <4>1. /\ pc' = "upstream" /\ filter' = plan
                  /\ pol' = pol /\ req' = req /\ asked' = req
                BY <2>3, <3>3 DEF Forward, ReceiveNpm, Admitted, Following
            <4>2. IsRegistryPath(req.path)
                BY <2>3 DEF ReceiveNpm
            <4>3. OwnScopes' = AllScopes(PackageScope(req.path))
                BY <4>1, <4>2 DEF OwnScopes
            <4>4. plan # Deny
                <5>1. plan.kind \in {"packument", "stream"}
                    BY <4>2 DEF Treatments, Stream, Plan
                <5>2. Deny.kind = "deny"
                    BY DEF Deny, Plan
                <5> QED BY <5>1, <5>2
            <4> QED BY <3>3, <4>1, <4>3, <4>4 DEF Following, evaluateScopes
        <3> QED BY <3>1, <3>2, <3>3
    <2>4. CASE Redirect
        <3>1. PICK moved \in Moved(asked.path) :
                 IF WithinLimit /\ MayFollow(Hop(asked, moved))
                 THEN /\ asked' = Hop(asked, moved) /\ hops' = NextHop(hops)
                      /\ UNCHANGED <<mode, pol, req, pc, filter, answer, status, sent>>
                 ELSE Reject("502", NoBody)
            BY <2>4 DEF Redirect
        <3>2. CASE Reject("502", NoBody)
            BY <2>1, <3>2 DEF Reject, Finish
        <3>3. CASE /\ MayFollow(Hop(asked, moved)) /\ asked' = Hop(asked, moved)
                   /\ UNCHANGED <<pol, req, pc, filter>>
            <4>1. /\ HasRepo(ScopesOf(asked'))
                  /\ evaluateScopes(pol, ScopesOf(asked'), AccessOf(asked'.method))
                BY <3>3 DEF MayFollow
            <4>2. ~IsRegistryPath(asked'.path)
                BY <4>1, RegistryScopesNoRepo DEF ScopesOf
            <4>3. OwnScopes' = AllScopes(ScopesOf(asked'))
                BY <4>2 DEF OwnScopes
            <4> QED BY <2>4, <3>3, <4>1, <4>3 DEF Following, evaluateScopes, Redirect
        <3> QED BY <3>1, <3>2, <3>3
    <2>5. CASE Respond
        BY <2>1, <2>5 DEF Respond, Finish
    <2>6. CASE RejectUnauthorized \/ AnswerSynthetic \/ RejectDotSegment
               \/ RespondTooLarge \/ UpstreamFails
        BY <2>1, <2>6 DEF RejectUnauthorized, AnswerSynthetic, RejectDotSegment,
                         RespondTooLarge, UpstreamFails, Reject, Finish
    <2>7. CASE UNCHANGED vars
        BY <2>7 DEF vars, Following, OwnScopes
    <2> QED BY <2>2, <2>3, <2>4, <2>5, <2>6, <2>7 DEF Next
<1> QED BY <1>1, <1>2, PTL DEF Spec

\* Where the filter judges a repository by a resource, it lets pass only what the
\* policy lets the client read.
LEMMA AllowedIsReadable ==
    ASSUME NEW repo \in Allowed(pol, req), NEW res \in Judged(filter, req)
    PROVE  MayRead(<<repo, res>>)
<1>1. Evaluate(pol, RepoScope(repo[1], repo[2], res), "read")
    BY DEF Allowed, Judged, ReadableAs, canReadFor
<1> QED BY <1>1 DEF MayRead

\* What the upstream answers and the client is sent tells of no repository that
\* is hidden, as far as the tables know where the answer tells of repositories.
LEMMA AnswersHideNames ==
    ASSUME TypeOK, Following, TreatmentFits, KeptShape, pc = "upstream",
           NEW body \in Upstream(asked.method, asked.path) \cup Odd,
           NEW out, out = Apply(filter, Allowed(pol, req), body),
           NEW d \in Disclosed(out)
    PROVE  MayRead(d) \/ AskedFor(d) \/ Linked(d)
<1>1. req \in RequestSet /\ asked.method \in Method /\ asked.path \in Paths
    BY InputsTyped, RequestsTyped DEF TypeOK
<1>2. filter \in Treatments(req) /\ filter # Deny
    BY DEF Following
<1>3. Tree(body)
    <2>1. CASE body \in Odd
        BY <2>1, OddShowsNothing
    <2>2. CASE body \in Upstream(asked.method, asked.path)
        <3>1. IsJson(body)
            BY <1>1, <2>2, AnswersAreJson
        <3> QED BY <3>1, StringsAreSteps DEF IsJson, Tree
    <2> QED BY <2>1, <2>2
<1>4. Hides(filter, Allowed(pol, req), body, out)
    BY <1>1, <1>2, <1>3, WhatIsSentHides
<1>5. PICK p \in DOMAIN out : d \in Shows(out[p])
    BY DEF Disclosed
<1>6. /\ p \in DOMAIN body /\ d \in Shows(body[p])
      /\ LooksAt(filter, body, p, d[1]) \/ InContent(body, p, d[1], filter.content) =>
             d[1] \in Allowed(pol, req)
    BY <1>4, <1>5 DEF Hides
<1>7. body \in Upstream(asked.method, asked.path)
    BY <1>6, OddShowsNothing
<1>8. d = <<d[1], d[2]>>
    BY <1>6 DEF Shows
<1>9. "metadata" \in Judged(filter, req)
    BY DEF Judged
<1>10. CASE RepoScope(d[1][1], d[1][2], d[2]) \in OwnScopes
    <2>1. Evaluate(pol, RepoScope(d[1][1], d[1][2], d[2]), AccessOf(asked.method))
        BY <1>10 DEF Following
    <2>2. Evaluate(pol, RepoScope(d[1][1], d[1][2], d[2]), "read")
        BY <2>1, WriteGrantsRead DEF AccessOf
    <2> QED BY <2>2 DEF MayRead
<1>11. CASE LooksAt(filter, body, p, d[1]) /\ d[2] \in Judged(filter, req)
    BY <1>6, <1>8, <1>11, AllowedIsReadable
<1>12. CASE InContent(body, p, d[1], filter.content)
    <2>1. MayRead(<<d[1], "metadata">>)
        BY <1>6, <1>9, <1>12, AllowedIsReadable
    <2>2. filter.content # {}
        BY <1>12, NothingLinked
    <2> QED BY <2>1, <2>2 DEF Linked
<1> QED BY <1>6, <1>7, <1>10, <1>11, <1>12 DEF TreatmentFits

\* If the tables are complete, a body that reaches the client tells nothing of a
\* repository that its policy hides, whatever the policies, the endpoints and the
\* answers, in whatever repository the redirects of reads and writes end: what
\* the scopes leave open, the filters close.  The tables need be complete, and
\* the body is judged, only where redirects have kept the kind of endpoint
\* (KeptShape); of the others RedirectsLeakNothing shows that it is not so.
THEOREM HiddenNamesStayHidden == Spec /\ []TreatmentFits => []NamesStayHidden
<1>1. Init => NamesStayHidden
    BY DEF Init, NamesStayHidden, RedirectsLeakNothing
<1>2. TypeOK /\ Following /\ TreatmentFits /\ NamesStayHidden /\ [Next]_vars => NamesStayHidden'
    <2> SUFFICES ASSUME TypeOK, Following, TreatmentFits, NamesStayHidden, [Next]_vars,
                        KeptShape', status' = "200", NEW d \in Disclosed(sent')
                 PROVE  (MayRead(d) \/ AskedFor(d) \/ Linked(d))'
        BY DEF NamesStayHidden, RedirectsLeakNothing
    <2>1. CASE AnswerSynthetic
        <3>1. sent' = Leaf(Text)
            BY <2>1 DEF AnswerSynthetic, Reject, Finish
        <3>2. Disclosed(Leaf(Text)) = {}
            BY WrittenShowsNothing DEF Disclosed, Leaf
        <3> QED BY <3>1, <3>2
    <2>2. CASE Respond
        <3>1. PICK body \in Upstream(asked.method, asked.path) \cup Odd :
                  LET out == Apply(filter, Allowed(pol, req), body) IN
                  /\ IF out = Refused THEN Finish(Refusal(body), NoBody) ELSE Finish("200", out)
                  /\ UNCHANGED <<asked, hops, filter>>
            BY <2>2 DEF Respond
        <3>2. /\ sent' = Apply(filter, Allowed(pol, req), body) /\ pc = "upstream"
              /\ UNCHANGED <<pol, req, asked, filter>>
            BY <2>2, <3>1 DEF Respond, Finish, Refusal
        <3>3. KeptShape
            BY <3>2 DEF KeptShape
        <3>4. MayRead(d) \/ AskedFor(d) \/ Linked(d)
            BY <3>2, <3>3, AnswersHideNames
        <3> QED BY <3>2, <3>4 DEF MayRead, AskedFor, Linked
    <2>3. CASE RejectUnauthorized \/ RejectDotSegment \/ RespondTooLarge \/ UpstreamFails
        BY <2>3 DEF RejectUnauthorized, RejectDotSegment, RespondTooLarge, UpstreamFails,
                    Reject, Finish
    <2>4. CASE Receive
        BY <2>4 DEF Receive, Admitted, Forward, Reject, Finish, TypeOK
    <2>5. CASE ReceiveNpm
        BY <2>5 DEF ReceiveNpm, Admitted, Forward, Reject, Finish, TypeOK
    <2>6. CASE Redirect
        BY <2>6 DEF Redirect, Reject, Finish, TypeOK
    <2>7. CASE UNCHANGED vars
        <3>1. /\ status = "200" /\ d \in Disclosed(sent)
              /\ UNCHANGED <<pol, req, asked, filter>>
            BY <2>7 DEF vars
        <3>2. KeptShape
            BY <3>1 DEF KeptShape
        <3> QED BY <3>1, <3>2 DEF NamesStayHidden, RedirectsLeakNothing, MayRead, AskedFor, Linked
    <2> QED BY <2>1, <2>2, <2>3, <2>4, <2>5, <2>6, <2>7 DEF Next
<1> QED BY <1>1, <1>2, Types, FollowingHolds, PTL DEF Spec

================================================================================
