------------------------------ MODULE RestFilter ------------------------------
(* The REST response filter (internal/restfilter) and the packument filter    *)
(* (internal/npm): what is taken out of a JSON body before the client sees    *)
(* it, and when the body is refused.                                          *)
(*                                                                            *)
(* A body is a function from positions to values.  A position is the sequence *)
(* of the fields and of the elements that lead to a value, << >> the body     *)
(* itself; an element keeps its position when others leave its array.  Of     *)
(* strings only those that name a repository matter, by their form: "full"    *)
(* (owner/repo), "bare" (the name alone), "api" and "web" (URLs of the        *)
(* repository), "scp" (a git remote).  "content" is anything else that        *)
(* belongs to a repository, under a resource; "id" is its numeric id.  A      *)
(* "keyed" value is an object whose keys are repository names.  `allowed` is  *)
(* the set of repositories the policy lets the client read here.              *)
EXTENDS Naturals, FiniteSets, SequencesExt

Object == [kind |-> "obj"]
Array == [kind |-> "arr"]
Num(n) == [kind |-> "num", n |-> n]
Str(form, repo) == [kind |-> "str", form |-> form, repo |-> repo]
Content(res, repo) == [kind |-> "content", res |-> res, repo |-> repo]
RepoId(repo) == [kind |-> "id", repo |-> repo]
Keyed(names) == [kind |-> "keyed", names |-> names]
Null == [kind |-> "null"]
Text == [kind |-> "text"]

\* A link to a tarball: at the registry, or through the proxy.
Link(at) == [kind |-> "link", at |-> at]

\* The body that is nothing but one value.
Leaf(value) == [p \in {<< >>} |-> value]

\* The owner of bare names that no path tells.
NoOwner == ""

\* A body with nothing in it, one that is no JSON, and the refusal to send one.
Empty == Leaf([kind |-> "empty"])
Garbled == Leaf([kind |-> "garbled"])
Refused == Leaf([kind |-> "refused"])

\* A step of the filter that has nothing to look for, or no body to look into:
\* what an earlier step refused stays refused.
Skips(body, targets) == targets = {} \/ body \in {Empty, Refused}

(* ------------------------------------------------------------------------- *)
(* Positions                                                                 *)
(* ------------------------------------------------------------------------- *)

IsObject(body, p) == p \in DOMAIN body /\ body[p].kind = "obj"
IsArray(body, p) == p \in DOMAIN body /\ body[p].kind = "arr"
HasField(body, p, k) == IsObject(body, p) /\ Append(p, k) \in DOMAIN body
Field(body, p, k) == IF HasField(body, p, k) THEN body[Append(p, k)] ELSE Null

\* The positions that are fields k of an object.
Fields(body, k) == {p \in DOMAIN body : p # << >> /\ Last(p) = k /\ IsObject(body, Front(p))}

\* The values directly below a position, and all from it downwards.
Below(body, p) == {q \in DOMAIN body : Len(q) = Len(p) + 1 /\ IsPrefix(p, q)}
Within(body, p) == {q \in DOMAIN body : IsPrefix(p, q)}

\* What the steps lead to from a position; a step is a field, or "[]" for the
\* elements of an array.
Reached(body, p, steps) ==
    {q \in DOMAIN body :
        /\ Len(q) = Len(p) + Len(steps) /\ IsPrefix(p, q)
        /\ \A i \in DOMAIN steps :
            LET at == SubSeq(q, 1, Len(p) + i - 1) IN
            IF steps[i] = "[]" THEN IsArray(body, at)
            ELSE IsObject(body, at) /\ q[Len(p) + i] = steps[i]}

\* The body without what lies at the positions of `cut`, and with the values of
\* `put` in the place of whatever was at theirs.
Edit(body, cut, put) ==
    LET stays(p) == /\ \A c \in cut : ~IsPrefix(c, p)
                    /\ \A c \in DOMAIN put : ~IsStrictPrefix(c, p)
    IN  [p \in {q \in DOMAIN body \cup DOMAIN put : stays(q)} |->
            IF p \in DOMAIN put THEN put[p] ELSE body[p]]

\* The same value at every position of a set.
Put(positions, value) == [p \in positions |-> value]
NoPut == Put({}, Null)

\* Two sets of new values, the first before the second.
Over(f, g) == [p \in DOMAIN f \cup DOMAIN g |-> IF p \in DOMAIN f THEN f[p] ELSE g[p]]

NamedBy(v, forms) == IF v.kind = "str" /\ v.form \in forms THEN {v.repo} ELSE {}
NamedAt(body, p, fields, forms) ==
    UNION {NamedBy(body[q], forms) : q \in Reached(body, p, fields)}
readRepo(body, p, fields) == NamedAt(body, p, fields, {"full"})

\* What stands in a template for any segment.
Wild == "{}"

\* A path matches a template segment by segment.
matches(template, path) ==
    /\ Len(template) = Len(path)
    /\ \A i \in DOMAIN path : template[i] \in {Wild, path[i]}

(* ------------------------------------------------------------------------- *)
(* Redact: rows of denied repositories are dropped                           *)
(* ------------------------------------------------------------------------- *)

IsArrayLoc(loc) == "[]" \in ToSet(loc)

\* The steps before and after the last "[]".
LastArray(loc) == CHOOSE i \in DOMAIN loc :
    loc[i] = "[]" /\ \A j \in DOMAIN loc : loc[j] = "[]" => j <= i
RowsAt(loc) == SubSeq(loc, 1, LastArray(loc) - 1)
InRow(loc) == SubSeq(loc, LastArray(loc) + 1, Len(loc))

\* The arrays that the steps lead to, and their elements.
ListsAt(body, steps) == {a \in Reached(body, << >>, steps) : IsArray(body, a)}
ElementsAt(body, steps) == UNION {Below(body, a) : a \in ListsAt(body, steps)}

\* The repositories that a row of the lists at `steps` shows, at the locations
\* that reach it.
Shown(body, row, steps, locs) ==
    UNION {readRepo(body, row, InRow(l)) : l \in {x \in locs : RowsAt(x) = steps}}

\* elementAllowed: a row that shows a repository, and only allowed ones.
elementAllowed(body, row, steps, locs, allowed) ==
    LET shown == Shown(body, row, steps, locs) IN shown # {} /\ shown \subseteq allowed

\* applyLocations, descendGroup: the rows that go.  The locations that reach the
\* same rows decide together.
DeniedRows(body, locs, allowed) ==
    UNION {{row \in ElementsAt(body, steps) : ~elementAllowed(body, row, steps, locs, allowed)} :
           steps \in {RowsAt(l) : l \in locs}}

\* Whether a body has any of the lists, or an empty one on the way to them.
Observed(body, locs) ==
    \E steps \in {RowsAt(l) : l \in locs} :
        \/ ListsAt(body, steps) # {}
        \/ \E i \in DOMAIN steps :
            /\ steps[i] = "[]"
            /\ \E a \in ListsAt(body, SubSeq(steps, 1, i - 1)) : Below(body, a) = {}

\* A count that `dropped` of its elements no longer stand behind.
Less(v, dropped) ==
    IF v.kind # "num" THEN Num(0)
    ELSE Num(IF v.n < dropped THEN 0 ELSE v.n - dropped)

\* The repository_count of every object above a row that goes.
LessCounts(body, rows) ==
    LET gone(c) == {row \in rows : IsPrefix(Front(c), row)} IN
    [c \in {x \in Fields(body, "repository_count") : gone(x) # {}} |->
        Less(body[c], Cardinality(gone(c)))]

\* LessTotal that forgets the total.
KeepTotal(body, rows) == NoPut

\* The total of a body that rows were dropped from, now known to be incomplete.
LessTotal(body, rows) ==
    [c \in IF rows # {} /\ HasField(body, << >>, "total_count")
           THEN {<<"total_count">>, <<"incomplete_results">>} ELSE {} |->
        IF c = <<"incomplete_results">> THEN Text
        ELSE Less(body[<<"total_count">>], Cardinality(rows))]

\* Redact: a body whose own repository is denied or not to be told, or in which
\* no location is found, is refused.
Redact(body, locs, allowed) ==
    LET single == {l \in locs : ~IsArrayLoc(l)}
        owns(l) == readRepo(body, << >>, l)
        rows == DeniedRows(body, locs \ single, allowed)
    IN  IF Skips(body, locs) THEN body
        ELSE IF body = Garbled THEN Refused
        ELSE IF \E l \in single : owns(l) = {} \/ ~(owns(l) \subseteq allowed) THEN Refused
        ELSE IF single = {} /\ ~Observed(body, locs) THEN Refused
        ELSE Edit(body, rows, Over(LessTotal(body, rows), LessCounts(body, rows)))

(* ------------------------------------------------------------------------- *)
(* Scrub: an object of a denied repository becomes null                      *)
(* ------------------------------------------------------------------------- *)

\* scanMarkedRepos: the repositories that what lies at p names by full_name or
\* repository_url.
MarkedRepos(body, p) ==
    UNION {NamedBy(Field(body, o, "full_name"), {"full"})
           \cup NamedBy(Field(body, o, "repository_url"), {"api"}) : o \in Within(body, p)}

\* A scrub location: the way to the object, its field that may become null, and
\* the way from there to the repository's name.
ScrubLoc(to, field, name) == [to |-> to, field |-> field, name |-> name]

\* The repository of the object at p; if the location does not tell it, all that
\* the object names.
Told(body, p, name) ==
    LET told == NamedAt(body, p, name, {"full", "api"}) IN
    IF told # {} THEN told ELSE MarkedRepos(body, p)

\* The end of scrubWalk and scrubFailClosed: the object stays if it names a
\* repository, and only allowed ones.
Stays(body, p, name, allowed) ==
    LET told == Told(body, p, name) IN told # {} /\ told \subseteq allowed

\* The objects that a location leads to.
ScrubbedAt(body, loc) == Reached(body, << >>, Append(loc.to, loc.field))

\* scrubWalk: those that become null.
scrubWalk(body, loc, allowed) ==
    {p \in ScrubbedAt(body, loc) : body[p] # Null /\ ~Stays(body, p, loc.name, allowed)}

\* Scrub: what the locations mark.
Scrub(body, locs, allowed) ==
    IF Skips(body, locs) THEN body
    ELSE IF body = Garbled THEN Refused
    ELSE Edit(body, {}, Put(UNION {scrubWalk(body, l, allowed) : l \in locs}, Null))

\* scrubContentRoots: the object, or each object of the list.
ContentRoots(body) ==
    {o \in DOMAIN body : /\ IsObject(body, o)
                         /\ \A i \in 0..(Len(o) - 1) : IsArray(body, SubSeq(o, 1, i))}

\* The fields of those objects that hold what the client linked.
ContentAt(body, fields) ==
    {p \in UNION {Fields(body, k) : k \in fields} : Front(p) \in ContentRoots(body)}

\* ScrubDeniedContent: a field that names no repository stays.
ScrubDeniedContent(body, fields, allowed) ==
    IF Skips(body, fields) THEN body
    ELSE IF body = Garbled THEN Refused
    ELSE Edit(body, {}, Put({p \in ContentAt(body, fields) :
                                ~(MarkedRepos(body, p) \subseteq allowed)}, Null))

\* One list of DropRepoStrings, and the names of denied repositories in it.
StringsAt(body, loc) == ElementsAt(body, Append(loc.container, loc.array))
dropStrings(body, loc, allowed) ==
    {s \in StringsAt(body, loc) : ~(NamedBy(body[s], {"full"}) \subseteq allowed)}

\* DropRepoStrings: they leave the list, and the count beside it goes down.
DropRepoStrings(body, locs, allowed) ==
    LET counts(l) == Reached(body, << >>, Append(l.container, l.count))
        gone(c) == UNION {dropStrings(body, l, allowed) : l \in {x \in locs : c \in counts(x)}}
    IN  IF Skips(body, locs) THEN body
        ELSE IF body = Garbled THEN Refused
        ELSE Edit(body, UNION {dropStrings(body, l, allowed) : l \in locs},
                  [c \in {x \in UNION {counts(l) : l \in locs} : gone(x) # {}} |->
                      Less(body[c], Cardinality(gone(c)))])

(* ------------------------------------------------------------------------- *)
(* The scan of a body that no table covers                                   *)
(* ------------------------------------------------------------------------- *)

\* isMinimalRepoObject: the small object {id, name, url}.
isMinimalRepoObject(body, o) ==
    /\ \A k \in {"id", "name", "url"} : HasField(body, o, k)
    /\ ~HasField(body, o, "full_name") /\ Cardinality(Below(body, o)) <= 4

\* A name in a field: full, or bare and the organization's.
Qualified(v, org) ==
    NamedBy(v, {"full"}) \cup
    (IF v.kind = "str" /\ v.form = "bare" /\ org # NoOwner THEN {<<org, v.repo[2]>>} ELSE {})

\* NamedRepos that reads only full names and web URLs.
NamedInFull(body, org) ==
    UNION {NamedBy(Field(body, p, "full_name"), {"full"}) \cup NamedBy(body[p], {"web"}) :
           p \in DOMAIN body}

\* What one value names in a way that the scan knows: a string by itself, an
\* object by its fields.
NamesIn(body, p, org) ==
    LET full(k) == NamedBy(Field(body, p, k), {"full"}) IN
    NamedBy(body[p], {"web"})
    \cup full("full_name") \cup full("repository_full_name")
    \cup NamedBy(Field(body, p, "repository_url"), {"api"})
    \cup (UNION {Qualified(Field(body, p, k), org) :
                k \in {"repository", "repositoryName"} \cup
                      (IF HasField(body, p, "repository_id") THEN {"repository_name"} ELSE {})})
    \cup (IF isMinimalRepoObject(body, p) THEN full("name") ELSE {})

\* scanForDeniedRepo: what any of the values names.
NamedRepos(body, org) == UNION {NamesIn(body, p, org) : p \in DOMAIN body}

\* ContainsDeniedRepo, and the refusal that follows: of what is no JSON too.
Scanned(body, org, allowed) ==
    IF body = Garbled \/ ~(NamedRepos(body, org) \subseteq allowed) THEN Refused ELSE body

(* ------------------------------------------------------------------------- *)
(* Bare names, which the owner in the path completes                         *)
(* ------------------------------------------------------------------------- *)

BareNamed(body, row) ==
    LET name == Field(body, row, "name") IN name.kind = "str" /\ name.form = "bare"

\* filterNamedRepoArray: the rows that go; one stays if owner/name is allowed.
filterNamedRepoArray(body, a, owner, allowed) ==
    {row \in Below(body, a) :
        ~(BareNamed(body, row) /\ <<owner, Field(body, row, "name").repo[2]>> \in allowed)}

\* singleNamedRepoArrayField: the lists of an object that have names for rows.
NamedLists(body) ==
    {a \in Below(body, << >>) :
        /\ IsObject(body, << >>) /\ IsArray(body, a) /\ Below(body, a) # {}
        /\ \A row \in Below(body, a) : Field(body, row, "name").kind = "str"}

\* RedactOrgNamedRepos: of the list, or of the one list of an object that has
\* names for rows.
OrgLists(body) == IF IsArray(body, << >>) THEN {<< >>} ELSE NamedLists(body)
RedactOrgNamedRepos(body, owner, allowed) ==
    LET lists == OrgLists(body) IN
    IF body = Empty THEN body
    ELSE IF body = Garbled \/ owner = NoOwner \/ Cardinality(lists) # 1 THEN Refused
    ELSE Edit(body, UNION {filterNamedRepoArray(body, a, owner, allowed) : a \in lists}, NoPut)

\* isBareNameRepoArray
isBareNameRepoArray(body, a) ==
    /\ IsArray(body, a) /\ Below(body, a) # {}
    /\ \A row \in Below(body, a) : BareNamed(body, row) /\ ~HasField(body, row, "full_name")

\* RedactNestedBareNameRepos: every field "repositories", however deep, whose
\* rows are all bare names.
NestedLists(body) == {a \in Fields(body, "repositories") : isBareNameRepoArray(body, a)}
RedactNestedBareNameRepos(body, owner, allowed) ==
    LET lists == NestedLists(body) IN
    IF body = Empty THEN body
    ELSE IF body = Garbled \/ owner = NoOwner THEN Refused
    ELSE Edit(body, UNION {filterNamedRepoArray(body, a, owner, allowed) : a \in lists}, NoPut)

\* RedactRepoKeyedMap that keeps the keys, like the scans that read values only.
KeepKeys(body, owner, allowed) == IF body = Garbled THEN Refused ELSE body

\* RedactRepoKeyedMap: the keys that are allowed, full or the owner's.
RedactRepoKeyedMap(body, owner, allowed) ==
    IF body = Empty THEN body
    ELSE IF owner = NoOwner \/ body[<< >>].kind # "keyed" THEN Refused
    ELSE Leaf(Keyed({w \in body[<< >>].names : Qualified(w, owner) \subseteq allowed}))

(* ------------------------------------------------------------------------- *)
(* npm packuments                                                            *)
(* ------------------------------------------------------------------------- *)

\* repoOf of ScrubPackument: of a URL, or of an object's url.
backingRepo(body, p) ==
    NamedBy(body[p], {"web", "scp"}) \cup NamedBy(Field(body, p, "url"), {"web", "scp"})

\* The fields that lead to a repository that is denied.
DeniedFields(body, names, allowed) ==
    {p \in UNION {Fields(body, k) : k \in names} : ~(backingRepo(body, p) \subseteq allowed)}

\* ScrubPackument that leaves the links alone.
ScrubPackumentNames(body, allowed) ==
    IF body \in {Garbled, Empty} THEN Refused
    ELSE Edit(body, {}, Put(DeniedFields(body, {"repository", "bugs"}, allowed), Null))

\* rewriteRegistryURL, of every link: to the registry, they lead to the proxy.
Rewritten(body) == Put({p \in DOMAIN body : body[p].kind = "link"}, Link("proxy"))

\* ScrubPackument: the backing repository goes where it is denied; an empty body
\* does not parse either.
ScrubPackument(body, allowed) ==
    IF body \in {Garbled, Empty} THEN Refused
    ELSE LET nulls == Put(DeniedFields(body, {"repository", "bugs"}, allowed), Null)
             texts == Put(DeniedFields(body, {"homepage"}, allowed), Text)
         IN  Edit(body, {}, Over(nulls, Over(texts, Rewritten(body))))

==============================================================================
