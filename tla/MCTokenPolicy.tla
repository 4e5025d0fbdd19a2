---------------------------- MODULE MCTokenPolicy ----------------------------
(* The instance of TokenPolicy that TLC checks: one organization with two     *)
(* repositories, small command lines that spell one of them in two ways, and  *)
(* in the console every policy of a few rules.                                *)
EXTENDS TokenPolicy, TLC

MCKey(r, c) == [res |-> r, casing |-> c]

\* Every map over the keys of K, and nil.
MCPerms(K) == MapOver(K) \cup {NilMap}

LowerRepo == CHOOSE n \in RepoName : n.casing = "lower"

MCRepoRule == [name : RepoName, access : Access,
               perms : MCPerms({MCKey(r, "lower") : r \in Known})]

\* An organization's keys are not validated: one resource, in every casing.
MCOrgRule == [name : {[owner |-> o, casing |-> "lower"] : o \in Owner},
              access : {AccessNone, AccessReadWrite},
              perms : MCPerms({MCKey("members", c) : c \in Casing})]

AtMost(n, S) == UNION {[1..k -> S] : k \in 0..n}

\* Policies with two repository rules and no organization rule; the second may
\* be for the first one's repository.
TwoRepoRules ==
    [mode : {"deny", "read"}, unscoped : {<< >>}, org : {<< >>},
     repo : {rules \in AtMost(2, MCRepoRule) :
                Len(rules) = 2 => rules[1].name = LowerRepo}]

\* Policies with a rule of either kind at most.
OneOfEach ==
    [mode : Mode, unscoped : MapOver(Category), org : AtMost(1, MCOrgRule),
     repo : {rules \in AtMost(1, MCRepoRule) :
                Len(rules) = 1 => rules[1].name = LowerRepo}]

MCAuthored == TwoRepoRules \cup OneOfEach

\* The flags: s1 in either casing, s2 in lower case, with a key that the server
\* refuses by its casing and one that it does not know of a repository.
MCRepos == {n \in RepoName : n.casing = "lower" \/ n.short = LowerRepo.short}
MCOrgs == {[owner |-> o, casing |-> "lower"] : o \in Owner}

MCFlags ==
    [org |-> [name : MCOrgs, access : {AccessNone, AccessReadWrite}],
     orgPerm |-> [name : MCOrgs, key : {MCKey("members", "lower")},
                  access : {AccessRead, AccessReadWrite}],
     repo |-> [name : MCRepos, access : {AccessNone, AccessReadWrite}],
     repoPerm |-> [name : MCRepos, access : {AccessRead, AccessReadWrite},
                   key : {MCKey("pulls", c) : c \in Casing} \cup
                         {MCKey("members", "lower")}]]

\* Command lines without --unscoped, or with every category open.
MCGiven ==
    {[mode |-> "deny", unscoped |-> << >>],
     [mode |-> "read", unscoped |-> [c \in Category |-> AccessReadWrite]]}

==============================================================================
