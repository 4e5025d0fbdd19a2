----------------------------- MODULE TokenStore ------------------------------
(* The proxy-token store (internal/store) with the handlers that use it: the  *)
(* admin API and CLI, the console's create, edit and revoke, and the proxy's  *)
(* lookup with the TouchLastUsed goroutine it leaves behind.                  *)
(*                                                                            *)
(* The store is a slice in memory that every change writes out whole.  A      *)
(* write may fail, which leaves the file as it was but not always the slice;  *)
(* the next write that succeeds persists whatever the slice holds by then; a  *)
(* restart reads the file.  Each operation holds Store.mu throughout and is   *)
(* one action; the console's edit calls two and is a request with a counter.  *)
EXTENDS Naturals, FiniteSets

CONSTANTS
    Token,    \* token ids, never issued twice
    Name,     \* token names, which tokens may share
    Editor,   \* slots for console edits in flight
    NoName, NoToken, NoKey

ASSUME StoreSentinels ==
    /\ NoName \notin Name
    /\ NoToken \notin Token
    /\ NoKey \notin Token \cup Name

VARIABLES
    mem,       \* Store.tokens, by token
    disk,      \* tokens.json, by token
    name,      \* the name each token was created with
    answered,  \* what the creator of each token was answered
    told,      \* what those who asked to revoke or delete it were answered
    touching,  \* the tokens with a TouchLastUsed goroutine to run
    edit       \* the console edits in flight

vars == <<mem, disk, name, answered, told, touching, edit>>

\* absent: not in the slice.
Entry == {"absent", "live", "revoked"}

\* unasked < failed (a 500) < missing (a 404) < done (a 200): the reply that
\* promises most is kept.
Reply == {"unasked", "failed", "missing", "done"}

Key == Token \cup Name    \* idOrName

EditRec == [pc: {"idle", "replace"}, t: Token \cup {NoToken},
            key: Key \cup {NoKey}]

IdleEdit == [pc |-> "idle", t |-> NoToken, key |-> NoKey]

\* The types; the slice, the file and the pending touches only name tokens that
\* were created (Create).
TypeOK ==
    /\ mem \in [Token -> Entry]
    /\ disk \in [Token -> Entry]
    /\ name \in [Token -> Name \cup {NoName}]
    /\ answered \in [Token -> {"nothing", "secret", "error"}]
    /\ told \in [Token -> Reply]
    /\ touching \subseteq Token
    /\ edit \in [Editor -> EditRec]
    /\ \A t \in Token : name[t] = NoName =>
           mem[t] = "absent" /\ disk[t] = "absent" /\ t \notin touching

Init ==
    /\ mem = [t \in Token |-> "absent"]
    /\ disk = [t \in Token |-> "absent"]
    /\ name = [t \in Token |-> NoName]
    /\ answered = [t \in Token |-> "nothing"]
    /\ told = [t \in Token |-> "unasked"]
    /\ touching = {}
    /\ edit = [e \in Editor |-> IdleEdit]

(* ------------------------------------------------------------------------- *)
(* The store                                                                 *)
(* ------------------------------------------------------------------------- *)

\* flush that writes the file in place, so that an error truncates it.
FlushInPlace(m, ok) == disk' = IF ok THEN m ELSE [t \in Token |-> "absent"]

\* flush: the slice `m` replaces the file, or an error leaves the file alone.
Flush(m, ok) == disk' = IF ok THEN m ELSE disk

\* The tokens ever created that the key names by id or by name.
Named(k) == {t \in Token : name[t] # NoName /\ (t = k \/ name[t] = k)}

\* The entries of the slice that the key names.
Matched(k) == {t \in Named(k) : mem[t] # "absent"}

\* The replies after `reply` was sent for the tokens of T.
Tell(T, reply) ==
    told' = [t \in Token |->
        IF t \in T /\ ~(told[t] = "done")
             /\ ~(told[t] = "missing" /\ reply = "failed")
        THEN reply ELSE told[t]]

\* Create that keeps the appended entry although it could not be written.
CreateKept(t, n, ok) ==
    /\ name[t] = NoName
    /\ name' = [name EXCEPT ![t] = n]
    /\ mem' = [mem EXCEPT ![t] = "live"]
    /\ Flush(mem', ok)

\* Create: the entry is appended and written out, or taken off again.
Create(t, n, ok) ==
    /\ name[t] = NoName
    /\ name' = [name EXCEPT ![t] = n]
    /\ mem' = IF ok THEN [mem EXCEPT ![t] = "live"] ELSE mem
    /\ Flush(mem', ok)

\* Revoke that reports success whether or not the file was written.
RevokeSwallows(k, ok) ==
    LET T == Matched(k) IN
    /\ mem' = [t \in Token |-> IF t \in T THEN "revoked" ELSE mem[t]]
    /\ IF T = {}
       THEN disk' = disk /\ Tell(Named(k), "missing")
       ELSE Flush(mem', ok) /\ Tell(Named(k), "done")

\* Revoke marks every match and writes the slice out.  When that fails the
\* marks stay and the error is reported.
Revoke(k, ok) ==
    LET T == Matched(k) IN
    /\ mem' = [t \in Token |-> IF t \in T THEN "revoked" ELSE mem[t]]
    /\ IF T = {}
       THEN disk' = disk /\ Tell(Named(k), "missing")
       ELSE Flush(mem', ok) /\ Tell(Named(k), IF ok THEN "done" ELSE "failed")

\* Delete takes every match out of the slice, and otherwise is like Revoke.
Delete(k, ok) ==
    LET T == Matched(k) IN
    /\ mem' = [t \in Token |-> IF t \in T THEN "absent" ELSE mem[t]]
    /\ IF T = {}
       THEN disk' = disk /\ Tell(Named(k), "missing")
       ELSE Flush(mem', ok) /\ Tell(Named(k), IF ok THEN "done" ELSE "failed")

(* ------------------------------------------------------------------------- *)
(* The handlers                                                              *)
(* ------------------------------------------------------------------------- *)

\* createToken of the admin API, and every other caller that only creates.  The
\* reply with the secret may be lost.
CreateToken(t, n) ==
    /\ \E ok \in BOOLEAN :
          /\ Create(t, n, ok)
          /\ answered' \in {[answered EXCEPT ![t] = a] :
                 a \in IF ok THEN {"secret", "nothing"} ELSE {"error"}}
    /\ UNCHANGED <<told, touching, edit>>

\* revokeToken and apiRevokeToken.
RevokeToken(k) ==
    /\ \E ok \in BOOLEAN : Revoke(k, ok)
    /\ UNCHANGED <<name, answered, touching, edit>>

\* revokeToken with ?hard=true.
DeleteToken(k) ==
    /\ \E ok \in BOOLEAN : Delete(k, ok)
    /\ UNCHANGED <<name, answered, touching, edit>>

\* apiCreateToken with a replace_id: first the new token.
EditCreates(e, t, n, k) ==
    /\ edit[e].pc = "idle"
    /\ \E ok \in BOOLEAN :
          /\ Create(t, n, ok)
          /\ IF ok
             THEN /\ edit' = [edit EXCEPT ![e] =
                        [pc |-> "replace", t |-> t, key |-> k]]
                  /\ answered' = answered
             ELSE /\ edit' = edit
                  /\ answered' = [answered EXCEPT ![t] = "error"]
    /\ UNCHANGED <<told, touching>>

\* Then the old one is revoked, whether or not there is one.  Only a reply
\* without an error carries the new secret.
EditRevokes(e) ==
    /\ edit[e].pc = "replace"
    /\ \E ok \in BOOLEAN :
          /\ Revoke(edit[e].key, ok)
          /\ answered' = IF ok \/ Matched(edit[e].key) = {}
                         THEN [answered EXCEPT ![edit[e].t] = "secret"]
                         ELSE answered
    /\ edit' = [edit EXCEPT ![e] = IdleEdit]
    /\ UNCHANGED <<name, touching>>

\* ServeHTTP: Lookup finds a live entry and admits the request, whose
\* TouchLastUsed runs some time later.
Lookup(t) ==
    /\ mem[t] = "live"
    /\ touching' = touching \cup {t}
    /\ UNCHANGED <<mem, disk, name, answered, told, edit>>

\* TouchLastUsed that writes back the token as the request looked it up.
TouchLastUsedWritesBack(t) ==
    /\ t \in touching
    /\ touching' = touching \ {t}
    /\ mem' = IF mem[t] = "absent" THEN mem ELSE [mem EXCEPT ![t] = "live"]
    /\ \E ok \in BOOLEAN : Flush(mem', ok)
    /\ UNCHANGED <<name, answered, told, edit>>

\* TouchLastUsed: an entry still in the slice, revoked or not, is stamped and
\* the slice written out (an error is only logged), unless it was stamped less
\* than a minute ago: how long ago that was is left open.
TouchLastUsed(t) ==
    /\ t \in touching
    /\ touching' = touching \ {t}
    /\ \/ mem[t] # "absent" /\ \E ok \in BOOLEAN : Flush(mem, ok)
       \/ disk' = disk
    /\ UNCHANGED <<mem, name, answered, told, edit>>

\* The process stops, at any point, and Open reads the file.
Restart ==
    /\ mem' = disk
    /\ touching' = {}
    /\ edit' = [e \in Editor |-> IdleEdit]
    /\ UNCHANGED <<disk, name, answered, told>>

Next ==
    \/ \E t \in Token, n \in Name : CreateToken(t, n)
    \/ \E k \in Key : RevokeToken(k) \/ DeleteToken(k)
    \/ \E e \in Editor, t \in Token, n \in Name, k \in Key :
           EditCreates(e, t, n, k)
    \/ \E e \in Editor : EditRevokes(e)
    \/ \E t \in Token : Lookup(t) \/ TouchLastUsed(t)
    \/ Restart

Spec == Init /\ [][Next]_vars

(* ------------------------------------------------------------------------- *)
(* Properties                                                                *)
(* ------------------------------------------------------------------------- *)

\* Revoke's and Delete's promise (audit F6 and F8): once anyone was answered
\* that the tokens of a key are revoked or deleted, none of them opens the proxy
\* again, whatever later touches, failed writes and restarts do.
ReportedRevocationIsFinal ==
    \A t \in Token : told[t] = "done" => mem[t] # "live" /\ disk[t] # "live"

\* Create's promise: a token whose secret was handed out is in memory and on
\* disk until somebody asks for its revocation.
IssuedTokenSurvives ==
    \A t \in Token :
        answered[t] = "secret" /\ told[t] = "unasked"
            => mem[t] = "live" /\ disk[t] = "live"

\* Create's rollback: a creation that was answered with an error leaves no
\* token, neither now nor through a later write of the slice.
FailedCreateLeavesNothing ==
    \A t \in Token :
        answered[t] = "error" => mem[t] = "absent" /\ disk[t] = "absent"

\* store.go:168-170 "so a handler can surface a failed persist instead of falsely
\* reporting success": an answer that there is no such token is no less final
\* than one that it was deleted.
NotFoundIsFinal ==
    \A t \in Token : told[t] = "missing" => disk[t] # "live"

(* ------------------------------------------------------------------------- *)
(* The store implements the registry                                         *)
(* ------------------------------------------------------------------------- *)

Registry == INSTANCE TokenRegistry WITH
    standing <- [t \in Token |->
        IF name[t] = NoName THEN "unborn"
        ELSE IF mem[t] = "live" THEN "live" ELSE "dead"],
    sealed <- {t \in Token : told[t] = "done"}

\* Every behaviour of memory, file, handlers and restarts is one of the registry.
ImplementsRegistry == Registry!Spec

==============================================================================
