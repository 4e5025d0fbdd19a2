--------------------------- MODULE TokenStoreProofs ---------------------------
(* Proofs about TokenStore, for any number of tokens, names and edits: what   *)
(* the handlers answered holds through failed writes and restarts, and the    *)
(* store implements TokenRegistry.                                            *)
EXTENDS TokenStore, TLAPS

(* ------------------------------------------------------------------------- *)
(* The inductive invariant                                                   *)
(* ------------------------------------------------------------------------- *)

\* Nobody was told anything of a token that was never created.
NothingToldOfUncreated ==
    \A t \in Token : name[t] = NoName => answered[t] = "nothing" /\ told[t] = "unasked"

\* What lives in memory was written.  (The reverse fails: a revocation that was
\* not written leaves a live entry on disk.)
LiveIsWritten == \A t \in Token : mem[t] = "live" => disk[t] = "live"

\* The token of an edit in flight stands like one that was handed out.
EditedTokenSurvives ==
    \A e \in Editor : edit[e].pc = "replace" =>
        /\ edit[e].t \in Token /\ edit[e].key \in Key
        /\ told[edit[e].t] = "unasked" => mem[edit[e].t] = "live" /\ disk[edit[e].t] = "live"

IInv ==
    /\ TypeOK
    /\ NothingToldOfUncreated
    /\ LiveIsWritten
    /\ EditedTokenSurvives
    /\ ReportedRevocationIsFinal
    /\ IssuedTokenSurvives
    /\ FailedCreateLeavesNothing

\* The initial states satisfy the invariant.
LEMMA InitIInv == Init => IInv
<1> SUFFICES ASSUME Init PROVE IInv
    OBVIOUS
<1> USE DEF Init
<1>1. TypeOK
    BY DEF TypeOK, Entry, Reply, EditRec, IdleEdit
<1>2. NothingToldOfUncreated /\ LiveIsWritten
    BY DEF NothingToldOfUncreated, LiveIsWritten
<1>3. EditedTokenSurvives
    BY DEF EditedTokenSurvives, IdleEdit
<1>4. ReportedRevocationIsFinal /\ IssuedTokenSurvives /\ FailedCreateLeavesNothing
    BY DEF ReportedRevocationIsFinal, IssuedTokenSurvives, FailedCreateLeavesNothing
<1> QED BY <1>1, <1>2, <1>3, <1>4 DEF IInv

(* ------------------------------------------------------------------------- *)
(* What the store's operations do                                            *)
(* ------------------------------------------------------------------------- *)

\* Create touches nothing but its token, and writes what it leaves alive.
LEMMA CreateEffect ==
    ASSUME IInv, NEW t \in Token, NEW n \in Name, NEW ok \in BOOLEAN, Create(t, n, ok)
    PROVE  /\ name[t] = NoName
           /\ name' = [name EXCEPT ![t] = n]
           /\ mem' = IF ok THEN [mem EXCEPT ![t] = "live"] ELSE mem
           /\ disk' = IF ok THEN mem' ELSE disk
           /\ mem' \in [Token -> Entry] /\ disk' \in [Token -> Entry]
           /\ name' \in [Token -> Name \cup {NoName}]
           /\ \A u \in Token \ {t} : mem'[u] = mem[u] /\ name'[u] = name[u]
           /\ mem'[t] = IF ok THEN "live" ELSE "absent"
           /\ disk'[t] = IF ok THEN "live" ELSE "absent"
           /\ name'[t] # NoName
BY StoreSentinels DEF Create, Flush, IInv, TypeOK, Entry

\* Revoke and Delete: every token that the key names is dead in memory, the
\* others are as before; the file is as before or written whole; who is told
\* that it is done is told so of a file that was written.
LEMMA WithdrawalEffect ==
    ASSUME IInv, NEW k \in Key, NEW ok \in BOOLEAN, Revoke(k, ok) \/ Delete(k, ok)
    PROVE  /\ mem' \in [Token -> Entry] /\ disk' \in [Token -> Entry]
           /\ told' \in [Token -> Reply]
           /\ \A t \in Named(k) : mem'[t] # "live" /\ told'[t] # "unasked"
           /\ \A t \in Token \ Named(k) : mem'[t] = mem[t] /\ told'[t] = told[t]
           /\ \A t \in Token : mem[t] = "absent" => mem'[t] = "absent"
           /\ \A t \in Token : told[t] = "done" => told'[t] = "done"
           /\ disk' = mem' \/ disk' = disk
           /\ disk' = mem' \/ \A t \in Token : told'[t] = "done" => told[t] = "done"
           /\ \/ \A t \in Named(k) : told'[t] = "done"
              \/ \A t \in Token : told'[t] = "done" => told[t] = "done"
<1> DEFINE T == Matched(k)
<1>t. told \in [Token -> Reply] /\ mem \in [Token -> Entry] /\ disk \in [Token -> Entry]
    BY DEF IInv, TypeOK
<1>n. Named(k) \subseteq Token /\ T \subseteq Named(k) /\ T = {t \in Named(k) : mem[t] # "absent"}
    BY DEF Named, Matched
<1>m. PICK gone \in {"revoked", "absent"} :
          /\ mem' = [t \in Token |-> IF t \in T THEN gone ELSE mem[t]]
          /\ IF T = {} THEN disk' = disk /\ Tell(Named(k), "missing")
             ELSE Flush(mem', ok) /\ Tell(Named(k), IF ok THEN "done" ELSE "failed")
    BY DEF Revoke, Delete
<1>1. mem' \in [Token -> Entry]
    BY <1>t, <1>m DEF Entry
<1>2. PICK reply \in Reply \ {"unasked"} :
          /\ Tell(Named(k), reply)
          /\ disk' = mem' \/ disk' = disk
          /\ reply = "done" => disk' = mem'
    <2>1. CASE T = {}
        BY <1>m, <2>1 DEF Reply
    <2>2. CASE T # {}
        BY <1>m, <2>2 DEF Reply, Flush
    <2> QED BY <2>1, <2>2
<1>3. \A t \in Named(k) : mem'[t] # "live"
    BY <1>m, <1>n, <1>t DEF Entry
<1>4. \A t \in Token \ Named(k) : mem'[t] = mem[t]
    BY <1>m, <1>n
<1>5. \A t \in Token : mem[t] = "absent" => mem'[t] = "absent"
    BY <1>m, <1>n
<1>6. told' = [t \in Token |->
          IF t \in Named(k) /\ ~(told[t] = "done") /\ ~(told[t] = "missing" /\ reply = "failed")
          THEN reply ELSE told[t]]
    BY <1>2 DEF Tell
<1>7. told' \in [Token -> Reply]
    BY <1>6, <1>t, <1>2
<1>8. /\ \A t \in Named(k) : told'[t] # "unasked"
      /\ \A t \in Token \ Named(k) : told'[t] = told[t]
      /\ \A t \in Token : told[t] = "done" => told'[t] = "done"
    BY <1>6, <1>n, <1>2 DEF Reply
<1>9. reply # "done" => \A t \in Token : told'[t] = "done" => told[t] = "done"
    BY <1>6
<1>10. reply = "done" => \A t \in Named(k) : told'[t] = "done"
    BY <1>6, <1>n
<1>11. disk' \in [Token -> Entry]
    BY <1>1, <1>2, <1>t
<1> QED BY <1>1, <1>2, <1>3, <1>4, <1>5, <1>7, <1>8, <1>9, <1>10, <1>11

\* What a withdrawal leaves of the invariant, whoever asked for it.
LEMMA WithdrawalKeeps ==
    ASSUME IInv, NEW k \in Key, NEW ok \in BOOLEAN, Revoke(k, ok) \/ Delete(k, ok)
    PROVE  /\ LiveIsWritten'
           /\ ReportedRevocationIsFinal'
           /\ \A t \in Token : mem[t] = "absent" /\ disk[t] = "absent" =>
                  mem'[t] = "absent" /\ disk'[t] = "absent"
           /\ \A t \in Token : told'[t] = "unasked" =>
                  /\ told[t] = "unasked"
                  /\ mem[t] = "live" /\ disk[t] = "live" => mem'[t] = "live" /\ disk'[t] = "live"
           /\ \A t \in Token : name[t] = NoName => told'[t] = told[t]
<1>e. /\ \A t \in Named(k) : mem'[t] # "live" /\ told'[t] # "unasked"
      /\ \A t \in Token \ Named(k) : mem'[t] = mem[t] /\ told'[t] = told[t]
      /\ \A t \in Token : mem[t] = "absent" => mem'[t] = "absent"
      /\ disk' = mem' \/ disk' = disk
      /\ disk' = mem' \/ \A t \in Token : told'[t] = "done" => told[t] = "done"
    BY WithdrawalEffect
<1>i. LiveIsWritten /\ ReportedRevocationIsFinal
    BY DEF IInv
<1>1. LiveIsWritten'
    BY <1>e, <1>i DEF LiveIsWritten
<1>2. ReportedRevocationIsFinal'
    <2> SUFFICES ASSUME NEW t \in Token, told'[t] = "done"
                 PROVE  mem'[t] # "live" /\ disk'[t] # "live"
        BY DEF ReportedRevocationIsFinal
    <2>1. mem'[t] # "live"
        BY <1>e, <1>i DEF ReportedRevocationIsFinal
    <2>2. CASE disk' = mem'
        BY <2>1, <2>2
    <2>3. CASE disk' = disk /\ told[t] = "done"
        BY <2>1, <2>3, <1>i DEF ReportedRevocationIsFinal
    <2> QED BY <2>2, <2>3, <1>e
<1>3. \A t \in Token : name[t] = NoName => t \notin Named(k)
    BY DEF Named
<1> QED BY <1>e, <1>1, <1>2, <1>3

(* ------------------------------------------------------------------------- *)
(* The steps preserve the invariant                                          *)
(* ------------------------------------------------------------------------- *)

\* createToken, and the other callers of Create.
LEMMA CreateTokenKeeps ==
    ASSUME IInv, NEW t \in Token, NEW n \in Name, CreateToken(t, n)
    PROVE  IInv'
<1>1. PICK ok \in BOOLEAN : Create(t, n, ok)
          /\ answered' \in {[answered EXCEPT ![t] = a] :
                 a \in IF ok THEN {"secret", "nothing"} ELSE {"error"}}
    BY DEF CreateToken
<1>a. PICK a \in IF ok THEN {"secret", "nothing"} ELSE {"error"} :
          answered' = [answered EXCEPT ![t] = a]
    BY <1>1
<1>u. told' = told /\ touching' = touching /\ edit' = edit
    BY DEF CreateToken
<1>e. /\ name[t] = NoName
      /\ name' = [name EXCEPT ![t] = n]
      /\ disk' = IF ok THEN mem' ELSE disk
      /\ mem' \in [Token -> Entry] /\ disk' \in [Token -> Entry]
      /\ name' \in [Token -> Name \cup {NoName}]
      /\ \A u \in Token \ {t} : mem'[u] = mem[u] /\ name'[u] = name[u]
      /\ mem'[t] = IF ok THEN "live" ELSE "absent"
      /\ disk'[t] = IF ok THEN "live" ELSE "absent"
      /\ name'[t] # NoName
    BY <1>1, CreateEffect
<1>v. answered' \in [Token -> {"nothing", "secret", "error"}]
      /\ \A u \in Token \ {t} : answered'[u] = answered[u]
      /\ answered'[t] = a
    BY <1>a DEF IInv, TypeOK
<1>o. told[t] = "unasked"
    BY <1>e DEF IInv, NothingToldOfUncreated
<1>1a. TypeOK'
    BY <1>e, <1>u, <1>v DEF IInv, TypeOK
<1>2. NothingToldOfUncreated'
    BY <1>e, <1>u, <1>v DEF IInv, NothingToldOfUncreated
<1>3. LiveIsWritten'
    BY <1>e DEF IInv, LiveIsWritten
<1>4. EditedTokenSurvives'
    BY <1>e, <1>u, <1>o DEF IInv, EditedTokenSurvives, TypeOK
<1>5. ReportedRevocationIsFinal'
    BY <1>e, <1>u, <1>o DEF IInv, ReportedRevocationIsFinal
<1>6. IssuedTokenSurvives'
    BY <1>a, <1>e, <1>u, <1>v DEF IInv, IssuedTokenSurvives
<1>7. FailedCreateLeavesNothing'
    BY <1>e, <1>v, <1>a DEF IInv, FailedCreateLeavesNothing
<1> QED BY <1>1a, <1>2, <1>3, <1>4, <1>5, <1>6, <1>7 DEF IInv

\* The first half of a console edit.
LEMMA EditCreatesKeeps ==
    ASSUME IInv, NEW e \in Editor, NEW t \in Token, NEW n \in Name, NEW k \in Key,
           EditCreates(e, t, n, k)
    PROVE  IInv'
<1>1. PICK ok \in BOOLEAN : Create(t, n, ok)
          /\ IF ok THEN /\ edit' = [edit EXCEPT ![e] = [pc |-> "replace", t |-> t, key |-> k]]
                        /\ answered' = answered
                   ELSE /\ edit' = edit
                        /\ answered' = [answered EXCEPT ![t] = "error"]
    BY DEF EditCreates
<1>u. told' = told /\ touching' = touching
    BY DEF EditCreates
<1>e. /\ name[t] = NoName
      /\ disk' = IF ok THEN mem' ELSE disk
      /\ mem' \in [Token -> Entry] /\ disk' \in [Token -> Entry]
      /\ name' \in [Token -> Name \cup {NoName}]
      /\ \A u \in Token \ {t} : mem'[u] = mem[u] /\ name'[u] = name[u]
      /\ mem'[t] = IF ok THEN "live" ELSE "absent"
      /\ disk'[t] = IF ok THEN "live" ELSE "absent"
      /\ name'[t] # NoName
    BY <1>1, CreateEffect
<1>o. told[t] = "unasked" /\ answered[t] = "nothing"
    BY <1>e DEF IInv, NothingToldOfUncreated
<1>v. /\ answered' \in [Token -> {"nothing", "secret", "error"}]
      /\ \A u \in Token \ {t} : answered'[u] = answered[u]
      /\ answered'[t] = IF ok THEN "nothing" ELSE "error"
    BY <1>1, <1>o DEF IInv, TypeOK
<1>w. edit' \in [Editor -> EditRec]
    BY <1>1 DEF IInv, TypeOK, EditRec
<1>2. TypeOK'
    BY <1>e, <1>u, <1>v, <1>w DEF IInv, TypeOK
<1>3. NothingToldOfUncreated'
    BY <1>e, <1>u, <1>v DEF IInv, NothingToldOfUncreated
<1>4. LiveIsWritten'
    BY <1>e DEF IInv, LiveIsWritten
<1>5. EditedTokenSurvives'
    <2> SUFFICES ASSUME NEW d \in Editor, edit'[d].pc = "replace"
                 PROVE  /\ edit'[d].t \in Token /\ edit'[d].key \in Key
                        /\ told'[edit'[d].t] = "unasked" =>
                               mem'[edit'[d].t] = "live" /\ disk'[edit'[d].t] = "live"
        BY DEF EditedTokenSurvives
    <2>1. CASE ok /\ d = e
        BY <2>1, <1>1, <1>e DEF IInv, TypeOK
    <2>2. CASE ~ok \/ d # e
        <3>1. edit'[d] = edit[d]
            BY <2>2, <1>1 DEF IInv, TypeOK
        <3> QED BY <3>1, <1>e, <1>u DEF IInv, EditedTokenSurvives, TypeOK
    <2> QED BY <2>1, <2>2
<1>6. ReportedRevocationIsFinal'
    BY <1>e, <1>u, <1>o DEF IInv, ReportedRevocationIsFinal
<1>7. IssuedTokenSurvives'
    BY <1>e, <1>u, <1>v DEF IInv, IssuedTokenSurvives
<1>8. FailedCreateLeavesNothing'
    BY <1>e, <1>v DEF IInv, FailedCreateLeavesNothing
<1> QED BY <1>2, <1>3, <1>4, <1>5, <1>6, <1>7, <1>8 DEF IInv

\* The shapes after a withdrawal.
LEMMA WithdrawalTypes ==
    ASSUME IInv, NEW k \in Key, NEW ok \in BOOLEAN, Revoke(k, ok) \/ Delete(k, ok),
           name' = name, touching' = touching,
           answered' \in [Token -> {"nothing", "secret", "error"}],
           edit' \in [Editor -> EditRec]
    PROVE  TypeOK'
<1>1. mem' \in [Token -> Entry] /\ disk' \in [Token -> Entry] /\ told' \in [Token -> Reply]
    BY WithdrawalEffect
<1>2. \A t \in Token : mem[t] = "absent" /\ disk[t] = "absent" =>
          mem'[t] = "absent" /\ disk'[t] = "absent"
    BY WithdrawalKeeps
<1> QED BY <1>1, <1>2 DEF IInv, TypeOK

\* revokeToken, apiRevokeToken and revokeToken with ?hard=true.
LEMMA WithdrawTokenKeeps ==
    ASSUME IInv, NEW k \in Key, RevokeToken(k) \/ DeleteToken(k)
    PROVE  IInv'
<1>1. PICK ok \in BOOLEAN : Revoke(k, ok) \/ Delete(k, ok)
    BY DEF RevokeToken, DeleteToken
<1>u. name' = name /\ answered' = answered /\ touching' = touching /\ edit' = edit
    BY DEF RevokeToken, DeleteToken
<1>k. /\ LiveIsWritten' /\ ReportedRevocationIsFinal'
      /\ \A t \in Token : mem[t] = "absent" /\ disk[t] = "absent" =>
             mem'[t] = "absent" /\ disk'[t] = "absent"
      /\ \A t \in Token : told'[t] = "unasked" =>
             /\ told[t] = "unasked"
             /\ mem[t] = "live" /\ disk[t] = "live" => mem'[t] = "live" /\ disk'[t] = "live"
      /\ \A t \in Token : name[t] = NoName => told'[t] = told[t]
    BY <1>1, WithdrawalKeeps
<1>2. TypeOK'
    BY <1>1, <1>u, WithdrawalTypes DEF IInv, TypeOK
<1>3. NothingToldOfUncreated'
    BY <1>u, <1>k DEF IInv, NothingToldOfUncreated
<1>4. EditedTokenSurvives'
    BY <1>u, <1>k DEF IInv, EditedTokenSurvives
<1>5. IssuedTokenSurvives'
    BY <1>u, <1>k DEF IInv, IssuedTokenSurvives
<1>6. FailedCreateLeavesNothing'
    BY <1>u, <1>k DEF IInv, FailedCreateLeavesNothing
<1> QED BY <1>k, <1>2, <1>3, <1>4, <1>5, <1>6 DEF IInv

\* The second half of a console edit.
LEMMA EditRevokesKeeps ==
    ASSUME IInv, NEW e \in Editor, EditRevokes(e)
    PROVE  IInv'
<1> DEFINE s == edit[e].t
<1>0. edit[e].pc = "replace" /\ edit[e].key \in Key /\ s \in Token
    BY DEF EditRevokes, IInv, EditedTokenSurvives
<1>1. PICK ok \in BOOLEAN : Revoke(edit[e].key, ok)
    BY DEF EditRevokes
<1>a. answered' = answered \/ answered' = [answered EXCEPT ![s] = "secret"]
    BY DEF EditRevokes
<1>u. name' = name /\ touching' = touching /\ edit' = [edit EXCEPT ![e] = IdleEdit]
    BY DEF EditRevokes
<1>v. /\ answered' \in [Token -> {"nothing", "secret", "error"}]
      /\ \A u \in Token \ {s} : answered'[u] = answered[u]
      /\ answered'[s] \in {answered[s], "secret"}
    BY <1>0, <1>a DEF IInv, TypeOK
<1>w. /\ edit' \in [Editor -> EditRec]
      /\ \A d \in Editor \ {e} : edit'[d] = edit[d]
      /\ edit'[e] = IdleEdit
    BY <1>u DEF IInv, TypeOK, EditRec, IdleEdit
<1>k. /\ LiveIsWritten' /\ ReportedRevocationIsFinal'
      /\ \A t \in Token : mem[t] = "absent" /\ disk[t] = "absent" =>
             mem'[t] = "absent" /\ disk'[t] = "absent"
      /\ \A t \in Token : told'[t] = "unasked" =>
             /\ told[t] = "unasked"
             /\ mem[t] = "live" /\ disk[t] = "live" => mem'[t] = "live" /\ disk'[t] = "live"
      /\ \A t \in Token : name[t] = NoName => told'[t] = told[t]
    BY <1>0, <1>1, WithdrawalKeeps
<1>s. told[s] = "unasked" => mem[s] = "live" /\ disk[s] = "live"
    BY <1>0 DEF IInv, EditedTokenSurvives
<1>n. name[s] # NoName
    BY <1>s, <1>0 DEF IInv, TypeOK, NothingToldOfUncreated
<1>2. TypeOK'
    BY <1>0, <1>1, <1>u, <1>v, <1>w, WithdrawalTypes
<1>3. NothingToldOfUncreated'
    BY <1>u, <1>k, <1>v, <1>n DEF IInv, NothingToldOfUncreated
<1>4. EditedTokenSurvives'
    <2>1. ASSUME NEW d \in Editor, edit'[d].pc = "replace"
          PROVE  d # e /\ edit'[d] = edit[d]
        BY <2>1, <1>w DEF IdleEdit
    <2> QED BY <2>1, <1>k DEF IInv, EditedTokenSurvives
<1>5. IssuedTokenSurvives'
    BY <1>k, <1>v, <1>s DEF IInv, IssuedTokenSurvives
<1>6. FailedCreateLeavesNothing'
    BY <1>k, <1>v DEF IInv, FailedCreateLeavesNothing
<1> QED BY <1>k, <1>2, <1>3, <1>4, <1>5, <1>6 DEF IInv

\* Lookup, TouchLastUsed and restarts, none of which kills or creates anything.
LEMMA OtherStepsKeep ==
    ASSUME IInv, (\E t \in Token : Lookup(t) \/ TouchLastUsed(t)) \/ Restart
    PROVE  IInv'
<1>u. name' = name /\ answered' = answered /\ told' = told
    BY DEF Lookup, TouchLastUsed, Restart
<1>d. \/ mem' = mem /\ disk' \in {mem, disk} /\ edit' = edit
      \/ mem' = disk /\ disk' = disk /\ edit' = [e \in Editor |-> IdleEdit]
    <2>1. CASE \E t \in Token : Lookup(t)
        BY <2>1 DEF Lookup
    <2>2. CASE \E t \in Token : TouchLastUsed(t)
        BY <2>2 DEF TouchLastUsed, Flush
    <2>3. CASE Restart
        BY <2>3 DEF Restart
    <2> QED BY <2>1, <2>2, <2>3
<1>t. touching' \subseteq Token
      /\ \A t \in touching' : t \in touching \/ mem[t] = "live"
    BY DEF Lookup, TouchLastUsed, Restart, IInv, TypeOK
<1>1. TypeOK'
    BY <1>u, <1>d, <1>t DEF IInv, TypeOK, IdleEdit, EditRec
<1>2. NothingToldOfUncreated'
    BY <1>u DEF IInv, NothingToldOfUncreated
<1>3. LiveIsWritten'
    BY <1>d DEF IInv, LiveIsWritten
<1>4. EditedTokenSurvives'
    BY <1>u, <1>d DEF IInv, EditedTokenSurvives, IdleEdit
<1>5. ReportedRevocationIsFinal'
    BY <1>u, <1>d DEF IInv, ReportedRevocationIsFinal
<1>6. IssuedTokenSurvives'
    BY <1>u, <1>d DEF IInv, IssuedTokenSurvives
<1>7. FailedCreateLeavesNothing'
    BY <1>u, <1>d DEF IInv, FailedCreateLeavesNothing
<1> QED BY <1>1, <1>2, <1>3, <1>4, <1>5, <1>6, <1>7 DEF IInv

\* Every step preserves the invariant.
LEMMA NextIInv == IInv /\ [Next]_vars => IInv'
<1> SUFFICES ASSUME IInv, [Next]_vars PROVE IInv'
    OBVIOUS
<1>1. CASE \E t \in Token, n \in Name : CreateToken(t, n)
    BY <1>1, CreateTokenKeeps
<1>2. CASE \E k \in Key : RevokeToken(k) \/ DeleteToken(k)
    BY <1>2, WithdrawTokenKeeps
<1>3. CASE \E e \in Editor, t \in Token, n \in Name, k \in Key : EditCreates(e, t, n, k)
    BY <1>3, EditCreatesKeeps
<1>4. CASE \E e \in Editor : EditRevokes(e)
    BY <1>4, EditRevokesKeeps
<1>5. CASE (\E t \in Token : Lookup(t) \/ TouchLastUsed(t)) \/ Restart
    BY <1>5, OtherStepsKeep
<1>6. CASE UNCHANGED vars
    BY <1>6 DEF vars, IInv, TypeOK, NothingToldOfUncreated, LiveIsWritten, EditedTokenSurvives,
                ReportedRevocationIsFinal, IssuedTokenSurvives, FailedCreateLeavesNothing
<1> QED BY <1>1, <1>2, <1>3, <1>4, <1>5, <1>6 DEF Next

\* The inductive invariant holds.
THEOREM IInvHolds == Spec => []IInv
BY InitIInv, NextIInv, PTL DEF Spec

\* Type correctness: the slice, the file and the pending touches only name
\* tokens that were created.
THEOREM TypeOKHolds == Spec => []TypeOK
<1>1. IInv => TypeOK
    BY DEF IInv
<1> QED BY <1>1, IInvHolds, PTL

\* Revoke's and Delete's promise: what was reported revoked stays revoked.
THEOREM ReportedRevocationHolds == Spec => []ReportedRevocationIsFinal
<1>1. IInv => ReportedRevocationIsFinal
    BY DEF IInv
<1> QED BY <1>1, IInvHolds, PTL

\* Create's promise: a token that was handed out is in memory and on disk.
THEOREM IssuedTokenHolds == Spec => []IssuedTokenSurvives
<1>1. IInv => IssuedTokenSurvives
    BY DEF IInv
<1> QED BY <1>1, IInvHolds, PTL

\* Create's rollback: a creation that failed leaves nothing behind.
THEOREM FailedCreateHolds == Spec => []FailedCreateLeavesNothing
<1>1. IInv => FailedCreateLeavesNothing
    BY DEF IInv
<1> QED BY <1>1, IInvHolds, PTL

(* ------------------------------------------------------------------------- *)
(* The store implements the registry                                         *)
(* ------------------------------------------------------------------------- *)

\* The standing of a token, and the tokens reported dead, as the refinement has
\* them.
Standing(t) == IF name[t] = NoName THEN "unborn" ELSE IF mem[t] = "live" THEN "live" ELSE "dead"
Standings == [t \in Token |-> Standing(t)]
Sealed == {t \in Token : told[t] = "done"}

\* An initial state is an initial state of the registry.
LEMMA InitRefines == Init => Registry!Init
BY DEF Init, Registry!Init

\* A creation issues a token or voids it.
LEMMA CreateRefines ==
    ASSUME IInv, NEW t \in Token, NEW n \in Name, NEW ok \in BOOLEAN, Create(t, n, ok),
           told' = told
    PROVE  Registry!Next
<1>e. /\ name[t] = NoName /\ name'[t] # NoName
      /\ \A u \in Token \ {t} : mem'[u] = mem[u] /\ name'[u] = name[u]
      /\ mem'[t] = IF ok THEN "live" ELSE "absent"
    BY CreateEffect
<1>1. Standings' = [Standings EXCEPT ![t] = IF ok THEN "live" ELSE "dead"]
    BY <1>e DEF Standings, Standing
<1>2. Standings[t] = "unborn"
    BY <1>e DEF Standings, Standing
<1>3. Sealed' = Sealed
    BY DEF Sealed
<1>4. Registry!Issue(t) \/ Registry!Void(t)
    BY <1>1, <1>2, <1>3 DEF Standings, Standing, Sealed, Registry!Issue, Registry!Void
<1> QED BY <1>4 DEF Registry!Next

\* A withdrawal kills what the key names, and reports all of it or nothing.
LEMMA WithdrawalRefines ==
    ASSUME IInv, NEW k \in Key, NEW ok \in BOOLEAN, Revoke(k, ok) \/ Delete(k, ok),
           name' = name
    PROVE  Registry!Next
<1> DEFINE T == {t \in Named(k) : mem[t] = "live"}
           S == Sealed' \ Sealed
<1>e. /\ told' \in [Token -> Reply]
      /\ \A t \in Named(k) : mem'[t] # "live"
      /\ \A t \in Token \ Named(k) : mem'[t] = mem[t] /\ told'[t] = told[t]
      /\ \A t \in Token : told[t] = "done" => told'[t] = "done"
    BY WithdrawalEffect
<1>n. Named(k) = {t \in Token : name[t] # NoName /\ (t = k \/ name[t] = k)}
    BY DEF Named
<1>1. \A t \in T : t \in Token /\ Standings[t] = "live"
    BY <1>n DEF Standings, Standing
<1>2. Standings' = [t \in Token |-> IF t \in T THEN "dead" ELSE Standings[t]]
    BY <1>e, <1>n DEF Standings, Standing
<1>3. \A t \in S : Standings'[t] = "dead"
    BY <1>e, <1>n DEF Standings, Standing, Sealed
<1>4. Sealed' = Sealed \cup S /\ T \in SUBSET Token /\ S \in SUBSET Token
    BY <1>e, <1>n DEF Sealed
<1>5. PICK U \in SUBSET Token, V \in SUBSET Token : U = T /\ V = S
    BY <1>4
<1>6. Registry!Withdraw(U, V)
    BY <1>1, <1>2, <1>3, <1>4, <1>5 DEF Standings, Standing, Sealed, Registry!Withdraw
<1> QED BY <1>6 DEF Registry!Next

\* A restart undoes the withdrawals that were not written, and nobody was told
\* of those.
LEMMA RestartRefines ==
    ASSUME IInv, Restart
    PROVE  Registry!Next
<1> DEFINE T == {t \in Token : mem[t] # "live" /\ disk[t] = "live"}
<1>i. /\ \A t \in Token : mem[t] = "live" => disk[t] = "live"
      /\ \A t \in T : told[t] # "done" /\ name[t] # NoName
    BY DEF IInv, LiveIsWritten, ReportedRevocationIsFinal, TypeOK
<1>u. mem' = disk /\ name' = name /\ told' = told
    BY DEF Restart
<1>1. Standings' = [t \in Token |-> IF t \in T THEN "live" ELSE Standings[t]]
    BY <1>i, <1>u DEF Standings, Standing
<1>2. \A t \in T : Standings[t] = "dead" /\ t \notin Sealed
    BY <1>i DEF Standings, Standing, Sealed
<1>3. Sealed' = Sealed /\ T \in SUBSET Token
    BY <1>u DEF Sealed
<1>4. PICK U \in SUBSET Token : U = T
    BY <1>3
<1>5. Registry!Undo(U)
    BY <1>1, <1>2, <1>3, <1>4 DEF Standings, Standing, Sealed, Registry!Undo
<1> QED BY <1>5 DEF Registry!Next

\* Every step is a step of the registry or leaves it alone.
LEMMA NextRefines == IInv /\ [Next]_vars => [Registry!Next]_(Registry!vars)
<1> SUFFICES ASSUME IInv, [Next]_vars PROVE [Registry!Next]_(Registry!vars)
    OBVIOUS
<1>1. ASSUME NEW t \in Token, NEW n \in Name, CreateToken(t, n) PROVE Registry!Next
    BY <1>1, CreateRefines DEF CreateToken
<1>2. ASSUME NEW k \in Key, RevokeToken(k) \/ DeleteToken(k) PROVE Registry!Next
    BY <1>2, WithdrawalRefines DEF RevokeToken, DeleteToken
<1>3. ASSUME NEW e \in Editor, NEW t \in Token, NEW n \in Name, NEW k \in Key,
             EditCreates(e, t, n, k)
      PROVE  Registry!Next
    BY <1>3, CreateRefines DEF EditCreates
<1>4. ASSUME NEW e \in Editor, EditRevokes(e) PROVE Registry!Next
    <2>1. edit[e].key \in Key
        BY <1>4 DEF EditRevokes, IInv, EditedTokenSurvives
    <2> QED BY <2>1, <1>4, WithdrawalRefines DEF EditRevokes
<1>5. ASSUME UNCHANGED <<mem, name, told>> PROVE UNCHANGED Registry!vars
    BY <1>5 DEF Registry!vars
<1>6. ASSUME NEW t \in Token, Lookup(t) \/ TouchLastUsed(t) PROVE UNCHANGED Registry!vars
    BY <1>5, <1>6 DEF Lookup, TouchLastUsed
<1>7. CASE UNCHANGED vars
    BY <1>5, <1>7 DEF vars
<1>8. CASE Restart
    BY <1>8, RestartRefines
<1> QED BY <1>1, <1>2, <1>3, <1>4, <1>6, <1>7, <1>8 DEF Next

\* Memory, file, handlers and restarts implement the registry: what was reported
\* withdrawn is sealed, and only a crash undoes what was not reported.
THEOREM ImplementsRegistryHolds == Spec => ImplementsRegistry
BY InitRefines, NextRefines, IInvHolds, PTL DEF Spec, ImplementsRegistry, Registry!Spec

==============================================================================
