---------------------------- MODULE AuditLogProofs ----------------------------
(* Proofs about AuditLog, for any capacity of the channel and any number of   *)
(* entries and restarts: no entry is lost unseen, the file is in order, and   *)
(* no gap in it goes without its report.                                      *)
EXTENDS AuditLog, TLAPS

(* ------------------------------------------------------------------------- *)
(* The inductive invariant                                                   *)
(* ------------------------------------------------------------------------- *)

\* Entries move on in the order in which they were logged: from the channel to
\* the writer to the file.
InOrder ==
    /\ \A i, j \in DOMAIN ch : i < j => ch[i] < ch[j]
    /\ \A i \in DOMAIN ch : held < ch[i] /\ ch[i] <= logged
    /\ held <= logged

EntriesOf(f) == {f[i].n : i \in {j \in DOMAIN f : f[j].kind = "entry"}}

Ordered(f) ==
    \A i, j \in DOMAIN f :
        i < j /\ f[i].kind = "entry" /\ f[j].kind = "entry" => f[i].n < f[j].n

\* What is in the file was logged before what is not there yet.
FileIsBehind ==
    \A n \in EntriesOf(file) :
        /\ n <= logged
        /\ held # 0 => n < held
        /\ \A i \in DOMAIN ch : n < ch[i]

\* EveryEntryIsSomewhere, place by place.
Waiting == {held} \ {0}
Placed ==
    /\ InChannel \cup Waiting \cup Written \cup counting \cup turnedAway \cup uncounted
           = 1..logged
    /\ InChannel \cap Waiting = {} /\ InChannel \cap Written = {} /\ Waiting \cap Written = {}
    /\ counting \cap (InChannel \cup Waiting \cup Written) = {}
    /\ turnedAway \cap (InChannel \cup Waiting \cup Written \cup counting) = {}
    /\ uncounted \cap (InChannel \cup Waiting \cup Written \cup counting \cup turnedAway) = {}

\* Nothing in the file is of a run to come, and no entry counts drops to come.
InThePast ==
    /\ \A i \in DOMAIN file : file[i].run <= run
    /\ \A i \in DOMAIN ch : before[ch[i]] <= dropped
    /\ held # 0 => before[held] <= dropped

\* The last report of this run was written unless it is the one that failed.
Told(f) ==
    lastReported > muted =>
        \E i \in DOMAIN f : f[i].kind = "report" /\ f[i].run = run /\ f[i].n = lastReported

\* NoSilentGap of a file.
NoGapIn(f) ==
    \A j \in DOMAIN f :
        f[j].kind = "entry" /\ f[j].run = run /\ before[f[j].n] > muted =>
            \E i \in 1..(j - 1) :
                f[i].kind = "report" /\ f[i].run = run /\ f[i].n >= before[f[j].n]

IInv ==
    /\ TypeOK
    /\ InOrder
    /\ Ordered(file)
    /\ FileIsBehind
    /\ Placed
    /\ InThePast
    /\ Told(file)
    /\ NoGapIn(file)

\* The initial states satisfy the invariant.
LEMMA InitIInv == Init => IInv
<1> SUFFICES ASSUME Init PROVE IInv
    OBVIOUS
<1> USE AuditBounds DEF Init, Ids
<1>1. TypeOK
    BY DEF TypeOK, Line
<1>2. InOrder /\ Ordered(file) /\ FileIsBehind
    BY DEF InOrder, Ordered, FileIsBehind, EntriesOf
<1>3. Placed
    BY DEF Placed, InChannel, Waiting, Written
<1>4. InThePast /\ Told(file) /\ NoGapIn(file)
    BY DEF InThePast, Told, NoGapIn
<1> QED BY <1>1, <1>2, <1>3, <1>4 DEF IInv

(* ------------------------------------------------------------------------- *)
(* Files and channels that grow by one                                       *)
(* ------------------------------------------------------------------------- *)

\* A sequence with one element more.
LEMMA OneMore ==
    ASSUME NEW S, NEW s \in Seq(S), NEW x \in S
    PROVE  /\ Append(s, x) \in Seq(S)
           /\ DOMAIN Append(s, x) = 1..(Len(s) + 1) /\ DOMAIN s = 1..Len(s)
           /\ Len(s) \in Nat
           /\ \A i \in DOMAIN s : Append(s, x)[i] = s[i]
           /\ Append(s, x)[Len(s) + 1] = x
           /\ s \o <<x>> = Append(s, x)
           /\ s \o << >> = s
OBVIOUS

\* A sequence without its head.
LEMMA OneLess ==
    ASSUME NEW S, NEW s \in Seq(S), s # << >>
    PROVE  /\ Tail(s) \in Seq(S) /\ Head(s) \in S /\ Head(s) = s[1]
           /\ Len(s) \in Nat \ {0} /\ Len(Tail(s)) = Len(s) - 1
           /\ DOMAIN s = 1..Len(s) /\ DOMAIN Tail(s) = 1..(Len(s) - 1)
           /\ \A i \in DOMAIN Tail(s) : Tail(s)[i] = s[i + 1]
OBVIOUS

\* The channel after Take: everything but its head.
LEMMA TakenChannel ==
    ASSUME ch \in Seq(Ids), ch # << >>, \A i, j \in DOMAIN ch : i < j => ch[i] < ch[j]
    PROVE  {Tail(ch)[i] : i \in DOMAIN Tail(ch)} = InChannel \ {Head(ch)}
<1>1. /\ Head(ch) = ch[1]
      /\ Len(ch) \in Nat \ {0}
      /\ DOMAIN ch = 1..Len(ch) /\ DOMAIN Tail(ch) = 1..(Len(ch) - 1)
      /\ \A i \in DOMAIN Tail(ch) : Tail(ch)[i] = ch[i + 1]
    BY OneLess
<1>0. \A i \in DOMAIN ch : ch[i] \in Int
    <2>1. \A i \in DOMAIN ch : ch[i] \in Ids
        BY <1>1
    <2> QED BY <2>1, AuditBounds DEF Ids
<1>2. ASSUME NEW i \in DOMAIN Tail(ch)
      PROVE  Tail(ch)[i] \in InChannel \ {Head(ch)}
    <2>1. i + 1 \in DOMAIN ch /\ 1 \in DOMAIN ch /\ 1 < i + 1
        BY <1>1
    <2>2. ch[1] < ch[i + 1]
        BY <2>1
    <2> QED BY <2>1, <2>2, <1>1, <1>0 DEF InChannel
<1>3. ASSUME NEW x \in InChannel \ {Head(ch)}
      PROVE  \E i \in DOMAIN Tail(ch) : Tail(ch)[i] = x
    <2>1. PICK j \in DOMAIN ch : ch[j] = x
        BY DEF InChannel
    <2>2. j # 1
        BY <2>1, <1>1
    <2>3. j - 1 \in DOMAIN Tail(ch) /\ Tail(ch)[j - 1] = ch[j]
        BY <2>2, <1>1
    <2> QED BY <2>1, <2>3
<1> QED BY <1>2, <1>3

\* A file with one line more: what it says of entries and reports.
LEMMA OneLineMore ==
    ASSUME NEW f \in Seq(Line), NEW x \in Line
    PROVE  /\ Append(f, x) \in Seq(Line)
           /\ x.kind = "report" => EntriesOf(Append(f, x)) = EntriesOf(f)
           /\ x.kind = "entry" => EntriesOf(Append(f, x)) = EntriesOf(f) \cup {x.n}
           /\ Ordered(f) /\ (x.kind = "entry" => \A n \in EntriesOf(f) : n < x.n)
                => Ordered(Append(f, x))
           /\ (\A i \in DOMAIN f : f[i].run <= run) /\ x.run <= run
                => \A i \in DOMAIN Append(f, x) : Append(f, x)[i].run <= run
<1> DEFINE g == Append(f, x)
<1>1. /\ g \in Seq(Line)
      /\ DOMAIN g = 1..(Len(f) + 1) /\ DOMAIN f = 1..Len(f)
      /\ Len(f) \in Nat
      /\ \A i \in DOMAIN f : g[i] = f[i]
      /\ g[Len(f) + 1] = x
    BY OneMore
<1> HIDE DEF g
<1>2. DOMAIN g = DOMAIN f \cup {Len(f) + 1}
    BY <1>1
<1>3. x.kind = "report" => EntriesOf(g) = EntriesOf(f)
    BY <1>1, <1>2 DEF EntriesOf
<1>4. x.kind = "entry" => EntriesOf(g) = EntriesOf(f) \cup {x.n}
    BY <1>1, <1>2 DEF EntriesOf
<1>5. ASSUME Ordered(f), x.kind = "entry" => \A n \in EntriesOf(f) : n < x.n
      PROVE  Ordered(g)
    <2> SUFFICES ASSUME NEW i \in DOMAIN g, NEW j \in DOMAIN g, i < j,
                        g[i].kind = "entry", g[j].kind = "entry"
                 PROVE  g[i].n < g[j].n
        BY DEF Ordered
    <2>1. i \in DOMAIN f
        BY <1>1
    <2>2. CASE j \in DOMAIN f
        BY <1>5, <2>1, <2>2, <1>1 DEF Ordered
    <2>3. CASE j = Len(f) + 1
        BY <1>5, <2>1, <2>3, <1>1 DEF EntriesOf
    <2> QED BY <2>2, <2>3, <1>2
<1>6. ASSUME \A i \in DOMAIN f : f[i].run <= run, x.run <= run
      PROVE  \A i \in DOMAIN g : g[i].run <= run
    BY <1>6, <1>1, <1>2
<1> QED BY <1>1, <1>3, <1>4, <1>5, <1>6 DEF g

(* ------------------------------------------------------------------------- *)
(* The steps preserve the invariant                                          *)
(* ------------------------------------------------------------------------- *)

\* The ranges that the steps below need.
LEMMA Ranges ==
    ASSUME IInv
    PROVE  /\ MaxLogs \in Nat /\ logged \in 0..MaxLogs /\ dropped \in Nat
           /\ lastReported \in 0..dropped /\ muted \in 0..lastReported
           /\ held \in {0} \cup Ids /\ run \in 1..MaxRuns
           /\ ch \in Seq(Ids) /\ file \in Seq(Line)
           /\ \A i \in DOMAIN ch : ch[i] \in Ids
           /\ \A i \in DOMAIN file : file[i] \in Line /\ file[i].n \in Nat \ {0} /\ file[i].run \in 1..MaxRuns
           /\ \A n \in EntriesOf(file) : n \in Ids
           /\ Written = EntriesOf(file)
           /\ before \in [Ids -> Nat]
           /\ Ids = 1..MaxLogs
<1>1. ch \in Seq(Ids) /\ file \in Seq(Line)
    BY DEF IInv, TypeOK
<1>2. \A i \in DOMAIN ch : ch[i] \in Ids
    BY <1>1
<1>3. \A i \in DOMAIN file : file[i] \in Line
    BY <1>1
<1>4. \A i \in DOMAIN file : file[i].n \in Nat \ {0} /\ file[i].run \in 1..MaxRuns
    BY <1>3 DEF Line
<1>5. \A n \in EntriesOf(file) : n \in Ids
    <2>1. \A n \in EntriesOf(file) : n \in Nat \ {0}
        BY <1>4 DEF EntriesOf
    <2>2. \A n \in EntriesOf(file) : n <= logged
        BY DEF IInv, FileIsBehind
    <2> QED BY <2>1, <2>2, AuditBounds DEF IInv, TypeOK, Ids
<1>6. Written = EntriesOf(file)
    BY DEF Written, EntriesOf
<1> QED BY AuditBounds, <1>1, <1>2, <1>3, <1>4, <1>5, <1>6 DEF IInv, TypeOK, Ids

\* Log puts the next number into the channel, or among those to be counted.
LEMMA LogKeeps == ASSUME IInv, Log PROVE IInv'
<1> DEFINE e == logged + 1
<1>r. /\ MaxLogs \in Nat /\ logged \in 0..MaxLogs /\ dropped \in Nat
      /\ held \in {0} \cup Ids /\ ch \in Seq(Ids)
      /\ \A i \in DOMAIN ch : ch[i] \in Ids
      /\ \A n \in EntriesOf(file) : n \in Ids
      /\ Written = EntriesOf(file)
      /\ before \in [Ids -> Nat]
      /\ Ids = 1..MaxLogs
    BY Ranges
<1>u. /\ logged < MaxLogs /\ logged' = e
      /\ UNCHANGED <<dropped, held, lastReported, file, run, uncounted, turnedAway, muted>>
    BY DEF Log
<1>e. e \in Ids
    BY <1>r, <1>u
<1>o. InOrder /\ FileIsBehind /\ Placed /\ InThePast /\ TypeOK
    BY DEF IInv
<1>n. /\ \A i \in DOMAIN ch : ch[i] <= logged
      /\ \A n \in EntriesOf(file) : n <= logged
      /\ held <= logged
    BY <1>o DEF InOrder, FileIsBehind
<1>w. Written' = Written /\ Waiting' = Waiting
    BY <1>u DEF Written, Waiting
<1>p. InChannel \cup Waiting \cup Written \cup counting \cup turnedAway \cup uncounted = 1..logged
    BY <1>o DEF Placed
<1>q. e \notin InChannel \cup Waiting \cup Written \cup counting \cup turnedAway \cup uncounted
      /\ 1..e = (1..logged) \cup {e}
    BY <1>p, <1>r
<1>1. CASE Accept(e)
    <2>1. /\ Len(ch) < Capacity
          /\ ch' = Append(ch, e)
          /\ before' = [before EXCEPT ![e] = dropped]
          /\ counting' = counting
        BY <1>1 DEF Accept
    <2>2. /\ ch' \in Seq(Ids)
          /\ Len(ch) \in Nat
          /\ DOMAIN ch = 1..Len(ch) /\ DOMAIN ch' = 1..(Len(ch) + 1)
          /\ \A i \in DOMAIN ch : ch'[i] = ch[i]
          /\ ch'[Len(ch) + 1] = e
        BY <2>1, <1>e, <1>r, OneMore
    <2>3. DOMAIN ch' = DOMAIN ch \cup {Len(ch) + 1} /\ Len(ch') = Len(ch) + 1
        BY <2>2, <2>1, <1>r, <1>e
    <2>4. /\ before' \in [Ids -> Nat]
          /\ before'[e] = dropped
          /\ \A n \in Ids \ {e} : before'[n] = before[n]
        BY <2>1, <1>r, <1>e
    <2>5. TypeOK'
        BY <1>u, <1>r, <1>o, <1>e, <2>1, <2>2, <2>3, <2>4, AuditBounds DEF TypeOK, Line, Ids
    <2>6. InOrder'
        <3>1. \A i, j \in DOMAIN ch' : i < j => ch'[i] < ch'[j]
            <4> SUFFICES ASSUME NEW i \in DOMAIN ch', NEW j \in DOMAIN ch', i < j
                         PROVE  ch'[i] < ch'[j]
                OBVIOUS
            <4>1. i \in DOMAIN ch
                BY <2>2
            <4>2. CASE j \in DOMAIN ch
                BY <4>1, <4>2, <2>2, <1>o DEF InOrder
            <4>3. CASE j = Len(ch) + 1
                BY <4>1, <4>3, <2>2, <1>n, <1>r
            <4> QED BY <4>2, <4>3, <2>3
        <3>2. \A i \in DOMAIN ch' : held' < ch'[i] /\ ch'[i] <= logged'
            <4> SUFFICES ASSUME NEW i \in DOMAIN ch'
                         PROVE  held < ch'[i] /\ ch'[i] <= e
                BY <1>u
            <4>1. CASE i \in DOMAIN ch
                BY <4>1, <2>2, <1>o, <1>n, <1>r DEF InOrder
            <4>2. CASE i = Len(ch) + 1
                BY <4>2, <2>2, <1>n, <1>r
            <4> QED BY <4>1, <4>2, <2>3
        <3>3. held' <= logged'
            BY <1>u, <1>n, <1>r
        <3> QED BY <3>1, <3>2, <3>3 DEF InOrder
    <2>7. FileIsBehind'
        <3> SUFFICES ASSUME NEW n \in EntriesOf(file)
                     PROVE  /\ n <= e
                            /\ held # 0 => n < held
                            /\ \A i \in DOMAIN ch' : n < ch'[i]
            BY <1>u DEF FileIsBehind
        <3>1. n <= logged /\ n \in Ids
            BY <1>n, <1>r
        <3>2. \A i \in DOMAIN ch : n < ch'[i]
            BY <2>2, <1>o DEF FileIsBehind
        <3>3. n < ch'[Len(ch) + 1]
            BY <3>1, <2>2, <1>r
        <3>4. held # 0 => n < held
            BY <1>o DEF FileIsBehind
        <3> QED BY <3>1, <3>2, <3>3, <3>4, <2>3, <1>r
    <2>8. InChannel' = InChannel \cup {e}
        BY <2>2, <2>3 DEF InChannel
    <2>9. Placed'
        BY <1>u, <1>w, <1>p, <1>q, <1>o, <2>1, <2>8 DEF Placed
    <2>10. InThePast'
        <3>1. \A i \in DOMAIN ch' : before'[ch'[i]] <= dropped'
            <4>1. ASSUME NEW i \in DOMAIN ch PROVE before'[ch'[i]] <= dropped'
                <5>1. ch[i] \in Ids \ {e}
                    BY <1>n, <1>r
                <5> QED BY <5>1, <2>2, <2>4, <1>o, <1>u DEF InThePast
            <4>2. before'[ch'[Len(ch) + 1]] <= dropped'
                BY <2>2, <2>4, <1>r, <1>u
            <4> QED BY <4>1, <4>2, <2>3
        <3>2. held' # 0 => before'[held'] <= dropped'
            BY <2>4, <1>n, <1>r, <1>o, <1>u DEF InThePast
        <3> QED BY <3>1, <3>2, <1>o, <1>u DEF InThePast
    <2>11. NoGapIn(file)'
        <3>1. ASSUME NEW j \in DOMAIN file, file[j].kind = "entry"
              PROVE  before'[file[j].n] = before[file[j].n]
            <4>1. file[j].n \in EntriesOf(file)
                BY <3>1 DEF EntriesOf
            <4> QED BY <4>1, <2>4, <1>n, <1>r
        <3> QED BY <3>1, <1>u DEF NoGapIn, IInv
    <2>12. Ordered(file)' /\ Told(file)'
        BY <1>u DEF IInv, Ordered, Told
    <2> QED BY <2>5, <2>6, <2>7, <2>9, <2>10, <2>11, <2>12 DEF IInv
<1>2. CASE TurnAway(e)
    <2>1. counting' = counting \cup {e} /\ ch' = ch /\ before' = before
        BY <1>2 DEF TurnAway
    <2>2. TypeOK'
        BY <1>u, <1>r, <1>o, <1>e, <2>1 DEF TypeOK, Line
    <2>3. InOrder' /\ FileIsBehind'
        BY <1>u, <1>n, <1>r, <1>o, <2>1 DEF InOrder, FileIsBehind
    <2>4. Placed'
        BY <1>u, <1>w, <1>p, <1>q, <1>o, <2>1 DEF Placed, InChannel
    <2>5. InThePast' /\ Ordered(file)' /\ Told(file)' /\ NoGapIn(file)'
        BY <1>u, <2>1 DEF IInv, InThePast, Ordered, Told, NoGapIn
    <2> QED BY <2>2, <2>3, <2>4, <2>5 DEF IInv
<1> QED BY <1>1, <1>2 DEF Log

\* The addition to the counter.
LEMMA CountKeeps == ASSUME IInv, NEW e \in counting, Count(e) PROVE IInv'
<1>u. /\ counting' = counting \ {e} /\ dropped' = dropped + 1
      /\ turnedAway' = turnedAway \cup {e}
      /\ UNCHANGED <<logged, ch, held, lastReported, file, run, uncounted, before, muted>>
    BY DEF Count
<1>1. Placed'
    BY <1>u DEF IInv, Placed, InChannel, Waiting, Written
<1>2. InOrder' /\ Ordered(file)' /\ FileIsBehind' /\ Told(file)' /\ NoGapIn(file)'
    BY <1>u DEF IInv, InOrder, Ordered, FileIsBehind, Told, NoGapIn
<1>4. TypeOK'
    <2>1. dropped' \in Nat /\ lastReported' \in 0..dropped' /\ muted' \in 0..lastReported'
        BY <1>u DEF IInv, TypeOK
    <2> QED BY <2>1, <1>u DEF IInv, TypeOK, Line
<1>3. InThePast'
    <2>1. /\ dropped \in Nat /\ before \in [Ids -> Nat] /\ held \in {0} \cup Ids
          /\ \A i \in DOMAIN ch : ch[i] \in Ids
        BY Ranges
    <2>2. \A i \in DOMAIN ch : before[ch[i]] <= dropped + 1
        BY <2>1 DEF IInv, InThePast
    <2>3. held # 0 => before[held] <= dropped + 1
        BY <2>1 DEF IInv, InThePast
    <2> QED BY <1>u, <2>2, <2>3 DEF IInv, InThePast
<1> QED BY <1>1, <1>2, <1>3, <1>4 DEF IInv

\* The writer takes the head of the channel.
LEMMA TakeKeeps == ASSUME IInv, Take PROVE IInv'
<1>r. /\ MaxLogs \in Nat /\ logged \in 0..MaxLogs
      /\ ch \in Seq(Ids)
      /\ \A i \in DOMAIN ch : ch[i] \in Ids
      /\ \A n \in EntriesOf(file) : n \in Ids
      /\ Written = EntriesOf(file)
      /\ Ids = 1..MaxLogs
    BY Ranges
<1>u. /\ held = 0 /\ ch # << >> /\ held' = Head(ch) /\ ch' = Tail(ch)
      /\ UNCHANGED <<logged, counting, dropped, lastReported, file, run, uncounted,
                     turnedAway, before, muted>>
    BY DEF Take
<1>s. /\ ch' \in Seq(Ids) /\ held' \in Ids /\ held' = ch[1]
      /\ Len(ch) \in Nat \ {0} /\ Len(ch') = Len(ch) - 1
      /\ DOMAIN ch = 1..Len(ch) /\ DOMAIN ch' = 1..(Len(ch) - 1)
      /\ \A i \in DOMAIN ch' : ch'[i] = ch[i + 1]
    BY <1>u, <1>r, OneLess
<1>d. 1 \in DOMAIN ch /\ \A i \in DOMAIN ch' : i \in Nat /\ i + 1 \in DOMAIN ch /\ 1 < i + 1
    BY <1>s
<1>o. InOrder /\ FileIsBehind /\ Placed /\ InThePast /\ TypeOK
    BY DEF IInv
<1>1. TypeOK'
    BY <1>u, <1>s, <1>o, AuditBounds DEF TypeOK
<1>2. InOrder'
    <2>1. \A i, j \in DOMAIN ch' : i < j => ch'[i] < ch'[j]
        BY <1>s, <1>d, <1>o DEF InOrder
    <2>2. \A i \in DOMAIN ch' : held' < ch'[i] /\ ch'[i] <= logged'
        BY <1>u, <1>s, <1>d, <1>o DEF InOrder
    <2>3. held' <= logged'
        BY <1>u, <1>s, <1>d, <1>o DEF InOrder
    <2> QED BY <2>1, <2>2, <2>3 DEF InOrder
<1>3. FileIsBehind'
    BY <1>u, <1>s, <1>d, <1>o DEF FileIsBehind
<1>4. InChannel' = InChannel \ {Head(ch)} /\ Head(ch) \in InChannel
    <2>1. \A i, j \in DOMAIN ch : i < j => ch[i] < ch[j]
        BY <1>o DEF InOrder
    <2>2. {Tail(ch)[i] : i \in DOMAIN Tail(ch)} = InChannel \ {Head(ch)}
        BY <2>1, <1>r, <1>u, TakenChannel
    <2>3. InChannel' = {Tail(ch)[i] : i \in DOMAIN Tail(ch)}
        BY <1>u DEF InChannel
    <2>4. Head(ch) \in InChannel
        BY <1>u, <1>s, <1>d DEF InChannel
    <2> QED BY <2>2, <2>3, <2>4
<1>5. Placed'
    <2>1. Waiting = {} /\ Waiting' = {Head(ch)} /\ Written' = Written
        BY <1>u, <1>s, <1>r DEF Waiting, Written
    <2> QED BY <2>1, <1>4, <1>u, <1>o DEF Placed
<1>6. InThePast'
    BY <1>u, <1>s, <1>d, <1>o DEF InThePast
<1>7. Ordered(file)' /\ Told(file)' /\ NoGapIn(file)'
    BY <1>u DEF IInv, Ordered, Told, NoGapIn
<1> QED BY <1>1, <1>2, <1>3, <1>5, <1>6, <1>7 DEF IInv

\* The file cannot be opened.
LEMMA OpenFailsKeeps == ASSUME IInv, OpenFails PROVE IInv'
<1>r. /\ logged \in 0..MaxLogs /\ held \in {0} \cup Ids
      /\ \A i \in DOMAIN ch : ch[i] \in Ids
      /\ MaxLogs \in Nat /\ Ids = 1..MaxLogs
    BY Ranges
<1>u. /\ held # 0 /\ held' = 0 /\ uncounted' = uncounted \cup {held}
      /\ UNCHANGED <<logged, ch, counting, dropped, lastReported, file, run, turnedAway,
                     before, muted>>
    BY DEF OpenFails
<1>1. TypeOK'
    BY <1>u, <1>r DEF IInv, TypeOK
<1>2. InOrder'
    BY <1>u, <1>r DEF IInv, InOrder
<1>3. Placed'
    <2>1. Waiting = {held} /\ Waiting' = {} /\ Written' = Written /\ InChannel' = InChannel
        BY <1>u DEF Waiting, Written, InChannel
    <2> QED BY <2>1, <1>u DEF IInv, Placed
<1>4. Ordered(file)' /\ FileIsBehind' /\ InThePast' /\ Told(file)' /\ NoGapIn(file)'
    BY <1>u DEF IInv, Ordered, FileIsBehind, InThePast, Told, NoGapIn
<1> QED BY <1>1, <1>2, <1>3, <1>4 DEF IInv

\* The report and the entry, each of which may fail to be written.
LEMMA WriteKeeps == ASSUME IInv, Write PROVE IInv'
<1>r. /\ MaxLogs \in Nat /\ logged \in 0..MaxLogs /\ dropped \in Nat
      /\ lastReported \in 0..dropped /\ muted \in 0..lastReported
      /\ held \in {0} \cup Ids /\ run \in 1..MaxRuns
      /\ ch \in Seq(Ids) /\ file \in Seq(Line)
      /\ \A i \in DOMAIN ch : ch[i] \in Ids
      /\ \A n \in EntriesOf(file) : n \in Ids
      /\ Written = EntriesOf(file)
      /\ before \in [Ids -> Nat]
      /\ Ids = 1..MaxLogs
    BY Ranges
<1>o. InOrder /\ FileIsBehind /\ Placed /\ InThePast /\ TypeOK /\ Ordered(file)
      /\ Told(file) /\ NoGapIn(file)
    BY DEF IInv
<1>u. /\ held \in Ids /\ held' = 0
      /\ UNCHANGED <<logged, ch, counting, dropped, run, turnedAway, before>>
      /\ lastReported' = dropped
    BY <1>r DEF Write, Reports
<1>w. PICK written \in BOOLEAN, told \in BOOLEAN :
          /\ file' = file
                \o (IF Reports /\ told THEN <<ReportLine(dropped)>> ELSE << >>)
                \o (IF written THEN <<EntryLine(held)>> ELSE << >>)
          /\ uncounted' = IF written THEN uncounted ELSE uncounted \cup {held}
          /\ muted' = IF Reports /\ ~told THEN dropped ELSE muted
    BY DEF Write
<1>m. muted' \in Nat /\ muted <= muted' /\ muted' <= dropped
    BY <1>w, <1>r DEF Reports
<1> DEFINE report == ReportLine(dropped)
           entry == EntryLine(held)
           f == IF Reports /\ told THEN Append(file, report) ELSE file
<1>l. /\ Reports => report \in Line
      /\ report.kind = "report" /\ report.run = run /\ report.n = dropped
      /\ entry \in Line /\ entry.kind = "entry" /\ entry.run = run /\ entry.n = held
    BY <1>r, <1>u DEF ReportLine, EntryLine, Line, Reports
<1> HIDE DEF report, entry
<1>1. /\ f \in Seq(Line)
      /\ EntriesOf(f) = EntriesOf(file)
      /\ Ordered(f)
      /\ \A i \in DOMAIN f : f[i].run <= run
    <2>1. CASE Reports /\ told
        BY <2>1, <1>l, <1>r, <1>o, OneLineMore DEF InThePast
    <2>2. CASE ~(Reports /\ told)
        BY <2>2, <1>r, <1>o DEF InThePast
    <2> QED BY <2>1, <2>2
<1>2. ASSUME dropped > muted'
      PROVE  \E i \in DOMAIN f : f[i].kind = "report" /\ f[i].run = run /\ f[i].n = dropped
    <2>1. CASE Reports /\ told
        <3>1. /\ Len(file) + 1 \in DOMAIN Append(file, report)
              /\ Append(file, report)[Len(file) + 1] = report
            BY <2>1, <1>l, <1>r, OneMore
        <3> QED BY <3>1, <2>1, <1>l
    <2>2. CASE ~Reports
        BY <2>2, <1>2, <1>r, <1>w, <1>o DEF Reports, Told
    <2>3. CASE Reports /\ ~told
        BY <2>3, <1>2, <1>w, <1>r
    <2> QED BY <2>1, <2>2, <2>3
<1>3. \A j \in DOMAIN f :
          f[j].kind = "entry" /\ f[j].run = run /\ before[f[j].n] > muted' =>
              \E i \in 1..(j - 1) :
                  f[i].kind = "report" /\ f[i].run = run /\ f[i].n >= before[f[j].n]
    <2> SUFFICES ASSUME NEW j \in DOMAIN f,
                        f[j].kind = "entry", f[j].run = run, before[f[j].n] > muted'
                 PROVE  \E i \in 1..(j - 1) :
                            f[i].kind = "report" /\ f[i].run = run /\ f[i].n >= before[f[j].n]
        OBVIOUS
    <2>1. /\ DOMAIN file = 1..Len(file) /\ Len(file) \in Nat
          /\ j \in DOMAIN file
          /\ \A i \in DOMAIN file : f[i] = file[i]
        <3>1. CASE Reports /\ told
            <4>1. /\ DOMAIN f = 1..(Len(file) + 1) /\ DOMAIN file = 1..Len(file) /\ Len(file) \in Nat
                  /\ \A i \in DOMAIN file : f[i] = file[i]
                  /\ f[Len(file) + 1] = report
                BY <3>1, <1>l, <1>r, OneMore
            <4> QED BY <4>1, <1>l
        <3>2. CASE ~(Reports /\ told)
            BY <3>2, <1>r
        <3> QED BY <3>1, <3>2
    <2>2. f[j].n \in Ids
        BY <1>1, <1>r DEF EntriesOf
    <2>3. before[file[j].n] > muted
        BY <2>1, <2>2, <1>m, <1>r
    <2>4. PICK i \in 1..(j - 1) :
              file[i].kind = "report" /\ file[i].run = run /\ file[i].n >= before[file[j].n]
        BY <2>1, <2>3, <1>o DEF NoGapIn
    <2>5. i \in DOMAIN file
        BY <2>1
    <2> QED BY <2>1, <2>4, <2>5
<1> HIDE DEF f
<1>4. file' = IF written THEN Append(f, entry) ELSE f
    <2>1. file \o (IF Reports /\ told THEN <<report>> ELSE << >>) = f
        <3>1. CASE Reports /\ told
            BY <3>1, <1>r, <1>l, OneMore DEF f
        <3>2. CASE ~(Reports /\ told)
            BY <3>2, <1>r DEF f
        <3> QED BY <3>1, <3>2
    <2>2. f \o (IF written THEN <<entry>> ELSE << >>) = IF written THEN Append(f, entry) ELSE f
        BY <1>1, <1>l, OneMore
    <2> QED BY <2>1, <2>2, <1>w DEF report, entry
<1>5. /\ file' \in Seq(Line)
      /\ EntriesOf(file') = EntriesOf(file) \cup (IF written THEN {held} ELSE {})
      /\ Ordered(file')
      /\ \A i \in DOMAIN file' : file'[i].run <= run
    <2>1. \A n \in EntriesOf(f) : n < entry.n
        BY <1>1, <1>l, <1>u, <1>r, <1>o DEF FileIsBehind
    <2>2. CASE written
        <3>1. entry.run <= run
            BY <1>l, <1>r, AuditBounds
        <3> DEFINE g == Append(f, entry)
        <3>2. /\ g \in Seq(Line)
              /\ EntriesOf(g) = EntriesOf(f) \cup {entry.n}
              /\ Ordered(g)
              /\ \A i \in DOMAIN g : g[i].run <= run
            BY <2>1, <3>1, <1>1, <1>l, OneLineMore
        <3>3. file' = g
            BY <2>2, <1>4
        <3> HIDE DEF g
        <3> QED BY <2>2, <3>2, <3>3, <1>1, <1>l
    <2>3. CASE ~written
        BY <2>3, <1>1, <1>4
    <2> QED BY <2>2, <2>3
<1>6. /\ DOMAIN f = 1..Len(f) /\ Len(f) \in Nat
      /\ DOMAIN f \subseteq DOMAIN file'
      /\ \A i \in DOMAIN f : file'[i] = f[i]
      /\ \A j \in DOMAIN file' \ DOMAIN f : j = Len(f) + 1 /\ file'[j] = entry
    <2>1. CASE written
        BY <2>1, <1>1, <1>4, <1>l, OneMore
    <2>2. CASE ~written
        BY <2>2, <1>1, <1>4
    <2> QED BY <2>1, <2>2
<1>7. TypeOK'
    BY <1>5, <1>m, <1>u, <1>r, <1>o, <1>w DEF TypeOK
<1>8. InOrder'
    BY <1>u, <1>r, <1>o DEF InOrder
<1>9. Ordered(file)'
    BY <1>5 DEF Ordered
<1>10. FileIsBehind'
    <2>1. EntriesOf(file)' = EntriesOf(file) \cup (IF written THEN {held} ELSE {})
        BY <1>5 DEF EntriesOf
    <2> QED BY <2>1, <1>u, <1>r, <1>o DEF FileIsBehind, InOrder
<1>11. Placed'
    <2>1. /\ Waiting = {held} /\ Waiting' = {} /\ InChannel' = InChannel
          /\ Written' = Written \cup (IF written THEN {held} ELSE {})
        <3>1. Written' = EntriesOf(file')
            BY DEF Written, EntriesOf
        <3>2. held # 0
            BY <1>u, <1>r
        <3> QED BY <3>1, <3>2, <1>5, <1>u, <1>r DEF Waiting, InChannel
    <2> QED BY <2>1, <1>u, <1>w, <1>o DEF Placed
<1>12. InThePast'
    BY <1>5, <1>u, <1>o DEF InThePast
<1>13. Told(file)'
    BY <1>2, <1>6, <1>u DEF Told
<1>14. NoGapIn(file)'
    <2> SUFFICES ASSUME NEW j \in DOMAIN file',
                        file'[j].kind = "entry", file'[j].run = run, before[file'[j].n] > muted'
                 PROVE  \E i \in 1..(j - 1) : /\ file'[i].kind = "report" /\ file'[i].run = run
                                             /\ file'[i].n >= before[file'[j].n]
        BY <1>u DEF NoGapIn
    <2>1. CASE j \in DOMAIN f
        <3>1. PICK i \in 1..(j - 1) :
                  f[i].kind = "report" /\ f[i].run = run /\ f[i].n >= before[f[j].n]
            BY <2>1, <1>3, <1>6
        <3>2. i \in DOMAIN f
            BY <2>1, <1>6
        <3> QED BY <3>1, <3>2, <2>1, <1>6
    <2>2. CASE j \notin DOMAIN f
        <3>1. j = Len(f) + 1 /\ file'[j].n = held
            BY <2>2, <1>6, <1>l
        <3>2. before[held] <= dropped /\ before[held] \in Nat
            BY <1>o, <1>u, <1>r DEF InThePast
        <3>3. PICK i \in DOMAIN f : f[i].kind = "report" /\ f[i].run = run /\ f[i].n = dropped
            BY <3>1, <3>2, <1>2, <1>m, <1>r
        <3>4. i \in 1..(j - 1)
            BY <3>1, <1>6
        <3> QED BY <3>1, <3>2, <3>3, <3>4, <1>6, <1>r
    <2> QED BY <2>1, <2>2
<1> QED BY <1>7, <1>8, <1>9, <1>10, <1>11, <1>12, <1>13, <1>14 DEF IInv

\* The process stops with whatever it held.
LEMMA RestartKeeps == ASSUME IInv, Restart PROVE IInv'
<1>r. /\ MaxLogs \in Nat /\ logged \in 0..MaxLogs /\ held \in {0} \cup Ids
      /\ run \in 1..MaxRuns /\ ch \in Seq(Ids)
      /\ \A i \in DOMAIN ch : ch[i] \in Ids
      /\ \A i \in DOMAIN file : file[i].run \in 1..MaxRuns
      /\ Ids = 1..MaxLogs
    BY Ranges
<1>u. /\ run < MaxRuns /\ run' = run + 1
      /\ ch' = << >> /\ held' = 0 /\ counting' = {}
      /\ dropped' = 0 /\ lastReported' = 0 /\ muted' = 0
      /\ uncounted' = uncounted \cup InChannel \cup counting \cup Waiting
      /\ UNCHANGED <<logged, file, turnedAway, before>>
    BY DEF Restart, Waiting
<1>1. TypeOK'
    <2>1. uncounted' \subseteq Ids
        BY <1>u, <1>r DEF IInv, TypeOK, InChannel, Waiting
    <2> QED BY <2>1, <1>u, <1>r, AuditBounds DEF IInv, TypeOK
<1>2. InOrder'
    BY <1>u, <1>r DEF InOrder
<1>3. FileIsBehind'
    BY <1>u DEF IInv, FileIsBehind, EntriesOf
<1>4. Placed'
    <2>1. InChannel' = {} /\ Waiting' = {} /\ Written' = Written
        BY <1>u DEF InChannel, Waiting, Written
    <2> QED BY <2>1, <1>u DEF IInv, Placed
<1>5. \A i \in DOMAIN file : file[i].run < run'
    BY <1>u, <1>r, AuditBounds DEF IInv, InThePast
<1>6. InThePast' /\ NoGapIn(file)'
    BY <1>5, <1>u, <1>r, AuditBounds DEF InThePast, NoGapIn
<1>7. Ordered(file)' /\ Told(file)'
    BY <1>u DEF IInv, Ordered, Told
<1> QED BY <1>1, <1>2, <1>3, <1>4, <1>6, <1>7 DEF IInv

\* Every step preserves the invariant.
LEMMA NextIInv == IInv /\ [Next]_vars => IInv'
<1> SUFFICES ASSUME IInv, [Next]_vars PROVE IInv'
    OBVIOUS
<1>1. CASE Log
    BY <1>1, LogKeeps
<1>2. CASE \E e \in counting : Count(e)
    BY <1>2, CountKeeps
<1>3. CASE Take
    BY <1>3, TakeKeeps
<1>4. CASE OpenFails
    BY <1>4, OpenFailsKeeps
<1>5. CASE Write
    BY <1>5, WriteKeeps
<1>6. CASE Restart
    BY <1>6, RestartKeeps
<1>7. CASE UNCHANGED vars
    <2>1. TypeOK'
        BY <1>7 DEF vars, IInv, TypeOK
    <2>2. InOrder' /\ Ordered(file)'
        BY <1>7 DEF vars, IInv, InOrder, Ordered
    <2>3. FileIsBehind'
        BY <1>7 DEF vars, IInv, FileIsBehind, EntriesOf
    <2>4. Placed'
        BY <1>7 DEF vars, IInv, Placed, InChannel, Waiting, Written
    <2>5. InThePast' /\ Told(file)' /\ NoGapIn(file)'
        BY <1>7 DEF vars, IInv, InThePast, Told, NoGapIn
    <2> QED BY <2>1, <2>2, <2>3, <2>4, <2>5 DEF IInv
<1> QED BY <1>1, <1>2, <1>3, <1>4, <1>5, <1>6, <1>7 DEF Next

\* The inductive invariant holds.
THEOREM IInvHolds == Spec => []IInv
BY InitIInv, NextIInv, PTL DEF Spec

\* Type correctness: the channel never holds more than its capacity.
THEOREM TypeOKHolds == Spec => []TypeOK
<1>1. IInv => TypeOK
    BY DEF IInv
<1> QED BY <1>1, IInvHolds, PTL

\* No entry is lost unseen, written twice or written out of order.
THEOREM EntriesAreKeptHolds == Spec => []EntriesAreKept
<1>1. ASSUME IInv PROVE EntriesAreKept
    <2>1. FileIsInOrder
        BY <1>1 DEF IInv, Ordered, FileIsInOrder
    <2>2. EveryEntryIsSomewhere
        <3> DEFINE places == <<InChannel, Waiting, Written, counting, turnedAway, uncounted>>
        <3>1. DOMAIN places = 1..6 /\ 1..6 = {1, 2, 3, 4, 5, 6}
            OBVIOUS
        <3>2. UNION {places[i] : i \in DOMAIN places}
                  = InChannel \cup Waiting \cup Written \cup counting \cup turnedAway \cup uncounted
            BY <3>1
        <3>3. \A i, j \in DOMAIN places : i # j => places[i] \cap places[j] = {}
            BY <1>1, <3>1 DEF IInv, Placed
        <3> QED BY <1>1, <3>2, <3>3 DEF IInv, Placed, EveryEntryIsSomewhere, Waiting
    <2> QED BY <2>1, <2>2 DEF EntriesAreKept
<1> QED BY <1>1, IInvHolds, PTL

\* No entry stands in the file after a drop that the file does not tell of,
\* unless the report of it could not be written.
THEOREM NoSilentGapHolds == Spec => []NoSilentGap
<1>1. IInv => NoSilentGap
    BY DEF IInv, NoGapIn, NoSilentGap
<1> QED BY <1>1, IInvHolds, PTL

==============================================================================
