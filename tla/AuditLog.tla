------------------------------- MODULE AuditLog -------------------------------
(* The audit log (internal/audit): the handlers of requests log entries into  *)
(* a channel of bounded capacity and never wait; one goroutine writes them to *)
(* a file, and says there how many were dropped.  main.go starts the writer   *)
(* and never closes it: what is in the channel when the process stops is lost *)
(* (cmdServe returns without Logger.Close).                                   *)
EXTENDS Integers, Sequences, FiniteSets

CONSTANTS
    Capacity,   \* of the channel, 1024 in the code
    MaxLogs,    \* bound: entries that are logged
    MaxRuns     \* bound: starts of the process

ASSUME AuditBounds == Capacity \in Nat \ {0} /\ MaxLogs \in Nat /\ MaxRuns \in Nat \ {0}

VARIABLES
    logged,        \* the entries logged so far: an entry is its number
    ch,            \* Logger.ch
    counting,      \* entries that found the channel full and are not yet counted
    dropped,       \* Logger.dropped
    held,          \* the entry that the writer took, 0 if none
    lastReported,  \* the writer's lastReportedDropped
    file,          \* the log: entries, and reports of drops
    run,           \* the start of the process that this is
    uncounted,     \* entries lost although they were accepted
    turnedAway,    \* entries that were dropped
    before,        \* what Logger.dropped was when each entry was accepted
    muted          \* the highest count of this run whose report was not written

vars == <<logged, ch, counting, dropped, held, lastReported, file, run,
          uncounted, turnedAway, before, muted>>

Ids == 1..MaxLogs
EntryLine(e) == [kind |-> "entry", run |-> run, n |-> e]
ReportLine(d) == [kind |-> "report", run |-> run, n |-> d]

Line == [kind: {"entry", "report"}, run: 1..MaxRuns, n: Nat \ {0}]

TypeOK ==
    /\ logged \in 0..MaxLogs
    /\ ch \in Seq(Ids) /\ Len(ch) <= Capacity
    /\ counting \subseteq Ids
    /\ dropped \in Nat /\ lastReported \in 0..dropped /\ muted \in 0..lastReported
    /\ held \in {0} \cup Ids
    /\ file \in Seq(Line)
    /\ run \in 1..MaxRuns
    /\ uncounted \subseteq Ids /\ turnedAway \subseteq Ids
    /\ before \in [Ids -> Nat]

Init ==
    /\ logged = 0 /\ ch = << >> /\ counting = {} /\ dropped = 0
    /\ held = 0 /\ lastReported = 0 /\ file = << >> /\ run = 1
    /\ uncounted = {} /\ turnedAway = {} /\ muted = 0
    /\ before = [e \in Ids |-> 0]

(* ------------------------------------------------------------------------- *)
(* Log                                                                       *)
(* ------------------------------------------------------------------------- *)

\* Accept that makes room by forgetting the oldest entry.
AcceptOverOldest(e) ==
    /\ ch' = Append(IF Len(ch) < Capacity THEN ch ELSE Tail(ch), e)
    /\ before' = [before EXCEPT ![e] = dropped]
    /\ counting' = counting

\* The send of Log: into the channel if it has room.
Accept(e) ==
    /\ Len(ch) < Capacity
    /\ ch' = Append(ch, e)
    /\ before' = [before EXCEPT ![e] = dropped]
    /\ counting' = counting

\* The default of Log's select: the channel is full.
TurnAway(e) ==
    /\ Len(ch) = Capacity
    /\ counting' = counting \cup {e}
    /\ UNCHANGED <<ch, before>>

\* Log, up to the addition to the counter.
Log ==
    /\ logged < MaxLogs
    /\ logged' = logged + 1
    /\ Accept(logged + 1) \/ TurnAway(logged + 1)
    /\ UNCHANGED <<dropped, held, lastReported, file, run, uncounted, turnedAway, muted>>

\* The addition: by then the writer may have emptied the channel.
Count(e) ==
    /\ e \in counting
    /\ counting' = counting \ {e}
    /\ dropped' = dropped + 1
    /\ turnedAway' = turnedAway \cup {e}
    /\ UNCHANGED <<logged, ch, held, lastReported, file, run, uncounted, before, muted>>

(* ------------------------------------------------------------------------- *)
(* The writer                                                                *)
(* ------------------------------------------------------------------------- *)

\* Take of a writer that waits for a full channel to write all of it at once.
TakeFull ==
    /\ held = 0 /\ Len(ch) = Capacity
    /\ held' = Head(ch) /\ ch' = Tail(ch)
    /\ UNCHANGED <<logged, counting, dropped, lastReported, file, run, uncounted,
                   turnedAway, before, muted>>

\* The range over the channel.
Take ==
    /\ held = 0 /\ ch # << >>
    /\ held' = Head(ch) /\ ch' = Tail(ch)
    /\ UNCHANGED <<logged, counting, dropped, lastReported, file, run, uncounted,
                   turnedAway, before, muted>>

\* OpenFails that puts the entry back into the channel, or waits for room.
OpenFailsRequeues ==
    /\ held # 0 /\ Len(ch) < Capacity
    /\ ch' = Append(ch, held) /\ held' = 0
    /\ UNCHANGED <<logged, counting, dropped, lastReported, file, run, uncounted,
                   turnedAway, before, muted>>

\* OpenFails that reads the counter before it opens the file.
OpenFailsReported ==
    /\ held # 0
    /\ held' = 0 /\ uncounted' = uncounted \cup {held}
    /\ lastReported' = dropped
    /\ UNCHANGED <<logged, ch, counting, dropped, file, run, turnedAway, before, muted>>

\* The file cannot be opened: the entry is lost, and counted nowhere.
OpenFails ==
    /\ held # 0
    /\ held' = 0 /\ uncounted' = uncounted \cup {held}
    /\ UNCHANGED <<logged, ch, counting, dropped, lastReported, file, run, turnedAway,
                   before, muted>>

\* Whether the writer has something to report.
Reports == dropped > lastReported

\* A report if any entry was dropped since the last, and the entry; an error of
\* either write is ignored.
Write ==
    /\ held # 0
    /\ \E written, told \in BOOLEAN :
          /\ file' = file
                \o (IF Reports /\ told THEN <<ReportLine(dropped)>> ELSE << >>)
                \o (IF written THEN <<EntryLine(held)>> ELSE << >>)
          /\ uncounted' = IF written THEN uncounted ELSE uncounted \cup {held}
          /\ muted' = IF Reports /\ ~told THEN dropped ELSE muted
    /\ lastReported' = IF Reports THEN dropped ELSE lastReported
    /\ held' = 0
    /\ UNCHANGED <<logged, ch, counting, dropped, run, turnedAway, before>>

(* ------------------------------------------------------------------------- *)
(* The process                                                               *)
(* ------------------------------------------------------------------------- *)

InChannel == {ch[i] : i \in DOMAIN ch}

\* The process stops, by a signal or a crash, and NewLogger starts another.
Restart ==
    /\ run < MaxRuns
    /\ run' = run + 1
    /\ ch' = << >> /\ held' = 0 /\ counting' = {}
    /\ dropped' = 0 /\ lastReported' = 0 /\ muted' = 0
    /\ uncounted' = uncounted \cup InChannel \cup counting \cup ({held} \ {0})
    /\ UNCHANGED <<logged, file, turnedAway, before>>

Next ==
    \/ Log \/ (\E e \in counting : Count(e))
    \/ Take \/ OpenFails \/ Write
    \/ Restart

\* The writer's goroutine runs, and so do those that add to the counter.
Fairness == WF_vars(Take) /\ WF_vars(OpenFails \/ Write) /\ \A e \in Ids : WF_vars(Count(e))

Spec == Init /\ [][Next]_vars
FairSpec == Spec /\ Fairness

(* ------------------------------------------------------------------------- *)
(* Properties                                                                *)
(* ------------------------------------------------------------------------- *)

Written == {file[i].n : i \in {j \in DOMAIN file : file[j].kind = "entry"}}

\* Log loses nothing unseen: every entry is in the channel, with the writer, in the
\* file, dropped and counted, or lost to an error of the file or the end of the
\* process, and it is in one of these places only.
EveryEntryIsSomewhere ==
    LET places == <<InChannel, {held} \ {0}, Written, counting, turnedAway, uncounted>> IN
    /\ UNION {places[i] : i \in DOMAIN places} = 1..logged
    /\ \A i, j \in DOMAIN places : i # j => places[i] \cap places[j] = {}

\* The file has the entries in the order in which they were logged, each once,
\* across restarts too.
FileIsInOrder ==
    \A i, j \in DOMAIN file :
        i < j /\ file[i].kind = "entry" /\ file[j].kind = "entry" => file[i].n < file[j].n

\* No entry is lost unseen, written twice or written out of order.
EntriesAreKept == EveryEntryIsSomewhere /\ FileIsInOrder

\* "A SYSTEM entry records the dropped count" (README.md:582): no entry stands in
\* the file that was logged after a drop, unless a report that counts the drop
\* stands before it or could not be written.
NoSilentGap ==
    \A j \in DOMAIN file :
        LET e == file[j] IN
        e.kind = "entry" /\ e.run = run /\ before[e.n] > muted =>
            \E i \in 1..(j - 1) :
                file[i].kind = "report" /\ file[i].run = run /\ file[i].n >= before[e.n]

Idle == ch = << >> /\ held = 0

\* A drop that was counted while the writer still had work is reported with it,
\* unless the file fails or the process stops; one counted after the writer
\* emptied the channel waits for the next entry.
DropsAreReported ==
    \A n \in Ids, r \in 1..MaxRuns :
        (run = r /\ dropped >= n /\ ~Idle) ~>
            (lastReported >= n \/ uncounted # {} \/ run # r)

==============================================================================
