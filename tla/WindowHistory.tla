--------------------------- MODULE WindowHistory ---------------------------
(***************************************************************************)
(* What the agent monitor remembers of the windows it has judged           *)
(* (webchat_server.py): the rolling history that new windows are scored    *)
(* against, in memory and in window_metrics.jsonl, and the registry of     *)
(* anomalous windows, a list file and one detail file per window.          *)
(*                                                                         *)
(* Windows are numbered as they are acquired.  A log is a file of lines:   *)
(* rows that can be read, in order, and a number of torn lines that cannot *)
(* (where these stand makes no difference).  Its tail is the last line     *)
(* when that has no newline: the next append continues it.                 *)
(***************************************************************************)
EXTENDS Integers, Sequences, FiniteSets, SequencesExt

CONSTANTS
    Requests,      \* monitor requests that may run at a time
    MaxRows,       \* VIBRO_WINDOW_HISTORY_MAX_ROWS
    CompactEvery,  \* 2000
    MaxWindows,    \* bound: windows of a behaviour
    MaxRestarts,   \* bound: crashes of the application
    MaxFaults,     \* bound: file operations that fail
    None

Windows == 1..MaxWindows

\* What is decided about a window: it counts as normal, it is neither normal
\* nor worth a popup (quality flags), or it gets one.
Kinds == {"normal", "flawed", "anomaly"}

ASSUME RowsAssumption  == MaxRows \in Nat \ {0} /\ CompactEvery \in Nat \ {0}
ASSUME BoundAssumption == MaxWindows \in Nat /\ MaxRestarts \in Nat /\ MaxFaults \in Nat
ASSUME NoneAssumption  == None \notin Seq(Windows)

VARIABLES
    rows,        \* _WINDOW_HISTORY: the newest rows, or None before it is loaded
    stats,       \* _HISTORY_STATS_CACHE of a key: the rows it counts, or None
    appends,     \* _WINDOW_HISTORY_APPENDS
    history,     \* window_metrics.jsonl
    listing,     \* anomaly_windows.jsonl
    details,     \* windows whose detail file is complete
    pc,          \* where each request is
    window,      \* the window it judges, or 0
    windows,     \* how many windows there have been
    kind,        \* what was decided about each
    restarts, faults,
    recorded,    \* ground truth: the windows recorded, in this order
    registered,  \* ground truth: windows answered as "registered"
    broken,      \* ground truth: appends to the history that did not get through
    unlisted,    \* ground truth: appends to the listing that did not
    spoiled      \* ground truth: a compaction or a load did not get through

memoryVars == <<rows, stats, appends>>
fileVars   == <<history, listing, details>>
windowVars == <<window, windows, kind>>
countVars  == <<restarts, faults>>
truthVars  == <<recorded, registered, broken, unlisted, spoiled>>
vars == <<memoryVars, fileVars, pc, windowVars, countVars, truthVars>>

Log == [rows : Seq(Windows), torn : Nat, tail : {"closed", "row", "torn"}]

TypeOK ==
    /\ rows = None \/ (rows \in Seq(Windows) /\ Len(rows) <= MaxRows)
    /\ stats = None \/ stats \in SUBSET Windows
    /\ appends \in Nat
    /\ history \in Log /\ listing \in Log
    /\ details \in SUBSET Windows
    /\ pc \in [Requests -> {"idle", "decide", "record", "write", "register", "list"}]
    /\ windows \in 0..MaxWindows
    /\ window \in [Requests -> 0..windows]
    /\ \A r \in Requests : window[r] = 0 <=> pc[r] = "idle"
    /\ kind \in [Windows -> Kinds \cup {None}]
    /\ restarts \in 0..MaxRestarts
    /\ faults \in 0..MaxFaults
    /\ recorded \in Seq(Windows)
    /\ registered \in SUBSET Windows
    /\ broken \in Nat /\ unlisted \in Nat
    /\ spoiled \in BOOLEAN

Rewritten(some) == [rows |-> some, torn |-> 0, tail |-> "closed"]

Init ==
    /\ rows = None /\ stats = None /\ appends = 0
    /\ history = Rewritten(<<>>) /\ listing = Rewritten(<<>>)
    /\ details = {}
    /\ pc = [r \in Requests |-> "idle"]
    /\ window = [r \in Requests |-> 0]
    /\ windows = 0
    /\ kind = [w \in Windows |-> None]
    /\ restarts = 0 /\ faults = 0
    /\ recorded = <<>> /\ registered = {}
    /\ broken = 0 /\ unlisted = 0 /\ spoiled = FALSE

-----------------------------------------------------------------------------
(***************************************************************************)
(* Files.                                                                  *)
(***************************************************************************)
\* One torn line more, or the tail turned into one.
Garbled(log, tail) ==
    [rows |-> IF log.tail = "row" THEN Front(log.rows) ELSE log.rows,
     torn |-> IF log.tail = "torn" THEN log.torn ELSE log.torn + 1,
     tail |-> tail]

WithRow(log, w, tail) == [rows |-> Append(log.rows, w), torn |-> log.torn, tail |-> tail]

Appended(log, w) ==
    IF log.tail = "closed" THEN WithRow(log, w, "closed") ELSE Garbled(log, "closed")

\* An append that does not get through leaves the file as it was or with a part
\* of the line, which may lack no more than the newline.
CutAppends(log, w) ==
    {log, Garbled(log, "torn")} \cup
    IF log.tail = "closed" THEN {WithRow(log, w, "row")} ELSE {}

\* A rewrite that does not get through has truncated the file and leaves it
\* with some of the rows, the last one perhaps in part.
CutRewrites(some) ==
    {[rows |-> SubSeq(some, 1, n), torn |-> 0, tail |-> "closed"] : n \in 0..Len(some)} \cup
    {[rows |-> SubSeq(some, 1, n), torn |-> 0, tail |-> "row"]    : n \in 1..Len(some)} \cup
    {[rows |-> SubSeq(some, 1, n), torn |-> 1, tail |-> "torn"]   : n \in 0..(Len(some) - 1)}

Lines(log) == Len(log.rows) + log.torn

\* Mutant of Kept: a queue without maxlen.
KeptAll(some) == some

\* deque(maxlen): the newest rows.
Kept(some) ==
    SubSeq(some, IF Len(some) > MaxRows THEN Len(some) - MaxRows + 1 ELSE 1, Len(some))

\* Mutant of Loads: a process begins with an empty history.
LoadsNothing == IF rows # None THEN {<<rows, FALSE>>} ELSE {<<<<>>, FALSE>>}

\* The rows and whether reading failed: they are loaded when first needed, torn
\* lines are skipped, and an OSError ends the loading with what has been read.
Loads ==
    IF rows # None THEN {<<rows, FALSE>>}
    ELSE {<<Kept(history.rows), FALSE>>} \cup
         {<<Kept(SubSeq(history.rows, 1, n)), TRUE>> : n \in 0..Len(history.rows)}

Fails(bad) == IF bad THEN 1 ELSE 0

-----------------------------------------------------------------------------
(***************************************************************************)
(* A monitor request, from its measured window to its answer.  Requests    *)
(* with use_llm take decisions one at a time, under the monitor lock; those *)
(* without take no lock, so requests interleave here as these do.          *)
(***************************************************************************)
Goto(r, place) == pc' = [pc EXCEPT ![r] = place]

Answer(r) ==
    /\ Goto(r, "idle")
    /\ window' = [window EXCEPT ![r] = 0]

\* _WINDOW_HISTORY_LOCK and _ANOMALY_WINDOW_REGISTRY_LOCK are free.
HistoryFree  == \A r \in Requests : pc[r] # "write"
RegistryFree == \A r \in Requests : pc[r] # "list"

Normal(some) == {w \in ToSet(some) : kind[w] = "normal"}

\* The values are computed unless they are cached.
ComputeStats ==
    /\ \E load \in Loads :
          /\ faults + Fails(load[2]) <= MaxFaults
          /\ rows' = load[1]
          /\ faults' = faults + Fails(load[2])
          /\ spoiled' = (spoiled \/ load[2])
    /\ stats' = Normal(rows')

\* A window without ratios asks for no values.
Score(r) ==
    /\ pc[r] = "idle"
    /\ windows < MaxWindows
    /\ HistoryFree
    /\ windows' = windows + 1
    /\ window' = [window EXCEPT ![r] = windows']
    /\ Goto(r, "decide")
    /\ \/ stats = None /\ ComputeStats
       \/ UNCHANGED <<rows, stats, faults, spoiled>>
    /\ UNCHANGED <<appends, fileVars, kind, restarts, recorded, registered, broken, unlisted>>

\* The model is required and fails, or an exception leaves the handler.
DecisionFails(r) ==
    /\ pc[r] = "decide"
    /\ Answer(r)
    /\ UNCHANGED <<memoryVars, fileVars, windows, kind, countVars, truthVars>>

Decide(r) ==
    /\ pc[r] = "decide"
    /\ \E k \in Kinds : kind' = [kind EXCEPT ![window[r]] = k]
    /\ Goto(r, "record")
    /\ UNCHANGED <<memoryVars, fileVars, window, windows, countVars, truthVars>>

\* Mutant of Forgotten: a row that does not count leaves the values cached.
ForgottenIfNormal(w) == IF kind[w] = "normal" THEN None ELSE stats

\* The cache after a row was added.
Forgotten(w) == None

\* A row is added in memory; the directory may be impossible to make.
RecordMemory(r) ==
    /\ pc[r] = "record"
    /\ HistoryFree
    /\ \E load \in Loads, bad \in BOOLEAN :
          /\ faults + Fails(load[2]) + Fails(bad) <= MaxFaults
          /\ rows' = Kept(Append(load[1], window[r]))
          /\ faults' = faults + Fails(load[2]) + Fails(bad)
          /\ spoiled' = (spoiled \/ load[2])
          /\ appends' = appends + 1 - Fails(bad)
          /\ broken' = broken + Fails(bad)
          /\ Goto(r, IF bad THEN "register" ELSE "write")
    /\ stats' = Forgotten(window[r])
    /\ recorded' = Append(recorded, window[r])
    /\ UNCHANGED <<fileVars, windowVars, restarts, registered, unlisted>>

\* A window without any ratio is not recorded.
RecordNothing(r) ==
    /\ pc[r] = "record"
    /\ Goto(r, "register")
    /\ UNCHANGED <<memoryVars, fileVars, windowVars, countVars, truthVars>>

\* Mutant of Compacting: only the first time.
CompactingOnce == appends = CompactEvery

\* Every so many appends of this process the file is rewritten from memory.
Compacting == appends % CompactEvery = 0

WriteHistory(r) ==
    /\ pc[r] = "write"
    /\ history' = IF Compacting THEN Rewritten(rows) ELSE Appended(history, window[r])
    /\ Goto(r, "register")
    /\ UNCHANGED <<memoryVars, listing, details, windowVars, countVars, truthVars>>

\* The append or the rewrite that r is in does not get through.
CutHistory(r) ==
    /\ history' \in IF Compacting THEN {history} \cup CutRewrites(rows)
                                  ELSE CutAppends(history, window[r])
    /\ spoiled' = (spoiled \/ Compacting)
    /\ broken' = IF Compacting THEN broken ELSE broken + 1

\* "Any failure here must never break the monitor": it is swallowed.
WriteFails(r) ==
    /\ pc[r] = "write"
    /\ faults < MaxFaults
    /\ faults' = faults + 1
    /\ CutHistory(r)
    /\ Goto(r, "register")
    /\ UNCHANGED <<memoryVars, listing, details, windowVars, restarts, recorded, registered,
                   unlisted>>

-----------------------------------------------------------------------------
(***************************************************************************)
(* _register_anomaly_window.                                               *)
(***************************************************************************)
RegisterNothing(r) ==
    /\ pc[r] = "register"
    /\ kind[window[r]] # "anomaly"
    /\ Answer(r)
    /\ UNCHANGED <<memoryVars, fileVars, windows, kind, countVars, truthVars>>

WriteDetail(r) ==
    /\ pc[r] = "register"
    /\ kind[window[r]] = "anomaly"
    /\ RegistryFree
    /\ details' = details \cup {window[r]}
    /\ Goto(r, "list")
    /\ UNCHANGED <<memoryVars, history, listing, windowVars, countVars, truthVars>>

\* Mutant of DetailFails: the window is listed all the same.
DetailFailsListing(r) ==
    /\ pc[r] = "register"
    /\ kind[window[r]] = "anomaly"
    /\ RegistryFree
    /\ faults < MaxFaults
    /\ faults' = faults + 1
    /\ details' = details \ {window[r]}
    /\ Goto(r, "list")
    /\ UNCHANGED <<memoryVars, history, listing, windowVars, restarts, truthVars>>

DetailFails(r) ==
    /\ pc[r] = "register"
    /\ kind[window[r]] = "anomaly"
    /\ RegistryFree
    /\ faults < MaxFaults
    /\ faults' = faults + 1
    /\ details' = details \ {window[r]}
    /\ Answer(r)
    /\ UNCHANGED <<memoryVars, history, listing, windows, kind, restarts, truthVars>>

List(r) ==
    /\ pc[r] = "list"
    /\ listing' = Appended(listing, window[r])
    /\ registered' = registered \cup {window[r]}
    /\ Answer(r)
    /\ UNCHANGED <<memoryVars, history, details, windows, kind, countVars, recorded, broken,
                   unlisted, spoiled>>

CutListing(r) ==
    /\ listing' \in CutAppends(listing, window[r])
    /\ unlisted' = unlisted + 1

ListFails(r) ==
    /\ pc[r] = "list"
    /\ faults < MaxFaults
    /\ faults' = faults + 1
    /\ CutListing(r)
    /\ Answer(r)
    /\ UNCHANGED <<memoryVars, history, details, windows, kind, restarts, recorded, registered,
                   broken, spoiled>>

-----------------------------------------------------------------------------
(***************************************************************************)
(* The application dies at any point and is started again.                 *)
(***************************************************************************)
Crash ==
    /\ restarts < MaxRestarts
    /\ restarts' = restarts + 1
    /\ rows' = None /\ stats' = None /\ appends' = 0
    /\ pc' = [r \in Requests |-> "idle"]
    /\ window' = [r \in Requests |-> 0]
    /\ \/ HistoryFree /\ UNCHANGED <<history, spoiled, broken>>
       \/ \E r \in Requests : pc[r] = "write" /\ CutHistory(r)
    /\ \/ RegistryFree /\ UNCHANGED <<listing, unlisted>>
       \/ \E r \in Requests : pc[r] = "list" /\ CutListing(r)
    /\ UNCHANGED <<details, windows, kind, faults, recorded, registered>>

Step(r) ==
    \/ Score(r) \/ DecisionFails(r) \/ Decide(r)
    \/ RecordMemory(r) \/ RecordNothing(r) \/ WriteHistory(r) \/ WriteFails(r)
    \/ RegisterNothing(r) \/ WriteDetail(r) \/ DetailFails(r) \/ List(r) \/ ListFails(r)

Next == Crash \/ \E r \in Requests : Step(r)

Spec == Init /\ [][Next]_vars

-----------------------------------------------------------------------------
(***************************************************************************)
(* Properties.                                                             *)
(***************************************************************************)
\* The percentiles are those of the normal windows in memory, although values
\* are cached, rows drop out at the other end, and the process restarts
\* (_history_values_locked, _record_window_history).
StatsFresh == stats # None => stats = Normal(rows)

\* Of the newest windows recorded, a restart finds all but two for every append
\* that did not get through, its own and the one that continued its line, unless
\* a compaction or a load was cut off (_load_window_history_locked).
LossBounded ==
    ~spoiled =>
        Cardinality(ToSet(Kept(recorded)) \ ToSet(Kept(history.rows)))
            <= 2 * broken + Cardinality({r \in Requests : pc[r] = "write"})

\* "It cannot grow without bound": the file holds the retained rows, what this
\* process has appended since it last compacted, and what every process before
\* it and every failed compaction may have left (_record_window_history).
FileBounded ==
    Lines(history) <= MaxRows + (CompactEvery - 1) * (restarts + faults)
                            + IF HistoryFree THEN appends % CompactEvery ELSE CompactEvery - 1

\* What the registry lists has its detail file.
ListedHasDetail == ToSet(listing.rows) \subseteq details

\* What was answered as registered is listed, but for one window behind every
\* append that did not get through.
LossOfListing == Cardinality(registered \ ToSet(listing.rows)) <= unlisted

\* The registry is as good as its files allow (_register_anomaly_window).
RegistryKept == ListedHasDetail /\ LossOfListing
=============================================================================
