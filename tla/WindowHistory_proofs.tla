------------------------ MODULE WindowHistory_proofs ------------------------
(***************************************************************************)
(* Theorems about WindowHistory, for any number of requests, windows,      *)
(* restarts and failed writes, any retention and any compaction interval.  *)
(***************************************************************************)
EXTENDS WindowHistory, TLAPS, SequenceTheorems, FiniteSetTheorems

-----------------------------------------------------------------------------
(***************************************************************************)
(* Logs.                                                                   *)
(***************************************************************************)
\* A log whose tail is a row has one.
Sound(log) == log \in Log /\ (log.tail = "row" => log.rows # <<>>)

\* What an append may make of a log: at most a line more, and at most w in it.
Grown(new, log, w) ==
    /\ Sound(new)
    /\ Lines(new) <= Lines(log) + 1
    /\ ToSet(new.rows) \subseteq ToSet(log.rows) \cup {w}

\* What a sequence holds with one element more.
LEMMA ToSetAppend ==
    ASSUME NEW S, NEW s \in Seq(S), NEW e \in S
    PROVE  /\ Append(s, e) \in Seq(S)
           /\ Len(Append(s, e)) = Len(s) + 1
           /\ ToSet(Append(s, e)) = ToSet(s) \cup {e}
  <1>1. /\ Append(s, e) \in Seq(S)
        /\ Len(Append(s, e)) = Len(s) + 1
        /\ \A i \in 1..Len(s) : Append(s, e)[i] = s[i]
        /\ Append(s, e)[Len(s) + 1] = e
    BY AppendProperties
  <1>2. DOMAIN Append(s, e) = 1..(Len(s) + 1) /\ DOMAIN s = 1..Len(s) /\ Len(s) \in Nat
    BY <1>1, LenProperties
  <1> QED
    BY <1>1, <1>2 DEF ToSet

\* A sequence over S holds members of S.
LEMMA ToSetWithin ==
    ASSUME NEW S, NEW s \in Seq(S)
    PROVE  ToSet(s) \subseteq S
  BY LenProperties, ElementOfSeq DEF ToSet

\* A stretch of a sequence holds nothing else.
LEMMA ToSetSubSeq ==
    ASSUME NEW S, NEW s \in Seq(S), NEW m \in Int, NEW n \in Int, 1 <= m, n <= Len(s)
    PROVE  /\ SubSeq(s, m, n) \in Seq(S)
           /\ Len(SubSeq(s, m, n)) = IF m <= n THEN n - m + 1 ELSE 0
           /\ ToSet(SubSeq(s, m, n)) \subseteq ToSet(s)
  <1>1. Len(s) \in Nat /\ DOMAIN s = 1..Len(s) /\ \A i \in 1..Len(s) : s[i] \in S
    BY LenProperties, ElementOfSeq
  <1>2. /\ SubSeq(s, m, n) \in Seq(S)
        /\ Len(SubSeq(s, m, n)) = IF m <= n THEN n - m + 1 ELSE 0
        /\ \A i \in 1..(n - m + 1) : SubSeq(s, m, n)[i] = s[m + i - 1]
    BY <1>1, SubSeqProperties
  <1>3. DOMAIN SubSeq(s, m, n) = 1..(n - m + 1)
    BY <1>2, LenProperties
  <1>4. \A i \in 1..(n - m + 1) : m + i - 1 \in 1..Len(s)
    BY <1>1
  <1> QED
    BY <1>1, <1>2, <1>3, <1>4 DEF ToSet

\* The newest rows are at most MaxRows rows.
LEMMA KeptRows ==
    ASSUME NEW s \in Seq(Windows)
    PROVE  /\ Kept(s) \in Seq(Windows)
           /\ Len(Kept(s)) <= MaxRows
           /\ ToSet(Kept(s)) \subseteq ToSet(s)
  <1>1. Len(s) \in Nat /\ MaxRows \in Nat \ {0}
    BY LenProperties, RowsAssumption
  <1>2. CASE Len(s) > MaxRows
    <2>1. Kept(s) = SubSeq(s, Len(s) - MaxRows + 1, Len(s))
      BY <1>2 DEF Kept
    <2> QED
      BY <1>1, <1>2, <2>1, ToSetSubSeq
  <1>3. CASE ~(Len(s) > MaxRows)
    <2>1. Kept(s) = SubSeq(s, 1, Len(s))
      BY <1>3 DEF Kept
    <2> QED
      BY <1>1, <1>3, <2>1, ToSetSubSeq
  <1> QED
    BY <1>2, <1>3

LEMMA GarbledGrows ==
    ASSUME NEW log, Sound(log), NEW w \in Windows, NEW t \in {"closed", "torn"}
    PROVE  Grown(Garbled(log, t), log, w) /\ Garbled(log, t).tail = t
  <1>1. log.rows \in Seq(Windows) /\ log.torn \in Nat /\ Len(log.rows) \in Nat
    BY LenProperties DEF Sound, Log
  <1>2. CASE log.tail = "row"
    <2>1. Garbled(log, t) = [rows |-> SubSeq(log.rows, 1, Len(log.rows) - 1),
                             torn |-> log.torn + 1, tail |-> t]
      BY <1>2 DEF Garbled, Front
    <2> QED
      BY <1>1, <1>2, <2>1, ToSetSubSeq DEF Grown, Sound, Log, Lines
  <1>3. CASE log.tail # "row"
    BY <1>1, <1>3 DEF Garbled, Grown, Sound, Log, Lines
  <1> QED
    BY <1>2, <1>3

\* The row behind which the tail stays open, or closes.
LEMMA RowGrows ==
    ASSUME NEW log, Sound(log), NEW w \in Windows, NEW t \in {"closed", "row"}
    PROVE  Grown(WithRow(log, w, t), log, w)
  <1>1. log.rows \in Seq(Windows) /\ log.torn \in Nat /\ Len(log.rows) \in Nat
    BY LenProperties DEF Sound, Log
  <1>2. Append(log.rows, w) # <<>>
    BY <1>1, ToSetAppend
  <1> QED
    BY <1>1, <1>2, ToSetAppend DEF Grown, Sound, Lines, Log, WithRow

LEMMA AppendedGrows ==
    ASSUME NEW log, Sound(log), NEW w \in Windows
    PROVE  Grown(Appended(log, w), log, w)
  <1>1. CASE log.tail = "closed"
    BY <1>1, RowGrows DEF Appended
  <1>2. CASE log.tail # "closed"
    BY <1>2, GarbledGrows DEF Appended
  <1> QED
    BY <1>1, <1>2

LEMMA CutAppendGrows ==
    ASSUME NEW log, Sound(log), NEW w \in Windows, NEW new \in CutAppends(log, w)
    PROVE  Grown(new, log, w)
  <1>1. log.torn \in Nat /\ Len(log.rows) \in Nat
    BY LenProperties DEF Sound, Log
  <1>2. CASE new = log
    BY <1>1, <1>2 DEF Grown, Lines
  <1>3. CASE new = Garbled(log, "torn")
    BY <1>3, GarbledGrows
  <1>4. CASE log.tail = "closed" /\ new = WithRow(log, w, "row")
    BY <1>4, RowGrows
  <1> QED
    BY <1>2, <1>3, <1>4 DEF CutAppends

\* A rewrite, complete or not, leaves no more lines than there are rows.
LEMMA RewriteFits ==
    ASSUME NEW some \in Seq(Windows), NEW new \in {Rewritten(some)} \cup CutRewrites(some)
    PROVE  Sound(new) /\ Lines(new) <= Len(some) /\ ToSet(new.rows) \subseteq ToSet(some)
  <1>1. Len(some) \in Nat
    BY LenProperties
  <1>2. CASE new = Rewritten(some)
    BY <1>1, <1>2 DEF Rewritten, Sound, Log, Lines
  <1>3. ASSUME NEW n \in 0..Len(some),
               new = [rows |-> SubSeq(some, 1, n), torn |-> 0, tail |-> "closed"]
        PROVE  Sound(new) /\ Lines(new) <= Len(some) /\ ToSet(new.rows) \subseteq ToSet(some)
    BY <1>1, <1>3, ToSetSubSeq DEF Sound, Log, Lines
  <1>4. ASSUME NEW n \in 1..Len(some),
               new = [rows |-> SubSeq(some, 1, n), torn |-> 0, tail |-> "row"]
        PROVE  Sound(new) /\ Lines(new) <= Len(some) /\ ToSet(new.rows) \subseteq ToSet(some)
    BY <1>1, <1>4, ToSetSubSeq DEF Sound, Log, Lines
  <1>5. ASSUME NEW n \in 0..(Len(some) - 1),
               new = [rows |-> SubSeq(some, 1, n), torn |-> 1, tail |-> "torn"]
        PROVE  Sound(new) /\ Lines(new) <= Len(some) /\ ToSet(new.rows) \subseteq ToSet(some)
    BY <1>1, <1>5, ToSetSubSeq DEF Sound, Log, Lines
  <1> QED
    BY <1>2, <1>3, <1>4, <1>5 DEF CutRewrites

\* What is loaded are rows of the file, if they are not in memory already.
LEMMA LoadsRows ==
    ASSUME TypeOK, NEW load \in Loads
    PROVE  /\ load[1] \in Seq(Windows) /\ load[1] # None /\ Len(load[1]) <= MaxRows
           /\ load[2] \in BOOLEAN
           /\ rows # None => load[1] = rows
           /\ rows = None => ToSet(load[1]) \subseteq ToSet(history.rows)
  <1>1. history.rows \in Seq(Windows) /\ Len(history.rows) \in Nat
    BY LenProperties DEF TypeOK, Log
  <1>2. CASE rows # None
    <2>1. load = <<rows, FALSE>>
      BY <1>2 DEF Loads
    <2>2. load[1] = rows /\ load[2] = FALSE
      BY <2>1
    <2> QED
      BY <1>2, <2>2 DEF TypeOK
  <1>3. CASE rows = None /\ load = <<Kept(history.rows), FALSE>>
    <2>1. load[1] = Kept(history.rows) /\ load[2] = FALSE
      BY <1>3
    <2> QED
      BY <1>1, <1>3, <2>1, KeptRows, NoneAssumption
  <1>4. ASSUME rows = None, NEW n \in 0..Len(history.rows),
               load = <<Kept(SubSeq(history.rows, 1, n)), TRUE>>
        PROVE  /\ load[1] \in Seq(Windows) /\ load[1] # None /\ Len(load[1]) <= MaxRows
               /\ load[2] \in BOOLEAN
               /\ ToSet(load[1]) \subseteq ToSet(history.rows)
    <2>1. /\ SubSeq(history.rows, 1, n) \in Seq(Windows)
          /\ ToSet(SubSeq(history.rows, 1, n)) \subseteq ToSet(history.rows)
      BY <1>1, ToSetSubSeq
    <2>2. load[1] = Kept(SubSeq(history.rows, 1, n)) /\ load[2] = TRUE
      BY <1>4
    <2> QED
      BY <2>1, <2>2, KeptRows, NoneAssumption
  <1>5. CASE rows = None
    <2>1. \/ load = <<Kept(history.rows), FALSE>>
          \/ \E n \in 0..Len(history.rows) :
                load = <<Kept(SubSeq(history.rows, 1, n)), TRUE>>
      BY <1>5 DEF Loads
    <2> QED
      BY <1>3, <1>4, <1>5, <2>1
  <1> QED
    BY <1>2, <1>5

-----------------------------------------------------------------------------
(***************************************************************************)
(* The inductive invariant.                                                *)
(***************************************************************************)
\* The logs are sound, and the locks exclude.
LockInv ==
    /\ Sound(history) /\ Sound(listing)
    /\ \A r, q \in Requests : pc[r] = "write" /\ pc[q] = "write" => r = q
    /\ \A r \in Requests : pc[r] = "write" => rows # None /\ appends # 0

\* The windows in memory and in the history file.
Stored == ToSet(history.rows) \cup IF rows = None THEN {} ELSE ToSet(rows)

\* A window is in the hands of one request, and new to every file until that
\* request has put it there.
FreshInv ==
    /\ Stored \subseteq 1..windows
    /\ ToSet(listing.rows) \subseteq 1..windows
    /\ \A r \in Requests :
          /\ pc[r] \in {"decide", "record"} => window[r] \notin Stored
          /\ pc[r] # "idle" => window[r] \notin ToSet(listing.rows)
    /\ \A r, q \in Requests : r # q /\ window[r] # 0 => window[r] # window[q]

\* Lines appended since the last compaction.
Behind == IF HistoryFree THEN appends % CompactEvery ELSE (appends - 1) % CompactEvery

LengthInv ==
    Lines(history) <= MaxRows + (CompactEvery - 1) * (restarts + faults) + Behind

\* A window is listed once its detail is written.
DetailInv ==
    /\ ListedHasDetail
    /\ \A r \in Requests : pc[r] = "list" => window[r] \in details

\* Values are cached only of rows in memory.
StatsInv == StatsFresh /\ (rows = None => stats = None)

\* An open line of the listing stands for an append that was not counted yet
\* among those that cost a window, and no window answered as registered is in it.
ListingInv ==
    /\ registered \subseteq 1..windows
    /\ \A r \in Requests : pc[r] # "idle" => window[r] \notin registered
    /\ listing.tail = "row" => Last(listing.rows) \notin registered
    /\ Cardinality(registered \ ToSet(listing.rows))
            + (IF listing.tail = "closed" THEN 0 ELSE 1) <= unlisted

IInv ==
    TypeOK /\ LockInv /\ FreshInv /\ StatsInv /\ LengthInv /\ DetailInv /\ ListingInv

-----------------------------------------------------------------------------
(***************************************************************************)
(* Each part is kept by every step.                                        *)
(***************************************************************************)
\* Division with remainder is unique.
LEMMA Remainder ==
    ASSUME NEW c \in Nat \ {0}, NEW q \in Int, NEW r \in 0..(c - 1)
    PROVE  (c * q + r) % c = r
  <1> DEFINE x == c * q + r
             d == (x \div c) - q
  <1>1. x \in Int /\ x % c \in 0..(c - 1) /\ x \div c \in Int
    OBVIOUS
  <1>2. x = c * (x \div c) + (x % c)
    BY <1>1
  <1>3. d \in Int /\ c * d = r - (x % c)
    BY <1>1, <1>2
  <1> HIDE DEF d
  <1>4. ASSUME d >= 1 PROVE FALSE
    <2>1. c * d >= c
      BY <1>3, <1>4
    <2> QED
      BY <1>1, <1>3, <2>1
  <1>5. ASSUME d <= -1 PROVE FALSE
    <2>1. c * d <= -c
      BY <1>3, <1>5
    <2> QED
      BY <1>1, <1>3, <2>1
  <1>6. c * d = 0
    BY <1>3, <1>4, <1>5
  <1> QED
    BY <1>1, <1>3, <1>6

\* Counting in rounds of CompactEvery.
LEMMA Rounds ==
    ASSUME NEW a \in Nat
    PROVE  /\ a % CompactEvery \in 0..(CompactEvery - 1)
           /\ a # 0 => /\ (a - 1) % CompactEvery \in 0..(CompactEvery - 1)
                       /\ a % CompactEvery # 0 =>
                            a % CompactEvery = ((a - 1) % CompactEvery) + 1
  <1> DEFINE c == CompactEvery
             q == (a - 1) \div c
             r == (a - 1) % c
  <1>1. c \in Nat \ {0}
    BY RowsAssumption
  <1>2. \A b \in Nat : b % c \in 0..(c - 1)
    BY <1>1
  <1>3. ASSUME a # 0, a % c # 0
        PROVE  a % c = ((a - 1) % c) + 1
    <2>1. q \in Int /\ r \in 0..(c - 1) /\ a - 1 = c * q + r
      BY <1>1, <1>3
    <2> HIDE DEF c, q, r
    <2>2. CASE r # c - 1
      <3>1. a = c * q + (r + 1) /\ r + 1 \in 0..(c - 1)
        BY <1>1, <2>1, <2>2
      <3> QED
        BY <1>1, <2>1, <3>1, Remainder DEF r
    <2>3. CASE r = c - 1
      <3>1. a = c * (q + 1) + 0
        BY <1>1, <2>1, <2>3
      <3> QED
        BY <1>1, <1>3, <2>1, <3>1, Remainder
    <2> QED
      BY <2>2, <2>3
  <1> QED
    BY <1>2, <1>3

\* What a write to the history, complete or not, leaves in it.
LEMMA WriteFits ==
    ASSUME IInv, NEW r \in Requests, pc[r] = "write",
           WriteHistory(r) \/ CutHistory(r)
    PROVE  /\ Sound(history')
           /\ ToSet(history'.rows) \subseteq Stored \cup {window[r]}
           /\ \/ Lines(history') <= MaxRows
              \/ Compacting /\ history' = history
              \/ ~Compacting /\ Lines(history') <= Lines(history) + 1
  <1>1. rows \in Seq(Windows) /\ Len(rows) <= MaxRows /\ rows # None /\ window[r] \in Windows
        /\ Len(rows) \in Nat /\ MaxRows \in Nat
    BY LenProperties, BoundAssumption, RowsAssumption DEF IInv, TypeOK, LockInv, Windows
  <1>2. Sound(history) /\ history.torn \in Nat /\ Len(history.rows) \in Nat
    BY LenProperties DEF IInv, LockInv, Sound, Log
  <1>3. CASE Compacting
    <2>1. history' \in {history} \cup {Rewritten(rows)} \cup CutRewrites(rows)
      BY <1>3 DEF WriteHistory, CutHistory
    <2>2. CASE history' = history
      BY <1>2, <1>3, <2>2 DEF Stored
    <2>3. CASE history' \in {Rewritten(rows)} \cup CutRewrites(rows)
      <3>1. Sound(history') /\ Lines(history') <= Len(rows)
            /\ ToSet(history'.rows) \subseteq ToSet(rows)
        BY <1>1, <2>3, RewriteFits
      <3>2. Lines(history') \in Nat
        BY <3>1, LenProperties DEF Sound, Log, Lines
      <3> QED
        BY <1>1, <3>1, <3>2 DEF Stored
    <2> QED
      BY <2>1, <2>2, <2>3
  <1>4. CASE ~Compacting
    <2>1. history' \in {Appended(history, window[r])} \cup CutAppends(history, window[r])
      BY <1>4 DEF WriteHistory, CutHistory
    <2>2. Grown(history', history, window[r])
      BY <1>1, <1>2, <2>1, AppendedGrows, CutAppendGrows
    <2> QED
      BY <1>4, <2>2 DEF Grown, Stored
  <1> QED
    BY <1>3, <1>4

\* What a write to the listing, complete or not, leaves in it.
LEMMA ListingFits ==
    ASSUME IInv, NEW r \in Requests, pc[r] = "list", List(r) \/ CutListing(r)
    PROVE  Grown(listing', listing, window[r])
  <1>1. Sound(listing) /\ window[r] \in Windows
    BY BoundAssumption DEF IInv, TypeOK, LockInv, Windows
  <1> QED
    BY <1>1, AppendedGrows, CutAppendGrows DEF List, CutListing

\* What scoring loads.
LEMMA ScoreLoads ==
    ASSUME IInv, NEW r \in Requests, Score(r)
    PROVE  /\ rows' = None \/ (rows' \in Seq(Windows) /\ Len(rows') <= MaxRows)
           /\ rows # None => rows' # None
           /\ Stored' \subseteq Stored
           /\ faults' \in faults..MaxFaults /\ spoiled' \in BOOLEAN
           /\ \/ rows' = rows /\ stats' = stats
              \/ rows' # None /\ stats' = Normal(rows')
  <1> USE DEF IInv, TypeOK
  <1>1. history' = history
    BY DEF Score, fileVars
  <1>2. CASE UNCHANGED <<rows, stats, faults, spoiled>>
    BY <1>1, <1>2, BoundAssumption DEF Stored
  <1>3. CASE ComputeStats
    <2>1. PICK load \in Loads :
            /\ faults + Fails(load[2]) <= MaxFaults
            /\ rows' = load[1]
            /\ faults' = faults + Fails(load[2])
            /\ spoiled' = (spoiled \/ load[2])
      BY <1>3 DEF ComputeStats
    <2>2. rows' \in Seq(Windows) /\ rows' # None /\ Len(rows') <= MaxRows /\ load[2] \in BOOLEAN
      BY <2>1, LoadsRows
    <2>3. Stored' \subseteq Stored
      BY <1>1, <2>1, <2>2, LoadsRows DEF Stored
    <2> QED
      BY <1>3, <2>1, <2>2, <2>3, BoundAssumption DEF Fails, ComputeStats
  <1> QED
    BY <1>2, <1>3 DEF Score

\* What recording does in memory.
LEMMA RecordLoads ==
    ASSUME IInv, NEW r \in Requests, RecordMemory(r)
    PROVE  /\ rows' \in Seq(Windows) /\ rows' # None /\ Len(rows') <= MaxRows
           /\ Stored' \subseteq Stored \cup {window[r]}
           /\ faults' \in faults..MaxFaults /\ spoiled' \in BOOLEAN
           /\ broken' \in Nat
           /\ \/ pc' = [pc EXCEPT ![r] = "write"] /\ appends' = appends + 1
              \/ pc' = [pc EXCEPT ![r] = "register"] /\ appends' = appends
                 /\ faults' >= faults + 1
  <1> USE DEF IInv, TypeOK
  <1>1. history' = history /\ window[r] \in Windows
    BY BoundAssumption DEF RecordMemory, fileVars, Windows
  <1>2. PICK load \in Loads, bad \in BOOLEAN :
          /\ faults + Fails(load[2]) + Fails(bad) <= MaxFaults
          /\ rows' = Kept(Append(load[1], window[r]))
          /\ faults' = faults + Fails(load[2]) + Fails(bad)
          /\ spoiled' = (spoiled \/ load[2])
          /\ appends' = appends + 1 - Fails(bad)
          /\ broken' = broken + Fails(bad)
          /\ Goto(r, IF bad THEN "register" ELSE "write")
    BY DEF RecordMemory
  <1>3. load[1] \in Seq(Windows) /\ load[2] \in BOOLEAN
    BY LoadsRows
  <1>4. /\ Append(load[1], window[r]) \in Seq(Windows)
        /\ ToSet(Append(load[1], window[r])) = ToSet(load[1]) \cup {window[r]}
    BY <1>1, <1>3, ToSetAppend
  <1>5. /\ rows' \in Seq(Windows) /\ rows' # None /\ Len(rows') <= MaxRows
        /\ ToSet(rows') \subseteq ToSet(load[1]) \cup {window[r]}
    BY <1>2, <1>4, KeptRows, NoneAssumption
  <1>6. Stored' \subseteq Stored \cup {window[r]}
    BY <1>1, <1>5, LoadsRows DEF Stored
  <1>7. faults' \in faults..MaxFaults /\ spoiled' \in BOOLEAN /\ broken' \in Nat
    BY <1>2, <1>3, BoundAssumption DEF Fails
  <1>8. \/ pc' = [pc EXCEPT ![r] = "write"] /\ appends' = appends + 1
        \/ pc' = [pc EXCEPT ![r] = "register"] /\ appends' = appends /\ faults' >= faults + 1
    <2>1. CASE bad
      BY <1>2, <1>3, <2>1, BoundAssumption DEF Fails, Goto
    <2>2. CASE ~bad
      BY <1>2, <1>3, <2>2, BoundAssumption DEF Fails, Goto
    <2> QED
      BY <2>1, <2>2
  <1> QED
    BY <1>5, <1>6, <1>7, <1>8

\* Every step keeps the types.
LEMMA TypesStep ==
    ASSUME IInv, [Next]_vars
    PROVE  TypeOK'
  <1> USE BoundAssumption
      DEF IInv, TypeOK, memoryVars, fileVars, windowVars, countVars, truthVars,
          Goto, Answer
  <1>1. ASSUME NEW r \in Requests, Score(r) PROVE TypeOK'
    <2>1. rows' \in Seq(Windows) => ToSet(rows') \subseteq Windows
      BY ToSetWithin
    <2>2. stats' = None \/ stats' \in SUBSET Windows
      BY <1>1, <2>1, ScoreLoads DEF Normal
    <2>3. windows' \in 0..MaxWindows /\ 0..windows \subseteq 0..windows' /\ windows' \in 0..windows'
          /\ windows' # 0
      BY <1>1 DEF Score
    <2>4. /\ window' \in [Requests -> 0..windows']
          /\ \A q \in Requests : window'[q] = 0 <=> pc'[q] = "idle"
      BY <1>1, <2>3 DEF Score
    <2>5. pc' \in [Requests -> {"idle", "decide", "record", "write", "register", "list"}]
      BY <1>1 DEF Score
    <2>6. UNCHANGED <<appends, fileVars, kind, restarts, recorded, registered, broken, unlisted>>
      BY <1>1 DEF Score
    <2> QED
      BY <1>1, <2>2, <2>3, <2>4, <2>5, <2>6, ScoreLoads
  <1>2. ASSUME NEW r \in Requests, DecisionFails(r) PROVE TypeOK'
    BY <1>2 DEF DecisionFails
  <1>3. ASSUME NEW r \in Requests, Decide(r) PROVE TypeOK'
    BY <1>3 DEF Decide, Kinds
  <1>4. ASSUME NEW r \in Requests, RecordMemory(r) PROVE TypeOK'
    <2>1. recorded' \in Seq(Windows)
      BY <1>4, ToSetAppend DEF RecordMemory, Windows
    <2>2. UNCHANGED <<fileVars, windowVars, restarts, registered, unlisted>> /\ stats' = None
          /\ pc[r] = "record"
      BY <1>4 DEF RecordMemory, Forgotten
    <2>3. faults' \in 0..MaxFaults /\ (appends' = appends \/ appends' = appends + 1)
      BY <1>4, RecordLoads
    <2>4. /\ pc' \in [Requests -> {"idle", "decide", "record", "write", "register", "list"}]
          /\ \A q \in Requests : window'[q] = 0 <=> pc'[q] = "idle"
      BY <1>4, <2>2, RecordLoads
    <2> QED
      BY <1>4, <2>1, <2>2, <2>3, <2>4, RecordLoads
  <1>5. ASSUME NEW r \in Requests, RecordNothing(r) PROVE TypeOK'
    BY <1>5 DEF RecordNothing
  <1>6. ASSUME NEW r \in Requests, WriteHistory(r) PROVE TypeOK'
    <2>1. history' \in Log
      BY <1>6, WriteFits DEF WriteHistory, Sound
    <2> QED
      BY <1>6, <2>1 DEF WriteHistory
  <1>7. ASSUME NEW r \in Requests, WriteFails(r) PROVE TypeOK'
    <2>1. history' \in Log /\ spoiled' \in BOOLEAN /\ broken' \in Nat
      BY <1>7, WriteFits DEF WriteFails, CutHistory, Sound, Compacting
    <2> QED
      BY <1>7, <2>1 DEF WriteFails
  <1>8. ASSUME NEW r \in Requests, RegisterNothing(r) PROVE TypeOK'
    BY <1>8 DEF RegisterNothing
  <1>9. ASSUME NEW r \in Requests, WriteDetail(r) PROVE TypeOK'
    <2>1. window[r] \in Windows /\ pc[r] = "register"
      BY <1>9 DEF WriteDetail, Windows
    <2>2. details' \in SUBSET Windows
      BY <1>9, <2>1 DEF WriteDetail
    <2> QED
      BY <1>9, <2>2 DEF WriteDetail
  <1>10. ASSUME NEW r \in Requests, DetailFails(r) PROVE TypeOK'
    <2>1. details' = details \ {window[r]} /\ faults' = faults + 1 /\ faults < MaxFaults
      BY <1>10 DEF DetailFails
    <2>2. details' \in SUBSET Windows
      BY <2>1
    <2>3. faults' \in 0..MaxFaults
      BY <2>1
    <2> QED
      BY <1>10, <2>2, <2>3 DEF DetailFails
  <1>11. ASSUME NEW r \in Requests, List(r) PROVE TypeOK'
    <2>1. listing' \in Log
      BY <1>11, ListingFits DEF List, Grown, Sound
    <2>2. window[r] \in Windows /\ pc[r] = "list"
      BY <1>11 DEF List, Windows
    <2>3. registered' \in SUBSET Windows
      BY <1>11, <2>2 DEF List
    <2> QED
      BY <1>11, <2>1, <2>3 DEF List
  <1>12. ASSUME NEW r \in Requests, ListFails(r) PROVE TypeOK'
    <2>1. listing' \in Log /\ unlisted' \in Nat
      BY <1>12, ListingFits DEF ListFails, CutListing, Grown, Sound
    <2> QED
      BY <1>12, <2>1 DEF ListFails
  <1>13. CASE Crash
    <2>0. \/ UNCHANGED <<history, spoiled, broken>>
          \/ \E r \in Requests : pc[r] = "write" /\ CutHistory(r)
      BY <1>13 DEF Crash
    <2>1. history' \in Log /\ spoiled' \in BOOLEAN /\ broken' \in Nat
      <3>1. ASSUME NEW r \in Requests, pc[r] = "write", CutHistory(r)
            PROVE  history' \in Log /\ spoiled' \in BOOLEAN /\ broken' \in Nat
        BY <3>1, WriteFits DEF CutHistory, Sound, Compacting
      <3> QED
        BY <2>0, <3>1
    <2>2. listing' \in Log /\ unlisted' \in Nat
      BY <1>13, ListingFits DEF Crash, CutListing, Grown, Sound
    <2> QED
      BY <1>13, <2>1, <2>2 DEF Crash
  <1>14. CASE UNCHANGED vars
    BY <1>14 DEF vars
  <1> QED
    BY <1>1, <1>2, <1>3, <1>4, <1>5, <1>6, <1>7, <1>8, <1>9, <1>10, <1>11, <1>12,
       <1>13, <1>14
    DEF Next, Step

\* The logs stay sound and the locks exclusive.
LEMMA LockStep ==
    ASSUME IInv, [Next]_vars
    PROVE  LockInv'
  <1> USE BoundAssumption
      DEF IInv, TypeOK, LockInv, memoryVars, fileVars, windowVars, countVars,
          truthVars, Goto, Answer
  <1>1. ASSUME NEW r \in Requests, Score(r) PROVE LockInv'
    BY <1>1, ScoreLoads DEF Score
  <1>2. ASSUME NEW r \in Requests, DecisionFails(r) PROVE LockInv'
    BY <1>2 DEF DecisionFails
  <1>3. ASSUME NEW r \in Requests, Decide(r) PROVE LockInv'
    BY <1>3 DEF Decide
  <1>4. ASSUME NEW r \in Requests, RecordMemory(r) PROVE LockInv'
    <2>1. /\ history' = history /\ listing' = listing
          /\ \A q \in Requests : pc[q] # "write"
      BY <1>4 DEF RecordMemory, HistoryFree
    <2>2. /\ rows' # None
          /\ \A q \in Requests : pc'[q] = "write" => q = r /\ appends' = appends + 1
      BY <1>4, <2>1, RecordLoads
    <2> QED
      BY <2>1, <2>2
  <1>5. ASSUME NEW r \in Requests, RecordNothing(r) PROVE LockInv'
    BY <1>5 DEF RecordNothing
  <1>6. ASSUME NEW r \in Requests, WriteHistory(r) PROVE LockInv'
    BY <1>6, WriteFits DEF WriteHistory
  <1>7. ASSUME NEW r \in Requests, WriteFails(r) PROVE LockInv'
    BY <1>7, WriteFits DEF WriteFails
  <1>8. ASSUME NEW r \in Requests, RegisterNothing(r) PROVE LockInv'
    BY <1>8 DEF RegisterNothing
  <1>9. ASSUME NEW r \in Requests, WriteDetail(r) PROVE LockInv'
    BY <1>9 DEF WriteDetail
  <1>10. ASSUME NEW r \in Requests, DetailFails(r) PROVE LockInv'
    BY <1>10 DEF DetailFails
  <1>11. ASSUME NEW r \in Requests, List(r) PROVE LockInv'
    BY <1>11, ListingFits DEF List, Grown
  <1>12. ASSUME NEW r \in Requests, ListFails(r) PROVE LockInv'
    BY <1>12, ListingFits DEF ListFails, Grown
  <1>13. CASE Crash
    <2>1. Sound(history')
      BY <1>13, WriteFits DEF Crash
    <2>2. Sound(listing')
      BY <1>13, ListingFits DEF Crash, Grown
    <2> QED
      BY <1>13, <2>1, <2>2 DEF Crash
  <1>14. CASE UNCHANGED vars
    BY <1>14 DEF vars
  <1> QED
    BY <1>1, <1>2, <1>3, <1>4, <1>5, <1>6, <1>7, <1>8, <1>9, <1>10, <1>11, <1>12,
       <1>13, <1>14
    DEF Next, Step

\* A window reaches a file by its own request only.
LEMMA FreshStep ==
    ASSUME IInv, [Next]_vars
    PROVE  FreshInv'
  <1> USE BoundAssumption
      DEF IInv, TypeOK, FreshInv, memoryVars, fileVars, windowVars, countVars,
          truthVars, Goto, Answer
  <1>1. ASSUME NEW r \in Requests, Score(r) PROVE FreshInv'
    <2>1. Stored' \subseteq Stored
      BY <1>1, ScoreLoads
    <2>2. /\ listing' = listing /\ windows' = windows + 1
          /\ pc[r] = "idle" /\ pc' = [pc EXCEPT ![r] = "decide"]
          /\ window' = [window EXCEPT ![r] = windows']
      BY <1>1 DEF Score
    <2> QED
      BY <2>1, <2>2
  <1>2. ASSUME NEW r \in Requests, DecisionFails(r) PROVE FreshInv'
    <2>1. Stored' = Stored
      BY <1>2 DEF Stored, DecisionFails
    <2> QED
      BY <1>2, <2>1 DEF DecisionFails
  <1>3. ASSUME NEW r \in Requests, Decide(r) PROVE FreshInv'
    <2>1. Stored' = Stored
      BY <1>3 DEF Stored, Decide
    <2> QED
      BY <1>3, <2>1 DEF Decide
  <1>4. ASSUME NEW r \in Requests, RecordMemory(r) PROVE FreshInv'
    <2>1. Stored' \subseteq Stored \cup {window[r]}
      BY <1>4, RecordLoads
    <2>2. /\ listing' = listing /\ windows' = windows /\ window' = window
          /\ pc[r] = "record"
          /\ \E place \in {"write", "register"} : pc' = [pc EXCEPT ![r] = place]
      BY <1>4, RecordLoads DEF RecordMemory
    <2> QED
      BY <2>1, <2>2
  <1>5. ASSUME NEW r \in Requests, RecordNothing(r) PROVE FreshInv'
    <2>1. Stored' = Stored
      BY <1>5 DEF Stored, RecordNothing
    <2> QED
      BY <1>5, <2>1 DEF RecordNothing
  <1>6. ASSUME NEW r \in Requests, WriteHistory(r) PROVE FreshInv'
    <2>1. /\ rows' = rows /\ listing' = listing /\ windows' = windows /\ window' = window
          /\ pc[r] = "write" /\ pc' = [pc EXCEPT ![r] = "register"]
      BY <1>6 DEF WriteHistory
    <2>2. Stored' \subseteq Stored \cup {window[r]}
      BY <1>6, <2>1, WriteFits DEF Stored, WriteHistory
    <2> QED
      BY <2>1, <2>2
  <1>7. ASSUME NEW r \in Requests, WriteFails(r) PROVE FreshInv'
    <2>1. /\ rows' = rows /\ listing' = listing /\ windows' = windows /\ window' = window
          /\ pc[r] = "write" /\ pc' = [pc EXCEPT ![r] = "register"]
      BY <1>7 DEF WriteFails
    <2>2. Stored' \subseteq Stored \cup {window[r]}
      BY <1>7, <2>1, WriteFits DEF Stored, WriteFails
    <2> QED
      BY <2>1, <2>2
  <1>8. ASSUME NEW r \in Requests, RegisterNothing(r) PROVE FreshInv'
    <2>1. Stored' = Stored
      BY <1>8 DEF Stored, RegisterNothing
    <2> QED
      BY <1>8, <2>1 DEF RegisterNothing
  <1>9. ASSUME NEW r \in Requests, WriteDetail(r) PROVE FreshInv'
    <2>1. Stored' = Stored
      BY <1>9 DEF Stored, WriteDetail
    <2> QED
      BY <1>9, <2>1 DEF WriteDetail
  <1>10. ASSUME NEW r \in Requests, DetailFails(r) PROVE FreshInv'
    <2>1. Stored' = Stored
      BY <1>10 DEF Stored, DetailFails
    <2> QED
      BY <1>10, <2>1 DEF DetailFails
  <1>11. ASSUME NEW r \in Requests, List(r) PROVE FreshInv'
    <2>1. /\ history' = history /\ rows' = rows /\ windows' = windows
          /\ window' = [window EXCEPT ![r] = 0]
          /\ pc[r] = "list" /\ pc' = [pc EXCEPT ![r] = "idle"]
      BY <1>11 DEF List
    <2>2. Stored' = Stored
      BY <2>1 DEF Stored
    <2>3. ToSet(listing'.rows) \subseteq ToSet(listing.rows) \cup {window[r]}
      BY <1>11, ListingFits DEF Grown, List
    <2> QED
      BY <2>1, <2>2, <2>3
  <1>12. ASSUME NEW r \in Requests, ListFails(r) PROVE FreshInv'
    <2>1. /\ history' = history /\ rows' = rows /\ windows' = windows
          /\ window' = [window EXCEPT ![r] = 0]
          /\ pc[r] = "list" /\ pc' = [pc EXCEPT ![r] = "idle"]
      BY <1>12 DEF ListFails
    <2>2. Stored' = Stored
      BY <2>1 DEF Stored
    <2>3. ToSet(listing'.rows) \subseteq ToSet(listing.rows) \cup {window[r]}
      BY <1>12, ListingFits DEF Grown, ListFails
    <2> QED
      BY <2>1, <2>2, <2>3
  <1>13. CASE Crash
    <2>1. /\ rows' = None /\ windows' = windows
          /\ \A q \in Requests : pc'[q] = "idle" /\ window'[q] = 0
      BY <1>13 DEF Crash
    <2>2. ToSet(history'.rows) \subseteq 1..windows
      <3>1. CASE history' = history
        BY <3>1 DEF Stored
      <3>2. ASSUME NEW r \in Requests, pc[r] = "write", CutHistory(r)
            PROVE  ToSet(history'.rows) \subseteq 1..windows
        <4>1. window[r] \in 1..windows
          BY <3>2
        <4> QED
          BY <3>2, <4>1, WriteFits
      <3> QED
        BY <1>13, <3>1, <3>2 DEF Crash
    <2>3. ToSet(listing'.rows) \subseteq 1..windows
      <3>1. ASSUME NEW r \in Requests, pc[r] = "list", CutListing(r)
            PROVE  ToSet(listing'.rows) \subseteq 1..windows
        BY <3>1, ListingFits DEF Grown
      <3> QED
        BY <1>13, <3>1 DEF Crash
    <2> QED
      BY <2>1, <2>2, <2>3 DEF Stored
  <1>14. CASE UNCHANGED vars
    BY <1>14 DEF vars, Stored
  <1> QED
    BY <1>1, <1>2, <1>3, <1>4, <1>5, <1>6, <1>7, <1>8, <1>9, <1>10, <1>11, <1>12,
       <1>13, <1>14
    DEF Next, Step

\* The cached values are those of the rows.
LEMMA StatsStep ==
    ASSUME IInv, [Next]_vars
    PROVE  StatsInv'
  <1> USE
      DEF IInv, TypeOK, StatsInv, StatsFresh, Normal, memoryVars, fileVars,
          windowVars, countVars, truthVars, Goto, Answer
  <1>1. ASSUME NEW r \in Requests, Score(r) PROVE StatsInv'
    <2>1. kind' = kind
      BY <1>1 DEF Score
    <2> QED
      BY <1>1, <2>1, ScoreLoads DEF Normal
  <1>2. ASSUME NEW r \in Requests, DecisionFails(r) PROVE StatsInv'
    BY <1>2 DEF DecisionFails
  <1>3. ASSUME NEW r \in Requests, Decide(r) PROVE StatsInv'
    <2>1. /\ rows' = rows /\ stats' = stats /\ pc[r] = "decide"
          /\ \E k \in Kinds : kind' = [kind EXCEPT ![window[r]] = k]
      BY <1>3 DEF Decide
    <2>2. rows # None => window[r] \notin ToSet(rows)
      BY <2>1 DEF FreshInv, Stored
    <2>3. rows # None => Normal(rows)' = Normal(rows)
      <3> SUFFICES ASSUME rows # None PROVE Normal(rows)' = Normal(rows)
        OBVIOUS
      <3>1. ToSet(rows) \subseteq Windows
        BY ToSetWithin
      <3> QED
        BY <2>1, <2>2, <3>1 DEF Normal
    <2> QED
      BY <2>1, <2>3
  <1>4. ASSUME NEW r \in Requests, RecordMemory(r) PROVE StatsInv'
    BY <1>4 DEF RecordMemory, Forgotten
  <1>5. ASSUME NEW r \in Requests, RecordNothing(r) PROVE StatsInv'
    BY <1>5 DEF RecordNothing
  <1>6. ASSUME NEW r \in Requests, WriteHistory(r) PROVE StatsInv'
    BY <1>6 DEF WriteHistory
  <1>7. ASSUME NEW r \in Requests, WriteFails(r) PROVE StatsInv'
    BY <1>7 DEF WriteFails
  <1>8. ASSUME NEW r \in Requests, RegisterNothing(r) PROVE StatsInv'
    BY <1>8 DEF RegisterNothing
  <1>9. ASSUME NEW r \in Requests, WriteDetail(r) PROVE StatsInv'
    BY <1>9 DEF WriteDetail
  <1>10. ASSUME NEW r \in Requests, DetailFails(r) PROVE StatsInv'
    BY <1>10 DEF DetailFails
  <1>11. ASSUME NEW r \in Requests, List(r) PROVE StatsInv'
    BY <1>11 DEF List
  <1>12. ASSUME NEW r \in Requests, ListFails(r) PROVE StatsInv'
    BY <1>12 DEF ListFails
  <1>13. CASE Crash
    BY <1>13 DEF Crash
  <1>14. CASE UNCHANGED vars
    BY <1>14 DEF vars
  <1> QED
    BY <1>1, <1>2, <1>3, <1>4, <1>5, <1>6, <1>7, <1>8, <1>9, <1>10, <1>11, <1>12,
       <1>13, <1>14
    DEF Next, Step

\* A window is listed behind its details.
LEMMA DetailStep ==
    ASSUME IInv, [Next]_vars
    PROVE  DetailInv'
  <1> USE
      DEF IInv, TypeOK, DetailInv, ListedHasDetail, memoryVars, fileVars,
          windowVars, countVars, truthVars, Goto, Answer
  <1>1. ASSUME NEW r \in Requests, Score(r) PROVE DetailInv'
    BY <1>1 DEF Score
  <1>2. ASSUME NEW r \in Requests, DecisionFails(r) PROVE DetailInv'
    BY <1>2 DEF DecisionFails
  <1>3. ASSUME NEW r \in Requests, Decide(r) PROVE DetailInv'
    BY <1>3 DEF Decide
  <1>4. ASSUME NEW r \in Requests, RecordMemory(r) PROVE DetailInv'
    <2>1. /\ \E place \in {"write", "register"} : pc' = [pc EXCEPT ![r] = place]
          /\ UNCHANGED <<listing, details, window>>
      BY <1>4, RecordLoads DEF RecordMemory
    <2> QED
      BY <2>1
  <1>5. ASSUME NEW r \in Requests, RecordNothing(r) PROVE DetailInv'
    BY <1>5 DEF RecordNothing
  <1>6. ASSUME NEW r \in Requests, WriteHistory(r) PROVE DetailInv'
    BY <1>6 DEF WriteHistory
  <1>7. ASSUME NEW r \in Requests, WriteFails(r) PROVE DetailInv'
    BY <1>7 DEF WriteFails
  <1>8. ASSUME NEW r \in Requests, RegisterNothing(r) PROVE DetailInv'
    BY <1>8 DEF RegisterNothing
  <1>9. ASSUME NEW r \in Requests, WriteDetail(r) PROVE DetailInv'
    BY <1>9 DEF WriteDetail
  <1>10. ASSUME NEW r \in Requests, DetailFails(r) PROVE DetailInv'
    <2>1. /\ pc[r] = "register" /\ details' = details \ {window[r]} /\ listing' = listing
          /\ window' = [window EXCEPT ![r] = 0] /\ pc' = [pc EXCEPT ![r] = "idle"]
          /\ \A q \in Requests : pc[q] # "list"
      BY <1>10 DEF DetailFails, RegistryFree
    <2>2. window[r] \notin ToSet(listing.rows)
      BY <2>1 DEF FreshInv
    <2> QED
      BY <2>1, <2>2
  <1>11. ASSUME NEW r \in Requests, List(r) PROVE DetailInv'
    <2>1. /\ details' = details /\ pc[r] = "list" /\ pc' = [pc EXCEPT ![r] = "idle"]
          /\ window' = [window EXCEPT ![r] = 0]
      BY <1>11 DEF List, ListFails
    <2>2. ToSet(listing'.rows) \subseteq ToSet(listing.rows) \cup {window[r]}
      BY <1>11, <2>1, ListingFits DEF Grown
    <2> QED
      BY <2>1, <2>2
  <1>12. ASSUME NEW r \in Requests, ListFails(r) PROVE DetailInv'
    <2>1. /\ details' = details /\ pc[r] = "list" /\ pc' = [pc EXCEPT ![r] = "idle"]
          /\ window' = [window EXCEPT ![r] = 0]
      BY <1>12 DEF List, ListFails
    <2>2. ToSet(listing'.rows) \subseteq ToSet(listing.rows) \cup {window[r]}
      BY <1>12, <2>1, ListingFits DEF Grown, ListFails
    <2> QED
      BY <2>1, <2>2
  <1>13. CASE Crash
    <2>1. details' = details /\ \A q \in Requests : pc'[q] = "idle"
      BY <1>13 DEF Crash
    <2>2. ToSet(listing'.rows) \subseteq details
      <3>1. ASSUME NEW r \in Requests, pc[r] = "list", CutListing(r)
            PROVE  ToSet(listing'.rows) \subseteq details
        BY <3>1, ListingFits DEF Grown
      <3> QED
        BY <1>13, <3>1 DEF Crash
    <2> QED
      BY <2>1, <2>2
  <1>14. CASE UNCHANGED vars
    BY <1>14 DEF vars
  <1> QED
    BY <1>1, <1>2, <1>3, <1>4, <1>5, <1>6, <1>7, <1>8, <1>9, <1>10, <1>11, <1>12,
       <1>13, <1>14
    DEF Next, Step

\* Every fault and restart buys a round of lines more.
LEMMA Allowance ==
    ASSUME NEW m \in Nat, NEW n \in Nat
    PROVE  /\ (CompactEvery - 1) * m \in Nat
           /\ (CompactEvery - 1) * (m + 1) = (CompactEvery - 1) * m + (CompactEvery - 1)
           /\ m <= n => (CompactEvery - 1) * m <= (CompactEvery - 1) * n
  <1> DEFINE k == CompactEvery - 1
  <1>1. k \in Nat
    BY RowsAssumption
  <1> HIDE DEF k
  <1>2. /\ k * m \in Nat
        /\ k * (m + 1) = k * m + k
        /\ m <= n => k * m <= k * n
    <2>1. ASSUME m <= n PROVE k * m <= k * n
      <3>1. n - m \in Nat /\ k * (n - m) \in Nat
        BY <1>1, <2>1
      <3>2. k * n = k * m + k * (n - m)
        BY <1>1, <3>1
      <3> QED
        BY <1>1, <3>1, <3>2
    <2> QED
      BY <1>1, <2>1
  <1> QED
    BY <1>2 DEF k

LEMMA Counts ==
    TypeOK => restarts \in Nat /\ faults \in Nat /\ appends \in Nat /\ Lines(history) \in Nat
  <1> SUFFICES ASSUME TypeOK
               PROVE  /\ restarts \in Nat /\ faults \in Nat /\ appends \in Nat
                      /\ Lines(history) \in Nat
    OBVIOUS
  <1>1. restarts \in 0..MaxRestarts /\ faults \in 0..MaxFaults /\ appends \in Nat
        /\ history \in Log
    BY DEF TypeOK
  <1>2. Len(history.rows) \in Nat /\ history.torn \in Nat
    BY <1>1, LenProperties DEF Log
  <1> QED
    BY <1>1, <1>2, BoundAssumption DEF Lines

LEMMA CountsNext ==
    TypeOK' => restarts' \in Nat /\ faults' \in Nat /\ appends' \in Nat /\ Lines(history') \in Nat
  <1> SUFFICES ASSUME TypeOK'
               PROVE  /\ restarts' \in Nat /\ faults' \in Nat /\ appends' \in Nat
                      /\ Lines(history') \in Nat
    OBVIOUS
  <1>1. restarts' \in 0..MaxRestarts /\ faults' \in 0..MaxFaults /\ appends' \in Nat
        /\ history' \in Log
    BY DEF TypeOK
  <1>2. Len(history'.rows) \in Nat /\ history'.torn \in Nat
    BY <1>1, LenProperties DEF Log
  <1> QED
    BY <1>1, <1>2, BoundAssumption DEF Lines

\* A step that leaves the file alone.
LEMMA LengthKept ==
    ASSUME IInv, TypeOK', history' = history, restarts' = restarts, faults' >= faults,
           Behind' = Behind
    PROVE  LengthInv'
  <1>1. /\ restarts + faults \in Nat /\ restarts' + faults' \in Nat
        /\ restarts + faults <= restarts' + faults'
    BY Counts, CountsNext DEF IInv
  <1>2. (CompactEvery - 1) * (restarts + faults) <= (CompactEvery - 1) * (restarts' + faults')
    BY <1>1, Allowance
  <1>3. Lines(history') = Lines(history)
    OBVIOUS
  <1>4. /\ (CompactEvery - 1) * (restarts + faults) \in Nat
        /\ (CompactEvery - 1) * (restarts' + faults') \in Nat
    BY <1>1, Allowance
  <1>5. Behind \in Int /\ Lines(history) \in Int /\ MaxRows \in Int
    <2>1. appends - 1 \in Int /\ appends \in Int /\ CompactEvery \in Nat \ {0}
      BY Counts, RowsAssumption DEF IInv
    <2> QED
      BY <2>1, Counts, RowsAssumption DEF IInv, Behind
  <1>6. Lines(history) <= MaxRows + (CompactEvery - 1) * (restarts + faults) + Behind
    BY DEF IInv, LengthInv
  <1> HIDE DEF Behind, Lines
  <1> QED
    BY <1>2, <1>3, <1>4, <1>5, <1>6 DEF LengthInv

\* A restart between two writes.
LEMMA LengthRestarted ==
    ASSUME IInv, TypeOK', history' = history, HistoryFree, Behind' = 0,
           restarts' + faults' >= restarts + faults + 1
    PROVE  LengthInv'
  <1> DEFINE k == CompactEvery - 1
             a == k * (restarts + faults)
             b == k * (restarts' + faults')
             l == Lines(history)
  <1>1. k \in Nat /\ MaxRows \in Nat
    BY RowsAssumption
  <1>2. /\ restarts + faults \in Nat /\ restarts' + faults' \in Nat
        /\ restarts + faults + 1 \in Nat
    BY Counts, CountsNext DEF IInv
  <1>3. a \in Nat /\ b \in Nat /\ a + k <= b
    BY <1>1, <1>2, Allowance
  <1>4. Behind \in 0..k
    BY Rounds DEF IInv, TypeOK, Behind
  <1>5. l \in Nat /\ Lines(history') = l
    BY Counts DEF IInv
  <1>6. l <= MaxRows + a + Behind
    BY DEF IInv, LengthInv
  <1> HIDE DEF k, a, b, l
  <1>7. l <= MaxRows + b + 0
    BY <1>1, <1>3, <1>4, <1>5, <1>6
  <1> QED
    BY <1>5, <1>7 DEF LengthInv, k, b

\* A write, complete or not, that no other step interrupts.
LEMMA LengthWritten ==
    ASSUME IInv, TypeOK', NEW r \in Requests, pc[r] = "write",
           WriteHistory(r) \/ CutHistory(r),
           Compacting => \/ Lines(history') <= MaxRows
                         \/ restarts' + faults' >= restarts + faults + 1,
           restarts' + faults' >= restarts + faults,
           Behind' = appends % CompactEvery \/
               (Behind' = 0 /\ restarts' + faults' >= restarts + faults + 1)
    PROVE  LengthInv'
  <1> DEFINE k == CompactEvery - 1
             a == k * (restarts + faults)
             b == k * (restarts' + faults')
             l == Lines(history)
             m == Lines(history')
             d == (appends - 1) % CompactEvery
             e == appends % CompactEvery
  <1>1. k \in Nat /\ MaxRows \in Nat
    BY RowsAssumption
  <1>2. restarts + faults \in Nat /\ restarts' + faults' \in Nat
    BY Counts, CountsNext DEF IInv
  <1>3. a \in Nat /\ b \in Nat /\ a <= b
    BY <1>2, Allowance
  <1>4. restarts' + faults' >= restarts + faults + 1 => a + k <= b
    <2>1. restarts + faults + 1 \in Nat
      BY <1>2
    <2> QED
      BY <1>1, <1>2, <2>1, Allowance
  <1>5. appends \in Nat /\ appends # 0 /\ Behind = d
    BY DEF IInv, TypeOK, LockInv, HistoryFree, Behind
  <1>6. d \in 0..k /\ e \in 0..k /\ (e # 0 => e = d + 1)
    BY <1>5, Rounds
  <1>7. l \in Nat /\ m \in Nat
    BY Counts, CountsNext DEF IInv
  <1>8. l <= MaxRows + a + d
    BY <1>5 DEF IInv, LengthInv
  <1>9. \/ m <= MaxRows
        \/ e = 0 /\ history' = history
        \/ e # 0 /\ m <= l + 1
    BY WriteFits DEF Compacting
  <1>10. e = 0 /\ history' = history => m <= MaxRows \/ (m = l /\ a + k <= b)
    BY <1>4 DEF Compacting
  <1>11. Behind' = e \/ (Behind' = 0 /\ a + k <= b)
    BY <1>4
  <1> HIDE DEF k, a, b, l, m, d, e
  <1>12. m <= MaxRows + b + Behind'
    <2>1. CASE m <= MaxRows
      BY <1>1, <1>3, <1>6, <1>7, <1>11, <2>1
    <2>2. CASE e = 0 /\ history' = history
      BY <1>1, <1>3, <1>6, <1>7, <1>8, <1>10, <1>11, <2>2
    <2>3. CASE e # 0 /\ m <= l + 1
      BY <1>1, <1>3, <1>6, <1>7, <1>8, <1>11, <2>3
    <2> QED
      BY <1>9, <2>1, <2>2, <2>3
  <1> QED
    BY <1>12 DEF LengthInv, k, b, m

\* Sets of registered windows can be counted.
LEMMA Counted ==
    ASSUME NEW A \in SUBSET Windows, NEW B \in SUBSET Windows, NEW w
    PROVE  /\ Cardinality(A) \in Nat
           /\ A \subseteq B => Cardinality(A) <= Cardinality(B)
           /\ A \subseteq B \cup {w} => Cardinality(A) <= Cardinality(B) + 1
  <1>1. IsFiniteSet(Windows)
    BY FS_Interval, BoundAssumption DEF Windows
  <1>2. IsFiniteSet(A) /\ IsFiniteSet(B)
    BY <1>1, FS_Subset
  <1>3. Cardinality(A) \in Nat /\ Cardinality(B) \in Nat
    BY <1>2, FS_CardinalityType
  <1>4. /\ IsFiniteSet(B \cup {w})
        /\ Cardinality(B \cup {w}) <= Cardinality(B) + 1
    <2>1. IsFiniteSet(B \cup {w})
      BY <1>2, FS_AddElement
    <2>2. CASE w \in B
      <3>1. Cardinality(B \cup {w}) = Cardinality(B)
        BY <1>2, <2>2, FS_AddElement
      <3>2. Cardinality(B) <= Cardinality(B) + 1
        BY <1>3
      <3> QED
        BY <2>1, <3>1, <3>2, Zenon
    <2>3. CASE w \notin B
      <3>1. Cardinality(B \cup {w}) = Cardinality(B) + 1
        BY <1>2, <2>3, FS_AddElement
      <3>2. Cardinality(B) + 1 <= Cardinality(B) + 1
        BY <1>3
      <3> QED
        BY <2>1, <3>1, <3>2, Zenon
    <2> QED
      BY <2>2, <2>3
  <1>5. A \subseteq B \cup {w} => Cardinality(A) <= Cardinality(B \cup {w})
    BY <1>4, FS_Subset
  <1>6. Cardinality(B \cup {w}) \in Nat
    BY <1>4, FS_CardinalityType
  <1> QED
    BY <1>2, <1>3, <1>4, <1>5, <1>6, FS_Subset

\* The last line but one.
LEMMA WithoutLast ==
    ASSUME NEW s \in Seq(Windows), s # <<>>
    PROVE  ToSet(s) \subseteq ToSet(Front(s)) \cup {Last(s)}
  <1>1. Len(s) \in Nat \ {0} /\ DOMAIN s = 1..Len(s)
    BY LenProperties, EmptySeq
  <1>2. /\ SubSeq(s, 1, Len(s) - 1) \in Seq(Windows)
        /\ Len(SubSeq(s, 1, Len(s) - 1)) = Len(s) - 1
        /\ \A i \in 1..(Len(s) - 1) : SubSeq(s, 1, Len(s) - 1)[i] = s[i]
    BY <1>1, SubSeqProperties, ElementOfSeq
  <1>3. DOMAIN SubSeq(s, 1, Len(s) - 1) = 1..(Len(s) - 1)
    BY <1>1, <1>2, LenProperties
  <1>4. ASSUME NEW i \in 1..Len(s) PROVE s[i] \in ToSet(Front(s)) \cup {Last(s)}
    <2>1. CASE i = Len(s)
      BY <2>1 DEF Last
    <2>2. CASE i \in 1..(Len(s) - 1)
      BY <1>2, <1>3, <2>2 DEF ToSet, Front
    <2>3. i = Len(s) \/ i \in 1..(Len(s) - 1)
      <3>1. Len(s) \in Nat
        BY <1>1
      <3> QED
        BY <3>1
    <2> QED
      BY <2>1, <2>2, <2>3
  <1>5. \A x \in ToSet(s) : \E i \in 1..Len(s) : x = s[i]
    BY <1>1 DEF ToSet
  <1> QED
    BY <1>4, <1>5

\* A line turned into a torn one costs no window that was registered.
LEMMA GarbledListing ==
    ASSUME IInv, NEW t \in {"closed", "torn"}
    PROVE  registered \ ToSet(Garbled(listing, t).rows) \subseteq registered \ ToSet(listing.rows)
  <1>1. CASE listing.tail = "row"
    <2>1. listing.rows \in Seq(Windows) /\ listing.rows # <<>>
      BY <1>1 DEF IInv, LockInv, Sound, Log
    <2>2. Garbled(listing, t).rows = Front(listing.rows)
      BY <1>1 DEF Garbled
    <2>3. Last(listing.rows) \notin registered
      BY <1>1 DEF IInv, ListingInv
    <2> QED
      BY <2>1, <2>2, <2>3, WithoutLast
  <1>2. CASE listing.tail # "row"
    BY <1>2 DEF Garbled
  <1> QED
    BY <1>1, <1>2

\* A row behind a closed line loses nothing.
LEMMA RowListed ==
    ASSUME IInv, NEW w \in Windows, NEW t
    PROVE  /\ ToSet(WithRow(listing, w, t).rows) = ToSet(listing.rows) \cup {w}
           /\ Last(WithRow(listing, w, t).rows) = w
  <1>1. listing.rows \in Seq(Windows)
    BY DEF IInv, LockInv, Sound, Log
  <1>2. /\ Append(listing.rows, w) \in Seq(Windows)
        /\ Len(Append(listing.rows, w)) = Len(listing.rows) + 1
        /\ Append(listing.rows, w)[Len(listing.rows) + 1] = w
    BY <1>1, AppendProperties
  <1> QED
    BY <1>1, <1>2, ToSetAppend DEF WithRow, Last

\* An append to the listing that does not get through.
LEMMA CutListed ==
    ASSUME IInv, NEW r \in Requests, pc[r] = "list", CutListing(r), registered' = registered
    PROVE  /\ listing'.tail = "row" => Last(listing'.rows) \notin registered
           /\ Cardinality(registered \ ToSet(listing'.rows))
                + (IF listing'.tail = "closed" THEN 0 ELSE 1) <= unlisted'
  <1> DEFINE lost == registered \ ToSet(listing.rows)
             now  == registered \ ToSet(listing'.rows)
  <1>1. /\ window[r] \in Windows /\ window[r] \notin registered
        /\ registered \in SUBSET Windows /\ unlisted \in Nat
    <2>1. /\ window[r] \in 0..windows /\ (window[r] = 0 <=> pc[r] = "idle")
          /\ windows \in 0..MaxWindows /\ registered \in SUBSET Windows /\ unlisted \in Nat
      BY DEF IInv, TypeOK
    <2>2. window[r] \in Windows
      BY <2>1, BoundAssumption DEF Windows
    <2> QED
      BY <2>1, <2>2 DEF IInv, ListingInv
  <1>2. lost \in SUBSET Windows /\ now \in SUBSET Windows
    BY <1>1
  <1>3. Cardinality(lost) \in Nat /\ Cardinality(now) \in Nat
        /\ (now \subseteq lost => Cardinality(now) <= Cardinality(lost))
    BY <1>2, Counted
  <1>4. Cardinality(lost) + (IF listing.tail = "closed" THEN 0 ELSE 1) <= unlisted
        /\ (listing.tail = "row" => Last(listing.rows) \notin registered)
    BY DEF IInv, ListingInv
  <1>5. unlisted' = unlisted + 1 /\ listing' \in CutAppends(listing, window[r])
    BY DEF CutListing
  <1>6. CASE listing' = listing
    BY <1>1, <1>3, <1>4, <1>5, <1>6
  <1>7. CASE listing' = Garbled(listing, "torn")
    <2>1. now \subseteq lost
      BY <1>7, GarbledListing
    <2>2. listing'.tail = "torn"
      BY <1>7 DEF Garbled
    <2> QED
      BY <1>1, <1>3, <1>4, <1>5, <2>1, <2>2
  <1>8. CASE listing.tail = "closed" /\ listing' = WithRow(listing, window[r], "row")
    <2>1. now \subseteq lost /\ Last(listing'.rows) = window[r]
      BY <1>1, <1>8, RowListed
    <2> QED
      BY <1>1, <1>3, <1>4, <1>5, <2>1
  <1> QED
    BY <1>5, <1>6, <1>7, <1>8 DEF CutAppends


\* What is registered and not listed is counted.
LEMMA ListingStep ==
    ASSUME IInv, [Next]_vars
    PROVE  ListingInv'
  <1> USE
      DEF IInv, TypeOK, ListingInv, memoryVars, fileVars, windowVars, countVars,
          truthVars, Goto, Answer
  <1>1. ASSUME NEW r \in Requests, Score(r) PROVE ListingInv'
    <2>1. /\ listing' = listing /\ registered' = registered /\ unlisted' = unlisted
          /\ windows' = windows + 1 /\ window' = [window EXCEPT ![r] = windows']
          /\ pc[r] = "idle" /\ pc' = [pc EXCEPT ![r] = "decide"]
      BY <1>1 DEF Score
    <2> QED
      BY <2>1
  <1>2. ASSUME NEW r \in Requests, DecisionFails(r) PROVE ListingInv'
    BY <1>2 DEF DecisionFails
  <1>3. ASSUME NEW r \in Requests, Decide(r) PROVE ListingInv'
    BY <1>3 DEF Decide
  <1>4. ASSUME NEW r \in Requests, RecordMemory(r) PROVE ListingInv'
    <2>1. /\ UNCHANGED <<listing, registered, unlisted, windows, window>>
          /\ \E place \in {"write", "register"} : pc' = [pc EXCEPT ![r] = place]
          /\ pc[r] = "record"
      BY <1>4, RecordLoads DEF RecordMemory
    <2> QED
      BY <2>1
  <1>5. ASSUME NEW r \in Requests, RecordNothing(r) PROVE ListingInv'
    BY <1>5 DEF RecordNothing
  <1>6. ASSUME NEW r \in Requests, WriteHistory(r) PROVE ListingInv'
    BY <1>6 DEF WriteHistory
  <1>7. ASSUME NEW r \in Requests, WriteFails(r) PROVE ListingInv'
    BY <1>7 DEF WriteFails
  <1>8. ASSUME NEW r \in Requests, RegisterNothing(r) PROVE ListingInv'
    BY <1>8 DEF RegisterNothing
  <1>9. ASSUME NEW r \in Requests, WriteDetail(r) PROVE ListingInv'
    BY <1>9 DEF WriteDetail
  <1>10. ASSUME NEW r \in Requests, DetailFails(r) PROVE ListingInv'
    BY <1>10 DEF DetailFails
  <1>11. ASSUME NEW r \in Requests, List(r) PROVE ListingInv'
    <2> DEFINE lost == registered \ ToSet(listing.rows)
               now  == registered' \ ToSet(listing'.rows)
    <2>1. /\ pc[r] = "list" /\ registered' = registered \cup {window[r]}
          /\ pc' = [pc EXCEPT ![r] = "idle"] /\ window' = [window EXCEPT ![r] = 0]
          /\ windows' = windows /\ unlisted' = unlisted
          /\ listing' = Appended(listing, window[r])
      BY <1>11 DEF List
    <2>2. window[r] \in 1..windows /\ window[r] \in Windows
      <3>1. /\ window[r] \in 0..windows /\ (window[r] = 0 <=> pc[r] = "idle")
            /\ windows \in 0..MaxWindows
        BY DEF TypeOK
      <3> QED
        BY <2>1, <3>1, BoundAssumption DEF Windows
    <2>3. lost \in SUBSET Windows /\ now \in SUBSET Windows
      BY <2>1, <2>2
    <2>4. /\ Cardinality(lost) \in Nat /\ Cardinality(now) \in Nat
          /\ now \subseteq lost => Cardinality(now) <= Cardinality(lost)
          /\ now \subseteq lost \cup {window[r]} => Cardinality(now) <= Cardinality(lost) + 1
      BY <2>3, Counted
    <2>5. listing'.tail = "closed" /\ Cardinality(now) <= unlisted'
      <3>1. CASE listing.tail = "closed"
        <4>1. listing' = WithRow(listing, window[r], "closed")
          BY <2>1, <3>1 DEF Appended
        <4>2. now \subseteq lost /\ listing'.tail = "closed"
          BY <2>1, <2>2, <4>1, RowListed DEF WithRow
        <4> QED
          BY <2>1, <2>4, <3>1, <4>2
      <3>2. CASE listing.tail # "closed"
        <4>1. listing' = Garbled(listing, "closed")
          BY <2>1, <3>2 DEF Appended
        <4>2. now \subseteq lost \cup {window[r]} /\ listing'.tail = "closed"
          BY <2>1, <4>1, GarbledListing DEF Garbled
        <4> QED
          BY <2>1, <2>4, <3>2, <4>2
      <3> QED
        BY <3>1, <3>2
    <2>6. /\ registered' \subseteq 1..windows'
          /\ \A q \in Requests : pc'[q] # "idle" => window'[q] \notin registered'
      BY <2>1, <2>2 DEF FreshInv
    <2>7. Cardinality(now) + 0 <= unlisted'
      BY <2>4, <2>5
    <2> QED
      BY <2>5, <2>6, <2>7
  <1>12. ASSUME NEW r \in Requests, ListFails(r) PROVE ListingInv'
    <2>1. /\ pc[r] = "list" /\ registered' = registered /\ windows' = windows
          /\ pc' = [pc EXCEPT ![r] = "idle"] /\ window' = [window EXCEPT ![r] = 0]
          /\ CutListing(r)
      BY <1>12 DEF ListFails
    <2> QED
      BY <2>1, CutListed
  <1>13. CASE Crash
    <2>1. /\ registered' = registered /\ windows' = windows
          /\ \A q \in Requests : pc'[q] = "idle"
      BY <1>13 DEF Crash
    <2>2. CASE UNCHANGED <<listing, unlisted>>
      BY <2>1, <2>2
    <2>3. ASSUME NEW r \in Requests, pc[r] = "list", CutListing(r)
          PROVE  ListingInv'
      BY <2>1, <2>3, CutListed
    <2> QED
      BY <1>13, <2>2, <2>3 DEF Crash
  <1>14. CASE UNCHANGED vars
    BY <1>14 DEF vars
  <1> QED
    BY <1>1, <1>2, <1>3, <1>4, <1>5, <1>6, <1>7, <1>8, <1>9, <1>10, <1>11, <1>12,
       <1>13, <1>14
    DEF Next, Step

\* The file grows as far as counted.
LEMMA LengthStep ==
    ASSUME IInv, [Next]_vars
    PROVE  LengthInv'
  <1> USE BoundAssumption
      DEF IInv, TypeOK, memoryVars, fileVars, windowVars, countVars, truthVars,
          Goto, Answer
  <1>1. ASSUME NEW r \in Requests, Score(r) PROVE LengthInv'
    <2>0. faults' \in faults..MaxFaults
      BY <1>1, ScoreLoads
    <2>1. UNCHANGED <<history, appends, restarts>> /\ faults' >= faults
      BY <1>1, <2>0 DEF Score
    <2>2. Behind' = Behind
      BY <1>1, <2>1 DEF Score, HistoryFree, Behind
    <2> QED
      BY <2>1, <2>2, TypesStep, LengthKept
  <1>2. ASSUME NEW r \in Requests, DecisionFails(r) PROVE LengthInv'
    <2>1. UNCHANGED <<history, appends, restarts>> /\ faults' >= faults
      BY <1>2 DEF DecisionFails
    <2>2. Behind' = Behind
      BY <1>2, <2>1 DEF DecisionFails, HistoryFree, Behind
    <2> QED
      BY <2>1, <2>2, TypesStep, LengthKept
  <1>3. ASSUME NEW r \in Requests, Decide(r) PROVE LengthInv'
    <2>1. UNCHANGED <<history, appends, restarts>> /\ faults' >= faults
      BY <1>3 DEF Decide
    <2>2. Behind' = Behind
      BY <1>3, <2>1 DEF Decide, HistoryFree, Behind
    <2> QED
      BY <2>1, <2>2, TypesStep, LengthKept
  <1>4. ASSUME NEW r \in Requests, RecordMemory(r) PROVE LengthInv'
    <2>1. UNCHANGED <<history, restarts>> /\ HistoryFree /\ appends \in Nat
          /\ faults' >= faults
      <3>1. faults' \in faults..MaxFaults
        BY <1>4, RecordLoads
      <3> QED
        BY <1>4, <3>1 DEF RecordMemory
    <2>2. CASE pc' = [pc EXCEPT ![r] = "register"] /\ appends' = appends
      <3>1. Behind' = Behind
        BY <2>1, <2>2 DEF HistoryFree, Behind
      <3> QED
        BY <2>1, <2>2, <3>1, TypesStep, LengthKept
    <2>3. CASE pc' = [pc EXCEPT ![r] = "write"] /\ appends' = appends + 1
      <3>1. ~HistoryFree' /\ appends' - 1 = appends
        BY <2>1, <2>3 DEF HistoryFree
      <3>2. Behind' = Behind
        BY <2>1, <3>1 DEF Behind
      <3> QED
        BY <2>1, <3>2, TypesStep, LengthKept
    <2> QED
      BY <1>4, <2>2, <2>3, RecordLoads
  <1>5. ASSUME NEW r \in Requests, RecordNothing(r) PROVE LengthInv'
    <2>1. UNCHANGED <<history, appends, restarts>> /\ faults' >= faults
      BY <1>5 DEF RecordNothing
    <2>2. Behind' = Behind
      BY <1>5, <2>1 DEF RecordNothing, HistoryFree, Behind
    <2> QED
      BY <2>1, <2>2, TypesStep, LengthKept
  <1>6. ASSUME NEW r \in Requests, WriteHistory(r) PROVE LengthInv'
    <2>1. pc[r] = "write" /\ pc' = [pc EXCEPT ![r] = "register"]
          /\ UNCHANGED <<appends, restarts, faults>>
      BY <1>6 DEF WriteHistory
    <2>2. Compacting => Lines(history') <= MaxRows
      <3>1. rows \in Seq(Windows) /\ Len(rows) <= MaxRows
        BY <2>1 DEF LockInv
      <3>2. Len(rows) \in Nat /\ MaxRows \in Nat
        BY <3>1, LenProperties, RowsAssumption
      <3>3. Rewritten(rows).torn = 0 /\ Rewritten(rows).rows = rows
        BY DEF Rewritten
      <3> QED
        BY <1>6, <3>1, <3>2, <3>3 DEF WriteHistory, Lines
    <2>3. Behind' = appends % CompactEvery
      BY <2>1 DEF LockInv, HistoryFree, Behind
    <2>4. restarts' + faults' >= restarts + faults
      BY <2>1
    <2> QED
      BY <1>6, <2>1, <2>2, <2>3, <2>4, TypesStep, LengthWritten
  <1>7. ASSUME NEW r \in Requests, WriteFails(r) PROVE LengthInv'
    <2>1. /\ pc[r] = "write" /\ pc' = [pc EXCEPT ![r] = "register"] /\ CutHistory(r)
          /\ UNCHANGED <<appends, restarts>> /\ faults' = faults + 1
      BY <1>7 DEF WriteFails
    <2>2. Behind' = appends % CompactEvery
      BY <2>1 DEF LockInv, HistoryFree, Behind
    <2>3. restarts' + faults' >= restarts + faults + 1 /\ restarts' + faults' >= restarts + faults
      BY <2>1
    <2> QED
      BY <1>7, <2>1, <2>2, <2>3, TypesStep, LengthWritten
  <1>8. ASSUME NEW r \in Requests, RegisterNothing(r) PROVE LengthInv'
    <2>1. UNCHANGED <<history, appends, restarts>> /\ faults' >= faults
      BY <1>8 DEF RegisterNothing
    <2>2. Behind' = Behind
      BY <1>8, <2>1 DEF RegisterNothing, HistoryFree, Behind
    <2> QED
      BY <2>1, <2>2, TypesStep, LengthKept
  <1>9. ASSUME NEW r \in Requests, WriteDetail(r) PROVE LengthInv'
    <2>1. UNCHANGED <<history, appends, restarts>> /\ faults' >= faults
      BY <1>9 DEF WriteDetail
    <2>2. Behind' = Behind
      BY <1>9, <2>1 DEF WriteDetail, HistoryFree, Behind
    <2> QED
      BY <2>1, <2>2, TypesStep, LengthKept
  <1>10. ASSUME NEW r \in Requests, DetailFails(r) PROVE LengthInv'
    <2>1. UNCHANGED <<history, appends, restarts>> /\ faults' >= faults
      BY <1>10 DEF DetailFails
    <2>2. Behind' = Behind
      BY <1>10, <2>1 DEF DetailFails, HistoryFree, Behind
    <2> QED
      BY <2>1, <2>2, TypesStep, LengthKept
  <1>11. ASSUME NEW r \in Requests, List(r) PROVE LengthInv'
    <2>1. UNCHANGED <<history, appends, restarts>> /\ faults' >= faults
      BY <1>11 DEF List
    <2>2. Behind' = Behind
      BY <1>11, <2>1 DEF List, HistoryFree, Behind
    <2> QED
      BY <2>1, <2>2, TypesStep, LengthKept
  <1>12. ASSUME NEW r \in Requests, ListFails(r) PROVE LengthInv'
    <2>1. UNCHANGED <<history, appends, restarts>> /\ faults' >= faults
      BY <1>12 DEF ListFails
    <2>2. Behind' = Behind
      BY <1>12, <2>1 DEF ListFails, HistoryFree, Behind
    <2> QED
      BY <2>1, <2>2, TypesStep, LengthKept
  <1>13. CASE Crash
    <2>1. /\ appends' = 0 /\ restarts' = restarts + 1 /\ faults' = faults
          /\ \A q \in Requests : pc'[q] = "idle"
      BY <1>13 DEF Crash
    <2>2. restarts' + faults' >= restarts + faults + 1 /\ restarts' + faults' >= restarts + faults
      BY <2>1
    <2>3. Behind' = 0
      BY <2>1, RowsAssumption DEF Behind, HistoryFree
    <2>4. CASE HistoryFree /\ history' = history
      BY <2>2, <2>3, <2>4, TypesStep, LengthRestarted
    <2>5. ASSUME NEW r \in Requests, pc[r] = "write", CutHistory(r)
          PROVE  LengthInv'
      BY <2>2, <2>3, <2>5, TypesStep, LengthWritten
    <2> QED
      BY <1>13, <2>4, <2>5 DEF Crash
  <1>14. CASE UNCHANGED vars
    BY <1>14 DEF vars, LengthInv, Behind, HistoryFree, Lines
  <1> QED
    BY <1>1, <1>2, <1>3, <1>4, <1>5, <1>6, <1>7, <1>8, <1>9, <1>10, <1>11, <1>12,
       <1>13, <1>14
    DEF Next, Step

\* The invariant holds in every reachable state.
THEOREM Invariance == Spec => []IInv
  <1>1. Init => IInv
    <2> SUFFICES ASSUME Init PROVE IInv
      OBVIOUS
    <2> USE DEF Init
    <2>1. /\ <<>> \in Seq(Windows) /\ Len(<<>>) = 0 /\ ToSet(<<>>) = {}
      BY EmptySeq DEF ToSet
    <2>2. /\ history = [rows |-> <<>>, torn |-> 0, tail |-> "closed"]
          /\ listing = history
      BY DEF Rewritten
    <2>6. Sound(history) /\ Sound(listing)
      BY <2>1, RewriteFits
    <2>3. TypeOK
      <3>1. history \in Log /\ listing \in Log
        BY <2>6 DEF Sound
      <3>2. /\ pc \in [Requests -> {"idle", "decide", "record", "write", "register", "list"}]
            /\ windows \in 0..MaxWindows /\ window \in [Requests -> 0..windows]
            /\ \A r \in Requests : window[r] = 0 <=> pc[r] = "idle"
        BY BoundAssumption
      <3>3. kind \in [Windows -> Kinds \cup {None}]
        OBVIOUS
      <3>4. /\ restarts \in 0..MaxRestarts /\ faults \in 0..MaxFaults
            /\ broken \in Nat /\ unlisted \in Nat /\ appends \in Nat
        BY BoundAssumption
      <3>5. recorded \in Seq(Windows)
        BY <2>1
      <3> QED
        BY <3>1, <3>2, <3>3, <3>4, <3>5 DEF TypeOK
    <2>4. LockInv /\ FreshInv /\ StatsInv /\ DetailInv
      <3>1. LockInv
        <4>1. \A r \in Requests : pc[r] = "idle"
          OBVIOUS
        <4> QED
          BY <2>6, <4>1 DEF LockInv
      <3>2. FreshInv
        BY <2>1, <2>2 DEF FreshInv, Stored
      <3>3. StatsInv
        BY DEF StatsInv, StatsFresh
      <3>4. DetailInv
        BY <2>1, <2>2 DEF DetailInv, ListedHasDetail
      <3> QED
        BY <3>1, <3>2, <3>3, <3>4
    <2>5. LengthInv
      <3>1. Lines(history) = 0 /\ HistoryFree /\ MaxRows \in Nat
        BY <2>1, <2>2, RowsAssumption DEF Lines, HistoryFree
      <3>2. Behind \in Nat
        BY <3>1, RowsAssumption DEF Behind
      <3>3. (CompactEvery - 1) * (restarts + faults) \in Nat
        BY Allowance
      <3> QED
        BY <3>1, <3>2, <3>3 DEF LengthInv
    <2>7. ListingInv
      <3>1. registered \ ToSet(listing.rows) = {} /\ Cardinality({}) = 0
        BY FS_EmptySet
      <3> QED
        BY <2>2, <3>1 DEF ListingInv
    <2> QED
      BY <2>3, <2>4, <2>5, <2>7 DEF IInv
  <1>2. IInv /\ [Next]_vars => IInv'
    BY TypesStep, LockStep, FreshStep, StatsStep, LengthStep, DetailStep, ListingStep DEF IInv
  <1> QED
    BY <1>1, <1>2, PTL DEF Spec

\* Every variable keeps its type; the queue never holds more than it may.
THEOREM TypeCorrect == Spec => []TypeOK
  BY Invariance, PTL DEF IInv

\* Percentiles are those of the normal windows in memory
\* (_history_values_locked).
THEOREM StatsAreFresh == Spec => []StatsFresh
  BY Invariance, PTL DEF IInv, StatsInv

\* The history file grows as far as restarts and failed compactions let it
\* (_record_window_history).
THEOREM FileIsBounded == Spec => []FileBounded
  <1>1. IInv => FileBounded
    <2> SUFFICES ASSUME IInv PROVE FileBounded
      OBVIOUS
    <2> DEFINE a == (CompactEvery - 1) * (restarts + faults)
    <2>1. Lines(history) <= MaxRows + a + Behind
      BY DEF IInv, LengthInv
    <2>2. CASE HistoryFree
      BY <2>1, <2>2 DEF FileBounded, Behind
    <2>3. CASE ~HistoryFree
      <3>1. appends \in Nat /\ appends # 0 /\ Behind = (appends - 1) % CompactEvery
        BY <2>3 DEF IInv, TypeOK, LockInv, HistoryFree, Behind
      <3>2. Behind \in 0..(CompactEvery - 1)
        BY <3>1, Rounds
      <3>3. Lines(history) \in Nat /\ MaxRows \in Nat /\ a \in Nat /\ CompactEvery - 1 \in Nat
        <4>1. restarts + faults \in Nat
          BY Counts DEF IInv
        <4> QED
          BY <4>1, Counts, Allowance, RowsAssumption DEF IInv
      <3> HIDE DEF a
      <3>4. Lines(history) <= MaxRows + a + (CompactEvery - 1)
        BY <2>1, <3>2, <3>3
      <3> QED
        BY <2>3, <3>4 DEF FileBounded, a
    <2> QED
      BY <2>2, <2>3
  <1> QED
    BY <1>1, Invariance, PTL

\* What is listed has its details, and what was answered as registered is
\* listed, but for one window behind every append cut off
\* (_register_anomaly_window).
THEOREM RegistryIsKept == Spec => []RegistryKept
  <1>1. IInv => RegistryKept
    <2> SUFFICES ASSUME IInv PROVE RegistryKept
      OBVIOUS
    <2>1. ListedHasDetail
      BY DEF IInv, DetailInv
    <2>2. registered \ ToSet(listing.rows) \in SUBSET Windows /\ unlisted \in Nat
      BY DEF IInv, TypeOK
    <2>3. Cardinality(registered \ ToSet(listing.rows)) \in Nat
      BY <2>2, Counted
    <2>4. LossOfListing
      BY <2>2, <2>3 DEF IInv, ListingInv, LossOfListing
    <2> QED
      BY <2>1, <2>4 DEF RegistryKept
  <1> QED
    BY <1>1, Invariance, PTL
-----------------------------------------------------------------------------
(***************************************************************************)
(* What the newest rows of a sequence say of the newest rows recorded.     *)
(***************************************************************************)
\* What s holds is in t; no element comes twice or before one it follows in t.
Within(s, t) ==
    /\ ToSet(s) \subseteq ToSet(t)
    /\ \A i, j \in DOMAIN s, k, l \in DOMAIN t :
          i < j /\ s[i] = t[k] /\ s[j] = t[l] => k < l

\* What Kept holds.
LEMMA KeptElements ==
    ASSUME NEW s \in Seq(Windows)
    PROVE  \A x : x \in ToSet(Kept(s))
                  <=> \E i \in 1..Len(s) : i > Len(s) - MaxRows /\ x = s[i]
  <1>1. Len(s) \in Nat /\ DOMAIN s = 1..Len(s) /\ MaxRows \in Nat \ {0}
    BY LenProperties, RowsAssumption
  <1> DEFINE m == IF Len(s) > MaxRows THEN Len(s) - MaxRows + 1 ELSE 1
  <1>2. m \in 1..(Len(s) + 1) /\ Kept(s) = SubSeq(s, m, Len(s))
    BY <1>1 DEF Kept
  <1>3. \A i \in 1..Len(s) : i > Len(s) - MaxRows <=> i >= m
    BY <1>1
  <1>4. \A i \in 1..Len(s) : s[i] \in Windows
    BY <1>1, ElementOfSeq
  <1> HIDE DEF m
  <1>5. /\ SubSeq(s, m, Len(s)) \in Seq(Windows)
        /\ Len(SubSeq(s, m, Len(s))) = Len(s) - m + 1
        /\ \A i \in 1..(Len(s) - m + 1) : SubSeq(s, m, Len(s))[i] = s[m + i - 1]
    BY <1>1, <1>2, <1>4, SubSeqProperties
  <1>6. DOMAIN Kept(s) = 1..(Len(s) - m + 1)
        /\ \A i \in 1..(Len(s) - m + 1) : Kept(s)[i] = s[m + i - 1]
    BY <1>2, <1>5, LenProperties
  <1>7. ASSUME NEW i \in 1..Len(s), i >= m
        PROVE  i - m + 1 \in DOMAIN Kept(s) /\ Kept(s)[i - m + 1] = s[i]
    BY <1>1, <1>2, <1>6, <1>7
  <1>8. ASSUME NEW i \in DOMAIN Kept(s)
        PROVE  m + i - 1 \in 1..Len(s) /\ m + i - 1 >= m /\ Kept(s)[i] = s[m + i - 1]
    BY <1>1, <1>2, <1>6, <1>8
  <1> QED
    BY <1>3, <1>7, <1>8 DEF ToSet

\* A stretch of a sequence is in its order.
LEMMA StretchWithin ==
    ASSUME NEW s \in Seq(Windows), NEW t \in Seq(Windows), Within(s, t),
           NEW m \in Int, NEW n \in Int, 1 <= m, n <= Len(s)
    PROVE  Within(SubSeq(s, m, n), t)
  <1>1. Len(s) \in Nat /\ DOMAIN s = 1..Len(s) /\ \A i \in 1..Len(s) : s[i] \in Windows
    BY LenProperties, ElementOfSeq
  <1>2. /\ SubSeq(s, m, n) \in Seq(Windows)
        /\ Len(SubSeq(s, m, n)) = IF m <= n THEN n - m + 1 ELSE 0
        /\ \A i \in 1..(n - m + 1) : SubSeq(s, m, n)[i] = s[m + i - 1]
    BY <1>1, SubSeqProperties
  <1>3. DOMAIN SubSeq(s, m, n) = 1..(n - m + 1)
    BY <1>2, LenProperties
  <1>4. \A i \in 1..(n - m + 1) : m + i - 1 \in DOMAIN s
    BY <1>1
  <1>5. ToSet(SubSeq(s, m, n)) \subseteq ToSet(t)
    BY ToSetSubSeq DEF Within
  <1>6. ASSUME NEW i \in DOMAIN SubSeq(s, m, n), NEW j \in DOMAIN SubSeq(s, m, n),
               NEW k \in DOMAIN t, NEW l \in DOMAIN t,
               i < j, SubSeq(s, m, n)[i] = t[k], SubSeq(s, m, n)[j] = t[l]
        PROVE  k < l
    <2>1. /\ m + i - 1 \in DOMAIN s /\ m + j - 1 \in DOMAIN s /\ m + i - 1 < m + j - 1
          /\ s[m + i - 1] = t[k] /\ s[m + j - 1] = t[l]
      BY <1>2, <1>3, <1>4, <1>6
    <2> QED
      BY <2>1 DEF Within
  <1> QED
    BY <1>5, <1>6 DEF Within

\* The newest rows are in the order of all.
LEMMA KeptWithin ==
    ASSUME NEW s \in Seq(Windows), NEW t \in Seq(Windows), Within(s, t)
    PROVE  Within(Kept(s), t)
  <1>1. Len(s) \in Nat /\ MaxRows \in Nat \ {0}
    BY LenProperties, RowsAssumption
  <1>2. CASE Len(s) > MaxRows
    <2>1. Kept(s) = SubSeq(s, Len(s) - MaxRows + 1, Len(s))
      BY <1>2 DEF Kept
    <2> QED
      BY <1>1, <1>2, <2>1, StretchWithin
  <1>3. CASE ~(Len(s) > MaxRows)
    <2>1. Kept(s) = SubSeq(s, 1, Len(s))
      BY <1>3 DEF Kept
    <2> QED
      BY <1>1, <2>1, StretchWithin
  <1> QED
    BY <1>2, <1>3

\* A new row at the end of both, or of the longer one.
LEMMA AppendWithin ==
    ASSUME NEW s \in Seq(Windows), NEW t \in Seq(Windows), Within(s, t),
           NEW w \in Windows, w \notin ToSet(t)
    PROVE  /\ Within(s, Append(t, w))
           /\ Within(Append(s, w), Append(t, w))
  <1>1. /\ Len(s) \in Nat /\ DOMAIN s = 1..Len(s)
        /\ Len(t) \in Nat /\ DOMAIN t = 1..Len(t)
    BY LenProperties
  <1>2. /\ DOMAIN Append(s, w) = 1..(Len(s) + 1)
        /\ \A i \in 1..Len(s) : Append(s, w)[i] = s[i]
        /\ Append(s, w)[Len(s) + 1] = w
        /\ DOMAIN Append(t, w) = 1..(Len(t) + 1)
        /\ \A i \in 1..Len(t) : Append(t, w)[i] = t[i]
        /\ Append(t, w)[Len(t) + 1] = w
    BY <1>1, AppendProperties, LenProperties
  <1>3. /\ ToSet(Append(s, w)) = ToSet(s) \cup {w}
        /\ ToSet(Append(t, w)) = ToSet(t) \cup {w}
        /\ w \notin ToSet(s) /\ ToSet(s) \subseteq ToSet(t)
    BY ToSetAppend DEF Within
  <1>4. /\ \A i \in 1..Len(s) : s[i] # w
        /\ \A k \in 1..Len(t) : t[k] # w
    BY <1>1, <1>3 DEF ToSet
  <1>5. ASSUME NEW i \in DOMAIN s, NEW j \in DOMAIN s,
               NEW k \in DOMAIN Append(t, w), NEW l \in DOMAIN Append(t, w),
               i < j, s[i] = Append(t, w)[k], s[j] = Append(t, w)[l]
        PROVE  k < l
    <2>1. k \in 1..Len(t) /\ l \in 1..Len(t)
      BY <1>1, <1>2, <1>4, <1>5
    <2> QED
      BY <1>1, <1>2, <1>5, <2>1 DEF Within
  <1>6. ASSUME NEW i \in DOMAIN Append(s, w), NEW j \in DOMAIN Append(s, w),
               NEW k \in DOMAIN Append(t, w), NEW l \in DOMAIN Append(t, w),
               i < j, Append(s, w)[i] = Append(t, w)[k], Append(s, w)[j] = Append(t, w)[l]
        PROVE  k < l
    <2>1. i \in 1..Len(s) /\ Append(s, w)[i] = s[i]
      BY <1>1, <1>2, <1>6
    <2>2. k \in 1..Len(t)
      <3>1. s[i] # w /\ Append(t, w)[k] = s[i]
        BY <1>4, <1>6, <2>1
      <3>2. k \in 1..(Len(t) + 1) /\ k # Len(t) + 1
        BY <1>2, <3>1
      <3> QED
        BY <1>1, <3>2
    <2>3. CASE j \in 1..Len(s)
      BY <1>1, <1>2, <1>5, <1>6, <2>1, <2>3
    <2>4. CASE j = Len(s) + 1
      BY <1>1, <1>2, <1>4, <1>6, <2>2, <2>4
    <2> QED
      BY <1>1, <1>2, <2>3, <2>4
  <1> QED
    BY <1>3, <1>5, <1>6 DEF Within

\* Of the newest rows of t, those that s has at all are among its newest: what
\* s drops for its length is older than what t keeps.
LEMMA NewestStay ==
    ASSUME NEW s \in Seq(Windows), NEW t \in Seq(Windows), Within(s, t),
           NEW x \in ToSet(s), x \in ToSet(Kept(t))
    PROVE  x \in ToSet(Kept(s))
  <1>1. /\ Len(s) \in Nat /\ DOMAIN s = 1..Len(s)
        /\ Len(t) \in Nat /\ DOMAIN t = 1..Len(t)
        /\ MaxRows \in Nat \ {0}
    BY LenProperties, RowsAssumption
  <1>2. PICK i \in 1..Len(s) : x = s[i]
    BY <1>1 DEF ToSet
  <1>3. PICK k \in 1..Len(t) : k > Len(t) - MaxRows /\ x = t[k]
    BY KeptElements
  <1>4. SUFFICES ASSUME i <= Len(s) - MaxRows PROVE FALSE
    BY <1>1, <1>2, KeptElements
  <1> DEFINE A == (i + 1)..Len(s)
             B == (k + 1)..Len(t)
             f == [j \in A |-> CHOOSE l \in 1..Len(t) : s[j] = t[l]]
  <1>5. ASSUME NEW j \in A PROVE f[j] \in 1..Len(t) /\ s[j] = t[f[j]]
    <2>1. j \in 1..Len(s)
      BY <1>1
    <2>2. \E l \in 1..Len(t) : s[j] = t[l]
      BY <1>1, <2>1 DEF Within, ToSet
    <2> QED
      BY <2>2
  <1>6. \A j \in A : f[j] \in B
    <2>1. SUFFICES ASSUME NEW j \in A PROVE f[j] \in B
      OBVIOUS
    <2>2. j \in 1..Len(s) /\ i < j /\ f[j] \in 1..Len(t) /\ s[j] = t[f[j]]
      BY <1>1, <1>5
    <2> HIDE DEF f
    <2>3. k < f[j]
      BY <1>1, <1>2, <1>3, <2>2 DEF Within
    <2> QED
      BY <1>1, <2>2, <2>3
  <1>7. ASSUME NEW j \in A, NEW n \in A, j < n PROVE f[j] # f[n]
    <2>1. /\ j \in 1..Len(s) /\ f[j] \in 1..Len(t) /\ s[j] = t[f[j]]
          /\ n \in 1..Len(s) /\ f[n] \in 1..Len(t) /\ s[n] = t[f[n]]
      BY <1>1, <1>5
    <2> HIDE DEF f
    <2>2. f[j] < f[n]
      BY <1>1, <1>7, <2>1 DEF Within
    <2> QED
      BY <2>1, <2>2
  <1>8. f \in Injection(A, B)
    <2>1. f \in [A -> B]
      BY <1>6
    <2> HIDE DEF f
    <2>2. \A j, n \in A : f[j] = f[n] => j = n
      BY <1>1, <1>7
    <2> QED
      BY <2>1, <2>2 DEF Injection, IsInjective
  <1>9. Cardinality(A) <= Cardinality(B)
    <2>1. IsFiniteSet(B)
      BY <1>1, FS_Interval
    <2> QED
      BY <1>8, <2>1, FS_Injection
  <1>10. Cardinality(A) = Len(s) - i /\ Cardinality(B) = Len(t) - k
    <2>1. /\ i + 1 \in Int /\ k + 1 \in Int /\ Len(s) \in Int /\ Len(t) \in Int
          /\ i + 1 <= Len(s) /\ k + 1 <= Len(t) + 1
      BY <1>1, <1>4
    <2>2. Cardinality(A) = IF i + 1 > Len(s) THEN 0 ELSE Len(s) - (i + 1) + 1
      BY <2>1, FS_Interval
    <2>3. Cardinality(B) = IF k + 1 > Len(t) THEN 0 ELSE Len(t) - (k + 1) + 1
      BY <2>1, FS_Interval
    <2> HIDE DEF A, B
    <2> QED
      BY <2>1, <2>2, <2>3
  <1> QED
    BY <1>1, <1>3, <1>4, <1>9, <1>10

\* One row more, and the newest rows are the newest before and that row.
LEMMA KeptGrows ==
    ASSUME NEW t \in Seq(Windows), NEW w \in Windows
    PROVE  /\ w \in ToSet(Kept(Append(t, w)))
           /\ ToSet(Kept(Append(t, w))) \subseteq ToSet(Kept(t)) \cup {w}
  <1>1. Len(t) \in Nat /\ MaxRows \in Nat \ {0}
    BY LenProperties, RowsAssumption
  <1> DEFINE u == Append(t, w)
  <1>2. /\ u \in Seq(Windows) /\ Len(u) = Len(t) + 1
        /\ \A i \in 1..Len(t) : u[i] = t[i]
        /\ u[Len(t) + 1] = w
    BY AppendProperties
  <1> HIDE DEF u
  <1>3. \A x : x \in ToSet(Kept(u))
               <=> \E i \in 1..(Len(t) + 1) : i > Len(t) + 1 - MaxRows /\ x = u[i]
    <2>1. \A x : x \in ToSet(Kept(u))
                <=> \E i \in 1..Len(u) : i > Len(u) - MaxRows /\ x = u[i]
      BY <1>2, KeptElements
    <2> QED
      BY <1>1, <1>2, <2>1
  <1>4. \A x : x \in ToSet(Kept(t)) <=> \E i \in 1..Len(t) : i > Len(t) - MaxRows /\ x = t[i]
    BY KeptElements
  <1>5. w \in ToSet(Kept(u))
    <2>1. Len(t) + 1 \in 1..(Len(t) + 1) /\ Len(t) + 1 > Len(t) + 1 - MaxRows
      BY <1>1
    <2> QED
      BY <1>2, <1>3, <2>1
  <1>6. ASSUME NEW x \in ToSet(Kept(u)), x # w
        PROVE  x \in ToSet(Kept(t))
    <2>1. PICK i \in 1..(Len(t) + 1) : i > Len(t) + 1 - MaxRows /\ x = u[i]
      BY <1>3, <1>6
    <2>2. i \in 1..Len(t) /\ i > Len(t) - MaxRows
      BY <1>1, <1>2, <1>6, <2>1
    <2> QED
      BY <1>2, <1>4, <2>1, <2>2
  <1> QED
    BY <1>5, <1>6 DEF u

-----------------------------------------------------------------------------
(***************************************************************************)
(* What the files and the memory may lack of what was recorded.            *)
(***************************************************************************)
\* Each window is recorded once, by the request that has it in hand.
RecordedInv ==
    /\ ToSet(recorded) \subseteq 1..windows
    /\ \A r \in Requests :
          pc[r] \in {"decide", "record"} => window[r] \notin ToSet(recorded)

\* Memory and file keep the order of recording, and a request that writes is
\* about to write the window recorded last.
OrderInv ==
    /\ rows # None => Within(rows, recorded)
    /\ Within(history.rows, recorded)
    /\ \A r \in Requests : pc[r] = "write" =>
          \E t \in Seq(Windows) : /\ recorded = Append(t, window[r])
                                  /\ window[r] \notin ToSet(t)
                                  /\ Within(history.rows, t)

\* The newest windows recorded that some rows lack.
Missing(some) == ToSet(Kept(recorded)) \ ToSet(some)

\* What the next append will cost: behind a torn line its own window, behind an
\* open row that row as well.
Stake(log) == IF log.tail = "closed" THEN 0 ELSE IF log.tail = "torn" THEN 1 ELSE 2

Loss(log) == Cardinality(Missing(log.rows)) + Stake(log)

LossInv ==
    ~spoiled => /\ Loss(history) <= 2 * broken + (IF HistoryFree THEN 0 ELSE 1)
                /\ rows # None => Cardinality(Missing(rows)) <= 2 * broken

HistInv == RecordedInv /\ OrderInv /\ LossInv

\* What is missing can be counted.
LEMMA MissingCounts ==
    ASSUME TypeOK, NEW some, NEW more, NEW w
    PROVE  /\ Missing(some) \in SUBSET Windows
           /\ Cardinality(Missing(some)) \in Nat
           /\ Missing(some) \subseteq Missing(more)
                => Cardinality(Missing(some)) <= Cardinality(Missing(more))
           /\ Missing(some) \subseteq Missing(more) \cup {w}
                => Cardinality(Missing(some)) <= Cardinality(Missing(more)) + 1
  <1>1. \A any : Missing(any) \in SUBSET Windows
    BY KeptRows, ToSetWithin DEF TypeOK, Missing
  <1> QED
    BY <1>1, Counted

\* A row behind a closed line is one window less to miss.
LEMMA RowRecovers ==
    ASSUME TypeOK, NEW t \in Seq(Windows), NEW w \in Windows, w \notin ToSet(t),
           recorded = Append(t, w), Within(history.rows, t), NEW tail
    PROVE  /\ Within(WithRow(history, w, tail).rows, recorded)
           /\ Cardinality(Missing(WithRow(history, w, tail).rows)) + 1
                = Cardinality(Missing(history.rows))
  <1> DEFINE new == WithRow(history, w, tail).rows
  <1>1. history.rows \in Seq(Windows) /\ new = Append(history.rows, w)
    BY DEF TypeOK, Log, WithRow
  <1>2. Within(new, recorded)
    BY <1>1, AppendWithin
  <1>3. w \in Missing(history.rows)
    BY KeptGrows DEF Within, Missing
  <1>4. ToSet(new) = ToSet(history.rows) \cup {w}
    BY <1>1, ToSetAppend
  <1>5. Missing(new) = Missing(history.rows) \ {w}
    BY <1>4 DEF Missing
  <1>6. IsFiniteSet(Missing(history.rows))
    <2>1. IsFiniteSet(Windows)
      BY FS_Interval, BoundAssumption DEF Windows
    <2> QED
      BY <2>1, MissingCounts, FS_Subset
  <1>7. Cardinality(Missing(new)) = Cardinality(Missing(history.rows)) - 1
    BY <1>3, <1>5, <1>6, FS_RemoveElement
  <1>8. Cardinality(Missing(history.rows)) \in Nat
    BY MissingCounts
  <1> QED
    BY <1>2, <1>7, <1>8

\* A line that is torn costs the row that was open.
LEMMA GarblingCosts ==
    ASSUME TypeOK, Sound(history), Within(history.rows, recorded),
           NEW tail \in {"closed", "torn"}
    PROVE  /\ Within(Garbled(history, tail).rows, recorded)
           /\ Cardinality(Missing(Garbled(history, tail).rows))
                <= Cardinality(Missing(history.rows)) + (IF history.tail = "row" THEN 1 ELSE 0)
  <1> DEFINE new == Garbled(history, tail).rows
  <1>1. history.rows \in Seq(Windows) /\ Len(history.rows) \in Nat /\ recorded \in Seq(Windows)
    BY LenProperties DEF TypeOK, Log
  <1>2. CASE history.tail = "row"
    <2>1. new = Front(history.rows) /\ history.rows # <<>>
      BY <1>2 DEF Garbled, Sound
    <2>2. new = SubSeq(history.rows, 1, Len(history.rows) - 1)
      BY <2>1 DEF Front
    <2>3. Within(new, recorded)
      BY <1>1, <2>2, StretchWithin
    <2>4. Missing(new) \subseteq Missing(history.rows) \cup {Last(history.rows)}
      BY <1>1, <2>1, WithoutLast DEF Missing
    <2> QED
      BY <1>2, <2>3, <2>4, MissingCounts
  <1>3. CASE history.tail # "row"
    <2>1. new = history.rows
      BY <1>3 DEF Garbled
    <2>2. Cardinality(Missing(history.rows)) \in Nat
      BY MissingCounts
    <2> QED
      BY <1>3, <2>1, <2>2
  <1> QED
    BY <1>2, <1>3

\* An append that gets through makes up for the window it was to write, one that
\* does not costs one more at most.
LEMMA AppendLoses ==
    ASSUME TypeOK, Sound(history),
           NEW t \in Seq(Windows), NEW w \in Windows, w \notin ToSet(t),
           recorded = Append(t, w), Within(history.rows, t), Within(history.rows, recorded)
    PROVE  /\ Within(Appended(history, w).rows, recorded)
           /\ Loss(Appended(history, w)) + 1 <= Loss(history)
           /\ \A new \in CutAppends(history, w) :
                 Within(new.rows, recorded) /\ Loss(new) <= Loss(history) + 1
  <1> DEFINE M(log) == Cardinality(Missing(log.rows))
  <1>1. history.tail \in {"closed", "row", "torn"}
    BY DEF TypeOK, Log
  <1>2. \A log : M(log) \in Nat
    BY MissingCounts
  <1>3. \A tail : /\ Within(WithRow(history, w, tail).rows, recorded)
                  /\ M(WithRow(history, w, tail)) + 1 = M(history)
                  /\ WithRow(history, w, tail).tail = tail
    BY RowRecovers DEF WithRow
  <1>4. \A tail \in {"closed", "torn"} :
            /\ Within(Garbled(history, tail).rows, recorded)
            /\ M(Garbled(history, tail)) <= M(history) + (IF history.tail = "row" THEN 1 ELSE 0)
            /\ Garbled(history, tail).tail = tail
    BY GarblingCosts DEF Garbled
  <1>5. \A log : Loss(log) = M(log) + Stake(log)
    BY DEF Loss
  <1> HIDE DEF M
  <1>6. /\ Within(Appended(history, w).rows, recorded)
        /\ Loss(Appended(history, w)) + 1 <= Loss(history)
    <2>1. CASE history.tail = "closed"
      BY <1>2, <1>3, <1>5, <2>1 DEF Appended, Stake
    <2>2. CASE history.tail # "closed"
      BY <1>1, <1>2, <1>4, <1>5, <2>2 DEF Appended, Stake
    <2> QED
      BY <2>1, <2>2
  <1>7. ASSUME NEW new \in CutAppends(history, w)
        PROVE  Within(new.rows, recorded) /\ Loss(new) <= Loss(history) + 1
    <2>1. CASE new = history
      BY <1>1, <1>2, <1>5, <2>1 DEF Stake
    <2>2. CASE new = Garbled(history, "torn")
      BY <1>1, <1>2, <1>4, <1>5, <2>2 DEF Stake
    <2>3. CASE history.tail = "closed" /\ new = WithRow(history, w, "row")
      BY <1>2, <1>3, <1>5, <2>3 DEF Stake
    <2> QED
      BY <1>7, <2>1, <2>2, <2>3 DEF CutAppends
  <1> QED
    BY <1>6, <1>7

\* What is loaded is in order, and lacks no more of the newest windows than the
\* file, or the memory, it comes from (_load_window_history_locked).
LEMMA LoadsLose ==
    ASSUME IInv, HistInv, NEW load \in Loads, HistoryFree
    PROVE  /\ Within(load[1], recorded)
           /\ ~spoiled /\ ~load[2] => Cardinality(Missing(load[1])) <= 2 * broken
  <1>1. /\ TypeOK /\ history.rows \in Seq(Windows) /\ recorded \in Seq(Windows)
        /\ Len(history.rows) \in Nat /\ broken \in Nat
    BY LenProperties DEF IInv, TypeOK, Log
  <1>2. /\ rows # None => Within(rows, recorded)
        /\ Within(history.rows, recorded)
    BY DEF HistInv, OrderInv
  <1>3. CASE rows # None
    <2>1. load[1] = rows
      BY <1>3, LoadsRows DEF IInv
    <2> QED
      BY <1>2, <1>3, <2>1 DEF HistInv, LossInv
  <1>4. CASE load = <<Kept(history.rows), FALSE>>
    <2>1. load[1] = Kept(history.rows)
      BY <1>4
    <2>2. Within(load[1], recorded)
      BY <1>1, <1>2, <2>1, KeptWithin
    <2>3. Missing(load[1]) \subseteq Missing(history.rows)
      BY <1>1, <1>2, <2>1, NewestStay DEF Missing
    <2>4. /\ Cardinality(Missing(load[1])) <= Cardinality(Missing(history.rows))
          /\ Cardinality(Missing(load[1])) \in Nat /\ Cardinality(Missing(history.rows)) \in Nat
      BY <1>1, <2>3, MissingCounts
    <2>5. ~spoiled => Cardinality(Missing(history.rows)) + Stake(history) <= 2 * broken
      BY <1>1, <2>4 DEF HistInv, LossInv, Loss, Stake
    <2> QED
      BY <1>1, <2>2, <2>4, <2>5 DEF Stake
  <1>5. ASSUME NEW n \in 0..Len(history.rows),
               load = <<Kept(SubSeq(history.rows, 1, n)), TRUE>>
        PROVE  Within(load[1], recorded) /\ load[2] = TRUE
    <2>1. load[1] = Kept(SubSeq(history.rows, 1, n)) /\ load[2] = TRUE
      BY <1>5
    <2>2. /\ Within(SubSeq(history.rows, 1, n), recorded)
          /\ SubSeq(history.rows, 1, n) \in Seq(Windows)
      BY <1>1, <1>2, StretchWithin, ToSetSubSeq
    <2> QED
      BY <1>1, <2>1, <2>2, KeptWithin
  <1> QED
    BY <1>3, <1>4, <1>5 DEF Loads

\* A window recorded in memory is the newest there, and in the file it is one
\* more to miss until it is written (_record_window_history).
LEMMA RecordingLoses ==
    ASSUME IInv, HistInv, NEW r \in Requests, RecordMemory(r)
    PROVE  OrderInv' /\ LossInv'
  <1> DEFINE w == window[r]
  <1>1. PICK load \in Loads, bad \in BOOLEAN :
            /\ rows' = Kept(Append(load[1], w))
            /\ spoiled' = (spoiled \/ load[2])
            /\ broken' = broken + Fails(bad)
            /\ Goto(r, IF bad THEN "register" ELSE "write")
    BY DEF RecordMemory
  <1>2. /\ pc[r] = "record" /\ HistoryFree /\ history' = history /\ window' = window
        /\ recorded' = Append(recorded, w)
    BY DEF RecordMemory, fileVars, windowVars
  <1>3. /\ TypeOK /\ recorded \in Seq(Windows) /\ history.rows \in Seq(Windows)
        /\ broken \in Nat /\ w \in Windows
        /\ pc \in [Requests -> {"idle", "decide", "record", "write", "register", "list"}]
    <2>1. /\ w \in 0..windows /\ (w = 0 <=> pc[r] = "idle") /\ windows \in 0..MaxWindows
      BY DEF IInv, TypeOK
    <2>2. w \in Windows
      BY <1>2, <2>1, BoundAssumption DEF Windows
    <2> QED
      BY <2>2 DEF IInv, TypeOK, Log
  <1>4. w \notin ToSet(recorded)
    BY <1>2 DEF HistInv, RecordedInv
  <1>5. load[1] \in Seq(Windows) /\ Within(load[1], recorded)
    BY <1>2, LoadsRows, LoadsLose DEF IInv
  <1> DEFINE s == Append(load[1], w)
             t == Append(recorded, w)
  <1>6. /\ s \in Seq(Windows) /\ ToSet(s) = ToSet(load[1]) \cup {w}
        /\ t \in Seq(Windows) /\ ToSet(t) = ToSet(recorded) \cup {w}
    BY <1>3, <1>5, ToSetAppend
  <1>7. Within(s, t) /\ Within(history.rows, t) /\ Within(history.rows, recorded)
    BY <1>3, <1>4, <1>5, AppendWithin DEF HistInv, OrderInv
  <1>8. OrderInv'
    <2>1. Within(Kept(s), t)
      BY <1>6, <1>7, KeptWithin
    <2>2. ASSUME NEW q \in Requests, pc'[q] = "write" PROVE q = r
      BY <1>1, <1>2, <1>3, <2>2 DEF HistoryFree, Goto
    <2> QED
      BY <1>1, <1>2, <1>3, <1>4, <1>7, <2>1, <2>2 DEF OrderInv
  <1>9. ToSet(Kept(t)) \subseteq ToSet(Kept(recorded)) \cup {w}
    BY <1>3, KeptGrows
  <1>10. Missing(rows)' \subseteq Missing(load[1])
    <2>1. SUFFICES ASSUME NEW x \in ToSet(Kept(t)), x \notin ToSet(Kept(s))
                   PROVE  x \in ToSet(Kept(recorded)) /\ x \notin ToSet(load[1])
      BY <1>1, <1>2 DEF Missing
    <2>2. x \notin ToSet(s)
      BY <1>6, <1>7, <2>1, NewestStay
    <2> QED
      BY <1>6, <1>9, <2>1, <2>2
  <1>11. Missing(history.rows)' \subseteq Missing(history.rows) \cup {w}
    BY <1>2, <1>9 DEF Missing
  <1>12. /\ Missing(rows)' \in SUBSET Windows /\ Missing(history.rows)' \in SUBSET Windows
         /\ Missing(load[1]) \in SUBSET Windows /\ Missing(history.rows) \in SUBSET Windows
    BY <1>3, <1>10, <1>11, MissingCounts
  <1>13. /\ Cardinality(Missing(rows)') <= Cardinality(Missing(load[1]))
         /\ Cardinality(Missing(history.rows)') <= Cardinality(Missing(history.rows)) + 1
         /\ Cardinality(Missing(rows)') \in Nat /\ Cardinality(Missing(load[1])) \in Nat
         /\ Cardinality(Missing(history.rows)') \in Nat
         /\ Cardinality(Missing(history.rows)) \in Nat
    BY <1>10, <1>11, <1>12, Counted
  <1> SUFFICES ASSUME ~spoiled'
               PROVE  /\ Loss(history)' <= 2 * broken' + (IF HistoryFree' THEN 0 ELSE 1)
                      /\ Cardinality(Missing(rows)') <= 2 * broken'
    BY <1>8 DEF LossInv
  <1>14. ~spoiled /\ ~load[2]
    BY <1>1
  <1>15. broken' = broken + Fails(bad) /\ Fails(bad) \in {0, 1}
    BY <1>1 DEF Fails
  <1>16. Cardinality(Missing(rows)') <= 2 * broken'
    <2>1. Cardinality(Missing(load[1])) <= 2 * broken
      BY <1>2, <1>14, LoadsLose
    <2> QED
      BY <1>3, <1>13, <1>15, <2>1
  <1>17. Loss(history)' <= 2 * broken' + (IF HistoryFree' THEN 0 ELSE 1)
    <2>1. Loss(history)' = Cardinality(Missing(history.rows)') + Stake(history)
      BY <1>2 DEF Loss, Stake
    <2>2. Cardinality(Missing(history.rows)) + Stake(history) <= 2 * broken
      BY <1>2, <1>3, <1>14 DEF HistInv, LossInv, Loss
    <2>3. Stake(history) \in Nat
      BY DEF Stake
    <2>4. CASE bad
      <3>1. broken' = broken + 1
        BY <1>1, <2>4 DEF Fails
      <3>2. Loss(history)' <= 2 * broken'
        BY <1>3, <1>13, <2>1, <2>2, <2>3, <3>1
      <3>3. Loss(history)' \in Nat
        BY <1>13, <2>1, <2>3
      <3> QED
        BY <1>3, <3>1, <3>2, <3>3
    <2>5. CASE ~bad
      <3>1. broken' = broken /\ ~HistoryFree'
        BY <1>1, <1>3, <2>5 DEF Fails, Goto, HistoryFree
      <3> QED
        BY <1>3, <1>13, <2>1, <2>2, <2>3, <3>1
    <2> QED
      BY <2>4, <2>5
  <1> QED
    BY <1>16, <1>17

\* A write to the history, complete or not, is one append behind at most, or
\* brings the file up with the memory (_record_window_history).
LEMMA WriteLoses ==
    ASSUME IInv, HistInv, NEW r \in Requests, pc[r] = "write", recorded' = recorded,
           \/ WriteHistory(r) /\ broken' = broken /\ spoiled' = spoiled
           \/ CutHistory(r)
    PROVE  /\ Within(history'.rows, recorded)
           /\ ~spoiled' => ~spoiled /\ Loss(history') <= 2 * broken'
           /\ broken' \in {broken, broken + 1}
  <1> DEFINE w == window[r]
  <1>1. /\ TypeOK /\ Sound(history) /\ rows \in Seq(Windows) /\ rows # None
        /\ recorded \in Seq(Windows) /\ broken \in Nat /\ w \in Windows /\ ~HistoryFree
        /\ Len(rows) \in Nat /\ spoiled \in BOOLEAN
    BY LenProperties, BoundAssumption DEF IInv, TypeOK, LockInv, Windows, HistoryFree
  <1>2. PICK t \in Seq(Windows) : /\ recorded = Append(t, w)
                                  /\ w \notin ToSet(t)
                                  /\ Within(history.rows, t)
    BY DEF HistInv, OrderInv
  <1>3. Within(rows, recorded) /\ Within(history.rows, recorded)
    BY <1>1 DEF HistInv, OrderInv
  <1>4. ~spoiled => /\ Loss(history) <= 2 * broken + 1
                    /\ Cardinality(Missing(rows)) <= 2 * broken
    BY <1>1 DEF HistInv, LossInv
  <1>5. \A log : Cardinality(Missing(log.rows)) \in Nat /\ Loss(log) \in Nat
    <2>1. \A log : Cardinality(Missing(log.rows)) \in Nat
      BY <1>1, MissingCounts
    <2>2. \A log : Stake(log) \in Nat
      BY DEF Stake
    <2> QED
      BY <2>1, <2>2 DEF Loss
  <1>6. CASE ~Compacting
    <2>1. /\ Within(Appended(history, w).rows, recorded)
          /\ Loss(Appended(history, w)) + 1 <= Loss(history)
          /\ \A new \in CutAppends(history, w) :
                Within(new.rows, recorded) /\ Loss(new) <= Loss(history) + 1
      BY <1>1, <1>2, <1>3, AppendLoses
    <2>2. CASE history' = Appended(history, w) /\ broken' = broken /\ spoiled' = spoiled
      BY <1>1, <1>4, <1>5, <2>1, <2>2
    <2>3. CASE history' \in CutAppends(history, w) /\ broken' = broken + 1 /\ spoiled' = spoiled
      BY <1>1, <1>4, <1>5, <2>1, <2>3
    <2>4. (spoiled \/ Compacting) = spoiled
      BY <1>1, <1>6
    <2>5. CASE WriteHistory(r) /\ broken' = broken /\ spoiled' = spoiled
      BY <1>6, <2>2, <2>5 DEF WriteHistory
    <2>6. CASE CutHistory(r)
      BY <1>6, <2>3, <2>4, <2>6 DEF CutHistory
    <2> QED
      BY <2>5, <2>6
  <1>7. CASE Compacting
    <2>1. CASE history' = Rewritten(rows) /\ broken' = broken /\ spoiled' = spoiled
      <3>1. history'.rows = rows /\ Loss(history') = Cardinality(Missing(rows)) + 0
        BY <2>1 DEF Rewritten, Loss, Stake
      <3> QED
        BY <1>1, <1>3, <1>4, <1>5, <2>1, <3>1
    <2>2. CASE history' \in {history} \cup CutRewrites(rows) /\ broken' = broken /\ spoiled' = TRUE
      <3>1. \A n \in 0..Len(rows) : Within(SubSeq(rows, 1, n), recorded)
        BY <1>1, <1>3, StretchWithin
      <3>2. history'.rows = history.rows \/ \E n \in 0..Len(rows) : history'.rows = SubSeq(rows, 1, n)
        <4>1. /\ 1..Len(rows) \subseteq 0..Len(rows)
              /\ 0..(Len(rows) - 1) \subseteq 0..Len(rows)
          BY <1>1
        <4> QED
          BY <2>2, <4>1 DEF CutRewrites
      <3> QED
        BY <1>3, <2>2, <3>1, <3>2
    <2> QED
      BY <1>7, <2>1, <2>2 DEF WriteHistory, CutHistory
  <1> QED
    BY <1>6, <1>7

\* A window is recorded by its own request only, and once.
LEMMA RecordedStep ==
    ASSUME IInv, RecordedInv, [Next]_vars
    PROVE  RecordedInv'
  <1> USE DEF RecordedInv, Goto, Answer, windowVars, truthVars
  <1>1. /\ recorded \in Seq(Windows) /\ windows \in Nat
        /\ pc \in [Requests -> {"idle", "decide", "record", "write", "register", "list"}]
        /\ window \in [Requests -> 0..windows]
        /\ \A r \in Requests : window[r] = 0 <=> pc[r] = "idle"
        /\ \A r, q \in Requests : r # q /\ window[r] # 0 => window[r] # window[q]
    BY BoundAssumption DEF IInv, TypeOK, FreshInv
  <1>2. ASSUME recorded' = recorded, windows' = windows,
               \A q \in Requests : pc'[q] \in {"decide", "record"} =>
                    pc[q] \in {"decide", "record"} /\ window'[q] = window[q]
        PROVE  RecordedInv'
    BY <1>2
  <1>3. ASSUME NEW r \in Requests, Score(r) PROVE RecordedInv'
    <2>1. /\ recorded' = recorded /\ windows' = windows + 1
          /\ window' = [window EXCEPT ![r] = windows + 1]
          /\ pc' = [pc EXCEPT ![r] = "decide"]
      BY <1>3 DEF Score
    <2>2. windows + 1 \notin ToSet(recorded) /\ 1..windows \subseteq 1..(windows + 1)
      BY <1>1
    <2> QED
      BY <1>1, <2>1, <2>2
  <1>4. ASSUME NEW r \in Requests, RecordMemory(r) PROVE RecordedInv'
    <2>1. /\ pc[r] = "record" /\ window' = window /\ windows' = windows
          /\ recorded' = Append(recorded, window[r])
      BY <1>4 DEF RecordMemory
    <2>2. \A q \in Requests : pc'[q] \in {"decide", "record"} =>
             q # r /\ pc[q] \in {"decide", "record"}
      BY <1>1, <1>4, RecordLoads
    <2>3. window[r] \in 1..windows /\ window[r] \in Windows
      BY <1>1, <2>1, BoundAssumption DEF IInv, TypeOK, Windows
    <2>4. ToSet(recorded') = ToSet(recorded) \cup {window[r]}
      BY <1>1, <2>1, <2>3, ToSetAppend
    <2>5. \A q \in Requests : q # r => window[q] # window[r]
      BY <1>1, <2>3
    <2> QED
      BY <2>1, <2>2, <2>3, <2>4, <2>5
  <1>5. ASSUME NEW r \in Requests, DecisionFails(r) PROVE RecordedInv'
    BY <1>1, <1>2, <1>5 DEF DecisionFails
  <1>6. ASSUME NEW r \in Requests, Decide(r) PROVE RecordedInv'
    BY <1>1, <1>2, <1>6 DEF Decide
  <1>7. ASSUME NEW r \in Requests, RecordNothing(r) PROVE RecordedInv'
    BY <1>1, <1>2, <1>7 DEF RecordNothing
  <1>8. ASSUME NEW r \in Requests, WriteHistory(r) PROVE RecordedInv'
    BY <1>1, <1>2, <1>8 DEF WriteHistory
  <1>9. ASSUME NEW r \in Requests, WriteFails(r) PROVE RecordedInv'
    BY <1>1, <1>2, <1>9 DEF WriteFails
  <1>10. ASSUME NEW r \in Requests, RegisterNothing(r) PROVE RecordedInv'
    BY <1>1, <1>2, <1>10 DEF RegisterNothing
  <1>11. ASSUME NEW r \in Requests, WriteDetail(r) PROVE RecordedInv'
    BY <1>1, <1>2, <1>11 DEF WriteDetail
  <1>12. ASSUME NEW r \in Requests, DetailFails(r) PROVE RecordedInv'
    BY <1>1, <1>2, <1>12 DEF DetailFails
  <1>13. ASSUME NEW r \in Requests, List(r) PROVE RecordedInv'
    BY <1>1, <1>2, <1>13 DEF List
  <1>14. ASSUME NEW r \in Requests, ListFails(r) PROVE RecordedInv'
    BY <1>1, <1>2, <1>14 DEF ListFails
  <1>15. CASE Crash
    BY <1>1, <1>2, <1>15 DEF Crash
  <1>16. CASE UNCHANGED vars
    BY <1>1, <1>2, <1>16 DEF vars
  <1> QED
    BY <1>3, <1>4, <1>5, <1>6, <1>7, <1>8, <1>9, <1>10, <1>11, <1>12, <1>13, <1>14,
       <1>15, <1>16
    DEF Next, Step

\* A step that leaves the file and those who write it alone.
LEMMA HistoryAlone ==
    ASSUME IInv, HistInv, UNCHANGED <<history, recorded, broken>>,
           \A q \in Requests : /\ pc'[q] = "write" <=> pc[q] = "write"
                               /\ pc[q] = "write" => window'[q] = window[q],
           rows' # None => Within(rows', recorded),
           ~spoiled' => /\ ~spoiled
                        /\ rows' # None => Cardinality(Missing(rows')) <= 2 * broken
    PROVE  OrderInv' /\ LossInv'
  <1>1. OrderInv'
    BY DEF HistInv, OrderInv
  <1>2. HistoryFree' <=> HistoryFree
    BY DEF HistoryFree
  <1>3. ASSUME ~spoiled' PROVE Loss(history)' <= 2 * broken' + (IF HistoryFree' THEN 0 ELSE 1)
    <2>1. Loss(history)' = Loss(history)
      BY DEF Loss, Missing, Stake
    <2> QED
      BY <1>2, <1>3, <2>1 DEF HistInv, LossInv
  <1>4. ASSUME ~spoiled', rows' # None PROVE Cardinality(Missing(rows)') <= 2 * broken'
    <2>1. Missing(rows)' = Missing(rows')
      BY DEF Missing
    <2> QED
      BY <1>4, <2>1
  <1> QED
    BY <1>1, <1>3, <1>4 DEF LossInv

\* A step that leaves nobody writing the file.
LEMMA HistoryWritten ==
    ASSUME IInv, HistInv, recorded' = recorded, rows' \in {rows, None},
           \A q \in Requests : pc'[q] # "write",
           Within(history'.rows, recorded),
           ~spoiled' => ~spoiled /\ Loss(history') <= 2 * broken',
           broken' \in {broken, broken + 1}
    PROVE  OrderInv' /\ LossInv'
  <1>1. OrderInv'
    BY DEF HistInv, OrderInv
  <1>2. HistoryFree' /\ broken \in Nat
    BY DEF HistoryFree, IInv, TypeOK
  <1>3. ASSUME ~spoiled' PROVE Loss(history)' <= 2 * broken' + (IF HistoryFree' THEN 0 ELSE 1)
    <2>1. Loss(history)' = Loss(history')
      BY DEF Loss, Missing, Stake
    <2>2. Loss(history') <= 2 * broken' + 0
      BY <1>2, <1>3
    <2> QED
      BY <1>2, <2>1, <2>2
  <1>4. ASSUME ~spoiled', rows' # None PROVE Cardinality(Missing(rows)') <= 2 * broken'
    <2>1. rows' = rows /\ Missing(rows)' = Missing(rows)
      BY <1>4 DEF Missing
    <2>2. Cardinality(Missing(rows)) <= 2 * broken /\ Cardinality(Missing(rows)) \in Nat
      BY <1>4, <2>1, MissingCounts DEF HistInv, LossInv, IInv
    <2> QED
      BY <1>2, <2>1, <2>2
  <1> QED
    BY <1>1, <1>3, <1>4 DEF LossInv

\* Scoring loads no more than the file has.
LEMMA ScoringLoses ==
    ASSUME IInv, HistInv, NEW r \in Requests, Score(r)
    PROVE  OrderInv' /\ LossInv'
  <1>1. /\ UNCHANGED <<history, recorded, broken>> /\ HistoryFree /\ pc[r] = "idle"
        /\ window' = [window EXCEPT ![r] = windows'] /\ pc' = [pc EXCEPT ![r] = "decide"]
        /\ pc \in [Requests -> {"idle", "decide", "record", "write", "register", "list"}]
    BY DEF Score, Goto, fileVars, IInv, TypeOK
  <1>2. \A q \in Requests : pc[q] # "write" /\ pc'[q] # "write"
    BY <1>1 DEF HistoryFree
  <1>3. CASE UNCHANGED <<rows, spoiled>>
    BY <1>1, <1>2, <1>3, HistoryAlone DEF HistInv, OrderInv, LossInv
  <1>4. CASE ComputeStats
    <2>1. PICK load \in Loads : rows' = load[1] /\ spoiled' = (spoiled \/ load[2])
      BY <1>4 DEF ComputeStats
    <2>2. /\ Within(rows', recorded)
          /\ ~spoiled /\ ~load[2] => Cardinality(Missing(rows')) <= 2 * broken
      BY <1>1, <2>1, LoadsLose
    <2> QED
      BY <1>1, <1>2, <2>1, <2>2, HistoryAlone
  <1> QED
    BY <1>3, <1>4 DEF Score

\* Memory and file keep their order, and what they may lack.
LEMMA LossStep ==
    ASSUME IInv, HistInv, [Next]_vars
    PROVE  OrderInv' /\ LossInv'
  <1> USE DEF Goto, Answer, memoryVars, fileVars, windowVars, countVars, truthVars
  <1>1. /\ pc \in [Requests -> {"idle", "decide", "record", "write", "register", "list"}]
        /\ window \in [Requests -> 0..windows]
        /\ \A r, q \in Requests : pc[r] = "write" /\ pc[q] = "write" => r = q
    BY DEF IInv, TypeOK, LockInv
  <1>2. ASSUME UNCHANGED <<rows, history, recorded, broken, spoiled>>,
               \A q \in Requests : /\ pc'[q] = "write" <=> pc[q] = "write"
                                   /\ pc[q] = "write" => window'[q] = window[q]
        PROVE  OrderInv' /\ LossInv'
    BY <1>2, HistoryAlone DEF HistInv, OrderInv, LossInv
  <1>3. ASSUME NEW r \in Requests, DecisionFails(r) PROVE OrderInv' /\ LossInv'
    BY <1>1, <1>2, <1>3 DEF DecisionFails
  <1>4. ASSUME NEW r \in Requests, Decide(r) PROVE OrderInv' /\ LossInv'
    BY <1>1, <1>2, <1>4 DEF Decide
  <1>5. ASSUME NEW r \in Requests, RecordNothing(r) PROVE OrderInv' /\ LossInv'
    BY <1>1, <1>2, <1>5 DEF RecordNothing
  <1>6. ASSUME NEW r \in Requests, RegisterNothing(r) PROVE OrderInv' /\ LossInv'
    BY <1>1, <1>2, <1>6 DEF RegisterNothing
  <1>7. ASSUME NEW r \in Requests, WriteDetail(r) PROVE OrderInv' /\ LossInv'
    BY <1>1, <1>2, <1>7 DEF WriteDetail
  <1>8. ASSUME NEW r \in Requests, DetailFails(r) PROVE OrderInv' /\ LossInv'
    BY <1>1, <1>2, <1>8 DEF DetailFails
  <1>9. ASSUME NEW r \in Requests, List(r) PROVE OrderInv' /\ LossInv'
    BY <1>1, <1>2, <1>9 DEF List
  <1>10. ASSUME NEW r \in Requests, ListFails(r) PROVE OrderInv' /\ LossInv'
    BY <1>1, <1>2, <1>10 DEF ListFails
  <1>11. ASSUME NEW r \in Requests, WriteHistory(r) PROVE OrderInv' /\ LossInv'
    <2>1. /\ pc[r] = "write" /\ UNCHANGED <<rows, recorded, broken, spoiled>>
          /\ pc' = [pc EXCEPT ![r] = "register"]
      BY <1>11 DEF WriteHistory
    <2>2. \A q \in Requests : pc'[q] # "write"
      BY <1>1, <2>1
    <2>3. /\ Within(history'.rows, recorded)
          /\ ~spoiled' => ~spoiled /\ Loss(history') <= 2 * broken'
          /\ broken' \in {broken, broken + 1}
      BY <1>11, <2>1, WriteLoses
    <2> QED
      BY <2>1, <2>2, <2>3, HistoryWritten
  <1>12. ASSUME NEW r \in Requests, WriteFails(r) PROVE OrderInv' /\ LossInv'
    <2>1. /\ pc[r] = "write" /\ UNCHANGED <<rows, recorded>> /\ CutHistory(r)
          /\ pc' = [pc EXCEPT ![r] = "register"]
      BY <1>12 DEF WriteFails
    <2>2. \A q \in Requests : pc'[q] # "write"
      BY <1>1, <2>1
    <2>3. /\ Within(history'.rows, recorded)
          /\ ~spoiled' => ~spoiled /\ Loss(history') <= 2 * broken'
          /\ broken' \in {broken, broken + 1}
      BY <2>1, WriteLoses
    <2> QED
      BY <2>1, <2>2, <2>3, HistoryWritten
  <1>13. CASE Crash
    <2>1. /\ rows' = None /\ recorded' = recorded
          /\ \A q \in Requests : pc'[q] # "write"
          /\ \/ HistoryFree /\ UNCHANGED <<history, spoiled, broken>>
             \/ \E r \in Requests : pc[r] = "write" /\ CutHistory(r)
      BY <1>13 DEF Crash
    <2>2. CASE HistoryFree /\ UNCHANGED <<history, spoiled, broken>>
      <3>1. /\ Within(history.rows, recorded) /\ broken \in Nat
            /\ ~spoiled => Loss(history) <= 2 * broken + 0
        BY <2>2 DEF HistInv, OrderInv, LossInv, IInv, TypeOK
      <3>2. Loss(history) \in Int
        BY MissingCounts DEF Loss, Stake, IInv
      <3>3. Loss(history') = Loss(history)
        BY <2>2
      <3> QED
        BY <2>1, <2>2, <3>1, <3>2, <3>3, HistoryWritten
    <2>3. ASSUME NEW r \in Requests, pc[r] = "write", CutHistory(r)
          PROVE  OrderInv' /\ LossInv'
      <3>1. /\ Within(history'.rows, recorded)
            /\ ~spoiled' => ~spoiled /\ Loss(history') <= 2 * broken'
            /\ broken' \in {broken, broken + 1}
        BY <2>1, <2>3, WriteLoses
      <3> QED
        BY <2>1, <3>1, HistoryWritten
    <2> QED
      BY <2>1, <2>2, <2>3
  <1>14. CASE UNCHANGED vars
    BY <1>1, <1>2, <1>14 DEF vars
  <1> QED
    BY <1>3, <1>4, <1>5, <1>6, <1>7, <1>8, <1>9, <1>10, <1>11, <1>12, <1>13, <1>14,
       ScoringLoses, RecordingLoses
    DEF Next, Step

\* What memory and file lack stays within what failed.
THEOREM HistInvariance == Spec => [](IInv /\ HistInv)
  <1>1. Init /\ IInv => HistInv
    <2> SUFFICES ASSUME Init, IInv PROVE HistInv
      OBVIOUS
    <2> USE DEF Init
    <2>1. recorded = <<>> /\ history.rows = <<>> /\ history.tail = "closed" /\ rows = None
      BY DEF Rewritten
    <2>2. <<>> \in Seq(Windows) /\ ToSet(<<>>) = {} /\ DOMAIN <<>> = {}
      BY EmptySeq DEF ToSet
    <2>3. \A r \in Requests : pc[r] = "idle"
      OBVIOUS
    <2>4. RecordedInv /\ OrderInv
      BY <2>1, <2>2, <2>3 DEF RecordedInv, OrderInv, Within
    <2>5. Missing(history.rows) = {}
      <3>1. ToSet(Kept(<<>>)) \subseteq ToSet(<<>>)
        BY <2>2, KeptRows
      <3> QED
        BY <2>1, <2>2, <3>1 DEF Missing
    <2>6. Loss(history) = 0 /\ HistoryFree
      <3>1. Cardinality(Missing(history.rows)) = 0
        BY <2>5, FS_EmptySet
      <3>2. Loss(history) = 0 + Stake(history)
        BY <3>1 DEF Loss
      <3>3. Stake(history) = 0 /\ HistoryFree
        BY <2>1, <2>3 DEF Stake, HistoryFree
      <3> QED
        BY <3>2, <3>3
    <2>7. LossInv
      BY <2>1, <2>6 DEF LossInv
    <2> QED
      BY <2>4, <2>7 DEF HistInv
  <1>2. IInv /\ HistInv /\ [Next]_vars => HistInv'
    BY RecordedStep, LossStep DEF HistInv
  <1> QED
    BY <1>1, <1>2, Invariance, PTL DEF Spec

\* Of the newest windows recorded, what a restart finds lacks two for every
\* append that did not get through and the one being written, at most, unless a
\* compaction or a load was cut off (_load_window_history_locked).
THEOREM LossIsBounded == Spec => []LossBounded
  <1>1. IInv /\ HistInv => LossBounded
    <2> SUFFICES ASSUME IInv, HistInv, ~spoiled
                 PROVE  Cardinality(ToSet(Kept(recorded)) \ ToSet(Kept(history.rows)))
                            <= 2 * broken + Cardinality({r \in Requests : pc[r] = "write"})
      BY DEF LossBounded
    <2> DEFINE lost == ToSet(Kept(recorded)) \ ToSet(Kept(history.rows))
               writers == {r \in Requests : pc[r] = "write"}
    <2>1. /\ TypeOK /\ history.rows \in Seq(Windows) /\ recorded \in Seq(Windows)
          /\ broken \in Nat
      BY DEF IInv, TypeOK, Log
    <2>2. Within(history.rows, recorded)
      BY DEF HistInv, OrderInv
    <2>3. lost \subseteq Missing(history.rows)
      BY <2>1, <2>2, NewestStay DEF Missing
    <2>4. Cardinality(lost) <= Cardinality(Missing(history.rows))
      BY <2>1, <2>3, MissingCounts, Counted
    <2>5. Cardinality(writers) = IF HistoryFree THEN 0 ELSE 1
      <3>1. CASE HistoryFree
        <4>1. writers = {}
          BY <3>1 DEF HistoryFree
        <4> QED
          BY <3>1, <4>1, FS_EmptySet
      <3>2. CASE ~HistoryFree
        <4>1. PICK r \in Requests : pc[r] = "write"
          BY <3>2 DEF HistoryFree
        <4>2. writers = {r}
          BY <4>1 DEF IInv, LockInv
        <4> QED
          BY <3>2, <4>2, FS_Singleton
      <3> QED
        BY <3>1, <3>2
    <2>6. Cardinality(Missing(history.rows)) + Stake(history)
            <= 2 * broken + (IF HistoryFree THEN 0 ELSE 1)
      BY DEF HistInv, LossInv, Loss
    <2>7. Stake(history) \in Nat /\ Cardinality(Missing(history.rows)) \in Nat
      BY <2>1, MissingCounts DEF Stake
    <2>8. Cardinality(lost) \in Nat
      <3>1. Missing(history.rows) \in SUBSET Windows
        BY <2>1, MissingCounts
      <3> QED
        BY <2>3, <3>1, Counted
    <2> HIDE DEF lost, writers
    <2>9. Cardinality(lost) <= 2 * broken + Cardinality(writers)
      BY <2>1, <2>4, <2>5, <2>6, <2>7, <2>8
    <2> QED
      BY <2>9 DEF lost, writers
  <1> QED
    BY <1>1, HistInvariance, PTL

\* Memory and file hold windows in the order they were recorded, each once,
\* although lines tear, run together and drop out, and the file is rewritten
\* from memory and read back (_record_window_history,
\* _load_window_history_locked).
THEOREM OrderIsKept ==
    Spec => [](/\ rows # None => Within(rows, recorded)
               /\ Within(history.rows, recorded))
  <1>1. HistInv => /\ rows # None => Within(rows, recorded)
                   /\ Within(history.rows, recorded)
    BY DEF HistInv, OrderInv
  <1> QED
    BY <1>1, HistInvariance, PTL
=============================================================================
