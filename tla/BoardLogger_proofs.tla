-------------------------- MODULE BoardLogger_proofs --------------------------
(***************************************************************************)
(* What every step of the logger preserves, proved for any set of boards,  *)
(* any number of launches and any faults.                                  *)
(***************************************************************************)
EXTENDS BoardLogger, SequenceTheorems, TLAPS

LoggerMove == Launch \/ LoggerStep \/ Crash \/ Deliver

\* Appending a line of the right kind keeps the log a sequence of lines.
LEMMA LogGrows ==
    ASSUME log \in Seq(Line(Runs)),
           NEW line \in Line(Runs),
           log' = Append(log, line)
    PROVE  /\ log' \in Seq(Line(Runs))
           /\ log' # <<>>
           /\ DOMAIN log' = DOMAIN log \cup {Len(log) + 1}
           /\ \A i \in DOMAIN log : log'[i] = log[i]
           /\ log'[Len(log) + 1] = line
  <1>1. /\ log' \in Seq(Line(Runs))
        /\ log' # <<>>
        /\ Len(log') = Len(log) + 1
        /\ \A i \in 1..Len(log) : log'[i] = log[i]
        /\ log'[Len(log) + 1] = line
    BY AppendProperties
  <1>2. DOMAIN log = 1..Len(log) /\ DOMAIN log' = 1..Len(log') /\ Len(log) \in Nat
    BY <1>1
  <1> QED BY <1>1, <1>2

\* The lines the logger writes.
LEMMA LinesAreLines ==
    /\ Text \in Line(Runs)
    /\ BadLine \in Line(Runs)
    /\ StoppingLine \in Line(Runs)
    /\ \A b \in Boards : StartedLine(b) \in Line(Runs) /\ StoppedLine(b) \in Line(Runs)
    /\ \A pid \in Runs, began, done \in SUBSET Boards, failed \in BOOLEAN :
          ReceiptLine(pid, began, done, failed) \in Line(Runs)
  BY DEF Line, Text, BadLine, StoppingLine, StartedLine, StoppedLine, ReceiptLine

\* A logger is some launch's process.
RunOfLogger == Alive => run \in Runs

\* The types of the logger's variables are kept by all that can happen to it.
THEOREM LoggerKeepsTypes ==
    ASSUME LoggerTypeOK, RunOfLogger, LoggerMove
    PROVE  LoggerTypeOK' /\ RunOfLogger'
  <1> USE DEF LoggerTypeOK, RunOfLogger, Alive, Phases, Runs
  <1>1. MaxRuns \in Nat \ {0}
    BY RunsAssumption
  <1>2. /\ Text \in Line(Runs)
        /\ BadLine \in Line(Runs)
        /\ StoppingLine \in Line(Runs)
        /\ \A b \in Boards : StartedLine(b) \in Line(Runs) /\ StoppedLine(b) \in Line(Runs)
    BY LinesAreLines
  <1>3. \A line \in Line(Runs) : Append(log, line) \in Seq(Line(Runs))
    BY AppendProperties
  <1>4. CASE Launch
    <2>1. run' \in 1..MaxRuns
      BY <1>1, <1>4 DEF Launch
    <2>2. log' = <<>>
      BY <1>4 DEF Launch
    <2>3. log' \in Seq(Line(Runs))
      BY <2>2, EmptySeq
    <2>4. /\ phase' = "boot" /\ owner' = owner
          /\ flag' = FALSE /\ errors' = FALSE /\ raised' = FALSE
          /\ begun' = {} /\ awaiting' = {} /\ tried' = {} /\ stopped' = {}
      BY <1>4 DEF Launch, NoMemory
    <2>5. flag' \in BOOLEAN /\ errors' \in BOOLEAN /\ raised' \in BOOLEAN
      BY <2>4
    <2>6. /\ run' \in 0..MaxRuns /\ phase' \in Phases /\ owner' \in [Boards -> 0..MaxRuns]
          /\ begun' \in SUBSET Boards /\ awaiting' \in SUBSET Boards
          /\ tried' \in SUBSET Boards /\ stopped' \in SUBSET Boards
      BY <1>1, <2>1, <2>4
    <2> QED BY <2>1, <2>3, <2>5, <2>6
  <1>5. CASE Crash
    BY <1>5 DEF Crash, Gone, NoMemory
  <1>6. CASE Deliver
    BY <1>6 DEF Deliver
  <1>7. CASE BootFails \/ OpenFails \/ Exit
    BY <1>2, <1>3, <1>7 DEF BootFails, OpenFails, Exit, Gone, NoMemory
  <1>8. CASE InstallHandlers \/ OpenSucceeds \/ PrepareSucceeds \/ StartDone \/ StopsDone
    BY <1>2, <1>3, <1>8
       DEF InstallHandlers, OpenSucceeds, PrepareSucceeds, StartDone, StopsDone
  <1>9. CASE PrepareFails \/ LoggingEnds
    BY <1>2, <1>3, <1>9 DEF PrepareFails, LoggingEnds, EnterCleanup
  <1>10. CASE CloseEngine
    BY <1>2, <1>3, <1>10 DEF CloseEngine
  <1>11. CASE WriteReceipt
    <2>1. ReceiptLine(run, begun, stopped, errors) \in Line(Runs)
      BY <1>11, LinesAreLines DEF WriteReceipt
    <2> QED BY <1>3, <1>11, <2>1 DEF WriteReceipt
  <1>12. ASSUME NEW b \in Boards, BeginStart(b)
         PROVE  LoggerTypeOK' /\ RunOfLogger'
    BY <1>12 DEF BeginStart
  <1>13. ASSUME NEW b \in Boards, StartSucceeds(b) \/ ReportStopped(b)
         PROVE  LoggerTypeOK' /\ RunOfLogger'
    BY <1>2, <1>3, <1>13 DEF StartSucceeds, ReportStopped
  <1>14. ASSUME NEW b \in Boards, StartFails(b)
         PROVE  LoggerTypeOK' /\ RunOfLogger'
    BY <1>2, <1>3, <1>14 DEF StartFails, EnterCleanup
  <1>15. ASSUME NEW b \in Boards, StopAcknowledged(b)
         PROVE  LoggerTypeOK' /\ RunOfLogger'
    BY <1>1, <1>15 DEF StopAcknowledged
  <1>16. ASSUME NEW b \in Boards, StopFails(b)
         PROVE  LoggerTypeOK' /\ RunOfLogger'
    BY <1>1, <1>2, <1>3, <1>16 DEF StopFails
  <1> QED
    BY <1>4, <1>5, <1>6, <1>7, <1>8, <1>9, <1>10, <1>11, <1>12, <1>13, <1>14,
       <1>15, <1>16 DEF LoggerMove, LoggerStep

-----------------------------------------------------------------------------
(***************************************************************************)
(* What the log says of the boards.                                        *)
(***************************************************************************)
Receipt(i) == i \in DOMAIN log /\ log[i].kind = "receipt"

\* A board streams only for a launch that has happened.
OwnersKnown == \A b \in Boards : owner[b] <= run

\* A live logger knows the boards it may have left streaming.
OwnersBegun ==
    Alive => \A b \in Boards : owner[b] = run => b \in begun \ stopped

NothingStopped ==
    phase \in {"boot", "opening", "preparing", "starting"} => stopped = {}

\* A receipt is the last launch's own, comes when it is done, and a complete
\* one is true.
ReceiptsSound ==
    \A i \in DOMAIN log :
        Receipt(i) => /\ phase \in {"exiting", "gone"}
                      /\ log[i].pid = run
                      /\ log[i].began = log[i].stopped => Quiet(run)

\* An empty log is that of a logger which has touched no board.
EmptyLogIsQuiet == log = <<>> => phase \in {"boot", "gone"} /\ Quiet(run)

LoggerInv ==
    /\ LoggerTypeOK
    /\ RunOfLogger
    /\ OwnersKnown
    /\ OwnersBegun
    /\ NothingStopped
    /\ ReceiptsSound
    /\ EmptyLogIsQuiet

\* The ground truth invariant holds before the first launch.
LEMMA LoggerInvHolds == ASSUME LoggerInit PROVE LoggerInv
  <1>1. MaxRuns \in Nat \ {0}
    BY RunsAssumption
  <1>2. log \in Seq(Line(Runs)) /\ DOMAIN log = {}
    BY EmptySeq DEF LoggerInit
  <1>3. owner \in [Boards -> 0..MaxRuns]
    BY <1>1 DEF LoggerInit
  <1>4. LoggerTypeOK /\ RunOfLogger
    <2>1. /\ run = 0 /\ phase = "gone"
          /\ flag = FALSE /\ errors = FALSE /\ raised = FALSE
          /\ begun = {} /\ awaiting = {} /\ tried = {} /\ stopped = {}
      BY DEF LoggerInit
    <2>2. flag \in BOOLEAN /\ errors \in BOOLEAN /\ raised \in BOOLEAN
      BY <2>1
    <2>3. /\ run \in 0..MaxRuns /\ phase \in Phases
          /\ begun \in SUBSET Boards /\ awaiting \in SUBSET Boards
          /\ tried \in SUBSET Boards /\ stopped \in SUBSET Boards
          /\ Alive => run \in Runs
      BY <1>1, <2>1 DEF Phases, Alive
    <2> QED BY <1>2, <1>3, <2>2, <2>3 DEF LoggerTypeOK, RunOfLogger
  <1> QED
    BY <1>1, <1>2, <1>4
       DEF LoggerInit, LoggerInv, OwnersKnown, OwnersBegun, NothingStopped,
           ReceiptsSound, EmptyLogIsQuiet, Alive, Quiet

\* A step that appends a line other than a receipt, and that neither makes a
\* board stream nor leaves the end of a logger, keeps the receipts sound.
LEMMA ReceiptsStaySound ==
    ASSUME LoggerInv,
           NEW line \in Line(Runs),
           line.kind # "receipt",
           log' = Append(log, line),
           run' = run,
           phase \in {"exiting", "gone"} => phase' \in {"exiting", "gone"},
           \A b \in Boards : owner'[b] = run => owner[b] = run
    PROVE  ReceiptsSound' /\ log' # <<>>
  <1>1. /\ log' # <<>>
        /\ DOMAIN log' = DOMAIN log \cup {Len(log) + 1}
        /\ \A i \in DOMAIN log : log'[i] = log[i]
        /\ log'[Len(log) + 1] = line
    BY LogGrows DEF LoggerInv, LoggerTypeOK
  <1>2. SUFFICES ASSUME NEW i \in DOMAIN log', Receipt(i)'
                 PROVE  /\ phase' \in {"exiting", "gone"}
                        /\ log'[i].pid = run'
                        /\ log'[i].began = log'[i].stopped => Quiet(run)'
    BY <1>1 DEF ReceiptsSound
  <1>3. i \in DOMAIN log /\ log'[i] = log[i] /\ Receipt(i)
    BY <1>1, <1>2 DEF Receipt
  <1>4. /\ phase \in {"exiting", "gone"}
        /\ log[i].pid = run
        /\ log[i].began = log[i].stopped => Quiet(run)
    BY <1>3 DEF LoggerInv, ReceiptsSound
  <1>5. Quiet(run) => Quiet(run)'
    BY DEF Quiet
  <1> QED BY <1>1, <1>3, <1>4, <1>5

\* No receipt before the cleanup is done.
LEMMA NoReceiptYet ==
    ASSUME LoggerInv, phase \notin {"exiting", "gone"}
    PROVE  \A i \in DOMAIN log : ~Receipt(i)
  BY DEF LoggerInv, ReceiptsSound

\* The ground truth invariant is kept by all that can happen to a logger.
THEOREM LoggerKeepsInv ==
    ASSUME LoggerInv, LoggerMove
    PROVE  LoggerInv'
  <1>1. LoggerTypeOK' /\ RunOfLogger'
    BY LoggerKeepsTypes DEF LoggerInv
  <1>2. /\ MaxRuns \in Nat \ {0}
        /\ run \in Nat
        /\ owner \in [Boards -> Int]
        /\ \A b \in Boards : owner[b] \in Int /\ owner[b] <= run
        /\ Alive => run \in Nat \ {0}
    BY RunsAssumption DEF LoggerInv, LoggerTypeOK, RunOfLogger, Runs, OwnersKnown
  <1> DEFINE Rest == /\ OwnersKnown
                     /\ OwnersBegun
                     /\ NothingStopped
                     /\ ReceiptsSound
                     /\ EmptyLogIsQuiet
  <1>3. SUFFICES Rest'
    BY <1>1 DEF LoggerInv
  <1>4. Rest
    BY DEF LoggerInv
  <1>5. CASE Launch
    <2>1. /\ run' = run + 1 /\ phase' = "boot" /\ owner' = owner /\ stopped' = {}
          /\ log' = <<>>
      BY <1>5 DEF Launch, NoMemory
    <2>2. DOMAIN log' = {}
      BY <2>1
    <2>3. \A b \in Boards : owner'[b] # run'
      BY <1>2, <2>1
    <2> QED BY <1>2, <2>1, <2>2, <2>3
            DEF OwnersKnown, OwnersBegun, NothingStopped, ReceiptsSound,
                EmptyLogIsQuiet, Quiet
  <1>6. CASE Crash
    <2>1. run' = run /\ phase' = "gone" /\ owner' = owner /\ log' = log
      BY <1>6 DEF Crash, Gone
    <2> QED BY <1>4, <2>1
            DEF OwnersKnown, OwnersBegun, NothingStopped, ReceiptsSound, Receipt,
                EmptyLogIsQuiet, Quiet, Alive
  <1>7. CASE Deliver
    BY <1>4, <1>7
       DEF Deliver, OwnersKnown, OwnersBegun, NothingStopped, ReceiptsSound, Receipt,
           EmptyLogIsQuiet, Quiet, Alive
  <1>8. CASE OpenSucceeds \/ PrepareSucceeds \/ StartDone \/ StopsDone
    <2>1. /\ run' = run /\ owner' = owner /\ log' = log
          /\ begun' = begun /\ stopped' = stopped
          /\ phase \notin {"exiting", "gone", "boot"}
          /\ phase' \notin {"exiting", "gone"}
          /\ phase' \in {"preparing", "starting"} => phase \in {"opening", "preparing"}
          /\ phase' \notin {"boot", "opening"}
      BY <1>8 DEF OpenSucceeds, PrepareSucceeds, StartDone, StopsDone
    <2> QED BY <1>4, <2>1
            DEF OwnersKnown, OwnersBegun, NothingStopped, ReceiptsSound, Receipt,
                EmptyLogIsQuiet, Quiet, Alive
  <1>9. CASE BootFails \/ Exit \/ OpenFails
    <2>1. /\ run' = run /\ owner' = owner /\ phase' = "gone"
          /\ log' = log \/ log' = Append(log, BadLine)
          /\ phase # "gone"
      BY <1>9 DEF BootFails, Exit, OpenFails, Gone
    <2>2. CASE log' = log
      BY <1>4, <2>1, <2>2
         DEF OwnersKnown, OwnersBegun, NothingStopped, ReceiptsSound, Receipt,
             EmptyLogIsQuiet, Quiet, Alive
    <2>3. CASE log' = Append(log, BadLine)
      <3>1. ReceiptsSound' /\ log' # <<>>
        BY <2>1, <2>3, LinesAreLines, ReceiptsStaySound DEF BadLine
      <3> QED BY <1>4, <2>1, <3>1
              DEF OwnersKnown, OwnersBegun, NothingStopped, EmptyLogIsQuiet, Alive
    <2> QED BY <2>1, <2>2, <2>3
  <1>10. CASE InstallHandlers
    <2>1. ReceiptsSound' /\ log' # <<>>
      BY <1>10, LinesAreLines, ReceiptsStaySound DEF InstallHandlers, Text
    <2> QED BY <1>4, <1>10, <2>1
            DEF InstallHandlers, OwnersKnown, OwnersBegun, NothingStopped,
                EmptyLogIsQuiet, Alive
  <1>11. CASE PrepareFails \/ LoggingEnds \/ \E b \in Boards : StartFails(b)
    <2>1. /\ run' = run /\ owner' = owner /\ phase' = "stopping"
          /\ begun' = begun /\ stopped' = stopped
          /\ log' = log \/ log' = Append(log, StoppingLine)
          /\ phase \notin {"exiting", "gone", "boot"}
      BY <1>11 DEF PrepareFails, LoggingEnds, StartFails, EnterCleanup
    <2>2. CASE log' = log
      BY <1>4, <2>1, <2>2
         DEF OwnersKnown, OwnersBegun, NothingStopped, ReceiptsSound, Receipt,
             EmptyLogIsQuiet, Quiet, Alive
    <2>3. CASE log' = Append(log, StoppingLine)
      <3>1. ReceiptsSound' /\ log' # <<>>
        BY <2>1, <2>3, LinesAreLines, ReceiptsStaySound DEF StoppingLine
      <3> QED BY <1>4, <2>1, <3>1
              DEF OwnersKnown, OwnersBegun, NothingStopped, EmptyLogIsQuiet, Alive
    <2> QED BY <2>1, <2>2, <2>3
  <1>12. ASSUME NEW c \in Boards, BeginStart(c)
         PROVE  Rest'
    <2>1. /\ run' = run /\ phase' = phase /\ phase = "starting" /\ log' = log
          /\ stopped' = stopped /\ begun' = begun \cup {c}
          /\ \A b \in Boards : owner'[b] = owner[b] \/ (b = c /\ owner'[b] = run)
      BY <1>2, <1>12 DEF BeginStart
    <2>2. \A i \in DOMAIN log : ~Receipt(i)
      BY <2>1, NoReceiptYet
    <2>3. log # <<>> /\ stopped = {}
      BY <1>4, <2>1 DEF EmptyLogIsQuiet, NothingStopped
    <2> QED BY <1>2, <1>4, <2>1, <2>2, <2>3
            DEF OwnersKnown, OwnersBegun, NothingStopped, ReceiptsSound, Receipt,
                EmptyLogIsQuiet, Alive
  <1>13. ASSUME NEW c \in Boards, StartSucceeds(c) \/ ReportStopped(c)
         PROVE  Rest'
    <2>1. /\ run' = run /\ owner' = owner /\ phase' = phase /\ phase # "gone"
          /\ begun' = begun /\ stopped' = stopped
          /\ log' = Append(log, StartedLine(c)) \/ log' = Append(log, StoppedLine(c))
      BY <1>13 DEF StartSucceeds, ReportStopped
    <2>2. ReceiptsSound' /\ log' # <<>>
      BY <2>1, LinesAreLines, ReceiptsStaySound DEF StartedLine, StoppedLine
    <2> QED BY <1>4, <2>1, <2>2
            DEF OwnersKnown, OwnersBegun, NothingStopped, EmptyLogIsQuiet, Alive
  <1>14. ASSUME NEW c \in Boards, StopAcknowledged(c)
         PROVE  Rest'
    <2>1. /\ run' = run /\ phase' = phase /\ phase = "stopping" /\ log' = log
          /\ begun' = begun /\ stopped' = stopped \cup {c}
          /\ \A b \in Boards : owner'[b] = IF b = c THEN 0 ELSE owner[b]
      BY <1>2, <1>14 DEF StopAcknowledged
    <2>2. \A i \in DOMAIN log : ~Receipt(i)
      BY <2>1, NoReceiptYet
    <2>3. log # <<>> /\ run # 0
      BY <1>2, <1>4, <2>1 DEF EmptyLogIsQuiet, Alive
    <2> QED BY <1>2, <1>4, <2>1, <2>2, <2>3
            DEF OwnersKnown, OwnersBegun, NothingStopped, ReceiptsSound, Receipt,
                EmptyLogIsQuiet, Alive
  <1>15. ASSUME NEW c \in Boards, StopFails(c)
         PROVE  Rest'
    <2>1. /\ run' = run /\ phase' = phase /\ phase = "stopping"
          /\ begun' = begun /\ stopped' = stopped
          /\ log' = Append(log, BadLine)
          /\ \A b \in Boards : owner'[b] = owner[b] \/ owner'[b] = 0
      BY <1>2, <1>15 DEF StopFails
    <2>2. run # 0
      BY <1>2, <2>1 DEF Alive
    <2>3. \A b \in Boards : owner'[b] = run => owner[b] = run
      BY <1>2, <2>1, <2>2
    <2>4. ReceiptsSound' /\ log' # <<>>
      BY <2>1, <2>3, LinesAreLines, ReceiptsStaySound DEF BadLine
    <2> QED BY <1>2, <1>4, <2>1, <2>3, <2>4
            DEF OwnersKnown, OwnersBegun, NothingStopped, EmptyLogIsQuiet, Alive
  <1>16. CASE CloseEngine
    <2>1. /\ run' = run /\ owner' = owner /\ phase' = "finishing" /\ phase = "closing"
          /\ begun' = begun /\ stopped' = stopped
          /\ log' = log \/ log' = Append(log, BadLine)
      BY <1>16 DEF CloseEngine
    <2>2. CASE log' = log
      BY <1>4, <2>1, <2>2
         DEF OwnersKnown, OwnersBegun, NothingStopped, ReceiptsSound, Receipt,
             EmptyLogIsQuiet, Quiet, Alive
    <2>3. CASE log' = Append(log, BadLine)
      <3>1. ReceiptsSound' /\ log' # <<>>
        BY <2>1, <2>3, LinesAreLines, ReceiptsStaySound DEF BadLine
      <3> QED BY <1>4, <2>1, <3>1
              DEF OwnersKnown, OwnersBegun, NothingStopped, EmptyLogIsQuiet, Alive
    <2> QED BY <2>1, <2>2, <2>3
  <1>17. CASE WriteReceipt
    <2>1. /\ run' = run /\ owner' = owner /\ phase' = "exiting" /\ phase = "finishing"
          /\ begun' = begun /\ stopped' = stopped
          /\ log' = Append(log, ReceiptLine(run, begun, stopped, errors))
      BY <1>17 DEF WriteReceipt
    <2>2. ReceiptLine(run, begun, stopped, errors) \in Line(Runs)
      BY <2>1, LinesAreLines DEF LoggerInv, LoggerTypeOK, RunOfLogger, Alive
    <2>3. /\ log' # <<>>
          /\ DOMAIN log' = DOMAIN log \cup {Len(log) + 1}
          /\ \A i \in DOMAIN log : log'[i] = log[i]
          /\ log'[Len(log) + 1] = ReceiptLine(run, begun, stopped, errors)
      BY <2>1, <2>2, LogGrows DEF LoggerInv, LoggerTypeOK
    <2>4. \A i \in DOMAIN log : ~Receipt(i)
      BY <2>1, NoReceiptYet
    <2>5. begun = stopped => Quiet(run)
      BY <1>4, <2>1 DEF OwnersBegun, Quiet, Alive
    <2>6. ReceiptsSound'
      BY <2>1, <2>3, <2>4, <2>5 DEF ReceiptsSound, Receipt, ReceiptLine, Quiet
    <2> QED BY <1>4, <2>1, <2>3, <2>6
            DEF OwnersKnown, OwnersBegun, NothingStopped, EmptyLogIsQuiet, Alive
  <1> QED
    BY <1>5, <1>6, <1>7, <1>8, <1>9, <1>10, <1>11, <1>12, <1>13, <1>14, <1>15,
       <1>16, <1>17 DEF LoggerMove, LoggerStep
-----------------------------------------------------------------------------
(***************************************************************************)
(* What a reader may conclude from the lines of the log.                   *)
(***************************************************************************)
LineOf(i, kind) == i \in DOMAIN log /\ log[i].kind = kind

\* A logger past its stop commands starts no board any more.
Ending == {"closing", "finishing", "exiting", "gone"}

\* A board reported as started streams for that logger, or not at all.
StartedOwned ==
    \A i \in DOMAIN log : LineOf(i, "started") => owner[log[i].board] \in {0, run}

\* A board reported as stopped does not stream for it any more.
StoppedIdle ==
    \A i \in DOMAIN log :
        LineOf(i, "stopped") => owner[log[i].board] # run /\ phase \in Ending

\* There is one receipt at most, behind all reports of boards started.
ReceiptCloses ==
    /\ \A i, j \in DOMAIN log : LineOf(i, "receipt") /\ LineOf(j, "receipt") => i = j
    /\ \A i, j \in DOMAIN log : LineOf(i, "receipt") /\ LineOf(j, "started") => j < i

\* A failure printed before the receipt is an error in the receipt.
FailuresReported ==
    /\ Alive => \A i \in DOMAIN log : LineOf(i, "bad") => errors
    /\ \A i, j \in DOMAIN log : LineOf(i, "receipt") /\ LineOf(j, "bad") /\ j < i
                                => log[i].errors

LogTells ==
    /\ StartedOwned
    /\ StoppedIdle
    /\ ReceiptCloses
    /\ FailuresReported

\* The boards that lines name are boards.
LEMMA LinesNameBoards ==
    ASSUME LoggerTypeOK, NEW i \in DOMAIN log, LineOf(i, "started") \/ LineOf(i, "stopped")
    PROVE  log[i].board \in Boards
  <1>1. log[i] \in Line(Runs)
    BY ElementOfSeq DEF LoggerTypeOK
  <1> QED BY <1>1 DEF LineOf, Line, Text, StoppingLine, BadLine, StartedLine, StoppedLine

\* A step that leaves the log as it is keeps it telling the truth.
LEMMA SameLogTells ==
    ASSUME LoggerInv, LogTells,
           log' = log, run' = run,
           \A b \in Boards : \/ owner'[b] = owner[b]
                             \/ owner'[b] \in {0, run} /\ phase \notin Ending,
           phase \in Ending => phase' \in Ending,
           Alive' => Alive,
           Alive' /\ errors => errors'
    PROVE  LogTells'
  <1>1. \A i \in DOMAIN log : LineOf(i, "started") \/ LineOf(i, "stopped")
                              => log[i].board \in Boards
    BY LinesNameBoards DEF LoggerInv
  <1>2. \A i, kind : LineOf(i, kind)' <=> LineOf(i, kind)
    BY DEF LineOf
  <1>3. StartedOwned' /\ StoppedIdle'
    BY <1>1, <1>2 DEF LogTells, StartedOwned, StoppedIdle
  <1>4. ReceiptCloses' /\ FailuresReported'
    BY <1>2 DEF LogTells, ReceiptCloses, FailuresReported
  <1> QED BY <1>3, <1>4 DEF LogTells

\* A step that appends a true line keeps the log telling the truth.
LEMMA TrueLineTells ==
    ASSUME LoggerInv, LogTells,
           NEW line \in Line(Runs),
           log' = Append(log, line), run' = run,
           \A b \in Boards : \/ owner'[b] = owner[b]
                             \/ owner'[b] \in {0, run} /\ phase \notin Ending,
           phase \in Ending => phase' \in Ending,
           Alive,
           Alive' /\ errors => errors',
           line.kind = "started" => phase = "starting" /\ owner'[line.board] \in {0, run},
           line.kind = "stopped" => owner'[line.board] # run /\ phase' \in Ending,
           line.kind = "receipt" => phase = "finishing" /\ line.errors = errors,
           line.kind = "bad" => (Alive' => errors')
    PROVE  LogTells'
  <1> DEFINE n == Len(log) + 1
  <1>1. /\ DOMAIN log' = DOMAIN log \cup {n}
        /\ \A i \in DOMAIN log : log'[i] = log[i] /\ i < n
        /\ n \notin DOMAIN log
        /\ log'[n] = line
    <2>1. DOMAIN log = 1..Len(log) /\ Len(log) \in Nat
      BY DEF LoggerInv, LoggerTypeOK
    <2> QED BY <2>1, LogGrows DEF LoggerInv, LoggerTypeOK
  <1> HIDE DEF n
  <1>2. \A i \in DOMAIN log : LineOf(i, "started") \/ LineOf(i, "stopped")
                              => log[i].board \in Boards
    BY LinesNameBoards DEF LoggerInv
  <1>3. \A i \in DOMAIN log' : i = n \/ (i \in DOMAIN log /\ log'[i].kind = log[i].kind)
    BY <1>1
  <1>4. phase \in {"starting", "finishing"} => \A i \in DOMAIN log : ~LineOf(i, "receipt")
    BY NoReceiptYet DEF Receipt, LineOf
  <1>5. StartedOwned'
    <2>1. SUFFICES ASSUME NEW i \in DOMAIN log', LineOf(i, "started")'
                   PROVE  owner'[log'[i].board] \in {0, run'}
      BY DEF StartedOwned
    <2>2. CASE i = n
      BY <1>1, <2>1, <2>2 DEF LineOf
    <2>3. CASE i \in DOMAIN log
      <3>1. /\ log'[i].board = log[i].board /\ log[i].board \in Boards
            /\ owner[log[i].board] \in {0, run}
        BY <1>1, <1>2, <2>1, <2>3 DEF LineOf, LogTells, StartedOwned
      <3> QED BY <3>1
    <2> QED BY <1>1, <2>2, <2>3
  <1>6. StoppedIdle'
    <2>1. SUFFICES ASSUME NEW i \in DOMAIN log', LineOf(i, "stopped")'
                   PROVE  owner'[log'[i].board] # run' /\ phase' \in Ending
      BY DEF StoppedIdle
    <2>2. CASE i = n
      BY <1>1, <2>1, <2>2 DEF LineOf
    <2>3. CASE i \in DOMAIN log
      <3>1. /\ log'[i].board = log[i].board /\ log[i].board \in Boards
            /\ owner[log[i].board] # run /\ phase \in Ending
        BY <1>1, <1>2, <2>1, <2>3 DEF LineOf, LogTells, StoppedIdle
      <3> QED BY <3>1
    <2> QED BY <1>1, <2>2, <2>3
  <1>7. ReceiptCloses'
    <2>1. ASSUME NEW i \in DOMAIN log', NEW j \in DOMAIN log',
                 LineOf(i, "receipt")', LineOf(j, "receipt")'
          PROVE  i = j
      BY <1>1, <1>3, <1>4, <2>1 DEF LineOf, LogTells, ReceiptCloses
    <2>2. ASSUME NEW i \in DOMAIN log', NEW j \in DOMAIN log',
                 LineOf(i, "receipt")', LineOf(j, "started")'
          PROVE  j < i
      BY <1>1, <1>3, <1>4, <2>2 DEF LineOf, LogTells, ReceiptCloses
    <2> QED BY <2>1, <2>2 DEF ReceiptCloses
  <1>8. FailuresReported'
    <2>1. \A i \in DOMAIN log : LineOf(i, "bad") => errors
      BY DEF LogTells, FailuresReported
    <2>2. Alive' => \A i \in DOMAIN log' : LineOf(i, "bad")' => errors'
      BY <1>1, <1>3, <2>1 DEF LineOf
    <2>3. ASSUME NEW i \in DOMAIN log', NEW j \in DOMAIN log',
                 LineOf(i, "receipt")', LineOf(j, "bad")', j < i
          PROVE  log'[i].errors
      <3>1. j \in DOMAIN log /\ LineOf(j, "bad")
        BY <1>1, <1>3, <2>3 DEF LineOf
      <3>2. CASE i \in DOMAIN log
        BY <1>1, <1>3, <2>3, <3>1, <3>2 DEF LineOf, LogTells, FailuresReported
      <3>3. CASE i = n
        BY <1>1, <1>3, <2>1, <2>3, <3>1, <3>3 DEF LineOf
      <3> QED BY <1>1, <3>2, <3>3
    <2> QED BY <2>2, <2>3 DEF FailuresReported
  <1> QED BY <1>5, <1>6, <1>7, <1>8 DEF LogTells
\* Whatever a logger does, its log tells the truth: what is reported as started
\* or stopped was, the receipt comes last and once, and no failure goes before a
\* receipt without errors (main, stop_sessions, its shutdown result).
THEOREM LogKeepsTelling ==
    ASSUME LoggerInv, LogTells, LoggerMove
    PROVE  LogTells'
  <1>1. /\ Text \in Line(Runs)
        /\ BadLine \in Line(Runs)
        /\ StoppingLine \in Line(Runs)
        /\ \A b \in Boards : StartedLine(b) \in Line(Runs) /\ StoppedLine(b) \in Line(Runs)
    BY LinesAreLines
  <1>2. /\ owner \in [Boards -> 0..MaxRuns]
        /\ Alive => run # 0
    BY RunsAssumption DEF LoggerInv, LoggerTypeOK, RunOfLogger, Runs
  <1>3. CASE Launch
    <2>1. log' = <<>>
      BY <1>3 DEF Launch
    <2>2. DOMAIN log' = {}
      BY <2>1
    <2> QED BY <2>2 DEF LogTells, StartedOwned, StoppedIdle, ReceiptCloses, FailuresReported
  <1>4. CASE Crash \/ Deliver \/ OpenSucceeds \/ PrepareSucceeds \/ StartDone \/ StopsDone
    BY <1>4, SameLogTells
       DEF Crash, Gone, Deliver, OpenSucceeds, PrepareSucceeds, StartDone, StopsDone, Ending,
           Alive
  <1>5. CASE BootFails \/ Exit \/ OpenFails
    <2>1. /\ run' = run /\ owner' = owner /\ phase' = "gone" /\ phase # "gone"
          /\ log' = log \/ log' = Append(log, BadLine)
      BY <1>5 DEF BootFails, Exit, OpenFails, Gone
    <2> QED BY <1>1, <2>1, SameLogTells, TrueLineTells DEF Ending, Alive, BadLine
  <1>6. CASE InstallHandlers
    BY <1>1, <1>6, TrueLineTells DEF InstallHandlers, Ending, Alive, Text
  <1>7. CASE PrepareFails \/ LoggingEnds \/ \E b \in Boards : StartFails(b)
    <2>1. /\ run' = run /\ owner' = owner /\ phase' = "stopping" /\ errors' = errors
          /\ log' = log \/ log' = Append(log, StoppingLine)
          /\ phase \in {"preparing", "starting", "logging"}
      BY <1>7 DEF PrepareFails, LoggingEnds, StartFails, EnterCleanup
    <2> QED BY <1>1, <2>1, SameLogTells, TrueLineTells DEF Ending, Alive, StoppingLine
  <1>8. ASSUME NEW c \in Boards, BeginStart(c) PROVE LogTells'
    <2>1. /\ run' = run /\ phase' = phase /\ phase = "starting" /\ log' = log
          /\ errors' = errors
          /\ \A b \in Boards : owner'[b] = owner[b] \/ owner'[b] \in {0, run}
      BY <1>2, <1>8 DEF BeginStart
    <2> QED BY <2>1, SameLogTells DEF Ending, Alive
  <1>9. ASSUME NEW c \in Boards, StartSucceeds(c) PROVE LogTells'
    <2>1. /\ run' = run /\ owner' = owner /\ phase' = phase /\ phase = "starting"
          /\ errors' = errors /\ log' = Append(log, StartedLine(c)) /\ owner[c] = run
      BY <1>9 DEF StartSucceeds
    <2>2. StartedLine(c).kind = "started" /\ StartedLine(c).board = c
      BY DEF StartedLine
    <2> QED BY <1>1, <2>1, <2>2, TrueLineTells DEF Ending, Alive
  <1>10. ASSUME NEW c \in Boards, ReportStopped(c) PROVE LogTells'
    <2>1. /\ run' = run /\ owner' = owner /\ phase' = phase /\ phase = "closing"
          /\ errors' = errors /\ log' = Append(log, StoppedLine(c)) /\ c \in stopped
      BY <1>10 DEF ReportStopped
    <2>2. owner[c] # run
      BY <2>1 DEF LoggerInv, OwnersBegun, Alive
    <2>3. StoppedLine(c).kind = "stopped" /\ StoppedLine(c).board = c
      BY DEF StoppedLine
    <2> QED BY <1>1, <2>1, <2>2, <2>3, TrueLineTells DEF Ending, Alive
  <1>11. ASSUME NEW c \in Boards, StopAcknowledged(c) PROVE LogTells'
    <2>1. /\ run' = run /\ phase' = phase /\ phase = "stopping" /\ log' = log
          /\ errors' = errors
          /\ \A b \in Boards : owner'[b] = owner[b] \/ owner'[b] \in {0, run}
      BY <1>2, <1>11 DEF StopAcknowledged
    <2> QED BY <2>1, SameLogTells DEF Ending, Alive
  <1>12. ASSUME NEW c \in Boards, StopFails(c) PROVE LogTells'
    <2>1. /\ run' = run /\ phase' = phase /\ phase = "stopping" /\ errors'
          /\ log' = Append(log, BadLine)
          /\ \A b \in Boards : owner'[b] = owner[b] \/ owner'[b] \in {0, run}
      BY <1>2, <1>12 DEF StopFails
    <2> QED BY <1>1, <2>1, TrueLineTells DEF Ending, Alive, BadLine
  <1>13. CASE CloseEngine
    <2>1. /\ run' = run /\ owner' = owner /\ phase' = "finishing" /\ phase = "closing"
          /\ \/ log' = log /\ errors' = errors
             \/ log' = Append(log, BadLine) /\ errors'
      BY <1>13 DEF CloseEngine
    <2> QED BY <1>1, <2>1, SameLogTells, TrueLineTells DEF Ending, Alive, BadLine
  <1>14. CASE WriteReceipt
    <2>1. /\ run' = run /\ owner' = owner /\ phase' = "exiting" /\ phase = "finishing"
          /\ errors' = errors
          /\ log' = Append(log, ReceiptLine(run, begun, stopped, errors))
      BY <1>14 DEF WriteReceipt
    <2>2. ReceiptLine(run, begun, stopped, errors) \in Line(Runs)
      BY <2>1, LinesAreLines DEF LoggerInv, LoggerTypeOK, RunOfLogger, Alive
    <2>3. /\ ReceiptLine(run, begun, stopped, errors).kind = "receipt"
          /\ ReceiptLine(run, begun, stopped, errors).errors = errors
      BY DEF ReceiptLine
    <2> QED BY <2>1, <2>2, <2>3, TrueLineTells DEF Ending, Alive
  <1> QED
    BY <1>3, <1>4, <1>5, <1>6, <1>7, <1>8, <1>9, <1>10, <1>11, <1>12, <1>13, <1>14
       DEF LoggerMove, LoggerStep
=============================================================================
