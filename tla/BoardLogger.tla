----------------------------- MODULE BoardLogger -----------------------------
(***************************************************************************)
(* One board logger process after another (vibroagent_two_vibrometer_      *)
(* logger.py): what each phase of main() does to the boards and to the     *)
(* log, and where a stop request, a failed native command or a crash can   *)
(* fall.  A process is named by its run, the number of launches so far;    *)
(* (pid, start time) in the code identifies it as uniquely.                *)
(*                                                                         *)
(* Ground truth no process can read is kept beside the program's own       *)
(* state: owner[b] is the run that has board b streaming, 0 when idle.     *)
(***************************************************************************)
EXTENDS ShutdownLog

CONSTANTS
    MaxRuns,   \* bound: launches in one behaviour
    Faults     \* the kinds of fault that may happen, a subset of FaultKinds

FaultKinds == {"native",      \* a native command fails or is not acknowledged
               "exception",   \* Python code of the logger raises
               "crash",       \* the logger dies without running its cleanup
               "external",    \* a stop signal that no stop request announced
               "helper",      \* the stop helper is interrupted
               "launcher",    \* vibroagent.sh is interrupted
               "pidlost",     \* somebody deletes logger.pid
               "reuse",       \* an unrelated process has the logger's old pid
               "service"}     \* a web service exits, or does not when asked to

ASSUME RunsAssumption   == MaxRuns \in Nat \ {0}
ASSUME FaultsAssumption == Faults \subseteq FaultKinds

VARIABLES
    run,       \* the latest launch, 0 before the first
    phase,     \* where the process of that run is
    flag,      \* its stop_requested()
    begun,     \* started_sessions
    awaiting,  \* boards whose start_log has not returned
    tried,     \* boards whose stop_log has returned
    stopped,   \* stopped_device_ids
    errors,    \* shutdown_errors is not empty
    raised,    \* an exception other than SystemExit is propagating
    owner,     \* ground truth: the run that has the board streaming, or 0
    log        \* .run/logger.log

loggerVars == <<run, phase, flag, begun, awaiting, tried, stopped, errors,
                raised, owner, log>>

Runs   == 1..MaxRuns
Phases == {"gone", "boot", "opening", "preparing", "starting",
           "logging", "stopping", "closing", "finishing", "exiting"}

Alive == phase # "gone"

\* No board streams for that run.
Quiet(r) == r # 0 => \A b \in Boards : owner[b] # r

LoggerTypeOK ==
    /\ run \in 0..MaxRuns
    /\ phase \in Phases
    /\ flag \in BOOLEAN
    /\ begun \in SUBSET Boards
    /\ awaiting \in SUBSET Boards
    /\ tried \in SUBSET Boards
    /\ stopped \in SUBSET Boards
    /\ errors \in BOOLEAN
    /\ raised \in BOOLEAN
    /\ owner \in [Boards -> 0..MaxRuns]
    /\ log \in Seq(Line(Runs))

LoggerInit ==
    /\ run = 0
    /\ phase = "gone"
    /\ flag = FALSE
    /\ begun = {}
    /\ awaiting = {}
    /\ tried = {}
    /\ stopped = {}
    /\ errors = FALSE
    /\ raised = FALSE
    /\ owner = [b \in Boards |-> 0]
    /\ log = <<>>

-----------------------------------------------------------------------------
\* The variables of a process that has just begun, or has gone.
NoMemory ==
    /\ flag' = FALSE
    /\ begun' = {}
    /\ awaiting' = {}
    /\ tried' = {}
    /\ stopped' = {}
    /\ errors' = FALSE
    /\ raised' = FALSE

\* The process ends.
Gone == phase' = "gone" /\ NoMemory

\* The launcher's subshell truncates logger.log in place and executes the logger.
\* (Fork, truncation and exec take microseconds and are one step.)
Launch ==
    /\ run < MaxRuns
    /\ phase = "gone"
    /\ run' = run + 1
    /\ phase' = "boot"
    /\ NoMemory
    /\ log' = <<>>
    /\ UNCHANGED owner

\* An import fails before main() runs: a traceback, no receipt.
BootFails ==
    /\ "exception" \in Faults
    /\ phase = "boot"
    /\ Gone
    /\ log' = Append(log, BadLine)
    /\ UNCHANGED <<run, owner>>

\* main() installs its signal handlers and prints its settings.
InstallHandlers ==
    /\ phase = "boot"
    /\ phase' = "opening"
    /\ log' = Append(log, Text)
    /\ UNCHANGED <<run, flag, begun, awaiting, tried, stopped, errors, raised,
                   owner>>

\* The engine does not open, or no usable boards are found: SystemExit, or an
\* exception with its traceback, before the try block, so without a receipt.
OpenFails ==
    /\ "native" \in Faults
    /\ phase = "opening"
    /\ Gone
    /\ \/ UNCHANGED log
       \/ log' = Append(log, BadLine)
    /\ UNCHANGED <<run, owner>>

OpenSucceeds ==
    /\ phase = "opening"
    /\ phase' = "preparing"
    /\ UNCHANGED <<run, flag, begun, awaiting, tried, stopped, errors, raised,
                   owner, log>>

\* The finally block is entered; it reports a stop that was requested.
EnterCleanup ==
    /\ phase' = "stopping"
    /\ log' = IF flag THEN Append(log, StoppingLine) ELSE log

\* Preparing the sessions or registering their callbacks fails: SystemExit,
\* or an exception.
PrepareFails ==
    /\ "native" \in Faults
    /\ phase = "preparing"
    /\ EnterCleanup
    /\ raised' \in BOOLEAN
    /\ UNCHANGED <<run, flag, begun, awaiting, tried, stopped, errors, owner>>

PrepareSucceeds ==
    /\ phase = "preparing"
    /\ phase' = "starting"
    /\ UNCHANGED <<run, flag, begun, awaiting, tried, stopped, errors, raised,
                   owner, log>>

\* The session joins started_sessions before its start command is sent: a
\* command that fails can have reached the board all the same.
BeginStart(b) ==
    /\ phase = "starting"
    /\ ~flag
    /\ awaiting = {}
    /\ b \notin begun
    /\ begun' = begun \cup {b}
    /\ awaiting' = {b}
    /\ \/ owner' = [owner EXCEPT ![b] = run]
       \/ "native" \in Faults /\ UNCHANGED owner
    /\ UNCHANGED <<run, phase, flag, tried, stopped, errors, raised, log>>

StartSucceeds(b) ==
    /\ phase = "starting"
    /\ b \in awaiting
    /\ owner[b] = run
    /\ awaiting' = {}
    /\ log' = Append(log, StartedLine(b))
    /\ UNCHANGED <<run, phase, flag, begun, tried, stopped, errors, raised,
                   owner>>

\* The reply reports a failure, or saving the board's files raises after it.
StartFails(b) ==
    /\ phase = "starting"
    /\ b \in awaiting
    /\ \/ "native" \in Faults
       \/ "exception" \in Faults /\ owner[b] = run
    /\ awaiting' = {}
    /\ raised' = TRUE
    /\ EnterCleanup
    /\ UNCHANGED <<run, flag, begun, tried, stopped, errors, owner>>

\* Mutant of StartDone: a stop during start-up does not end the start-up.
StartDoneOnlyComplete ==
    /\ phase = "starting"
    /\ awaiting = {}
    /\ begun = Boards
    /\ phase' = "logging"
    /\ UNCHANGED <<run, flag, begun, awaiting, tried, stopped, errors, raised,
                   owner, log>>

StartDone ==
    /\ phase = "starting"
    /\ awaiting = {}
    /\ flag \/ begun = Boards
    /\ phase' = "logging"
    /\ UNCHANGED <<run, flag, begun, awaiting, tried, stopped, errors, raised,
                   owner, log>>

\* The main loop sees the request (the launcher gives no --duration-s), or
\* printing statistics raises.
LoggingEnds ==
    /\ phase = "logging"
    /\ \/ flag /\ raised' = raised
       \/ "exception" \in Faults /\ raised' = TRUE
    /\ EnterCleanup
    /\ UNCHANGED <<run, flag, begun, awaiting, tried, stopped, errors, owner>>

-----------------------------------------------------------------------------
\* Cleanup.  stop_log is tried on every board of started_sessions.
StopAcknowledged(b) ==
    /\ phase = "stopping"
    /\ b \in begun \ tried
    /\ tried' = tried \cup {b}
    /\ stopped' = stopped \cup {b}
    /\ owner' = [owner EXCEPT ![b] = 0]
    /\ UNCHANGED <<run, phase, flag, begun, awaiting, errors, raised, log>>

\* No acknowledgement: the board may or may not have stopped.
StopFails(b) ==
    /\ "native" \in Faults
    /\ phase = "stopping"
    /\ b \in begun \ tried
    /\ tried' = tried \cup {b}
    /\ errors' = TRUE
    /\ log' = Append(log, BadLine)
    /\ \/ owner' = [owner EXCEPT ![b] = 0]
       \/ UNCHANGED owner
    /\ UNCHANGED <<run, phase, flag, begun, awaiting, stopped, raised>>

StopsDone ==
    /\ phase = "stopping"
    /\ begun \subseteq tried
    /\ phase' = "closing"
    /\ UNCHANGED <<run, flag, begun, awaiting, tried, stopped, errors, raised,
                   owner, log>>

\* The sessions that stopped are unregistered, closed and reported.
ReportStopped(b) ==
    /\ phase = "closing"
    /\ b \in stopped \ StoppedIn(log, 0)
    /\ log' = Append(log, StoppedLine(b))
    /\ UNCHANGED <<run, phase, flag, begun, awaiting, tried, stopped, errors,
                   raised, owner>>

\* Mutant of CloseEngine: the failure is printed, but not kept for the receipt.
CloseEngineUnrecorded ==
    /\ phase = "closing"
    /\ stopped \subseteq StoppedIn(log, 0)
    /\ phase' = "finishing"
    /\ \/ UNCHANGED log
       \/ "native" \in Faults /\ log' = Append(log, BadLine)
    /\ UNCHANGED <<run, flag, begun, awaiting, tried, stopped, errors, raised,
                   owner>>

\* The native engine and the remaining files are closed.
CloseEngine ==
    /\ phase = "closing"
    /\ stopped \subseteq StoppedIn(log, 0)
    /\ phase' = "finishing"
    /\ \/ UNCHANGED <<errors, log>>
       \/ /\ "native" \in Faults
          /\ errors' = TRUE
          /\ log' = Append(log, BadLine)
    /\ UNCHANGED <<run, flag, begun, awaiting, tried, stopped, raised, owner>>

WriteReceipt ==
    /\ phase = "finishing"
    /\ phase' = "exiting"
    /\ log' = Append(log, ReceiptLine(run, begun, stopped, errors))
    /\ UNCHANGED <<run, flag, begun, awaiting, tried, stopped, errors, raised,
                   owner>>

\* SystemExit(1) replaces a propagating exception when there were shutdown
\* errors; otherwise the interpreter prints the exception's traceback.
Exit ==
    /\ phase = "exiting"
    /\ Gone
    /\ log' = IF raised /\ ~errors THEN Append(log, BadLine) ELSE log
    /\ UNCHANGED <<run, owner>>

\* SIGKILL, a native abort, power loss of the host: no cleanup, and the boards
\* stay as they are.
Crash ==
    /\ "crash" \in Faults
    /\ Alive
    /\ Gone
    /\ UNCHANGED <<run, owner, log>>

-----------------------------------------------------------------------------
\* What SIGINT does to the process.  A background job of a script starts with
\* SIGINT ignored, so the signal is lost until main() has its handler.
Deliver ==
    /\ flag' = (flag \/ phase \notin {"gone", "boot"})
    /\ UNCHANGED <<run, phase, begun, awaiting, tried, stopped, errors, raised,
                   owner, log>>

LoggerStep ==
    \/ BootFails
    \/ InstallHandlers
    \/ OpenFails
    \/ OpenSucceeds
    \/ PrepareFails
    \/ PrepareSucceeds
    \/ StartDone
    \/ LoggingEnds
    \/ StopsDone
    \/ CloseEngine
    \/ WriteReceipt
    \/ Exit
    \/ \E b \in Boards :
          \/ BeginStart(b)
          \/ StartSucceeds(b)
          \/ StartFails(b)
          \/ StopAcknowledged(b)
          \/ StopFails(b)
          \/ ReportStopped(b)
=============================================================================
