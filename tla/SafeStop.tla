------------------------------ MODULE SafeStop ------------------------------
(***************************************************************************)
(* The lifecycle of the board logger and the web services in one checkout: *)
(* the launcher (vibroagent.sh), the stop helper it and operators run      *)
(* (safe_pipeline_stop.py), the files they leave for each other in .run/,  *)
(* and the logger of module BoardLogger.                                   *)
(*                                                                         *)
(* One launcher command runs at a time (control.lock).  The helpers share  *)
(* safe-stop.lock: the launcher's own, and those started directly.         *)
(***************************************************************************)
EXTENDS BoardLogger

CONSTANTS
    Launcher,       \* the helper process vibroagent.sh runs and waits for
    DirectHelpers,  \* helper processes an operator runs directly
    AllowLegacy,    \* whether a stop may be given --allow-legacy
    Services,       \* the web services that are installed
    Commands,       \* the commands the launcher is given
    None

Helpers     == {Launcher} \cup DirectHelpers
AllServices == {"webchat", "geniex"}
AllCommands == {"start", "stop", "restart", "stop-model", "restart-webchat"}

ASSUME HelpersAssumption == Launcher \notin DirectHelpers
ASSUME LegacyAssumption  == AllowLegacy \in BOOLEAN
ASSUME ServicesAssumption == Services \subseteq AllServices
ASSUME CommandsAssumption == Commands \subseteq AllCommands
ASSUME NoneAssumption    == /\ None \notin Helpers
                            /\ None \notin Runs
                            /\ None \notin [pid : Runs, offset : Nat]

VARIABLES
    pidfile,   \* logger.pid: a run, or None
    intent,    \* logger-stop-request.json: [pid, offset], or None
    lock,      \* the holder of safe-stop.lock, or None
    up,        \* the services that run
    hpc,       \* where each helper is
    hop,       \* what it was asked: "all", "logger", "check" or a service
    hlegacy,   \* its --allow-legacy
    hup,       \* the services of its snapshot it has still to stop
    hrun,      \* the logger it stops or whose evidence it checks, 0 if none
    hintent,   \* the stop request it has read
    hoffset,   \* its position in the log
    cpc,       \* where the launcher's command is
    cop,       \* that command
    signals    \* SIGINTs the helpers have sent to the process of this run

helperVars == <<lock, hpc, hop, hlegacy, hup, hrun, hintent, hoffset>>
vars == <<loggerVars, pidfile, intent, helperVars, up, cpc, cop, signals>>

Intents  == [pid : Runs, offset : Nat] \cup {None}
Ops      == {"all", "logger", "check"} \cup AllServices
Idle     == {"idle", "ok", "found"}   \* refused or never begun; done; the
                                      \* start check found a healthy logger
HelperPCs == Idle \cup
    {"evidence", "judge", "recheck", "running", "read", "handle", "persist",
     "signal", "wait", "unpid", "unintent", "services", "finish"}
LauncherPCs == {"idle", "geniex", "webchat", "gate", "gated", "pgrep", "probe",
                "writepid", "await", "stop", "stopping"}

TypeOK ==
    /\ LoggerTypeOK
    /\ pidfile \in Runs \cup {None}
    /\ intent \in Intents
    /\ lock \in Helpers \cup {None}
    /\ up \in SUBSET Services
    /\ hpc \in [Helpers -> HelperPCs]
    /\ hop \in [Helpers -> Ops]
    /\ hlegacy \in [Helpers -> BOOLEAN]
    /\ hup \in [Helpers -> SUBSET Services]
    /\ hrun \in [Helpers -> 0..MaxRuns]
    /\ hintent \in [Helpers -> Intents]
    /\ hoffset \in [Helpers -> Nat]
    /\ cpc \in LauncherPCs
    /\ cop \in AllCommands
    /\ signals \in Nat

Init ==
    /\ LoggerInit
    /\ pidfile = None
    /\ intent = None
    /\ lock = None
    /\ up = {}
    /\ hpc = [h \in Helpers |-> "idle"]
    /\ hop = [h \in Helpers |-> "all"]
    /\ hlegacy = [h \in Helpers |-> FALSE]
    /\ hup = [h \in Helpers |-> {}]
    /\ hrun = [h \in Helpers |-> 0]
    /\ hintent = [h \in Helpers |-> None]
    /\ hoffset = [h \in Helpers |-> 0]
    /\ cpc = "idle"
    /\ cop = "start"
    /\ signals = 0

-----------------------------------------------------------------------------
(***************************************************************************)
(* The stop helper: run(), and its end.                                    *)
(***************************************************************************)
Goto(h, pc) == hpc' = [hpc EXCEPT ![h] = pc]

\* The process ends, with it the lock.
Finish(h, result) ==
    /\ Goto(h, result)
    /\ lock' = None

\* UnsafeStop is raised; nothing is left of the helper but its exit status.
Refuse(h) ==
    /\ Finish(h, "idle")
    /\ hop' = [hop EXCEPT ![h] = "all"]
    /\ hlegacy' = [hlegacy EXCEPT ![h] = FALSE]
    /\ hup' = [hup EXCEPT ![h] = {}]
    /\ hrun' = [hrun EXCEPT ![h] = 0]
    /\ hintent' = [hintent EXCEPT ![h] = None]
    /\ hoffset' = [hoffset EXCEPT ![h] = 0]

\* The services an operation has to stop.
Targets(op) == IF op = "all" THEN Services ELSE Services \cap {op}

\* What run() does first, after its snapshot of /proc.
FirstStep(op) == CASE op \in AllServices                -> "services"
                   [] op \notin AllServices /\ ~Alive   -> "evidence"
                   [] op = "check" /\ Alive            -> "running"
                   [] OTHER                            -> "read"

\* The lock is taken without waiting; the snapshot follows.
Invoke(h, op, legacy) ==
    /\ hpc[h] \in Idle
    /\ lock = None
    /\ lock' = h
    /\ hop' = [hop EXCEPT ![h] = op]
    /\ hlegacy' = [hlegacy EXCEPT ![h] = legacy]
    /\ hup' = [hup EXCEPT ![h] = Targets(op) \cap up]
    /\ hrun' = [hrun EXCEPT ![h] = IF Alive THEN run ELSE 0]
    /\ hintent' = [hintent EXCEPT ![h] = None]
    /\ hoffset' = [hoffset EXCEPT ![h] = 0]
    /\ Goto(h, FirstStep(op))

\* Where a helper goes once the logger's stop is confirmed.
AfterLogger(h) ==
    \/ hop[h] = "check"  /\ Finish(h, "ok")
    \/ hop[h] = "logger" /\ Goto(h, "finish") /\ UNCHANGED lock
    \/ hop[h] = "all"    /\ Goto(h, "services") /\ UNCHANGED lock

\* The stop of hrun[h] is confirmed; the log is not read again.
Confirm(h) ==
    /\ Goto(h, "unpid")
    /\ hoffset' = [hoffset EXCEPT ![h] = 0]
    /\ UNCHANGED <<lock, hop, hlegacy, hup, hrun, hintent>>

-----------------------------------------------------------------------------
(***************************************************************************)
(* resolve_exited_logger.                                                  *)
(***************************************************************************)
NoReceiptBefore(offset) ==
    \A i \in At(log, 0, "receipt") : i > offset

\* The process the evidence is about: the stop request names it, else the pid
\* file, else the receipt itself.
EvidencePid(pid, request) ==
    CASE request # None -> {request.pid}
      [] request = None /\ pid # 0 -> {pid}
      [] request = None /\ pid = 0 -> {log[i].pid : i \in At(log, 0, "receipt")}

\* The evidence confirms that process p has stopped its boards.
Accepted(p, pid, request, legacy) ==
    LET offset == IF request = None THEN 0 ELSE request.offset
    IN  /\ p \in EvidencePid(pid, request)
        /\ Unambiguous(log, 0)
        /\ request # None => /\ pid \in {0, request.pid}
                             /\ offset <= Len(log)
                             /\ NoReceiptBefore(offset)
        /\ ~(p = run /\ Alive)
        /\ Verified(log, offset, p, legacy)

\* Mutant of NothingOwned: without a pid file there is no logger to ask about.
NothingOwnedByPid(pid, request) == pid = 0 /\ request = None

NothingOwned(pid, request) == pid = 0 /\ request = None /\ log = <<>>

\* Mutant of ReadEvidence: a pid file that does not exist is not told apart.
ReadEvidenceRaw(h) ==
    /\ hpc[h] = "evidence"
    /\ hrun' = [hrun EXCEPT ![h] = pidfile]
    /\ hintent' = [hintent EXCEPT ![h] = intent]
    /\ Goto(h, "judge")
    /\ UNCHANGED <<lock, hop, hlegacy, hup, hoffset>>

ReadEvidence(h) ==
    /\ hpc[h] = "evidence"
    /\ hrun' = [hrun EXCEPT ![h] = IF pidfile = None THEN 0 ELSE pidfile]
    /\ hintent' = [hintent EXCEPT ![h] = intent]
    /\ Goto(h, "judge")
    /\ UNCHANGED <<lock, hop, hlegacy, hup, hoffset>>

FindNothing(h) ==
    /\ hpc[h] = "judge"
    /\ NothingOwned(hrun[h], hintent[h])
    /\ AfterLogger(h)
    /\ UNCHANGED <<hop, hlegacy, hup, hrun, hintent, hoffset>>

AcceptEvidence(h) ==
    /\ hpc[h] = "judge"
    /\ \E p \in Runs :
          /\ Accepted(p, hrun[h], hintent[h], hlegacy[h])
          /\ hrun' = [hrun EXCEPT ![h] = p]
    /\ hintent' = [hintent EXCEPT ![h] = None]
    /\ hoffset' = [hoffset EXCEPT ![h] = Len(log)]
    /\ Goto(h, "recheck")
    /\ UNCHANGED <<lock, hop, hlegacy, hup>>

RefuseEvidence(h) ==
    /\ hpc[h] = "judge"
    /\ ~NothingOwned(hrun[h], hintent[h])
    /\ \/ \A p \in Runs : ~Accepted(p, hrun[h], hintent[h], hlegacy[h])
       \/ "reuse" \in Faults
    /\ Refuse(h)

\* The log must not have changed while it was judged.
RecheckLog(h) ==
    /\ hpc[h] = "recheck"
    /\ \/ /\ Len(log) = hoffset[h]
          /\ Confirm(h)
       \/ /\ Len(log) # hoffset[h]
          /\ Refuse(h)

-----------------------------------------------------------------------------
(***************************************************************************)
(* check_logger_start on a running logger.                                 *)
(***************************************************************************)
HealthyLogger(h) ==
    /\ run = hrun[h]
    /\ Alive
    /\ intent = None
    /\ pidfile \in {None, hrun[h]}
    /\ At(log, 0, "receipt") = {}
    /\ ~BadIn(log, 0)
    /\ At(log, 0, "stopping") = {}
    /\ StoppedIn(log, 0) = {}

CheckRunning(h) ==
    /\ hpc[h] = "running"
    /\ \/ /\ HealthyLogger(h)
          /\ Finish(h, "found")
          /\ UNCHANGED <<hop, hlegacy, hup, hrun, hintent, hoffset>>
       \/ /\ ~HealthyLogger(h)
          /\ Refuse(h)

-----------------------------------------------------------------------------
(***************************************************************************)
(* stop_logger.                                                            *)
(***************************************************************************)
Running(h) == run = hrun[h] /\ Alive

\* previous_log is read; the position reached is the offset of a new request.
ReadLog(h) ==
    /\ hpc[h] = "read"
    /\ hoffset' = [hoffset EXCEPT ![h] = Len(log)]
    /\ Goto(h, "handle")
    /\ UNCHANGED <<lock, hop, hlegacy, hup, hrun, hintent>>

\* Mutant of AdoptRequest: the retry signals again.
AdoptRequestAndSignal(h) ==
    /\ intent # None
    /\ intent.pid = hrun[h]
    /\ intent.offset <= Len(log)
    /\ NoReceiptBefore(intent.offset)
    /\ hoffset' = [hoffset EXCEPT ![h] = intent.offset]
    /\ Goto(h, "signal")

\* A request left by an earlier attempt is adopted, without a new signal.
AdoptRequest(h) ==
    /\ intent # None
    /\ intent.pid = hrun[h]
    /\ intent.offset <= Len(log)
    /\ NoReceiptBefore(intent.offset)
    /\ hoffset' = [hoffset EXCEPT ![h] = intent.offset]
    /\ Goto(h, "wait")

\* Mutants of MakeRequest: the signal goes out unrecorded; a request that is
\* already there is replaced.
MakeRequestUnrecorded(h) ==
    /\ intent = None
    /\ \A i \in At(log, 0, "receipt") : i > hoffset[h]
    /\ Goto(h, "signal")
    /\ UNCHANGED hoffset

MakeRequestAnew(h) ==
    /\ \A i \in At(log, 0, "receipt") : i > hoffset[h]
    /\ Goto(h, "persist")
    /\ UNCHANGED hoffset

MakeRequest(h) ==
    /\ intent = None
    /\ \A i \in At(log, 0, "receipt") : i > hoffset[h]
    /\ Goto(h, "persist")
    /\ UNCHANGED hoffset

\* The pidfd is opened and checked; the request and the pid file are read.
OpenHandle(h) ==
    /\ hpc[h] = "handle"
    /\ Running(h)
    /\ pidfile \in {None, hrun[h]}
    /\ AdoptRequest(h) \/ MakeRequest(h)
    /\ UNCHANGED <<lock, hop, hlegacy, hup, hrun, hintent>>

RefuseHandle(h) ==
    /\ hpc[h] = "handle"
    /\ \/ ~Running(h)
       \/ pidfile \notin {None, hrun[h]}
       \/ IF intent = None
          THEN ~NoReceiptBefore(hoffset[h])
          ELSE \/ intent.pid # hrun[h]
               \/ intent.offset > Len(log)
               \/ ~NoReceiptBefore(intent.offset)
    /\ Refuse(h)

\* The request is written before the signal is sent.
PersistIntent(h) ==
    /\ hpc[h] = "persist"
    /\ intent' = [pid |-> hrun[h], offset |-> hoffset[h]]
    /\ Goto(h, "signal")
    /\ UNCHANGED <<lock, hop, hlegacy, hup, hrun, hintent, hoffset>>

\* The pidfd reaches that very process, or nobody when it has exited.
SendSignal(h) ==
    /\ hpc[h] = "signal"
    /\ \/ /\ Running(h)
          /\ Deliver
          /\ signals' = signals + 1
       \/ /\ ~Running(h)
          /\ UNCHANGED <<loggerVars, signals>>
    /\ Goto(h, "wait")
    /\ UNCHANGED <<lock, hop, hlegacy, hup, hrun, hintent, hoffset>>

\* Mutant of GiveUpWaiting: after the time-out the services are stopped anyway.
GiveUpWaitingGoOn(h) ==
    /\ hpc[h] = "wait"
    /\ Running(h)
    /\ Goto(h, "services")
    /\ UNCHANGED <<lock, hop, hlegacy, hup, hrun, hintent, hoffset>>

\* The time-out leaves the logger alive and the request in place.
GiveUpWaiting(h) ==
    /\ hpc[h] = "wait"
    /\ Running(h)
    /\ Refuse(h)

\* Mutant of SeeExit: the receipt is taken for the exit.
SeeReceipt(h) ==
    /\ hpc[h] = "wait"
    /\ Verified(log, hoffset[h], hrun[h], hlegacy[h])
    /\ Confirm(h)

\* The process has exited; what it wrote since the request is judged.
SeeExit(h) ==
    /\ hpc[h] = "wait"
    /\ ~Running(h)
    /\ \/ /\ Verified(log, hoffset[h], hrun[h], hlegacy[h])
          /\ Confirm(h)
       \/ /\ ~Verified(log, hoffset[h], hrun[h], hlegacy[h])
          /\ Refuse(h)

\* The two files are removed one after the other, the pid file only when it
\* still names the verified process.
RemovePidfile(h) ==
    /\ hpc[h] = "unpid"
    /\ pidfile' = IF pidfile = hrun[h] THEN None ELSE pidfile
    /\ Goto(h, "unintent")
    /\ UNCHANGED <<lock, hop, hlegacy, hup, hrun, hintent, hoffset>>

\* Mutant of RemoveIntent: the request is left behind.
RemoveIntentNot(h) ==
    /\ hpc[h] = "unintent"
    /\ UNCHANGED intent
    /\ AfterLogger(h)
    /\ UNCHANGED <<hop, hlegacy, hup, hrun, hintent, hoffset>>

RemoveIntent(h) ==
    /\ hpc[h] = "unintent"
    /\ intent' = None
    /\ AfterLogger(h)
    /\ UNCHANGED <<hop, hlegacy, hup, hrun, hintent, hoffset>>

-----------------------------------------------------------------------------
(***************************************************************************)
(* stop_service and verify_finished.                                       *)
(***************************************************************************)
\* The roles are taken in the order of MODULES: webchat before geniex.
StopService(h, s) ==
    /\ hpc[h] = "services"
    /\ s \in hup[h]
    /\ s = "geniex" => "webchat" \notin hup[h]
    /\ s \in up
    /\ up' = up \ {s}
    /\ hup' = [hup EXCEPT ![h] = @ \ {s}]
    /\ UNCHANGED <<lock, hpc, hop, hlegacy, hrun, hintent, hoffset>>

\* The service has gone by itself, or does not exit in time.
RefuseService(h) ==
    /\ hpc[h] = "services"
    /\ hup[h] # {}
    /\ hup[h] \subseteq up => "service" \in Faults
    /\ Refuse(h)

ServicesStopped(h) ==
    /\ hpc[h] = "services"
    /\ hup[h] = {}
    /\ Goto(h, "finish")
    /\ UNCHANGED <<lock, hop, hlegacy, hup, hrun, hintent, hoffset>>

\* Whether a selected process is left, one started since the snapshot included.
Remaining(h) == \/ hop[h] \in {"all", "logger"} /\ Alive
                \/ Targets(hop[h]) \cap up # {}

VerifyFinished(h) ==
    /\ hpc[h] = "finish"
    /\ \/ /\ ~Remaining(h)
          /\ Finish(h, "ok")
          /\ UNCHANGED <<hop, hlegacy, hup, hrun, hintent, hoffset>>
       \/ /\ Remaining(h)
          /\ Refuse(h)

\* Ctrl-C, or the helper is killed: flock releases the lock.
Interrupt(h) ==
    /\ "helper" \in Faults
    /\ hpc[h] \notin Idle
    /\ Refuse(h)

\* The helper's steps that touch nothing outside the helper.
HelperLocal(h) ==
    /\ \/ ReadEvidence(h)
       \/ FindNothing(h)
       \/ AcceptEvidence(h)
       \/ RefuseEvidence(h)
       \/ RecheckLog(h)
       \/ CheckRunning(h)
       \/ ReadLog(h)
       \/ OpenHandle(h)
       \/ RefuseHandle(h)
       \/ SeeExit(h)
       \/ GiveUpWaiting(h)
       \/ RefuseService(h)
       \/ ServicesStopped(h)
       \/ VerifyFinished(h)
    /\ UNCHANGED <<loggerVars, pidfile, intent, up, cpc, cop, signals>>

HelperStep(h) ==
    \/ HelperLocal(h)
    \/ PersistIntent(h) /\ UNCHANGED <<loggerVars, pidfile, up, cpc, cop, signals>>
    \/ SendSignal(h) /\ UNCHANGED <<pidfile, intent, up, cpc, cop>>
    \/ RemovePidfile(h) /\ UNCHANGED <<loggerVars, intent, up, cpc, cop, signals>>
    \/ RemoveIntent(h) /\ UNCHANGED <<loggerVars, pidfile, up, cpc, cop, signals>>
    \/ /\ \E s \in Services : StopService(h, s)
       /\ UNCHANGED <<loggerVars, pidfile, intent, cpc, cop, signals>>

-----------------------------------------------------------------------------
(***************************************************************************)
(* The launcher.                                                           *)
(***************************************************************************)
\* The command goes on at pc, or is over.
Become(pc) ==
    /\ cpc' = pc
    /\ cop' = IF pc = "idle" THEN "start" ELSE cop

Begin(command) ==
    /\ cpc = "idle"
    /\ cop' = command
    /\ cpc' = IF command = "start" THEN "geniex" ELSE "stop"
    /\ UNCHANGED <<loggerVars, pidfile, intent, helperVars, up, signals>>

\* start_geniex: skipped when the port listens; its failure ends the command.
StartGeniex ==
    /\ cpc = "geniex"
    /\ \/ up' = up \cup (Services \cap {"geniex"}) /\ Become("webchat")
       \/ /\ "service" \in Faults /\ "geniex" \notin up
          /\ UNCHANGED up
          /\ Become("idle")
    /\ UNCHANGED <<loggerVars, pidfile, intent, helperVars, signals>>

\* start_webchat: its failure is reported, and the command goes on.
StartWebchat ==
    /\ cpc = "webchat"
    /\ \/ up' = up \cup (Services \cap {"webchat"})
       \/ "service" \in Faults /\ UNCHANGED up
    /\ Become(IF cop = "restart-webchat" THEN "idle" ELSE "gate")
    /\ UNCHANGED <<loggerVars, pidfile, intent, helperVars, signals>>

\* start_logger's gate, safe_pipeline_stop.py --service logger --check-start.
CallGate ==
    /\ cpc = "gate"
    /\ \/ Invoke(Launcher, "check", FALSE) /\ Become("gated")
       \/ lock # None /\ Become("idle") /\ UNCHANGED helperVars
    /\ UNCHANGED <<loggerVars, pidfile, intent, up, signals>>

GateResult ==
    /\ cpc = "gated"
    /\ hpc[Launcher] \in Idle
    /\ Become(IF hpc[Launcher] = "idle" THEN "idle" ELSE "pgrep")
    /\ UNCHANGED <<loggerVars, pidfile, intent, helperVars, up, signals>>

\* A logger that runs is left alone.
Pgrep ==
    /\ cpc = "pgrep"
    /\ Become(IF Alive THEN "idle" ELSE "probe")
    /\ UNCHANGED <<loggerVars, pidfile, intent, helperVars, up, signals>>

\* Recorded-data mode, missing boards, a failed native probe: nothing starts.
ProbeFails ==
    /\ cpc = "probe"
    /\ Become("idle")
    /\ UNCHANGED <<loggerVars, pidfile, intent, helperVars, up, signals>>

LaunchLogger ==
    /\ cpc = "probe"
    /\ Launch
    /\ signals' = 0
    /\ Become("writepid")
    /\ UNCHANGED <<pidfile, intent, helperVars, up>>

WritePid ==
    /\ cpc = "writepid"
    /\ pidfile' = run
    /\ Become("await")
    /\ UNCHANGED <<loggerVars, intent, helperVars, up, signals>>

\* The launcher waits for boards to start, up to 45 s; an interpreter needs
\* less than that to reach main().
AwaitDone ==
    /\ cpc = "await"
    /\ phase # "boot"
    /\ Become("idle")
    /\ UNCHANGED <<loggerVars, pidfile, intent, helperVars, up, signals>>

\* The services a stop command names; "stop" alone takes --allow-legacy.
StopTarget == CASE cop \in {"stop", "restart"} -> "all"
                [] cop = "stop-model"          -> "geniex"
                [] cop = "restart-webchat"     -> "webchat"
                [] cop = "start"               -> "check"

CallStop ==
    /\ cpc = "stop"
    /\ \/ /\ \E legacy \in BOOLEAN :
                /\ legacy => AllowLegacy /\ cop = "stop"
                /\ Invoke(Launcher, StopTarget, legacy)
          /\ Become("stopping")
       \/ lock # None /\ Become("idle") /\ UNCHANGED helperVars
    /\ UNCHANGED <<loggerVars, pidfile, intent, up, signals>>

StopResult ==
    /\ cpc = "stopping"
    /\ hpc[Launcher] \in Idle
    /\ Become(CASE hpc[Launcher] = "ok" /\ cop = "restart" -> "geniex"
                [] hpc[Launcher] = "ok" /\ cop = "restart-webchat" -> "webchat"
                [] OTHER -> "idle")
    /\ UNCHANGED <<loggerVars, pidfile, intent, helperVars, up, signals>>

\* The launcher is killed: control.lock is free, its helper and logger live on.
LauncherKilled ==
    /\ "launcher" \in Faults
    /\ cpc # "idle"
    /\ Become("idle")
    /\ UNCHANGED <<loggerVars, pidfile, intent, helperVars, up, signals>>

LauncherStep ==
    \/ StartGeniex
    \/ StartWebchat
    \/ CallGate
    \/ GateResult
    \/ Pgrep
    \/ ProbeFails
    \/ LaunchLogger
    \/ WritePid
    \/ AwaitDone
    \/ CallStop
    \/ StopResult

-----------------------------------------------------------------------------
(***************************************************************************)
(* The rest of the world.                                                  *)
(***************************************************************************)
InvokeDirectly(h) ==
    /\ \E op \in {"all", "logger"}, legacy \in BOOLEAN :
          /\ legacy => AllowLegacy
          /\ Invoke(h, op, legacy)
    /\ UNCHANGED <<loggerVars, pidfile, intent, up, cpc, cop, signals>>

ExternalSignal ==
    /\ "external" \in Faults
    /\ Alive
    /\ Deliver
    /\ UNCHANGED <<pidfile, intent, helperVars, up, cpc, cop, signals>>

LosePidfile ==
    /\ "pidlost" \in Faults
    /\ pidfile # None
    /\ pidfile' = None
    /\ UNCHANGED <<loggerVars, intent, helperVars, up, cpc, cop, signals>>

ServiceExits ==
    /\ "service" \in Faults
    /\ \E s \in up : up' = up \ {s}
    /\ UNCHANGED <<loggerVars, pidfile, intent, helperVars, cpc, cop, signals>>

LoggerRuns ==
    /\ LoggerStep \/ Crash
    /\ UNCHANGED <<pidfile, intent, helperVars, up, cpc, cop, signals>>

Next ==
    \/ LoggerRuns
    \/ \E h \in Helpers : HelperStep(h)
    \/ \E h \in Helpers :
          Interrupt(h) /\ UNCHANGED <<loggerVars, pidfile, intent, up, cpc, cop, signals>>
    \/ \E h \in DirectHelpers : InvokeDirectly(h)
    \/ \E command \in Commands : Begin(command)
    \/ LauncherStep
    \/ LauncherKilled
    \/ ExternalSignal
    \/ LosePidfile
    \/ ServiceExits

Spec == Init /\ [][Next]_vars

\* Fairness: the logger, a helper and the launcher, once they can go on, do so
\* (each is a process the kernel schedules, and none of them waits without a
\* time-out); an operator who is free to run "stop" again does, as the messages
\* of the helper ask.
FairSpec ==
    /\ Spec
    /\ WF_vars(LoggerRuns)
    /\ \A h \in Helpers : WF_vars(HelperStep(h))
    /\ WF_vars(LauncherStep)
    /\ SF_vars(Begin("stop"))

-----------------------------------------------------------------------------
(***************************************************************************)
(* Properties.                                                             *)
(***************************************************************************)
\* Once a helper has accepted the evidence that a logger stopped, and from then
\* on, that process is gone and no board streams on its behalf, whatever
\* crashed, failed or was interrupted before (run, stop_logger and
\* resolve_exited_logger).  Accepting a legacy report is not covered.
AcceptedStopIsReal ==
    \A h \in Helpers :
        (/\ hpc[h] \in {"recheck", "unpid", "unintent", "services", "finish"}
         /\ hop[h] \notin AllServices
         /\ ~hlegacy[h]
         /\ hrun[h] # 0)
        => Quiet(hrun[h]) /\ ~Running(h)

\* The launcher probes the boards and starts a logger on a gate that found no
\* logger process only when no board still streams for the previous one
\* (start_logger after --check-start, resolve_exited_logger).
GateFindsBoardsIdle ==
    (cpc \in {"pgrep", "probe"} /\ hpc[Launcher] = "ok") => (Quiet(run) /\ ~Alive)

\* A logger is never sent a second SIGINT, over any number of time-outs,
\* interrupted helpers and retries (stop_logger).
AtMostOneInterrupt == signals <= 1

\* A logger that was sent a SIGINT and is not confirmed stopped has a stop
\* request on disk in its name, whichever helper died in between; a retry can
\* therefore tell (stop_logger: persist before signalling).
SignalIsOnRecord ==
    (signals > 0 /\ Alive) => (intent # None /\ intent.pid = run)

\* A stop that succeeded leaves evidence the next start accepts: the stop
\* judges the log after the request, the gate the whole log, and they agree
\* (stop_logger against check_logger_start).
StopPermitsStart ==
    \A h \in Helpers :
        (/\ hpc[h] = "ok"
         /\ hop[h] \in {"all", "logger"}
         /\ ~hlegacy[h]
         /\ hrun[h] = run
         /\ run > 0)
        => /\ intent = None
           /\ \E p \in Runs : Accepted(p, 0, None, FALSE)

\* Services go down, in a stop of everything, only when the boards of the
\* logger it found or whose evidence it read are idle and the evidence is put
\* away (run: the logger first).
ServicesGoLast ==
    [][\A h \in Helpers, s \in Services :
          (StopService(h, s) /\ hop[h] = "all" /\ ~hlegacy[h])
          => Quiet(hrun[h]) /\ intent = None]_vars

\* A stop request on disk is removed or replaced only by a helper that has
\* confirmed the stop it asked for: a request outlives every failure
\* (stop_logger, resolve_exited_logger).
RequestOutlivesFailure ==
    [][(intent # None /\ intent' # intent)
       => \/ Quiet(intent.pid) /\ ~(run = intent.pid /\ Alive)
          \/ \E h \in Helpers : hpc[h] = "unintent" /\ hlegacy[h]]_vars

\* What --allow-legacy accepts for want of a receipt is weaker: the boards the
\* log reports as started have stopped.  One whose start command never returned
\* is not covered (verify_shutdown).
LegacyStopCoversStarted ==
    \A h \in Helpers :
        (/\ hpc[h] \in {"recheck", "unpid", "unintent", "finish"}
         /\ hlegacy[h]
         /\ hrun[h] # 0)
        => \A b \in StartedIn(log, 0) : owner[b] # hrun[h]

-----------------------------------------------------------------------------
(***************************************************************************)
(* The lifecycle of FleetControl, without files, log and signals.          *)
(***************************************************************************)
\* A helper calls a logger stopped from its confirmation to its next command;
\* a legacy report is no such verdict.
Verdict == [h \in Helpers |->
               IF /\ hpc[h] \in {"unpid", "unintent", "services", "finish", "ok"}
                  /\ hop[h] \notin AllServices
                  /\ ~hlegacy[h]
               THEN hrun[h] ELSE 0]

Fleet == INSTANCE FleetControl WITH
            alive <- Alive,
            pending <- IF intent = None THEN 0 ELSE intent.pid,
            verdict <- Verdict

\* Every step of launcher, helpers, logger and outside world is one of the
\* abstract lifecycle or none of its business: helpers confirm only stops that
\* are real, and requests are settled only then (vibroagent.sh,
\* safe_pipeline_stop.py and the logger's main together).
ImplementsFleet == Fleet!FleetSpec

-----------------------------------------------------------------------------
(***************************************************************************)
(* Liveness, under FairSpec.                                               *)
(***************************************************************************)
\* A logger that was signalled cleans up and exits (the handler of main() and
\* the loops that poll stop_requested).
SignalEndsLogger == (signals > 0 /\ Alive) ~> ~Alive

\* Retrying the stop resolves a stop request that is pending: "retry safe stop
\* before starting" (check_logger_start, stop_logger).
PendingStopResolves == (intent # None) ~> (intent = None)

-----------------------------------------------------------------------------
(***************************************************************************)
(* What the documentation says, and the code does not keep.                *)
(***************************************************************************)
\* "A pending stop or failed native acknowledgement blocks start": hardware is
\* probed and the log replaced only when the last logger's boards are idle.
\* start_logger asks about the logger twice, in the gate and by pgrep.
FailedStopBlocksStart == cpc = "probe" => Quiet(run)
=============================================================================
