--------------------------- MODULE SafeStop_proofs ---------------------------
(***************************************************************************)
(* Theorems about SafeStop, for any set of boards and of direct helpers,   *)
(* any number of launches, any faults, and legacy acceptance or not.       *)
(***************************************************************************)
EXTENDS SafeStop, BoardLogger_proofs

-----------------------------------------------------------------------------
(***************************************************************************)
(* Types.                                                                  *)
(***************************************************************************)
\* Whatever a step does, it moves the logger or leaves it as it is.
LEMMA NextMovesLogger ==
    ASSUME [Next]_vars
    PROVE  LoggerMove \/ UNCHANGED loggerVars
  <1>1. ASSUME NEW h \in Helpers, HelperStep(h)
        PROVE  LoggerMove \/ UNCHANGED loggerVars
    BY <1>1 DEF HelperStep, HelperLocal, SendSignal, LoggerMove
  <1>2. CASE LauncherStep
    BY <1>2 DEF LauncherStep, StartGeniex, StartWebchat, CallGate, GateResult, Pgrep,
                ProbeFails, LaunchLogger, WritePid, AwaitDone, CallStop, StopResult,
                LoggerMove
  <1> QED
    BY <1>1, <1>2
       DEF Next, vars, LoggerRuns, LoggerMove, InvokeDirectly, Begin, LauncherKilled,
           ExternalSignal, LosePidfile, ServiceExits

FilesTypeOK ==
    /\ pidfile \in Runs \cup {None}
    /\ intent \in Intents
    /\ up \in SUBSET Services
    /\ signals \in Nat

HelperTypeOK ==
    /\ lock \in Helpers \cup {None}
    /\ hpc \in [Helpers -> HelperPCs]
    /\ hop \in [Helpers -> Ops]
    /\ hlegacy \in [Helpers -> BOOLEAN]
    /\ hup \in [Helpers -> SUBSET Services]
    /\ hrun \in [Helpers -> 0..MaxRuns]
    /\ hintent \in [Helpers -> Intents]
    /\ hoffset \in [Helpers -> Nat]

LauncherTypeOK ==
    /\ cpc \in LauncherPCs
    /\ cop \in AllCommands

\* TypeOK, split by whose variables they are.
LEMMA TypeOKParts ==
    TypeOK <=> LoggerTypeOK /\ FilesTypeOK /\ HelperTypeOK /\ LauncherTypeOK
  BY DEF TypeOK, FilesTypeOK, HelperTypeOK, LauncherTypeOK

\* A helper that refuses keeps the types (UnsafeStop in run).
LEMMA RefuseTypes ==
    ASSUME TypeOK, NEW h \in Helpers, Refuse(h)
    PROVE  HelperTypeOK'
  <1>1. 0 \in 0..MaxRuns /\ 0 \in Nat
    BY RunsAssumption
  <1>2. "all" \in Ops /\ "idle" \in HelperPCs /\ None \in Intents
    BY DEF Ops, HelperPCs, Idle, Intents
  <1>3. /\ hoffset' \in [Helpers -> Nat]
        /\ hrun' \in [Helpers -> 0..MaxRuns]
    BY <1>1 DEF Refuse, TypeOK
  <1>4. /\ hintent' \in [Helpers -> Intents]
        /\ hpc' \in [Helpers -> HelperPCs]
        /\ hop' \in [Helpers -> Ops]
        /\ hup' \in [Helpers -> SUBSET Services]
        /\ lock' = None
    BY <1>2 DEF Refuse, Finish, Goto, TypeOK
  <1>5. hlegacy' \in [Helpers -> BOOLEAN]
    BY DEF Refuse, TypeOK
  <1> QED BY <1>3, <1>4, <1>5 DEF HelperTypeOK

\* A helper that takes the lock and its snapshot keeps the types (run).
LEMMA InvokeTypes ==
    ASSUME TypeOK, RunOfLogger,
           NEW h \in Helpers, NEW op \in Ops, NEW legacy \in BOOLEAN,
           Invoke(h, op, legacy)
    PROVE  HelperTypeOK'
  <1>1. FirstStep(op) \in HelperPCs
    BY DEF FirstStep, HelperPCs
  <1>2. Targets(op) \cap up \in SUBSET Services
    BY DEF Targets
  <1>3. (IF Alive THEN run ELSE 0) \in 0..MaxRuns
    BY RunsAssumption DEF TypeOK, LoggerTypeOK
  <1> QED BY <1>1, <1>2, <1>3 DEF Invoke, Goto, TypeOK, HelperTypeOK, Intents

\* Going on after the logger keeps the types (run).
LEMMA AfterLoggerTypes ==
    ASSUME TypeOK, NEW h \in Helpers, AfterLogger(h)
    PROVE  lock' \in Helpers \cup {None} /\ hpc' \in [Helpers -> HelperPCs]
  BY DEF AfterLogger, Finish, Goto, TypeOK, HelperPCs, Idle

\* The helper's steps on its own variables keep the types.
LEMMA LocalTypes ==
    ASSUME TypeOK, NEW h \in Helpers, HelperLocal(h)
    PROVE  HelperTypeOK'
  <1>0. Len(log) \in Nat
    BY LenProperties DEF TypeOK, LoggerTypeOK
  <1>1. CASE ReadEvidence(h)
    <2>1. (IF pidfile = None THEN 0 ELSE pidfile) \in 0..MaxRuns
      BY RunsAssumption DEF TypeOK, Runs
    <2> QED BY <1>1, <2>1 DEF ReadEvidence, Goto, TypeOK, HelperTypeOK, HelperPCs
  <1>2. CASE FindNothing(h)
    BY <1>2, AfterLoggerTypes DEF FindNothing, TypeOK, HelperTypeOK
  <1>3. CASE AcceptEvidence(h)
    <2>1. PICK p \in Runs : hrun' = [hrun EXCEPT ![h] = p]
      BY <1>3 DEF AcceptEvidence
    <2>2. p \in 0..MaxRuns
      BY RunsAssumption DEF Runs
    <2> QED BY <1>0, <1>3, <2>1, <2>2
            DEF AcceptEvidence, Goto, TypeOK, HelperTypeOK, HelperPCs, Intents
  <1>4. CASE RecheckLog(h) \/ SeeExit(h)
    <2>1. CASE Confirm(h)
      BY <2>1 DEF Confirm, Goto, TypeOK, HelperTypeOK, HelperPCs
    <2> QED BY <1>4, <2>1, RefuseTypes DEF RecheckLog, SeeExit
  <1>5. CASE RefuseEvidence(h) \/ RefuseHandle(h) \/ GiveUpWaiting(h) \/ RefuseService(h)
    BY <1>5, RefuseTypes DEF RefuseEvidence, RefuseHandle, GiveUpWaiting, RefuseService
  <1>6. CASE CheckRunning(h) \/ VerifyFinished(h)
    BY <1>6, RefuseTypes
       DEF CheckRunning, VerifyFinished, Finish, Goto, TypeOK, HelperTypeOK, HelperPCs, Idle
  <1>7. CASE ReadLog(h)
    BY <1>0, <1>7 DEF ReadLog, Goto, TypeOK, HelperTypeOK, HelperPCs
  <1>8. CASE OpenHandle(h)
    <2>1. CASE AdoptRequest(h)
      <3>1. intent.offset \in Nat
        BY <2>1 DEF AdoptRequest, TypeOK, Intents
      <3> QED BY <1>8, <2>1, <3>1
              DEF OpenHandle, AdoptRequest, Goto, TypeOK, HelperTypeOK, HelperPCs
    <2>2. CASE MakeRequest(h)
      BY <1>8, <2>2 DEF OpenHandle, MakeRequest, Goto, TypeOK, HelperTypeOK, HelperPCs
    <2> QED BY <1>8, <2>1, <2>2 DEF OpenHandle
  <1>9. CASE ServicesStopped(h)
    BY <1>9 DEF ServicesStopped, Goto, TypeOK, HelperTypeOK, HelperPCs
  <1> QED
    BY <1>1, <1>2, <1>3, <1>4, <1>5, <1>6, <1>7, <1>8, <1>9 DEF HelperLocal

\* A helper that makes a request has a logger to make it of, and the launcher
\* one to write the pid of.
Stopping == {"read", "handle", "persist", "signal", "wait"}
StopsSomeone == \A h \in Helpers : hpc[h] \in Stopping => hrun[h] # 0
LaunchedOne  == cpc = "writepid" => run # 0

\* Every step of a helper keeps the types.
LEMMA HelperTypes ==
    ASSUME TypeOK, StopsSomeone, NEW h \in Helpers, HelperStep(h)
    PROVE  HelperTypeOK' /\ FilesTypeOK' /\ LauncherTypeOK'
  <1>1. CASE HelperLocal(h)
    BY <1>1, LocalTypes DEF HelperLocal, TypeOK, FilesTypeOK, LauncherTypeOK, Intents
  <1>2. CASE PersistIntent(h) /\ UNCHANGED <<loggerVars, pidfile, up, cpc, cop, signals>>
    <2>1. hrun[h] \in Runs
      BY <1>2, RunsAssumption DEF PersistIntent, StopsSomeone, Stopping, TypeOK, Runs
    <2> QED BY <1>2, <2>1 DEF PersistIntent, Goto, TypeOK, HelperTypeOK, HelperPCs,
                              FilesTypeOK, LauncherTypeOK, Intents
  <1>3. CASE SendSignal(h) /\ UNCHANGED <<pidfile, intent, up, cpc, cop>>
    BY <1>3 DEF SendSignal, Goto, TypeOK, HelperTypeOK, HelperPCs, FilesTypeOK,
                LauncherTypeOK, Intents
  <1>4. CASE RemovePidfile(h) /\ UNCHANGED <<loggerVars, intent, up, cpc, cop, signals>>
    BY <1>4 DEF RemovePidfile, Goto, TypeOK, HelperTypeOK, HelperPCs, FilesTypeOK,
                LauncherTypeOK, Intents
  <1>5. CASE RemoveIntent(h) /\ UNCHANGED <<loggerVars, pidfile, up, cpc, cop, signals>>
    BY <1>5, AfterLoggerTypes DEF RemoveIntent, TypeOK, HelperTypeOK, FilesTypeOK,
                LauncherTypeOK, Intents
  <1>6. CASE /\ \E s \in Services : StopService(h, s)
             /\ UNCHANGED <<loggerVars, pidfile, intent, cpc, cop, signals>>
    BY <1>6 DEF StopService, TypeOK, HelperTypeOK, FilesTypeOK, LauncherTypeOK, Intents
  <1> QED BY <1>1, <1>2, <1>3, <1>4, <1>5, <1>6 DEF HelperStep

\* The launcher's moves from phase to phase keep its types.
LEMMA BecomeTypes ==
    ASSUME TypeOK, NEW pc \in LauncherPCs, Become(pc)
    PROVE  LauncherTypeOK'
  BY DEF Become, TypeOK, LauncherTypeOK, AllCommands

\* Every step of the launcher keeps the types (vibroagent.sh).
LEMMA LauncherTypes ==
    ASSUME TypeOK, RunOfLogger, LaunchedOne, LauncherStep
    PROVE  HelperTypeOK' /\ FilesTypeOK' /\ LauncherTypeOK'
  <1> USE DEF LauncherPCs
  <1>1. CASE StartGeniex
    <2>1. up' \in SUBSET Services
      BY <1>1 DEF StartGeniex, TypeOK
    <2>2. LauncherTypeOK'
      BY <1>1, BecomeTypes DEF StartGeniex
    <2> QED BY <1>1, <2>1, <2>2
            DEF StartGeniex, helperVars, TypeOK, HelperTypeOK, FilesTypeOK, Intents
  <1>2. CASE StartWebchat
    <2>1. up' \in SUBSET Services
      BY <1>2 DEF StartWebchat, TypeOK
    <2>2. LauncherTypeOK'
      BY <1>2, BecomeTypes DEF StartWebchat
    <2> QED BY <1>2, <2>1, <2>2
            DEF StartWebchat, helperVars, TypeOK, HelperTypeOK, FilesTypeOK, Intents
  <1>3. CASE CallGate
    <2>1. HelperTypeOK'
      BY <1>3, InvokeTypes DEF CallGate, Helpers, Ops, helperVars, TypeOK, HelperTypeOK
    <2>2. LauncherTypeOK'
      BY <1>3, BecomeTypes DEF CallGate
    <2> QED BY <1>3, <2>1, <2>2 DEF CallGate, TypeOK, FilesTypeOK, Intents
  <1>4. CASE CallStop
    <2>1. StopTarget \in Ops
      BY DEF StopTarget, TypeOK, AllCommands, Ops, AllServices
    <2>2. HelperTypeOK'
      BY <1>4, <2>1, InvokeTypes DEF CallStop, Helpers, helperVars, TypeOK, HelperTypeOK
    <2>3. LauncherTypeOK'
      BY <1>4, BecomeTypes DEF CallStop
    <2> QED BY <1>4, <2>2, <2>3 DEF CallStop, TypeOK, FilesTypeOK, Intents
  <1>5. CASE GateResult \/ Pgrep \/ ProbeFails \/ AwaitDone \/ StopResult
    <2>1. LauncherTypeOK'
      BY <1>5, BecomeTypes DEF GateResult, Pgrep, ProbeFails, AwaitDone, StopResult
    <2> QED BY <1>5, <2>1
            DEF GateResult, Pgrep, ProbeFails, AwaitDone, StopResult, helperVars, TypeOK,
                HelperTypeOK, FilesTypeOK, Intents
  <1>6. CASE LaunchLogger
    <2>1. LauncherTypeOK'
      BY <1>6, BecomeTypes DEF LaunchLogger
    <2> QED BY <1>6, <2>1
            DEF LaunchLogger, helperVars, TypeOK, HelperTypeOK, FilesTypeOK, Intents
  <1>7. CASE WritePid
    <2>1. LauncherTypeOK'
      BY <1>7, BecomeTypes DEF WritePid
    <2>2. pidfile' \in Runs \cup {None}
      BY <1>7, RunsAssumption DEF WritePid, LaunchedOne, TypeOK, LoggerTypeOK, Runs
    <2> QED BY <1>7, <2>1, <2>2
            DEF WritePid, helperVars, TypeOK, HelperTypeOK, FilesTypeOK, Intents
  <1> QED BY <1>1, <1>2, <1>3, <1>4, <1>5, <1>6, <1>7 DEF LauncherStep

\* Types, with the facts about control that they depend on.
TypeInv == TypeOK /\ RunOfLogger /\ StopsSomeone /\ LaunchedOne

\* The types, with what they rest on, hold initially.
LEMMA TypeInvHolds == ASSUME Init PROVE TypeInv
  <1>1. LoggerInv
    BY LoggerInvHolds DEF Init
  <1>2. FilesTypeOK /\ LauncherTypeOK
    BY DEF Init, FilesTypeOK, LauncherTypeOK, LauncherPCs, AllCommands, Intents
  <1>3. 0 \in 0..MaxRuns
    BY RunsAssumption
  <1>4. hlegacy \in [Helpers -> BOOLEAN]
    BY DEF Init
  <1>5. HelperTypeOK
    BY <1>3, <1>4 DEF Init, HelperTypeOK, HelperPCs, Idle, Ops, Intents
  <1> QED BY <1>1, <1>2, <1>5, TypeOKParts
          DEF Init, TypeInv, LoggerInv, StopsSomeone, Stopping, LaunchedOne

\* A helper in the middle of a stop has a logger to stop (stop_logger is
\* called on a process, resolve_exited_logger finds a pid).
LEMMA SomeoneStaysStopped ==
    ASSUME TypeInv, [Next]_vars
    PROVE  StopsSomeone'
  <1>1. ASSUME UNCHANGED <<hpc, hrun>> PROVE StopsSomeone'
    BY <1>1 DEF TypeInv, StopsSomeone
  <1>2. ASSUME NEW h \in Helpers, Refuse(h) PROVE StopsSomeone'
    BY <1>2 DEF Refuse, Finish, Goto, TypeInv, TypeOK, StopsSomeone, Stopping
  <1>3. ASSUME NEW h \in Helpers, NEW op, NEW legacy, Invoke(h, op, legacy)
        PROVE  StopsSomeone'
    <2>1. Alive => run # 0
      BY RunsAssumption DEF TypeInv, RunOfLogger, Runs
    <2> QED BY <1>3, <2>1
            DEF Invoke, Goto, FirstStep, TypeInv, TypeOK, StopsSomeone, Stopping
  <1>4. ASSUME NEW h \in Helpers, HelperStep(h) PROVE StopsSomeone'
    <2>1. ASSUME NEW g \in Helpers, g # h PROVE hpc'[g] = hpc[g] /\ hrun'[g] = hrun[g]
      BY <1>4, <2>1
         DEF HelperStep, HelperLocal, ReadEvidence, FindNothing, AcceptEvidence,
             RefuseEvidence, RecheckLog, CheckRunning, ReadLog, OpenHandle, AdoptRequest,
             MakeRequest, RefuseHandle, SeeExit, GiveUpWaiting, RefuseService,
             ServicesStopped, VerifyFinished, PersistIntent, SendSignal, RemovePidfile,
             RemoveIntent, StopService, AfterLogger, Confirm, Refuse, Finish, Goto,
             TypeInv, TypeOK
    <2>2. hpc'[h] \in Stopping => hpc[h] \in Stopping /\ hrun'[h] = hrun[h]
      BY <1>4
         DEF HelperStep, HelperLocal, ReadEvidence, FindNothing, AcceptEvidence,
             RefuseEvidence, RecheckLog, CheckRunning, ReadLog, OpenHandle, AdoptRequest,
             MakeRequest, RefuseHandle, SeeExit, GiveUpWaiting, RefuseService,
             ServicesStopped, VerifyFinished, PersistIntent, SendSignal, RemovePidfile,
             RemoveIntent, StopService, AfterLogger, Confirm, Refuse, Finish, Goto,
             TypeInv, TypeOK, Stopping
    <2> QED BY <2>1, <2>2 DEF TypeInv, StopsSomeone
  <1>5. CASE LauncherStep
    BY <1>1, <1>3, <1>5
       DEF LauncherStep, StartGeniex, StartWebchat, CallGate, GateResult, Pgrep, ProbeFails,
           LaunchLogger, WritePid, AwaitDone, CallStop, StopResult, helperVars, Helpers
  <1> QED
    BY <1>1, <1>2, <1>3, <1>4, <1>5
       DEF Next, vars, helperVars, LoggerRuns, Interrupt, InvokeDirectly, Begin,
           LauncherKilled, ExternalSignal, LosePidfile, ServiceExits, Helpers

\* Every step of the system keeps the types, with what they rest on.
LEMMA TypeInvKept == ASSUME TypeInv, [Next]_vars PROVE TypeInv'
  <1>1. LoggerTypeOK' /\ RunOfLogger'
    <2>1. LoggerTypeOK /\ RunOfLogger
      BY TypeOKParts DEF TypeInv
    <2>2. CASE UNCHANGED loggerVars
      BY <2>1, <2>2 DEF loggerVars, LoggerTypeOK, RunOfLogger, Alive
    <2> QED BY <2>1, <2>2, LoggerKeepsTypes, NextMovesLogger
  <1>2. LaunchedOne'
    <2>1. LoggerMove \/ run' = run
      BY NextMovesLogger DEF loggerVars
    <2>2. LoggerMove => run' = run \/ run' = run + 1
      BY DEF LoggerMove, Launch, LoggerStep, Crash, Deliver, BootFails, InstallHandlers,
             OpenFails, OpenSucceeds, PrepareFails, PrepareSucceeds, BeginStart,
             StartSucceeds, StartFails, StartDone, LoggingEnds, StopAcknowledged, StopFails,
             StopsDone, ReportStopped, CloseEngine, WriteReceipt, Exit
    <2>3. run \in Nat /\ (run # 0 => run' # 0)
      BY <2>1, <2>2, RunsAssumption DEF TypeInv, TypeOK, LoggerTypeOK
    <2>4. cpc' = "writepid" => cpc = "writepid" \/ LaunchLogger
      BY DEF Next, vars, helperVars, HelperStep, HelperLocal, LauncherStep, StartGeniex,
             StartWebchat, CallGate, GateResult, Pgrep, ProbeFails, WritePid, AwaitDone,
             CallStop, StopResult, Become, LoggerRuns, Interrupt, InvokeDirectly, Begin,
             LauncherKilled, ExternalSignal, LosePidfile, ServiceExits
    <2>5. LaunchLogger => run' # 0
      BY <2>3 DEF LaunchLogger, Launch
    <2> QED BY <2>3, <2>4, <2>5 DEF TypeInv, LaunchedOne
  <1>3. StopsSomeone'
    BY SomeoneStaysStopped
  <1>4. HelperTypeOK' /\ FilesTypeOK' /\ LauncherTypeOK'
    <2> USE DEF TypeInv
    <2>1. ASSUME NEW h \in Helpers, HelperStep(h)
          PROVE  HelperTypeOK' /\ FilesTypeOK' /\ LauncherTypeOK'
      BY <2>1, HelperTypes
    <2>2. CASE LauncherStep
      BY <2>2, LauncherTypes
    <2>3. CASE UNCHANGED vars \/ LoggerRuns \/ ExternalSignal
      BY <2>3 DEF vars, helperVars, LoggerRuns, ExternalSignal, TypeOK, HelperTypeOK,
                  FilesTypeOK, LauncherTypeOK, Intents
    <2>4. ASSUME NEW h \in Helpers, Interrupt(h),
                 UNCHANGED <<loggerVars, pidfile, intent, up, cpc, cop, signals>>
          PROVE  HelperTypeOK' /\ FilesTypeOK' /\ LauncherTypeOK'
      BY <2>4, RefuseTypes DEF Interrupt, TypeOK, FilesTypeOK, LauncherTypeOK, Intents
    <2>5. ASSUME NEW h \in DirectHelpers, InvokeDirectly(h)
          PROVE  HelperTypeOK' /\ FilesTypeOK' /\ LauncherTypeOK'
      BY <2>5, InvokeTypes
         DEF InvokeDirectly, Helpers, Ops, TypeOK, FilesTypeOK, LauncherTypeOK, Intents
    <2>6. ASSUME NEW command \in Commands, Begin(command)
          PROVE  HelperTypeOK' /\ FilesTypeOK' /\ LauncherTypeOK'
      BY <2>6, CommandsAssumption
         DEF Begin, helperVars, TypeOK, HelperTypeOK, FilesTypeOK, LauncherTypeOK,
             LauncherPCs, Intents
    <2>7. CASE LauncherKilled
      BY <2>7, BecomeTypes
         DEF LauncherKilled, helperVars, TypeOK, HelperTypeOK, FilesTypeOK, LauncherPCs,
             Intents
    <2>8. CASE LosePidfile \/ ServiceExits
      BY <2>8 DEF LosePidfile, ServiceExits, helperVars, TypeOK, HelperTypeOK, FilesTypeOK,
                  LauncherTypeOK, Intents
    <2> QED BY <2>1, <2>2, <2>3, <2>4, <2>5, <2>6, <2>7, <2>8 DEF Next
  <1>5. TypeOK'
    BY <1>1, <1>4 DEF TypeOK, HelperTypeOK, FilesTypeOK, LauncherTypeOK
  <1> QED BY <1>1, <1>2, <1>3, <1>5 DEF TypeInv

\* TypeOK of the model is an invariant: every variable keeps its type through
\* launches, stops, crashes and interruptions.
THEOREM TypeCorrect == Spec => []TypeOK
  <1>1. Init => TypeInv
    BY TypeInvHolds
  <1>2. TypeInv /\ [Next]_vars => TypeInv'
    BY TypeInvKept
  <1>3. TypeInv => TypeOK
    BY DEF TypeInv
  <1> QED BY <1>1, <1>2, <1>3, PTL DEF Spec

-----------------------------------------------------------------------------
(***************************************************************************)
(* The inductive invariant.                                                *)
(***************************************************************************)
\* A helper at work holds safe-stop.lock: there is at most one.
LockHeld == \A h \in Helpers : hpc[h] \notin Idle => lock = h

\* Nothing on disk or in a helper's memory names a launch yet to come.
NamesKnown ==
    /\ pidfile # None => pidfile <= run
    /\ intent # None => intent.pid <= run
    /\ \A h \in Helpers : hrun[h] <= run

\* What each stage of a stop knows of the request on disk.
StageKnows(h) ==
    /\ hpc[h] \notin Idle \cup {"services", "finish"} => hop[h] \notin AllServices
    /\ hpc[h] = "judge" => hintent[h] = intent
    /\ hpc[h] = "persist" => intent = None
    /\ hpc[h] = "signal" => (Running(h) => signals = 0)
    /\ hpc[h] \in {"signal", "wait"} => intent # None /\ intent.pid = hrun[h]
    /\ hpc[h] \in {"recheck", "unpid", "unintent"} =>
          /\ hrun[h] # 0
          /\ ~Running(h)
          /\ intent # None => intent.pid = hrun[h]
    /\ hpc[h] \in {"services", "finish"} /\ hop[h] \notin AllServices => intent = None

\* From the launcher's gate until it launches, the gate's verdict stays true.
GateWatches ==
    cpc \in {"gated", "pgrep", "probe"} =>
        /\ hpc[Launcher] \in {"idle", "evidence", "judge", "running", "found", "recheck",
                              "unpid", "unintent", "ok"}
        /\ hpc[Launcher] # "idle" => hop[Launcher] = "check" /\ ~hlegacy[Launcher]
        /\ hpc[Launcher] \in {"evidence", "judge"} => ~Alive
        /\ hpc[Launcher] \in {"recheck", "unpid", "unintent", "ok"} =>
              Quiet(run) /\ ~Alive
        /\ cpc \in {"pgrep", "probe"} => hpc[Launcher] \in {"ok", "found"}

Control ==
    /\ LockHeld
    /\ NamesKnown
    /\ \A h \in Helpers : StageKnows(h)
    /\ SignalIsOnRecord
    /\ AtMostOneInterrupt
    /\ AcceptedStopIsReal
    /\ GateWatches

IInv == TypeInv /\ LoggerInv /\ Control

-----------------------------------------------------------------------------
(***************************************************************************)
(* Lemmas.                                                                 *)
(***************************************************************************)
\* AcceptedStopIsReal, for one helper.
AcceptedAt(h) ==
    (/\ hpc[h] \in {"recheck", "unpid", "unintent", "services", "finish"}
     /\ hop[h] \notin AllServices
     /\ ~hlegacy[h]
     /\ hrun[h] # 0)
    => Quiet(hrun[h]) /\ ~Running(h)

\* What the log must say for a stop to be accepted without --allow-legacy is
\* true: it is the last launch's, and its boards are idle.
LEMMA EvidenceIsTrue ==
    ASSUME LoggerInv, NEW offset, NEW p, NEW legacy, ~legacy,
           Verified(log, offset, p, legacy)
    PROVE  p = run /\ Quiet(run)
  <1>1. PICK i \in At(log, offset, "receipt") : Complete(log[i], p, StartedIn(log, 0))
    BY DEF Verified
  <1>2. Receipt(i)
    BY <1>1 DEF At, Receipt
  <1>3. log[i].pid = p /\ log[i].began = log[i].stopped
    BY <1>1 DEF Complete
  <1> QED BY <1>2, <1>3 DEF LoggerInv, ReceiptsSound, Receipt

\* The other helpers are idle while one works or has just been let in.
LEMMA OthersIdle ==
    ASSUME LockHeld, NEW h \in Helpers, lock \in {h, None}, None \notin Helpers
    PROVE  \A g \in Helpers : g # h => hpc[g] \in Idle
  BY DEF LockHeld

\* A step of one helper that leaves files and logger alone keeps the invariant
\* when it does so for that helper.
LEMMA OneHelperMoves ==
    ASSUME IInv, NEW h \in Helpers,
           UNCHANGED <<loggerVars, pidfile, intent, cpc, signals>>,
           lock \in {h, None},
           \A g \in Helpers : g # h => /\ hpc'[g] = hpc[g] /\ hop'[g] = hop[g]
                                        /\ hlegacy'[g] = hlegacy[g] /\ hrun'[g] = hrun[g]
                                        /\ hintent'[g] = hintent[g],
           hpc'[h] \notin Idle => lock' = h,
           hrun'[h] <= run,
           StageKnows(h)',
           AcceptedAt(h)',
           h = Launcher => GateWatches'
    PROVE  Control'
  <1>1. \A g \in Helpers : g # h => hpc[g] \in Idle /\ hpc'[g] \in Idle
    BY OthersIdle, NoneAssumption DEF IInv, Control
  <1>2. LockHeld'
    BY <1>1 DEF LockHeld
  <1>3. NamesKnown'
    BY DEF IInv, Control, NamesKnown, loggerVars
  <1>4. \A g \in Helpers : StageKnows(g)'
    BY <1>1 DEF StageKnows, Idle
  <1>5. AcceptedStopIsReal'
    BY <1>1 DEF AcceptedStopIsReal, AcceptedAt, Idle
  <1>6. SignalIsOnRecord' /\ AtMostOneInterrupt'
    BY DEF IInv, Control, SignalIsOnRecord, AtMostOneInterrupt, loggerVars, Alive
  <1>7. GateWatches'
    <2>1. CASE h # Launcher
      BY <2>1 DEF IInv, Control, GateWatches, loggerVars, Alive, Quiet, Helpers
    <2> QED BY <2>1
  <1> QED BY <1>2, <1>3, <1>4, <1>5, <1>6, <1>7 DEF Control

\* A helper that ends, or is refused, knows nothing any more.
LEMMA RefusalKeepsControl ==
    ASSUME IInv, NEW h \in Helpers, hpc[h] \notin Idle, Refuse(h),
           UNCHANGED <<loggerVars, pidfile, intent, cpc, signals>>,
           h = Launcher => cpc \notin {"pgrep", "probe"}
    PROVE  Control'
  <1>1. /\ hpc'[h] = "idle" /\ hrun'[h] = 0
        /\ \A g \in Helpers : g # h => /\ hpc'[g] = hpc[g] /\ hop'[g] = hop[g]
                                         /\ hlegacy'[g] = hlegacy[g] /\ hrun'[g] = hrun[g]
                                         /\ hintent'[g] = hintent[g]
    BY DEF Refuse, Finish, Goto, IInv, TypeInv, TypeOK
  <1>2. lock = h /\ run \in Nat
    BY RunsAssumption DEF IInv, Control, LockHeld, TypeInv, TypeOK, LoggerTypeOK
  <1>3. StageKnows(h)' /\ AcceptedAt(h)'
    BY <1>1 DEF StageKnows, AcceptedAt, Idle
  <1>4. h = Launcher => GateWatches'
    BY <1>1 DEF GateWatches
  <1> QED BY <1>1, <1>2, <1>3, <1>4, OneHelperMoves DEF Idle

\* While the launcher's command is past its gate, its helper has ended.
LEMMA GateIsOver ==
    ASSUME IInv, hpc[Launcher] \notin Idle
    PROVE  cpc \notin {"pgrep", "probe"}
  BY DEF IInv, Control, GateWatches, Idle

-----------------------------------------------------------------------------
(***************************************************************************)
(* The steps of a helper.                                                  *)
(***************************************************************************)
\* Confirming a stop, or finding evidence of one, when it is real.
LEMMA ConfirmedIsReal ==
    ASSUME IInv, NEW h \in Helpers,
           UNCHANGED <<loggerVars, pidfile, intent, cpc, signals, lock, hop, hlegacy>>,
           hpc[h] \notin Idle \cup {"services", "finish"},
           hpc'[h] \in {"recheck", "unpid"},
           hrun'[h] \in Runs, hrun'[h] <= run,
           ~(run = hrun'[h] /\ Alive),
           intent # None => intent.pid = hrun'[h],
           ~hlegacy[h] => run = hrun'[h] /\ Quiet(run),
           \A g \in Helpers : g # h => /\ hpc'[g] = hpc[g] /\ hrun'[g] = hrun[g]
                                        /\ hintent'[g] = hintent[g],
           h = Launcher => cpc # "gated" \/ hpc[h] \in {"judge", "recheck"}
    PROVE  Control'
  <1>1. lock = h /\ 0 \notin Runs
    BY DEF IInv, Control, LockHeld, Runs
  <1>2. hop[h] \notin AllServices
    BY DEF IInv, Control, StageKnows
  <1>3. StageKnows(h)'
    BY <1>1, <1>2 DEF StageKnows, Running, loggerVars, Alive, Idle
  <1>4. Quiet(run) => Quiet(run)'
    BY DEF Quiet, loggerVars
  <1>5. AcceptedAt(h)'
    BY <1>4 DEF AcceptedAt, Running, loggerVars, Alive
  <1>6. h = Launcher => GateWatches'
    BY <1>4, GateIsOver DEF IInv, Control, GateWatches, Idle, loggerVars, Alive
  <1> QED BY <1>1, <1>3, <1>5, <1>6, OneHelperMoves DEF Idle

\* Judging retained evidence keeps the invariant (resolve_exited_logger,
\* check_logger_start).
LEMMA EvidenceKeepsControl ==
    ASSUME IInv, NEW h \in Helpers,
           UNCHANGED <<loggerVars, pidfile, intent, up, cpc, cop, signals>>,
           ReadEvidence(h) \/ FindNothing(h) \/ AcceptEvidence(h) \/ RefuseEvidence(h)
               \/ RecheckLog(h)
    PROVE  Control'
  <1>1. /\ hpc \in [Helpers -> HelperPCs] /\ hrun \in [Helpers -> 0..MaxRuns]
        /\ hintent \in [Helpers -> Intents]
        /\ run \in Nat
    BY RunsAssumption DEF IInv, TypeInv, TypeOK, LoggerTypeOK
  <1>2. hpc[h] \in {"evidence", "judge", "recheck"}
    BY DEF ReadEvidence, FindNothing, AcceptEvidence, RefuseEvidence, RecheckLog
  <1>3. lock = h /\ StageKnows(h) /\ hop[h] \notin AllServices
    BY <1>2 DEF IInv, Control, LockHeld, StageKnows, Idle
  <1>4. h = Launcher => cpc \notin {"pgrep", "probe"}
    BY <1>2, GateIsOver DEF Idle
  <1>5. CASE ReadEvidence(h)
    <2>1. /\ hpc'[h] = "judge" /\ hintent'[h] = intent /\ lock' = lock
          /\ hop' = hop /\ hlegacy' = hlegacy
          /\ hrun'[h] = IF pidfile = None THEN 0 ELSE pidfile
          /\ \A g \in Helpers : g # h => /\ hpc'[g] = hpc[g] /\ hrun'[g] = hrun[g]
                                         /\ hintent'[g] = hintent[g]
          /\ hpc[h] = "evidence"
      BY <1>1, <1>5 DEF ReadEvidence, Goto
    <2>2. hrun'[h] <= run
      BY <1>1, <2>1 DEF IInv, Control, NamesKnown
    <2>3. StageKnows(h)' /\ AcceptedAt(h)'
      BY <1>3, <2>1 DEF StageKnows, AcceptedAt, Idle
    <2>4. h = Launcher => GateWatches'
      BY <1>4, <2>1 DEF IInv, Control, GateWatches, loggerVars, Alive
    <2> QED BY <1>3, <2>1, <2>2, <2>3, <2>4, OneHelperMoves DEF Idle
  <1>6. CASE FindNothing(h)
    <2>1. /\ hop' = hop /\ hlegacy' = hlegacy /\ hrun' = hrun /\ hintent' = hintent
          /\ hpc[h] = "judge" /\ hrun[h] = 0 /\ hintent[h] = None /\ log = <<>>
          /\ \A g \in Helpers : g # h => hpc'[g] = hpc[g]
          /\ \/ hpc'[h] = "ok" /\ hop[h] = "check"
             \/ hpc'[h] = "finish" /\ lock' = lock /\ hop[h] # "check"
             \/ hpc'[h] = "services" /\ lock' = lock /\ hop[h] # "check"
      BY <1>1, <1>6 DEF FindNothing, NothingOwned, AfterLogger, Finish, Goto
    <2>2. hrun'[h] <= run
      BY <1>1, <2>1
    <2>3. StageKnows(h)' /\ AcceptedAt(h)'
      BY <1>3, <2>1 DEF StageKnows, AcceptedAt, Idle
    <2>4. h = Launcher => GateWatches'
      <3>1. Quiet(run)'
        BY <2>1 DEF IInv, LoggerInv, EmptyLogIsQuiet, Quiet, loggerVars
      <3> QED BY <1>4, <2>1, <3>1 DEF IInv, Control, GateWatches, loggerVars, Alive
    <2> QED BY <1>3, <2>1, <2>2, <2>3, <2>4, OneHelperMoves DEF Idle
  <1>7. CASE AcceptEvidence(h)
    <2>1. PICK p \in Runs : /\ Accepted(p, hrun[h], hintent[h], hlegacy[h])
                            /\ hrun' = [hrun EXCEPT ![h] = p]
      BY <1>7 DEF AcceptEvidence
    <2>2. /\ lock' = lock /\ hop' = hop /\ hlegacy' = hlegacy
          /\ hpc[h] = "judge" /\ hpc'[h] = "recheck" /\ hrun'[h] = p
          /\ \A g \in Helpers : g # h => /\ hpc'[g] = hpc[g] /\ hrun'[g] = hrun[g]
                                         /\ hintent'[g] = hintent[g]
      BY <1>1, <1>7, <2>1 DEF AcceptEvidence, Goto
    <2>3. hintent[h] = intent
      BY <1>3, <2>2 DEF StageKnows
    <2>4. ~(p = run /\ Alive) /\ (intent # None => intent.pid = p)
      BY <2>1, <2>3 DEF Accepted, EvidencePid
    <2>5. ~hlegacy[h] => p = run /\ Quiet(run)
      BY <2>1, EvidenceIsTrue DEF Accepted, IInv
    <2>6. p <= run
      <3>1. CASE intent # None
        BY <2>4, <3>1 DEF IInv, Control, NamesKnown
      <3>2. CASE intent = None /\ hrun[h] # 0
        BY <2>1, <2>3, <3>2 DEF Accepted, EvidencePid, IInv, Control, NamesKnown
      <3>3. CASE intent = None /\ hrun[h] = 0
        <4>1. PICK i \in At(log, 0, "receipt") : p = log[i].pid
          BY <2>1, <2>3, <3>3 DEF Accepted, EvidencePid
        <4>2. log[i].pid = run
          BY <4>1 DEF At, IInv, LoggerInv, ReceiptsSound, Receipt
        <4> QED BY <1>1, <4>1, <4>2
      <3> QED BY <3>1, <3>2, <3>3
    <2> QED BY <1>2, <2>2, <2>4, <2>5, <2>6, ConfirmedIsReal DEF Idle
  <1>8. CASE RefuseEvidence(h)
    BY <1>2, <1>4, <1>8, RefusalKeepsControl DEF RefuseEvidence, Idle
  <1>9. CASE RecheckLog(h)
    <2>1. CASE Confirm(h)
      <3>1. /\ hpc[h] = "recheck" /\ hpc'[h] = "unpid" /\ lock' = lock /\ hop' = hop
            /\ hlegacy' = hlegacy /\ hrun' = hrun /\ hintent' = hintent
            /\ \A g \in Helpers : g # h => hpc'[g] = hpc[g]
        BY <1>1, <1>9, <2>1 DEF RecheckLog, Confirm, Goto
      <3>2. StageKnows(h)' /\ AcceptedAt(h)'
        BY <1>3, <3>1 DEF StageKnows, AcceptedAt, IInv, Control, AcceptedStopIsReal,
                          Running, Quiet, loggerVars, Alive, Idle
      <3>3. h = Launcher => GateWatches'
        BY <1>4, <3>1 DEF IInv, Control, GateWatches, loggerVars, Alive, Quiet
      <3>4. hrun'[h] <= run
        BY <3>1 DEF IInv, Control, NamesKnown
      <3> QED BY <1>3, <3>1, <3>2, <3>3, <3>4, OneHelperMoves
    <2> QED BY <1>2, <1>4, <1>9, <2>1, RefusalKeepsControl DEF RecheckLog, Idle
  <1> QED BY <1>5, <1>6, <1>7, <1>8, <1>9

\* The steps of a stop that write nothing keep the invariant (stop_logger).
LEMMA StopKeepsControl ==
    ASSUME IInv, NEW h \in Helpers,
           UNCHANGED <<loggerVars, pidfile, intent, up, cpc, cop, signals>>,
           ReadLog(h) \/ OpenHandle(h) \/ RefuseHandle(h) \/ SeeExit(h) \/ GiveUpWaiting(h)
    PROVE  Control'
  <1>1. /\ hpc \in [Helpers -> HelperPCs] /\ hrun \in [Helpers -> 0..MaxRuns]
        /\ run \in Nat
    BY RunsAssumption DEF IInv, TypeInv, TypeOK, LoggerTypeOK
  <1>2. hpc[h] \in {"read", "handle", "wait"}
    BY DEF ReadLog, OpenHandle, RefuseHandle, SeeExit, GiveUpWaiting
  <1>3. /\ lock = h /\ StageKnows(h) /\ hop[h] \notin AllServices
        /\ hrun[h] # 0 /\ hrun[h] <= run
    BY <1>2 DEF IInv, Control, LockHeld, StageKnows, NamesKnown, TypeInv, StopsSomeone,
                Stopping, Idle
  <1>4. h = Launcher => cpc \notin {"gated", "pgrep", "probe"}
    BY <1>2 DEF IInv, Control, GateWatches
  <1>5. ASSUME hpc[h] \in {"read", "handle"},
               hpc' = [hpc EXCEPT ![h] = "handle"] \/ hpc' = [hpc EXCEPT ![h] = "persist"]
                   \/ hpc' = [hpc EXCEPT ![h] = "wait"],
               hpc'[h] = "persist" => intent = None,
               hpc'[h] = "wait" => intent # None /\ intent.pid = hrun[h],
               UNCHANGED <<lock, hop, hlegacy, hrun, hintent>>
        PROVE  Control'
    <2>1. StageKnows(h)' /\ AcceptedAt(h)'
      BY <1>1, <1>3, <1>5 DEF StageKnows, AcceptedAt, Idle
    <2>2. h = Launcher => GateWatches'
      BY <1>4 DEF GateWatches
    <2> QED BY <1>1, <1>3, <1>5, <2>1, <2>2, OneHelperMoves
  <1>6. CASE ReadLog(h)
    BY <1>1, <1>5, <1>6 DEF ReadLog, Goto
  <1>7. CASE OpenHandle(h)
    BY <1>1, <1>5, <1>7 DEF OpenHandle, AdoptRequest, MakeRequest, Goto
  <1>8. CASE RefuseHandle(h) \/ GiveUpWaiting(h)
    BY <1>2, <1>4, <1>8, RefusalKeepsControl DEF RefuseHandle, GiveUpWaiting, Idle
  <1>9. CASE SeeExit(h)
    <2>1. CASE Confirm(h) /\ Verified(log, hoffset[h], hrun[h], hlegacy[h])
      <3>1. /\ hpc[h] = "wait" /\ hpc'[h] = "unpid" /\ lock' = lock /\ hop' = hop
            /\ hlegacy' = hlegacy /\ hrun' = hrun /\ hintent' = hintent
            /\ \A g \in Helpers : g # h => hpc'[g] = hpc[g]
            /\ ~Running(h)
        BY <1>1, <1>9, <2>1 DEF SeeExit, Confirm, Goto
      <3>2. ~hlegacy[h] => run = hrun[h] /\ Quiet(run)
        BY <2>1, EvidenceIsTrue DEF IInv
      <3>3. hrun[h] \in Runs
        BY <1>1, <1>3, RunsAssumption DEF Runs
      <3> QED BY <1>3, <1>4, <3>1, <3>2, <3>3, ConfirmedIsReal DEF Running, StageKnows, Idle
    <2> QED BY <1>2, <1>4, <1>9, <2>1, RefusalKeepsControl DEF SeeExit, Idle
  <1> QED BY <1>6, <1>7, <1>8, <1>9

\* Stopping services and the final check keep the invariant (stop_service,
\* verify_finished).
LEMMA ServicesKeepControl ==
    ASSUME IInv, NEW h \in Helpers,
           UNCHANGED <<loggerVars, pidfile, intent, cpc, cop, signals>>,
           \/ CheckRunning(h) \/ RefuseService(h) \/ ServicesStopped(h)
           \/ VerifyFinished(h) \/ \E s \in Services : StopService(h, s)
    PROVE  Control'
  <1>1. /\ hpc \in [Helpers -> HelperPCs] /\ hrun \in [Helpers -> 0..MaxRuns]
        /\ run \in Nat
    BY RunsAssumption DEF IInv, TypeInv, TypeOK, LoggerTypeOK
  <1>2. hpc[h] \in {"running", "services", "finish"}
    BY DEF CheckRunning, RefuseService, ServicesStopped, VerifyFinished, StopService
  <1>3. lock = h /\ StageKnows(h) /\ hrun[h] <= run /\ AcceptedAt(h)
    BY <1>2 DEF IInv, Control, LockHeld, NamesKnown, AcceptedStopIsReal, AcceptedAt, Idle
  <1>4. h = Launcher => /\ cpc \notin {"pgrep", "probe"}
                        /\ cpc = "gated" => hpc[h] = "running"
    BY <1>2 DEF IInv, Control, GateWatches
  <1>5. CASE Refuse(h)
    BY <1>2, <1>4, <1>5, RefusalKeepsControl DEF Idle
  <1>6. CASE CheckRunning(h) /\ ~Refuse(h)
    <2>1. hpc' = [hpc EXCEPT ![h] = "found"] /\ UNCHANGED <<hop, hlegacy, hrun, hintent>>
      BY <1>6 DEF CheckRunning, Finish, Goto
    <2>2. StageKnows(h)' /\ AcceptedAt(h)'
      BY <1>1, <2>1 DEF StageKnows, AcceptedAt, Idle
    <2>3. h = Launcher => GateWatches'
      BY <1>1, <1>4, <2>1 DEF IInv, Control, GateWatches, loggerVars
    <2> QED BY <1>1, <1>3, <2>1, <2>2, <2>3, OneHelperMoves DEF Idle
  <1>7. CASE ServicesStopped(h) \/ \E s \in Services : StopService(h, s)
    <2>1. /\ hpc[h] = "services"
          /\ hpc' = [hpc EXCEPT ![h] = "finish"] \/ hpc' = hpc
          /\ UNCHANGED <<lock, hop, hlegacy, hrun, hintent>>
      BY <1>7 DEF ServicesStopped, StopService, Goto
    <2>2. StageKnows(h)' /\ AcceptedAt(h)'
      BY <1>1, <1>3, <2>1 DEF StageKnows, AcceptedAt, Running, Quiet, loggerVars, Alive, Idle
    <2>3. h = Launcher => GateWatches'
      BY <1>4, <2>1 DEF GateWatches
    <2> QED BY <1>1, <1>3, <2>1, <2>2, <2>3, OneHelperMoves
  <1>8. CASE VerifyFinished(h) /\ ~Refuse(h)
    <2>1. /\ hpc[h] = "finish"
          /\ hpc' = [hpc EXCEPT ![h] = "ok"] /\ UNCHANGED <<hop, hlegacy, hrun, hintent>>
      BY <1>8 DEF VerifyFinished, Finish, Goto
    <2>2. StageKnows(h)' /\ AcceptedAt(h)'
      BY <1>1, <2>1 DEF StageKnows, AcceptedAt, Idle
    <2>3. h = Launcher => GateWatches'
      BY <1>4, <2>1 DEF GateWatches
    <2> QED BY <1>1, <1>3, <2>1, <2>2, <2>3, OneHelperMoves DEF Idle
  <1> QED BY <1>5, <1>6, <1>7, <1>8 DEF RefuseService

\* Writing and removing the request and the pid file, and sending the signal,
\* keep the invariant (stop_logger).
LEMMA RequestKeepsControl ==
    ASSUME IInv, NEW h \in Helpers,
           \/ /\ PersistIntent(h)
              /\ UNCHANGED <<loggerVars, pidfile, up, cpc, cop, signals>>
           \/ /\ SendSignal(h)
              /\ UNCHANGED <<pidfile, intent, up, cpc, cop>>
           \/ /\ RemovePidfile(h)
              /\ UNCHANGED <<loggerVars, intent, up, cpc, cop, signals>>
           \/ /\ RemoveIntent(h)
              /\ UNCHANGED <<loggerVars, pidfile, up, cpc, cop, signals>>
    PROVE  Control'
  <1>1. /\ hpc \in [Helpers -> HelperPCs] /\ hrun \in [Helpers -> 0..MaxRuns]
        /\ run \in Nat /\ signals \in Nat
    BY RunsAssumption DEF IInv, TypeInv, TypeOK, LoggerTypeOK
  <1>2. hpc[h] \in {"persist", "signal", "unpid", "unintent"}
    BY DEF PersistIntent, SendSignal, RemovePidfile, RemoveIntent
  <1>3. /\ lock = h /\ StageKnows(h) /\ hop[h] \notin AllServices /\ AcceptedAt(h)
        /\ hrun[h] <= run
    BY <1>2 DEF IInv, Control, LockHeld, StageKnows, NamesKnown, AcceptedStopIsReal,
                AcceptedAt, Idle
  <1>4. \A g \in Helpers : g # h => hpc[g] \in Idle
    BY <1>3, OthersIdle, NoneAssumption DEF IInv, Control
  <1>5. CASE /\ PersistIntent(h)
             /\ UNCHANGED <<loggerVars, pidfile, up, cpc, cop, signals>>
    <2>1. /\ hpc[h] = "persist" /\ hpc' = [hpc EXCEPT ![h] = "signal"]
          /\ intent' = [pid |-> hrun[h], offset |-> hoffset[h]]
          /\ UNCHANGED <<loggerVars, pidfile, signals, cpc, lock, hop, hlegacy, hrun, hintent>>
      BY <1>5 DEF PersistIntent, Goto
    <2>2. intent' # None /\ intent'.pid = hrun[h]
      <3>1. hrun[h] \in Runs
        BY <1>1, <2>1, RunsAssumption DEF IInv, TypeInv, StopsSomeone, Stopping, Runs
      <3>2. hoffset[h] \in Nat
        BY DEF IInv, TypeInv, TypeOK
      <3> QED BY <2>1, <3>1, <3>2, NoneAssumption
    <2>3. Running(h) => signals = 0
      BY <1>1, <1>3, <2>1 DEF StageKnows, IInv, Control, SignalIsOnRecord, Running
    <2>4. LockHeld' /\ \A g \in Helpers : StageKnows(g)'
      BY <1>1, <1>3, <1>4, <2>1, <2>2, <2>3
         DEF LockHeld, StageKnows, Running, loggerVars, Alive, Idle
    <2>5. AcceptedStopIsReal'
      BY <1>1, <1>4, <2>1 DEF AcceptedStopIsReal, Idle
    <2>6. NamesKnown'
      BY <1>3, <2>1, <2>2 DEF IInv, Control, NamesKnown, loggerVars
    <2>7. SignalIsOnRecord' /\ AtMostOneInterrupt'
      BY <1>1, <1>3, <2>1, <2>2
         DEF StageKnows, IInv, Control, SignalIsOnRecord, AtMostOneInterrupt, loggerVars, Alive
    <2>8. GateWatches'
      BY <1>1, <2>1 DEF IInv, Control, GateWatches, loggerVars, Alive, Quiet, Helpers
    <2> QED BY <2>4, <2>5, <2>6, <2>7, <2>8 DEF Control
  <1>6. CASE SendSignal(h) /\ UNCHANGED <<pidfile, intent, up, cpc, cop>>
    <2>1. /\ hpc[h] = "signal" /\ hpc' = [hpc EXCEPT ![h] = "wait"]
          /\ UNCHANGED <<intent, pidfile, cpc, lock, hop, hlegacy, hrun, hintent>>
          /\ run' = run /\ phase' = phase /\ owner' = owner
          /\ (Running(h) /\ signals' = signals + 1) \/ signals' = signals
      BY <1>6 DEF SendSignal, Goto, Deliver, loggerVars
    <2>2. /\ intent # None /\ intent.pid = hrun[h]
          /\ Running(h) => signals = 0
      BY <1>3, <2>1 DEF StageKnows
    <2>3. LockHeld' /\ \A g \in Helpers : StageKnows(g)'
      BY <1>1, <1>3, <1>4, <2>1, <2>2 DEF LockHeld, StageKnows, Running, Alive, Idle
    <2>4. AcceptedStopIsReal'
      BY <1>1, <1>4, <2>1 DEF AcceptedStopIsReal, Idle
    <2>5. NamesKnown'
      BY <2>1 DEF IInv, Control, NamesKnown
    <2>6. SignalIsOnRecord' /\ AtMostOneInterrupt'
      BY <1>1, <2>1, <2>2
         DEF IInv, Control, SignalIsOnRecord, AtMostOneInterrupt, Running, Alive
    <2>7. GateWatches'
      BY <1>1, <2>1 DEF IInv, Control, GateWatches, Alive, Quiet, Helpers
    <2> QED BY <2>3, <2>4, <2>5, <2>6, <2>7 DEF Control
  <1>7. CASE RemovePidfile(h) /\ UNCHANGED <<loggerVars, intent, up, cpc, cop, signals>>
    <2>1. /\ hpc[h] = "unpid" /\ hpc' = [hpc EXCEPT ![h] = "unintent"]
          /\ pidfile' \in {pidfile, None}
          /\ UNCHANGED <<loggerVars, intent, cpc, signals, lock, hop, hlegacy, hrun, hintent>>
      BY <1>7 DEF RemovePidfile, Goto
    <2>2. LockHeld' /\ \A g \in Helpers : StageKnows(g)'
      BY <1>1, <1>3, <1>4, <2>1 DEF LockHeld, StageKnows, Running, loggerVars, Alive, Idle
    <2>3. AcceptedStopIsReal'
      BY <1>1, <1>3, <1>4, <2>1
         DEF AcceptedStopIsReal, AcceptedAt, Running, Quiet, loggerVars, Alive, Idle
    <2>4. NamesKnown'
      BY <2>1 DEF IInv, Control, NamesKnown, loggerVars
    <2>5. SignalIsOnRecord' /\ AtMostOneInterrupt'
      BY <2>1 DEF IInv, Control, SignalIsOnRecord, AtMostOneInterrupt, loggerVars, Alive
    <2>6. GateWatches'
      BY <1>1, <2>1 DEF IInv, Control, GateWatches, loggerVars, Alive, Quiet, Helpers
    <2> QED BY <2>2, <2>3, <2>4, <2>5, <2>6 DEF Control
  <1>8. CASE RemoveIntent(h) /\ UNCHANGED <<loggerVars, pidfile, up, cpc, cop, signals>>
    <2>1. /\ hpc[h] = "unintent" /\ intent' = None
          /\ \/ hpc' = [hpc EXCEPT ![h] = "ok"] /\ hop[h] = "check"
             \/ hpc' = [hpc EXCEPT ![h] = "finish"] /\ lock' = lock /\ hop[h] # "check"
             \/ hpc' = [hpc EXCEPT ![h] = "services"] /\ lock' = lock /\ hop[h] # "check"
          /\ UNCHANGED <<loggerVars, pidfile, cpc, signals, hop, hlegacy, hrun, hintent>>
      BY <1>8 DEF RemoveIntent, AfterLogger, Finish, Goto
    <2>2. ~Running(h) /\ (intent # None => intent.pid = hrun[h])
      BY <1>3, <2>1 DEF StageKnows
    <2>3. LockHeld' /\ \A g \in Helpers : StageKnows(g)'
      BY <1>1, <1>3, <1>4, <2>1 DEF LockHeld, StageKnows, Running, loggerVars, Alive, Idle
    <2>4. AcceptedStopIsReal'
      BY <1>1, <1>3, <1>4, <2>1
         DEF AcceptedStopIsReal, AcceptedAt, Running, Quiet, loggerVars, Alive, Idle
    <2>5. NamesKnown'
      BY <2>1 DEF IInv, Control, NamesKnown, loggerVars
    <2>6. SignalIsOnRecord' /\ AtMostOneInterrupt'
      BY <1>1, <2>1, <2>2
         DEF IInv, Control, SignalIsOnRecord, AtMostOneInterrupt, Running, loggerVars, Alive
    <2>7. GateWatches'
      BY <1>1, <2>1 DEF IInv, Control, GateWatches, loggerVars, Alive, Quiet, Helpers
    <2> QED BY <2>3, <2>4, <2>5, <2>6, <2>7 DEF Control
  <1> QED BY <1>5, <1>6, <1>7, <1>8

\* Every step of a helper keeps the invariant.
LEMMA HelperKeepsControl ==
    ASSUME IInv, NEW h \in Helpers, HelperStep(h)
    PROVE  Control'
  BY EvidenceKeepsControl, StopKeepsControl, ServicesKeepControl, RequestKeepsControl
     DEF HelperStep, HelperLocal

\* A helper that is let in finds the others idle, and knows only its snapshot.
LEMMA InvokeKeepsControl ==
    ASSUME IInv, NEW h \in Helpers, NEW op \in Ops, NEW legacy \in BOOLEAN,
           Invoke(h, op, legacy), UNCHANGED <<loggerVars, pidfile, intent, signals>>,
           \/ h = Launcher /\ cpc' \notin {"gated", "pgrep", "probe"}
           \/ h = Launcher /\ op = "check" /\ ~legacy /\ cpc' = "gated"
           \/ h # Launcher /\ cpc' = cpc
    PROVE  Control'
  <1>1. /\ hpc \in [Helpers -> HelperPCs] /\ hrun \in [Helpers -> 0..MaxRuns]
        /\ run \in Nat
    BY RunsAssumption DEF IInv, TypeInv, TypeOK, LoggerTypeOK
  <1>2. /\ lock = None /\ lock' = h
        /\ hpc' = [hpc EXCEPT ![h] = FirstStep(op)]
        /\ hrun' = [hrun EXCEPT ![h] = IF Alive THEN run ELSE 0]
        /\ hop'[h] = op /\ hlegacy'[h] = legacy
        /\ \A g \in Helpers : g # h => hop'[g] = hop[g] /\ hlegacy'[g] = hlegacy[g]
    BY DEF Invoke, Goto, IInv, TypeInv, TypeOK
  <1>3. \A g \in Helpers : g # h => hpc[g] \in Idle /\ hpc'[g] \in Idle
    BY <1>1, <1>2, OthersIdle, NoneAssumption DEF IInv, Control
  <1>4. /\ FirstStep(op) \in {"services", "evidence", "running", "read"}
        /\ FirstStep(op) = "services" <=> op \in AllServices
        /\ FirstStep(op) = "evidence" => ~Alive
        /\ op = "check" => FirstStep(op) \in {"evidence", "running"}
    BY DEF FirstStep, Ops, AllServices
  <1>5. LockHeld'
    BY <1>2, <1>3 DEF LockHeld
  <1>6. NamesKnown'
    BY <1>1, <1>2 DEF IInv, Control, NamesKnown, loggerVars
  <1>7. \A g \in Helpers : StageKnows(g)'
    BY <1>1, <1>2, <1>3, <1>4 DEF StageKnows, Idle
  <1>8. AcceptedStopIsReal'
    BY <1>1, <1>2, <1>3, <1>4 DEF AcceptedStopIsReal, Idle
  <1>9. SignalIsOnRecord' /\ AtMostOneInterrupt'
    BY DEF IInv, Control, SignalIsOnRecord, AtMostOneInterrupt, loggerVars, Alive
  <1>10. GateWatches'
    <2>1. CASE h # Launcher
      BY <1>1, <1>2, <2>1 DEF IInv, Control, GateWatches, loggerVars, Alive, Quiet, Helpers
    <2>2. CASE h = Launcher /\ cpc' = "gated"
      BY <1>1, <1>2, <1>4, <2>2 DEF GateWatches, loggerVars, Alive
    <2>3. CASE h = Launcher /\ cpc' \notin {"gated", "pgrep", "probe"}
      BY <2>3 DEF GateWatches
    <2> QED BY <2>1, <2>2, <2>3
  <1> QED BY <1>5, <1>6, <1>7, <1>8, <1>9, <1>10 DEF Control

-----------------------------------------------------------------------------
(***************************************************************************)
(* The steps of the logger, the launcher and the rest of the world.        *)
(***************************************************************************)
\* Once it is launched, a logger can only make boards of its own run stream,
\* and only while it lives.
LEMMA LoggerEffect ==
    ASSUME LoggerInv, LoggerStep \/ Crash \/ Deliver
    PROVE  /\ run' = run
           /\ Alive' => Alive
           /\ \A b \in Boards : owner'[b] \in {owner[b], 0, run}
           /\ ~Alive => owner' = owner
  BY DEF LoggerInv, LoggerTypeOK, LoggerStep, Crash, Deliver, BootFails, InstallHandlers,
         OpenFails, OpenSucceeds, PrepareFails, PrepareSucceeds, BeginStart, StartSucceeds,
         StartFails, StartDone, LoggingEnds, StopAcknowledged, StopFails, StopsDone,
         ReportStopped, CloseEngine, WriteReceipt, Exit, EnterCleanup, Gone, Alive

\* Every step of the logger, its crash included, keeps the invariant.
LEMMA LoggerKeepsControl ==
    ASSUME IInv, LoggerStep \/ Crash \/ Deliver,
           UNCHANGED <<pidfile, intent, helperVars, cpc, signals>>
    PROVE  Control'
  <1>1. /\ run' = run
        /\ Alive' => Alive
        /\ \A b \in Boards : owner'[b] \in {owner[b], 0, run}
        /\ ~Alive => owner' = owner
    BY LoggerEffect DEF IInv
  <1>2. ASSUME NEW r, Quiet(r), ~(r = run /\ Alive) PROVE Quiet(r)'
    BY <1>1, <1>2 DEF Quiet
  <1>3. LockHeld' /\ NamesKnown'
    BY <1>1 DEF IInv, Control, LockHeld, NamesKnown, helperVars
  <1>4. \A h \in Helpers : StageKnows(h)'
    BY <1>1 DEF IInv, Control, StageKnows, Running, helperVars
  <1>5. SignalIsOnRecord' /\ AtMostOneInterrupt'
    BY <1>1 DEF IInv, Control, SignalIsOnRecord, AtMostOneInterrupt
  <1>6. AcceptedStopIsReal'
    BY <1>1, <1>2 DEF IInv, Control, AcceptedStopIsReal, Running, helperVars
  <1>7. GateWatches'
    BY <1>1, <1>2 DEF IInv, Control, GateWatches, helperVars
  <1> QED BY <1>3, <1>4, <1>5, <1>6, <1>7 DEF Control

\* A new logger is no one anybody has heard of.
LEMMA LaunchKeepsControl == ASSUME IInv, LaunchLogger PROVE Control'
  <1>1. /\ cpc = "probe" /\ cpc' = "writepid"
        /\ run' = run + 1 /\ ~Alive /\ owner' = owner /\ signals' = 0
        /\ UNCHANGED <<pidfile, intent, helperVars>>
    BY DEF LaunchLogger, Launch, Become, Alive
  <1>2. /\ run \in Nat
        /\ pidfile # None => pidfile \in Int
        /\ intent # None => intent.pid \in Int
        /\ \A h \in Helpers : hrun[h] \in Int
    BY RunsAssumption
       DEF IInv, TypeInv, TypeOK, LoggerTypeOK, Intents, Runs
  <1>3. LockHeld'
    BY <1>1 DEF IInv, Control, LockHeld, helperVars
  <1>4. NamesKnown'
    BY <1>1, <1>2 DEF IInv, Control, NamesKnown, helperVars
  <1>5. \A h \in Helpers : hrun[h] # run'
    BY <1>1, <1>2 DEF IInv, Control, NamesKnown
  <1>6. \A h \in Helpers : StageKnows(h)'
    BY <1>1, <1>5 DEF IInv, Control, StageKnows, Running, helperVars
  <1>7. SignalIsOnRecord' /\ AtMostOneInterrupt'
    BY <1>1 DEF SignalIsOnRecord, AtMostOneInterrupt
  <1>8. AcceptedStopIsReal'
    BY <1>1, <1>5 DEF IInv, Control, AcceptedStopIsReal, Running, Quiet, helperVars
  <1>9. GateWatches'
    BY <1>1 DEF GateWatches
  <1> QED BY <1>3, <1>4, <1>6, <1>7, <1>8, <1>9 DEF Control

\* Steps that change only where the launcher is, the services, or lose the pid
\* file.
LEMMA QuietStepKeepsControl ==
    ASSUME IInv,
           UNCHANGED <<loggerVars, intent, helperVars, signals>>,
           pidfile' \in {pidfile, None} \/ pidfile' = run,
           cpc' \in {"gated", "pgrep", "probe"} =>
               \/ cpc' = cpc
               \/ cpc \in {"gated", "pgrep"} /\ cpc' \in {"pgrep", "probe"}
                     /\ hpc[Launcher] \in {"ok", "found"}
    PROVE  Control'
  <1>1. run \in Nat
    BY RunsAssumption DEF IInv, TypeInv, TypeOK, LoggerTypeOK
  <1>2. LockHeld' /\ NamesKnown'
    BY <1>1 DEF IInv, Control, LockHeld, NamesKnown, helperVars, loggerVars
  <1>3. \A h \in Helpers : StageKnows(h)'
    BY DEF IInv, Control, StageKnows, Running, helperVars, loggerVars, Alive
  <1>4. SignalIsOnRecord' /\ AtMostOneInterrupt'
    BY DEF IInv, Control, SignalIsOnRecord, AtMostOneInterrupt, loggerVars, Alive
  <1>5. AcceptedStopIsReal'
    BY DEF IInv, Control, AcceptedStopIsReal, Running, Quiet, helperVars, loggerVars, Alive
  <1>6. GateWatches'
    BY DEF IInv, Control, GateWatches, Quiet, helperVars, loggerVars, Alive
  <1> QED BY <1>2, <1>3, <1>4, <1>5, <1>6 DEF Control

\* Every step of the launcher keeps the invariant (vibroagent.sh).
LEMMA LauncherKeepsControl == ASSUME IInv, LauncherStep PROVE Control'
  <1>1. CASE StartGeniex \/ StartWebchat \/ ProbeFails \/ WritePid \/ AwaitDone
    BY <1>1, QuietStepKeepsControl
       DEF StartGeniex, StartWebchat, ProbeFails, WritePid, AwaitDone, Become, helperVars
  <1>2. CASE GateResult \/ Pgrep \/ StopResult
    <2>1. CASE GateResult
      BY <2>1, QuietStepKeepsControl DEF GateResult, Become, Idle
    <2>2. CASE Pgrep
      BY <2>2, QuietStepKeepsControl DEF Pgrep, Become, IInv, Control, GateWatches
    <2>3. CASE StopResult
      BY <2>3, QuietStepKeepsControl DEF StopResult, Become
    <2> QED BY <1>2, <2>1, <2>2, <2>3
  <1>3. CASE CallGate
    <2>1. CASE Invoke(Launcher, "check", FALSE) /\ Become("gated")
      BY <1>3, <2>1, InvokeKeepsControl DEF CallGate, Become, Helpers, Ops
    <2>2. CASE Become("idle") /\ UNCHANGED helperVars
      BY <1>3, <2>2, QuietStepKeepsControl DEF CallGate, Become
    <2> QED BY <1>3, <2>1, <2>2 DEF CallGate
  <1>4. CASE CallStop
    <2>1. ASSUME NEW legacy \in BOOLEAN, Invoke(Launcher, StopTarget, legacy), Become("stopping")
          PROVE  Control'
      <3>1. StopTarget \in Ops
        BY DEF StopTarget, IInv, TypeInv, TypeOK, AllCommands, Ops, AllServices
      <3> QED BY <1>4, <2>1, <3>1, InvokeKeepsControl DEF CallStop, Become, Helpers
    <2>2. CASE Become("idle") /\ UNCHANGED helperVars
      BY <1>4, <2>2, QuietStepKeepsControl DEF CallStop, Become
    <2> QED BY <1>4, <2>1, <2>2 DEF CallStop
  <1>5. CASE LaunchLogger
    BY <1>5, LaunchKeepsControl
  <1> QED BY <1>1, <1>2, <1>3, <1>4, <1>5 DEF LauncherStep

-----------------------------------------------------------------------------
(***************************************************************************)
(* The invariant, and what follows from it.                                *)
(***************************************************************************)
\* The inductive invariant holds initially.
LEMMA IInvHolds == ASSUME Init PROVE IInv
  <1>1. TypeInv /\ LoggerInv
    BY TypeInvHolds, LoggerInvHolds DEF Init
  <1>2. run = 0 /\ signals = 0 /\ Launcher \in Helpers
    BY DEF Init, LoggerInit, Helpers
  <1>3. Control
    BY <1>2 DEF Init, Control, LockHeld, NamesKnown, StageKnows, SignalIsOnRecord,
                AtMostOneInterrupt, AcceptedStopIsReal, GateWatches, Idle
  <1> QED BY <1>1, <1>3 DEF IInv

\* Every step of the system keeps the inductive invariant.
LEMMA IInvKept == ASSUME IInv, [Next]_vars PROVE IInv'
  <1>1. TypeInv'
    BY TypeInvKept DEF IInv
  <1>2. LoggerInv'
    <2>1. CASE UNCHANGED loggerVars
      BY <2>1 DEF IInv, loggerVars, LoggerInv, LoggerTypeOK, RunOfLogger, OwnersKnown,
                  OwnersBegun, NothingStopped, ReceiptsSound, Receipt, EmptyLogIsQuiet,
                  Quiet, Alive
    <2> QED BY <2>1, LoggerKeepsInv, NextMovesLogger DEF IInv
  <1>3. Control'
    <2>1. CASE LoggerRuns \/ ExternalSignal
      BY <2>1, LoggerKeepsControl DEF LoggerRuns, ExternalSignal
    <2>2. ASSUME NEW h \in Helpers, HelperStep(h) PROVE Control'
      BY <2>2, HelperKeepsControl
    <2>3. ASSUME NEW h \in Helpers, Interrupt(h),
                 UNCHANGED <<loggerVars, pidfile, intent, up, cpc, cop, signals>>
          PROVE  Control'
      BY <2>3, RefusalKeepsControl, GateIsOver DEF Interrupt
    <2>4. ASSUME NEW h \in DirectHelpers, InvokeDirectly(h) PROVE Control'
      BY <2>4, InvokeKeepsControl, HelpersAssumption DEF InvokeDirectly, Helpers, Ops
    <2>5. CASE LauncherStep
      BY <2>5, LauncherKeepsControl
    <2>6. ASSUME NEW command \in Commands, Begin(command) PROVE Control'
      BY <2>6, QuietStepKeepsControl DEF Begin
    <2>7. CASE LauncherKilled \/ LosePidfile \/ ServiceExits
      BY <2>7, QuietStepKeepsControl DEF LauncherKilled, Become, LosePidfile, ServiceExits
    <2>8. CASE UNCHANGED vars
      BY <2>8, QuietStepKeepsControl DEF vars
    <2> QED BY <2>1, <2>2, <2>3, <2>4, <2>5, <2>6, <2>7, <2>8 DEF Next
  <1> QED BY <1>1, <1>2, <1>3 DEF IInv

\* The inductive invariant is an invariant of the system: who holds which board,
\* what the log and the request on disk then say, and what each helper knows.
THEOREM Invariance == Spec => []IInv
  BY IInvHolds, IInvKept, PTL DEF Spec

\* A stop that a helper accepted without --allow-legacy is real, whatever was
\* interrupted, crashed or failed (stop_logger, resolve_exited_logger).
THEOREM StopsAreReal == Spec => []AcceptedStopIsReal
  <1>1. IInv => AcceptedStopIsReal
    BY DEF IInv, Control
  <1> QED BY <1>1, Invariance, PTL

\* No logger ever gets a second SIGINT (stop_logger).
THEOREM OneInterrupt == Spec => []AtMostOneInterrupt
  <1>1. IInv => AtMostOneInterrupt
    BY DEF IInv, Control
  <1> QED BY <1>1, Invariance, PTL

\* A SIGINT that was sent is on record until its logger has gone (stop_logger).
THEOREM SignalsAreRecorded == Spec => []SignalIsOnRecord
  <1>1. IInv => SignalIsOnRecord
    BY DEF IInv, Control
  <1> QED BY <1>1, Invariance, PTL

\* The gate lets a new logger probe the boards only when they are idle, if it
\* found no logger running (check_logger_start, start_logger).
THEOREM GateIsSafe == Spec => []GateFindsBoardsIdle
  <1>1. IInv => GateFindsBoardsIdle
    BY DEF IInv, Control, GateWatches, GateFindsBoardsIdle
  <1> QED BY <1>1, Invariance, PTL

\* Only a confirmed stop removes or replaces the request on disk (stop_logger,
\* resolve_exited_logger).
THEOREM RequestsOutliveFailures == Spec => RequestOutlivesFailure
  <1> DEFINE Kept == (intent # None /\ intent' # intent)
                     => \/ Quiet(intent.pid) /\ ~(run = intent.pid /\ Alive)
                        \/ \E h \in Helpers : hpc[h] = "unintent" /\ hlegacy[h]
  <1>1. ASSUME IInv, [Next]_vars PROVE [Kept]_vars
    <2>1. SUFFICES ASSUME intent # None, intent' # intent
                   PROVE  \/ Quiet(intent.pid) /\ ~(run = intent.pid /\ Alive)
                          \/ \E h \in Helpers : hpc[h] = "unintent" /\ hlegacy[h]
      OBVIOUS
    <2>2. PICK h \in Helpers : PersistIntent(h) \/ RemoveIntent(h)
      BY <1>1, <2>1
         DEF Next, vars, HelperStep, HelperLocal, LauncherStep, StartGeniex, StartWebchat,
             CallGate, GateResult, Pgrep, ProbeFails, LaunchLogger, WritePid, AwaitDone,
             CallStop, StopResult, LoggerRuns, InvokeDirectly, Begin, LauncherKilled,
             ExternalSignal, LosePidfile, ServiceExits
    <2>3. hpc[h] # "persist"
      BY <1>1, <2>1 DEF IInv, Control, StageKnows
    <2>4. hpc[h] = "unintent"
      BY <2>2, <2>3 DEF PersistIntent, RemoveIntent
    <2>5. intent.pid = hrun[h] /\ hrun[h] # 0 /\ hop[h] \notin AllServices
      BY <1>1, <2>1, <2>4 DEF IInv, Control, StageKnows, Idle
    <2>6. ~hlegacy[h] => Quiet(hrun[h]) /\ ~Running(h)
      BY <1>1, <2>4, <2>5 DEF IInv, Control, AcceptedStopIsReal
    <2> QED BY <2>4, <2>5, <2>6 DEF Running
  <1> QED BY <1>1, Invariance, PTL DEF Spec, RequestOutlivesFailure

\* In a stop of everything, services go down only after the boards (run).
THEOREM ServicesAreLast == Spec => ServicesGoLast
  <1> DEFINE Last == \A h \in Helpers, s \in Services :
                        (StopService(h, s) /\ hop[h] = "all" /\ ~hlegacy[h])
                        => Quiet(hrun[h]) /\ intent = None
  <1>1. ASSUME IInv PROVE Last
    <2>1. ASSUME NEW h \in Helpers, NEW s \in Services,
                 StopService(h, s), hop[h] = "all", ~hlegacy[h]
          PROVE  Quiet(hrun[h]) /\ intent = None
      <3>1. hpc[h] = "services" /\ hop[h] \notin AllServices
        BY <2>1 DEF StopService, AllServices
      <3>2. intent = None
        BY <1>1, <3>1 DEF IInv, Control, StageKnows
      <3>3. Quiet(hrun[h])
        BY <1>1, <2>1, <3>1 DEF IInv, Control, AcceptedStopIsReal, Quiet
      <3> QED BY <3>2, <3>3
    <2> QED BY <2>1
  <1> QED BY <1>1, Invariance, PTL DEF Spec, ServicesGoLast
-----------------------------------------------------------------------------
(***************************************************************************)
(* What the evidence behind a stop shows: to the next start, when there is *)
(* a receipt, and of the boards reported as started, when there is none.   *)
(***************************************************************************)
Judged == {"recheck", "unpid", "unintent", "services", "finish"}

\* Only stops of the logger accept a legacy report.
LegacyOps == \A h \in Helpers : hlegacy[h] => hop[h] \notin AllServices

\* LegacyStopCoversStarted, for one helper, with the end of the process it is of.
LegacyAt(h) ==
    (hpc[h] \in Judged /\ hlegacy[h] /\ hrun[h] # 0)
    => ~Running(h) /\ \A b \in StartedIn(log, 0) : owner[b] # hrun[h]

\* A confirmed stop of the last logger, until the helper's next command.
Cleared(h) ==
    /\ hpc[h] \in Judged \cup {"ok"}
    /\ hop[h] \notin AllServices
    /\ ~hlegacy[h]
    /\ hrun[h] = run
    /\ run # 0

\* Its log as a whole stands the test that the part after the request stood.
CleanAt(h) == Cleared(h) => ~Alive /\ Verified(log, 0, run, FALSE)

\* No helper that was let in since is about to make a request.
SettledAt(h) ==
    (Cleared(h) /\ hpc[h] = "ok")
    => intent = None /\ \A g \in Helpers : hpc[g] \notin Stopping

EvidenceInv ==
    /\ LegacyOps
    /\ \A h \in Helpers : LegacyAt(h) /\ CleanAt(h) /\ SettledAt(h)

\* The whole log of the last logger passes when a part of it does: it has one
\* receipt, the last of its reports, and an error in it for each failure before
\* (verify_shutdown, shutdown_receipts).
LEMMA WholeLogPasses ==
    ASSUME LoggerInv, LogTells, NEW offset \in Nat, NEW p, Verified(log, offset, p, FALSE)
    PROVE  p = run /\ Verified(log, 0, run, FALSE)
  <1>1. p = run
    <2>1. PICK i \in At(log, offset, "receipt") : Complete(log[i], p, StartedIn(log, 0))
      BY DEF Verified
    <2>2. Receipt(i) /\ log[i].pid = p /\ log[i].began = log[i].stopped
      BY <2>1 DEF At, Receipt, Complete
    <2> QED BY <2>2 DEF LoggerInv, ReceiptsSound, Receipt
  <1>2. PICK i \in At(log, offset, "receipt") : Complete(log[i], run, StartedIn(log, 0))
    BY <1>1 DEF Verified
  <1>3. i \in At(log, 0, "receipt") /\ LineOf(i, "receipt") /\ i > offset
    <2>1. DOMAIN log \subseteq Nat \ {0}
      BY DEF LoggerInv, LoggerTypeOK
    <2> QED BY <1>2, <2>1 DEF At, LineOf
  <1>4. Unambiguous(log, 0)
    BY DEF LogTells, ReceiptCloses, LineOf, Unambiguous, At
  <1>5. ~BadIn(log, 0)
    <2>1. SUFFICES ASSUME NEW j \in DOMAIN log, log[j].kind = "bad" PROVE FALSE
      BY DEF BadIn, At
    <2>2. ~(j > offset)
      BY <2>1 DEF Verified, BadIn, At
    <2>3. j \in Nat /\ i \in Nat
      BY <1>3 DEF LoggerInv, LoggerTypeOK, LineOf
    <2>4. j < i
      BY <1>3, <2>2, <2>3
    <2>5. log[i].errors
      BY <1>3, <2>1, <2>4 DEF LogTells, FailuresReported, LineOf
    <2> QED BY <1>2, <2>5 DEF Complete
  <1> QED BY <1>1, <1>2, <1>3, <1>4, <1>5 DEF Verified

\* A stop accepted for want of a receipt has the boards reported as started
\* reported as stopped, and they are (verify_shutdown).
LEMMA StartedAreIdle ==
    ASSUME LoggerInv, LogTells, NEW offset \in Nat, NEW p \in Runs, NEW legacy,
           Verified(log, offset, p, legacy), NEW b \in StartedIn(log, 0)
    PROVE  owner[b] # p
  <1>1. PICK i \in DOMAIN log : LineOf(i, "started") /\ b = log[i].board
    BY DEF StartedIn, At, LineOf
  <1>2. b \in Boards /\ owner[b] \in {0, run}
    BY <1>1, LinesNameBoards DEF LogTells, StartedOwned, LoggerInv
  <1>3. p # 0
    BY DEF Runs
  <1>4. CASE At(log, offset, "receipt") = {}
    <2>1. b \in StoppedIn(log, offset)
      BY <1>4 DEF Verified
    <2>2. PICK j \in DOMAIN log : LineOf(j, "stopped") /\ b = log[j].board
      BY <2>1 DEF StoppedIn, At, LineOf
    <2>3. owner[b] # run
      BY <2>2 DEF LogTells, StoppedIdle
    <2> QED BY <1>2, <1>3, <2>3
  <1>5. CASE At(log, offset, "receipt") # {}
    <2>1. Verified(log, offset, p, FALSE)
      BY <1>5 DEF Verified
    <2>2. p = run /\ Quiet(run)
      BY <2>1, EvidenceIsTrue
    <2> QED BY <1>2, <1>3, <2>2 DEF Quiet
  <1> QED BY <1>4, <1>5

\* A log that does not change stands the test it stood.
LEMMA SameLogVerifies ==
    ASSUME log' = log, run' = run
    PROVE  Verified(log, 0, run, FALSE)' <=> Verified(log, 0, run, FALSE)
  BY DEF Verified, Unambiguous, BadIn, StartedIn, StoppedIn, At

\* A step of the logger keeps what is known of a logger that has gone.
LEMMA LoggerKeepsEvidence ==
    ASSUME IInv, LogTells, LogTells', EvidenceInv, LoggerStep \/ Crash \/ Deliver,
           UNCHANGED <<intent, helperVars>>
    PROVE  EvidenceInv'
  <1>1. /\ run' = run
        /\ Alive' => Alive
        /\ ~Alive => owner' = owner
    BY LoggerEffect DEF IInv
  <1>2. ~Alive => log' = log
    BY DEF LoggerStep, Crash, Deliver, BootFails, InstallHandlers, OpenFails, OpenSucceeds,
           PrepareFails, PrepareSucceeds, BeginStart, StartSucceeds, StartFails, StartDone,
           LoggingEnds, StopAcknowledged, StopFails, StopsDone, ReportStopped, CloseEngine,
           WriteReceipt, Exit, Alive
  <1>3. LegacyOps'
    BY DEF EvidenceInv, LegacyOps, helperVars
  <1>4. ASSUME NEW h \in Helpers PROVE LegacyAt(h)'
    <2>1. SUFFICES ASSUME hpc[h] \in Judged, hlegacy[h], hrun[h] # 0
                   PROVE  ~Running(h)' /\ \A b \in StartedIn(log, 0)' : owner'[b] # hrun[h]
      BY DEF LegacyAt, helperVars
    <2>2. ~Running(h) /\ \A b \in StartedIn(log, 0) : owner[b] # hrun[h]
      BY <2>1 DEF EvidenceInv, LegacyAt
    <2>3. CASE run = hrun[h]
      BY <1>1, <1>2, <2>2, <2>3 DEF Running, helperVars, StartedIn, At
    <2>4. CASE run # hrun[h]
      <3>1. ASSUME NEW b \in StartedIn(log, 0)' PROVE owner'[b] \in {0, run}
        BY <1>1, <3>1 DEF StartedIn, At, LogTells, StartedOwned, LineOf
      <3> QED BY <1>1, <2>1, <2>4, <3>1 DEF Running, helperVars
    <2> QED BY <2>3, <2>4
  <1>5. ASSUME NEW h \in Helpers PROVE CleanAt(h)'
    BY <1>1, <1>2, SameLogVerifies DEF EvidenceInv, CleanAt, Cleared, helperVars
  <1>6. ASSUME NEW h \in Helpers PROVE SettledAt(h)'
    BY <1>1 DEF EvidenceInv, SettledAt, Cleared, helperVars
  <1> QED BY <1>3, <1>4, <1>5, <1>6 DEF EvidenceInv

\* A launch begins a log of its own: what helpers know is of other loggers.
LEMMA LaunchKeepsEvidence ==
    ASSUME IInv, EvidenceInv, LaunchLogger
    PROVE  EvidenceInv'
  <1>1. run' = run + 1 /\ log' = <<>> /\ UNCHANGED <<intent, helperVars>>
    BY DEF LaunchLogger, Launch
  <1>2. \A h \in Helpers : hrun[h] # run'
    BY <1>1, RunsAssumption DEF IInv, TypeInv, TypeOK, LoggerTypeOK, Control, NamesKnown
  <1>3. StartedIn(log, 0)' = {}
    BY <1>1 DEF StartedIn, At
  <1> QED BY <1>1, <1>2, <1>3
          DEF EvidenceInv, LegacyOps, LegacyAt, CleanAt, SettledAt, Cleared, Running,
              helperVars

\* A step of one helper keeps what is known when it does so for that helper:
\* the others are idle, and one of them that confirmed a stop sees no request
\* made behind it.
LEMMA OneHelperKeepsEvidence ==
    ASSUME IInv, EvidenceInv, NEW h \in Helpers, lock \in {h, None},
           run' = run, phase' = phase, owner' = owner, log' = log,
           \A g \in Helpers : g # h => /\ hpc'[g] = hpc[g] /\ hop'[g] = hop[g]
                                        /\ hlegacy'[g] = hlegacy[g] /\ hrun'[g] = hrun[g],
           hlegacy'[h] => hop'[h] \notin AllServices,
           LegacyAt(h)', CleanAt(h)',
           Cleared(h)' /\ hpc'[h] = "ok" => intent' = None,
           hpc'[h] \in Stopping => hpc[h] \in Stopping \/ Alive,
           intent' \in {intent, None} \/ hpc[h] \in Stopping
    PROVE  EvidenceInv'
  <1>1. \A g \in Helpers : g # h => hpc[g] \in Idle
    BY OthersIdle, NoneAssumption DEF IInv, Control
  <1>2. LegacyOps'
    BY DEF EvidenceInv, LegacyOps
  <1>3. ASSUME NEW g \in Helpers, g # h
        PROVE  LegacyAt(g)' /\ CleanAt(g)' /\ SettledAt(g)'
    <2>1. LegacyAt(g) /\ CleanAt(g) /\ SettledAt(g)
      BY DEF EvidenceInv
    <2>2. LegacyAt(g)'
      BY <1>1, <1>3 DEF LegacyAt, Judged, Idle
    <2>3. Cleared(g)' <=> Cleared(g)
      BY <1>3 DEF Cleared
    <2>4. CleanAt(g)'
      BY <2>1, <2>3, SameLogVerifies DEF CleanAt, Alive
    <2>5. SettledAt(g)'
      <3>1. SUFFICES ASSUME Cleared(g), hpc[g] = "ok"
                     PROVE  intent' = None /\ \A k \in Helpers : hpc'[k] \notin Stopping
        BY <1>3, <2>3 DEF SettledAt
      <3>2. intent = None /\ \A k \in Helpers : hpc[k] \notin Stopping
        BY <2>1, <3>1 DEF SettledAt
      <3>3. ~Alive
        BY <2>1, <3>1 DEF CleanAt
      <3> QED BY <3>2, <3>3
    <2> QED BY <2>2, <2>4, <2>5
  <1>4. SettledAt(h)'
    BY <1>1 DEF SettledAt, Stopping, Idle
  <1> QED BY <1>2, <1>3, <1>4 DEF EvidenceInv

\* A helper that has been refused knows nothing (UnsafeStop in run).
LEMMA RefusalKeepsEvidence ==
    ASSUME IInv, EvidenceInv, NEW h \in Helpers, hpc[h] \notin Idle, Refuse(h),
           UNCHANGED <<loggerVars, intent>>
    PROVE  EvidenceInv'
  <1>1. /\ hpc'[h] = "idle" /\ ~hlegacy'[h]
        /\ \A g \in Helpers : g # h => /\ hpc'[g] = hpc[g] /\ hop'[g] = hop[g]
                                         /\ hlegacy'[g] = hlegacy[g] /\ hrun'[g] = hrun[g]
    BY DEF Refuse, Finish, Goto, IInv, TypeInv, TypeOK
  <1>2. lock = h
    BY DEF IInv, Control, LockHeld
  <1>3. LegacyAt(h)' /\ CleanAt(h)' /\ ~Cleared(h)'
    BY <1>1 DEF LegacyAt, CleanAt, Cleared, Judged
  <1> QED BY <1>1, <1>2, <1>3, OneHelperKeepsEvidence DEF Stopping, loggerVars

\* A helper whose stop is judged goes through the files and the services to its
\* end with what it found out (run after stop_logger or resolve_exited_logger).
LEMMA JudgedKeepsEvidence ==
    ASSUME IInv, EvidenceInv, NEW h \in Helpers, hpc[h] \in Judged,
           hpc'[h] \in Judged \cup {"ok"},
           UNCHANGED <<loggerVars, hop, hlegacy, hrun>>,
           \A g \in Helpers : g # h => hpc'[g] = hpc[g],
           intent' \in {intent, None},
           hpc'[h] = "ok" => hpc[h] = "finish" \/ intent' = None
    PROVE  EvidenceInv'
  <1>1. lock = h
    BY DEF IInv, Control, LockHeld, Judged, Idle
  <1>2. LegacyAt(h)' /\ CleanAt(h)'
    <2>1. LegacyAt(h) /\ CleanAt(h)
      BY DEF EvidenceInv
    <2>2. LegacyAt(h)'
      BY <2>1 DEF LegacyAt, Running, Alive, loggerVars, StartedIn, At
    <2>3. Cleared(h)' => Cleared(h)
      BY DEF Cleared, loggerVars
    <2> QED BY <2>1, <2>2, <2>3, SameLogVerifies DEF CleanAt, loggerVars, Alive
  <1>3. Cleared(h)' /\ hpc'[h] = "ok" => intent' = None
    BY DEF Cleared, IInv, Control, StageKnows
  <1>4. hlegacy'[h] => hop'[h] \notin AllServices
    BY DEF EvidenceInv, LegacyOps
  <1> QED BY <1>1, <1>2, <1>3, <1>4, OneHelperKeepsEvidence DEF Stopping, Judged, loggerVars

\* Accepting evidence, or the report after a signal, of a logger that has gone.
LEMMA AcceptanceKeepsEvidence ==
    ASSUME IInv, LogTells, EvidenceInv, NEW h \in Helpers, NEW offset \in Nat,
           hpc[h] \in {"judge", "wait"}, hpc'[h] \in {"recheck", "unpid"},
           hrun'[h] \in Runs,
           ~(run = hrun'[h] /\ Alive),
           Verified(log, offset, hrun'[h], hlegacy[h]),
           UNCHANGED <<loggerVars, intent, hop, hlegacy>>,
           \A g \in Helpers : g # h => hpc'[g] = hpc[g] /\ hrun'[g] = hrun[g]
    PROVE  EvidenceInv'
  <1>1. lock = h
    BY DEF IInv, Control, LockHeld, Idle
  <1>2. LegacyAt(h)'
    <2>1. \A b \in StartedIn(log, 0) : owner[b] # hrun'[h]
      BY StartedAreIdle DEF IInv
    <2> QED BY <2>1 DEF LegacyAt, Running, Alive, loggerVars, StartedIn, At
  <1>3. CleanAt(h)'
    <2>1. SUFFICES ASSUME Cleared(h)'
                   PROVE  ~Alive /\ Verified(log, 0, run, FALSE)
      BY SameLogVerifies DEF CleanAt, loggerVars, Alive
    <2>2. ~hlegacy[h] /\ hrun'[h] = run
      BY <2>1 DEF Cleared, loggerVars
    <2>3. Verified(log, offset, run, FALSE)
      BY <2>2 DEF Verified
    <2> QED BY <2>2, <2>3, WholeLogPasses DEF IInv
  <1>4. hlegacy'[h] => hop'[h] \notin AllServices
    BY DEF EvidenceInv, LegacyOps
  <1> QED BY <1>1, <1>2, <1>3, <1>4, OneHelperKeepsEvidence DEF Stopping, loggerVars

\* The steps of a helper that judges evidence keep what helpers know.
LEMMA JudgingKeepsEvidence ==
    ASSUME IInv, LogTells, EvidenceInv, NEW h \in Helpers,
           UNCHANGED <<loggerVars, intent>>,
           ReadEvidence(h) \/ FindNothing(h) \/ AcceptEvidence(h) \/ RefuseEvidence(h)
               \/ RecheckLog(h)
    PROVE  EvidenceInv'
  <1>1. hpc \in [Helpers -> HelperPCs] /\ hrun \in [Helpers -> 0..MaxRuns]
    BY DEF IInv, TypeInv, TypeOK
  <1>2. hpc[h] \in {"evidence", "judge", "recheck"}
    BY DEF ReadEvidence, FindNothing, AcceptEvidence, RefuseEvidence, RecheckLog
  <1>3. lock = h /\ (hlegacy[h] => hop[h] \notin AllServices)
    BY <1>2 DEF IInv, Control, LockHeld, Idle, EvidenceInv, LegacyOps
  <1>4. CASE Refuse(h)
    BY <1>2, <1>4, RefusalKeepsEvidence DEF Idle
  <1>5. CASE ReadEvidence(h)
    <2>1. /\ hpc'[h] = "judge" /\ hop' = hop /\ hlegacy' = hlegacy
          /\ \A g \in Helpers : g # h => hpc'[g] = hpc[g] /\ hrun'[g] = hrun[g]
      BY <1>1, <1>5 DEF ReadEvidence, Goto
    <2>2. LegacyAt(h)' /\ CleanAt(h)' /\ ~Cleared(h)'
      BY <2>1 DEF LegacyAt, CleanAt, Cleared, Judged
    <2> QED BY <1>3, <2>1, <2>2, OneHelperKeepsEvidence DEF Stopping, loggerVars
  <1>6. CASE FindNothing(h)
    <2>1. /\ hop' = hop /\ hlegacy' = hlegacy /\ hrun' = hrun /\ hrun[h] = 0
          /\ hpc'[h] \in {"ok", "finish", "services"}
          /\ \A g \in Helpers : g # h => hpc'[g] = hpc[g]
      BY <1>1, <1>6 DEF FindNothing, NothingOwned, AfterLogger, Finish, Goto
    <2>2. LegacyAt(h)' /\ CleanAt(h)' /\ ~Cleared(h)'
      BY <2>1 DEF LegacyAt, CleanAt, Cleared
    <2> QED BY <1>3, <2>1, <2>2, OneHelperKeepsEvidence DEF Stopping, loggerVars
  <1>7. CASE AcceptEvidence(h)
    <2>1. PICK p \in Runs : /\ Accepted(p, hrun[h], hintent[h], hlegacy[h])
                            /\ hrun' = [hrun EXCEPT ![h] = p]
      BY <1>7 DEF AcceptEvidence
    <2>2. /\ hop' = hop /\ hlegacy' = hlegacy
          /\ hpc[h] = "judge" /\ hpc'[h] = "recheck" /\ hrun'[h] = p
          /\ \A g \in Helpers : g # h => hpc'[g] = hpc[g] /\ hrun'[g] = hrun[g]
      BY <1>1, <1>7, <2>1 DEF AcceptEvidence, Goto
    <2> DEFINE offset == IF hintent[h] = None THEN 0 ELSE hintent[h].offset
    <2>3. offset \in Nat
      BY DEF IInv, TypeInv, TypeOK, Intents
    <2>4. ~(p = run /\ Alive) /\ Verified(log, offset, p, hlegacy[h])
      BY <2>1 DEF Accepted
    <2> QED BY <2>2, <2>3, <2>4, AcceptanceKeepsEvidence
  <1>8. CASE RecheckLog(h) /\ ~Refuse(h)
    <2>1. /\ hpc[h] = "recheck" /\ hpc'[h] = "unpid"
          /\ hop' = hop /\ hlegacy' = hlegacy /\ hrun' = hrun
          /\ \A g \in Helpers : g # h => hpc'[g] = hpc[g]
      BY <1>1, <1>8 DEF RecheckLog, Confirm, Goto
    <2> QED BY <2>1, JudgedKeepsEvidence DEF Judged
  <1> QED BY <1>4, <1>5, <1>6, <1>7, <1>8 DEF RefuseEvidence

\* So do the steps of a helper that stops a logger or finds it healthy
\* (stop_logger, check_logger_start): only the last one is a verdict.
LEMMA StoppingKeepsEvidence ==
    ASSUME IInv, LogTells, EvidenceInv, NEW h \in Helpers,
           run' = run, phase' = phase, owner' = owner, log' = log,
           \/ /\ \/ ReadLog(h) \/ OpenHandle(h) \/ RefuseHandle(h) \/ SeeExit(h)
                 \/ GiveUpWaiting(h) \/ CheckRunning(h)
              /\ UNCHANGED <<loggerVars, intent>>
           \/ PersistIntent(h)
           \/ SendSignal(h) /\ UNCHANGED intent
    PROVE  EvidenceInv'
  <1>1. hpc \in [Helpers -> HelperPCs] /\ hrun \in [Helpers -> 0..MaxRuns]
    BY DEF IInv, TypeInv, TypeOK
  <1>2. hpc[h] \in Stopping \cup {"running"}
    BY DEF ReadLog, OpenHandle, RefuseHandle, SeeExit, GiveUpWaiting, CheckRunning,
           PersistIntent, SendSignal, Stopping
  <1>3. lock = h /\ (hlegacy[h] => hop[h] \notin AllServices)
    BY <1>2 DEF IInv, Control, LockHeld, Idle, Stopping, EvidenceInv, LegacyOps
  <1>4. CASE Refuse(h) /\ UNCHANGED <<loggerVars, intent>>
    BY <1>2, <1>4, RefusalKeepsEvidence DEF Idle, Stopping
  <1>5. ASSUME hpc'[h] \in Stopping => hpc[h] \in Stopping,
               hpc'[h] \in Stopping \cup {"found"},
               hop' = hop, hlegacy' = hlegacy, hrun' = hrun,
               \A g \in Helpers : g # h => hpc'[g] = hpc[g],
               intent' = intent \/ hpc[h] \in Stopping
        PROVE  EvidenceInv'
    <2>1. LegacyAt(h)' /\ CleanAt(h)' /\ ~Cleared(h)'
      BY <1>5 DEF LegacyAt, CleanAt, Cleared, Judged, Stopping
    <2> QED BY <1>3, <1>5, <2>1, OneHelperKeepsEvidence
  <1>6. CASE ReadLog(h) /\ UNCHANGED <<loggerVars, intent>>
    BY <1>1, <1>5, <1>6 DEF ReadLog, Goto, Stopping
  <1>7. CASE OpenHandle(h) /\ UNCHANGED <<loggerVars, intent>>
    BY <1>1, <1>5, <1>7 DEF OpenHandle, AdoptRequest, MakeRequest, Goto, Stopping
  <1>8. CASE SeeExit(h) /\ ~Refuse(h) /\ UNCHANGED <<loggerVars, intent>>
    <2>1. /\ hpc[h] = "wait" /\ hpc'[h] = "unpid" /\ ~Running(h)
          /\ hop' = hop /\ hlegacy' = hlegacy /\ hrun' = hrun
          /\ \A g \in Helpers : g # h => hpc'[g] = hpc[g]
          /\ Verified(log, hoffset[h], hrun[h], hlegacy[h])
      BY <1>1, <1>8 DEF SeeExit, Confirm, Goto
    <2>2. hoffset[h] \in Nat /\ hrun[h] \in Runs
      BY <1>1, <2>1, RunsAssumption DEF IInv, TypeInv, TypeOK, StopsSomeone, Stopping, Runs
    <2> QED BY <1>8, <2>1, <2>2, AcceptanceKeepsEvidence DEF Running
  <1>9. CASE CheckRunning(h) /\ ~Refuse(h) /\ UNCHANGED <<loggerVars, intent>>
    BY <1>1, <1>5, <1>9 DEF CheckRunning, Finish, Goto, Stopping
  <1>10. CASE PersistIntent(h)
    BY <1>1, <1>5, <1>10 DEF PersistIntent, Goto, Stopping
  <1>11. CASE SendSignal(h) /\ UNCHANGED intent
    BY <1>1, <1>5, <1>11 DEF SendSignal, Goto, Stopping
  <1> QED BY <1>4, <1>6, <1>7, <1>8, <1>9, <1>10, <1>11 DEF RefuseHandle, GiveUpWaiting

\* So do the steps of a helper whose stop is confirmed (run).
LEMMA EndingKeepsEvidence ==
    ASSUME IInv, EvidenceInv, NEW h \in Helpers, UNCHANGED loggerVars,
           \/ RemovePidfile(h) /\ UNCHANGED intent
           \/ RemoveIntent(h)
           \/ /\ \/ RefuseService(h) \/ ServicesStopped(h) \/ VerifyFinished(h)
                 \/ \E s \in Services : StopService(h, s)
              /\ UNCHANGED intent
    PROVE  EvidenceInv'
  <1>1. hpc \in [Helpers -> HelperPCs] /\ hrun \in [Helpers -> 0..MaxRuns]
    BY DEF IInv, TypeInv, TypeOK
  <1>2. hpc[h] \in Judged
    BY DEF RemovePidfile, RemoveIntent, RefuseService, ServicesStopped, VerifyFinished,
           StopService, Judged
  <1>3. CASE Refuse(h) /\ UNCHANGED intent
    BY <1>2, <1>3, RefusalKeepsEvidence DEF Judged, Idle
  <1>4. ASSUME hpc'[h] \in Judged \cup {"ok"},
               UNCHANGED <<hop, hlegacy, hrun>>,
               \A g \in Helpers : g # h => hpc'[g] = hpc[g],
               intent' \in {intent, None},
               hpc'[h] = "ok" => hpc[h] = "finish" \/ intent' = None
        PROVE  EvidenceInv'
    BY <1>2, <1>4, JudgedKeepsEvidence
  <1>5. CASE RemovePidfile(h) /\ UNCHANGED intent
    BY <1>1, <1>4, <1>5 DEF RemovePidfile, Goto, Judged
  <1>6. CASE RemoveIntent(h)
    BY <1>1, <1>4, <1>6 DEF RemoveIntent, AfterLogger, Finish, Goto, Judged
  <1>7. CASE ServicesStopped(h) /\ UNCHANGED intent
    BY <1>1, <1>4, <1>7 DEF ServicesStopped, Goto, Judged
  <1>8. CASE VerifyFinished(h) /\ ~Refuse(h) /\ UNCHANGED intent
    BY <1>1, <1>4, <1>8 DEF VerifyFinished, Finish, Goto
  <1>9. CASE (\E s \in Services : StopService(h, s)) /\ UNCHANGED intent
    BY <1>2, <1>4, <1>9 DEF StopService, Judged
  <1> QED BY <1>3, <1>5, <1>6, <1>7, <1>8, <1>9 DEF RefuseService

\* Every step of a helper keeps what helpers know.
LEMMA HelperKeepsEvidence ==
    ASSUME IInv, LogTells, EvidenceInv, NEW h \in Helpers, HelperStep(h)
    PROVE  EvidenceInv'
  <1>1. CASE HelperLocal(h)
    <2>1. UNCHANGED <<loggerVars, intent>> /\ run' = run /\ phase' = phase
          /\ owner' = owner /\ log' = log
      BY <1>1 DEF HelperLocal, loggerVars
    <2> QED BY <1>1, <2>1, JudgingKeepsEvidence, StoppingKeepsEvidence, EndingKeepsEvidence
            DEF HelperLocal
  <1>2. CASE PersistIntent(h) /\ UNCHANGED loggerVars
    BY <1>2, StoppingKeepsEvidence DEF loggerVars
  <1>3. CASE SendSignal(h) /\ UNCHANGED intent
    <2>1. run' = run /\ phase' = phase /\ owner' = owner /\ log' = log
      BY <1>3 DEF SendSignal, Deliver, loggerVars
    <2> QED BY <1>3, <2>1, StoppingKeepsEvidence
  <1>4. CASE /\ \/ RemovePidfile(h) /\ UNCHANGED intent
                \/ RemoveIntent(h)
                \/ (\E s \in Services : StopService(h, s)) /\ UNCHANGED intent
             /\ UNCHANGED loggerVars
    BY <1>4, EndingKeepsEvidence
  <1> QED BY <1>1, <1>2, <1>3, <1>4 DEF HelperStep

\* A helper that is let in knows nothing yet, and makes a request only of a
\* logger that is alive: none that an earlier stop has confirmed.
LEMMA InvokeKeepsEvidence ==
    ASSUME IInv, EvidenceInv, NEW h \in Helpers, NEW op \in Ops, NEW legacy \in BOOLEAN,
           legacy => op \notin AllServices,
           Invoke(h, op, legacy), UNCHANGED <<loggerVars, intent>>
    PROVE  EvidenceInv'
  <1>1. hpc \in [Helpers -> HelperPCs] /\ hrun \in [Helpers -> 0..MaxRuns]
    BY DEF IInv, TypeInv, TypeOK
  <1>2. /\ lock = None /\ hpc'[h] = FirstStep(op) /\ hop'[h] = op /\ hlegacy'[h] = legacy
        /\ \A g \in Helpers : g # h => /\ hpc'[g] = hpc[g] /\ hop'[g] = hop[g]
                                         /\ hlegacy'[g] = hlegacy[g] /\ hrun'[g] = hrun[g]
    BY <1>1 DEF Invoke, Goto, IInv, TypeInv, TypeOK
  <1>3. /\ FirstStep(op) \in {"services", "evidence", "running", "read"}
        /\ FirstStep(op) = "services" => op \in AllServices
        /\ FirstStep(op) = "read" => Alive
    BY DEF FirstStep, Ops, AllServices
  <1>4. LegacyAt(h)' /\ CleanAt(h)' /\ ~Cleared(h)'
    BY <1>2, <1>3 DEF LegacyAt, CleanAt, Cleared, Judged
  <1> QED BY <1>2, <1>3, <1>4, OneHelperKeepsEvidence DEF Stopping, loggerVars

\* A step that leaves logger, request and helpers alone keeps what they know.
LEMMA QuietStepKeepsEvidence ==
    ASSUME EvidenceInv, UNCHANGED <<loggerVars, intent, helperVars>>
    PROVE  EvidenceInv'
  BY SameLogVerifies
     DEF EvidenceInv, LegacyOps, LegacyAt, CleanAt, SettledAt, Cleared, Running, Alive,
         loggerVars, helperVars, StartedIn, At

\* Every step of the launcher keeps what helpers know (vibroagent.sh).
LEMMA LauncherKeepsEvidence == ASSUME IInv, EvidenceInv, LauncherStep PROVE EvidenceInv'
  <1>1. CASE StartGeniex \/ StartWebchat \/ GateResult \/ Pgrep \/ ProbeFails \/ WritePid
             \/ AwaitDone \/ StopResult
    BY <1>1, QuietStepKeepsEvidence
       DEF StartGeniex, StartWebchat, GateResult, Pgrep, ProbeFails, WritePid, AwaitDone,
           StopResult
  <1>2. CASE CallGate
    <2>1. CASE Invoke(Launcher, "check", FALSE)
      BY <1>2, <2>1, InvokeKeepsEvidence DEF CallGate, Helpers, Ops
    <2>2. CASE UNCHANGED helperVars
      BY <1>2, <2>2, QuietStepKeepsEvidence DEF CallGate
    <2> QED BY <1>2, <2>1, <2>2 DEF CallGate
  <1>3. CASE CallStop
    <2>1. ASSUME NEW legacy \in BOOLEAN, legacy => cop = "stop",
                 Invoke(Launcher, StopTarget, legacy)
          PROVE  EvidenceInv'
      <3>1. StopTarget \in Ops /\ (legacy => StopTarget \notin AllServices)
        BY <2>1 DEF StopTarget, IInv, TypeInv, TypeOK, AllCommands, Ops, AllServices
      <3> QED BY <1>3, <2>1, <3>1, InvokeKeepsEvidence DEF CallStop, Helpers
    <2>2. CASE UNCHANGED helperVars
      BY <1>3, <2>2, QuietStepKeepsEvidence DEF CallStop
    <2> QED BY <1>3, <2>1, <2>2 DEF CallStop
  <1>4. CASE LaunchLogger
    BY <1>4, LaunchKeepsEvidence
  <1> QED BY <1>1, <1>2, <1>3, <1>4 DEF LauncherStep

\* Every step of the system keeps what helpers know, once the log tells the
\* truth before it and after.
LEMMA EvidenceKept ==
    ASSUME IInv, LogTells, LogTells', EvidenceInv, [Next]_vars
    PROVE  EvidenceInv'
  <1>1. CASE LoggerRuns \/ ExternalSignal
    BY <1>1, LoggerKeepsEvidence DEF LoggerRuns, ExternalSignal
  <1>2. ASSUME NEW h \in Helpers, HelperStep(h) PROVE EvidenceInv'
    BY <1>2, HelperKeepsEvidence
  <1>3. ASSUME NEW h \in Helpers, Interrupt(h), UNCHANGED <<loggerVars, intent>>
        PROVE  EvidenceInv'
    BY <1>3, RefusalKeepsEvidence DEF Interrupt
  <1>4. ASSUME NEW h \in DirectHelpers, InvokeDirectly(h) PROVE EvidenceInv'
    <2>1. PICK op \in {"all", "logger"}, legacy \in BOOLEAN : Invoke(h, op, legacy)
      BY <1>4 DEF InvokeDirectly
    <2>2. op \in Ops /\ op \notin AllServices
      BY DEF Ops, AllServices
    <2> QED BY <1>4, <2>1, <2>2, InvokeKeepsEvidence DEF InvokeDirectly, Helpers
  <1>5. CASE LauncherStep
    BY <1>5, LauncherKeepsEvidence
  <1>6. ASSUME NEW command \in Commands, Begin(command) PROVE EvidenceInv'
    BY <1>6, QuietStepKeepsEvidence DEF Begin
  <1>7. CASE LauncherKilled \/ LosePidfile \/ ServiceExits \/ UNCHANGED vars
    BY <1>7, QuietStepKeepsEvidence DEF LauncherKilled, LosePidfile, ServiceExits, vars
  <1> QED BY <1>1, <1>2, <1>3, <1>4, <1>5, <1>6, <1>7 DEF Next

\* What the log tells and what helpers know of it are invariants of the system.
THEOREM EvidenceInvariance == Spec => [](IInv /\ LogTells /\ EvidenceInv)
  <1>1. Init => IInv /\ LogTells /\ EvidenceInv
    <2>1. ASSUME Init PROVE LogTells
      BY <2>1 DEF Init, LoggerInit, LogTells, StartedOwned, StoppedIdle, ReceiptCloses,
                  FailuresReported, LineOf
    <2>2. ASSUME Init PROVE EvidenceInv
      BY <2>2 DEF Init, EvidenceInv, LegacyOps, LegacyAt, CleanAt, SettledAt, Cleared,
                  Judged
    <2> QED BY <2>1, <2>2, IInvHolds
  <1>2. ASSUME IInv, LogTells, EvidenceInv, [Next]_vars
        PROVE  IInv' /\ LogTells' /\ EvidenceInv'
    <2>1. LogTells'
      <3>1. CASE UNCHANGED loggerVars
        BY <1>2, <3>1 DEF loggerVars, LogTells, StartedOwned, StoppedIdle, ReceiptCloses,
                          FailuresReported, LineOf, Alive
      <3> QED BY <1>2, <3>1, NextMovesLogger, LogKeepsTelling DEF IInv
    <2> QED BY <1>2, <2>1, IInvKept, EvidenceKept
  <1> QED BY <1>1, <1>2, PTL DEF Spec

\* What --allow-legacy accepts covers the boards that were reported as started
\* (verify_shutdown).
THEOREM LegacyCoversStarted == Spec => []LegacyStopCoversStarted
  <1>1. EvidenceInv => LegacyStopCoversStarted
    BY DEF EvidenceInv, LegacyAt, Judged, LegacyStopCoversStarted
  <1> QED BY <1>1, EvidenceInvariance, PTL

\* Wherever a stop succeeded without --allow-legacy, the gate of the next start
\* accepts what it left behind, with no pid file to go by (stop_logger against
\* check_logger_start and resolve_exited_logger).
THEOREM StopsPermitStart == Spec => []StopPermitsStart
  <1>1. ASSUME IInv, LogTells, EvidenceInv PROVE StopPermitsStart
    <2>1. SUFFICES ASSUME NEW h \in Helpers,
                          hpc[h] = "ok", hop[h] \in {"all", "logger"}, ~hlegacy[h],
                          hrun[h] = run, run > 0
                   PROVE  intent = None /\ \E p \in Runs : Accepted(p, 0, None, FALSE)
      BY DEF StopPermitsStart
    <2>2. Cleared(h)
      BY <2>1, RunsAssumption DEF Cleared, AllServices, IInv, TypeInv, TypeOK, LoggerTypeOK
    <2>3. intent = None /\ ~Alive /\ Verified(log, 0, run, FALSE)
      BY <1>1, <2>1, <2>2 DEF EvidenceInv, CleanAt, SettledAt
    <2>4. run \in Runs
      BY <1>1, <2>1, RunsAssumption DEF IInv, TypeInv, TypeOK, LoggerTypeOK, Runs
    <2>5. PICK i \in At(log, 0, "receipt") : Complete(log[i], run, StartedIn(log, 0))
      BY <2>3 DEF Verified
    <2>6. run \in EvidencePid(0, None)
      BY <2>5 DEF EvidencePid, Complete
    <2>7. Unambiguous(log, 0)
      BY <1>1 DEF LogTells, ReceiptCloses, LineOf, Unambiguous, At
    <2>8. Accepted(run, 0, None, FALSE)
      BY <2>3, <2>6, <2>7 DEF Accepted
    <2> QED BY <2>3, <2>4, <2>8
  <1> QED BY <1>1, EvidenceInvariance, PTL
=============================================================================
