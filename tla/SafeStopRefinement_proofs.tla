----------------------- MODULE SafeStopRefinement_proofs -----------------------
(***************************************************************************)
(* SafeStop implements FleetControl, for any boards, helpers, launches and *)
(* faults; and what follows for the verdicts.                              *)
(***************************************************************************)
EXTENDS SafeStop_proofs

-----------------------------------------------------------------------------
\* Only an instance that permits --allow-legacy has helpers with it.
LegacyAllowed == \A h \in Helpers : hlegacy[h] => AllowLegacy

RInv == IInv /\ LegacyAllowed

\* A helper's --allow-legacy is the one it was invoked with (run).
LEMMA LegacyStaysAllowed ==
    ASSUME RInv, [Next]_vars PROVE LegacyAllowed'
  <1> USE DEF RInv, LegacyAllowed
  <1>1. hlegacy \in [Helpers -> BOOLEAN]
    BY DEF IInv, TypeInv, TypeOK
  <1>2. ASSUME NEW h \in Helpers, Refuse(h) PROVE LegacyAllowed'
    BY <1>1, <1>2 DEF Refuse
  <1>3. ASSUME NEW h \in Helpers, NEW op, NEW legacy \in BOOLEAN,
               Invoke(h, op, legacy), legacy => AllowLegacy
        PROVE  LegacyAllowed'
    BY <1>1, <1>3 DEF Invoke
  <1>4. CASE UNCHANGED hlegacy
    BY <1>4
  <1>5. ASSUME NEW h \in Helpers, HelperStep(h) PROVE LegacyAllowed'
    BY <1>2, <1>4, <1>5
       DEF HelperStep, HelperLocal, ReadEvidence, FindNothing, AcceptEvidence,
           RefuseEvidence, RecheckLog, Confirm, CheckRunning, ReadLog, OpenHandle,
           RefuseHandle, SeeExit, GiveUpWaiting, RefuseService, ServicesStopped,
           VerifyFinished, PersistIntent, SendSignal, RemovePidfile, RemoveIntent,
           StopService
  <1>6. CASE LauncherStep
    <2>1. Launcher \in Helpers
      BY DEF Helpers
    <2>2. CASE CallGate
      BY <1>3, <1>4, <2>1, <2>2 DEF CallGate, helperVars
    <2>3. CASE CallStop
      BY <1>3, <1>4, <2>1, <2>3 DEF CallStop, helperVars
    <2> QED BY <1>4, <1>6, <2>2, <2>3
            DEF LauncherStep, StartGeniex, StartWebchat, GateResult, Pgrep, ProbeFails,
                LaunchLogger, WritePid, AwaitDone, StopResult, helperVars
  <1>7. ASSUME NEW h \in Helpers, Interrupt(h) PROVE LegacyAllowed'
    BY <1>2, <1>7 DEF Interrupt
  <1>8. ASSUME NEW h \in DirectHelpers, InvokeDirectly(h) PROVE LegacyAllowed'
    BY <1>3, <1>8 DEF InvokeDirectly, Helpers
  <1> QED BY <1>4, <1>5, <1>6, <1>7, <1>8
          DEF Next, vars, LoggerRuns, Begin, LauncherKilled, ExternalSignal, LosePidfile,
              ServiceExits, helperVars

-----------------------------------------------------------------------------
(***************************************************************************)
(* What the abstract lifecycle sees of a step.                             *)
(***************************************************************************)
Pending == IF intent = None THEN 0 ELSE intent.pid

\* A helper is past the confirmation of a stop without --allow-legacy.
Confirmed(h) ==
    /\ hpc[h] \in {"unpid", "unintent", "services", "finish", "ok"}
    /\ hop[h] \notin AllServices
    /\ ~hlegacy[h]

\* Verdicts change only where their helper does.
LEMMA OthersVerdicts ==
    ASSUME NEW h \in Helpers, NEW v,
           \A g \in Helpers : g # h => /\ hpc'[g] = hpc[g] /\ hop'[g] = hop[g]
                                        /\ hlegacy'[g] = hlegacy[g] /\ hrun'[g] = hrun[g],
           v = IF Confirmed(h)' THEN hrun'[h] ELSE 0
    PROVE  Verdict' = [Verdict EXCEPT ![h] = v]
  BY DEF Verdict, Confirmed

\* A step after which each helper stands by what it said.
LEMMA SameVerdicts ==
    ASSUME NEW h \in Helpers,
           \A g \in Helpers : g # h => /\ hpc'[g] = hpc[g] /\ hop'[g] = hop[g]
                                        /\ hlegacy'[g] = hlegacy[g] /\ hrun'[g] = hrun[g],
           (IF Confirmed(h)' THEN hrun'[h] ELSE 0) = (IF Confirmed(h) THEN hrun[h] ELSE 0)
    PROVE  Verdict' = Verdict
  BY DEF Verdict, Confirmed

\* A helper's own step that leaves it without a verdict, or with the one it had,
\* or with one that is true.
LEMMA HelperMoves ==
    ASSUME IInv, NEW h \in Helpers,
           UNCHANGED <<loggerVars, intent>>,
           \A g \in Helpers : g # h => /\ hpc'[g] = hpc[g] /\ hop'[g] = hop[g]
                                        /\ hlegacy'[g] = hlegacy[g] /\ hrun'[g] = hrun[g],
           \/ ~Confirmed(h)'
           \/ hrun'[h] = 0
           \/ Confirmed(h) /\ hrun'[h] = hrun[h]
           \/ hrun'[h] \in 1..run /\ Fleet!Stopped(hrun'[h])
    PROVE  [Fleet!FleetNext]_(Fleet!fleetVars)
  <1> DEFINE v == IF Confirmed(h)' THEN hrun'[h] ELSE 0
  <1>1. Verdict' = [Verdict EXCEPT ![h] = v]
    BY OthersVerdicts
  <1>2. UNCHANGED <<run, phase, owner, intent>>
    BY DEF loggerVars
  <1>3. UNCHANGED <<Alive, Pending>>
    BY <1>2 DEF Alive, Pending
  <1>4. CASE v = 0
    BY <1>1, <1>2, <1>3, <1>4 DEF Fleet!FleetNext, Fleet!Retract, Pending
  <1>5. CASE v # 0 /\ Confirmed(h) /\ hrun'[h] = hrun[h]
    BY <1>2, <1>3, <1>5, SameVerdicts DEF Fleet!fleetVars, Pending
  <1>6. CASE v # 0 /\ hrun'[h] \in 1..run /\ Fleet!Stopped(hrun'[h])
    BY <1>1, <1>2, <1>3, <1>6 DEF Fleet!FleetNext, Fleet!CallStopped, Pending
  <1> QED BY <1>4, <1>5, <1>6

\* A step of nobody's helper that leaves logger and request alone.
LEMMA NothingMoves ==
    ASSUME UNCHANGED <<loggerVars, intent, helperVars>>
    PROVE  UNCHANGED Fleet!fleetVars
  BY DEF Fleet!fleetVars, Verdict, loggerVars, helperVars, Alive

-----------------------------------------------------------------------------
(***************************************************************************)
(* The steps.                                                              *)
(***************************************************************************)
\* The logger: however a process ends, the abstract one ends, and boards change
\* hands only under a live one (main of the logger).
LEMMA LoggerImplements ==
    ASSUME IInv, LoggerMove, UNCHANGED <<intent, helperVars>>
    PROVE  [Fleet!FleetNext]_(Fleet!fleetVars)
  <1>1. Verdict' = Verdict /\ Pending' = Pending
    BY DEF Verdict, Pending, helperVars
  <1> USE DEF Fleet!FleetNext, Fleet!fleetVars, Pending
  <1>2. CASE Launch
    BY <1>1, <1>2 DEF Launch, Fleet!StartLogger, Alive
  <1>3. CASE BootFails \/ OpenFails \/ Exit \/ Crash
    BY <1>1, <1>3 DEF BootFails, OpenFails, Exit, Crash, Gone, Fleet!EndLogger, Alive
  <1>4. ASSUME NEW b \in Boards, BeginStart(b)
        PROVE  [Fleet!FleetNext]_(Fleet!fleetVars)
    BY <1>1, <1>4 DEF BeginStart, Fleet!StartBoard, Alive
  <1>5. ASSUME NEW b \in Boards, StopAcknowledged(b) \/ StopFails(b)
        PROVE  [Fleet!FleetNext]_(Fleet!fleetVars)
    BY <1>1, <1>5 DEF StopAcknowledged, StopFails, Fleet!StopBoard, Alive
  <1>6. CASE \/ InstallHandlers \/ OpenSucceeds \/ PrepareFails \/ PrepareSucceeds
             \/ StartDone \/ LoggingEnds \/ StopsDone \/ CloseEngine \/ WriteReceipt
             \/ Deliver
    BY <1>1, <1>6
       DEF InstallHandlers, OpenSucceeds, PrepareFails, PrepareSucceeds, StartDone,
           LoggingEnds, StopsDone, CloseEngine, WriteReceipt, Deliver, EnterCleanup, Alive
  <1>7. ASSUME NEW b \in Boards, StartSucceeds(b) \/ StartFails(b) \/ ReportStopped(b)
        PROVE  [Fleet!FleetNext]_(Fleet!fleetVars)
    BY <1>1, <1>7 DEF StartSucceeds, StartFails, ReportStopped, EnterCleanup, Alive
  <1> QED BY <1>2, <1>3, <1>4, <1>5, <1>6, <1>7 DEF LoggerMove, LoggerStep

\* A helper that refuses, or is interrupted, takes its verdict back.
LEMMA RefusalImplements ==
    ASSUME IInv, NEW h \in Helpers, Refuse(h), UNCHANGED <<loggerVars, intent>>
    PROVE  [Fleet!FleetNext]_(Fleet!fleetVars)
  <1>1. ~Confirmed(h)'
    BY DEF Refuse, Finish, Goto, Confirmed, IInv, TypeInv, TypeOK
  <1> QED BY <1>1, HelperMoves DEF Refuse, Finish, Goto, IInv, TypeInv, TypeOK

\* A confirmation of what is true is a verdict of the abstract lifecycle.
LEMMA ConfirmationImplements ==
    ASSUME IInv, NEW h \in Helpers, Confirm(h), UNCHANGED <<loggerVars, intent>>,
           hop[h] \notin AllServices,
           ~hlegacy[h] /\ hrun[h] # 0 => Fleet!Stopped(hrun[h])
    PROVE  [Fleet!FleetNext]_(Fleet!fleetVars)
  <1>1. UNCHANGED <<hop, hlegacy, hrun>> /\ hpc' = [hpc EXCEPT ![h] = "unpid"]
    BY DEF Confirm, Goto
  <1>2. hrun[h] \in Nat /\ run \in Nat /\ hrun[h] <= run
    BY RunsAssumption DEF IInv, Control, NamesKnown, TypeInv, TypeOK, LoggerTypeOK
  <1>3. hpc \in [Helpers -> HelperPCs]
    BY DEF IInv, TypeInv, TypeOK
  <1>4. \/ ~Confirmed(h)'
        \/ hrun'[h] = 0
        \/ hrun'[h] \in 1..run /\ Fleet!Stopped(hrun'[h])
    BY <1>1, <1>2 DEF Confirmed
  <1> QED BY <1>1, <1>3, <1>4, HelperMoves

\* What is confirmed of a logger found exited is true (resolve_exited_logger).
LEMMA EvidenceImplements ==
    ASSUME IInv, NEW h \in Helpers, RecheckLog(h), Confirm(h),
           UNCHANGED <<loggerVars, intent>>
    PROVE  [Fleet!FleetNext]_(Fleet!fleetVars)
  <1>1. hpc[h] = "recheck"
    BY DEF RecheckLog
  <1>2. hop[h] \notin AllServices
    BY <1>1 DEF IInv, Control, StageKnows, Idle
  <1>3. ~hlegacy[h] /\ hrun[h] # 0 => Fleet!Stopped(hrun[h])
    BY <1>1, <1>2 DEF IInv, Control, AcceptedStopIsReal, Fleet!Stopped, Quiet, Running
  <1> QED BY <1>2, <1>3, ConfirmationImplements

\* What is confirmed after an exit was awaited is true (stop_logger).
LEMMA ExitImplements ==
    ASSUME IInv, NEW h \in Helpers, SeeExit(h), Confirm(h),
           UNCHANGED <<loggerVars, intent>>,
           Verified(log, hoffset[h], hrun[h], hlegacy[h])
    PROVE  [Fleet!FleetNext]_(Fleet!fleetVars)
  <1>1. hpc[h] = "wait" /\ ~Running(h)
    BY DEF SeeExit
  <1>2. hop[h] \notin AllServices
    BY <1>1 DEF IInv, Control, StageKnows, Idle
  <1>3. ~hlegacy[h] /\ hrun[h] # 0 => Fleet!Stopped(hrun[h])
    BY <1>1, EvidenceIsTrue DEF IInv, Fleet!Stopped, Quiet, Running
  <1> QED BY <1>2, <1>3, ConfirmationImplements

\* Removing a request settles it: its logger has gone and its boards are idle,
\* unless the helper was told to accept a legacy report (stop_logger).
LEMMA SettlementImplements ==
    ASSUME RInv, NEW h \in Helpers, RemoveIntent(h), UNCHANGED loggerVars
    PROVE  [Fleet!FleetNext]_(Fleet!fleetVars)
  <1>1. /\ hpc[h] = "unintent" /\ intent' = None /\ AfterLogger(h)
        /\ UNCHANGED <<hop, hlegacy, hrun>>
    BY DEF RemoveIntent
  <1>2. /\ hop[h] \notin AllServices
        /\ intent # None => intent.pid = hrun[h]
        /\ hrun[h] # 0
    BY <1>1 DEF RInv, IInv, Control, StageKnows, Idle
  <1>3. Verdict' = Verdict
    <2>1. hpc'[h] \in {"ok", "finish", "services"}
      BY <1>1 DEF AfterLogger, Finish, Goto, RInv, IInv, TypeInv, TypeOK
    <2>2. \A g \in Helpers : g # h => hpc'[g] = hpc[g]
      BY <1>1 DEF AfterLogger, Finish, Goto, RInv, IInv, TypeInv, TypeOK
    <2> QED BY <1>1, <2>1, <2>2, SameVerdicts DEF Confirmed
  <1>4. UNCHANGED <<run, Alive, owner>>
    BY DEF loggerVars, Alive
  <1>5. Pending' = 0
    BY <1>1 DEF Pending
  <1>6. ASSUME intent # None, ~hlegacy[h] PROVE Fleet!Stopped(Pending)
    BY <1>1, <1>2, <1>6
       DEF RInv, IInv, Control, AcceptedStopIsReal, Pending, Fleet!Stopped, Quiet, Running
  <1>7. hlegacy[h] => AllowLegacy
    BY DEF RInv, LegacyAllowed
  <1>8. CASE intent = None
    BY <1>1, <1>3, <1>4, <1>8 DEF Fleet!fleetVars
  <1>9. CASE intent # None
    BY <1>3, <1>4, <1>5, <1>6, <1>7, <1>9 DEF Fleet!FleetNext, Fleet!Settle, Pending
  <1> QED BY <1>8, <1>9

\* Recording a request is requesting a stop of the logger it names (stop_logger).
LEMMA RequestImplements ==
    ASSUME IInv, NEW h \in Helpers, PersistIntent(h), UNCHANGED loggerVars
    PROVE  [Fleet!FleetNext]_(Fleet!fleetVars)
  <1>1. /\ hpc[h] = "persist" /\ hpc' = [hpc EXCEPT ![h] = "signal"]
        /\ intent' = [pid |-> hrun[h], offset |-> hoffset[h]]
        /\ UNCHANGED <<hop, hlegacy, hrun>>
    BY DEF PersistIntent, Goto
  <1>2. hpc \in [Helpers -> HelperPCs]
    BY DEF IInv, TypeInv, TypeOK
  <1>3. Verdict' = Verdict
    BY <1>1, <1>2, SameVerdicts DEF Confirmed
  <1>4. hrun[h] \in 1..run /\ hrun[h] \in Runs
    BY <1>1, RunsAssumption
       DEF IInv, TypeInv, TypeOK, StopsSomeone, Stopping, Control, NamesKnown,
           LoggerTypeOK, Runs
  <1>5. intent = None
    BY <1>1 DEF IInv, Control, StageKnows
  <1>6. intent' # None
    <2>1. hoffset[h] \in Nat
      BY DEF IInv, TypeInv, TypeOK
    <2> QED BY <1>1, <1>4, <2>1, NoneAssumption
  <1>7. Pending = 0 /\ Pending' = hrun[h]
    BY <1>1, <1>5, <1>6 DEF Pending
  <1>8. UNCHANGED <<run, Alive, owner>>
    BY DEF loggerVars, Alive
  <1> QED BY <1>3, <1>4, <1>7, <1>8 DEF Fleet!FleetNext, Fleet!RequestStop, Pending

\* A new command of a helper takes back its last verdict (run).
LEMMA InvocationImplements ==
    ASSUME IInv, NEW h \in Helpers, NEW op, NEW legacy, Invoke(h, op, legacy),
           UNCHANGED <<loggerVars, intent>>
    PROVE  [Fleet!FleetNext]_(Fleet!fleetVars)
  <1>1. /\ hpc' = [hpc EXCEPT ![h] = FirstStep(op)] /\ hop' = [hop EXCEPT ![h] = op]
        /\ hlegacy' = [hlegacy EXCEPT ![h] = legacy]
        /\ hrun' = [hrun EXCEPT ![h] = IF Alive THEN run ELSE 0]
    BY DEF Invoke, Goto
  <1>2. hpc'[h] = FirstStep(op) /\ hop'[h] = op
    BY <1>1 DEF IInv, TypeInv, TypeOK
  <1>3. ~Confirmed(h)'
    BY <1>2 DEF Confirmed, FirstStep
  <1> QED BY <1>1, <1>3, HelperMoves DEF IInv, TypeInv, TypeOK

\* A helper that goes on stands by its verdict.
LEMMA GoingOnImplements ==
    ASSUME IInv, NEW h \in Helpers, NEW pc, Goto(h, pc), UNCHANGED <<loggerVars, intent>>,
           UNCHANGED <<hop, hlegacy>>,
           \A g \in Helpers : g # h => hrun'[g] = hrun[g],
           \/ pc \notin {"unpid", "unintent", "services", "finish", "ok"}
           \/ hpc[h] \in {"unpid", "unintent", "services", "finish"} /\ hrun'[h] = hrun[h]
           \/ hrun'[h] = 0
    PROVE  [Fleet!FleetNext]_(Fleet!fleetVars)
  <1>1. hpc' = [hpc EXCEPT ![h] = pc] /\ hpc \in [Helpers -> HelperPCs]
    BY DEF Goto, IInv, TypeInv, TypeOK
  <1> QED BY <1>1, HelperMoves DEF Confirmed

-----------------------------------------------------------------------------
(***************************************************************************)
(* All steps together.                                                     *)
(***************************************************************************)
LEMMA HelperImplements ==
    ASSUME RInv, NEW h \in Helpers, HelperStep(h)
    PROVE  [Fleet!FleetNext]_(Fleet!fleetVars)
  <1>0. IInv
    BY DEF RInv
  <1>1. CASE HelperLocal(h)
    <2>1. UNCHANGED <<loggerVars, intent>>
      BY <1>1 DEF HelperLocal
    <2>2. CASE Refuse(h)
      BY <1>0, <2>1, <2>2, RefusalImplements
    <2>3. CASE RecheckLog(h) /\ Confirm(h)
      BY <1>0, <2>1, <2>3, EvidenceImplements
    <2>4. CASE SeeExit(h) /\ Confirm(h) /\ Verified(log, hoffset[h], hrun[h], hlegacy[h])
      BY <1>0, <2>1, <2>4, ExitImplements
    <2>5. CASE ReadEvidence(h)
      BY <1>0, <2>1, <2>5, GoingOnImplements DEF ReadEvidence, IInv, TypeInv, TypeOK
    <2>6. CASE AcceptEvidence(h)
      BY <1>0, <2>1, <2>6, GoingOnImplements DEF AcceptEvidence, IInv, TypeInv, TypeOK
    <2>7. CASE FindNothing(h)
      BY <1>0, <2>1, <2>7, GoingOnImplements
         DEF FindNothing, NothingOwned, AfterLogger, Finish
    <2>8. CASE ReadLog(h) \/ OpenHandle(h) \/ ServicesStopped(h)
      BY <1>0, <2>1, <2>8, GoingOnImplements
         DEF ReadLog, OpenHandle, AdoptRequest, MakeRequest, ServicesStopped
    <2>9. CASE CheckRunning(h) /\ Finish(h, "found") /\ UNCHANGED <<hop, hlegacy, hrun>>
      BY <1>0, <2>1, <2>9, GoingOnImplements DEF Finish
    <2>10. CASE VerifyFinished(h) /\ Finish(h, "ok") /\ UNCHANGED <<hop, hlegacy, hrun>>
      BY <1>0, <2>1, <2>10, GoingOnImplements DEF VerifyFinished, Finish
    <2> QED BY <1>1, <2>2, <2>3, <2>4, <2>5, <2>6, <2>7, <2>8, <2>9, <2>10
            DEF HelperLocal, RefuseEvidence, RecheckLog, CheckRunning, RefuseHandle,
                SeeExit, GiveUpWaiting, RefuseService, VerifyFinished
  <1>2. CASE PersistIntent(h) /\ UNCHANGED loggerVars
    BY <1>0, <1>2, RequestImplements
  <1>3. CASE SendSignal(h) /\ UNCHANGED <<pidfile, intent, up, cpc, cop>>
    <2>1. Verdict' = Verdict
      <3>1. /\ hpc[h] = "signal" /\ hpc' = [hpc EXCEPT ![h] = "wait"]
            /\ UNCHANGED <<hop, hlegacy, hrun>>
        BY <1>3 DEF SendSignal, Goto
      <3>2. hpc \in [Helpers -> HelperPCs]
        BY <1>0 DEF IInv, TypeInv, TypeOK
      <3> QED BY <3>1, <3>2, SameVerdicts DEF Confirmed
    <2>2. UNCHANGED <<run, Alive, owner, intent>>
      BY <1>3 DEF SendSignal, Deliver, loggerVars, Alive
    <2> QED BY <2>1, <2>2 DEF Fleet!fleetVars
  <1>4. CASE RemovePidfile(h) /\ UNCHANGED <<loggerVars, intent>>
    BY <1>0, <1>4, GoingOnImplements DEF RemovePidfile
  <1>5. CASE RemoveIntent(h) /\ UNCHANGED loggerVars
    BY <1>5, SettlementImplements
  <1>6. ASSUME NEW s \in Services, StopService(h, s), UNCHANGED <<loggerVars, intent>>
        PROVE  [Fleet!FleetNext]_(Fleet!fleetVars)
    BY <1>6 DEF StopService, Fleet!fleetVars, Verdict, loggerVars, Alive
  <1> QED BY <1>1, <1>2, <1>3, <1>4, <1>5, <1>6 DEF HelperStep

LEMMA StepImplements ==
    ASSUME RInv, [Next]_vars
    PROVE  [Fleet!FleetNext]_(Fleet!fleetVars)
  <1>0. IInv
    BY DEF RInv
  <1>1. ASSUME NEW h \in Helpers, HelperStep(h)
        PROVE  [Fleet!FleetNext]_(Fleet!fleetVars)
    BY <1>1, HelperImplements
  <1>2. ASSUME NEW h \in Helpers, Interrupt(h), UNCHANGED <<loggerVars, intent>>
        PROVE  [Fleet!FleetNext]_(Fleet!fleetVars)
    BY <1>0, <1>2, RefusalImplements DEF Interrupt
  <1>3. ASSUME NEW h \in DirectHelpers, InvokeDirectly(h)
        PROVE  [Fleet!FleetNext]_(Fleet!fleetVars)
    BY <1>0, <1>3, InvocationImplements DEF InvokeDirectly, Helpers
  <1>4. CASE LauncherStep
    <2>1. Launcher \in Helpers
      BY DEF Helpers
    <2>2. CASE CallGate \/ CallStop
      BY <1>0, <2>1, <2>2, InvocationImplements, NothingMoves DEF CallGate, CallStop
    <2>3. CASE LaunchLogger
      BY <1>0, <2>3, LoggerImplements DEF LaunchLogger, LoggerMove
    <2> QED BY <1>4, <2>2, <2>3, NothingMoves
            DEF LauncherStep, StartGeniex, StartWebchat, GateResult, Pgrep, ProbeFails,
                WritePid, AwaitDone, StopResult
  <1>5. CASE LoggerRuns \/ ExternalSignal
    BY <1>0, <1>5, LoggerImplements DEF LoggerRuns, ExternalSignal, LoggerMove
  <1>6. CASE \/ \E command \in Commands : Begin(command)
             \/ LauncherKilled \/ LosePidfile \/ ServiceExits \/ UNCHANGED vars
    BY <1>6, NothingMoves
       DEF Begin, LauncherKilled, LosePidfile, ServiceExits, vars, helperVars
  <1> QED BY <1>1, <1>2, <1>3, <1>4, <1>5, <1>6 DEF Next

\* The lifecycle implements the abstract one of FleetControl: a helper calls only
\* those loggers stopped that have gone and left no board streaming, and a stop
\* that is requested is pending until then (vibroagent.sh, safe_pipeline_stop.py
\* and the logger's main).
THEOREM Refinement == Spec => ImplementsFleet
  <1>1. Init => RInv /\ Fleet!FleetInit
    <2>1. ASSUME Init PROVE IInv
      BY <2>1, IInvHolds
    <2>2. Init => LegacyAllowed /\ Fleet!FleetInit
      BY DEF Init, LoggerInit, LegacyAllowed, Fleet!FleetInit, Verdict, Alive
    <2> QED BY <2>1, <2>2 DEF RInv
  <1>2. ASSUME RInv, [Next]_vars PROVE RInv'
    BY <1>2, IInvKept, LegacyStaysAllowed DEF RInv
  <1>3. ASSUME RInv, [Next]_vars PROVE [Fleet!FleetNext]_(Fleet!fleetVars)
    BY <1>3, StepImplements
  <1> QED BY <1>1, <1>2, <1>3, PTL DEF Spec, ImplementsFleet, Fleet!FleetSpec

-----------------------------------------------------------------------------
(***************************************************************************)
(* What the abstract lifecycle guarantees, and the concrete one with it.   *)
(***************************************************************************)
\* Verdicts name loggers that were started.
VerdictsKnown == run \in Nat /\ \A h \in Helpers : Verdict[h] \in 0..run

\* No abstract step makes a verdict false: a logger that has gone starts no board,
\* and a new one is another (FleetControl).
LEMMA VerdictsStayTrue ==
    ASSUME VerdictsKnown, Fleet!VerdictsHold, [Fleet!FleetNext]_(Fleet!fleetVars),
           owner \in [Boards -> 0..MaxRuns], Verdict' \in [Helpers -> 0..MaxRuns]
    PROVE  Fleet!VerdictsHold'
  <1> USE DEF VerdictsKnown, Fleet!VerdictsHold, Fleet!Stopped
  <1>1. ASSUME NEW h \in Helpers, Fleet!Retract(h) PROVE Fleet!VerdictsHold'
    BY <1>1 DEF Fleet!Retract
  <1>2. ASSUME NEW h \in Helpers, NEW r \in 1..run, Fleet!CallStopped(h, r)
        PROVE  Fleet!VerdictsHold'
    BY <1>2 DEF Fleet!CallStopped
  <1>3. CASE Fleet!StartLogger
    BY <1>3 DEF Fleet!StartLogger
  <1>4. CASE Fleet!EndLogger
    BY <1>4 DEF Fleet!EndLogger
  <1>5. ASSUME NEW b \in Boards, Fleet!StartBoard(b) \/ Fleet!StopBoard(b)
        PROVE  Fleet!VerdictsHold'
    BY <1>5 DEF Fleet!StartBoard, Fleet!StopBoard
  <1>6. CASE Fleet!Settle \/ \E r \in 1..run : Fleet!RequestStop(r)
    BY <1>6 DEF Fleet!Settle, Fleet!RequestStop
  <1>7. CASE UNCHANGED Fleet!fleetVars
    BY <1>7 DEF Fleet!fleetVars
  <1> QED BY <1>1, <1>2, <1>3, <1>4, <1>5, <1>6, <1>7 DEF Fleet!FleetNext

\* A helper that has called a logger stopped stays right, to the end of its run and
\* for as long as its exit status is what the operator goes by, whatever loggers,
\* launchers and other helpers do meanwhile (stop_logger, resolve_exited_logger).
THEOREM VerdictsStand == Spec => []Fleet!VerdictsHold
  <1>1. IInv => VerdictsKnown /\ owner \in [Boards -> 0..MaxRuns]
                /\ Verdict \in [Helpers -> 0..MaxRuns]
    BY RunsAssumption
       DEF IInv, Control, NamesKnown, TypeInv, TypeOK, LoggerTypeOK, VerdictsKnown, Verdict
  <1>2. Init => RInv /\ Fleet!VerdictsHold
    <2>1. ASSUME Init PROVE IInv
      BY <2>1, IInvHolds
    <2>2. Init => LegacyAllowed /\ Fleet!VerdictsHold
      BY DEF Init, LegacyAllowed, Fleet!VerdictsHold, Verdict
    <2> QED BY <2>1, <2>2 DEF RInv
  <1>3. ASSUME RInv, Fleet!VerdictsHold, [Next]_vars PROVE RInv' /\ Fleet!VerdictsHold'
    <2>1. RInv'
      BY <1>3, IInvKept, LegacyStaysAllowed DEF RInv
    <2>2. Verdict' \in [Helpers -> 0..MaxRuns]
      BY <1>1, <2>1, RunsAssumption
         DEF RInv, IInv, TypeInv, TypeOK, Verdict
    <2> QED BY <1>1, <1>3, <2>1, <2>2, StepImplements, VerdictsStayTrue DEF RInv
  <1> QED BY <1>2, <1>3, PTL DEF Spec
=============================================================================
