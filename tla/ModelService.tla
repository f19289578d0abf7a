---------------------------- MODULE ModelService ----------------------------
(***************************************************************************)
(* The model service (geniex_openai_server.py): the threads of its HTTP    *)
(* server, the single-flight lock around the native model, the reloads of  *)
(* a vision handle and the breaker that ends them, and the watchdog that   *)
(* replaces the process.                                                   *)
(*                                                                         *)
(* A request is one thread and one POST.  Main is the thread that starts   *)
(* the service; its smoke test takes the path of a request.  Time is a     *)
(* count of ticks, and only what the code waits for is aged by it.         *)
(***************************************************************************)
EXTENDS Integers, FiniteSets

CONSTANTS
    Requests,       \* POST /v1/chat/completions, each sent at most once
    ImageRequests,  \* those with an image
    Main,
    Configs,        \* the configurations to start with
    MaxBodies,      \* --max-concurrent-bodies
    ServerTimeout,  \* --timeout-s, in ticks
    CallerTimeout,  \* timeout_s of a request, in ticks
    WatchdogLimit,  \* age of a native section that the watchdog acts on
    ReloadBudget,   \* --reload-budget
    FailureLimit,   \* DEFAULT_RELOAD_FAILURE_LIMIT
    Wedges,         \* native calls that may never return
    None

Threads == Requests \cup {Main}

ConfigType == [kind : {"llm", "vlm"}, smoke : BOOLEAN, imageOnly : BOOLEAN]

ASSUME ThreadAssumption == Main \notin Requests /\ None \notin Threads
ASSUME ImageAssumption  == IsFiniteSet(Requests) /\ ImageRequests \subseteq Requests
ASSUME ConfigAssumption == Configs \subseteq ConfigType
ASSUME LimitAssumption  ==
    /\ MaxBodies \in Nat \ {0} /\ WatchdogLimit \in Nat
    /\ ServerTimeout \in Nat /\ CallerTimeout \in 0..ServerTimeout
    /\ ReloadBudget \in Nat \ {0} /\ FailureLimit \in Nat \ {0}
ASSUME WedgeAssumption  == Wedges \subseteq {"template", "generate", "reload"}

VARIABLES
    config,      \* what the service was started with
    proc,        \* stage of main()
    handle,      \* _model: none, fresh, or used by a generation
    needsReload, \* _needs_model_reload
    attempts,    \* reload_attempt_count
    failures,    \* reload_failure_count
    unavailable, \* runtime_unavailable
    lock,        \* thread in the single-flight section, or None
    gate,        \* free permits of the body gate
    pc,          \* where each thread is
    reply,       \* what each thread was or will be answered, or None
    waited,      \* ticks each thread has been waiting for gate or lock
    generation,  \* age of the call to generate, or NotRunning
    reload,      \* age of the reload, or NotRunning
    scratch,     \* whether this process's image directory exists
    images,      \* threads whose decoded image is on disk
    watchdog,    \* asleep, or about to wipe the images, or to exec
    wedged,      \* ground truth: threads in a native call that never returns
    built        \* ground truth: models this process has constructed

procVars    == <<config, proc, scratch, watchdog>>
handleVars  == <<handle, needsReload, attempts, failures, unavailable, built>>
sectionVars == <<generation, reload>>
vars == <<procVars, handleVars, lock, gate, pc, reply, waited, sectionVars,
          images, wedged>>

NotRunning == -1

\* Threads that hold a permit of the gate, that hold the lock, and that are
\* inside a call to the native library.
Admitted == {"body", "queue", "check", "reload", "construct", "prepare",
             "generate", "finally", "answer"}
Section  == {"check", "reload", "construct", "prepare", "generate", "finally"}
Native   == {"construct", "prepare", "generate"}

TypeOK ==
    /\ config \in ConfigType
    /\ proc \in {"loading", "smoke", "rearm", "serving", "down"}
    /\ handle \in {"none", "fresh", "used"}
    /\ needsReload \in BOOLEAN
    /\ attempts \in 0..ReloadBudget
    /\ failures \in Nat
    /\ unavailable \in BOOLEAN
    /\ lock \in Threads \cup {None}
    /\ gate \in 0..MaxBodies
    /\ pc \in [Threads -> Admitted \cup {"new", "gate", "rearm", "done"}]
    /\ reply \in [Threads -> {None, "ok", "error", "unavailable", "timeout", "reset"}]
    /\ waited \in [Threads -> 0..ServerTimeout]
    /\ generation \in NotRunning..WatchdogLimit
    /\ reload \in NotRunning..WatchdogLimit
    /\ scratch \in BOOLEAN
    /\ images \in SUBSET Requests
    /\ watchdog \in {"asleep", "wipe", "exec"}
    /\ wedged \in SUBSET Threads
    /\ built \in Nat

Init ==
    /\ config \in Configs
    /\ proc = "loading"
    /\ handle = "none"
    /\ needsReload = FALSE
    /\ attempts = 0
    /\ failures = 0
    /\ unavailable = FALSE
    /\ lock = None
    /\ gate = MaxBodies
    /\ pc = [t \in Threads |-> "new"]
    /\ reply = [t \in Threads |-> None]
    /\ waited = [t \in Threads |-> 0]
    /\ generation = NotRunning
    /\ reload = NotRunning
    /\ scratch = TRUE
    /\ images = {}
    /\ watchdog = "asleep"
    /\ wedged = {}
    /\ built = 0

Goto(t, place) == pc' = [pc EXCEPT ![t] = place]

\* The end of a wait with a time-out.
StopWaiting(t) == waited' = [waited EXCEPT ![t] = 0]

-----------------------------------------------------------------------------
(***************************************************************************)
(* main(): load, smoke test, re-arming, serving.                           *)
(***************************************************************************)
\* load() and the decision whether to smoke-test.
Load ==
    /\ proc = "loading"
    /\ handle' = "fresh"
    /\ built' = built + 1
    /\ IF config.smoke THEN proc' = "smoke" /\ Goto(Main, "queue")
                       ELSE proc' = "serving" /\ UNCHANGED pc
    /\ UNCHANGED <<config, scratch, watchdog, needsReload, attempts, failures, unavailable,
                   lock, gate, reply, waited, sectionVars, images, wedged>>

\* A wrong hash or device, or no model: main() does not survive it.
LoadFails ==
    /\ proc = "loading"
    /\ proc' = "down"
    /\ UNCHANGED <<config, scratch, watchdog, handleVars, lock, gate, pc, reply, waited,
                   sectionVars, images, wedged>>

\* The smoke test is over; one that used up a vision handle is followed by a
\* reload, which main() runs without the lock.
Smoked ==
    /\ pc[Main] = "answer"
    /\ \/ /\ reply[Main] = "ok" /\ needsReload
          /\ proc' = "rearm" /\ Goto(Main, "rearm")
       \/ /\ reply[Main] = "ok" /\ ~needsReload
          /\ proc' = "serving" /\ Goto(Main, "done")
       \/ /\ reply[Main] # "ok"
          /\ proc' = "down" /\ Goto(Main, "done")
    /\ UNCHANGED <<config, scratch, watchdog, handleVars, lock, gate, reply, waited,
                   sectionVars, images, wedged>>

-----------------------------------------------------------------------------
(***************************************************************************)
(* do_POST up to the runtime.                                              *)
(***************************************************************************)
Send(r) ==
    /\ proc = "serving"
    /\ pc[r] = "new"
    /\ Goto(r, "gate")
    /\ UNCHANGED <<procVars, handleVars, lock, gate, reply, waited, sectionVars, images, wedged>>

\* Mutant of Refuse: gives back the permit that it waited for in vain.
RefuseReleasing(r) ==
    /\ pc[r] = "gate"
    /\ waited[r] = ServerTimeout /\ reply' = [reply EXCEPT ![r] = "timeout"]
    /\ gate' = gate + 1
    /\ Goto(r, "done")
    /\ StopWaiting(r)
    /\ UNCHANGED <<procVars, handleVars, lock, sectionVars, images, wedged>>

\* Headers that are refused before the gate, and a gate that stays shut.
Refuse(r) ==
    /\ pc[r] = "gate"
    /\ \/ waited[r] = 0 /\ reply' = [reply EXCEPT ![r] = "error"]
       \/ waited[r] = ServerTimeout /\ reply' = [reply EXCEPT ![r] = "timeout"]
    /\ Goto(r, "done")
    /\ StopWaiting(r)
    /\ UNCHANGED <<procVars, handleVars, lock, gate, sectionVars, images, wedged>>

EnterGate(r) ==
    /\ pc[r] = "gate"
    /\ gate > 0
    /\ gate' = gate - 1
    /\ Goto(r, "body")
    /\ StopWaiting(r)
    /\ UNCHANGED <<procVars, handleVars, lock, reply, sectionVars, images, wedged>>

\* The body is read and checked; then the request queues for the lock.
ReadBody(r) ==
    /\ pc[r] = "body"
    /\ \/ Goto(r, "queue") /\ UNCHANGED reply
       \/ Goto(r, "answer") /\ reply' = [reply EXCEPT ![r] = "error"]
    /\ UNCHANGED <<procVars, handleVars, lock, gate, waited, sectionVars, images, wedged>>

\* The answer is sent, and `finally' gives the permit back.
Answer(r) ==
    /\ pc[r] = "answer"
    /\ gate' = gate + 1
    /\ Goto(r, "done")
    /\ UNCHANGED <<procVars, handleVars, lock, reply, waited, sectionVars, images, wedged>>

-----------------------------------------------------------------------------
(***************************************************************************)
(* chat(): the timed lock.                                                 *)
(***************************************************************************)
Acquire(t) ==
    /\ pc[t] = "queue"
    /\ lock = None
    /\ lock' = t
    /\ Goto(t, "check")
    /\ StopWaiting(t)
    /\ UNCHANGED <<procVars, handleVars, gate, reply, sectionVars, images, wedged>>

\* Mutant of LockTimeout: the lock is waited for without a limit.
LockTimeoutNever(t) == pc[t] = "queue" /\ FALSE /\ UNCHANGED vars

LockTimeout(t) ==
    /\ pc[t] = "queue"
    /\ waited[t] = CallerTimeout
    /\ lock # None
    /\ reply' = [reply EXCEPT ![t] = "timeout"]
    /\ Goto(t, "answer")
    /\ StopWaiting(t)
    /\ UNCHANGED <<procVars, handleVars, lock, gate, sectionVars, images, wedged>>

\* The section ends with an exception, and `finally' comes next.
Raise(t, status) ==
    /\ reply' = [reply EXCEPT ![t] = status]
    /\ Goto(t, "finally")

NeedsImage(t) == config.imageOnly /\ config.kind = "vlm" /\ t \notin ImageRequests

\* The checks before the model is touched.  A third one, for a missing model,
\* cannot fail (ModelOrBreaker).
Reject(t) ==
    /\ pc[t] = "check"
    /\ \/ unavailable /\ Raise(t, "unavailable")
       \/ ~unavailable /\ NeedsImage(t) /\ Raise(t, "error")
    /\ UNCHANGED <<procVars, handleVars, lock, gate, waited, sectionVars, images, wedged>>

Proceed(t) ==
    /\ pc[t] = "check"
    /\ ~unavailable /\ ~NeedsImage(t) /\ ~needsReload /\ handle # "none"
    /\ Goto(t, "prepare")
    /\ UNCHANGED <<procVars, handleVars, lock, gate, reply, waited, sectionVars, images, wedged>>

-----------------------------------------------------------------------------
(***************************************************************************)
(* _reload_model(), called by a request or, after the smoke test, by main. *)
(***************************************************************************)
\* Mutant of WantsReload: the breaker is not asked.
WantsReloadAnyway(t) ==
    \/ pc[t] = "check" /\ ~NeedsImage(t) /\ needsReload
    \/ pc[t] = "rearm"

WantsReload(t) ==
    \/ pc[t] = "check" /\ ~unavailable /\ ~NeedsImage(t) /\ needsReload
    \/ pc[t] = "rearm"

\* What an exception means to the caller.
ReloadRaises(t, status) ==
    IF proc = "rearm" THEN proc' = "down" /\ Goto(t, "done") /\ UNCHANGED reply
                      ELSE Raise(t, status) /\ UNCHANGED proc

\* The budget is spent, or the board is short of memory.
TripBreaker(t) ==
    /\ WantsReload(t)
    /\ unavailable' = TRUE
    /\ handle' = "none"
    /\ ReloadRaises(t, "unavailable")
    /\ UNCHANGED <<config, scratch, watchdog, needsReload, attempts, failures, built, lock, gate,
                   waited, sectionVars, images, wedged>>

\* Mutant of BeginReload: the attempt is not counted.
BeginReloadUncounted(t) ==
    /\ WantsReload(t)
    /\ attempts < ReloadBudget
    /\ reload' = 0
    /\ Goto(t, "reload")
    /\ UNCHANGED <<procVars, handleVars, lock, gate, reply, waited, generation, images, wedged>>

BeginReload(t) ==
    /\ WantsReload(t)
    /\ attempts < ReloadBudget
    /\ attempts' = attempts + 1
    /\ reload' = 0
    /\ Goto(t, "reload")
    /\ UNCHANGED <<procVars, handle, needsReload, failures, unavailable, built, lock, gate, reply,
                   waited, generation, images, wedged>>

\* Mutant of Dispose: the handle counts as reloaded once the old one is closed.
DisposeClearing(t) ==
    /\ pc[t] = "reload"
    /\ handle' = "none"
    /\ needsReload' = FALSE
    /\ built' = built + 1
    /\ Goto(t, "construct")
    /\ UNCHANGED <<procVars, attempts, failures, unavailable, lock, gate, reply, waited,
                   sectionVars, images, wedged>>

\* The files are those of the start: the old handle is closed and the native
\* constructor called.  The close or the constructor may hang.
Dispose(t) ==
    /\ pc[t] = "reload"
    /\ handle' = "none"
    /\ built' = built + 1
    /\ Goto(t, "construct")
    /\ \/ UNCHANGED wedged
       \/ "reload" \in Wedges /\ wedged' = wedged \cup {t}
    /\ UNCHANGED <<procVars, needsReload, attempts, failures, unavailable, lock, gate, reply,
                   waited, sectionVars, images>>

Reloaded(t) ==
    /\ pc[t] = "construct"
    /\ t \notin wedged
    /\ handle' = "fresh"
    /\ needsReload' = FALSE
    /\ failures' = 0
    /\ reload' = NotRunning
    /\ IF proc = "rearm" THEN proc' = "serving" /\ Goto(t, "done")
                         ELSE Goto(t, "prepare") /\ UNCHANGED proc
    /\ UNCHANGED <<config, scratch, watchdog, attempts, unavailable, built, lock, gate, reply,
                   waited, generation, images, wedged>>

\* Mutant of ReloadFails: the section stays marked as running.
ReloadFailsMarked(t) ==
    /\ pc[t] \in {"reload", "construct"}
    /\ t \notin wedged
    /\ handle' = "none"
    /\ failures' = failures + 1
    /\ unavailable' = (unavailable \/ failures + 1 >= FailureLimit)
    /\ ReloadRaises(t, "error")
    /\ UNCHANGED <<config, scratch, watchdog, needsReload, attempts, built, lock, gate,
                   waited, sectionVars, images, wedged>>

\* The files were exchanged, the constructor raised, or it built another kind
\* of handle.
ReloadFails(t) ==
    /\ pc[t] \in {"reload", "construct"}
    /\ t \notin wedged
    /\ handle' = "none"
    /\ failures' = failures + 1
    /\ unavailable' = (unavailable \/ failures + 1 >= FailureLimit)
    /\ reload' = NotRunning
    /\ ReloadRaises(t, "error")
    /\ UNCHANGED <<config, scratch, watchdog, needsReload, attempts, built, lock, gate,
                   waited, generation, images, wedged>>

-----------------------------------------------------------------------------
(***************************************************************************)
(* chat(): image, template, generation.                                    *)
(***************************************************************************)
Decode(t) ==
    /\ pc[t] = "prepare" /\ t \in ImageRequests \ images
    /\ scratch
    /\ images' = images \cup {t}
    /\ UNCHANGED <<procVars, handleVars, lock, gate, pc, reply, waited, sectionVars, wedged>>

Prepared(t) == pc[t] = "prepare" /\ t \notin wedged /\ t \notin ImageRequests \ images

\* A bad image, no directory to decode it to, a template error, a prompt that
\* is too long, a failing reset.
PrepareFails(t) ==
    /\ pc[t] = "prepare" /\ t \notin wedged
    /\ Raise(t, "error")
    /\ UNCHANGED <<procVars, handleVars, lock, gate, waited, sectionVars, images, wedged>>

\* _apply_chat_template or reset does not return.
TemplateHangs(t) ==
    /\ "template" \in Wedges
    /\ Prepared(t)
    /\ wedged' = wedged \cup {t}
    /\ UNCHANGED <<procVars, handleVars, lock, gate, pc, reply, waited, sectionVars, images>>

\* Mutant of Generate: leaves the handle to be marked when the call returns.
GenerateUnmarked(t) ==
    /\ Prepared(t)
    /\ handle' = "used"
    /\ generation' = 0
    /\ Goto(t, "generate")
    /\ UNCHANGED <<procVars, needsReload, attempts, failures, unavailable, built, lock, gate,
                   reply, waited, reload, images, wedged>>

\* A vision handle counts as used before the native call.
Generate(t) ==
    /\ Prepared(t)
    /\ needsReload' = (needsReload \/ config.kind = "vlm")
    /\ handle' = "used"
    /\ generation' = 0
    /\ Goto(t, "generate")
    /\ \/ UNCHANGED wedged
       \/ "generate" \in Wedges /\ wedged' = wedged \cup {t}
    /\ UNCHANGED <<procVars, attempts, failures, unavailable, built, lock, gate, reply,
                   waited, reload, images>>

\* It returns, raises, or answers beyond the context window.
Generated(t) ==
    /\ pc[t] = "generate"
    /\ t \notin wedged
    /\ \E status \in {"ok", "error"} : Raise(t, status)
    /\ UNCHANGED <<procVars, handleVars, lock, gate, waited, sectionVars, images, wedged>>

\* Mutant of Finally: the decoded image is left behind.
FinallyLeavingImage(t) ==
    /\ pc[t] = "finally"
    /\ generation' = NotRunning
    /\ lock' = None
    /\ Goto(t, "answer")
    /\ UNCHANGED <<procVars, handleVars, gate, reply, waited, reload, images, wedged>>

Finally(t) ==
    /\ pc[t] = "finally"
    /\ images' = images \ {t}
    /\ generation' = NotRunning
    /\ lock' = None
    /\ Goto(t, "answer")
    /\ UNCHANGED <<procVars, handleVars, gate, reply, waited, reload, wedged>>

-----------------------------------------------------------------------------
(***************************************************************************)
(* The watchdog thread, and time.                                          *)
(***************************************************************************)
\* Mutant of Notice: only generations are timed.
NoticeGeneration ==
    /\ proc = "serving" /\ watchdog = "asleep"
    /\ generation = WatchdogLimit
    /\ watchdog' = "wipe"
    /\ UNCHANGED <<config, proc, scratch, handleVars, lock, gate, pc, reply, waited, sectionVars,
                   images, wedged>>

\* stuck_generation or stuck_reload; the thread exists once main() serves.
Notice ==
    /\ proc = "serving" /\ watchdog = "asleep"
    /\ \/ generation = WatchdogLimit
       \/ reload = WatchdogLimit
    /\ watchdog' = "wipe"
    /\ UNCHANGED <<config, proc, scratch, handleVars, lock, gate, pc, reply, waited, sectionVars,
                   images, wedged>>

Wipe ==
    /\ watchdog = "wipe"
    /\ images' = {}
    /\ scratch' = FALSE
    /\ watchdog' = "exec"
    /\ UNCHANGED <<config, proc, handleVars, lock, gate, pc, reply, waited, sectionVars, wedged>>

\* os.execv: every thread and every connection is gone, and main() begins.
Exec ==
    LET cut == {t \in Threads : pc[t] \notin {"new", "done"}}
    IN  /\ watchdog = "exec"
        /\ watchdog' = "asleep"
        /\ proc' = "loading"
        /\ scratch' = TRUE
        /\ handle' = "none" /\ needsReload' = FALSE
        /\ attempts' = 0 /\ failures' = 0 /\ unavailable' = FALSE /\ built' = 0
        /\ lock' = None
        /\ gate' = MaxBodies
        /\ reply' = [t \in Threads |-> IF t \in cut THEN "reset" ELSE reply[t]]
        /\ pc' = [t \in Threads |->
                    IF t = Main THEN "new" ELSE IF t \in cut THEN "done" ELSE pc[t]]
        /\ generation' = NotRunning /\ reload' = NotRunning
        /\ wedged' = {}
        /\ waited' = [t \in Threads |-> 0]
        /\ UNCHANGED <<config, images>>

Older(age) == IF age = NotRunning \/ age = WatchdogLimit THEN age ELSE age + 1

\* Waits that are over are ended before time goes on.
Tick ==
    /\ \A t \in Threads : /\ pc[t] = "gate"  => waited[t] < ServerTimeout
                          /\ pc[t] = "queue" => waited[t] < CallerTimeout
    /\ waited' = [t \in Threads |-> IF pc[t] \in {"gate", "queue"} THEN waited[t] + 1 ELSE waited[t]]
    /\ generation' = Older(generation)
    /\ reload' = Older(reload)
    /\ UNCHANGED <<procVars, handleVars, lock, gate, pc, reply, images, wedged>>

-----------------------------------------------------------------------------
Runtime(t) ==
    \/ Acquire(t) \/ LockTimeout(t) \/ Reject(t) \/ Proceed(t)
    \/ TripBreaker(t) \/ BeginReload(t) \/ Dispose(t) \/ Reloaded(t) \/ ReloadFails(t)
    \/ Decode(t) \/ PrepareFails(t) \/ TemplateHangs(t) \/ Generate(t) \/ Generated(t)
    \/ Finally(t)

Serve(r) == Refuse(r) \/ EnterGate(r) \/ ReadBody(r) \/ Answer(r)

Start == Load \/ LoadFails \/ Smoked

Guard == Notice \/ Wipe \/ Exec

Next ==
    \/ Start
    \/ \E r \in Requests : Send(r) \/ Serve(r)
    \/ \E t \in Threads : Runtime(t)
    \/ Guard
    \/ Tick

Spec == Init /\ [][Next]_vars

\* Threads that are neither waiting nor in a native call go on, the watchdog
\* polls, time passes.  Nothing makes a wedged call return, and nobody has to
\* send a request.
FairSpec ==
    /\ Spec
    /\ WF_vars(Start) /\ WF_vars(Guard) /\ WF_vars(Tick)
    /\ \A r \in Requests : WF_vars(Serve(r))
    /\ \A t \in Threads : WF_vars(Runtime(t))

-----------------------------------------------------------------------------
(***************************************************************************)
(* Properties.                                                             *)
(***************************************************************************)
\* A vision handle generates once: whatever failed since, no second generation
\* runs on it (_needs_model_reload, set before the call and cleared only by a
\* successful reload).
SingleShot ==
    [][\A t \in Threads :
        (config.kind = "vlm" /\ pc[t] = "prepare" /\ pc'[t] = "generate") => handle = "fresh"]_vars

\* Each construction leaks; a process makes the first and no more than the
\* budget after it, failed ones included (_reload_model, comment at the budget).
LeakBounded == built <= 1 + ReloadBudget

\* Once the breaker has tripped, no thread is in the native library any more
\* and no model is kept, up to the restart.
BreakerStopsNative ==
    unavailable => handle = "none" /\ \A t \in Threads : pc[t] \notin Native \cup {"reload"}

\* A decoded image is on disk only while its request holds the lock, so no more
\* than one is, and none outlives a failure or the exec of the watchdog.
ImagesReclaimed ==
    \A t \in images : lock = t /\ pc[t] \in {"prepare", "generate", "finally"}

\* When nobody is being served, nothing is left taken: the gate is whole, the
\* lock free, and no section marked as running for the watchdog to find.
QuietIsWhole ==
    (proc = "serving" /\ \A r \in Requests : pc[r] \in {"new", "done"}) =>
        /\ gate = MaxBodies
        /\ lock = None
        /\ generation = NotRunning /\ reload = NotRunning

\* A service that lost its model in a failed reload either tries again with the
\* next request or says that it is unavailable (_reload_model, health_payload).
ModelOrBreaker ==
    (proc = "serving" /\ handle = "none") => needsReload \/ unavailable

\* The one native section that no marker times: template and reset run between
\* the reload and the marker of the generation.
Untimed(t) == pc[t] = "prepare" /\ t \in wedged

\* Whoever connects is answered or cut off, also behind a call that never
\* returns (timed lock and gate, watchdog); only the caller whose own template
\* hangs waits for ever.
EveryoneAnswered ==
    \A r \in Requests : pc[r] = "gate" ~> pc[r] = "done" \/ Untimed(r)

\* A serving process does not keep the lock for ever: a generation or a reload
\* that never returns ends in a new process (the watchdog in main()).
LockComesBack ==
    \A t \in Threads : (proc = "serving" /\ lock = t) ~> lock # t \/ Untimed(t)
=============================================================================
