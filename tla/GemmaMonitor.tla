---------------------------- MODULE GemmaMonitor ----------------------------
(***************************************************************************)
(* The deployed Gemma application in live mode (vibrogemma_webchat.py):    *)
(* the monitor thread that publishes one snapshot for all pages, the       *)
(* switch of the test injection, the chats, and the model service          *)
(* (vibrogemma_geniex_server.py) that monitor and chats share.             *)
(*                                                                         *)
(* An injection is known by the number of the switch that set it.          *)
(***************************************************************************)
EXTENDS Integers, FiniteSets

CONSTANTS
    Pages,
    MaxGets,       \* monitor requests a page may have in flight
    Stale,         \* VIBROGEMMA_MONITOR_STALE_S, in ticks
    MaxLag,        \* bound on the ticks between a window's end and its capture's
    WatchdogLimit, \* VIBROGEMMA_GENERATION_WATCHDOG_S, in ticks
    MaxSwitches,   \* bound on switches of the injection
    MaxChats,      \* bound on chats
    MaxFaults,     \* bound on what fails or is slow of its own
    None

ASSUME PageAssumption  == None \notin Pages
ASSUME LimitAssumption == {Stale, MaxLag} \subseteq Nat /\ WatchdogLimit \in Nat \ {0}
ASSUME BoundAssumption == {MaxGets, MaxSwitches, MaxChats, MaxFaults} \subseteq Nat

VARIABLES
    injection,   \* the environment: number of the switch that set it
    generation,  \* _INJECTION_GENERATION
    snapshot,    \* _LATEST_MONITOR and its age by _LATEST_MONITOR_AT
    mutex,       \* page whose switch is inside _POPUP_LOCK, or None
    pc,          \* stage of the monitor thread
    mine,        \* the generation its cycle began with
    drawn,       \* the injection its decision read
    outcome,     \* what its cycle came to
    endAge,      \* ticks since the end_utc of the window it captured
    windowAge,   \* ground truth: ticks since the end of that window's oldest board
    slip,        \* ground truth: ticks by which its end_utc came too late
    chat,        \* stage of the one chat in flight
    epoch,       \* injectionGeneration of each page
    gets,        \* monitor requests of each page in flight
    shown,       \* injection of the verdict each page shows, or Nothing
    switching,   \* stage of each page's switch
    made,        \* the number a switch got that is not answered yet, or 0
    up,          \* whether the model service is loaded
    waiting,     \* callers whose request waits for the runtime lock
    orphans,     \* waiting requests whose caller has given up
    running,     \* whose request holds the runtime lock
    slow,        \* whether that one outlasts the watchdog's limit
    age,         \* its age in ticks (inference_started_mono)
    watchdog,    \* stage of the watchdog thread
    confirmed,   \* ground truth: last switch each page had confirmed
    chats, faults \* counted against their bounds

popupVars   == <<injection, generation, snapshot, mutex>>
windowVars  == <<endAge, windowAge, slip>>
monitorVars == <<pc, mine, drawn, outcome, windowVars>>
pageVars    == <<epoch, gets, shown, switching, made, confirmed>>
serverVars  == <<up, waiting, orphans, running, slow, age, watchdog>>
vars == <<popupVars, monitorVars, chat, pageVars, serverVars, chats, faults>>

Nothing == -1
Callers == {"monitor", "chat"}
Oldest  == Stale + MaxLag

\* Ages are counted no further than a limit tells apart.
Capped(n, limit) == IF n > limit THEN limit + 1 ELSE n

Snapshot(kind, stamp, counted, real, late) ==
    [kind |-> kind, stamp |-> stamp, counted |-> counted, real |-> real, late |-> late]
Get(since, answer, stamp, old) ==
    [since |-> since, answer |-> answer, stamp |-> stamp, old |-> old]

NoSnapshot  == Snapshot("none", 0, 0, 0, 0)
Unavailable == Snapshot("unavailable", 0, 0, 0, 0)

Fault == faults < MaxFaults /\ faults' = faults + 1

Init ==
    /\ injection = 0 /\ generation = 0 /\ snapshot = NoSnapshot /\ mutex = None
    /\ pc = "begin" /\ mine = 0 /\ drawn = 0 /\ outcome = "none"
    /\ endAge = 0 /\ windowAge = 0 /\ slip = 0
    /\ chat = "none"
    /\ epoch = [p \in Pages |-> 0] /\ gets = [p \in Pages |-> {}]
    /\ shown = [p \in Pages |-> Nothing]
    /\ switching = [p \in Pages |-> "idle"] /\ made = [p \in Pages |-> 0]
    /\ up = TRUE /\ waiting = {} /\ orphans = 0 /\ running = "none"
    /\ slow = FALSE /\ age = 0 /\ watchdog = "asleep"
    /\ confirmed = [p \in Pages |-> 0] /\ chats = 0 /\ faults = 0

TypeOK ==
    /\ injection \in Nat /\ generation \in Nat
    /\ snapshot \in [kind : {"none", "unavailable", "verdict"}, stamp : Nat,
                     counted : 0..Stale + 1, real : 0..Oldest + 1, late : 0..MaxLag]
    /\ mutex \in Pages \cup {None}
    /\ pc \in {"begin", "guard", "acquire", "decide", "capture", "ask", "await",
               "record", "publish"}
    /\ mine \in Nat /\ drawn \in Nat
    /\ endAge \in 0..Stale + 1 /\ windowAge \in 0..Oldest + 1 /\ slip \in 0..MaxLag
    /\ outcome \in {"none", "verdict", "failed", "error", "paused", "raised"}
    /\ chat \in {"none", "bind", "ask", "await"}
    /\ epoch \in [Pages -> Nat] /\ made \in [Pages -> Nat]
    /\ confirmed \in [Pages -> Nat]
    /\ gets \in [Pages -> SUBSET [since : Nat, answer : {"open", "nothing", "verdict"},
                                  stamp : Nat, old : BOOLEAN]]
    /\ shown \in [Pages -> Nat \cup {Nothing}]
    /\ switching \in [Pages -> {"idle", "setting", "done"}]
    /\ up \in BOOLEAN /\ waiting \subseteq Callers /\ orphans \in Nat
    /\ running \in Callers \cup {"none", "orphan"} /\ slow \in BOOLEAN
    /\ age \in 0..WatchdogLimit + 1 /\ watchdog \in {"asleep", "looking", "acting", "dead"}
    /\ chats \in 0..MaxChats /\ faults \in 0..MaxFaults

-----------------------------------------------------------------------------
(***************************************************************************)
(* The monitor thread.  Its sleep between two cycles is no step: it        *)
(* touches nothing.                                                        *)
(***************************************************************************)
MonitorMoves(stage) ==
    pc' = stage /\ UNCHANGED <<popupVars, chat, pageVars, chats>>

\* It copies the generation under the lock.
BeginCycle ==
    /\ pc = "begin" /\ mutex = None
    /\ mine' = generation
    /\ MonitorMoves("guard")
    /\ UNCHANGED <<drawn, outcome, windowVars, serverVars, faults>>

\* A chat in flight has the cycle pause.
Guard ==
    /\ pc = "guard"
    /\ IF chat = "none"
       THEN MonitorMoves("acquire") /\ UNCHANGED outcome
       ELSE MonitorMoves("publish") /\ outcome' = "paused"
    /\ UNCHANGED <<mine, drawn, windowVars, serverVars, faults>>

\* The pipeline service measures, or its failure becomes a payload of its own.
Acquire ==
    /\ pc = "acquire"
    /\ \/ MonitorMoves("decide") /\ UNCHANGED <<outcome, faults>>
       \/ Fault /\ MonitorMoves("publish") /\ outcome' = "error"
    /\ UNCHANGED <<mine, drawn, windowVars, serverVars>>

\* The decision reads the environment, once, without the lock.
ReadInjection ==
    /\ pc = "decide"
    /\ drawn' = injection
    /\ MonitorMoves("capture")
    /\ UNCHANGED <<mine, outcome, windowVars, serverVars, faults>>

\* A window ends before its capture is complete, and is dated by an end_utc
\* between the two: the boards' common end, estimated from the times of their
\* files, or the completion itself when the boards cannot be aligned.
Date(lag, late) ==
    /\ windowAge' = lag
    /\ endAge' = Capped(lag - late, Stale)
    /\ slip' = late

\* Six boards are read again, the axes of each one after another, and encoded
\* with that injection (the time it takes is spent in stage "ask").
Capture ==
    /\ pc = "capture"
    /\ \/ /\ MonitorMoves("ask")
          /\ \E lag \in 0..MaxLag : \E late \in 0..lag : Date(lag, late)
          /\ UNCHANGED <<outcome, faults>>
       \/ Fault /\ MonitorMoves("record") /\ outcome' = "failed" /\ UNCHANGED windowVars
    /\ UNCHANGED <<mine, drawn, serverVars>>

\* The window of a decision that failed dates no verdict.
DropWindow == endAge' = 0 /\ windowAge' = 0 /\ slip' = 0

AskModel ==
    /\ pc = "ask"
    /\ IF up
       THEN MonitorMoves("await") /\ waiting' = waiting \cup {"monitor"}
            /\ UNCHANGED <<outcome, windowVars>>
       ELSE MonitorMoves("record") /\ outcome' = "failed" /\ DropWindow /\ UNCHANGED waiting
    /\ UNCHANGED <<mine, drawn, up, orphans, running, slow, age, watchdog, faults>>

\* History and registry; what raises here or before ends in the loop's handler.
Record ==
    /\ pc = "record"
    /\ \/ UNCHANGED <<outcome, windowVars, faults>>
       \/ Fault /\ outcome' = "raised" /\ DropWindow
    /\ MonitorMoves("publish")
    /\ UNCHANGED <<mine, drawn, serverVars>>

\* The locals of a cycle end with it.
EndCycle ==
    /\ pc' = "begin" /\ mine' = 0 /\ drawn' = 0 /\ outcome' = "none" /\ DropWindow
    /\ UNCHANGED <<injection, generation, mutex, chat, pageVars, serverVars, chats, faults>>

\* Mutant of MatchesInjection: an empty snapshot takes whatever a cycle brings.
MatchesOrEmpty == mine = generation \/ snapshot.kind = "none"

MatchesInjection == mine = generation

\* Mutant of CountedAge: the snapshot is dated by its publication.
AgeOfPayload == 0

\* Time since end_utc, which every verdict has.
CountedAge == endAge

\* A payload of the present injection is published, dated by its window's end.
Publish ==
    /\ pc = "publish" /\ outcome # "raised" /\ mutex = None
    /\ snapshot' =
        IF outcome = "paused" \/ ~MatchesInjection THEN snapshot
        ELSE IF outcome = "verdict"
             THEN Snapshot("verdict", drawn, CountedAge, windowAge, slip)
             ELSE Unavailable
    /\ EndCycle

\* The handler replaces the snapshot too, unless the injection was switched.
PublishFailure ==
    /\ pc = "publish" /\ outcome = "raised" /\ mutex = None
    /\ snapshot' = IF mine = generation THEN Unavailable ELSE snapshot
    /\ EndCycle

-----------------------------------------------------------------------------
(***************************************************************************)
(* The model service.  Its handlers know nothing of a caller's time-out.   *)
(***************************************************************************)
\* Whoever waited for the answer to a request that ended goes on.
CallerEnds(callers, result) ==
    /\ IF "monitor" \in callers
       THEN /\ pc' = "record" /\ outcome' = result
            /\ IF result = "verdict" THEN UNCHANGED windowVars ELSE DropWindow
       ELSE UNCHANGED <<pc, outcome, windowVars>>
    /\ chat' = IF "chat" \in callers THEN "none" ELSE chat
    /\ UNCHANGED <<popupVars, mine, drawn, pageVars, chats>>

\* A handler takes the runtime lock and starts the clock of the watchdog; the
\* generation may turn out to be slow, or to hang.
TakeRuntime ==
    /\ up /\ running = "none"
    /\ \/ \E c \in waiting :
            running' = c /\ waiting' = waiting \ {c} /\ UNCHANGED orphans
       \/ orphans > 0 /\ running' = "orphan" /\ orphans' = orphans - 1 /\ UNCHANGED waiting
    /\ \/ slow' = FALSE /\ UNCHANGED faults
       \/ Fault /\ slow' = TRUE
    /\ age' = 0
    /\ UNCHANGED <<popupVars, monitorVars, chat, pageVars, up, watchdog, chats>>

\* The generation returns; the reply may be one the monitor rejects.
Finish ==
    /\ running # "none"
    /\ running' = "none" /\ slow' = FALSE /\ age' = 0
    /\ \/ CallerEnds({running}, "verdict") /\ UNCHANGED faults
       \/ running = "monitor" /\ Fault /\ CallerEnds({running}, "failed")
    /\ UNCHANGED <<up, waiting, orphans, watchdog>>

\* A caller's HTTP time-out: its request stays where it is.  That of a slow
\* generation is no fault of its own.
TimeOut(c) ==
    /\ c \in waiting \cup {running}
    /\ IF c = running /\ slow THEN UNCHANGED faults ELSE Fault
    /\ IF c \in waiting
       THEN waiting' = waiting \ {c} /\ orphans' = orphans + 1 /\ UNCHANGED running
       ELSE running' = "orphan" /\ UNCHANGED <<waiting, orphans>>
    /\ CallerEnds({c}, "failed")
    /\ UNCHANGED <<up, slow, age, watchdog>>

\* Mutant of Timed: the chat's section does not start the clock.
TimedClassification == running = "monitor"

\* Whether inference_started_mono is set: both sections set it under the lock.
Timed == running # "none"

\* The watchdog reads the start of the generation twice: once to see that there
\* is one, and once for its age.  In between it may have ended, and the
\* subtraction raises in the watchdog's own thread.
Notice ==
    /\ watchdog = "asleep" /\ up /\ Timed
    /\ watchdog' = "looking"
    /\ UNCHANGED <<popupVars, monitorVars, chat, pageVars, up, waiting, orphans,
                   running, slow, age, chats, faults>>

Measure ==
    /\ watchdog = "looking"
    /\ watchdog' = IF ~Timed THEN "dead"
                   ELSE IF age >= WatchdogLimit THEN "acting" ELSE "asleep"
    /\ UNCHANGED <<popupVars, monitorVars, chat, pageVars, up, waiting, orphans,
                   running, slow, age, chats, faults>>

\* It replaces the process, with whatever runs in it by then.
Exec ==
    /\ watchdog = "acting"
    /\ up' = FALSE /\ watchdog' = "asleep"
    /\ waiting' = {} /\ orphans' = 0 /\ running' = "none" /\ slow' = FALSE /\ age' = 0
    /\ CallerEnds(waiting \cup {running}, "failed")
    /\ UNCHANGED faults

Load ==
    /\ ~up /\ up' = TRUE
    /\ UNCHANGED <<popupVars, monitorVars, chat, pageVars, waiting, orphans, running,
                   slow, age, watchdog, chats, faults>>

-----------------------------------------------------------------------------
(***************************************************************************)
(* A chat: one in flight; what it is about is fixed at its beginning.      *)
(***************************************************************************)
ChatBegins ==
    /\ chat = "none" /\ chats < MaxChats
    /\ chat' = "bind" /\ chats' = chats + 1
    /\ UNCHANGED <<popupVars, monitorVars, pageVars, serverVars, faults>>

\* A chat about anything but a snapshot that is fresh and still the one selected,
\* a saved check or a spectrum is answered at once, and the model is not asked.
ChatBinds ==
    /\ chat = "bind" /\ mutex = None
    /\ chat' \in {"ask", "none"}
    /\ UNCHANGED <<popupVars, monitorVars, pageVars, serverVars, chats, faults>>

ChatAsks ==
    /\ chat = "ask"
    /\ IF up
       THEN chat' = "await" /\ waiting' = waiting \cup {"chat"}
       ELSE chat' = "none" /\ UNCHANGED waiting
    /\ UNCHANGED <<popupVars, monitorVars, pageVars, up, orphans, running, slow, age,
                   watchdog, chats, faults>>

-----------------------------------------------------------------------------
(***************************************************************************)
(* A page polls, and switches the injection.                               *)
(***************************************************************************)
PageMoves == UNCHANGED <<monitorVars, chat, serverVars, chats, faults>>

Poll(p) ==
    /\ Cardinality(gets[p]) < MaxGets
    /\ gets' = [gets EXCEPT ![p] = @ \cup {Get(epoch[p], "open", 0, FALSE)}]
    /\ UNCHANGED <<popupVars, epoch, shown, switching, made, confirmed>>
    /\ PageMoves

Fresh == snapshot.kind = "verdict" /\ snapshot.counted <= Stale

\* The window ended longer ago than the limit and the error of its date allow.
Overdue == snapshot.real > Stale + snapshot.late

\* Every page is served the one snapshot; a stale verdict is withheld.
Serve(p) ==
    /\ mutex = None
    /\ \E g \in gets[p] :
        /\ g.answer = "open"
        /\ gets' = [gets EXCEPT ![p] = (@ \ {g}) \cup
            {IF Fresh THEN Get(g.since, "verdict", snapshot.stamp, Overdue)
                      ELSE Get(g.since, "nothing", 0, FALSE)}]
    /\ UNCHANGED <<popupVars, epoch, shown, switching, made, confirmed>>
    /\ PageMoves

\* An answer to a request of before the page's own last switch is dropped, as
\* one that got lost may be.
Dropped(p, g) == g.since # epoch[p]

Arrive(p) ==
    /\ \E g \in gets[p] :
        /\ g.answer # "open"
        /\ gets' = [gets EXCEPT ![p] = @ \ {g}]
        /\ shown' = IF Dropped(p, g) THEN shown
                    ELSE [shown EXCEPT ![p] =
                            IF g.answer = "verdict" THEN g.stamp ELSE Nothing]
    /\ UNCHANGED <<popupVars, epoch, switching, made, confirmed>>
    /\ PageMoves

\* The request failed: the page shows no verdict.
Lost(p) ==
    /\ \E g \in gets[p] :
        /\ gets' = [gets EXCEPT ![p] = @ \ {g}]
        /\ shown' = IF Dropped(p, g) THEN shown ELSE [shown EXCEPT ![p] = Nothing]
    /\ UNCHANGED <<popupVars, epoch, switching, made, confirmed>>
    /\ PageMoves

\* The handler of a switch: the environment first, then generation and snapshot.
SetEnvironment(p) ==
    /\ switching[p] = "idle" /\ mutex = None /\ injection < MaxSwitches
    /\ mutex' = p /\ injection' = injection + 1
    /\ switching' = [switching EXCEPT ![p] = "setting"]
    /\ UNCHANGED <<generation, snapshot, epoch, gets, shown, made, confirmed>>
    /\ PageMoves

Cleared == NoSnapshot

ClearSnapshot(p) ==
    /\ switching[p] = "setting"
    /\ generation' = generation + 1 /\ snapshot' = Cleared /\ mutex' = None
    /\ made' = [made EXCEPT ![p] = generation']
    /\ switching' = [switching EXCEPT ![p] = "done"]
    /\ UNCHANGED <<injection, epoch, gets, shown, confirmed>>
    /\ PageMoves

\* The answer reaches the page, which forgets what it showed.
NextEpoch(p) == epoch[p] + 1

Confirm(p) ==
    /\ switching[p] = "done"
    /\ switching' = [switching EXCEPT ![p] = "idle"]
    /\ epoch' = [epoch EXCEPT ![p] = NextEpoch(p)]
    /\ shown' = [shown EXCEPT ![p] = Nothing]
    /\ confirmed' = [confirmed EXCEPT ![p] = made[p]]
    /\ made' = [made EXCEPT ![p] = 0]
    /\ UNCHANGED <<popupVars, gets>>
    /\ PageMoves

\* Or it gets lost, and the page stays as it was.
Unconfirmed(p) ==
    /\ switching[p] = "done"
    /\ switching' = [switching EXCEPT ![p] = "idle"]
    /\ made' = [made EXCEPT ![p] = 0]
    /\ UNCHANGED <<popupVars, epoch, gets, shown, confirmed>>
    /\ PageMoves

-----------------------------------------------------------------------------
\* A generation that is not slow ends before the watchdog's limit.
Tick ==
    /\ (running # "none" /\ ~slow) => age + 1 < WatchdogLimit
    /\ age' = IF running = "none" THEN 0 ELSE Capped(age + 1, WatchdogLimit)
    /\ IF pc \in {"ask", "await", "record", "publish"}
       THEN endAge' = Capped(endAge + 1, Stale) /\ windowAge' = Capped(windowAge + 1, Oldest)
       ELSE endAge' = 0 /\ windowAge' = 0
    /\ snapshot' = IF snapshot.kind # "verdict" THEN snapshot
                   ELSE [snapshot EXCEPT !.counted = Capped(@ + 1, Stale),
                                         !.real = Capped(@ + 1, Oldest)]
    /\ UNCHANGED <<injection, generation, mutex, pc, mine, drawn, outcome, slip, chat,
                   pageVars, up, waiting, orphans, running, slow, watchdog, chats, faults>>

Monitor == \/ BeginCycle \/ Guard \/ Acquire \/ ReadInjection \/ Capture
           \/ AskModel \/ Record \/ Publish \/ PublishFailure
Watch   == Notice \/ Measure \/ Exec
Chat    == ChatBinds \/ ChatAsks
Page(p) == \/ Poll(p) \/ Serve(p) \/ Arrive(p) \/ Lost(p) \/ SetEnvironment(p)
           \/ ClearSnapshot(p) \/ Confirm(p) \/ Unconfirmed(p)

Next ==
    \/ Monitor \/ TakeRuntime \/ Finish \/ Watch \/ Load
    \/ ChatBegins \/ Chat \/ Tick
    \/ \E c \in Callers : TimeOut(c)
    \/ \E p \in Pages : Page(p)

Spec == Init /\ [][Next]_vars

\* Threads are scheduled, the service loads, time passes, and a generation that
\* is not slow returns; a slow one may never do.
FairSpec ==
    /\ Spec
    /\ WF_vars(Monitor) /\ WF_vars(Chat) /\ WF_vars(TakeRuntime) /\ WF_vars(Load)
    /\ WF_vars(~slow /\ Finish) /\ WF_vars(Watch) /\ WF_vars(Tick)
    /\ \A p \in Pages : WF_vars(ClearSnapshot(p))

-----------------------------------------------------------------------------
(***************************************************************************)
(* Properties.                                                             *)
(***************************************************************************)
\* A page whose switch of the injection was confirmed shows no verdict about
\* the boards as they were before it: not from the cycle that was under way,
\* nor from a snapshot served earlier that arrives later (_monitor_loop, its
\* generation check, against _set_synthetic_injection and fetchMonitor).
PageFollowsSwitch ==
    \A p \in Pages : shown[p] # Nothing => shown[p] >= confirmed[p]

\* No page is served as current a verdict whose window ended longer ago than
\* the stale limit, however long the model took over it; older it may be only by
\* what its end_utc came too late, which is up to the whole lag of the capture if
\* the boards could not be aligned (latest_monitor, the capture age in
\* _monitor_loop, _finalize_capture).
ServedIsRecent ==
    \A p \in Pages : \A g \in gets[p] : g.answer = "verdict" => ~g.old

\* When chats, switches and faults have ceased there is a verdict again, and
\* again, unless the watchdog's thread has died of its second look.
VerdictReturns == []<>(snapshot.kind = "verdict") \/ <>(watchdog = "dead")
=============================================================================
