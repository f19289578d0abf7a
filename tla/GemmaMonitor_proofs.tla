------------------------- MODULE GemmaMonitor_proofs ------------------------
(***************************************************************************)
(* Theorems about GemmaMonitor, for any pages, any limits of age and any   *)
(* number of switches, chats and faults.                                   *)
(***************************************************************************)
EXTENDS GemmaMonitor, TLAPS

-----------------------------------------------------------------------------
(***************************************************************************)
(* The inductive invariant.                                                *)
(***************************************************************************)
\* The environment is ahead of the generation inside a switch, and only there.
SwitchInv ==
    /\ injection = generation + (IF mutex = None THEN 0 ELSE 1)
    /\ \A p \in Pages : mutex = p <=> switching[p] = "setting"
    /\ \A p \in Pages : confirmed[p] <= generation /\ made[p] <= generation

\* The monitor has one request, and only while it waits for the answer.
CallInv ==
    /\ "monitor" \in waiting \/ running = "monitor" => pc = "await"
    /\ "monitor" \in waiting => running # "monitor"

\* The injection a cycle has read is no older than the cycle.
CycleInv ==
    /\ mine <= generation /\ drawn <= injection
    /\ pc \in {"capture", "ask", "await"} \/ outcome = "verdict" => mine <= drawn
    /\ outcome = "verdict" => pc \in {"record", "publish"}

\* A counted age within the limit is behind the real one by no more than the
\* error of the date from which it counts.
Dated(counted, real, late) == counted <= Stale => real <= counted + late

\* So it is with the window of the cycle.
WindowInv == Dated(endAge, windowAge, slip)

\* A published verdict is about the present injection, and dated by its window.
SnapshotInv ==
    snapshot.kind = "verdict" =>
        /\ generation <= snapshot.stamp /\ snapshot.stamp <= injection
        /\ Dated(snapshot.counted, snapshot.real, snapshot.late)

\* What is on its way to a page that would not drop it follows its last switch.
PageInv ==
    \A p \in Pages :
        /\ \A g \in gets[p] :
            /\ g.since <= epoch[p]
            /\ g.answer = "verdict" /\ g.since = epoch[p] => confirmed[p] <= g.stamp
        /\ shown[p] # Nothing => confirmed[p] <= shown[p]

IInv ==
    /\ TypeOK /\ SwitchInv /\ CallInv /\ CycleInv /\ WindowInv /\ SnapshotInv
    /\ PageInv /\ ServedIsRecent

-----------------------------------------------------------------------------
(***************************************************************************)
(* Each part is kept by every step.                                        *)
(***************************************************************************)
LEMMA OldestIsNat == Oldest \in Nat
  BY LimitAssumption DEF Oldest

\* Every step keeps the types.
LEMMA TypesStep ==
    ASSUME IInv, [Next]_vars
    PROVE  TypeOK'
  <1> USE PageAssumption, LimitAssumption, BoundAssumption, OldestIsNat
      DEF windowVars, DropWindow, IInv, TypeOK, Callers, popupVars, monitorVars, pageVars, serverVars
  <1>1. CASE BeginCycle
    BY <1>1 DEF BeginCycle, MonitorMoves
  <1>2. CASE Guard
    BY <1>2 DEF Guard, MonitorMoves
  <1>3. CASE Acquire
    BY <1>3 DEF Acquire, MonitorMoves, Fault
  <1>4. CASE ReadInjection
    BY <1>4 DEF ReadInjection, MonitorMoves
  <1>5. CASE Capture
    <2>1. endAge' \in 0..Stale + 1 /\ windowAge' \in 0..Oldest + 1 /\ slip' \in 0..MaxLag
      BY <1>5 DEF Capture, Date, Capped, Oldest, Fault
    <2> QED
      BY <1>5, <2>1 DEF Capture, MonitorMoves, Fault
  <1>6. CASE AskModel
    <2>1. waiting' \subseteq Callers
      BY <1>6, Zenon DEF AskModel, MonitorMoves
    <2> QED
      BY <1>6, <2>1 DEF AskModel, MonitorMoves
  <1>7. CASE Record
    BY <1>7 DEF Record, MonitorMoves, Fault
  <1>8. CASE Publish
    BY <1>8 DEF Publish, EndCycle, MatchesInjection, CountedAge, Unavailable,
       Snapshot
  <1>9. CASE PublishFailure
    BY <1>9 DEF PublishFailure, EndCycle, Unavailable, Snapshot
  <1>10. CASE TakeRuntime
    <2>1. up' \in BOOLEAN /\ slow' \in BOOLEAN
      BY <1>10, Zenon DEF TakeRuntime, Fault
    <2>2. waiting' \subseteq Callers
      BY <1>10, Zenon DEF TakeRuntime, Fault
    <2> QED
      BY <1>10, <2>1, <2>2 DEF TakeRuntime, Fault
  <1>11. CASE Finish
    <2>1. up' \in BOOLEAN /\ slow' \in BOOLEAN
      BY <1>11, Zenon DEF Finish, CallerEnds, Fault
    <2>2. waiting' \subseteq Callers
      BY <1>11, Zenon DEF Finish, CallerEnds, Fault
    <2> QED
      BY <1>11, <2>1, <2>2 DEF Finish, CallerEnds, Fault
  <1>12. CASE Notice
    BY <1>12 DEF Notice, Timed
  <1>13. CASE Measure
    BY <1>13 DEF Measure, Timed
  <1>14. CASE Exec
    <2>1. up' \in BOOLEAN /\ slow' \in BOOLEAN
      BY <1>14, Zenon DEF Exec, CallerEnds
    <2>2. waiting' \subseteq Callers
      BY <1>14, Zenon DEF Exec, CallerEnds
    <2> QED
      BY <1>14, <2>1, <2>2 DEF Exec, CallerEnds
  <1>15. CASE Load
    BY <1>15 DEF Load
  <1>16. CASE ChatBegins
    BY <1>16 DEF ChatBegins
  <1>17. CASE ChatBinds
    BY <1>17 DEF ChatBinds
  <1>18. CASE ChatAsks
    <2>1. waiting' \subseteq Callers
      BY <1>18, Zenon DEF ChatAsks
    <2> QED
      BY <1>18, <2>1 DEF ChatAsks
  <1>19. CASE Tick
    <2>1. \A n \in Nat, limit \in Nat : n \in 0..limit + 1 => Capped(n + 1, limit) \in 0..limit + 1
      BY DEF Capped
    <2>2. /\ endAge' \in 0..Stale + 1 /\ windowAge' \in 0..Oldest + 1
          /\ age' \in 0..WatchdogLimit + 1
      BY <1>19, <2>1 DEF Tick
    <2>4. /\ Capped(snapshot.counted + 1, Stale) \in 0..Stale + 1
          /\ Capped(snapshot.real + 1, Oldest) \in 0..Oldest + 1
      BY <2>1
    <2>3. snapshot' \in [kind : {"none", "unavailable", "verdict"}, stamp : Nat,
                         counted : 0..Stale + 1, real : 0..Oldest + 1, late : 0..MaxLag]
      BY <1>19, <2>4 DEF Tick
    <2> QED
      BY <1>19, <2>2, <2>3 DEF Tick
  <1>20. ASSUME NEW c \in Callers, TimeOut(c) PROVE TypeOK'
    <2>1. up' \in BOOLEAN /\ slow' \in BOOLEAN
      BY <1>20, Zenon DEF TimeOut, CallerEnds, Fault
    <2>2. waiting' \subseteq Callers
      BY <1>20, Zenon DEF TimeOut, CallerEnds, Fault
    <2> QED
      BY <1>20, <2>1, <2>2 DEF TimeOut, CallerEnds, Fault
  <1>21. ASSUME NEW p \in Pages, Poll(p) PROVE TypeOK'
    <2>1. Get(epoch[p], "open", 0, FALSE)
            \in [since : Nat, answer : {"open", "nothing", "verdict"}, stamp : Nat, old : BOOLEAN]
      BY DEF Get
    <2>2. gets' \in [Pages -> SUBSET
            [since : Nat, answer : {"open", "nothing", "verdict"}, stamp : Nat, old : BOOLEAN]]
      BY <1>21, <2>1 DEF Poll
    <2>9. UNCHANGED <<popupVars, epoch, shown, switching, made, confirmed, monitorVars,
                      chat, serverVars, chats, faults>>
      BY <1>21 DEF Poll, PageMoves
    <2> QED
      BY <2>2, <2>9
  <1>22. ASSUME NEW p \in Pages, Serve(p) PROVE TypeOK'
    <2> DEFINE Type == [since : Nat, answer : {"open", "nothing", "verdict"}, stamp : Nat, old : BOOLEAN]
    <2>1. PICK g \in gets[p] : Serve(p)!2!(g)
      BY <1>22 DEF Serve
    <2>2. \A b \in BOOLEAN : /\ Get(g.since, "verdict", snapshot.stamp, b) \in Type
                            /\ Get(g.since, "nothing", 0, FALSE) \in Type
      BY DEF Get
    <2>3. Overdue \in BOOLEAN
      BY DEF Overdue
    <2> DEFINE answer == IF Fresh THEN Get(g.since, "verdict", snapshot.stamp, Overdue)
                                  ELSE Get(g.since, "nothing", 0, FALSE)
    <2>4. answer \in Type
      BY <2>2, <2>3
    <2>5. gets' = [gets EXCEPT ![p] = (gets[p] \ {g}) \cup {answer}]
      BY <2>1
    <2> HIDE DEF answer
    <2>6. gets' \in [Pages -> SUBSET Type]
      BY <2>4, <2>5
    <2>9. UNCHANGED <<popupVars, epoch, shown, switching, made, confirmed, monitorVars,
                      chat, serverVars, chats, faults>>
      BY <1>22 DEF Serve, PageMoves
    <2> QED
      BY <2>6, <2>9
  <1>23. ASSUME NEW p \in Pages, Arrive(p) PROVE TypeOK'
    BY <1>23 DEF Arrive, PageMoves, Dropped, Nothing
  <1>24. ASSUME NEW p \in Pages, Lost(p) PROVE TypeOK'
    BY <1>24 DEF Lost, PageMoves, Dropped, Nothing
  <1>25. ASSUME NEW p \in Pages, SetEnvironment(p) PROVE TypeOK'
    BY <1>25 DEF SetEnvironment, PageMoves
  <1>26. ASSUME NEW p \in Pages, ClearSnapshot(p) PROVE TypeOK'
    BY <1>26 DEF ClearSnapshot, PageMoves, Cleared, NoSnapshot, Snapshot
  <1>27. ASSUME NEW p \in Pages, Confirm(p) PROVE TypeOK'
    BY <1>27 DEF Confirm, PageMoves, NextEpoch, Nothing
  <1>28. ASSUME NEW p \in Pages, Unconfirmed(p) PROVE TypeOK'
    BY <1>28 DEF Unconfirmed, PageMoves
  <1>29. CASE UNCHANGED vars
    BY <1>29 DEF vars
  <1> QED
    BY <1>1, <1>2, <1>3, <1>4, <1>5, <1>6, <1>7, <1>8, <1>9, <1>10, <1>11, <1>12,
       <1>13, <1>14, <1>15, <1>16, <1>17, <1>18, <1>19, <1>20, <1>21, <1>22,
       <1>23, <1>24, <1>25, <1>26, <1>27, <1>28, <1>29
    DEF Next, Monitor, Watch, Chat, Page

\* A switch sets environment and generation inside the lock.
LEMMA SwitchStep ==
    ASSUME IInv, [Next]_vars
    PROVE  SwitchInv'
  <1> USE PageAssumption, LimitAssumption, BoundAssumption
      DEF windowVars, DropWindow, IInv, TypeOK, SwitchInv, popupVars, monitorVars, pageVars, serverVars
  <1>1. CASE BeginCycle
    BY <1>1 DEF BeginCycle, MonitorMoves
  <1>2. CASE Guard
    BY <1>2 DEF Guard, MonitorMoves
  <1>3. CASE Acquire
    BY <1>3 DEF Acquire, MonitorMoves, Fault
  <1>4. CASE ReadInjection
    BY <1>4 DEF ReadInjection, MonitorMoves
  <1>5. CASE Capture
    BY <1>5 DEF Capture, Date, MonitorMoves, Fault
  <1>6. CASE AskModel
    BY <1>6 DEF AskModel, MonitorMoves
  <1>7. CASE Record
    BY <1>7 DEF Record, MonitorMoves, Fault
  <1>8. CASE Publish
    BY <1>8 DEF Publish, EndCycle, MatchesInjection, CountedAge, Unavailable,
       Snapshot
  <1>9. CASE PublishFailure
    BY <1>9 DEF PublishFailure, EndCycle, Unavailable, Snapshot
  <1>10. CASE TakeRuntime
    BY <1>10 DEF TakeRuntime, Fault
  <1>11. CASE Finish
    BY <1>11 DEF Finish, CallerEnds, Fault
  <1>12. CASE Notice
    BY <1>12 DEF Notice, Timed
  <1>13. CASE Measure
    BY <1>13 DEF Measure, Timed
  <1>14. CASE Exec
    BY <1>14 DEF Exec, CallerEnds
  <1>15. CASE Load
    BY <1>15 DEF Load
  <1>16. CASE ChatBegins
    BY <1>16 DEF ChatBegins
  <1>17. CASE ChatBinds
    BY <1>17 DEF ChatBinds
  <1>18. CASE ChatAsks
    BY <1>18 DEF ChatAsks
  <1>19. CASE Tick
    BY <1>19 DEF Tick, Capped
  <1>20. ASSUME NEW c \in Callers, TimeOut(c) PROVE SwitchInv'
    BY <1>20 DEF TimeOut, CallerEnds, Fault
  <1>21. ASSUME NEW p \in Pages, Poll(p) PROVE SwitchInv'
    BY <1>21 DEF Poll, PageMoves, Get
  <1>22. ASSUME NEW p \in Pages, Serve(p) PROVE SwitchInv'
    BY <1>22 DEF Serve, PageMoves, Get, Fresh
  <1>23. ASSUME NEW p \in Pages, Arrive(p) PROVE SwitchInv'
    BY <1>23 DEF Arrive, PageMoves, Dropped, Nothing
  <1>24. ASSUME NEW p \in Pages, Lost(p) PROVE SwitchInv'
    BY <1>24 DEF Lost, PageMoves, Dropped, Nothing
  <1>25. ASSUME NEW p \in Pages, SetEnvironment(p) PROVE SwitchInv'
    BY <1>25 DEF SetEnvironment, PageMoves
  <1>26. ASSUME NEW p \in Pages, ClearSnapshot(p) PROVE SwitchInv'
    BY <1>26 DEF ClearSnapshot, PageMoves, Cleared, NoSnapshot, Snapshot
  <1>27. ASSUME NEW p \in Pages, Confirm(p) PROVE SwitchInv'
    BY <1>27 DEF Confirm, PageMoves, NextEpoch, Nothing
  <1>28. ASSUME NEW p \in Pages, Unconfirmed(p) PROVE SwitchInv'
    BY <1>28 DEF Unconfirmed, PageMoves
  <1>29. CASE UNCHANGED vars
    BY <1>29 DEF vars
  <1> QED
    BY <1>1, <1>2, <1>3, <1>4, <1>5, <1>6, <1>7, <1>8, <1>9, <1>10, <1>11, <1>12,
       <1>13, <1>14, <1>15, <1>16, <1>17, <1>18, <1>19, <1>20, <1>21, <1>22,
       <1>23, <1>24, <1>25, <1>26, <1>27, <1>28, <1>29
    DEF Next, Monitor, Watch, Chat, Page

\* A request of the monitor ends with its wait.
LEMMA CallStep ==
    ASSUME IInv, [Next]_vars
    PROVE  CallInv'
  <1> USE PageAssumption, LimitAssumption, BoundAssumption
      DEF windowVars, DropWindow, IInv, TypeOK, CallInv, Callers, popupVars, monitorVars, pageVars,
          serverVars
  <1>1. CASE BeginCycle
    BY <1>1 DEF BeginCycle, MonitorMoves
  <1>2. CASE Guard
    BY <1>2 DEF Guard, MonitorMoves
  <1>3. CASE Acquire
    BY <1>3 DEF Acquire, MonitorMoves, Fault
  <1>4. CASE ReadInjection
    BY <1>4 DEF ReadInjection, MonitorMoves
  <1>5. CASE Capture
    BY <1>5 DEF Capture, Date, MonitorMoves, Fault
  <1>6. CASE AskModel
    BY <1>6 DEF AskModel, MonitorMoves
  <1>7. CASE Record
    BY <1>7 DEF Record, MonitorMoves, Fault
  <1>8. CASE Publish
    BY <1>8 DEF Publish, EndCycle, MatchesInjection, CountedAge, Unavailable,
       Snapshot
  <1>9. CASE PublishFailure
    BY <1>9 DEF PublishFailure, EndCycle, Unavailable, Snapshot
  <1>10. CASE TakeRuntime
    BY <1>10 DEF TakeRuntime, Fault
  <1>11. CASE Finish
    BY <1>11 DEF Finish, CallerEnds, Fault
  <1>12. CASE Notice
    BY <1>12 DEF Notice, Timed
  <1>13. CASE Measure
    BY <1>13 DEF Measure, Timed
  <1>14. CASE Exec
    BY <1>14 DEF Exec, CallerEnds
  <1>15. CASE Load
    BY <1>15 DEF Load
  <1>16. CASE ChatBegins
    BY <1>16 DEF ChatBegins
  <1>17. CASE ChatBinds
    BY <1>17 DEF ChatBinds
  <1>18. CASE ChatAsks
    BY <1>18 DEF ChatAsks
  <1>19. CASE Tick
    BY <1>19 DEF Tick, Capped
  <1>20. ASSUME NEW c \in Callers, TimeOut(c) PROVE CallInv'
    BY <1>20 DEF TimeOut, CallerEnds, Fault
  <1>21. ASSUME NEW p \in Pages, Poll(p) PROVE CallInv'
    BY <1>21 DEF Poll, PageMoves, Get
  <1>22. ASSUME NEW p \in Pages, Serve(p) PROVE CallInv'
    BY <1>22 DEF Serve, PageMoves, Get, Fresh
  <1>23. ASSUME NEW p \in Pages, Arrive(p) PROVE CallInv'
    BY <1>23 DEF Arrive, PageMoves, Dropped, Nothing
  <1>24. ASSUME NEW p \in Pages, Lost(p) PROVE CallInv'
    BY <1>24 DEF Lost, PageMoves, Dropped, Nothing
  <1>25. ASSUME NEW p \in Pages, SetEnvironment(p) PROVE CallInv'
    BY <1>25 DEF SetEnvironment, PageMoves
  <1>26. ASSUME NEW p \in Pages, ClearSnapshot(p) PROVE CallInv'
    BY <1>26 DEF ClearSnapshot, PageMoves, Cleared, NoSnapshot, Snapshot
  <1>27. ASSUME NEW p \in Pages, Confirm(p) PROVE CallInv'
    BY <1>27 DEF Confirm, PageMoves, NextEpoch, Nothing
  <1>28. ASSUME NEW p \in Pages, Unconfirmed(p) PROVE CallInv'
    BY <1>28 DEF Unconfirmed, PageMoves
  <1>29. CASE UNCHANGED vars
    BY <1>29 DEF vars
  <1> QED
    BY <1>1, <1>2, <1>3, <1>4, <1>5, <1>6, <1>7, <1>8, <1>9, <1>10, <1>11, <1>12,
       <1>13, <1>14, <1>15, <1>16, <1>17, <1>18, <1>19, <1>20, <1>21, <1>22,
       <1>23, <1>24, <1>25, <1>26, <1>27, <1>28, <1>29
    DEF Next, Monitor, Watch, Chat, Page

\* A cycle reads the environment after the generation.
LEMMA CycleStep ==
    ASSUME IInv, [Next]_vars
    PROVE  CycleInv'
  <1> USE PageAssumption, LimitAssumption, BoundAssumption
      DEF windowVars, DropWindow, IInv, TypeOK, SwitchInv, CallInv, CycleInv, Callers, popupVars,
          monitorVars, pageVars, serverVars
  <1>1. CASE BeginCycle
    BY <1>1 DEF BeginCycle, MonitorMoves
  <1>2. CASE Guard
    BY <1>2 DEF Guard, MonitorMoves
  <1>3. CASE Acquire
    BY <1>3 DEF Acquire, MonitorMoves, Fault
  <1>4. CASE ReadInjection
    BY <1>4 DEF ReadInjection, MonitorMoves
  <1>5. CASE Capture
    BY <1>5 DEF Capture, Date, MonitorMoves, Fault
  <1>6. CASE AskModel
    BY <1>6 DEF AskModel, MonitorMoves
  <1>7. CASE Record
    BY <1>7 DEF Record, MonitorMoves, Fault
  <1>8. CASE Publish
    BY <1>8 DEF Publish, EndCycle, MatchesInjection, CountedAge, Unavailable,
       Snapshot
  <1>9. CASE PublishFailure
    BY <1>9 DEF PublishFailure, EndCycle, Unavailable, Snapshot
  <1>10. CASE TakeRuntime
    BY <1>10 DEF TakeRuntime, Fault
  <1>11. CASE Finish
    BY <1>11 DEF Finish, CallerEnds, Fault
  <1>12. CASE Notice
    BY <1>12 DEF Notice, Timed
  <1>13. CASE Measure
    BY <1>13 DEF Measure, Timed
  <1>14. CASE Exec
    BY <1>14 DEF Exec, CallerEnds
  <1>15. CASE Load
    BY <1>15 DEF Load
  <1>16. CASE ChatBegins
    BY <1>16 DEF ChatBegins
  <1>17. CASE ChatBinds
    BY <1>17 DEF ChatBinds
  <1>18. CASE ChatAsks
    BY <1>18 DEF ChatAsks
  <1>19. CASE Tick
    BY <1>19 DEF Tick, Capped
  <1>20. ASSUME NEW c \in Callers, TimeOut(c) PROVE CycleInv'
    BY <1>20 DEF TimeOut, CallerEnds, Fault
  <1>21. ASSUME NEW p \in Pages, Poll(p) PROVE CycleInv'
    BY <1>21 DEF Poll, PageMoves, Get
  <1>22. ASSUME NEW p \in Pages, Serve(p) PROVE CycleInv'
    BY <1>22 DEF Serve, PageMoves, Get, Fresh
  <1>23. ASSUME NEW p \in Pages, Arrive(p) PROVE CycleInv'
    BY <1>23 DEF Arrive, PageMoves, Dropped, Nothing
  <1>24. ASSUME NEW p \in Pages, Lost(p) PROVE CycleInv'
    BY <1>24 DEF Lost, PageMoves, Dropped, Nothing
  <1>25. ASSUME NEW p \in Pages, SetEnvironment(p) PROVE CycleInv'
    BY <1>25 DEF SetEnvironment, PageMoves
  <1>26. ASSUME NEW p \in Pages, ClearSnapshot(p) PROVE CycleInv'
    BY <1>26 DEF ClearSnapshot, PageMoves, Cleared, NoSnapshot, Snapshot
  <1>27. ASSUME NEW p \in Pages, Confirm(p) PROVE CycleInv'
    BY <1>27 DEF Confirm, PageMoves, NextEpoch, Nothing
  <1>28. ASSUME NEW p \in Pages, Unconfirmed(p) PROVE CycleInv'
    BY <1>28 DEF Unconfirmed, PageMoves
  <1>29. CASE UNCHANGED vars
    BY <1>29 DEF vars
  <1> QED
    BY <1>1, <1>2, <1>3, <1>4, <1>5, <1>6, <1>7, <1>8, <1>9, <1>10, <1>11, <1>12,
       <1>13, <1>14, <1>15, <1>16, <1>17, <1>18, <1>19, <1>20, <1>21, <1>22,
       <1>23, <1>24, <1>25, <1>26, <1>27, <1>28, <1>29
    DEF Next, Monitor, Watch, Chat, Page

\* A tick leaves an age as true as it was.
LEMMA TimeKeepsDates ==
    ASSUME NEW counted \in 0..Stale + 1, NEW real \in 0..Oldest + 1, NEW late \in 0..MaxLag,
           Dated(counted, real, late)
    PROVE  Dated(Capped(counted + 1, Stale), Capped(real + 1, Oldest), late)
  BY LimitAssumption DEF Dated, Capped, Oldest

\* The window is dated when it is captured; afterwards time passes, or the
\* window is dropped.
LEMMA WindowStep ==
    ASSUME IInv, [Next]_vars
    PROVE  WindowInv'
  <1> USE LimitAssumption DEF IInv, TypeOK, WindowInv, DropWindow, windowVars, monitorVars
  <1>1. CASE Capture
    BY <1>1 DEF Capture, Date, Dated, Capped
  <1>2. CASE Tick
    <2>1. CASE pc \in {"ask", "await", "record", "publish"}
      BY <1>2, <2>1, TimeKeepsDates DEF Tick
    <2>2. CASE pc \notin {"ask", "await", "record", "publish"}
      BY <1>2, <2>2 DEF Tick, Dated
    <2> QED
      BY <2>1, <2>2
  <1>3. ASSUME UNCHANGED windowVars \/ DropWindow PROVE WindowInv'
    BY <1>3 DEF Dated
  <1>4. CASE BeginCycle \/ Guard \/ Acquire \/ ReadInjection \/ AskModel \/ Record
    BY <1>3, <1>4 DEF BeginCycle, Guard, Acquire, ReadInjection, AskModel, Record
  <1>5. CASE Publish \/ PublishFailure
    BY <1>3, <1>5 DEF Publish, PublishFailure, EndCycle
  <1>6. CASE Finish \/ Exec \/ \E c \in Callers : TimeOut(c)
    BY <1>3, <1>6 DEF Finish, Exec, TimeOut, CallerEnds
  <1>7. CASE TakeRuntime \/ Notice \/ Measure \/ Load \/ ChatBegins \/ Chat
    BY <1>3, <1>7 DEF TakeRuntime, Notice, Measure, Load, ChatBegins, Chat, ChatBinds, ChatAsks
  <1>8. CASE \E p \in Pages : Page(p)
    BY <1>3, <1>8 DEF Page, PageMoves, Poll, Serve, Arrive, Lost, SetEnvironment,
       ClearSnapshot, Confirm, Unconfirmed
  <1>9. CASE UNCHANGED vars
    BY <1>3, <1>9 DEF vars
  <1> QED
    BY <1>1, <1>2, <1>4, <1>5, <1>6, <1>7, <1>8, <1>9 DEF Next, Monitor, Watch


\* A snapshot is published under the generation of its cycle only.
LEMMA SnapshotStep ==
    ASSUME IInv, [Next]_vars
    PROVE  SnapshotInv'
  <1> USE PageAssumption, LimitAssumption, BoundAssumption
      DEF windowVars, DropWindow, IInv, TypeOK, SwitchInv, CycleInv, SnapshotInv, WindowInv, popupVars, monitorVars,
          pageVars, serverVars
  <1>1. CASE BeginCycle
    BY <1>1 DEF BeginCycle, MonitorMoves
  <1>2. CASE Guard
    BY <1>2 DEF Guard, MonitorMoves
  <1>3. CASE Acquire
    BY <1>3 DEF Acquire, MonitorMoves, Fault
  <1>4. CASE ReadInjection
    BY <1>4 DEF ReadInjection, MonitorMoves
  <1>5. CASE Capture
    BY <1>5 DEF Capture, Date, MonitorMoves, Fault
  <1>6. CASE AskModel
    BY <1>6 DEF AskModel, MonitorMoves
  <1>7. CASE Record
    BY <1>7 DEF Record, MonitorMoves, Fault
  <1>8. CASE Publish
    BY <1>8 DEF Publish, EndCycle, MatchesInjection, CountedAge, Unavailable,
       Snapshot
  <1>9. CASE PublishFailure
    BY <1>9 DEF PublishFailure, EndCycle, Unavailable, Snapshot
  <1>10. CASE TakeRuntime
    BY <1>10 DEF TakeRuntime, Fault
  <1>11. CASE Finish
    BY <1>11 DEF Finish, CallerEnds, Fault
  <1>12. CASE Notice
    BY <1>12 DEF Notice, Timed
  <1>13. CASE Measure
    BY <1>13 DEF Measure, Timed
  <1>14. CASE Exec
    BY <1>14 DEF Exec, CallerEnds
  <1>15. CASE Load
    BY <1>15 DEF Load
  <1>16. CASE ChatBegins
    BY <1>16 DEF ChatBegins
  <1>17. CASE ChatBinds
    BY <1>17 DEF ChatBinds
  <1>18. CASE ChatAsks
    BY <1>18 DEF ChatAsks
  <1>19. CASE Tick
    BY <1>19, TimeKeepsDates DEF Tick
  <1>20. ASSUME NEW c \in Callers, TimeOut(c) PROVE SnapshotInv'
    BY <1>20 DEF TimeOut, CallerEnds, Fault
  <1>21. ASSUME NEW p \in Pages, Poll(p) PROVE SnapshotInv'
    BY <1>21 DEF Poll, PageMoves, Get
  <1>22. ASSUME NEW p \in Pages, Serve(p) PROVE SnapshotInv'
    BY <1>22 DEF Serve, PageMoves, Get, Fresh
  <1>23. ASSUME NEW p \in Pages, Arrive(p) PROVE SnapshotInv'
    BY <1>23 DEF Arrive, PageMoves, Dropped, Nothing
  <1>24. ASSUME NEW p \in Pages, Lost(p) PROVE SnapshotInv'
    BY <1>24 DEF Lost, PageMoves, Dropped, Nothing
  <1>25. ASSUME NEW p \in Pages, SetEnvironment(p) PROVE SnapshotInv'
    BY <1>25 DEF SetEnvironment, PageMoves
  <1>26. ASSUME NEW p \in Pages, ClearSnapshot(p) PROVE SnapshotInv'
    BY <1>26 DEF ClearSnapshot, PageMoves, Cleared, NoSnapshot, Snapshot
  <1>27. ASSUME NEW p \in Pages, Confirm(p) PROVE SnapshotInv'
    BY <1>27 DEF Confirm, PageMoves, NextEpoch, Nothing
  <1>28. ASSUME NEW p \in Pages, Unconfirmed(p) PROVE SnapshotInv'
    BY <1>28 DEF Unconfirmed, PageMoves
  <1>29. CASE UNCHANGED vars
    BY <1>29 DEF vars
  <1> QED
    BY <1>1, <1>2, <1>3, <1>4, <1>5, <1>6, <1>7, <1>8, <1>9, <1>10, <1>11, <1>12,
       <1>13, <1>14, <1>15, <1>16, <1>17, <1>18, <1>19, <1>20, <1>21, <1>22,
       <1>23, <1>24, <1>25, <1>26, <1>27, <1>28, <1>29
    DEF Next, Monitor, Watch, Chat, Page

\* A page drops what it asked before its switch.
LEMMA PageStep ==
    ASSUME IInv, [Next]_vars
    PROVE  PageInv'
  <1> USE PageAssumption, LimitAssumption, BoundAssumption
      DEF windowVars, DropWindow, IInv, TypeOK, SwitchInv, SnapshotInv, PageInv, popupVars, monitorVars,
          pageVars, serverVars
  <1>1. CASE BeginCycle
    BY <1>1 DEF BeginCycle, MonitorMoves
  <1>2. CASE Guard
    BY <1>2 DEF Guard, MonitorMoves
  <1>3. CASE Acquire
    BY <1>3 DEF Acquire, MonitorMoves, Fault
  <1>4. CASE ReadInjection
    BY <1>4 DEF ReadInjection, MonitorMoves
  <1>5. CASE Capture
    BY <1>5 DEF Capture, Date, MonitorMoves, Fault
  <1>6. CASE AskModel
    BY <1>6 DEF AskModel, MonitorMoves
  <1>7. CASE Record
    BY <1>7 DEF Record, MonitorMoves, Fault
  <1>8. CASE Publish
    BY <1>8 DEF Publish, EndCycle, MatchesInjection, CountedAge, Unavailable,
       Snapshot
  <1>9. CASE PublishFailure
    BY <1>9 DEF PublishFailure, EndCycle, Unavailable, Snapshot
  <1>10. CASE TakeRuntime
    BY <1>10 DEF TakeRuntime, Fault
  <1>11. CASE Finish
    BY <1>11 DEF Finish, CallerEnds, Fault
  <1>12. CASE Notice
    BY <1>12 DEF Notice, Timed
  <1>13. CASE Measure
    BY <1>13 DEF Measure, Timed
  <1>14. CASE Exec
    BY <1>14 DEF Exec, CallerEnds
  <1>15. CASE Load
    BY <1>15 DEF Load
  <1>16. CASE ChatBegins
    BY <1>16 DEF ChatBegins
  <1>17. CASE ChatBinds
    BY <1>17 DEF ChatBinds
  <1>18. CASE ChatAsks
    BY <1>18 DEF ChatAsks
  <1>19. CASE Tick
    BY <1>19 DEF Tick, Capped
  <1>20. ASSUME NEW c \in Callers, TimeOut(c) PROVE PageInv'
    BY <1>20 DEF TimeOut, CallerEnds, Fault
  <1>21. ASSUME NEW p \in Pages, Poll(p) PROVE PageInv'
    BY <1>21 DEF Poll, PageMoves, Get
  <1>22. ASSUME NEW p \in Pages, Serve(p) PROVE PageInv'
    BY <1>22 DEF Serve, PageMoves, Get, Fresh
  <1>23. ASSUME NEW p \in Pages, Arrive(p) PROVE PageInv'
    BY <1>23 DEF Arrive, PageMoves, Dropped, Nothing
  <1>24. ASSUME NEW p \in Pages, Lost(p) PROVE PageInv'
    BY <1>24 DEF Lost, PageMoves, Dropped, Nothing
  <1>25. ASSUME NEW p \in Pages, SetEnvironment(p) PROVE PageInv'
    BY <1>25 DEF SetEnvironment, PageMoves
  <1>26. ASSUME NEW p \in Pages, ClearSnapshot(p) PROVE PageInv'
    BY <1>26 DEF ClearSnapshot, PageMoves, Cleared, NoSnapshot, Snapshot
  <1>27. ASSUME NEW p \in Pages, Confirm(p) PROVE PageInv'
    BY <1>27 DEF Confirm, PageMoves, NextEpoch, Nothing
  <1>28. ASSUME NEW p \in Pages, Unconfirmed(p) PROVE PageInv'
    BY <1>28 DEF Unconfirmed, PageMoves
  <1>29. CASE UNCHANGED vars
    BY <1>29 DEF vars
  <1> QED
    BY <1>1, <1>2, <1>3, <1>4, <1>5, <1>6, <1>7, <1>8, <1>9, <1>10, <1>11, <1>12,
       <1>13, <1>14, <1>15, <1>16, <1>17, <1>18, <1>19, <1>20, <1>21, <1>22,
       <1>23, <1>24, <1>25, <1>26, <1>27, <1>28, <1>29
    DEF Next, Monitor, Watch, Chat, Page

\* What is served as fresh is recent.
LEMMA ServedStep ==
    ASSUME IInv, [Next]_vars
    PROVE  ServedIsRecent'
  <1> USE PageAssumption, LimitAssumption, BoundAssumption
      DEF windowVars, DropWindow, IInv, TypeOK, SnapshotInv, ServedIsRecent, popupVars, monitorVars,
          pageVars, serverVars
  <1>1. CASE BeginCycle
    BY <1>1 DEF BeginCycle, MonitorMoves
  <1>2. CASE Guard
    BY <1>2 DEF Guard, MonitorMoves
  <1>3. CASE Acquire
    BY <1>3 DEF Acquire, MonitorMoves, Fault
  <1>4. CASE ReadInjection
    BY <1>4 DEF ReadInjection, MonitorMoves
  <1>5. CASE Capture
    BY <1>5 DEF Capture, Date, MonitorMoves, Fault
  <1>6. CASE AskModel
    BY <1>6 DEF AskModel, MonitorMoves
  <1>7. CASE Record
    BY <1>7 DEF Record, MonitorMoves, Fault
  <1>8. CASE Publish
    BY <1>8 DEF Publish, EndCycle, MatchesInjection, CountedAge, Unavailable,
       Snapshot
  <1>9. CASE PublishFailure
    BY <1>9 DEF PublishFailure, EndCycle, Unavailable, Snapshot
  <1>10. CASE TakeRuntime
    BY <1>10 DEF TakeRuntime, Fault
  <1>11. CASE Finish
    BY <1>11 DEF Finish, CallerEnds, Fault
  <1>12. CASE Notice
    BY <1>12 DEF Notice, Timed
  <1>13. CASE Measure
    BY <1>13 DEF Measure, Timed
  <1>14. CASE Exec
    BY <1>14 DEF Exec, CallerEnds
  <1>15. CASE Load
    BY <1>15 DEF Load
  <1>16. CASE ChatBegins
    BY <1>16 DEF ChatBegins
  <1>17. CASE ChatBinds
    BY <1>17 DEF ChatBinds
  <1>18. CASE ChatAsks
    BY <1>18 DEF ChatAsks
  <1>19. CASE Tick
    BY <1>19 DEF Tick, Capped
  <1>20. ASSUME NEW c \in Callers, TimeOut(c) PROVE ServedIsRecent'
    BY <1>20 DEF TimeOut, CallerEnds, Fault
  <1>21. ASSUME NEW p \in Pages, Poll(p) PROVE ServedIsRecent'
    BY <1>21 DEF Poll, PageMoves, Get
  <1>22. ASSUME NEW p \in Pages, Serve(p) PROVE ServedIsRecent'
    <2>1. PICK g \in gets[p] : Serve(p)!2!(g)
      BY <1>22 DEF Serve
    <2>2. ASSUME NEW q \in Pages, NEW h \in gets'[q], h.answer = "verdict" PROVE ~h.old
      <3>1. CASE q = p /\ h \notin gets[p]
        <4>1. Fresh /\ h = Get(g.since, "verdict", snapshot.stamp, Overdue)
          BY <2>1, <2>2, <3>1 DEF Get
        <4>2. ~Overdue
          BY <4>1 DEF Fresh, Overdue, Dated
        <4> QED
          BY <4>1, <4>2, Zenon DEF Get
      <3>2. CASE q # p
        <4>1. gets'[q] = gets[q]
          BY <2>1, <3>2
        <4> QED
          BY <2>2, <4>1
      <3>3. CASE q = p /\ h \in gets[p]
        BY <2>2, <3>3
      <3> QED
        BY <3>1, <3>2, <3>3
    <2> QED
      BY <2>2 DEF ServedIsRecent
  <1>23. ASSUME NEW p \in Pages, Arrive(p) PROVE ServedIsRecent'
    BY <1>23 DEF Arrive, PageMoves, Dropped, Nothing
  <1>24. ASSUME NEW p \in Pages, Lost(p) PROVE ServedIsRecent'
    BY <1>24 DEF Lost, PageMoves, Dropped, Nothing
  <1>25. ASSUME NEW p \in Pages, SetEnvironment(p) PROVE ServedIsRecent'
    BY <1>25 DEF SetEnvironment, PageMoves
  <1>26. ASSUME NEW p \in Pages, ClearSnapshot(p) PROVE ServedIsRecent'
    BY <1>26 DEF ClearSnapshot, PageMoves, Cleared, NoSnapshot, Snapshot
  <1>27. ASSUME NEW p \in Pages, Confirm(p) PROVE ServedIsRecent'
    BY <1>27 DEF Confirm, PageMoves, NextEpoch, Nothing
  <1>28. ASSUME NEW p \in Pages, Unconfirmed(p) PROVE ServedIsRecent'
    BY <1>28 DEF Unconfirmed, PageMoves
  <1>29. CASE UNCHANGED vars
    BY <1>29 DEF vars
  <1> QED
    BY <1>1, <1>2, <1>3, <1>4, <1>5, <1>6, <1>7, <1>8, <1>9, <1>10, <1>11, <1>12,
       <1>13, <1>14, <1>15, <1>16, <1>17, <1>18, <1>19, <1>20, <1>21, <1>22,
       <1>23, <1>24, <1>25, <1>26, <1>27, <1>28, <1>29
    DEF Next, Monitor, Watch, Chat, Page

-----------------------------------------------------------------------------
(***************************************************************************)
(* The theorems.                                                           *)
(***************************************************************************)
LEMMA InvInit == Init => IInv
  <1> SUFFICES ASSUME Init PROVE IInv
    OBVIOUS
  <1> USE PageAssumption, LimitAssumption, BoundAssumption DEF Init
  <1>1. up \in BOOLEAN /\ slow \in BOOLEAN
    BY Zenon
  <1>2. TypeOK
    BY <1>1, OldestIsNat DEF TypeOK, NoSnapshot, Snapshot, Nothing, Callers
  <1>3. SwitchInv /\ CallInv /\ CycleInv
    BY DEF SwitchInv, CallInv, CycleInv
  <1>4. WindowInv /\ SnapshotInv /\ PageInv /\ ServedIsRecent
    BY DEF WindowInv, Dated, SnapshotInv, PageInv, ServedIsRecent, NoSnapshot, Snapshot, Nothing
  <1> QED
    BY <1>2, <1>3, <1>4 DEF IInv

LEMMA InvStep == IInv /\ [Next]_vars => IInv'
  BY TypesStep, SwitchStep, CallStep, CycleStep, WindowStep, SnapshotStep, PageStep, ServedStep
     DEF IInv

LEMMA Invariance == Spec => []IInv
  BY InvInit, InvStep, PTL DEF Spec

\* The variables keep their types (vibrogemma_webchat.py and the service).
THEOREM TypeCorrect == Spec => []TypeOK
  BY Invariance, PTL DEF IInv

\* Outside a switch, a published verdict is about the injection in force
\* (_monitor_loop and _set_synthetic_injection).
THEOREM SnapshotOfThisInjection ==
    Spec => [](mutex = None /\ snapshot.kind = "verdict" => snapshot.stamp = injection)
  <1>1. IInv => (mutex = None /\ snapshot.kind = "verdict" => snapshot.stamp = injection)
    BY DEF windowVars, DropWindow, IInv, TypeOK, SwitchInv, SnapshotInv
  <1> QED
    BY <1>1, Invariance, PTL

\* A page shows no verdict from before its own confirmed switch (fetchMonitor,
\* toggleSyntheticInjection).
THEOREM PagesFollowSwitches == Spec => []PageFollowsSwitch
  <1>1. IInv => PageFollowsSwitch
    BY DEF windowVars, DropWindow, IInv, TypeOK, PageInv, PageFollowsSwitch, Nothing
  <1> QED
    BY <1>1, Invariance, PTL

\* A verdict served as current is recent up to the error of its window's date,
\* whatever that error may be (latest_monitor, _finalize_capture).
THEOREM ServedVerdictsAreRecent == Spec => []ServedIsRecent
  BY Invariance, PTL DEF IInv
=============================================================================
