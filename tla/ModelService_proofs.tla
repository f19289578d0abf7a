------------------------ MODULE ModelService_proofs ------------------------
(***************************************************************************)
(* Theorems about ModelService, for any finite set of requests, any        *)
(* limits, budgets and time-outs, any configurations and any hanging call. *)
(***************************************************************************)
EXTENDS ModelService, FiniteSetTheorems, TLAPS

-----------------------------------------------------------------------------
(***************************************************************************)
(* The inductive invariant.                                                *)
(***************************************************************************)
\* What each stage of main() implies for the threads.
StageInv ==
    /\ proc # "serving" => \A r \in Requests : pc[r] \in {"new", "done"}
    /\ proc = "loading" => pc[Main] = "new"
    /\ proc = "smoke" => pc[Main] \in Section \cup {"queue", "answer"}
    /\ proc = "rearm" => pc[Main] \in {"rearm", "reload", "construct"}
    /\ proc \in {"serving", "down"} => pc[Main] \in {"new", "done"}
    /\ \A r \in Requests : pc[r] # "rearm"
    /\ watchdog # "asleep" => proc = "serving"
    /\ watchdog = "exec" => images = {} /\ ~scratch

\* The lock is held by the thread in the section, but for main() re-arming.
MutexInv == \A t \in Threads : lock = t <=> (pc[t] \in Section /\ proc # "rearm")

\* A marker the watchdog looks at belongs to a thread.
MarkerInv ==
    /\ reload # NotRunning => \E t \in Threads : pc[t] \in {"reload", "construct"}
    /\ generation # NotRunning => \E t \in Threads : pc[t] \in {"generate", "finally"}

\* A construction is charged before it is made.
BudgetInv ==
    /\ proc = "loading" => built = 0
    /\ built <= 1 + attempts
    /\ (\E t \in Threads : pc[t] = "reload") => built <= attempts

\* When a handle may be used, and when it is known to need a reload.
HandleInv ==
    /\ handle = "none" => needsReload \/ unavailable \/ proc \in {"loading", "down"}
    /\ config.kind = "vlm" /\ handle = "used" => needsReload
    /\ \A t \in Threads :
        /\ pc[t] \in {"reload", "construct", "rearm"} => needsReload
        /\ pc[t] = "prepare" => handle # "none" /\ (config.kind = "vlm" => handle = "fresh")
    /\ proc = "loading" => ~needsReload
    /\ proc = "smoke" /\ pc[Main] \notin {"generate", "finally", "answer"} => ~needsReload

\* The breaker cannot have tripped before main() serves.
BreakerInv ==
    /\ BreakerStopsNative
    /\ proc \in {"loading", "smoke", "rearm"} => ~unavailable

Inside == {r \in Requests : pc[r] \in Admitted}

\* Every admitted request holds one permit.
GateInv == gate + Cardinality(Inside) = MaxBodies

IInv ==
    /\ TypeOK /\ StageInv /\ MutexInv /\ MarkerInv /\ ImagesReclaimed
    /\ BudgetInv /\ HandleInv /\ BreakerInv /\ GateInv

-----------------------------------------------------------------------------
(***************************************************************************)
(* The permits of the gate.                                                *)
(***************************************************************************)
LEMMA InsideFinite ==
    /\ IsFiniteSet(Inside)
    /\ Cardinality(Inside) \in Nat
  BY ImageAssumption, FS_Subset, FS_CardinalityType DEF Inside

\* A request that is inside leaves room for its own permit.
LEMMA RoomForPermit ==
    ASSUME TypeOK, GateInv, NEW r \in Inside
    PROVE  gate < MaxBodies
  <1>1. Cardinality(Inside) # 0
    BY InsideFinite, FS_EmptySet
  <1> QED
    BY <1>1, InsideFinite, LimitAssumption DEF GateInv, TypeOK

\* Between entering and leaving the gate a thread only moves on inside.
LEMMA RuntimeStaysInside ==
    ASSUME IInv, NEW t \in Threads, Runtime(t)
    PROVE  Inside' = Inside /\ gate' = gate
  <1> USE ThreadAssumption
      DEF IInv, TypeOK, StageInv, Threads, Section, Admitted, Inside, Goto, Raise
  <1>1. CASE Acquire(t) \/ LockTimeout(t) \/ Reject(t) \/ Proceed(t)
    BY <1>1 DEF Acquire, LockTimeout, Reject, Proceed
  <1>2. CASE TripBreaker(t) \/ BeginReload(t)
    BY <1>2 DEF TripBreaker, BeginReload, WantsReload, ReloadRaises
  <1>3. CASE Dispose(t) \/ Reloaded(t)
    BY <1>3 DEF Dispose, Reloaded
  <1>4. CASE ReloadFails(t)
    BY <1>4 DEF ReloadFails, ReloadRaises
  <1>5. CASE Decode(t) \/ PrepareFails(t) \/ TemplateHangs(t) \/ Generate(t)
    BY <1>5 DEF Decode, PrepareFails, TemplateHangs, Generate, Prepared
  <1>6. CASE Generated(t) \/ Finally(t)
    BY <1>6 DEF Generated, Finally
  <1> QED
    BY <1>1, <1>2, <1>3, <1>4, <1>5, <1>6 DEF Runtime

\* A permit is taken on the way in and given back on the way out.
LEMMA GateStep ==
    ASSUME IInv, [Next]_vars
    PROVE  GateInv'
  <1> USE ThreadAssumption, InsideFinite DEF IInv, TypeOK, GateInv
  <1>1. ASSUME Inside' = Inside, gate' = gate
        PROVE  GateInv'
    BY <1>1
  <1>2. CASE Load \/ LoadFails \/ Smoked
    <2>1. Inside' = Inside /\ gate' = gate
      BY <1>2 DEF Load, LoadFails, Smoked, Inside, Goto, Threads
    <2> QED
      BY <1>1, <2>1
  <1>3. CASE Notice \/ Wipe \/ Tick
    <2>1. Inside' = Inside /\ gate' = gate
      BY <1>3 DEF Notice, Wipe, Tick, Inside
    <2> QED
      BY <1>1, <2>1
  <1>4. CASE Exec
    <2>1. Inside' = {} /\ gate' = MaxBodies
      BY <1>4 DEF Exec, Inside, Admitted, Threads
    <2> QED
      BY <2>1, FS_EmptySet, LimitAssumption
  <1>5. ASSUME NEW r \in Requests, Send(r) \/ Refuse(r) \/ ReadBody(r)
        PROVE  GateInv'
    <2>1. Inside' = Inside /\ gate' = gate
      BY <1>5 DEF Send, Refuse, ReadBody, Inside, Goto, Admitted, Threads
    <2> QED
      BY <1>1, <2>1
  <1>6. ASSUME NEW r \in Requests, EnterGate(r)
        PROVE  GateInv'
    <2>1. Inside' = Inside \cup {r} /\ r \notin Inside /\ gate' = gate - 1
      BY <1>6 DEF EnterGate, Inside, Goto, Admitted, Threads
    <2>2. Cardinality(Inside') = Cardinality(Inside) + 1
      BY <2>1, FS_AddElement
    <2> QED
      BY <2>1, <2>2, LimitAssumption
  <1>7. ASSUME NEW r \in Requests, Answer(r)
        PROVE  GateInv'
    <2>1. Inside' = Inside \ {r} /\ r \in Inside /\ gate' = gate + 1
      BY <1>7 DEF Answer, Inside, Goto, Admitted, Threads
    <2>2. Cardinality(Inside') = Cardinality(Inside) - 1
      BY <2>1, FS_RemoveElement
    <2> QED
      BY <2>1, <2>2, LimitAssumption
  <1>8. ASSUME NEW t \in Threads, Runtime(t)
        PROVE  GateInv'
    BY <1>1, <1>8, RuntimeStaysInside
  <1>9. CASE UNCHANGED vars
    BY <1>1, <1>9 DEF vars, Inside
  <1> QED
    BY <1>2, <1>3, <1>4, <1>5, <1>6, <1>7, <1>8, <1>9 DEF Next, Start, Serve, Guard

-----------------------------------------------------------------------------
(***************************************************************************)
(* Each part of the invariant is preserved.                                *)
(***************************************************************************)
\* Every step keeps the types; the gate needs GateStep.
LEMMA TypesStep ==
    ASSUME IInv, [Next]_vars
    PROVE  TypeOK'
  <1> USE ThreadAssumption, LimitAssumption, ImageAssumption
      DEF IInv, TypeOK, StageInv, GateInv, ConfigType, Threads, Admitted,
          NotRunning, procVars, handleVars, sectionVars, Goto
  <1>1. CASE Load
    BY <1>1 DEF Load
  <1>2. CASE LoadFails
    BY <1>2 DEF LoadFails
  <1>3. CASE Smoked
    BY <1>3 DEF Smoked
  <1>4. CASE Notice
    BY <1>4 DEF Notice
  <1>5. CASE Wipe
    BY <1>5 DEF Wipe
  <1>6. CASE Exec
    <2>1. pc' \in [Threads -> Admitted \cup {"new", "gate", "rearm", "done"}]
      BY <1>6 DEF Exec
    <2>2. reply' \in [Threads -> {None, "ok", "error", "unavailable", "timeout", "reset"}]
      BY <1>6 DEF Exec
    <2>3. needsReload' \in BOOLEAN /\ unavailable' \in BOOLEAN /\ scratch' \in BOOLEAN
      BY <1>6, Zenon DEF Exec
    <2> QED
      BY <1>6, <2>1, <2>2, <2>3 DEF Exec
  <1>7. CASE Tick
    BY <1>7 DEF Tick, Older
  <1>8. ASSUME NEW r \in Requests, Send(r) PROVE TypeOK'
    BY <1>8 DEF Send
  <1>9. ASSUME NEW r \in Requests, Refuse(r) PROVE TypeOK'
    BY <1>9 DEF Refuse, StopWaiting
  <1>10. ASSUME NEW r \in Requests, EnterGate(r) PROVE TypeOK'
    BY <1>10 DEF EnterGate, StopWaiting
  <1>11. ASSUME NEW r \in Requests, ReadBody(r) PROVE TypeOK'
    BY <1>11 DEF ReadBody
  <1>12. ASSUME NEW r \in Requests, Answer(r) PROVE TypeOK'
    BY <1>12, RoomForPermit DEF Answer, Inside
  <1>13. ASSUME NEW t \in Threads, Acquire(t) PROVE TypeOK'
    BY <1>13 DEF Acquire, StopWaiting
  <1>14. ASSUME NEW t \in Threads, LockTimeout(t) PROVE TypeOK'
    BY <1>14 DEF LockTimeout, StopWaiting
  <1>15. ASSUME NEW t \in Threads, Reject(t) PROVE TypeOK'
    BY <1>15 DEF Reject, Raise, NeedsImage
  <1>16. ASSUME NEW t \in Threads, Proceed(t) PROVE TypeOK'
    BY <1>16 DEF Proceed, NeedsImage
  <1>17. ASSUME NEW t \in Threads, TripBreaker(t) PROVE TypeOK'
    BY <1>17 DEF TripBreaker, WantsReload, ReloadRaises, Raise, NeedsImage
  <1>18. ASSUME NEW t \in Threads, BeginReload(t) PROVE TypeOK'
    BY <1>18 DEF BeginReload, WantsReload, NeedsImage
  <1>19. ASSUME NEW t \in Threads, Dispose(t) PROVE TypeOK'
    BY <1>19 DEF Dispose
  <1>20. ASSUME NEW t \in Threads, Reloaded(t) PROVE TypeOK'
    <2>1. needsReload' \in BOOLEAN
      BY <1>20, Zenon DEF Reloaded
    <2>2. CASE proc = "rearm"
      BY <1>20, <2>1, <2>2 DEF Reloaded
    <2>3. CASE proc # "rearm"
      BY <1>20, <2>1, <2>3 DEF Reloaded
    <2> QED
      BY <2>2, <2>3
  <1>21. ASSUME NEW t \in Threads, ReloadFails(t) PROVE TypeOK'
    BY <1>21 DEF ReloadFails, ReloadRaises, Raise
  <1>22. ASSUME NEW t \in Threads, Decode(t) PROVE TypeOK'
    BY <1>22 DEF Decode
  <1>23. ASSUME NEW t \in Threads, PrepareFails(t) PROVE TypeOK'
    BY <1>23 DEF PrepareFails, Raise
  <1>24. ASSUME NEW t \in Threads, TemplateHangs(t) PROVE TypeOK'
    BY <1>24 DEF TemplateHangs, Prepared
  <1>25. ASSUME NEW t \in Threads, Generate(t) PROVE TypeOK'
    BY <1>25 DEF Generate, Prepared
  <1>26. ASSUME NEW t \in Threads, Generated(t) PROVE TypeOK'
    BY <1>26 DEF Generated, Raise
  <1>27. ASSUME NEW t \in Threads, Finally(t) PROVE TypeOK'
    BY <1>27 DEF Finally
  <1>28. CASE UNCHANGED vars
    BY <1>28 DEF vars
  <1> QED
    BY <1>1, <1>2, <1>3, <1>4, <1>5, <1>6, <1>7, <1>8, <1>9, <1>10, <1>11,
       <1>12, <1>13, <1>14, <1>15, <1>16, <1>17, <1>18, <1>19, <1>20, <1>21,
       <1>22, <1>23, <1>24, <1>25, <1>26, <1>27, <1>28
    DEF Next, Start, Serve, Runtime, Guard

\* main() and the watchdog go through their stages.
LEMMA StageStep ==
    ASSUME IInv, [Next]_vars
    PROVE  StageInv'
  <1> USE ThreadAssumption
      DEF IInv, TypeOK, StageInv, MutexInv, ImagesReclaimed, Threads, Section,
          procVars, handleVars, sectionVars, Goto
  <1>1. CASE Load
    BY <1>1 DEF Load
  <1>2. CASE LoadFails
    BY <1>2 DEF LoadFails
  <1>3. CASE Smoked
    BY <1>3 DEF Smoked
  <1>4. CASE Notice
    BY <1>4 DEF Notice
  <1>5. CASE Wipe
    BY <1>5 DEF Wipe
  <1>6. CASE Exec
    BY <1>6 DEF Exec
  <1>7. CASE Tick
    BY <1>7 DEF Tick, Older
  <1>8. ASSUME NEW r \in Requests, Send(r) PROVE StageInv'
    BY <1>8 DEF Send
  <1>9. ASSUME NEW r \in Requests, Refuse(r) PROVE StageInv'
    BY <1>9 DEF Refuse, StopWaiting
  <1>10. ASSUME NEW r \in Requests, EnterGate(r) PROVE StageInv'
    BY <1>10 DEF EnterGate, StopWaiting
  <1>11. ASSUME NEW r \in Requests, ReadBody(r) PROVE StageInv'
    BY <1>11 DEF ReadBody
  <1>12. ASSUME NEW r \in Requests, Answer(r) PROVE StageInv'
    BY <1>12 DEF Answer
  <1>13. ASSUME NEW t \in Threads, Acquire(t) PROVE StageInv'
    BY <1>13 DEF Acquire, StopWaiting
  <1>14. ASSUME NEW t \in Threads, LockTimeout(t) PROVE StageInv'
    BY <1>14 DEF LockTimeout, StopWaiting
  <1>15. ASSUME NEW t \in Threads, Reject(t) PROVE StageInv'
    BY <1>15 DEF Reject, Raise, NeedsImage
  <1>16. ASSUME NEW t \in Threads, Proceed(t) PROVE StageInv'
    BY <1>16 DEF Proceed, NeedsImage
  <1>17. ASSUME NEW t \in Threads, TripBreaker(t) PROVE StageInv'
    BY <1>17 DEF TripBreaker, WantsReload, ReloadRaises, Raise, NeedsImage
  <1>18. ASSUME NEW t \in Threads, BeginReload(t) PROVE StageInv'
    BY <1>18 DEF BeginReload, WantsReload, NeedsImage
  <1>19. ASSUME NEW t \in Threads, Dispose(t) PROVE StageInv'
    BY <1>19 DEF Dispose
  <1>20. ASSUME NEW t \in Threads, Reloaded(t) PROVE StageInv'
    BY <1>20 DEF Reloaded
  <1>21. ASSUME NEW t \in Threads, ReloadFails(t) PROVE StageInv'
    BY <1>21 DEF ReloadFails, ReloadRaises, Raise
  <1>22. ASSUME NEW t \in Threads, Decode(t) PROVE StageInv'
    BY <1>22 DEF Decode
  <1>23. ASSUME NEW t \in Threads, PrepareFails(t) PROVE StageInv'
    BY <1>23 DEF PrepareFails, Raise
  <1>24. ASSUME NEW t \in Threads, TemplateHangs(t) PROVE StageInv'
    BY <1>24 DEF TemplateHangs, Prepared
  <1>25. ASSUME NEW t \in Threads, Generate(t) PROVE StageInv'
    BY <1>25 DEF Generate, Prepared
  <1>26. ASSUME NEW t \in Threads, Generated(t) PROVE StageInv'
    BY <1>26 DEF Generated, Raise
  <1>27. ASSUME NEW t \in Threads, Finally(t) PROVE StageInv'
    BY <1>27 DEF Finally
  <1>28. CASE UNCHANGED vars
    BY <1>28 DEF vars
  <1> QED
    BY <1>1, <1>2, <1>3, <1>4, <1>5, <1>6, <1>7, <1>8, <1>9, <1>10, <1>11,
       <1>12, <1>13, <1>14, <1>15, <1>16, <1>17, <1>18, <1>19, <1>20, <1>21,
       <1>22, <1>23, <1>24, <1>25, <1>26, <1>27, <1>28
    DEF Next, Start, Serve, Runtime, Guard

\* One thread at a time is in the section.
LEMMA MutexStep ==
    ASSUME IInv, [Next]_vars
    PROVE  MutexInv'
  <1> USE ThreadAssumption
      DEF IInv, TypeOK, MutexInv, StageInv, Threads, Section, procVars,
          handleVars, sectionVars, Goto
  <1>1. CASE Load
    BY <1>1 DEF Load
  <1>2. CASE LoadFails
    BY <1>2 DEF LoadFails
  <1>3. CASE Smoked
    BY <1>3 DEF Smoked
  <1>4. CASE Notice
    BY <1>4 DEF Notice
  <1>5. CASE Wipe
    BY <1>5 DEF Wipe
  <1>6. CASE Exec
    BY <1>6 DEF Exec
  <1>7. CASE Tick
    BY <1>7 DEF Tick, Older
  <1>8. ASSUME NEW r \in Requests, Send(r) PROVE MutexInv'
    BY <1>8 DEF Send
  <1>9. ASSUME NEW r \in Requests, Refuse(r) PROVE MutexInv'
    BY <1>9 DEF Refuse, StopWaiting
  <1>10. ASSUME NEW r \in Requests, EnterGate(r) PROVE MutexInv'
    BY <1>10 DEF EnterGate, StopWaiting
  <1>11. ASSUME NEW r \in Requests, ReadBody(r) PROVE MutexInv'
    BY <1>11 DEF ReadBody
  <1>12. ASSUME NEW r \in Requests, Answer(r) PROVE MutexInv'
    BY <1>12 DEF Answer
  <1>13. ASSUME NEW t \in Threads, Acquire(t) PROVE MutexInv'
    BY <1>13 DEF Acquire, StopWaiting
  <1>14. ASSUME NEW t \in Threads, LockTimeout(t) PROVE MutexInv'
    BY <1>14 DEF LockTimeout, StopWaiting
  <1>15. ASSUME NEW t \in Threads, Reject(t) PROVE MutexInv'
    BY <1>15 DEF Reject, Raise, NeedsImage
  <1>16. ASSUME NEW t \in Threads, Proceed(t) PROVE MutexInv'
    BY <1>16 DEF Proceed, NeedsImage
  <1>17. ASSUME NEW t \in Threads, TripBreaker(t) PROVE MutexInv'
    BY <1>17 DEF TripBreaker, WantsReload, ReloadRaises, Raise, NeedsImage
  <1>18. ASSUME NEW t \in Threads, BeginReload(t) PROVE MutexInv'
    BY <1>18 DEF BeginReload, WantsReload, NeedsImage
  <1>19. ASSUME NEW t \in Threads, Dispose(t) PROVE MutexInv'
    BY <1>19 DEF Dispose
  <1>20. ASSUME NEW t \in Threads, Reloaded(t) PROVE MutexInv'
    BY <1>20 DEF Reloaded
  <1>21. ASSUME NEW t \in Threads, ReloadFails(t) PROVE MutexInv'
    BY <1>21 DEF ReloadFails, ReloadRaises, Raise
  <1>22. ASSUME NEW t \in Threads, Decode(t) PROVE MutexInv'
    BY <1>22 DEF Decode
  <1>23. ASSUME NEW t \in Threads, PrepareFails(t) PROVE MutexInv'
    BY <1>23 DEF PrepareFails, Raise
  <1>24. ASSUME NEW t \in Threads, TemplateHangs(t) PROVE MutexInv'
    BY <1>24 DEF TemplateHangs, Prepared
  <1>25. ASSUME NEW t \in Threads, Generate(t) PROVE MutexInv'
    BY <1>25 DEF Generate, Prepared
  <1>26. ASSUME NEW t \in Threads, Generated(t) PROVE MutexInv'
    BY <1>26 DEF Generated, Raise
  <1>27. ASSUME NEW t \in Threads, Finally(t) PROVE MutexInv'
    BY <1>27 DEF Finally
  <1>28. CASE UNCHANGED vars
    BY <1>28 DEF vars
  <1> QED
    BY <1>1, <1>2, <1>3, <1>4, <1>5, <1>6, <1>7, <1>8, <1>9, <1>10, <1>11,
       <1>12, <1>13, <1>14, <1>15, <1>16, <1>17, <1>18, <1>19, <1>20, <1>21,
       <1>22, <1>23, <1>24, <1>25, <1>26, <1>27, <1>28
    DEF Next, Start, Serve, Runtime, Guard

\* A marker is cleared by whoever set it.
LEMMA MarkerStep ==
    ASSUME IInv, [Next]_vars
    PROVE  MarkerInv'
  <1> USE ThreadAssumption
      DEF IInv, TypeOK, MarkerInv, StageInv, MutexInv, Threads, Section,
          NotRunning, procVars, handleVars, sectionVars, Goto
  <1>1. CASE Load
    BY <1>1 DEF Load
  <1>2. CASE LoadFails
    BY <1>2 DEF LoadFails
  <1>3. CASE Smoked
    BY <1>3 DEF Smoked
  <1>4. CASE Notice
    BY <1>4 DEF Notice
  <1>5. CASE Wipe
    BY <1>5 DEF Wipe
  <1>6. CASE Exec
    BY <1>6 DEF Exec
  <1>7. CASE Tick
    BY <1>7 DEF Tick, Older
  <1>8. ASSUME NEW r \in Requests, Send(r) PROVE MarkerInv'
    BY <1>8 DEF Send
  <1>9. ASSUME NEW r \in Requests, Refuse(r) PROVE MarkerInv'
    BY <1>9 DEF Refuse, StopWaiting
  <1>10. ASSUME NEW r \in Requests, EnterGate(r) PROVE MarkerInv'
    BY <1>10 DEF EnterGate, StopWaiting
  <1>11. ASSUME NEW r \in Requests, ReadBody(r) PROVE MarkerInv'
    BY <1>11 DEF ReadBody
  <1>12. ASSUME NEW r \in Requests, Answer(r) PROVE MarkerInv'
    BY <1>12 DEF Answer
  <1>13. ASSUME NEW t \in Threads, Acquire(t) PROVE MarkerInv'
    BY <1>13 DEF Acquire, StopWaiting
  <1>14. ASSUME NEW t \in Threads, LockTimeout(t) PROVE MarkerInv'
    BY <1>14 DEF LockTimeout, StopWaiting
  <1>15. ASSUME NEW t \in Threads, Reject(t) PROVE MarkerInv'
    BY <1>15 DEF Reject, Raise, NeedsImage
  <1>16. ASSUME NEW t \in Threads, Proceed(t) PROVE MarkerInv'
    BY <1>16 DEF Proceed, NeedsImage
  <1>17. ASSUME NEW t \in Threads, TripBreaker(t) PROVE MarkerInv'
    BY <1>17 DEF TripBreaker, WantsReload, ReloadRaises, Raise, NeedsImage
  <1>18. ASSUME NEW t \in Threads, BeginReload(t) PROVE MarkerInv'
    BY <1>18 DEF BeginReload, WantsReload, NeedsImage
  <1>19. ASSUME NEW t \in Threads, Dispose(t) PROVE MarkerInv'
    BY <1>19 DEF Dispose
  <1>20. ASSUME NEW t \in Threads, Reloaded(t) PROVE MarkerInv'
    BY <1>20 DEF Reloaded
  <1>21. ASSUME NEW t \in Threads, ReloadFails(t) PROVE MarkerInv'
    BY <1>21 DEF ReloadFails, ReloadRaises, Raise
  <1>22. ASSUME NEW t \in Threads, Decode(t) PROVE MarkerInv'
    BY <1>22 DEF Decode
  <1>23. ASSUME NEW t \in Threads, PrepareFails(t) PROVE MarkerInv'
    BY <1>23 DEF PrepareFails, Raise
  <1>24. ASSUME NEW t \in Threads, TemplateHangs(t) PROVE MarkerInv'
    BY <1>24 DEF TemplateHangs, Prepared
  <1>25. ASSUME NEW t \in Threads, Generate(t) PROVE MarkerInv'
    BY <1>25 DEF Generate, Prepared
  <1>26. ASSUME NEW t \in Threads, Generated(t) PROVE MarkerInv'
    BY <1>26 DEF Generated, Raise
  <1>27. ASSUME NEW t \in Threads, Finally(t) PROVE MarkerInv'
    BY <1>27 DEF Finally
  <1>28. CASE UNCHANGED vars
    BY <1>28 DEF vars
  <1> QED
    BY <1>1, <1>2, <1>3, <1>4, <1>5, <1>6, <1>7, <1>8, <1>9, <1>10, <1>11,
       <1>12, <1>13, <1>14, <1>15, <1>16, <1>17, <1>18, <1>19, <1>20, <1>21,
       <1>22, <1>23, <1>24, <1>25, <1>26, <1>27, <1>28
    DEF Next, Start, Serve, Runtime, Guard

\* Whoever wrote an image is in the section, and the watchdog wipes before exec.
LEMMA ImagesStep ==
    ASSUME IInv, [Next]_vars
    PROVE  ImagesReclaimed'
  <1> USE ThreadAssumption, ImageAssumption
      DEF IInv, TypeOK, ImagesReclaimed, StageInv, MutexInv, Threads, Section,
          procVars, handleVars, sectionVars, Goto
  <1>1. CASE Load
    BY <1>1 DEF Load
  <1>2. CASE LoadFails
    BY <1>2 DEF LoadFails
  <1>3. CASE Smoked
    BY <1>3 DEF Smoked
  <1>4. CASE Notice
    BY <1>4 DEF Notice
  <1>5. CASE Wipe
    BY <1>5 DEF Wipe
  <1>6. CASE Exec
    BY <1>6 DEF Exec
  <1>7. CASE Tick
    BY <1>7 DEF Tick, Older
  <1>8. ASSUME NEW r \in Requests, Send(r) PROVE ImagesReclaimed'
    BY <1>8 DEF Send
  <1>9. ASSUME NEW r \in Requests, Refuse(r) PROVE ImagesReclaimed'
    BY <1>9 DEF Refuse, StopWaiting
  <1>10. ASSUME NEW r \in Requests, EnterGate(r) PROVE ImagesReclaimed'
    BY <1>10 DEF EnterGate, StopWaiting
  <1>11. ASSUME NEW r \in Requests, ReadBody(r) PROVE ImagesReclaimed'
    BY <1>11 DEF ReadBody
  <1>12. ASSUME NEW r \in Requests, Answer(r) PROVE ImagesReclaimed'
    BY <1>12 DEF Answer
  <1>13. ASSUME NEW t \in Threads, Acquire(t) PROVE ImagesReclaimed'
    BY <1>13 DEF Acquire, StopWaiting
  <1>14. ASSUME NEW t \in Threads, LockTimeout(t) PROVE ImagesReclaimed'
    BY <1>14 DEF LockTimeout, StopWaiting
  <1>15. ASSUME NEW t \in Threads, Reject(t) PROVE ImagesReclaimed'
    BY <1>15 DEF Reject, Raise, NeedsImage
  <1>16. ASSUME NEW t \in Threads, Proceed(t) PROVE ImagesReclaimed'
    BY <1>16 DEF Proceed, NeedsImage
  <1>17. ASSUME NEW t \in Threads, TripBreaker(t) PROVE ImagesReclaimed'
    BY <1>17 DEF TripBreaker, WantsReload, ReloadRaises, Raise, NeedsImage
  <1>18. ASSUME NEW t \in Threads, BeginReload(t) PROVE ImagesReclaimed'
    BY <1>18 DEF BeginReload, WantsReload, NeedsImage
  <1>19. ASSUME NEW t \in Threads, Dispose(t) PROVE ImagesReclaimed'
    BY <1>19 DEF Dispose
  <1>20. ASSUME NEW t \in Threads, Reloaded(t) PROVE ImagesReclaimed'
    BY <1>20 DEF Reloaded
  <1>21. ASSUME NEW t \in Threads, ReloadFails(t) PROVE ImagesReclaimed'
    BY <1>21 DEF ReloadFails, ReloadRaises, Raise
  <1>22. ASSUME NEW t \in Threads, Decode(t) PROVE ImagesReclaimed'
    BY <1>22 DEF Decode
  <1>23. ASSUME NEW t \in Threads, PrepareFails(t) PROVE ImagesReclaimed'
    BY <1>23 DEF PrepareFails, Raise
  <1>24. ASSUME NEW t \in Threads, TemplateHangs(t) PROVE ImagesReclaimed'
    BY <1>24 DEF TemplateHangs, Prepared
  <1>25. ASSUME NEW t \in Threads, Generate(t) PROVE ImagesReclaimed'
    BY <1>25 DEF Generate, Prepared
  <1>26. ASSUME NEW t \in Threads, Generated(t) PROVE ImagesReclaimed'
    BY <1>26 DEF Generated, Raise
  <1>27. ASSUME NEW t \in Threads, Finally(t) PROVE ImagesReclaimed'
    BY <1>27 DEF Finally
  <1>28. CASE UNCHANGED vars
    BY <1>28 DEF vars
  <1> QED
    BY <1>1, <1>2, <1>3, <1>4, <1>5, <1>6, <1>7, <1>8, <1>9, <1>10, <1>11,
       <1>12, <1>13, <1>14, <1>15, <1>16, <1>17, <1>18, <1>19, <1>20, <1>21,
       <1>22, <1>23, <1>24, <1>25, <1>26, <1>27, <1>28
    DEF Next, Start, Serve, Runtime, Guard

\* Every construction but the first was charged.
LEMMA BudgetStep ==
    ASSUME IInv, [Next]_vars
    PROVE  BudgetInv'
  <1> USE ThreadAssumption, LimitAssumption
      DEF IInv, TypeOK, BudgetInv, StageInv, MutexInv, Threads, Section,
          procVars, handleVars, sectionVars, Goto
  <1>1. CASE Load
    BY <1>1 DEF Load
  <1>2. CASE LoadFails
    BY <1>2 DEF LoadFails
  <1>3. CASE Smoked
    BY <1>3 DEF Smoked
  <1>4. CASE Notice
    BY <1>4 DEF Notice
  <1>5. CASE Wipe
    BY <1>5 DEF Wipe
  <1>6. CASE Exec
    BY <1>6 DEF Exec
  <1>7. CASE Tick
    BY <1>7 DEF Tick, Older
  <1>8. ASSUME NEW r \in Requests, Send(r) PROVE BudgetInv'
    BY <1>8 DEF Send
  <1>9. ASSUME NEW r \in Requests, Refuse(r) PROVE BudgetInv'
    BY <1>9 DEF Refuse, StopWaiting
  <1>10. ASSUME NEW r \in Requests, EnterGate(r) PROVE BudgetInv'
    BY <1>10 DEF EnterGate, StopWaiting
  <1>11. ASSUME NEW r \in Requests, ReadBody(r) PROVE BudgetInv'
    BY <1>11 DEF ReadBody
  <1>12. ASSUME NEW r \in Requests, Answer(r) PROVE BudgetInv'
    BY <1>12 DEF Answer
  <1>13. ASSUME NEW t \in Threads, Acquire(t) PROVE BudgetInv'
    BY <1>13 DEF Acquire, StopWaiting
  <1>14. ASSUME NEW t \in Threads, LockTimeout(t) PROVE BudgetInv'
    BY <1>14 DEF LockTimeout, StopWaiting
  <1>15. ASSUME NEW t \in Threads, Reject(t) PROVE BudgetInv'
    BY <1>15 DEF Reject, Raise, NeedsImage
  <1>16. ASSUME NEW t \in Threads, Proceed(t) PROVE BudgetInv'
    BY <1>16 DEF Proceed, NeedsImage
  <1>17. ASSUME NEW t \in Threads, TripBreaker(t) PROVE BudgetInv'
    BY <1>17 DEF TripBreaker, WantsReload, ReloadRaises, Raise, NeedsImage
  <1>18. ASSUME NEW t \in Threads, BeginReload(t) PROVE BudgetInv'
    BY <1>18 DEF BeginReload, WantsReload, NeedsImage
  <1>19. ASSUME NEW t \in Threads, Dispose(t) PROVE BudgetInv'
    BY <1>19 DEF Dispose
  <1>20. ASSUME NEW t \in Threads, Reloaded(t) PROVE BudgetInv'
    BY <1>20 DEF Reloaded
  <1>21. ASSUME NEW t \in Threads, ReloadFails(t) PROVE BudgetInv'
    BY <1>21 DEF ReloadFails, ReloadRaises, Raise
  <1>22. ASSUME NEW t \in Threads, Decode(t) PROVE BudgetInv'
    BY <1>22 DEF Decode
  <1>23. ASSUME NEW t \in Threads, PrepareFails(t) PROVE BudgetInv'
    BY <1>23 DEF PrepareFails, Raise
  <1>24. ASSUME NEW t \in Threads, TemplateHangs(t) PROVE BudgetInv'
    BY <1>24 DEF TemplateHangs, Prepared
  <1>25. ASSUME NEW t \in Threads, Generate(t) PROVE BudgetInv'
    BY <1>25 DEF Generate, Prepared
  <1>26. ASSUME NEW t \in Threads, Generated(t) PROVE BudgetInv'
    BY <1>26 DEF Generated, Raise
  <1>27. ASSUME NEW t \in Threads, Finally(t) PROVE BudgetInv'
    BY <1>27 DEF Finally
  <1>28. CASE UNCHANGED vars
    BY <1>28 DEF vars
  <1> QED
    BY <1>1, <1>2, <1>3, <1>4, <1>5, <1>6, <1>7, <1>8, <1>9, <1>10, <1>11,
       <1>12, <1>13, <1>14, <1>15, <1>16, <1>17, <1>18, <1>19, <1>20, <1>21,
       <1>22, <1>23, <1>24, <1>25, <1>26, <1>27, <1>28
    DEF Next, Start, Serve, Runtime, Guard

\* A used vision handle is known to be used up.
LEMMA HandleStep ==
    ASSUME IInv, [Next]_vars
    PROVE  HandleInv'
  <1> USE ThreadAssumption
      DEF IInv, TypeOK, HandleInv, StageInv, MutexInv, BreakerInv,
          BreakerStopsNative, Threads, Section, procVars, handleVars,
          sectionVars, Goto
  <1>1. CASE Load
    BY <1>1 DEF Load
  <1>2. CASE LoadFails
    BY <1>2 DEF LoadFails
  <1>3. CASE Smoked
    BY <1>3 DEF Smoked
  <1>4. CASE Notice
    BY <1>4 DEF Notice
  <1>5. CASE Wipe
    BY <1>5 DEF Wipe
  <1>6. CASE Exec
    BY <1>6 DEF Exec
  <1>7. CASE Tick
    BY <1>7 DEF Tick, Older
  <1>8. ASSUME NEW r \in Requests, Send(r) PROVE HandleInv'
    BY <1>8 DEF Send
  <1>9. ASSUME NEW r \in Requests, Refuse(r) PROVE HandleInv'
    BY <1>9 DEF Refuse, StopWaiting
  <1>10. ASSUME NEW r \in Requests, EnterGate(r) PROVE HandleInv'
    BY <1>10 DEF EnterGate, StopWaiting
  <1>11. ASSUME NEW r \in Requests, ReadBody(r) PROVE HandleInv'
    BY <1>11 DEF ReadBody
  <1>12. ASSUME NEW r \in Requests, Answer(r) PROVE HandleInv'
    BY <1>12 DEF Answer
  <1>13. ASSUME NEW t \in Threads, Acquire(t) PROVE HandleInv'
    BY <1>13 DEF Acquire, StopWaiting
  <1>14. ASSUME NEW t \in Threads, LockTimeout(t) PROVE HandleInv'
    BY <1>14 DEF LockTimeout, StopWaiting
  <1>15. ASSUME NEW t \in Threads, Reject(t) PROVE HandleInv'
    BY <1>15 DEF Reject, Raise, NeedsImage
  <1>16. ASSUME NEW t \in Threads, Proceed(t) PROVE HandleInv'
    BY <1>16 DEF Proceed, NeedsImage
  <1>17. ASSUME NEW t \in Threads, TripBreaker(t) PROVE HandleInv'
    BY <1>17 DEF TripBreaker, WantsReload, ReloadRaises, Raise, NeedsImage
  <1>18. ASSUME NEW t \in Threads, BeginReload(t) PROVE HandleInv'
    BY <1>18 DEF BeginReload, WantsReload, NeedsImage
  <1>19. ASSUME NEW t \in Threads, Dispose(t) PROVE HandleInv'
    BY <1>19 DEF Dispose
  <1>20. ASSUME NEW t \in Threads, Reloaded(t) PROVE HandleInv'
    BY <1>20 DEF Reloaded
  <1>21. ASSUME NEW t \in Threads, ReloadFails(t) PROVE HandleInv'
    BY <1>21 DEF ReloadFails, ReloadRaises, Raise
  <1>22. ASSUME NEW t \in Threads, Decode(t) PROVE HandleInv'
    BY <1>22 DEF Decode
  <1>23. ASSUME NEW t \in Threads, PrepareFails(t) PROVE HandleInv'
    BY <1>23 DEF PrepareFails, Raise
  <1>24. ASSUME NEW t \in Threads, TemplateHangs(t) PROVE HandleInv'
    BY <1>24 DEF TemplateHangs, Prepared
  <1>25. ASSUME NEW t \in Threads, Generate(t) PROVE HandleInv'
    BY <1>25 DEF Generate, Prepared
  <1>26. ASSUME NEW t \in Threads, Generated(t) PROVE HandleInv'
    BY <1>26 DEF Generated, Raise
  <1>27. ASSUME NEW t \in Threads, Finally(t) PROVE HandleInv'
    BY <1>27 DEF Finally
  <1>28. CASE UNCHANGED vars
    BY <1>28 DEF vars
  <1> QED
    BY <1>1, <1>2, <1>3, <1>4, <1>5, <1>6, <1>7, <1>8, <1>9, <1>10, <1>11,
       <1>12, <1>13, <1>14, <1>15, <1>16, <1>17, <1>18, <1>19, <1>20, <1>21,
       <1>22, <1>23, <1>24, <1>25, <1>26, <1>27, <1>28
    DEF Next, Start, Serve, Runtime, Guard

\* The breaker trips under the lock, and nobody passes it.
LEMMA BreakerStep ==
    ASSUME IInv, [Next]_vars
    PROVE  BreakerInv'
  <1> USE ThreadAssumption
      DEF IInv, TypeOK, BreakerInv, StageInv, MutexInv, HandleInv, Threads,
          Section, Native, BreakerStopsNative, procVars, handleVars,
          sectionVars, Goto
  <1>1. CASE Load
    BY <1>1 DEF Load
  <1>2. CASE LoadFails
    BY <1>2 DEF LoadFails
  <1>3. CASE Smoked
    BY <1>3 DEF Smoked
  <1>4. CASE Notice
    BY <1>4 DEF Notice
  <1>5. CASE Wipe
    BY <1>5 DEF Wipe
  <1>6. CASE Exec
    BY <1>6 DEF Exec
  <1>7. CASE Tick
    BY <1>7 DEF Tick, Older
  <1>8. ASSUME NEW r \in Requests, Send(r) PROVE BreakerInv'
    BY <1>8 DEF Send
  <1>9. ASSUME NEW r \in Requests, Refuse(r) PROVE BreakerInv'
    BY <1>9 DEF Refuse, StopWaiting
  <1>10. ASSUME NEW r \in Requests, EnterGate(r) PROVE BreakerInv'
    BY <1>10 DEF EnterGate, StopWaiting
  <1>11. ASSUME NEW r \in Requests, ReadBody(r) PROVE BreakerInv'
    BY <1>11 DEF ReadBody
  <1>12. ASSUME NEW r \in Requests, Answer(r) PROVE BreakerInv'
    BY <1>12 DEF Answer
  <1>13. ASSUME NEW t \in Threads, Acquire(t) PROVE BreakerInv'
    BY <1>13 DEF Acquire, StopWaiting
  <1>14. ASSUME NEW t \in Threads, LockTimeout(t) PROVE BreakerInv'
    BY <1>14 DEF LockTimeout, StopWaiting
  <1>15. ASSUME NEW t \in Threads, Reject(t) PROVE BreakerInv'
    BY <1>15 DEF Reject, Raise, NeedsImage
  <1>16. ASSUME NEW t \in Threads, Proceed(t) PROVE BreakerInv'
    BY <1>16 DEF Proceed, NeedsImage
  <1>17. ASSUME NEW t \in Threads, TripBreaker(t) PROVE BreakerInv'
    BY <1>17 DEF TripBreaker, WantsReload, ReloadRaises, Raise, NeedsImage
  <1>18. ASSUME NEW t \in Threads, BeginReload(t) PROVE BreakerInv'
    BY <1>18 DEF BeginReload, WantsReload, NeedsImage
  <1>19. ASSUME NEW t \in Threads, Dispose(t) PROVE BreakerInv'
    BY <1>19 DEF Dispose
  <1>20. ASSUME NEW t \in Threads, Reloaded(t) PROVE BreakerInv'
    BY <1>20 DEF Reloaded
  <1>21. ASSUME NEW t \in Threads, ReloadFails(t) PROVE BreakerInv'
    BY <1>21 DEF ReloadFails, ReloadRaises, Raise
  <1>22. ASSUME NEW t \in Threads, Decode(t) PROVE BreakerInv'
    BY <1>22 DEF Decode
  <1>23. ASSUME NEW t \in Threads, PrepareFails(t) PROVE BreakerInv'
    BY <1>23 DEF PrepareFails, Raise
  <1>24. ASSUME NEW t \in Threads, TemplateHangs(t) PROVE BreakerInv'
    BY <1>24 DEF TemplateHangs, Prepared
  <1>25. ASSUME NEW t \in Threads, Generate(t) PROVE BreakerInv'
    BY <1>25 DEF Generate, Prepared
  <1>26. ASSUME NEW t \in Threads, Generated(t) PROVE BreakerInv'
    BY <1>26 DEF Generated, Raise
  <1>27. ASSUME NEW t \in Threads, Finally(t) PROVE BreakerInv'
    BY <1>27 DEF Finally
  <1>28. CASE UNCHANGED vars
    BY <1>28 DEF vars
  <1> QED
    BY <1>1, <1>2, <1>3, <1>4, <1>5, <1>6, <1>7, <1>8, <1>9, <1>10, <1>11,
       <1>12, <1>13, <1>14, <1>15, <1>16, <1>17, <1>18, <1>19, <1>20, <1>21,
       <1>22, <1>23, <1>24, <1>25, <1>26, <1>27, <1>28
    DEF Next, Start, Serve, Runtime, Guard

-----------------------------------------------------------------------------
(***************************************************************************)
(* The theorems.                                                           *)
(***************************************************************************)
LEMMA InvInit == Init => IInv
  <1> SUFFICES ASSUME Init PROVE IInv
    OBVIOUS
  <1>1. TypeOK
    <2>1. needsReload \in BOOLEAN /\ unavailable \in BOOLEAN /\ scratch \in BOOLEAN
      BY Zenon DEF Init
    <2>2. pc \in [Threads -> Admitted \cup {"new", "gate", "rearm", "done"}]
      BY DEF Init
    <2> QED
      BY <2>1, <2>2, LimitAssumption, ConfigAssumption DEF Init, TypeOK, NotRunning
  <1>2. StageInv /\ MutexInv /\ MarkerInv /\ ImagesReclaimed
    BY ThreadAssumption
       DEF Init, StageInv, MutexInv, MarkerInv, ImagesReclaimed, Threads, Section
  <1>3. BudgetInv /\ HandleInv /\ BreakerInv
    BY ThreadAssumption
       DEF Init, BudgetInv, HandleInv, BreakerInv, BreakerStopsNative, Threads
  <1>4. GateInv
    <2>1. Inside = {}
      BY ThreadAssumption DEF Init, Inside, Admitted, Threads
    <2> QED
      BY <2>1, FS_EmptySet, LimitAssumption DEF Init, GateInv
  <1> QED
    BY <1>1, <1>2, <1>3, <1>4 DEF IInv

LEMMA InvStep == IInv /\ [Next]_vars => IInv'
  BY TypesStep, StageStep, MutexStep, MarkerStep, ImagesStep, BudgetStep, HandleStep,
     BreakerStep, GateStep
     DEF IInv

LEMMA Invariance == Spec => []IInv
  BY InvInit, InvStep, PTL DEF Spec

\* The variables of the service keep their types (geniex_openai_server.py).
THEOREM TypeCorrect == Spec => []TypeOK
  BY Invariance, PTL DEF IInv

\* However reloads fail, a process constructs one model and at most the budget
\* more (_reload_model).
THEOREM LeakIsBounded == Spec => []LeakBounded
  <1>1. IInv => LeakBounded
    BY LimitAssumption DEF IInv, TypeOK, BudgetInv, LeakBounded
  <1> QED
    BY <1>1, Invariance, PTL

\* Behind a tripped breaker nobody is in the native library (_reload_model, chat).
THEOREM BreakerHolds == Spec => []BreakerStopsNative
  BY Invariance, PTL DEF IInv, BreakerInv

\* An image on disk belongs to the request that holds the lock (chat, watchdog).
THEOREM ImagesAreReclaimed == Spec => []ImagesReclaimed
  BY Invariance, PTL DEF IInv

\* A quiet service has all of its permits, its lock and no marker (do_POST, chat).
THEOREM QuietServiceIsWhole == Spec => []QuietIsWhole
  <1>1. IInv => QuietIsWhole
    <2> SUFFICES ASSUME IInv, proc = "serving", \A r \in Requests : pc[r] \in {"new", "done"}
                 PROVE  /\ gate = MaxBodies /\ lock = None
                        /\ generation = NotRunning /\ reload = NotRunning
      BY DEF QuietIsWhole
    <2>1. \A t \in Threads : pc[t] \in {"new", "done"}
      BY DEF IInv, StageInv, Threads
    <2>2. Inside = {}
      BY DEF Inside, Admitted
    <2>3. gate = MaxBodies
      BY <2>2, FS_EmptySet, LimitAssumption DEF IInv, GateInv, TypeOK
    <2>4. lock = None
      BY <2>1 DEF IInv, TypeOK, MutexInv, Section
    <2> QED
      BY <2>1, <2>3, <2>4 DEF IInv, MarkerInv
  <1> QED
    BY <1>1, Invariance, PTL

\* A service without a model reloads it next or says so (_reload_model).
THEOREM ModelOrBreakerHolds == Spec => []ModelOrBreaker
  <1>1. IInv => ModelOrBreaker
    BY DEF IInv, HandleInv, ModelOrBreaker
  <1> QED
    BY <1>1, Invariance, PTL

\* No vision handle generates twice (chat, _needs_model_reload).
THEOREM VisionHandleIsSingleShot == Spec => SingleShot
  <1>1. IInv /\ [Next]_vars =>
          [\A t \in Threads :
            (config.kind = "vlm" /\ pc[t] = "prepare" /\ pc'[t] = "generate")
                => handle = "fresh"]_vars
    BY DEF IInv, HandleInv
  <1> QED
    BY <1>1, Invariance, PTL DEF Spec, SingleShot
=============================================================================
