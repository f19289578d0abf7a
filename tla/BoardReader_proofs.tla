------------------------- MODULE BoardReader_proofs -------------------------
(***************************************************************************)
(* Theorems about BoardReader, for any callers and warmers, any time-out,  *)
(* any grace and any set of faults.                                        *)
(***************************************************************************)
EXTENDS BoardReader, TLAPS

-----------------------------------------------------------------------------
(***************************************************************************)
(* The inductive invariant.                                                *)
(***************************************************************************)
\* Who holds which lock.
LockInv ==
    /\ \A t \in Threads : lock = t <=> pc[t] \in Locked
    /\ \A c \in Callers : requests = c <=> pc[c] \in Reading
    /\ \A w \in Warmers : pc[w] \in {"idle", "ensure", "check", "queues", "start"}
    /\ pc[Main] \in {"idle", "restart", "kill", "done"}

\* Queues and worker come and go together.
ClientInv ==
    /\ ~queues => worker = "none" /\ inbox = {} /\ outbox = {}
    /\ worker = "none" => young = 0
    /\ worker \in {"none", "unstarted"} => outbox = {}
    /\ task # None => worker \in {"busy", "writing", "hung"}
    /\ \A t \in Threads : pc[t] \in {"queues", "start"} =>
        worker = "none" /\ (pc[t] = "start" <=> queues)

\* What a caller has captured is true of its own worker.
OwnInv ==
    \A c \in own :
        /\ worker \in Alive \cup {"dead"}
        /\ pc[c] \in {"put", "get", "wait", "recv", "restart", "kill"} => grace[c] = young

\* A deadline is not before the end of the grace.
DeadlineInv ==
    \A c \in Callers :
        /\ pc[c] \in {"get", "wait", "recv"} => grace[c] <= deadline[c]
        /\ pc[c] \in {"restart", "kill"} => grace[c] = 0

\* A request is in one place at a time, and only while its read goes on.
RequestInv ==
    \A c \in Callers :
        /\ c \in inbox \cup outbox \/ task = c =>
            pc[c] \in {"get", "wait", "recv", "restart", "kill"} /\ on[c] # "old"
        /\ on[c] # "none" => pc[c] \in {"wait", "recv", "restart", "kill"}
        /\ c \in inbox => c \notin outbox /\ task # c
        /\ c \in outbox => task # c

IInv ==
    /\ TypeOK /\ LockInv /\ ClientInv /\ OwnInv /\ DeadlineInv /\ RequestInv
    /\ NothingGivenUp

-----------------------------------------------------------------------------
(***************************************************************************)
(* Each part is kept by every step.                                        *)
(***************************************************************************)
\* Every step keeps the types.
LEMMA TypesStep ==
    ASSUME IInv, [Next]_vars
    PROVE  TypeOK'
  <1> USE ThreadAssumption, TimeAssumption
      DEF IInv, TypeOK, DeadlineInv, LockInv, ClientInv, Alive, Reading, Locked,
          Span, Larger, queueVars, workerVars, timeVars, readVars, Goto, Threads
  <1>1. ASSUME NEW c \in Callers, Begin(c) PROVE TypeOK'
    BY <1>1 DEF Begin
  <1>2. ASSUME NEW c \in Callers, TakeRequests(c) PROVE TypeOK'
    BY <1>2 DEF TakeRequests
  <1>3. ASSUME NEW c \in Callers, Verify(c) PROVE TypeOK'
    BY <1>3 DEF Verify, EndUnasked, End, GivenUp
  <1>4. ASSUME NEW c \in Callers, Capture(c) PROVE TypeOK'
    BY <1>4 DEF Capture
  <1>5. ASSUME NEW c \in Callers, Put(c) PROVE TypeOK'
    BY <1>5 DEF Put, EndUnasked, End, GivenUp, Deadline, Larger
  <1>6. ASSUME NEW c \in Callers, Get(c) PROVE TypeOK'
    BY <1>6 DEF Get, EndUnasked, End, GivenUp
  <1>7. ASSUME NEW c \in Callers, SeeData(c) PROVE TypeOK'
    BY <1>7 DEF SeeData
  <1>8. ASSUME NEW c \in Callers, Receive(c) PROVE TypeOK'
    BY <1>8 DEF Receive, End, GivenUp
  <1>9. ASSUME NEW c \in Callers, FindClosed(c) PROVE TypeOK'
    BY <1>9 DEF FindClosed, End, GivenUp
  <1>10. ASSUME NEW c \in Callers, GiveUp(c) PROVE TypeOK'
    BY <1>10 DEF GiveUp, End, GivenUp
  <1>11. ASSUME NEW w \in Warmers, Prewarm(w) PROVE TypeOK'
    BY <1>11 DEF Prewarm
  <1>12. ASSUME NEW t \in Threads, TakeLock(t) PROVE TypeOK'
    BY <1>12 DEF TakeLock
  <1>13. ASSUME NEW t \in Threads, FindAlive(t) PROVE TypeOK'
    BY <1>13 DEF FindAlive, Ensured
  <1>14. ASSUME NEW t \in Threads, Renew(t) PROVE TypeOK'
    <2>1. queues' \in BOOLEAN /\ torn' \in BOOLEAN
      BY <1>14, Zenon DEF Renew, Closed
    <2> QED
      BY <1>14, <2>1 DEF Renew, Closed, Outdate
  <1>15. ASSUME NEW t \in Threads, NewQueues(t) PROVE TypeOK'
    BY <1>15 DEF NewQueues
  <1>16. ASSUME NEW t \in Threads, StartWorker(t) PROVE TypeOK'
    BY <1>16 DEF StartWorker, Ensured
  <1>17. ASSUME NEW t \in Threads, StartFails(t) PROVE TypeOK'
    BY <1>17 DEF StartFails, Raise, End, GivenUp
  <1>18. ASSUME NEW t \in Threads, CloseRaises(t) PROVE TypeOK'
    BY <1>18 DEF CloseRaises, Raise, End, GivenUp
  <1>19. ASSUME NEW t \in Threads, Kill(t) PROVE TypeOK'
    <2>1. queues' \in BOOLEAN /\ torn' \in BOOLEAN
      BY <1>19, Zenon DEF Kill, Closed
    <2> QED
      BY <1>19, <2>1 DEF Kill, Closed, Outdate
  <1>20. CASE Exit
    BY <1>20 DEF Exit
  <1>21. CASE TakeRequest
    BY <1>21 DEF TakeRequest
  <1>22. CASE Write
    BY <1>22 DEF Write
  <1>23. CASE Written
    BY <1>23 DEF Written
  <1>24. CASE Hang
    BY <1>24 DEF Hang
  <1>25. CASE Crash
    BY <1>25 DEF Crash
  <1>26. CASE Tick
    BY <1>26 DEF Tick, Less
  <1>27. CASE UNCHANGED vars
    BY <1>27 DEF vars
  <1> QED
    BY <1>1, <1>2, <1>3, <1>4, <1>5, <1>6, <1>7, <1>8, <1>9, <1>10, <1>11, <1>12,
       <1>13, <1>14, <1>15, <1>16, <1>17, <1>18, <1>19, <1>20, <1>21, <1>22,
       <1>23, <1>24, <1>25, <1>26, <1>27
    DEF Next, ReadWindow, Ensure, Work

\* A lock is held exactly in the sections it guards.
LEMMA LockStep ==
    ASSUME IInv, [Next]_vars
    PROVE  LockInv'
  <1> USE ThreadAssumption
      DEF IInv, TypeOK, LockInv, Reading, Locked, queueVars, workerVars, timeVars,
          readVars, Goto, Threads
  <1>1. ASSUME NEW c \in Callers, Begin(c) PROVE LockInv'
    BY <1>1 DEF Begin
  <1>2. ASSUME NEW c \in Callers, TakeRequests(c) PROVE LockInv'
    BY <1>2 DEF TakeRequests
  <1>3. ASSUME NEW c \in Callers, Verify(c) PROVE LockInv'
    BY <1>3 DEF Verify, EndUnasked, End, GivenUp
  <1>4. ASSUME NEW c \in Callers, Capture(c) PROVE LockInv'
    BY <1>4 DEF Capture
  <1>5. ASSUME NEW c \in Callers, Put(c) PROVE LockInv'
    BY <1>5 DEF Put, EndUnasked, End, GivenUp, Deadline, Larger
  <1>6. ASSUME NEW c \in Callers, Get(c) PROVE LockInv'
    BY <1>6 DEF Get, EndUnasked, End, GivenUp
  <1>7. ASSUME NEW c \in Callers, SeeData(c) PROVE LockInv'
    BY <1>7 DEF SeeData
  <1>8. ASSUME NEW c \in Callers, Receive(c) PROVE LockInv'
    BY <1>8 DEF Receive, End, GivenUp
  <1>9. ASSUME NEW c \in Callers, FindClosed(c) PROVE LockInv'
    BY <1>9 DEF FindClosed, End, GivenUp
  <1>10. ASSUME NEW c \in Callers, GiveUp(c) PROVE LockInv'
    BY <1>10 DEF GiveUp, End, GivenUp
  <1>11. ASSUME NEW w \in Warmers, Prewarm(w) PROVE LockInv'
    BY <1>11 DEF Prewarm
  <1>12. ASSUME NEW t \in Threads, TakeLock(t) PROVE LockInv'
    BY <1>12 DEF TakeLock
  <1>13. ASSUME NEW t \in Threads, FindAlive(t) PROVE LockInv'
    BY <1>13 DEF FindAlive, Ensured
  <1>14. ASSUME NEW t \in Threads, Renew(t) PROVE LockInv'
    BY <1>14 DEF Renew, Closed, Outdate
  <1>15. ASSUME NEW t \in Threads, NewQueues(t) PROVE LockInv'
    BY <1>15 DEF NewQueues
  <1>16. ASSUME NEW t \in Threads, StartWorker(t) PROVE LockInv'
    BY <1>16 DEF StartWorker, Ensured
  <1>17. ASSUME NEW t \in Threads, StartFails(t) PROVE LockInv'
    BY <1>17 DEF StartFails, Raise, End, GivenUp
  <1>18. ASSUME NEW t \in Threads, CloseRaises(t) PROVE LockInv'
    BY <1>18 DEF CloseRaises, Raise, End, GivenUp
  <1>19. ASSUME NEW t \in Threads, Kill(t) PROVE LockInv'
    BY <1>19 DEF Kill, Closed, Outdate
  <1>20. CASE Exit
    BY <1>20 DEF Exit
  <1>21. CASE TakeRequest
    BY <1>21 DEF TakeRequest
  <1>22. CASE Write
    BY <1>22 DEF Write
  <1>23. CASE Written
    BY <1>23 DEF Written
  <1>24. CASE Hang
    BY <1>24 DEF Hang
  <1>25. CASE Crash
    BY <1>25 DEF Crash
  <1>26. CASE Tick
    BY <1>26 DEF Tick, Less
  <1>27. CASE UNCHANGED vars
    BY <1>27 DEF vars
  <1> QED
    BY <1>1, <1>2, <1>3, <1>4, <1>5, <1>6, <1>7, <1>8, <1>9, <1>10, <1>11, <1>12,
       <1>13, <1>14, <1>15, <1>16, <1>17, <1>18, <1>19, <1>20, <1>21, <1>22,
       <1>23, <1>24, <1>25, <1>26, <1>27
    DEF Next, ReadWindow, Ensure, Work

\* Queues and worker are made and closed under the lock.
LEMMA ClientStep ==
    ASSUME IInv, [Next]_vars
    PROVE  ClientInv'
  <1> USE ThreadAssumption
      DEF IInv, TypeOK, LockInv, ClientInv, RequestInv, NothingGivenUp, Alive,
          Reading, Locked, queueVars, workerVars, timeVars, readVars, Goto,
          Threads
  <1>1. ASSUME NEW c \in Callers, Begin(c) PROVE ClientInv'
    BY <1>1 DEF Begin
  <1>2. ASSUME NEW c \in Callers, TakeRequests(c) PROVE ClientInv'
    BY <1>2 DEF TakeRequests
  <1>3. ASSUME NEW c \in Callers, Verify(c) PROVE ClientInv'
    BY <1>3 DEF Verify, EndUnasked, End, GivenUp
  <1>4. ASSUME NEW c \in Callers, Capture(c) PROVE ClientInv'
    BY <1>4 DEF Capture
  <1>5. ASSUME NEW c \in Callers, Put(c) PROVE ClientInv'
    BY <1>5 DEF Put, EndUnasked, End, GivenUp, Deadline, Larger
  <1>6. ASSUME NEW c \in Callers, Get(c) PROVE ClientInv'
    BY <1>6 DEF Get, EndUnasked, End, GivenUp
  <1>7. ASSUME NEW c \in Callers, SeeData(c) PROVE ClientInv'
    BY <1>7 DEF SeeData
  <1>8. ASSUME NEW c \in Callers, Receive(c) PROVE ClientInv'
    BY <1>8 DEF Receive, End, GivenUp
  <1>9. ASSUME NEW c \in Callers, FindClosed(c) PROVE ClientInv'
    BY <1>9 DEF FindClosed, End, GivenUp
  <1>10. ASSUME NEW c \in Callers, GiveUp(c) PROVE ClientInv'
    BY <1>10 DEF GiveUp, End, GivenUp
  <1>11. ASSUME NEW w \in Warmers, Prewarm(w) PROVE ClientInv'
    BY <1>11 DEF Prewarm
  <1>12. ASSUME NEW t \in Threads, TakeLock(t) PROVE ClientInv'
    BY <1>12 DEF TakeLock
  <1>13. ASSUME NEW t \in Threads, FindAlive(t) PROVE ClientInv'
    BY <1>13 DEF FindAlive, Ensured
  <1>14. ASSUME NEW t \in Threads, Renew(t) PROVE ClientInv'
    BY <1>14 DEF Renew, Closed, Outdate
  <1>15. ASSUME NEW t \in Threads, NewQueues(t) PROVE ClientInv'
    BY <1>15 DEF NewQueues
  <1>16. ASSUME NEW t \in Threads, StartWorker(t) PROVE ClientInv'
    BY <1>16 DEF StartWorker, Ensured
  <1>17. ASSUME NEW t \in Threads, StartFails(t) PROVE ClientInv'
    BY <1>17 DEF StartFails, Raise, End, GivenUp
  <1>18. ASSUME NEW t \in Threads, CloseRaises(t) PROVE ClientInv'
    BY <1>18 DEF CloseRaises, Raise, End, GivenUp
  <1>19. ASSUME NEW t \in Threads, Kill(t) PROVE ClientInv'
    BY <1>19 DEF Kill, Closed, Outdate
  <1>20. CASE Exit
    BY <1>20 DEF Exit
  <1>21. CASE TakeRequest
    BY <1>21 DEF TakeRequest
  <1>22. CASE Write
    BY <1>22 DEF Write
  <1>23. CASE Written
    BY <1>23 DEF Written
  <1>24. CASE Hang
    BY <1>24 DEF Hang
  <1>25. CASE Crash
    BY <1>25 DEF Crash
  <1>26. CASE Tick
    BY <1>26 DEF Tick, Less
  <1>27. CASE UNCHANGED vars
    BY <1>27 DEF vars
  <1> QED
    BY <1>1, <1>2, <1>3, <1>4, <1>5, <1>6, <1>7, <1>8, <1>9, <1>10, <1>11, <1>12,
       <1>13, <1>14, <1>15, <1>16, <1>17, <1>18, <1>19, <1>20, <1>21, <1>22,
       <1>23, <1>24, <1>25, <1>26, <1>27
    DEF Next, ReadWindow, Ensure, Work

\* A worker that replaces another is nobody's own but its starter's.
LEMMA OwnStep ==
    ASSUME IInv, [Next]_vars
    PROVE  OwnInv'
  <1> USE ThreadAssumption, TimeAssumption
      DEF IInv, TypeOK, LockInv, ClientInv, OwnInv, Alive, Reading, Locked,
          queueVars, workerVars, timeVars, readVars, Goto, Threads
  <1>1. ASSUME NEW c \in Callers, Begin(c) PROVE OwnInv'
    BY <1>1 DEF Begin
  <1>2. ASSUME NEW c \in Callers, TakeRequests(c) PROVE OwnInv'
    BY <1>2 DEF TakeRequests
  <1>3. ASSUME NEW c \in Callers, Verify(c) PROVE OwnInv'
    BY <1>3 DEF Verify, EndUnasked, End, GivenUp
  <1>4. ASSUME NEW c \in Callers, Capture(c) PROVE OwnInv'
    BY <1>4 DEF Capture
  <1>5. ASSUME NEW c \in Callers, Put(c) PROVE OwnInv'
    BY <1>5 DEF Put, EndUnasked, End, GivenUp, Deadline, Larger
  <1>6. ASSUME NEW c \in Callers, Get(c) PROVE OwnInv'
    BY <1>6 DEF Get, EndUnasked, End, GivenUp
  <1>7. ASSUME NEW c \in Callers, SeeData(c) PROVE OwnInv'
    BY <1>7 DEF SeeData
  <1>8. ASSUME NEW c \in Callers, Receive(c) PROVE OwnInv'
    BY <1>8 DEF Receive, End, GivenUp
  <1>9. ASSUME NEW c \in Callers, FindClosed(c) PROVE OwnInv'
    BY <1>9 DEF FindClosed, End, GivenUp
  <1>10. ASSUME NEW c \in Callers, GiveUp(c) PROVE OwnInv'
    BY <1>10 DEF GiveUp, End, GivenUp
  <1>11. ASSUME NEW w \in Warmers, Prewarm(w) PROVE OwnInv'
    BY <1>11 DEF Prewarm
  <1>12. ASSUME NEW t \in Threads, TakeLock(t) PROVE OwnInv'
    BY <1>12 DEF TakeLock
  <1>13. ASSUME NEW t \in Threads, FindAlive(t) PROVE OwnInv'
    BY <1>13 DEF FindAlive, Ensured
  <1>14. ASSUME NEW t \in Threads, Renew(t) PROVE OwnInv'
    BY <1>14 DEF Renew, Closed, Outdate
  <1>15. ASSUME NEW t \in Threads, NewQueues(t) PROVE OwnInv'
    BY <1>15 DEF NewQueues
  <1>16. ASSUME NEW t \in Threads, StartWorker(t) PROVE OwnInv'
    BY <1>16 DEF StartWorker, Ensured
  <1>17. ASSUME NEW t \in Threads, StartFails(t) PROVE OwnInv'
    BY <1>17 DEF StartFails, Raise, End, GivenUp
  <1>18. ASSUME NEW t \in Threads, CloseRaises(t) PROVE OwnInv'
    BY <1>18 DEF CloseRaises, Raise, End, GivenUp
  <1>19. ASSUME NEW t \in Threads, Kill(t) PROVE OwnInv'
    BY <1>19 DEF Kill, Closed, Outdate
  <1>20. CASE Exit
    BY <1>20 DEF Exit
  <1>21. CASE TakeRequest
    BY <1>21 DEF TakeRequest
  <1>22. CASE Write
    BY <1>22 DEF Write
  <1>23. CASE Written
    BY <1>23 DEF Written
  <1>24. CASE Hang
    BY <1>24 DEF Hang
  <1>25. CASE Crash
    BY <1>25 DEF Crash
  <1>26. CASE Tick
    BY <1>26 DEF Tick, Less
  <1>27. CASE UNCHANGED vars
    BY <1>27 DEF vars
  <1> QED
    BY <1>1, <1>2, <1>3, <1>4, <1>5, <1>6, <1>7, <1>8, <1>9, <1>10, <1>11, <1>12,
       <1>13, <1>14, <1>15, <1>16, <1>17, <1>18, <1>19, <1>20, <1>21, <1>22,
       <1>23, <1>24, <1>25, <1>26, <1>27
    DEF Next, ReadWindow, Ensure, Work

\* The grace and the deadline run down together.
LEMMA DeadlineStep ==
    ASSUME IInv, [Next]_vars
    PROVE  DeadlineInv'
  <1> USE ThreadAssumption, TimeAssumption
      DEF IInv, TypeOK, LockInv, DeadlineInv, Reading, Locked, Span, queueVars,
          workerVars, timeVars, readVars, Goto, Threads
  <1>1. ASSUME NEW c \in Callers, Begin(c) PROVE DeadlineInv'
    BY <1>1 DEF Begin
  <1>2. ASSUME NEW c \in Callers, TakeRequests(c) PROVE DeadlineInv'
    BY <1>2 DEF TakeRequests
  <1>3. ASSUME NEW c \in Callers, Verify(c) PROVE DeadlineInv'
    BY <1>3 DEF Verify, EndUnasked, End, GivenUp
  <1>4. ASSUME NEW c \in Callers, Capture(c) PROVE DeadlineInv'
    BY <1>4 DEF Capture
  <1>5. ASSUME NEW c \in Callers, Put(c) PROVE DeadlineInv'
    BY <1>5 DEF Put, EndUnasked, End, GivenUp, Deadline, Larger
  <1>6. ASSUME NEW c \in Callers, Get(c) PROVE DeadlineInv'
    BY <1>6 DEF Get, EndUnasked, End, GivenUp
  <1>7. ASSUME NEW c \in Callers, SeeData(c) PROVE DeadlineInv'
    BY <1>7 DEF SeeData
  <1>8. ASSUME NEW c \in Callers, Receive(c) PROVE DeadlineInv'
    BY <1>8 DEF Receive, End, GivenUp
  <1>9. ASSUME NEW c \in Callers, FindClosed(c) PROVE DeadlineInv'
    BY <1>9 DEF FindClosed, End, GivenUp
  <1>10. ASSUME NEW c \in Callers, GiveUp(c) PROVE DeadlineInv'
    BY <1>10 DEF GiveUp, End, GivenUp
  <1>11. ASSUME NEW w \in Warmers, Prewarm(w) PROVE DeadlineInv'
    BY <1>11 DEF Prewarm
  <1>12. ASSUME NEW t \in Threads, TakeLock(t) PROVE DeadlineInv'
    BY <1>12 DEF TakeLock
  <1>13. ASSUME NEW t \in Threads, FindAlive(t) PROVE DeadlineInv'
    BY <1>13 DEF FindAlive, Ensured
  <1>14. ASSUME NEW t \in Threads, Renew(t) PROVE DeadlineInv'
    BY <1>14 DEF Renew, Closed, Outdate
  <1>15. ASSUME NEW t \in Threads, NewQueues(t) PROVE DeadlineInv'
    BY <1>15 DEF NewQueues
  <1>16. ASSUME NEW t \in Threads, StartWorker(t) PROVE DeadlineInv'
    BY <1>16 DEF StartWorker, Ensured
  <1>17. ASSUME NEW t \in Threads, StartFails(t) PROVE DeadlineInv'
    BY <1>17 DEF StartFails, Raise, End, GivenUp
  <1>18. ASSUME NEW t \in Threads, CloseRaises(t) PROVE DeadlineInv'
    BY <1>18 DEF CloseRaises, Raise, End, GivenUp
  <1>19. ASSUME NEW t \in Threads, Kill(t) PROVE DeadlineInv'
    BY <1>19 DEF Kill, Closed, Outdate
  <1>20. CASE Exit
    BY <1>20 DEF Exit
  <1>21. CASE TakeRequest
    BY <1>21 DEF TakeRequest
  <1>22. CASE Write
    BY <1>22 DEF Write
  <1>23. CASE Written
    BY <1>23 DEF Written
  <1>24. CASE Hang
    BY <1>24 DEF Hang
  <1>25. CASE Crash
    BY <1>25 DEF Crash
  <1>26. CASE Tick
    BY <1>26 DEF Tick, Less
  <1>27. CASE UNCHANGED vars
    BY <1>27 DEF vars
  <1> QED
    BY <1>1, <1>2, <1>3, <1>4, <1>5, <1>6, <1>7, <1>8, <1>9, <1>10, <1>11, <1>12,
       <1>13, <1>14, <1>15, <1>16, <1>17, <1>18, <1>19, <1>20, <1>21, <1>22,
       <1>23, <1>24, <1>25, <1>26, <1>27
    DEF Next, ReadWindow, Ensure, Work

\* A request moves from queue to worker to queue.
LEMMA RequestStep ==
    ASSUME IInv, [Next]_vars
    PROVE  RequestInv'
  <1> USE ThreadAssumption
      DEF IInv, TypeOK, LockInv, ClientInv, DeadlineInv, RequestInv,
          NothingGivenUp, Alive, Reading, Locked, queueVars, workerVars, timeVars,
          readVars, Goto, Threads
  <1>1. ASSUME NEW c \in Callers, Begin(c) PROVE RequestInv'
    BY <1>1 DEF Begin
  <1>2. ASSUME NEW c \in Callers, TakeRequests(c) PROVE RequestInv'
    BY <1>2 DEF TakeRequests
  <1>3. ASSUME NEW c \in Callers, Verify(c) PROVE RequestInv'
    BY <1>3 DEF Verify, EndUnasked, End, GivenUp
  <1>4. ASSUME NEW c \in Callers, Capture(c) PROVE RequestInv'
    BY <1>4 DEF Capture
  <1>5. ASSUME NEW c \in Callers, Put(c) PROVE RequestInv'
    BY <1>5 DEF Put, EndUnasked, End, GivenUp, Deadline, Larger
  <1>6. ASSUME NEW c \in Callers, Get(c) PROVE RequestInv'
    BY <1>6 DEF Get, EndUnasked, End, GivenUp
  <1>7. ASSUME NEW c \in Callers, SeeData(c) PROVE RequestInv'
    BY <1>7 DEF SeeData
  <1>8. ASSUME NEW c \in Callers, Receive(c) PROVE RequestInv'
    BY <1>8 DEF Receive, End, GivenUp
  <1>9. ASSUME NEW c \in Callers, FindClosed(c) PROVE RequestInv'
    BY <1>9 DEF FindClosed, End, GivenUp
  <1>10. ASSUME NEW c \in Callers, GiveUp(c) PROVE RequestInv'
    BY <1>10 DEF GiveUp, End, GivenUp
  <1>11. ASSUME NEW w \in Warmers, Prewarm(w) PROVE RequestInv'
    BY <1>11 DEF Prewarm
  <1>12. ASSUME NEW t \in Threads, TakeLock(t) PROVE RequestInv'
    BY <1>12 DEF TakeLock
  <1>13. ASSUME NEW t \in Threads, FindAlive(t) PROVE RequestInv'
    BY <1>13 DEF FindAlive, Ensured
  <1>14. ASSUME NEW t \in Threads, Renew(t) PROVE RequestInv'
    BY <1>14 DEF Renew, Closed, Outdate
  <1>15. ASSUME NEW t \in Threads, NewQueues(t) PROVE RequestInv'
    BY <1>15 DEF NewQueues
  <1>16. ASSUME NEW t \in Threads, StartWorker(t) PROVE RequestInv'
    BY <1>16 DEF StartWorker, Ensured
  <1>17. ASSUME NEW t \in Threads, StartFails(t) PROVE RequestInv'
    BY <1>17 DEF StartFails, Raise, End, GivenUp
  <1>18. ASSUME NEW t \in Threads, CloseRaises(t) PROVE RequestInv'
    <2>1. CASE t \in Callers
      <3>1. /\ t \notin inbox' /\ task' # t /\ on'[t] = "none" /\ pc'[t] = "idle"
            /\ \A c \in Callers : c \in inbox' => c \in inbox
            /\ task' = task \/ task' = None
            /\ outbox' = outbox
        BY <1>18, <2>1 DEF CloseRaises, Raise, End, GivenUp
      <3>2. \A c \in Callers \ {t} : on'[c] = on[c] /\ pc'[c] = pc[c]
        BY <1>18, <2>1 DEF CloseRaises, Raise, End
      <3>3. t \notin outbox'
        BY <1>18, <3>1 DEF CloseRaises
      <3> QED
        BY <3>1, <3>2, <3>3
    <2>2. CASE t \notin Callers
      BY <1>18, <2>2 DEF CloseRaises, Raise
    <2> QED
      BY <2>1, <2>2
  <1>19. ASSUME NEW t \in Threads, Kill(t) PROVE RequestInv'
    BY <1>19 DEF Kill, Closed, Outdate
  <1>20. CASE Exit
    BY <1>20 DEF Exit
  <1>21. CASE TakeRequest
    BY <1>21 DEF TakeRequest
  <1>22. CASE Write
    BY <1>22 DEF Write
  <1>23. CASE Written
    BY <1>23 DEF Written
  <1>24. CASE Hang
    BY <1>24 DEF Hang
  <1>25. CASE Crash
    BY <1>25 DEF Crash
  <1>26. CASE Tick
    BY <1>26 DEF Tick, Less
  <1>27. CASE UNCHANGED vars
    BY <1>27 DEF vars
  <1> QED
    BY <1>1, <1>2, <1>3, <1>4, <1>5, <1>6, <1>7, <1>8, <1>9, <1>10, <1>11, <1>12,
       <1>13, <1>14, <1>15, <1>16, <1>17, <1>18, <1>19, <1>20, <1>21, <1>22,
       <1>23, <1>24, <1>25, <1>26, <1>27
    DEF Next, ReadWindow, Ensure, Work

\* A read that gives up takes the queues with it.
LEMMA GivenUpStep ==
    ASSUME IInv, [Next]_vars
    PROVE  NothingGivenUp'
  <1> USE ThreadAssumption
      DEF IInv, TypeOK, LockInv, ClientInv, DeadlineInv, RequestInv,
          NothingGivenUp, Alive, Reading, Locked, queueVars, workerVars, timeVars,
          readVars, Goto, Threads
  <1>1. ASSUME NEW c \in Callers, Begin(c) PROVE NothingGivenUp'
    BY <1>1 DEF Begin
  <1>2. ASSUME NEW c \in Callers, TakeRequests(c) PROVE NothingGivenUp'
    BY <1>2 DEF TakeRequests
  <1>3. ASSUME NEW c \in Callers, Verify(c) PROVE NothingGivenUp'
    BY <1>3 DEF Verify, EndUnasked, End, GivenUp
  <1>4. ASSUME NEW c \in Callers, Capture(c) PROVE NothingGivenUp'
    BY <1>4 DEF Capture
  <1>5. ASSUME NEW c \in Callers, Put(c) PROVE NothingGivenUp'
    BY <1>5 DEF Put, EndUnasked, End, GivenUp, Deadline, Larger
  <1>6. ASSUME NEW c \in Callers, Get(c) PROVE NothingGivenUp'
    BY <1>6 DEF Get, EndUnasked, End, GivenUp
  <1>7. ASSUME NEW c \in Callers, SeeData(c) PROVE NothingGivenUp'
    BY <1>7 DEF SeeData
  <1>8. ASSUME NEW c \in Callers, Receive(c) PROVE NothingGivenUp'
    BY <1>8 DEF Receive, End, GivenUp
  <1>9. ASSUME NEW c \in Callers, FindClosed(c) PROVE NothingGivenUp'
    BY <1>9 DEF FindClosed, End, GivenUp
  <1>10. ASSUME NEW c \in Callers, GiveUp(c) PROVE NothingGivenUp'
    BY <1>10 DEF GiveUp, End, GivenUp
  <1>11. ASSUME NEW w \in Warmers, Prewarm(w) PROVE NothingGivenUp'
    BY <1>11 DEF Prewarm
  <1>12. ASSUME NEW t \in Threads, TakeLock(t) PROVE NothingGivenUp'
    BY <1>12 DEF TakeLock
  <1>13. ASSUME NEW t \in Threads, FindAlive(t) PROVE NothingGivenUp'
    BY <1>13 DEF FindAlive, Ensured
  <1>14. ASSUME NEW t \in Threads, Renew(t) PROVE NothingGivenUp'
    BY <1>14 DEF Renew, Closed, Outdate
  <1>15. ASSUME NEW t \in Threads, NewQueues(t) PROVE NothingGivenUp'
    BY <1>15 DEF NewQueues
  <1>16. ASSUME NEW t \in Threads, StartWorker(t) PROVE NothingGivenUp'
    BY <1>16 DEF StartWorker, Ensured
  <1>17. ASSUME NEW t \in Threads, StartFails(t) PROVE NothingGivenUp'
    BY <1>17 DEF StartFails, Raise, End, GivenUp
  <1>18. ASSUME NEW t \in Threads, CloseRaises(t) PROVE NothingGivenUp'
    BY <1>18 DEF CloseRaises, Raise, End, GivenUp
  <1>19. ASSUME NEW t \in Threads, Kill(t) PROVE NothingGivenUp'
    BY <1>19 DEF Kill, Closed, Outdate
  <1>20. CASE Exit
    BY <1>20 DEF Exit
  <1>21. CASE TakeRequest
    BY <1>21 DEF TakeRequest
  <1>22. CASE Write
    BY <1>22 DEF Write
  <1>23. CASE Written
    BY <1>23 DEF Written
  <1>24. CASE Hang
    BY <1>24 DEF Hang
  <1>25. CASE Crash
    BY <1>25 DEF Crash
  <1>26. CASE Tick
    BY <1>26 DEF Tick, Less
  <1>27. CASE UNCHANGED vars
    BY <1>27 DEF vars
  <1> QED
    BY <1>1, <1>2, <1>3, <1>4, <1>5, <1>6, <1>7, <1>8, <1>9, <1>10, <1>11, <1>12,
       <1>13, <1>14, <1>15, <1>16, <1>17, <1>18, <1>19, <1>20, <1>21, <1>22,
       <1>23, <1>24, <1>25, <1>26, <1>27
    DEF Next, ReadWindow, Ensure, Work

-----------------------------------------------------------------------------
(***************************************************************************)
(* The theorems.                                                           *)
(***************************************************************************)
LEMMA InvInit == Init => IInv
  <1> SUFFICES ASSUME Init PROVE IInv
    OBVIOUS
  <1>1. TypeOK
    <2>1. queues \in BOOLEAN /\ torn \in BOOLEAN
      BY Zenon DEF Init
    <2> QED
      BY <2>1, TimeAssumption DEF Init, TypeOK, Threads, Reading, Span, Larger
  <1>2. LockInv /\ ClientInv /\ OwnInv
    BY ThreadAssumption
       DEF Init, LockInv, ClientInv, OwnInv, Threads, Locked, Reading
  <1>3. DeadlineInv /\ RequestInv /\ NothingGivenUp
    BY ThreadAssumption DEF Init, DeadlineInv, RequestInv, NothingGivenUp, Threads
  <1> QED
    BY <1>1, <1>2, <1>3 DEF IInv

LEMMA InvStep == IInv /\ [Next]_vars => IInv'
  BY TypesStep, LockStep, ClientStep, OwnStep, DeadlineStep, RequestStep, GivenUpStep
     DEF IInv

LEMMA Invariance == Spec => []IInv
  BY InvInit, InvStep, PTL DEF Spec

\* The variables of client and worker keep their types (board_reader_process.py).
THEOREM TypeCorrect == Spec => []TypeOK
  BY Invariance, PTL DEF IInv

\* No request or answer is left over for a later read (read_window).
THEOREM NothingIsGivenUp == Spec => []NothingGivenUp
  BY Invariance, PTL DEF IInv

\* The places from which a thread terminates a worker.
LEMMA OnlyKillTerminates ==
    ASSUME IInv, [Next]_vars, worker \in Alive, worker' = "none"
    PROVE  \E t \in Threads : Kill(t)
  <1> USE DEF Alive
  <1>1. ASSUME NEW c \in Callers, Begin(c) \/ TakeRequests(c) \/ ReadWindow(c)
        PROVE  worker' = worker
    BY <1>1 DEF Begin, TakeRequests, ReadWindow, Verify, Capture, Put, Get, SeeData,
       Receive, FindClosed, GiveUp, EndUnasked, workerVars
  <1>2. ASSUME NEW w \in Warmers, Prewarm(w)
        PROVE  worker' = worker
    BY <1>2 DEF Prewarm, workerVars
  <1>3. ASSUME NEW t \in Threads, TakeLock(t) \/ Ensure(t)
        PROVE  Kill(t)
    BY <1>3 DEF TakeLock, Ensure, FindAlive, Renew, NewQueues, StartWorker, StartFails,
       CloseRaises, workerVars
  <1>4. ASSUME Exit \/ Work \/ Hang \/ Crash \/ Tick
        PROVE  worker' # "none"
    BY <1>4 DEF Exit, Work, TakeRequest, Write, Written, Hang, Crash, Tick, workerVars
  <1>5. worker' # worker
    OBVIOUS
  <1> QED
    BY <1>1, <1>2, <1>3, <1>4, <1>5 DEF Next, vars, workerVars

\* A worker in its grace is not terminated by a read it belongs to
\* (_worker_still_starting).
THEOREM YoungAreSpared == Spec => YoungSpared
  <1>1. IInv /\ [Next]_vars =>
          [\A c \in Callers :
            (pc[c] = "kill" /\ pc'[c] = "idle" /\ c \in own /\ worker \in Alive)
                => young = 0]_vars
    BY DEF IInv, OwnInv, DeadlineInv
  <1> QED
    BY <1>1, Invariance, PTL DEF Spec, YoungSpared

\* The queues of a worker that lives go only with the worker (ensure_started,
\* restart, shutdown).
THEOREM LiveWorkersAreKept == Spec => LiveWorkerKept
  <1>1. IInv /\ [Next]_vars =>
          [(worker \in Alive /\ queues /\ ~queues') =>
             \E t \in Threads : pc[t] = "kill" /\ lock = t]_vars
    <2> SUFFICES ASSUME IInv, [Next]_vars, worker \in Alive, queues, ~queues'
                 PROVE  \E t \in Threads : pc[t] = "kill" /\ lock = t
      BY DEF vars
    <2>1. worker' = "none"
      BY ClientStep DEF IInv, ClientInv
    <2>2. PICK t \in Threads : Kill(t)
      BY <2>1, OnlyKillTerminates
    <2> QED
      BY <2>2 DEF Kill, IInv, LockInv, Locked
  <1> QED
    BY <1>1, Invariance, PTL DEF Spec, LiveWorkerKept
=============================================================================
