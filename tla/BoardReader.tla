---------------------------- MODULE BoardReader ----------------------------
(***************************************************************************)
(* The client of one board's reader process (board_reader_process.py): the *)
(* threads of the web application that read windows or start workers ahead *)
(* of time, the two locks, the queues, and the worker itself.              *)
(*                                                                         *)
(* Queues and worker are replaced together, and a thread may be left with  *)
(* those of before (on = "old").  Time is counted in ticks.                *)
(***************************************************************************)
EXTENDS Integers, FiniteSets

CONSTANTS
    Callers,   \* threads in read_window
    Warmers,   \* threads in prewarm_board_reader_processes
    Main,      \* the interpreter's exit, with its atexit handler
    Timeout,   \* _reader_timeout_s, in ticks
    Grace,     \* _startup_grace_s, in ticks
    Faults,    \* what may go wrong
    None

Threads == Callers \cup Warmers \cup {Main}

ASSUME ThreadAssumption ==
    /\ Callers \cap Warmers = {} /\ Main \notin Callers \cup Warmers
    /\ None \notin Threads
ASSUME TimeAssumption  == Timeout \in Nat \ {0} /\ Grace \in Nat
ASSUME FaultAssumption == Faults \subseteq {"crash", "hang", "spawn", "exit"}

VARIABLES
    requests,  \* thread that holds _request_lock, or None
    lock,      \* thread that holds _lock, or None
    queues,    \* whether request_q and response_q exist
    worker,    \* the process, or "none"
    young,     \* ticks until started_mono_s is Grace ago; 0 without a start
    inbox,     \* requests in request_q; None stands for one given up
    task,      \* request the worker has taken, or None
    outbox,    \* complete answers in response_q; None as in inbox
    torn,      \* whether response_q ends in a part of an answer
    pc,        \* where each thread is
    on,        \* the response queue a caller waits on
    own,       \* ground truth: callers for which the worker is still the one
               \* that their ensure_started left them with
    grace,     \* _worker_still_starting, as captured: ticks it stays true
    deadline   \* ticks until a caller's deadline

queueVars  == <<queues, inbox, outbox, torn>>
workerVars == <<worker, task, young>>
timeVars   == <<grace, deadline>>
readVars   == <<on, own, timeVars>>
vars == <<requests, lock, queueVars, workerVars, pc, readVars>>

Alive == {"idle", "busy", "writing", "hung"}

\* Callers that hold _request_lock, and threads that hold _lock.
Reading == {"ensure", "check", "queues", "start", "verify", "capture", "put", "get",
            "wait", "recv", "restart", "kill"}
Locked  == {"check", "queues", "start", "kill"}

Larger(m, n) == IF m < n THEN n ELSE m

\* Deadlines start at Timeout or at the end of the grace.
Span == 0..Larger(Timeout, Grace)

TypeOK ==
    /\ requests \in Callers \cup {None}
    /\ lock \in Threads \cup {None}
    /\ queues \in BOOLEAN
    /\ worker \in Alive \cup {"none", "unstarted", "dead"}
    /\ young \in 0..Grace
    /\ inbox \in SUBSET (Callers \cup {None})
    /\ task \in Callers \cup {None}
    /\ outbox \in SUBSET (Callers \cup {None})
    /\ torn \in BOOLEAN
    /\ pc \in [Threads -> Reading \cup {"idle", "queue", "done"}]
    /\ on \in [Callers -> {"none", "current", "old"}]
    /\ own \in SUBSET Callers
    /\ grace \in [Callers -> 0..Grace]
    /\ deadline \in [Callers -> Span]

Init ==
    /\ requests = None /\ lock = None
    /\ queues = FALSE
    /\ worker = "none" /\ young = 0
    /\ inbox = {} /\ task = None /\ outbox = {} /\ torn = FALSE
    /\ pc = [t \in Threads |-> "idle"]
    /\ on = [c \in Callers |-> "none"]
    /\ own = {}
    /\ grace = [c \in Callers |-> 0]
    /\ deadline = [c \in Callers |-> 0]

Goto(t, place) == pc' = [pc EXCEPT ![t] = place]

-----------------------------------------------------------------------------
(***************************************************************************)
(* Helpers for the end of a read and for _close_locked.                    *)
(***************************************************************************)
\* What c asked for is nobody's any more.
GivenUp(box, c) == IF c \in box THEN (box \ {c}) \cup {None} ELSE box

\* The read of c returns or raises, with its request still out or not.
End(c) ==
    /\ Goto(c, "idle")
    /\ requests' = None
    /\ inbox' = GivenUp(inbox, c)
    /\ task' = IF task = c THEN None ELSE task
    /\ on' = [on EXCEPT ![c] = "none"]
    /\ own' = own \ {c}
    /\ grace' = [grace EXCEPT ![c] = 0]
    /\ deadline' = [deadline EXCEPT ![c] = 0]

\* ... before anything was asked.
EndUnasked(c) ==
    /\ End(c)
    /\ UNCHANGED <<lock, queues, worker, young, outbox, torn>>

\* Whoever waits on the queues waits on the old ones now.
Outdate(c) == IF on[c] = "current" THEN "old" ELSE on[c]

\* _close_locked: no process, no queues.
Closed ==
    /\ own' = {}
    /\ queues' = FALSE
    /\ worker' = "none" /\ young' = 0
    /\ inbox' = {} /\ task' = None /\ outbox' = {} /\ torn' = FALSE

-----------------------------------------------------------------------------
(***************************************************************************)
(* ensure_started, called by read_window with and by prewarm without       *)
(* _request_lock.                                                          *)
(***************************************************************************)
Begin(c) ==
    /\ pc[c] = "idle"
    /\ Goto(c, "queue")
    /\ UNCHANGED <<requests, lock, queueVars, workerVars, readVars>>

TakeRequests(c) ==
    /\ pc[c] = "queue"
    /\ requests = None
    /\ requests' = c
    /\ Goto(c, "ensure")
    /\ UNCHANGED <<lock, queueVars, workerVars, readVars>>

Prewarm(w) ==
    /\ pc[w] = "idle"
    /\ Goto(w, "ensure")
    /\ UNCHANGED <<requests, lock, queueVars, workerVars, readVars>>

TakeLock(t) ==
    /\ lock = None
    /\ \/ pc[t] = "ensure" /\ Goto(t, "check")
       \/ pc[t] = "restart" /\ Goto(t, "kill")
    /\ lock' = t
    /\ UNCHANGED <<requests, queueVars, workerVars, readVars>>

\* The end of ensure_started.
Ensured(t) ==
    /\ lock' = None
    /\ Goto(t, IF t \in Callers THEN "verify" ELSE "idle")
    /\ own' = own \cup ({t} \cap Callers)

FindAlive(t) ==
    /\ pc[t] = "check"
    /\ worker \in Alive
    /\ Ensured(t)
    /\ UNCHANGED <<requests, queueVars, workerVars, on, timeVars>>

\* Mutant of Renew: the worker is not asked whether it lives.
RenewAlways(t) ==
    /\ pc[t] = "check"
    /\ worker # "unstarted"
    /\ Closed
    /\ on' = [c \in Callers |-> Outdate(c)]
    /\ Goto(t, "queues")
    /\ UNCHANGED <<requests, lock, timeVars>>

\* Nothing is terminated: what is left of a dead worker is put away.
Renew(t) ==
    /\ pc[t] = "check"
    /\ worker \in {"none", "dead"}
    /\ Closed
    /\ on' = [c \in Callers |-> Outdate(c)]
    /\ Goto(t, "queues")
    /\ UNCHANGED <<requests, lock, timeVars>>

NewQueues(t) ==
    /\ pc[t] = "queues"
    /\ queues' = TRUE
    /\ Goto(t, "start")
    /\ UNCHANGED <<requests, lock, inbox, outbox, torn, workerVars, readVars>>

StartWorker(t) ==
    /\ pc[t] = "start"
    /\ worker' = "idle"
    /\ young' = Grace
    /\ Ensured(t)
    /\ UNCHANGED <<requests, queueVars, task, on, timeVars>>

\* An exception out of ensure_started or restart releases the locks.
Raise(t) ==
    /\ lock' = None
    /\ IF t \in Callers
       THEN End(t)
       ELSE /\ Goto(t, IF t = Main THEN "done" ELSE "idle")
            /\ UNCHANGED <<requests, inbox, task, readVars>>

\* start() raises, and leaves a Process that was never started.
StartFails(t) ==
    /\ "spawn" \in Faults
    /\ pc[t] = "start"
    /\ worker' = "unstarted"
    /\ Raise(t)
    /\ UNCHANGED <<queues, outbox, torn, young>>

\* A Process that was never started cannot be joined: _close_locked raises.
CloseRaises(t) ==
    /\ pc[t] \in {"check", "kill"}
    /\ worker = "unstarted"
    /\ Raise(t)
    /\ UNCHANGED <<queues, outbox, torn, worker, young>>

-----------------------------------------------------------------------------
(***************************************************************************)
(* read_window, after ensure_started.                                      *)
(***************************************************************************)
\* The queues are there, or the read raises.
Verify(c) ==
    /\ pc[c] = "verify"
    /\ \/ /\ queues
          /\ Goto(c, "capture")
          /\ UNCHANGED <<requests, lock, queueVars, workerVars, readVars>>
       \/ ~queues /\ EndUnasked(c)

\* Mutant of Capture: the start is looked up before the worker is started.
CaptureNothing(c) ==
    /\ pc[c] = "capture"
    /\ grace' = [grace EXCEPT ![c] = 0]
    /\ Goto(c, "put")
    /\ UNCHANGED <<requests, lock, queueVars, workerVars, on, own, deadline>>

Capture(c) ==
    /\ pc[c] = "capture"
    /\ grace' = [grace EXCEPT ![c] = young]
    /\ Goto(c, "put")
    /\ UNCHANGED <<requests, lock, queueVars, workerVars, on, own, deadline>>

\* Mutants of Deadline: the grace is left out, or added.
DeadlineTimeout(c) == Timeout
DeadlineSum(c)     == Timeout + grace[c]

\* The deadline of a request put now.
Deadline(c) == Larger(Timeout, grace[c])

\* The queue holds eight requests and never more than this one (NothingGivenUp).
Put(c) ==
    /\ pc[c] = "put"
    /\ \/ /\ queues
          /\ inbox' = inbox \cup {c}
          /\ deadline' = [deadline EXCEPT ![c] = Deadline(c)]
          /\ Goto(c, "get")
          /\ UNCHANGED <<requests, lock, queues, outbox, torn, workerVars, on, own, grace>>
       \/ ~queues /\ EndUnasked(c)

\* self.response_q is looked up; it may have gone since.
Get(c) ==
    /\ pc[c] = "get"
    /\ \/ /\ queues
          /\ on' = [on EXCEPT ![c] = "current"]
          /\ Goto(c, "wait")
          /\ UNCHANGED <<requests, lock, queueVars, workerVars, own, timeVars>>
       \/ ~queues /\ EndUnasked(c)

\* The queue has data, though not yet a whole answer: the read of it has no
\* time-out.
SeeData(c) ==
    /\ pc[c] = "wait" /\ on[c] = "current"
    /\ worker = "writing" \/ torn
    /\ Goto(c, "recv")
    /\ UNCHANGED <<requests, lock, queueVars, workerVars, readVars>>

\* An answer to another request would be put aside.
Receive(c) ==
    /\ pc[c] \in {"wait", "recv"} /\ on[c] = "current"
    /\ \E a \in outbox :
        /\ outbox' = outbox \ {a}
        /\ IF a = c THEN End(c)
                    ELSE /\ Goto(c, "wait")
                         /\ UNCHANGED <<requests, inbox, task, readVars>>
    /\ UNCHANGED <<lock, queues, torn, worker, young>>

\* The queue is closed while c waits on it.
FindClosed(c) ==
    /\ pc[c] = "wait" /\ on[c] = "old"
    /\ End(c)
    /\ UNCHANGED <<lock, queues, worker, young, outbox, torn>>

\* Mutant of GiveUp: nothing is terminated.
GiveUpLeaving(c) ==
    /\ pc[c] = "wait" /\ deadline[c] = 0
    /\ End(c)
    /\ outbox' = GivenUp(outbox, c)
    /\ UNCHANGED <<lock, queues, worker, young, torn>>

\* Mutant of GiveUp: a worker that lives is waited for.
GiveUpOnDead(c) ==
    /\ pc[c] = "wait" /\ deadline[c] = 0
    /\ worker \notin Alive
    /\ Goto(c, "restart")
    /\ UNCHANGED <<requests, lock, queueVars, workerVars, readVars>>

\* At the deadline the worker is terminated, unless it is starting.
GiveUp(c) ==
    /\ pc[c] = "wait" /\ deadline[c] = 0
    /\ IF grace[c] > 0
       THEN /\ End(c)
            /\ outbox' = GivenUp(outbox, c)
       ELSE /\ Goto(c, "restart")
            /\ UNCHANGED <<requests, inbox, task, outbox, readVars>>
    /\ UNCHANGED <<lock, queues, worker, young, torn>>

\* shutdown_board_reader_processes asks for _lock only.
Exit ==
    /\ "exit" \in Faults
    /\ pc[Main] = "idle"
    /\ Goto(Main, "restart")
    /\ UNCHANGED <<requests, lock, queueVars, workerVars, readVars>>

\* restart and shutdown: terminate, join, kill, close.
Kill(t) ==
    /\ pc[t] = "kill"
    /\ worker # "unstarted"
    /\ Closed
    /\ lock' = None
    /\ IF t \in Callers
       THEN /\ requests' = None
            /\ on' = [c \in Callers |-> IF c = t THEN "none" ELSE Outdate(c)]
            /\ grace' = [grace EXCEPT ![t] = 0]
            /\ Goto(t, "idle")
            /\ UNCHANGED deadline
       ELSE /\ on' = [c \in Callers |-> Outdate(c)]
            /\ Goto(t, "done")
            /\ UNCHANGED <<requests, timeVars>>

-----------------------------------------------------------------------------
(***************************************************************************)
(* The worker process, and time.                                           *)
(***************************************************************************)
\* request_q.get
TakeRequest ==
    /\ worker = "idle"
    /\ \E a \in inbox : inbox' = inbox \ {a} /\ task' = a
    /\ worker' = "busy"
    /\ UNCHANGED <<requests, lock, queues, outbox, torn, young, pc, readVars>>

\* A window, no data, or any exception: each is put into response_q, and goes
\* through a pipe that may be smaller.
Write ==
    /\ worker = "busy"
    /\ worker' = "writing"
    /\ UNCHANGED <<requests, lock, queueVars, task, young, pc, readVars>>

Written ==
    /\ worker = "writing"
    /\ outbox' = outbox \cup {task}
    /\ worker' = "idle" /\ task' = None
    /\ UNCHANGED <<requests, lock, queues, inbox, torn, young, pc, readVars>>

Hang ==
    /\ "hang" \in Faults
    /\ worker = "busy"
    /\ worker' = "hung"
    /\ UNCHANGED <<requests, lock, queueVars, task, young, pc, readVars>>

Crash ==
    /\ "crash" \in Faults
    /\ worker \in Alive
    /\ worker' = "dead" /\ task' = None
    /\ torn' = (torn \/ worker = "writing")
    /\ UNCHANGED <<requests, lock, queues, inbox, outbox, young, pc, readVars>>

Less(n) == IF n > 0 THEN n - 1 ELSE 0

Tick ==
    /\ young' = Less(young)
    /\ grace' = [c \in Callers |-> Less(grace[c])]
    /\ deadline' = [c \in Callers |-> Less(deadline[c])]
    /\ UNCHANGED <<requests, lock, queueVars, worker, task, pc, on, own>>

-----------------------------------------------------------------------------
Ensure(t) ==
    \/ FindAlive(t) \/ Renew(t) \/ NewQueues(t) \/ StartWorker(t) \/ StartFails(t)
    \/ CloseRaises(t) \/ Kill(t)

ReadWindow(c) ==
    \/ Verify(c) \/ Capture(c) \/ Put(c) \/ Get(c) \/ SeeData(c) \/ Receive(c)
    \/ FindClosed(c) \/ GiveUp(c)

Work == TakeRequest \/ Write \/ Written

Next ==
    \/ \E c \in Callers : Begin(c) \/ TakeRequests(c) \/ ReadWindow(c)
    \/ \E w \in Warmers : Prewarm(w)
    \/ \E t \in Threads : TakeLock(t) \/ Ensure(t)
    \/ Exit
    \/ Work \/ Hang \/ Crash
    \/ Tick

Spec == Init /\ [][Next]_vars

\* Threads go on, and one that waits for a lock gets it if it is released again
\* and again; a worker that is not hung works; pages poll; time passes.
FairSpec ==
    /\ Spec
    /\ WF_vars(Work) /\ WF_vars(Tick)
    /\ \A c \in Callers : /\ WF_vars(Begin(c)) /\ WF_vars(ReadWindow(c))
                          /\ SF_vars(TakeRequests(c))
    /\ \A t \in Threads : WF_vars(Ensure(t)) /\ SF_vars(TakeLock(t))

-----------------------------------------------------------------------------
(***************************************************************************)
(* Properties.                                                             *)
(***************************************************************************)
\* The queues of a client never hold a request or an answer that was given up:
\* no read waits behind work for nobody, and none is handed another's answer
\* (deadline and restart in read_window).  Queues whose worker could not be
\* started have nobody to serve them.
NothingGivenUp ==
    worker # "unstarted" =>
        /\ None \notin inbox \cup outbox
        /\ worker \in {"busy", "writing"} => task # None

\* A read never terminates the worker that it started or found, while that is
\* in its start-up grace (comment at _worker_still_starting).
YoungSpared ==
    [][\A c \in Callers :
        (pc[c] = "kill" /\ pc'[c] = "idle" /\ c \in own /\ worker \in Alive) => young = 0]_vars

\* Only a time-out or the exit takes the queues from a worker that lives:
\* whoever calls ensure_started meanwhile leaves them alone.
LiveWorkerKept ==
    [][(worker \in Alive /\ queues /\ ~queues') => \E t \in Threads : pc[t] = "kill" /\ lock = t]_vars

\* The read of a message that its writer never finished does not end.
Torn(c) == pc[c] = "recv" /\ (torn \/ on[c] = "old")

\* Every read of a window ends, whether the worker answers, hangs, dies or is
\* replaced (time-out in read_window); only a worker that dies while it writes
\* an answer takes the read with it, and those that queue behind it.
EveryReadEnds ==
    \A c \in Callers : pc[c] = "queue" ~> pc[c] = "idle" \/ \E d \in Callers : Torn(d)

\* While pages poll, a worker that hangs or dies is replaced, unless its reader
\* is caught in a torn answer or a Process could not be started.
BoardRecovers ==
    worker \in {"hung", "dead"} ~>
        worker \in {"idle", "unstarted"} \/ \E c \in Callers : Torn(c)
=============================================================================
