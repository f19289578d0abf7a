----------------------------- MODULE ShutdownLog -----------------------------
(***************************************************************************)
(* The evidence a board logger leaves in .run/logger.log, and the checks   *)
(* safe_pipeline_stop.py makes on it.                                      *)
(*                                                                         *)
(* The log is a sequence of lines.  Only the lines the checker's regular   *)
(* expressions look for carry content; every other line is "text".  A byte *)
(* offset of the code is a position in the sequence: what lies after the   *)
(* offset k is the lines k+1, k+2, ...                                     *)
(***************************************************************************)
EXTENDS Naturals, Sequences

CONSTANT Boards   \* the roles baseline, target_1, ... that ROLES lists

Text            == [kind |-> "text"]
StartedLine(b)  == [kind |-> "started", board |-> b]
StoppedLine(b)  == [kind |-> "stopped", board |-> b]
StoppingLine    == [kind |-> "stopping"]

\* A line BAD_STOP matches: a traceback, "failed to stop", "failed to close".
BadLine         == [kind |-> "bad"]

\* "Shutdown result: {...}".  Only the emptiness of the error list matters.
ReceiptLine(pid, began, stopped, errors) ==
    [kind |-> "receipt", pid |-> pid, began |-> began,
     stopped |-> stopped, errors |-> errors]

Line(Pids) ==
    {Text, StoppingLine, BadLine}
    \cup {StartedLine(b) : b \in Boards}
    \cup {StoppedLine(b) : b \in Boards}
    \cup [kind : {"receipt"}, pid : Pids, began : SUBSET Boards,
          stopped : SUBSET Boards, errors : BOOLEAN]

-----------------------------------------------------------------------------
\* The positions, after offset, of the lines of one kind.
At(log, offset, kind) ==
    {i \in DOMAIN log : i > offset /\ log[i].kind = kind}

StartedIn(log, offset) == {log[i].board : i \in At(log, offset, "started")}
StoppedIn(log, offset) == {log[i].board : i \in At(log, offset, "stopped")}
BadIn(log, offset)     == At(log, offset, "bad") # {}

\* shutdown_receipts raises unless at most one receipt is present and no
\* board is reported as started after it.
Unambiguous(log, offset) ==
    /\ \A i, j \in At(log, offset, "receipt") : i = j
    /\ \A i \in At(log, offset, "receipt") :
          \A j \in At(log, offset, "started") : j < i

\* verify_shutdown's test of one receipt.
Complete(receipt, pid, started) ==
    /\ receipt.pid = pid
    /\ started \subseteq receipt.began
    /\ receipt.began = receipt.stopped
    /\ ~receipt.errors

\* Mutant of Verified: a legacy stop that misses boards is accepted.
VerifiedPartly(log, offset, pid, allowLegacy) ==
    LET started  == StartedIn(log, 0)
        receipts == At(log, offset, "receipt")
    IN  /\ Unambiguous(log, offset)
        /\ ~BadIn(log, offset)
        /\ \/ \E i \in receipts : Complete(log[i], pid, started)
           \/ /\ receipts = {}
              /\ allowLegacy
              /\ started # {}
              /\ StoppedIn(log, offset) \subseteq started

\* verify_shutdown on the part of the log after offset.  The reports of boards
\* started are read from the whole log.
Verified(log, offset, pid, allowLegacy) ==
    LET started  == StartedIn(log, 0)
        receipts == At(log, offset, "receipt")
    IN  /\ Unambiguous(log, offset)
        /\ ~BadIn(log, offset)
        /\ \/ \E i \in receipts : Complete(log[i], pid, started)
           \/ /\ receipts = {}
              /\ allowLegacy
              /\ started # {}
              /\ StoppedIn(log, offset) = started
=============================================================================
