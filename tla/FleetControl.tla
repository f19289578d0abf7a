---------------------------- MODULE FleetControl ----------------------------
(***************************************************************************)
(* What the lifecycle of one checkout promises, without launcher, log,     *)
(* files and signals: loggers come one after another and own the boards    *)
(* they start; a stop that is requested stays pending until the boards of  *)
(* the logger it names are idle; and a helper that calls a logger stopped  *)
(* is right, from then on.  SafeStop implements it.                        *)
(***************************************************************************)
EXTENDS Integers

CONSTANTS
    Boards,
    Helpers,      \* processes that give verdicts
    AllowLegacy   \* whether a stop may be settled on a legacy report

VARIABLES
    run,      \* the latest logger, 0 before the first
    alive,    \* whether it lives
    owner,    \* the logger for which each board streams, or 0
    pending,  \* the logger whose stop was requested and not settled, or 0
    verdict   \* the logger each helper calls stopped, or 0

fleetVars == <<run, alive, owner, pending, verdict>>

\* Logger r has gone and left no board streaming.
Stopped(r) == ~(run = r /\ alive) /\ \A b \in Boards : owner[b] # r

FleetInit ==
    /\ run = 0
    /\ alive = FALSE
    /\ owner = [b \in Boards |-> 0]
    /\ pending = 0
    /\ verdict = [h \in Helpers |-> 0]

StartLogger ==
    /\ ~alive
    /\ alive' = TRUE
    /\ run' = run + 1
    /\ UNCHANGED <<owner, pending, verdict>>

\* However it ends; boards may be left streaming.
EndLogger ==
    /\ alive
    /\ alive' = FALSE
    /\ UNCHANGED <<run, owner, pending, verdict>>

StartBoard(b) ==
    /\ alive
    /\ owner' = [owner EXCEPT ![b] = run]
    /\ UNCHANGED <<run, alive, pending, verdict>>

StopBoard(b) ==
    /\ alive
    /\ owner' = [owner EXCEPT ![b] = 0]
    /\ UNCHANGED <<run, alive, pending, verdict>>

RequestStop(r) ==
    /\ pending = 0
    /\ pending' = r
    /\ UNCHANGED <<run, alive, owner, verdict>>

Settle ==
    /\ Stopped(pending) \/ AllowLegacy
    /\ pending' = 0
    /\ UNCHANGED <<run, alive, owner, verdict>>

CallStopped(h, r) ==
    /\ Stopped(r)
    /\ verdict' = [verdict EXCEPT ![h] = r]
    /\ UNCHANGED <<run, alive, owner, pending>>

Retract(h) ==
    /\ verdict' = [verdict EXCEPT ![h] = 0]
    /\ UNCHANGED <<run, alive, owner, pending>>

FleetNext ==
    \/ StartLogger \/ EndLogger \/ Settle
    \/ \E b \in Boards : StartBoard(b) \/ StopBoard(b)
    \/ \E r \in 1..run : RequestStop(r)
    \/ \E h \in Helpers : Retract(h) \/ \E r \in 1..run : CallStopped(h, r)

FleetSpec == FleetInit /\ [][FleetNext]_fleetVars

\* A verdict was true when it was given and stays true while it stands.
VerdictsHold == \A h \in Helpers : verdict[h] # 0 => Stopped(verdict[h])
=============================================================================
