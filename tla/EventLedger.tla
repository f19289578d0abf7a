----------------------------- MODULE EventLedger -----------------------------
(***************************************************************************)
(* What recorded-data mode promises of the scheduled windows, without      *)
(* clock snapshots, locks, cache and chats: each event of each cycle is    *)
(* taken when its time has come, the earliest first, by one page at a      *)
(* time; it is given back, wasted, or ends in a verdict; and none is taken *)
(* again unless it was given back.  ReplayMonitor implements it.           *)
(***************************************************************************)
EXTENDS Integers

CONSTANTS
    Polls,       \* who takes events
    EventCount,
    None

VARIABLES
    cycle, position,  \* the time: so many events of the cycle have begun
    hand,             \* the event of a cycle that each holds, or None
    verdicts,         \* those that ended in a verdict
    spent             \* those wasted that are not forgotten

ledgerVars == <<cycle, position, hand, verdicts, spent>>

Reached(k) == k[1] < cycle \/ (k[1] = cycle /\ k[2] <= position)

\* Of this cycle or the last.
Recent(k) == k[1] + 1 >= cycle

Free(k) ==
    /\ k \notin verdicts
    /\ k \notin spent
    /\ \A p \in Polls : hand[p] # k

LedgerInit ==
    /\ cycle = 0 /\ position = 0
    /\ hand = [p \in Polls |-> None]
    /\ verdicts = {}
    /\ spent = {}

Pass ==
    /\ \/ position' = position + 1 /\ UNCHANGED cycle
       \/ cycle' = cycle + 1 /\ position' = 0
    /\ UNCHANGED <<hand, verdicts, spent>>

\* What was wasted may be forgotten when it cannot be taken any more.
Forget ==
    /\ spent' \subseteq spent
    /\ \A k \in spent : Recent(k) => k \in spent'

ForgetOnly ==
    /\ Forget
    /\ UNCHANGED <<cycle, position, hand, verdicts>>

Take(p, k) ==
    /\ hand[p] = None
    /\ Recent(k) /\ Reached(k) /\ Free(k)
    /\ \A e \in 1..(k[2] - 1) : ~Free(<<k[1], e>>)
    /\ hand' = [hand EXCEPT ![p] = k]
    /\ Forget
    /\ UNCHANGED <<cycle, position, verdicts>>

Drop(p) ==
    /\ hand[p] # None
    /\ hand' = [hand EXCEPT ![p] = None]
    /\ UNCHANGED <<cycle, position>>

GiveBack(p) == Drop(p) /\ UNCHANGED <<verdicts, spent>>
Waste(p)    == Drop(p) /\ spent' = spent \cup {hand[p]} /\ UNCHANGED verdicts
Conclude(p) == Drop(p) /\ verdicts' = verdicts \cup {hand[p]} /\ UNCHANGED spent

LedgerNext ==
    \/ Pass
    \/ ForgetOnly
    \/ \E p \in Polls :
          \/ \E k \in (0..cycle) \X (1..EventCount) : Take(p, k)
          \/ GiveBack(p) \/ Waste(p) \/ Conclude(p)

LedgerSpec == LedgerInit /\ [][LedgerNext]_ledgerVars

\* What is held is held once, and is neither spent nor concluded.
HeldOnce ==
    \A p \in Polls :
        hand[p] # None => /\ hand[p] \notin verdicts \cup spent
                          /\ \A q \in Polls \ {p} : hand[q] # hand[p]
=============================================================================
