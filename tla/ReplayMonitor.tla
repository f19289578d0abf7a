---------------------------- MODULE ReplayMonitor ----------------------------
(***************************************************************************)
(* Recorded-data mode: the virtual clock and the claims of                 *)
(* offline_replay.py, the agent monitor that open pages poll, and the      *)
(* chats it yields the NPU to (webchat_server.py).  Every poll and every   *)
(* chat is a request thread of its own.                                    *)
(*                                                                         *)
(* A scheduled window is one of the events 1..EventCount in the order of   *)
(* their start times; a claim is a pair <<cycle, event>>.  The position of *)
(* the clock is the number of events whose start it has reached.           *)
(***************************************************************************)
EXTENDS Naturals

CONSTANTS
    Polls,         \* the pages; each has at most one monitor request
    CachedPolls,   \* those that do not pass skip_cache
    Chats,         \* the chat clients
    EventCount,
    Loop,          \* VIBRO_REPLAY_LOOP
    MaxCycle,      \* bound: the last cycle of a behaviour
    MaxFailures,   \* bound: failed acquisitions and decisions
    MaxChats,      \* bound: chats
    Exceptions,    \* whether the decision may raise
    None

Events == 1..EventCount
Claims == (0..MaxCycle) \X Events

ASSUME CachedAssumption     == CachedPolls \subseteq Polls
ASSUME EventCountAssumption == EventCount \in Nat
ASSUME LoopAssumption       == Loop \in BOOLEAN
ASSUME BoundsAssumption     == MaxCycle \in Nat /\ MaxFailures \in Nat /\ MaxChats \in Nat
ASSUME ExceptionsAssumption == Exceptions \in BOOLEAN
ASSUME NoClaimAssumption    == None \notin Claims /\ None \notin Chats

VARIABLES
    cycle,      \* the clock's cycle
    position,   \* how many events of the cycle have begun
    claimed,    \* the controller's _claimed
    cached,     \* events with an answer in the cache that has not expired
    chat,       \* the chat in flight, or None
    monitor,    \* the poll that holds _AGENT_MONITOR_LOCK, or None
    pc,         \* where each poll is
    seen,       \* the <<cycle, position>> its claim goes by, until it has one
    claim,      \* the claim it holds, or None
    failures,   \* failed acquisitions and decisions so far
    chats,      \* chats so far
    analysed    \* ground truth: claims whose verdict has been recorded

clockVars == <<cycle, position>>
boundVars == <<failures, chats>>
vars == <<clockVars, claimed, cached, chat, monitor, pc, seen, claim,
          boundVars, analysed>>

Holding == {"cache", "yield", "acquire", "lock", "queue", "decide", "record"}
Locked  == {"decide", "record"}

TypeOK ==
    /\ cycle \in 0..MaxCycle
    /\ position \in 0..EventCount
    /\ claimed \in SUBSET Claims
    /\ cached \in SUBSET Events
    /\ chat \in Chats \cup {None}
    /\ monitor \in Polls \cup {None}
    /\ pc \in [Polls -> {"idle", "guard", "look", "claim"} \cup Holding]
    /\ seen \in [Polls -> (0..MaxCycle) \X (0..EventCount)]
    /\ claim \in [Polls -> Claims \cup {None}]
    /\ \A p \in Polls : claim[p] # None <=> pc[p] \in Holding
    /\ failures \in 0..MaxFailures
    /\ chats \in 0..MaxChats
    /\ analysed \in SUBSET Claims

Init ==
    /\ cycle = 0
    /\ position = 0
    /\ claimed = {}
    /\ cached = {}
    /\ chat = None
    /\ monitor = None
    /\ pc = [p \in Polls |-> "idle"]
    /\ seen = [p \in Polls |-> <<0, 0>>]
    /\ claim = [p \in Polls |-> None]
    /\ failures = 0
    /\ chats = 0
    /\ analysed = {}

-----------------------------------------------------------------------------
(***************************************************************************)
(* The clock.                                                              *)
(***************************************************************************)
Advance ==
    /\ position < EventCount
    /\ position' = position + 1
    /\ UNCHANGED cycle

\* A poll computes its position and takes the controller's lock within one
\* cycle: the clock is not back at the same place before it has.
Wrap ==
    /\ Loop
    /\ position = EventCount
    /\ cycle < MaxCycle
    /\ \A p \in Polls : pc[p] = "claim" => seen[p][1] = cycle
    /\ cycle' = cycle + 1
    /\ position' = 0

\* An answer in the cache is 90 s old.
Expire ==
    /\ \E e \in cached : cached' = cached \ {e}
    /\ UNCHANGED <<clockVars, claimed, chat, monitor, pc, seen, claim, boundVars, analysed>>

Clock ==
    /\ Advance \/ Wrap
    /\ UNCHANGED <<claimed, cached, chat, monitor, pc, seen, claim, boundVars, analysed>>

-----------------------------------------------------------------------------
(***************************************************************************)
(* Chats: one at a time, the others are answered "busy" and change nothing.*)
(***************************************************************************)
BeginChat(c) ==
    /\ chat = None
    /\ chats < MaxChats
    /\ chat' = c
    /\ chats' = chats + 1
    /\ UNCHANGED <<clockVars, claimed, cached, monitor, pc, seen, claim, failures, analysed>>

EndChat ==
    /\ chat # None
    /\ chat' = None
    /\ UNCHANGED <<clockVars, claimed, cached, monitor, pc, seen, claim, boundVars, analysed>>

-----------------------------------------------------------------------------
(***************************************************************************)
(* _agent_monitor_payload.                                                 *)
(***************************************************************************)
Goto(p, place) == pc' = [pc EXCEPT ![p] = place]

\* Mutant of Answer: the poll still holds its claim.
AnswerHolding(p) ==
    /\ Goto(p, "idle")
    /\ UNCHANGED claim

\* The answer is sent; the claim, if any, stays with the controller.
Answer(p) ==
    /\ Goto(p, "idle")
    /\ claim' = [claim EXCEPT ![p] = None]

\* The claim is given back before the answer is sent.
Release(p) ==
    /\ claimed' = claimed \ {claim[p]}
    /\ Answer(p)

\* A cached answer serves this poll.
Served(p) == p \in CachedPolls /\ claim[p][2] \in cached

Request(p) ==
    /\ pc[p] = "idle"
    /\ Goto(p, "guard")
    /\ UNCHANGED <<clockVars, claimed, cached, chat, monitor, seen, claim, boundVars, analysed>>

\* Mutant of Kept: those of the cycle before are forgotten.
KeptOfCycle(c) == {k \in claimed : k[1] >= c}

\* The claims that are not forgotten by a claim in cycle c.
Kept(c) == {k \in claimed : k[1] + 1 >= c}

\* The earliest event of cycle c, up to position n, that is not in taken.
Due(c, n, taken) ==
    {e \in 1..n : <<c, e>> \notin taken /\ \A d \in 1..(e - 1) : <<c, d>> \in taken}

\* Before anything is claimed a chat in flight pauses the poll.
Guard(p) ==
    /\ pc[p] = "guard"
    /\ \/ /\ chat # None
          /\ Answer(p)
       \/ /\ chat = None
          /\ Goto(p, "look")
          /\ UNCHANGED claim
    /\ UNCHANGED <<clockVars, claimed, cached, chat, monitor, seen, boundVars, analysed>>

\* claim_due_inference takes its snapshot before the lock.
Look(p) ==
    /\ pc[p] = "look"
    /\ seen' = [seen EXCEPT ![p] = <<cycle, position>>]
    /\ Goto(p, "claim")
    /\ UNCHANGED <<clockVars, claimed, cached, chat, monitor, claim, boundVars, analysed>>

\* Mutant of Claim: the cycle is read again under the lock.
ClaimAnew(p) ==
    LET kept == Kept(cycle)
        due  == Due(cycle, seen[p][2], kept)
    IN  /\ pc[p] = "claim"
        /\ \/ \E e \in due :
                 /\ claim' = [claim EXCEPT ![p] = <<cycle, e>>]
                 /\ claimed' = kept \cup {<<cycle, e>>}
                 /\ Goto(p, "cache")
           \/ /\ due = {}
              /\ claimed' = kept
              /\ Answer(p)
        /\ seen' = [seen EXCEPT ![p] = <<0, 0>>]
        /\ UNCHANGED <<clockVars, cached, chat, monitor, boundVars, analysed>>

Claim(p) ==
    LET c    == seen[p][1]
        kept == Kept(c)
        due  == Due(c, seen[p][2], kept)
    IN  /\ pc[p] = "claim"
        /\ \/ \E e \in due :
                 /\ claim' = [claim EXCEPT ![p] = <<c, e>>]
                 /\ claimed' = kept \cup {<<c, e>>}
                 /\ Goto(p, "cache")
           \/ /\ due = {}
              /\ claimed' = kept
              /\ Answer(p)
        /\ seen' = [seen EXCEPT ![p] = <<0, 0>>]
        /\ UNCHANGED <<clockVars, cached, chat, monitor, boundVars, analysed>>

LookInCache(p) ==
    /\ pc[p] = "cache"
    /\ \/ Served(p) /\ Answer(p)
       \/ ~Served(p) /\ Goto(p, "yield") /\ UNCHANGED claim
    /\ UNCHANGED <<clockVars, claimed, cached, chat, monitor, seen, boundVars, analysed>>

\* Mutant of YieldToChat: the claim is not given back.
YieldToChatClaiming(p) ==
    /\ pc[p] = "yield"
    /\ \/ /\ chat # None
          /\ Answer(p)
       \/ /\ chat = None
          /\ Goto(p, "acquire")
          /\ UNCHANGED claim
    /\ UNCHANGED <<clockVars, claimed, cached, chat, monitor, seen, boundVars, analysed>>

\* A chat that began since pauses the poll, unless the cache can serve it: the
\* cache is asked here for every poll, whether it skips the cache or not.
YieldToChat(p) ==
    /\ pc[p] = "yield"
    /\ \/ /\ chat # None
          /\ claim[p][2] \in cached
          /\ Answer(p)
          /\ UNCHANGED claimed
       \/ /\ chat # None
          /\ claim[p][2] \notin cached
          /\ Release(p)
       \/ /\ chat = None
          /\ Goto(p, "acquire")
          /\ UNCHANGED <<claimed, claim>>
    /\ UNCHANGED <<clockVars, cached, chat, monitor, seen, boundVars, analysed>>

\* The windows are read and measured: the pipeline service and the scores.
Acquire(p) ==
    /\ pc[p] = "acquire"
    /\ \/ /\ failures < MaxFailures
          /\ failures' = failures + 1
          /\ Release(p)
       \/ /\ Goto(p, "lock")
          /\ UNCHANGED <<claimed, claim, failures>>
    /\ UNCHANGED <<clockVars, cached, chat, monitor, seen, chats, analysed>>

\* The monitor lock, first without waiting; then the cache, and then waiting.
TryLock(p) ==
    /\ pc[p] = "lock"
    /\ \/ monitor = None /\ monitor' = p /\ Goto(p, "decide") /\ UNCHANGED claim
       \/ monitor # None /\ Served(p) /\ Answer(p) /\ UNCHANGED monitor
       \/ monitor # None /\ ~Served(p) /\ Goto(p, "queue") /\ UNCHANGED <<claim, monitor>>
    /\ UNCHANGED <<clockVars, claimed, cached, chat, seen, boundVars, analysed>>

\* With the lock at last, the cache is asked once more.
Dequeue(p) ==
    /\ pc[p] = "queue"
    /\ monitor = None
    /\ \/ Served(p) /\ Answer(p) /\ UNCHANGED monitor
       \/ ~Served(p) /\ monitor' = p /\ Goto(p, "decide") /\ UNCHANGED claim
    /\ UNCHANGED <<clockVars, claimed, cached, chat, seen, boundVars, analysed>>

\* Mutant of DecisionFails: the claim is not given back.
DecisionFailsClaiming(p) ==
    /\ pc[p] = "decide"
    /\ failures < MaxFailures
    /\ failures' = failures + 1
    /\ Answer(p)
    /\ monitor' = None
    /\ UNCHANGED <<clockVars, claimed, cached, chat, seen, chats, analysed>>

\* Codec worker or model fail: required, so the claim is given back.
DecisionFails(p) ==
    /\ pc[p] = "decide"
    /\ failures < MaxFailures
    /\ failures' = failures + 1
    /\ Release(p)
    /\ monitor' = None
    /\ UNCHANGED <<clockVars, cached, chat, seen, chats, analysed>>

\* An exception leaves the handler: the monitor lock is released, and no more.
DecisionRaises(p) ==
    /\ Exceptions
    /\ pc[p] = "decide"
    /\ failures < MaxFailures
    /\ failures' = failures + 1
    /\ Answer(p)
    /\ monitor' = None
    /\ UNCHANGED <<clockVars, claimed, cached, chat, seen, chats, analysed>>

Decide(p) ==
    /\ pc[p] = "decide"
    /\ Goto(p, "record")
    /\ UNCHANGED <<clockVars, claimed, cached, chat, monitor, seen, claim, boundVars, analysed>>

\* History, anomaly registry and cache; the lock is released last.
Record(p) ==
    /\ pc[p] = "record"
    /\ analysed' = analysed \cup {claim[p]}
    /\ cached' = IF p \in CachedPolls THEN cached \cup {claim[p][2]} ELSE cached
    /\ monitor' = None
    /\ Answer(p)
    /\ UNCHANGED <<clockVars, claimed, chat, seen, boundVars>>

PollStep(p) ==
    \/ Guard(p)
    \/ Look(p)
    \/ Claim(p)
    \/ LookInCache(p)
    \/ YieldToChat(p)
    \/ Acquire(p)
    \/ TryLock(p)
    \/ Dequeue(p)
    \/ DecisionFails(p)
    \/ DecisionRaises(p)
    \/ Decide(p)
    \/ Record(p)

Next ==
    \/ Clock
    \/ Expire
    \/ \E c \in Chats : BeginChat(c)
    \/ EndChat
    \/ \E p \in Polls : Request(p)
    \/ \E p \in Polls : PollStep(p)

Spec == Init /\ [][Next]_vars

\* The clock runs, pages go on polling on their timers, and request threads and
\* chats, which wait for nothing without a time-out but the monitor lock, end.
FairSpec ==
    /\ Spec
    /\ WF_vars(Clock)
    /\ WF_vars(EndChat)
    /\ \A p \in Polls : WF_vars(Request(p)) /\ WF_vars(PollStep(p))

-----------------------------------------------------------------------------
(***************************************************************************)
(* Properties.                                                             *)
(***************************************************************************)
\* An event of a cycle is in the hands of one poll at a time and never again
\* once its verdict is recorded, although snapshots are taken outside the lock
\* and old claims are forgotten (claim_due_inference).
ClaimsExclusive ==
    \A p \in Polls :
        claim[p] # None => /\ claim[p] \notin analysed
                           /\ \A q \in Polls \ {p} : claim[q] # claim[p]

\* "If acquisition, codec, or model inference fails, the event claim is
\* released": a claim the controller remembers is one that a poll is working
\* on or one that ended in a verdict.
ClaimsAccounted ==
    \A k \in claimed : k \in analysed \/ \E p \in Polls : claim[p] = k

\* What the controller remembers although nobody works on it and it ended in no
\* verdict.
Wasted == {k \in claimed \ analysed : \A p \in Polls : claim[p] # k}

Ledger == INSTANCE EventLedger WITH hand <- claim, verdicts <- analysed, spent <- Wasted

\* Every step of clock, pages and chats is a step of the ledger or none of its
\* business: events are taken when reached, the earliest first, and never again
\* unless they were given back (claim_due_inference, release_claim and
\* _agent_monitor_payload together).
ImplementsLedger == Ledger!LedgerSpec

\* In a replay that does not loop every scheduled event is analysed, over any
\* finite number of failures and chats.
EveryEventAnalysed == \A e \in Events : <>(<<0, e>> \in analysed)
=============================================================================
