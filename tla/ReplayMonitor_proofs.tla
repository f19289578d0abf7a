------------------------- MODULE ReplayMonitor_proofs -------------------------
(***************************************************************************)
(* Proofs about ReplayMonitor, for any number of pages, chats, events,     *)
(* cycles and failures.                                                    *)
(*                                                                         *)
(* That claims are exclusive rests on what the controller remembers: every *)
(* claim of the current cycle and of the one before that is held by a poll *)
(* or has been analysed (Remembered), and no poll claims by an older       *)
(* snapshot than that (SeenRecently).                                      *)
(***************************************************************************)
EXTENDS ReplayMonitor, TLAPS

ConstantsOK ==
    /\ CachedPolls \subseteq Polls
    /\ EventCount \in Nat
    /\ MaxCycle \in Nat
    /\ MaxFailures \in Nat
    /\ MaxChats \in Nat
    /\ None \notin Claims
    /\ None \notin Chats

\* The claims that the controller may not forget.
Owned(k) == k \in analysed \/ \E p \in Polls : claim[p] = k

Remembered == \A k \in Claims : (Owned(k) /\ k[1] + 1 >= cycle) => k \in claimed

SeenRecently ==
    \A p \in Polls :
        pc[p] = "claim" => \/ seen[p][1] = cycle /\ seen[p][2] <= position
                           \/ seen[p][1] + 1 = cycle

\* A window is claimed only after the replay has reached it, whatever happened
\* to the clock between the snapshot and the claim.
NotBeforeDue ==
    \A p \in Polls :
        claim[p] # None => \/ claim[p][1] < cycle
                           \/ claim[p][1] = cycle /\ claim[p][2] <= position

IInv ==
    /\ TypeOK
    /\ Remembered
    /\ SeenRecently
    /\ ClaimsExclusive
    /\ NotBeforeDue

\* What the modules assume of their constants, in one fact.
LEMMA Constants == ConstantsOK
  BY CachedAssumption, EventCountAssumption, BoundsAssumption, NoClaimAssumption
     DEF ConstantsOK

-----------------------------------------------------------------------------
\* The due event is one of the cycle that the snapshot has reached.
LEMMA DueIsReached ==
    ASSUME NEW c, NEW n \in 0..EventCount, NEW taken, NEW e \in Due(c, n, taken)
    PROVE  e \in Events /\ e <= n /\ <<c, e>> \notin taken
  BY Constants DEF ConstantsOK, Due, Events

\* A poll's claim is a claim or None, and its step keeps everything typed.
LEMMA PollKeepsTypes ==
    ASSUME TypeOK, NEW p \in Polls, PollStep(p)
    PROVE  TypeOK'
<1> USE Constants DEF ConstantsOK
<1>1. CASE Guard(p)
  <2>1. \A k \in {<<cycle, e>> : e \in Due(cycle, position, claimed)} : k \in Claims
    BY DueIsReached DEF TypeOK, Claims
  <2> QED BY <1>1, <2>1 DEF Guard, Answer, Goto, TypeOK, Holding,
                            clockVars, boundVars
<1>2. CASE Look(p)
  BY <1>2 DEF Look, Goto, TypeOK, Holding, clockVars, boundVars
<1>3. CASE Claim(p)
  <2>1. seen[p][1] \in 0..MaxCycle /\ seen[p][2] \in 0..EventCount
    BY DEF TypeOK
  <2>2. \A e \in Due(seen[p][1], seen[p][2], Kept(seen[p][1])) : <<seen[p][1], e>> \in Claims
    BY <2>1, DueIsReached DEF Claims
  <2>3. Kept(seen[p][1]) \in SUBSET Claims
    BY DEF Kept, TypeOK
  <2>4. /\ <<0, 0>> \in (0..MaxCycle) \X (0..EventCount)
        /\ None \notin Claims
    OBVIOUS
  <2>5. claimed' \in SUBSET Claims
    BY <1>3, <2>2, <2>3 DEF Claim
  <2>6. /\ claim' \in [Polls -> Claims \cup {None}]
        /\ pc' \in [Polls -> {"idle", "guard", "look", "claim"} \cup Holding]
        /\ \A q \in Polls : claim'[q] # None <=> pc'[q] \in Holding
    <3>1. CASE \E e \in Due(seen[p][1], seen[p][2], Kept(seen[p][1])) :
                   /\ claim' = [claim EXCEPT ![p] = <<seen[p][1], e>>]
                   /\ pc' = [pc EXCEPT ![p] = "cache"]
      BY <2>2, <2>4, <3>1 DEF TypeOK, Holding
    <3>2. CASE /\ claim' = [claim EXCEPT ![p] = None]
               /\ pc' = [pc EXCEPT ![p] = "idle"]
      BY <3>2 DEF TypeOK, Holding
    <3> QED
      BY <1>3, <3>1, <3>2 DEF Claim, Answer, Goto
  <2>7. seen' \in [Polls -> (0..MaxCycle) \X (0..EventCount)]
    BY <1>3, <2>4 DEF Claim, TypeOK
  <2> QED BY <1>3, <2>5, <2>6, <2>7 DEF Claim, TypeOK, clockVars, boundVars
<1>4. CASE LookInCache(p)
  BY <1>4 DEF LookInCache, Answer, Goto, TypeOK, Holding, clockVars, boundVars
<1>5. CASE YieldToChat(p)
  <2>1. pc[p] = "yield" => claim[p] \in Claims
    BY DEF TypeOK, Holding
  <2> QED BY <1>5, <2>1 DEF YieldToChat, Release, Answer, Goto, TypeOK, Holding,
                            clockVars, boundVars
<1>6. CASE Acquire(p)
  BY <1>6 DEF Acquire, Release, Answer, Goto, TypeOK, Holding, clockVars
<1>7. CASE TryLock(p)
  BY <1>7 DEF TryLock, Answer, Goto, TypeOK, Holding, clockVars, boundVars
<1>8. CASE Dequeue(p)
  BY <1>8 DEF Dequeue, Answer, Goto, TypeOK, Holding, clockVars, boundVars
<1>9. CASE DecisionFails(p)
  BY <1>9 DEF DecisionFails, Release, Answer, Goto, TypeOK, Holding, clockVars
<1>10. CASE DecisionRaises(p)
  BY <1>10 DEF DecisionRaises, Answer, Goto, TypeOK, Holding, clockVars
<1>11. CASE Decide(p)
  BY <1>11 DEF Decide, Goto, TypeOK, Holding, clockVars, boundVars
<1>12. CASE Record(p)
  <2>1. pc[p] = "record" => claim[p] \in Claims /\ claim[p][2] \in Events
    BY DEF TypeOK, Holding, Claims
  <2> QED BY <1>12, <2>1 DEF Record, Answer, Goto, TypeOK, Holding, clockVars, boundVars
<1> QED BY <1>1, <1>2, <1>3, <1>4, <1>5, <1>6, <1>7, <1>8, <1>9, <1>10, <1>11, <1>12
        DEF PollStep

\* Every step keeps everything typed.
LEMMA StepKeepsTypes == TypeOK /\ [Next]_vars => TypeOK'
<1> SUFFICES ASSUME TypeOK, [Next]_vars PROVE TypeOK'
  OBVIOUS
<1> USE Constants DEF ConstantsOK
<1>1. CASE Clock
  BY <1>1 DEF Clock, Advance, Wrap, TypeOK, boundVars
<1>2. CASE Expire
  BY <1>2 DEF Expire, TypeOK, clockVars, boundVars
<1>3. ASSUME NEW c \in Chats, BeginChat(c) PROVE TypeOK'
  BY <1>3 DEF BeginChat, TypeOK, clockVars
<1>4. CASE EndChat
  BY <1>4 DEF EndChat, TypeOK, clockVars, boundVars
<1>5. ASSUME NEW p \in Polls, Request(p) PROVE TypeOK'
  BY <1>5 DEF Request, Goto, TypeOK, Holding, clockVars, boundVars
<1>6. ASSUME NEW p \in Polls, PollStep(p) PROVE TypeOK'
  BY <1>6, PollKeepsTypes
<1>7. CASE UNCHANGED vars
  BY <1>7 DEF vars, TypeOK, clockVars, boundVars
<1> QED BY <1>1, <1>2, <1>3, <1>4, <1>5, <1>6, <1>7 DEF Next

\* Every variable of the recorded-data monitor keeps its type, and a poll holds
\* a claim exactly in the places of its handler that lie behind one.
THEOREM TypeCorrect == Spec => []TypeOK
<1>1. Init => TypeOK
  BY Constants DEF ConstantsOK, Init, TypeOK, Holding
<1> QED BY <1>1, StepKeepsTypes, PTL DEF Spec

-----------------------------------------------------------------------------
(***************************************************************************)
(* What a poll's step does to the claims: it makes one, gives one back,    *)
(* ends one, or leaves them alone.                                         *)
(***************************************************************************)
\* Nothing but the claim of a poll is new to the controller, and it takes an
\* event that no poll holds and no verdict was recorded for.
LEMMA NewClaimIsFree ==
    ASSUME IInv, NEW p \in Polls, Claim(p)
    PROVE  /\ claimed' \subseteq Claims
           /\ \A k \in Claims : (k \in claimed /\ k[1] + 1 >= cycle) => k \in claimed'
           /\ \A q \in Polls \ {p} : claim'[q] = claim[q]
           /\ claim'[p] # None => /\ claim'[p] \in Claims
                                  /\ claim'[p] \in claimed'
                                  /\ ~Owned(claim'[p])
                                  /\ \/ claim'[p][1] < cycle
                                     \/ claim'[p][1] = cycle /\ claim'[p][2] <= position
<1> USE Constants DEF ConstantsOK
<1> DEFINE c    == seen[p][1]
           n    == seen[p][2]
           kept == Kept(c)
<1>1. /\ c \in 0..MaxCycle /\ n \in 0..EventCount
      /\ cycle \in 0..MaxCycle /\ position \in 0..EventCount
      /\ claimed \subseteq Claims
      /\ (c = cycle /\ n <= position) \/ c + 1 = cycle
  BY DEF IInv, TypeOK, SeenRecently, Claim
<1>2. /\ kept \subseteq claimed
      /\ \A k \in claimed : k[1] + 1 >= c => k \in kept
  BY DEF Kept
<1>3. \A k \in Claims : k[1] \in Nat /\ k[2] \in Nat
  BY DEF Claims, Events
<1>4. \A k \in Claims : (k \in claimed /\ k[1] + 1 >= cycle) => k \in kept
  BY <1>1, <1>2, <1>3
<1>5. \A e \in Due(c, n, kept) :
         /\ <<c, e>> \in Claims
         /\ ~Owned(<<c, e>>)
         /\ c < cycle \/ (c = cycle /\ e <= position)
  <2> SUFFICES ASSUME NEW e \in Due(c, n, kept)
               PROVE  /\ <<c, e>> \in Claims
                      /\ ~Owned(<<c, e>>)
                      /\ c < cycle \/ (c = cycle /\ e <= position)
    OBVIOUS
  <2>1. e \in Events /\ e <= n /\ <<c, e>> \notin kept
    BY <1>1, DueIsReached
  <2>2. <<c, e>> \in Claims
    BY <1>1, <2>1 DEF Claims
  <2>3. <<c, e>> \notin claimed
    BY <1>1, <1>2, <2>1
  <2>4. ~Owned(<<c, e>>)
    BY <1>1, <2>2, <2>3 DEF IInv, Remembered
  <2> QED BY <1>1, <2>1, <2>2, <2>4 DEF Events
<1>6. CASE \E e \in Due(c, n, kept) : /\ claim' = [claim EXCEPT ![p] = <<c, e>>]
                                      /\ claimed' = kept \cup {<<c, e>>}
  BY <1>1, <1>2, <1>4, <1>5, <1>6 DEF IInv, TypeOK
<1>7. CASE claimed' = kept /\ claim' = [claim EXCEPT ![p] = None]
  BY <1>1, <1>2, <1>4, <1>7 DEF IInv, TypeOK
<1> QED BY <1>6, <1>7 DEF Claim, Answer

\* A new claim keeps the invariant.
LEMMA ClaimKeepsInv ==
    ASSUME IInv, NEW p \in Polls, Claim(p)
    PROVE  IInv'
<1> USE Constants DEF ConstantsOK
<1>1. TypeOK'
  BY PollKeepsTypes DEF IInv, PollStep
<1>2. UNCHANGED <<cycle, position, analysed>>
  BY DEF Claim, clockVars
<1>3. Remembered'
  BY <1>2, NewClaimIsFree DEF IInv, Remembered, Owned
<1>4. SeenRecently'
  BY <1>2 DEF Claim, Answer, Goto, IInv, SeenRecently, TypeOK
<1>5. ClaimsExclusive'
  BY <1>2, NewClaimIsFree DEF IInv, ClaimsExclusive, Owned
<1>6. NotBeforeDue'
  BY <1>2, NewClaimIsFree DEF IInv, NotBeforeDue
<1> QED BY <1>1, <1>3, <1>4, <1>5, <1>6 DEF IInv

\* A poll keeps its claim, answers, or gives it back; nothing else is forgotten,
\* and only its own claim is analysed.
Settles(p) ==
    /\ UNCHANGED clockVars
    /\ claim' = claim \/ claim' = [claim EXCEPT ![p] = None]
    /\ \/ claimed' = claimed /\ analysed' = analysed
       \/ /\ claim' = [claim EXCEPT ![p] = None]
          /\ \/ claimed' = claimed \ {claim[p]} /\ analysed' = analysed
             \/ claimed' = claimed /\ analysed' = analysed \cup {claim[p]} /\ claim[p] # None
    /\ \A q \in Polls : pc'[q] = "claim" =>
          \/ pc[q] = "claim" /\ seen'[q] = seen[q]
          \/ seen'[q] = <<cycle, position>>

\* Every step of a poll but its claim is of that kind.
LEMMA StepsSettle ==
    ASSUME TypeOK, NEW p \in Polls, PollStep(p)
    PROVE  Claim(p) \/ Settles(p)
<1> USE DEF Goto, Answer, Release, Settles, TypeOK, clockVars
<1>1. CASE Guard(p)
  BY <1>1 DEF Guard
<1>2. CASE Look(p)
  BY <1>2 DEF Look
<1>3. CASE LookInCache(p)
  BY <1>3 DEF LookInCache
<1>4. CASE YieldToChat(p)
  BY <1>4 DEF YieldToChat
<1>5. CASE Acquire(p)
  BY <1>5 DEF Acquire
<1>6. CASE TryLock(p)
  BY <1>6 DEF TryLock
<1>7. CASE Dequeue(p)
  BY <1>7 DEF Dequeue
<1>8. CASE DecisionFails(p)
  BY <1>8 DEF DecisionFails
<1>9. CASE DecisionRaises(p)
  BY <1>9 DEF DecisionRaises
<1>10. CASE Decide(p)
  BY <1>10 DEF Decide
<1>11. CASE Record(p)
  BY <1>11 DEF Record, Holding
<1> QED BY <1>1, <1>2, <1>3, <1>4, <1>5, <1>6, <1>7, <1>8, <1>9, <1>10, <1>11
        DEF PollStep

\* Such a step keeps the invariant.
LEMMA OtherStepsKeepInv ==
    ASSUME IInv, TypeOK', NEW p \in Polls, Settles(p)
    PROVE  IInv'
<1> USE Constants DEF ConstantsOK, Settles
<1>1. cycle' = cycle /\ position' = position
  BY DEF clockVars
<1>2. \A q \in Polls : claim'[q] # None => q # p \/ claim' = claim
  BY DEF IInv, TypeOK
<1>3. \A q \in Polls : claim'[q] # None => claim'[q] = claim[q]
  BY DEF IInv, TypeOK
<1>4. ClaimsExclusive'
  BY <1>2, <1>3 DEF IInv, ClaimsExclusive, TypeOK
<1>5. Remembered'
  <2> SUFFICES ASSUME NEW k \in Claims, Owned(k)', k[1] + 1 >= cycle
               PROVE  k \in claimed'
    BY <1>1 DEF Remembered
  <2>1. Owned(k)
    BY <1>3 DEF Owned
  <2>2. k \in claimed
    BY <2>1 DEF IInv, Remembered
  <2>3. CASE claimed' = claimed \ {claim[p]} /\ analysed' = analysed
                /\ claim' = [claim EXCEPT ![p] = None]
    BY <1>2, <1>3, <2>2, <2>3 DEF Owned, IInv, ClaimsExclusive, TypeOK
  <2> QED BY <2>2, <2>3
<1>6. SeenRecently'
  BY <1>1 DEF IInv, SeenRecently, TypeOK
<1>7. NotBeforeDue'
  BY <1>1, <1>3 DEF IInv, NotBeforeDue
<1> QED BY <1>4, <1>5, <1>6, <1>7 DEF IInv

\* Every step of a poll keeps the invariant.
LEMMA PollKeepsInv ==
    ASSUME IInv, NEW p \in Polls, PollStep(p)
    PROVE  IInv'
<1>1. TypeOK'
  BY PollKeepsTypes DEF IInv
<1>2. CASE Claim(p)
  BY <1>2, ClaimKeepsInv
<1>3. CASE Settles(p)
  BY <1>1, <1>3, OtherStepsKeepInv
<1> QED BY <1>2, <1>3, StepsSettle DEF IInv

\* The clock keeps the invariant: a snapshot is at most one cycle old.
LEMMA ClockKeepsInv ==
    ASSUME IInv, Clock
    PROVE  IInv'
<1> USE Constants DEF ConstantsOK
<1>1. TypeOK /\ TypeOK'
  BY StepKeepsTypes DEF IInv, Next
<1>2. UNCHANGED <<claimed, pc, seen, claim, analysed>>
  BY DEF Clock
<1>3. \/ cycle' = cycle /\ position' = position + 1
      \/ /\ cycle' = cycle + 1
         /\ \A p \in Polls : pc[p] = "claim" => seen[p][1] = cycle
  BY DEF Clock, Advance, Wrap
<1>4. cycle \in Nat /\ position \in Nat
  BY <1>1 DEF TypeOK
<1>5. /\ \A p \in Polls : seen[p][1] \in Nat /\ seen[p][2] \in Nat
      /\ \A k \in Claims : k[1] \in Nat /\ k[2] \in Nat
  BY <1>1 DEF TypeOK, Claims, Events
<1>6. Remembered'
  BY <1>2, <1>3, <1>4, <1>5 DEF IInv, Remembered, Owned
<1>7. SeenRecently'
  BY <1>2, <1>3, <1>4, <1>5 DEF IInv, SeenRecently
<1>8. ClaimsExclusive'
  BY <1>2 DEF IInv, ClaimsExclusive
<1>9. NotBeforeDue'
  <2>1. \A p \in Polls : claim[p] # None => claim[p] \in Claims
    BY <1>1 DEF TypeOK
  <2> QED BY <1>2, <1>3, <1>4, <1>5, <2>1 DEF IInv, NotBeforeDue
<1> QED BY <1>1, <1>6, <1>7, <1>8, <1>9 DEF IInv

\* Every step keeps the invariant.
LEMMA StepKeepsInv == IInv /\ [Next]_vars => IInv'
<1> SUFFICES ASSUME IInv, [Next]_vars PROVE IInv'
  OBVIOUS
<1>1. TypeOK'
  BY StepKeepsTypes DEF IInv
<1>2. CASE UNCHANGED <<clockVars, claimed, pc, seen, claim, analysed>>
  BY <1>1, <1>2 DEF IInv, Remembered, Owned, SeenRecently, ClaimsExclusive, NotBeforeDue,
                    clockVars
<1>3. ASSUME NEW p \in Polls, Request(p) PROVE IInv'
  BY <1>1, <1>3 DEF Request, Goto, IInv, TypeOK, Remembered, Owned, SeenRecently,
                    ClaimsExclusive, NotBeforeDue, clockVars
<1>4. ASSUME NEW p \in Polls, PollStep(p) PROVE IInv'
  BY <1>4, PollKeepsInv
<1>5. ASSUME NEW c \in Chats, BeginChat(c) PROVE IInv'
  BY <1>2, <1>5 DEF BeginChat
<1>6. CASE Expire \/ EndChat
  BY <1>2, <1>6 DEF Expire, EndChat
<1>7. CASE UNCHANGED vars
  BY <1>2, <1>7 DEF vars
<1> QED BY <1>3, <1>4, <1>5, <1>6, <1>7, ClockKeepsInv DEF Next

\* The inductive invariant: every claim of this cycle and the last that is held
\* or was analysed is remembered, and claims go by snapshots no older than that.
THEOREM ReplayInvariance == Spec => []IInv
<1>1. Init => IInv
  BY Constants DEF ConstantsOK, Init, IInv, TypeOK, Holding, Remembered, Owned, SeenRecently,
                   ClaimsExclusive, NotBeforeDue
<1> QED BY <1>1, StepKeepsInv, PTL DEF Spec

\* For any number of pages and events: an event of a cycle is in the hands of
\* one poll at a time, and of none once its verdict is recorded
\* (claim_due_inference, release_claim).
THEOREM ClaimsAreExclusive == Spec => []ClaimsExclusive
<1>1. IInv => ClaimsExclusive
  BY DEF IInv
<1> QED BY <1>1, ReplayInvariance, PTL

\* No window is claimed before the replay has reached it (claim_due_inference).
THEOREM ClaimsAreDue == Spec => []NotBeforeDue
<1>1. IInv => NotBeforeDue
  BY DEF IInv
<1> QED BY <1>1, ReplayInvariance, PTL
-----------------------------------------------------------------------------
(***************************************************************************)
(* Where the decision cannot raise, and no answer in the cache is of an    *)
(* earlier cycle, no claim is lost.                                        *)
(***************************************************************************)
\* What the cache serves has been recorded, in the only cycle there is.
CacheRecorded == \A e \in cached : ~Loop /\ <<0, e>> \in analysed

AccountInv ==
    /\ ~Loop => cycle = 0
    /\ CacheRecorded
    /\ ClaimsAccounted

\* A poll that holds a claim is not served by the cache: what the cache holds
\* has been recorded, and no poll holds what has.
LEMMA HeldIsNotCached ==
    ASSUME IInv, AccountInv, NEW p \in Polls, pc[p] \in Holding
    PROVE  claim[p] \in Claims /\ claim[p][2] \notin cached
<1> USE Constants DEF ConstantsOK
<1>1. claim[p] # None /\ claim[p] \in Claims
  BY DEF IInv, TypeOK
<1>2. claim[p] = <<claim[p][1], claim[p][2]>> /\ claim[p][1] \in Nat /\ claim[p][1] <= cycle
  BY <1>1 DEF IInv, NotBeforeDue, Claims, TypeOK
<1>3. SUFFICES ASSUME claim[p][2] \in cached PROVE FALSE
  BY <1>1
<1>4. ~Loop /\ <<0, claim[p][2]>> \in analysed
  BY <1>3 DEF AccountInv, CacheRecorded
<1>5. claim[p][1] = 0
  BY <1>2, <1>4 DEF AccountInv
<1> QED BY <1>1, <1>2, <1>4, <1>5 DEF IInv, ClaimsExclusive

\* A step by which a poll's claim is kept, given back or recorded keeps every
\* claim accounted for.
LEMMA AccountStays ==
    ASSUME IInv, AccountInv, NEW p \in Polls,
           cycle' = cycle,
           cached' \subseteq cached,
           \/ claimed' = claimed /\ claim' = claim /\ analysed' = analysed
           \/ /\ \/ claimed' = claimed \ {claim[p]}
                 \/ claimed' = claimed /\ claim[p] = None
              /\ claim' = [claim EXCEPT ![p] = None]
              /\ analysed' = analysed
    PROVE  AccountInv'
<1>1. \A q \in Polls : claim'[q] = claim[q] \/ (q = p /\ claim' = [claim EXCEPT ![p] = None])
  BY DEF IInv, TypeOK
<1>2. None \notin claimed
  BY Constants DEF ConstantsOK, IInv, TypeOK
<1>3. ClaimsAccounted'
  BY <1>1, <1>2 DEF AccountInv, ClaimsAccounted
<1> QED BY <1>3 DEF AccountInv, CacheRecorded

\* Every step of a poll keeps every claim accounted for.
LEMMA PollKeepsAccount ==
    ASSUME ~Exceptions, ~Loop \/ CachedPolls = {},
           IInv, AccountInv, NEW p \in Polls, PollStep(p)
    PROVE  AccountInv'
<1>1. TypeOK
  BY DEF IInv
<1>2. pc[p] \in Holding => claim[p] \in Claims /\ claim[p][2] \notin cached
  BY HeldIsNotCached
<1>3. pc[p] \notin Holding => claim[p] = None
  BY <1>1 DEF TypeOK
<1>4. UNCHANGED cycle
  BY DEF PollStep, Guard, Look, Claim, LookInCache, YieldToChat, Acquire, TryLock, Dequeue,
         DecisionFails, DecisionRaises, Decide, Record, clockVars
<1>5. CASE Claim(p)
  <2>1. /\ claim[p] = None
        /\ UNCHANGED <<cached, analysed>>
    BY <1>3, <1>5 DEF Claim, Holding
  <2>2. /\ \A q \in Polls \ {p} : claim'[q] = claim[q]
        /\ claimed' \subseteq claimed \cup {claim'[p]}
        /\ None \notin claimed'
    <3>1. \A c, e : c \in 0..MaxCycle /\ e \in Events => <<c, e>> \in Claims
      BY DEF Claims
    <3>2. \A c : Kept(c) \subseteq claimed
      BY DEF Kept
    <3>3. None \notin claimed'
      BY <1>5, NewClaimIsFree, Constants DEF ConstantsOK
    <3> QED BY <1>1, <1>5, <3>2, <3>3 DEF Claim, Answer, TypeOK
  <2>3. ClaimsAccounted'
    <3> SUFFICES ASSUME NEW k \in claimed' PROVE k \in analysed' \/ \E q \in Polls : claim'[q] = k
      BY DEF ClaimsAccounted
    <3>1. CASE k = claim'[p]
      BY <3>1
    <3>2. CASE k \in claimed
      <4>1. k # None
        BY <2>2
      <4> QED BY <2>1, <2>2, <3>2, <4>1 DEF AccountInv, ClaimsAccounted
    <3> QED BY <2>2, <3>1, <3>2
  <2> QED BY <1>4, <2>1, <2>3 DEF AccountInv, CacheRecorded
<1>6. CASE Record(p)
  <2>1. /\ claim[p] \in Claims
        /\ analysed' = analysed \cup {claim[p]}
        /\ claimed' = claimed
        /\ claim' = [claim EXCEPT ![p] = None]
        /\ cached' = cached \/ (p \in CachedPolls /\ cached' = cached \cup {claim[p][2]})
    BY <1>2, <1>6 DEF Record, Answer, Holding
  <2>2. ClaimsAccounted'
    BY <1>1, <2>1 DEF AccountInv, ClaimsAccounted, TypeOK
  <2>3. CacheRecorded'
    <3>1. CASE cached' = cached
      BY <2>1, <3>1 DEF AccountInv, CacheRecorded
    <3>2. CASE p \in CachedPolls /\ cached' = cached \cup {claim[p][2]}
      <4>1. ~Loop /\ cycle = 0
        BY <3>2 DEF AccountInv
      <4>2. claim[p] # None
        BY <2>1, Constants DEF ConstantsOK
      <4>3. claim[p] = <<claim[p][1], claim[p][2]>> /\ claim[p][1] \in Nat
        BY <2>1 DEF Claims
      <4>4. claim[p][1] = 0
        BY <4>1, <4>2, <4>3 DEF IInv, NotBeforeDue
      <4> QED BY <2>1, <3>2, <4>1, <4>3, <4>4 DEF AccountInv, CacheRecorded
    <3> QED BY <2>1, <3>1, <3>2
  <2> QED BY <1>4, <2>2, <2>3 DEF AccountInv
<1> USE DEF Goto, Answer, Release
<1>7. CASE Guard(p) \/ Look(p)
  BY <1>1, <1>3, <1>4, <1>7, AccountStays DEF Guard, Look, Holding
<1>8. CASE LookInCache(p)
  BY <1>1, <1>2, <1>4, <1>8, AccountStays DEF LookInCache, Served, Holding
<1>9. CASE YieldToChat(p)
  <2>1. claim[p][2] \notin cached
    BY <1>2, <1>9 DEF YieldToChat, Holding
  <2>2. claim[p] # None
    BY <1>1, <1>9 DEF YieldToChat, TypeOK, Holding
  <2> QED BY <1>4, <1>9, <2>1, <2>2, AccountStays DEF YieldToChat
<1>10. CASE Acquire(p) \/ DecisionFails(p)
  BY <1>4, <1>10, AccountStays DEF Acquire, DecisionFails
<1>11. CASE TryLock(p) \/ Dequeue(p)
  BY <1>1, <1>2, <1>4, <1>11, AccountStays DEF TryLock, Dequeue, Served, Holding
<1>12. CASE DecisionRaises(p)
  BY <1>12 DEF DecisionRaises
<1>13. CASE Decide(p)
  BY <1>1, <1>4, <1>13, AccountStays DEF Decide
<1> QED BY <1>5, <1>6, <1>7, <1>8, <1>9, <1>10, <1>11, <1>12, <1>13 DEF PollStep

\* Every step keeps every claim accounted for.
LEMMA StepKeepsAccount ==
    ASSUME ~Exceptions, ~Loop \/ CachedPolls = {},
           IInv, AccountInv, [Next]_vars
    PROVE  AccountInv'
<1>1. CASE Clock
  <2>1. UNCHANGED <<claimed, cached, claim, analysed>> /\ (cycle' = cycle \/ Loop)
    BY <1>1 DEF Clock, Advance, Wrap
  <2> QED BY <2>1 DEF AccountInv, CacheRecorded, ClaimsAccounted
<1>2. CASE UNCHANGED <<cycle, claimed, claim, analysed>> /\ cached' \subseteq cached
  BY <1>2 DEF AccountInv, CacheRecorded, ClaimsAccounted
<1>3. ASSUME NEW p \in Polls, Request(p) PROVE AccountInv'
  BY <1>2, <1>3 DEF Request, clockVars
<1>4. ASSUME NEW c \in Chats, BeginChat(c) PROVE AccountInv'
  BY <1>2, <1>4 DEF BeginChat, clockVars
<1>5. CASE Expire \/ EndChat
  BY <1>2, <1>5 DEF Expire, EndChat, clockVars
<1>6. ASSUME NEW p \in Polls, PollStep(p) PROVE AccountInv'
  BY <1>6, PollKeepsAccount
<1>7. CASE UNCHANGED vars
  BY <1>2, <1>7 DEF vars, clockVars
<1> QED BY <1>1, <1>3, <1>4, <1>5, <1>6, <1>7 DEF Next

\* A claim the controller remembers is in the hands of a poll or ended in a
\* verdict, over any failures of acquisition, codec or model and any chats, as
\* long as the decision does not raise and no cached answer is a cycle old: the
\* page skips the cache, or the replay does not loop (_agent_monitor_payload,
\* release_claim).  Without either condition the claim is lost.
THEOREM ClaimsAreAccounted ==
    ASSUME ~Exceptions, ~Loop \/ CachedPolls = {}
    PROVE  Spec => []ClaimsAccounted
<1>1. Init => AccountInv
  BY DEF Init, AccountInv, CacheRecorded, ClaimsAccounted
<1>2. IInv /\ AccountInv /\ [Next]_vars => AccountInv'
  BY StepKeepsAccount
<1>3. AccountInv => ClaimsAccounted
  BY DEF AccountInv
<1> QED BY <1>1, <1>2, <1>3, ReplayInvariance, PTL DEF Spec

-----------------------------------------------------------------------------
(***************************************************************************)
(* The ledger of EventLedger.                                              *)
(***************************************************************************)
\* What nobody may take, in the ledger and with the controller.
LEMMA FreeIsUnknown ==
    ASSUME IInv, NEW k \in Claims
    PROVE  /\ k \notin claimed /\ Ledger!Recent(k) => Ledger!Free(k)
           /\ k \in claimed => ~Ledger!Free(k)
<1>1. k \notin claimed /\ k[1] + 1 >= cycle => ~Owned(k)
  BY DEF IInv, Remembered
<1> QED BY <1>1 DEF Ledger!Recent, Ledger!Free, Wasted, Owned

\* A claim takes the earliest event that the ledger has free; what the
\* controller forgets with it is too old to be taken.
LEMMA ClaimTakes ==
    ASSUME IInv, NEW p \in Polls, Claim(p)
    PROVE  Ledger!LedgerNext \/ UNCHANGED Ledger!ledgerVars
<1> USE Constants DEF ConstantsOK
<1> DEFINE c    == seen[p][1]
           n    == seen[p][2]
           kept == Kept(c)
<1>1. /\ c \in 0..MaxCycle /\ n \in 0..EventCount
      /\ cycle \in 0..MaxCycle /\ position \in 0..EventCount
      /\ claimed \subseteq Claims /\ claim \in [Polls -> Claims \cup {None}]
      /\ (c = cycle /\ n <= position) \/ c + 1 = cycle
      /\ pc[p] = "claim"
  BY DEF IInv, TypeOK, SeenRecently, Claim
<1>2. claim[p] = None /\ UNCHANGED <<cycle, position, analysed>>
  BY <1>1 DEF IInv, TypeOK, Holding, Claim, clockVars
<1>3. /\ kept \subseteq claimed
      /\ \A k \in claimed : k[1] + 1 >= c => k \in kept
      /\ \A k \in Claims : k[1] \in Nat /\ k[2] \in Nat
  BY DEF Kept, Claims, Events
<1>4. \A k \in claimed : k[1] + 1 >= cycle => k \in kept
  BY <1>1, <1>3
<1> HIDE DEF kept
<1>5. ASSUME claimed' = kept, claim' = [claim EXCEPT ![p] = None]
      PROVE  Ledger!ForgetOnly
  <2>1. claim' = claim
    BY <1>1, <1>2, <1>5
  <2>2. Wasted' \subseteq Wasted /\ \A k \in Wasted : k[1] + 1 >= cycle => k \in Wasted'
    BY <1>2, <1>3, <1>4, <1>5, <2>1 DEF Wasted
  <2> QED BY <1>2, <2>1, <2>2 DEF Ledger!ForgetOnly, Ledger!Forget, Ledger!Recent
<1>6. ASSUME NEW e \in Due(c, n, kept),
             claim' = [claim EXCEPT ![p] = <<c, e>>], claimed' = kept \cup {<<c, e>>}
      PROVE  \E k \in (0..cycle) \X (1..EventCount) : Ledger!Take(p, k)
  <2> DEFINE k == <<c, e>>
  <2>1. /\ e \in 1..EventCount /\ e <= n /\ k \notin kept
        /\ \A d \in 1..(e - 1) : <<c, d>> \in kept
    BY <1>1, DueIsReached DEF Due, Events
  <2>2. k \in Claims /\ k \in (0..cycle) \X (1..EventCount)
    BY <1>1, <2>1 DEF Claims, Events
  <2>3. k[1] = c /\ k[2] = e
    OBVIOUS
  <2>4. Ledger!Recent(k) /\ Ledger!Reached(k)
    BY <1>1, <2>1, <2>3 DEF Ledger!Recent, Ledger!Reached
  <2>5. k \notin claimed
    BY <1>1, <1>3, <2>1, <2>3
  <2>6. Ledger!Free(k)
    BY <2>2, <2>4, <2>5, FreeIsUnknown
  <2>7. \A d \in 1..(e - 1) : ~Ledger!Free(<<c, d>>)
    BY <1>1, <1>3, <2>1, FreeIsUnknown
  <2>8. \A x : Wasted' \subseteq Wasted /\ (x \in Wasted /\ x[1] + 1 >= cycle => x \in Wasted')
    <3>1. \A q \in Polls : claim'[q] = IF q = p THEN k ELSE claim[q]
      BY <1>1, <1>6
    <3>2. \A x : x \in Wasted' <=> x \in kept /\ x \in Wasted
      BY <1>1, <1>2, <1>3, <1>6, <2>5, <3>1 DEF Wasted
    <3>3. \A x \in Wasted : x \in claimed
      BY DEF Wasted
    <3> QED BY <1>4, <3>2, <3>3
  <2>9. Ledger!Forget
    BY <2>8 DEF Ledger!Forget, Ledger!Recent
  <2>10. Ledger!Take(p, k)
    BY <1>2, <1>6, <2>3, <2>4, <2>6, <2>7, <2>9 DEF Ledger!Take
  <2> QED BY <2>2, <2>10
<1>7. \/ \E e \in Due(c, n, kept) : /\ claim' = [claim EXCEPT ![p] = <<c, e>>]
                                    /\ claimed' = kept \cup {<<c, e>>}
      \/ claimed' = kept /\ claim' = [claim EXCEPT ![p] = None]
  BY DEF Claim, Answer, kept
<1> QED BY <1>5, <1>6, <1>7 DEF Ledger!LedgerNext

\* Every other step of a poll gives its event back, wastes it, concludes it or
\* keeps it.
LEMMA SettlingSettles ==
    ASSUME IInv, NEW p \in Polls, Settles(p)
    PROVE  Ledger!LedgerNext \/ UNCHANGED Ledger!ledgerVars
<1> USE Constants DEF ConstantsOK
<1>1. /\ claim \in [Polls -> Claims \cup {None}] /\ claimed \subseteq Claims
      /\ UNCHANGED <<cycle, position>>
  BY DEF IInv, TypeOK, Settles, clockVars
<1>2. claim[p] # None => claim[p] \notin analysed /\ \A q \in Polls \ {p} : claim[q] # claim[p]
  BY DEF IInv, ClaimsExclusive
<1>3. CASE claim' = claim /\ claimed' = claimed /\ analysed' = analysed
  BY <1>1, <1>3 DEF Ledger!ledgerVars, Wasted
<1>4. ASSUME claim' = [claim EXCEPT ![p] = None], claim[p] = None,
             \/ claimed' = claimed \/ claimed' = claimed \ {claim[p]},
             analysed' = analysed
      PROVE  UNCHANGED Ledger!ledgerVars
  <2>1. claim' = claim /\ claimed' = claimed
    BY <1>1, <1>4
  <2> QED BY <1>1, <1>4, <2>1 DEF Ledger!ledgerVars, Wasted
<1>5. ASSUME claim' = [claim EXCEPT ![p] = None], claim[p] # None,
             claimed' \subseteq claimed, analysed \subseteq analysed'
      PROVE  /\ Ledger!Drop(p)
             /\ \A k : k \in Wasted' <=> /\ k \in claimed' /\ k \notin analysed'
                                         /\ k \in Wasted \/ k = claim[p]
  <2>1. \A q \in Polls : claim'[q] = IF q = p THEN None ELSE claim[q]
    BY <1>1, <1>5
  <2> QED BY <1>1, <1>2, <1>5, <2>1 DEF Ledger!Drop, Wasted
<1>6. ASSUME claim' = [claim EXCEPT ![p] = None], claim[p] # None,
             claimed' = claimed \ {claim[p]}, analysed' = analysed
      PROVE  Ledger!GiveBack(p)
  <2>1. Wasted' = Wasted
    BY <1>5, <1>6 DEF Wasted
  <2> QED BY <1>5, <1>6, <2>1 DEF Ledger!GiveBack
<1>7. ASSUME claim' = [claim EXCEPT ![p] = None], claim[p] # None,
             claimed' = claimed, analysed' = analysed
      PROVE  Ledger!GiveBack(p) \/ Ledger!Waste(p)
  <2>1. CASE claim[p] \in claimed
    <3>1. Wasted' = Wasted \cup {claim[p]}
      BY <1>2, <1>5, <1>7, <2>1 DEF Wasted
    <3> QED BY <1>5, <1>7, <3>1 DEF Ledger!Waste
  <2>2. CASE claim[p] \notin claimed
    <3>1. Wasted' = Wasted
      BY <1>5, <1>7, <2>2 DEF Wasted
    <3> QED BY <1>5, <1>7, <3>1 DEF Ledger!GiveBack
  <2> QED BY <2>1, <2>2
<1>8. ASSUME claim' = [claim EXCEPT ![p] = None], claim[p] # None,
             claimed' = claimed, analysed' = analysed \cup {claim[p]}
      PROVE  Ledger!Conclude(p)
  <2>1. Wasted' = Wasted
    BY <1>5, <1>8 DEF Wasted
  <2> QED BY <1>5, <1>8, <2>1 DEF Ledger!Conclude
<1> QED BY <1>3, <1>4, <1>6, <1>7, <1>8 DEF Ledger!LedgerNext, Settles

\* Every step of clock, pages and chats is one of the ledger or leaves it alone.
LEMMA StepImplementsLedger ==
    ASSUME IInv, [Next]_vars
    PROVE  [Ledger!LedgerNext]_(Ledger!ledgerVars)
<1>1. CASE Clock
  BY <1>1 DEF Clock, Advance, Wrap, Ledger!LedgerNext, Ledger!Pass, Wasted
<1>2. ASSUME UNCHANGED <<clockVars, claimed, claim, analysed>>
      PROVE  UNCHANGED Ledger!ledgerVars
  BY <1>2 DEF clockVars, Ledger!ledgerVars, Wasted
<1>3. ASSUME NEW p \in Polls, Request(p) PROVE UNCHANGED Ledger!ledgerVars
  BY <1>2, <1>3 DEF Request
<1>4. ASSUME NEW c \in Chats, BeginChat(c) PROVE UNCHANGED Ledger!ledgerVars
  BY <1>2, <1>4 DEF BeginChat
<1>5. CASE Expire \/ EndChat
  BY <1>2, <1>5 DEF Expire, EndChat
<1>6. ASSUME NEW p \in Polls, PollStep(p)
      PROVE  Ledger!LedgerNext \/ UNCHANGED Ledger!ledgerVars
  BY <1>6, StepsSettle, ClaimTakes, SettlingSettles DEF IInv
<1>7. CASE UNCHANGED vars
  BY <1>2, <1>7 DEF vars
<1> QED BY <1>1, <1>3, <1>4, <1>5, <1>6, <1>7 DEF Next

\* For any number of pages, chats, events, cycles and failures, and wherever
\* decisions raise: an event is taken when it is reached, the earliest first, and
\* never again unless it was given back (claim_due_inference, release_claim and
\* _agent_monitor_payload together).
THEOREM LedgerIsImplemented == Spec => ImplementsLedger
<1>1. Init => Ledger!LedgerInit
  BY DEF Init, Ledger!LedgerInit, Wasted
<1>2. IInv /\ [Next]_vars => [Ledger!LedgerNext]_(Ledger!ledgerVars)
  BY StepImplementsLedger
<1> QED BY <1>1, <1>2, ReplayInvariance, PTL DEF Spec, ImplementsLedger, Ledger!LedgerSpec

\* No step of the ledger brings an event into two hands, or one that is wasted
\* or concluded into any.
LEMMA HandsStayApart ==
    ASSUME Ledger!HeldOnce, [Ledger!LedgerNext]_(Ledger!ledgerVars), TypeOK
    PROVE  Ledger!HeldOnce'
<1> USE DEF Ledger!HeldOnce, TypeOK
<1>1. ASSUME NEW p \in Polls, NEW k, Ledger!Take(p, k) PROVE Ledger!HeldOnce'
  <2>1. \A q \in Polls : claim'[q] = IF q = p THEN k ELSE claim[q]
    BY <1>1 DEF Ledger!Take
  <2>2. analysed' = analysed /\ Wasted' \subseteq Wasted
    BY <1>1 DEF Ledger!Take, Ledger!Forget
  <2>3. k \notin analysed /\ k \notin Wasted /\ \A q \in Polls : claim[q] # k
    BY <1>1 DEF Ledger!Take, Ledger!Free
  <2> QED BY <2>1, <2>2, <2>3
<1>2. ASSUME NEW p \in Polls, Ledger!GiveBack(p) \/ Ledger!Waste(p) \/ Ledger!Conclude(p)
      PROVE  Ledger!HeldOnce'
  <2>1. claim[p] # None /\ \A q \in Polls : claim'[q] = IF q = p THEN None ELSE claim[q]
    BY <1>2 DEF Ledger!GiveBack, Ledger!Waste, Ledger!Conclude, Ledger!Drop
  <2>2. \A k : k \in analysed' \cup Wasted' => k \in analysed \cup Wasted \/ k = claim[p]
    BY <1>2 DEF Ledger!GiveBack, Ledger!Waste, Ledger!Conclude
  <2> QED BY <2>1, <2>2
<1>3. CASE Ledger!Pass \/ Ledger!ForgetOnly
  BY <1>3 DEF Ledger!Pass, Ledger!ForgetOnly, Ledger!Forget
<1>4. CASE UNCHANGED Ledger!ledgerVars
  BY <1>4 DEF Ledger!ledgerVars
<1> QED BY <1>1, <1>2, <1>3, <1>4 DEF Ledger!LedgerNext

\* What the ledger guarantees holds of the monitor: an event is in one hand at a
\* time, and in none once it was wasted or concluded, as long as anyone could
\* still take it (EventLedger).
THEOREM EventsAreHeldOnce == Spec => []Ledger!HeldOnce
<1>1. Init => Ledger!HeldOnce
  BY DEF Init, Ledger!HeldOnce
<1>2. IInv /\ Ledger!HeldOnce /\ [Next]_vars => Ledger!HeldOnce'
  BY StepImplementsLedger, HandsStayApart DEF IInv
<1> QED BY <1>1, <1>2, ReplayInvariance, PTL DEF Spec
=============================================================================
