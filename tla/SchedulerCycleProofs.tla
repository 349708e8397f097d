----------------------- MODULE SchedulerCycleProofs -----------------------
(***************************************************************************)
(* The properties of claims in SchedulerCycle, proved for any users,       *)
(* searches, listings, prices and bounds.                                  *)
(*                                                                         *)
(* Shape is the type with what the phases of a cycle add to it.  Progress  *)
(* says where a search with something in hand is on its way: still         *)
(* waiting, or being delivered; without it a cycle could end with listings *)
(* claimed and forgotten.                                                  *)
(***************************************************************************)
EXTENDS SchedulerCycle, TLAPS

\* One search is between its pipeline and the end of its delivery.
Delivering == pc \in {"persist", "drops", "batch"}
CurSet == Delivering => cur \in Searches
Quiet == pc = "idle" => staged = {} /\ waiting = {}
PeekedPriced ==
    \A t \in Tokens : peeked[t] # NotYet => pc # "idle" /\ price[t] > 0
Shape == TypeOK /\ CurSet /\ Quiet /\ PeekedPriced

\* A search stays in line until every pair of the cycle was matched.
TodoWaits == \A k \in todo : pc = "cycle" /\ k[1] \in waiting

\* What a search has in hand is ahead of it or being delivered.
HandHeld ==
    \A s \in Searches :
        fresh[s] \cup dropped[s] # {} =>
            s \in waiting \/ (Delivering /\ s = cur)

DropsFirst == pc = "batch" => dropped[cur] = {}
Recorded == pc = "persist" => fresh[cur] \subseteq records
Progress == TodoWaits /\ HandHeld /\ DropsFirst /\ Recorded

\* What is in hand counts as delivered to the user for this cycle.
Counted ==
    \A s \in Searches : \A t \in fresh[s] \cup dropped[s] :
        <<Owner[s], t>> \in userDelivered

\* The cycle holds the claim of every new listing in its hands, and nobody
\* else alerted it, unless the cycle had released it twice.
FreshHeld ==
    \A s \in Searches : \A t \in fresh[s] :
        /\ <<s, t>> \in seen
        /\ <<s, t>> \in alerted => <<s, t>> \in regiven

-----------------------------------------------------------------------------
(* The step that matches a pair *)

\* What Match does to each variable, whatever price it saw.
MatchEffect(s, t) ==
    /\ seen' = seen \cup {<<s, t>>}
    /\ \/ fresh' = fresh
       \/ fresh' = [fresh EXCEPT ![s] = @ \cup {t}] /\ <<s, t>> \notin seen
    /\ dropped' = dropped \/ dropped' = [dropped EXCEPT ![s] = @ \cup {t}]
    /\ <<s, t>> \in seen \cup shadowed'
          \/ t \in fresh'[s] \cup dropped'[s]
    /\ shadowed \subseteq shadowed'
    /\ shadowed' \subseteq shadowed \cup {<<s, t>>}
    /\ userDelivered' \subseteq userDelivered \cup {<<Owner[s], t>>}
    /\ staged' \subseteq staged \cup {x \in {t} : price[x] > 0}
    /\ peeked' \in [Tokens -> Prices \cup {NotYet, Failed}]
    /\ faults' \in 0..MaxFaults
    /\ <<s, t>> \in todo /\ todo' = todo \ {<<s, t>>} /\ pc = "cycle"
    /\ UNCHANGED <<recorded, feed, cycles, pc, matched, waiting, cur,
                   records, persisted, persistFailed, told, lost,
                   unreleased, regiven, unsettled>>

\* Matching a pair has the effect above.
LEMMA MatchHasEffect ==
    ASSUME Shape, NEW s \in Searches, NEW t \in Tokens, Match(s, t)
    PROVE  MatchEffect(s, t)
<1> USE CycleConstants DEF Shape, TypeOK
<1>1. PICK old \in {Peek(t), Failed} :
         /\ IF old = Peek(t) THEN UNCHANGED faults
            ELSE Fault /\ price[t] > 0 /\ peeked[t] = NotYet
         /\ peeked' = [peeked EXCEPT ![t] = old]
         /\ staged' = IF old >= 0 /\ old # price[t]
                      THEN staged \cup {t} ELSE staged
         /\ File(s, t, old)
  BY DEF Match
<1>2. Peek(t) \in Prices \cup {NotYet, Failed}
  BY DEF Peek
<1>3. peeked' \in [Tokens -> Prices \cup {NotYet, Failed}]
  BY <1>1, <1>2
<1>4. faults' \in 0..MaxFaults
  BY <1>1 DEF Fault
<1>5. staged' \subseteq staged \cup {x \in {t} : price[x] > 0}
  <2>1. CASE price[t] > 0
    BY <1>1, <2>1
  <2>2. CASE price[t] = 0
    BY <1>1, <2>2 DEF Peek, NotYet, Failed, PeekedPriced
  <2> QED
    BY <2>1, <2>2, price[t] \in Nat
<1>6. /\ seen' = seen \cup {<<s, t>>}
      /\ \/ fresh' = fresh
         \/ fresh' = [fresh EXCEPT ![s] = @ \cup {t}] /\ <<s, t>> \notin seen
      /\ dropped' = dropped \/ dropped' = [dropped EXCEPT ![s] = @ \cup {t}]
      /\ <<s, t>> \in seen \cup shadowed' \/ t \in fresh'[s] \cup dropped'[s]
      /\ shadowed \subseteq shadowed'
      /\ shadowed' \subseteq shadowed \cup {<<s, t>>}
      /\ userDelivered' \subseteq userDelivered \cup {<<Owner[s], t>>}
  BY <1>1 DEF File, IsNew
<1> QED
  BY <1>3, <1>4, <1>5, <1>6 DEF Match, MatchEffect, feed, told

\* Matching a pair keeps the types.
LEMMA MatchTypeStep ==
    ASSUME Shape, NEW s \in Searches, NEW t \in Tokens, Match(s, t)
    PROVE  TypeOK'
<1>0. MatchEffect(s, t)
  BY MatchHasEffect
<1> USE <1>0 DEF MatchEffect, Shape, TypeOK, Keys, feed, told
<1>1. /\ seen' \subseteq Keys /\ shadowed' \subseteq Keys
      /\ todo' \subseteq matched'
  OBVIOUS
<1>2. fresh' \in [Searches -> SUBSET Tokens]
  OBVIOUS
<1>3. dropped' \in [Searches -> SUBSET Tokens]
  OBVIOUS
<1>4. userDelivered' \subseteq Users \X Tokens
  BY CycleConstants
<1>5. staged' \subseteq {x \in Tokens : price'[x] > 0}
  OBVIOUS
<1> QED
  BY <1>1, <1>2, <1>3, <1>4, <1>5

\* Matching a pair files under a search that is still waiting.
LEMMA MatchProgressStep ==
    ASSUME Shape, Progress, NEW s \in Searches, NEW t \in Tokens, Match(s, t)
    PROVE  Progress'
<1>0. MatchEffect(s, t)
  BY MatchHasEffect
<1>1. s \in waiting
  BY <1>0 DEF MatchEffect, Progress, TodoWaits
<1>2. \A x \in Searches :
         x # s => fresh'[x] = fresh[x] /\ dropped'[x] = dropped[x]
  BY <1>0 DEF MatchEffect, Shape, TypeOK
<1>3. TodoWaits'
  BY <1>0 DEF MatchEffect, Progress, TodoWaits
<1>4. HandHeld'
  <2>1. UNCHANGED <<pc, waiting, cur>>
    BY <1>0 DEF MatchEffect
  <2>2. ASSUME NEW x \in Searches, fresh'[x] \cup dropped'[x] # {}
        PROVE  x \in waiting' \/ (Delivering' /\ x = cur')
    <3>1. CASE x = s
      BY <3>1, <1>1, <2>1 DEF Delivering
    <3>2. CASE x # s
      BY <3>2, <2>2, <2>1, <1>2 DEF Progress, HandHeld, Delivering
    <3> QED
      BY <3>1, <3>2
  <2> QED
    BY <2>2 DEF HandHeld
<1>5. DropsFirst' /\ Recorded'
  BY <1>0 DEF MatchEffect, DropsFirst, Recorded
<1> QED
  BY <1>3, <1>4, <1>5 DEF Progress

\* A claim made by matching is in hand, or left to another search.
LEMMA MatchAccountedStep ==
    ASSUME Shape, ClaimAccounted,
           NEW s \in Searches, NEW t \in Tokens, Match(s, t)
    PROVE  ClaimAccounted'
<1>0. MatchEffect(s, t)
  BY MatchHasEffect
<1>1. \A x \in Searches :
         fresh[x] \subseteq fresh'[x] /\ dropped[x] \subseteq dropped'[x]
  BY <1>0 DEF MatchEffect, Shape, TypeOK
<1>2. ASSUME NEW k \in seen'
      PROVE  \/ InHand(k)' \/ Informed(k)'
             \/ k \in lost' \cup unreleased' \cup shadowed'
  <2>1. CASE k \in seen
    BY <2>1, <1>1, <1>0
    DEF MatchEffect, ClaimAccounted, InHand, Informed, told, Shape, TypeOK, Keys
  <2>2. CASE k = <<s, t>> /\ k \notin seen
    BY <2>2, <1>0 DEF MatchEffect, InHand
  <2> QED
    BY <2>1, <2>2, <1>0 DEF MatchEffect
<1> QED
  BY <1>2 DEF ClaimAccounted

\* A listing filed as new was not claimed, so nobody has alerted it.
LEMMA MatchAlertedStep ==
    ASSUME Shape, FreshHeld, AlertedStaysClaimed,
           NEW s \in Searches, NEW t \in Tokens, Match(s, t)
    PROVE  FreshHeld' /\ AlertedStaysClaimed'
<1>0. MatchEffect(s, t)
  BY MatchHasEffect
<1>1. AlertedStaysClaimed'
  BY <1>0 DEF MatchEffect, AlertedStaysClaimed, told
<1>2. ASSUME NEW x \in Searches, NEW y \in fresh'[x]
      PROVE  /\ <<x, y>> \in seen'
             /\ <<x, y>> \in alerted' => <<x, y>> \in regiven'
  <2>1. CASE y \in fresh[x]
    BY <2>1, <1>0 DEF MatchEffect, FreshHeld, told
  <2>2. CASE y \notin fresh[x]
    <3>1. x = s /\ y = t /\ <<s, t>> \notin seen
      BY <2>2, <1>2, <1>0 DEF MatchEffect, Shape, TypeOK
    <3> QED
      BY <3>1, <1>0 DEF MatchEffect, AlertedStaysClaimed, told
  <2> QED
    BY <2>1, <2>2
<1> QED
  BY <1>1, <1>2 DEF FreshHeld

\* A search that leaves the line is the one being delivered.
LEMMA ProcessHandHeld ==
    ASSUME Shape, HandHeld, NEW s \in Searches, NEW stuck, Process(s, stuck)
    PROVE  HandHeld'
<1>1. \A x \in Searches :
         fresh'[x] \subseteq fresh[x] /\ dropped'[x] = dropped[x]
  BY DEF Process, Shape, TypeOK
<1>2. pc = "cycle" /\ pc' = "persist" /\ cur' = s /\ waiting' = waiting \ {s}
  BY DEF Process
<1> QED
  BY <1>1, <1>2 DEF HandHeld, Delivering

-----------------------------------------------------------------------------
(* Every step *)

\* The phases of the cycle are kept by every step.
LEMMA CurStep ==
    Shape /\ [Next]_vars => (CurSet /\ Quiet /\ PeekedPriced)'
<1> SUFFICES ASSUME Shape, [Next]_vars
             PROVE  (CurSet /\ Quiet /\ PeekedPriced)'
    OBVIOUS
<1> USE CycleConstants
    DEF TypeOK, Shape, CurSet, Quiet, Delivering, PeekedPriced,
        feed, batchVars, priceVars, told, fate
<1>1. ASSUME NEW M \in SUBSET Keys, NEW prices \in [Tokens -> Prices],
            NEW details \in [Tokens -> Details], StartCycle(M, prices, details)
      PROVE  (CurSet /\ Quiet /\ PeekedPriced)'
  BY <1>1 DEF StartCycle, Failing, Fault
<1>2. ASSUME NEW s \in Searches, NEW t \in Tokens, Match(s, t)
      PROVE  (CurSet /\ Quiet /\ PeekedPriced)'
  BY <1>2 DEF Match, File, IsNew, Taken, Peek, Fault
<1>3. ASSUME NEW s \in Searches, NEW t \in Tokens, ClaimFails(s, t)
      PROVE  (CurSet /\ Quiet /\ PeekedPriced)'
  BY <1>3 DEF ClaimFails, Fault
<1>4. ASSUME NEW s \in Searches, NEW stuck \in SUBSET fresh[s],
             Process(s, stuck)
      PROVE  (CurSet /\ Quiet /\ PeekedPriced)'
  BY <1>4 DEF Process, Release, Unfit, Failing, Fault
<1>5. ASSUME NEW S \in SUBSET Tokens, Persist(S)
      PROVE  (CurSet /\ Quiet /\ PeekedPriced)'
  BY <1>5 DEF Persist, Incomplete
<1>6. ASSUME NEW S \in SUBSET Tokens, PersistFails(S)
      PROVE  (CurSet /\ Quiet /\ PeekedPriced)'
  BY <1>6 DEF PersistFails
<1>7. ASSUME NEW S \in SUBSET Tokens, SendDrops(S)
      PROVE  (CurSet /\ Quiet /\ PeekedPriced)'
  BY <1>7 DEF SendDrops, Tell, Failing, Fault
<1>8. ASSUME NEW S \in SUBSET Tokens, SendDropsBlocked(S)
      PROVE  (CurSet /\ Quiet /\ PeekedPriced)'
  BY <1>8 DEF SendDropsBlocked, Tell, Fault
<1>9. ASSUME NEW S \in SUBSET Tokens, SendBatch(S)
      PROVE  (CurSet /\ Quiet /\ PeekedPriced)'
  BY <1>9 DEF SendBatch, BatchDone
<1>10. ASSUME NEW S \in SUBSET Tokens, SendBatchFails(S)
      PROVE  (CurSet /\ Quiet /\ PeekedPriced)'
  BY <1>10 DEF SendBatchFails, BatchDone
<1>11. ASSUME NEW S \in SUBSET Tokens, Flush(S)
      PROVE  (CurSet /\ Quiet /\ PeekedPriced)'
  BY <1>11 DEF Flush, Flushed, Cleared, Failing, Fault
<1>12. ASSUME SendBatchMalformed
      PROVE  (CurSet /\ Quiet /\ PeekedPriced)'
  BY <1>12 DEF SendBatchMalformed, BatchDone, Fault
<1>13. ASSUME Crash
      PROVE  (CurSet /\ Quiet /\ PeekedPriced)'
  BY <1>13 DEF Crash, Cleared, Fault
<1>14. ASSUME NEW k \in Keys, Ingest(k)
      PROVE  (CurSet /\ Quiet /\ PeekedPriced)'
  BY <1>14 DEF Ingest
<1>15. CASE UNCHANGED vars
  BY <1>15 DEF vars
<1> QED
  BY <1>1, <1>2, <1>3, <1>4, <1>5, <1>6, <1>7, <1>8, <1>9, <1>10, <1>11,
     <1>12, <1>13, <1>14, <1>15 DEF Next, CycleStep

\* The types are kept by every step.
LEMMA TypeStep ==
    Shape /\ [Next]_vars => TypeOK'
<1> SUFFICES ASSUME Shape, [Next]_vars
             PROVE  TypeOK'
    OBVIOUS
<1> USE CycleConstants
    DEF TypeOK, Shape, CurSet, Quiet, Delivering, PeekedPriced,
        Keys, NotYet, Failed, Details,
        feed, batchVars, priceVars, told, fate
<1>1. ASSUME NEW M \in SUBSET Keys, NEW prices \in [Tokens -> Prices],
            NEW details \in [Tokens -> Details], StartCycle(M, prices, details)
      PROVE  TypeOK'
  BY <1>1 DEF StartCycle, Failing, Fault
<1>2. ASSUME NEW s \in Searches, NEW t \in Tokens, Match(s, t)
      PROVE  TypeOK'
  BY <1>2, MatchTypeStep
<1>3. ASSUME NEW s \in Searches, NEW t \in Tokens, ClaimFails(s, t)
      PROVE  TypeOK'
  BY <1>3 DEF ClaimFails, Fault
<1>4. ASSUME NEW s \in Searches, NEW stuck \in SUBSET fresh[s],
             Process(s, stuck)
      PROVE  TypeOK'
  BY <1>4 DEF Process, Release, Unfit, Failing, Fault
<1>5. ASSUME NEW S \in SUBSET Tokens, Persist(S)
      PROVE  TypeOK'
  BY <1>5 DEF Persist, Incomplete
<1>6. ASSUME NEW S \in SUBSET Tokens, PersistFails(S)
      PROVE  TypeOK'
  BY <1>6 DEF PersistFails
<1>7. ASSUME NEW S \in SUBSET Tokens, SendDrops(S)
      PROVE  TypeOK'
  BY <1>7 DEF SendDrops, Tell, Failing, Fault
<1>8. ASSUME NEW S \in SUBSET Tokens, SendDropsBlocked(S)
      PROVE  TypeOK'
  BY <1>8 DEF SendDropsBlocked, Tell, Fault
<1>9. ASSUME NEW S \in SUBSET Tokens, SendBatch(S)
      PROVE  TypeOK'
  BY <1>9 DEF SendBatch, BatchDone
<1>10. ASSUME NEW S \in SUBSET Tokens, SendBatchFails(S)
      PROVE  TypeOK'
  BY <1>10 DEF SendBatchFails, BatchDone
<1>11. ASSUME NEW S \in SUBSET Tokens, Flush(S)
      PROVE  TypeOK'
  BY <1>11 DEF Flush, Flushed, Cleared, Failing, Fault
<1>12. ASSUME SendBatchMalformed
      PROVE  TypeOK'
  BY <1>12 DEF SendBatchMalformed, BatchDone, Fault
<1>13. ASSUME Crash
      PROVE  TypeOK'
  BY <1>13 DEF Crash, Cleared, Fault
<1>14. ASSUME NEW k \in Keys, Ingest(k)
      PROVE  TypeOK'
  BY <1>14 DEF Ingest
<1>15. CASE UNCHANGED vars
  BY <1>15 DEF vars
<1> QED
  BY <1>1, <1>2, <1>3, <1>4, <1>5, <1>6, <1>7, <1>8, <1>9, <1>10, <1>11,
     <1>12, <1>13, <1>14, <1>15 DEF Next, CycleStep

\* The cycle's progress is kept by every step.
LEMMA ProgressStep ==
    Shape /\ Progress /\ [Next]_vars => Progress'
<1> SUFFICES ASSUME Shape /\ Progress, [Next]_vars
             PROVE  Progress'
    OBVIOUS
<1> USE CycleConstants
    DEF TypeOK, Shape, CurSet, Quiet, Delivering, Keys,
        Progress, TodoWaits, HandHeld, DropsFirst, Recorded,
        feed, batchVars, priceVars, told, fate
<1>1. ASSUME NEW M \in SUBSET Keys, NEW prices \in [Tokens -> Prices],
            NEW details \in [Tokens -> Details], StartCycle(M, prices, details)
      PROVE  Progress'
  BY <1>1 DEF StartCycle, Failing, Fault
<1>2. ASSUME NEW s \in Searches, NEW t \in Tokens, Match(s, t)
      PROVE  Progress'
  BY <1>2, MatchProgressStep
<1>3. ASSUME NEW s \in Searches, NEW t \in Tokens, ClaimFails(s, t)
      PROVE  Progress'
  BY <1>3 DEF ClaimFails, Fault
<1>4. ASSUME NEW s \in Searches, NEW stuck \in SUBSET fresh[s],
             Process(s, stuck)
      PROVE  Progress'
  <2> USE <1>4 DEF Process, Release, Unfit
  <2>1. TodoWaits'
    BY DEF TodoWaits
  <2>3. HandHeld'
    BY ProcessHandHeld
  <2>4. DropsFirst' /\ Recorded'
    BY DEF DropsFirst, Recorded
  <2> QED
    BY <2>1, <2>3, <2>4
<1>5. ASSUME NEW S \in SUBSET Tokens, Persist(S)
      PROVE  Progress'
  BY <1>5 DEF Persist, Incomplete
<1>6. ASSUME NEW S \in SUBSET Tokens, PersistFails(S)
      PROVE  Progress'
  BY <1>6 DEF PersistFails
<1>7. ASSUME NEW S \in SUBSET Tokens, SendDrops(S)
      PROVE  Progress'
  BY <1>7 DEF SendDrops, Tell, Failing, Fault
<1>8. ASSUME NEW S \in SUBSET Tokens, SendDropsBlocked(S)
      PROVE  Progress'
  BY <1>8 DEF SendDropsBlocked, Tell, Fault
<1>9. ASSUME NEW S \in SUBSET Tokens, SendBatch(S)
      PROVE  Progress'
  BY <1>9 DEF SendBatch, BatchDone
<1>10. ASSUME NEW S \in SUBSET Tokens, SendBatchFails(S)
      PROVE  Progress'
  BY <1>10 DEF SendBatchFails, BatchDone
<1>11. ASSUME NEW S \in SUBSET Tokens, Flush(S)
      PROVE  Progress'
  BY <1>11 DEF Flush, Flushed, Cleared, Failing, Fault
<1>12. ASSUME SendBatchMalformed
      PROVE  Progress'
  BY <1>12 DEF SendBatchMalformed, BatchDone, Fault
<1>13. ASSUME Crash
      PROVE  Progress'
  BY <1>13 DEF Crash, Cleared, Fault
<1>14. ASSUME NEW k \in Keys, Ingest(k)
      PROVE  Progress'
  BY <1>14 DEF Ingest
<1>15. CASE UNCHANGED vars
  BY <1>15 DEF vars
<1> QED
  BY <1>1, <1>2, <1>3, <1>4, <1>5, <1>6, <1>7, <1>8, <1>9, <1>10, <1>11,
     <1>12, <1>13, <1>14, <1>15 DEF Next, CycleStep

\* No step leaves a claim without a reason.
LEMMA AccountedStep ==
    Shape /\ Progress /\ ClaimAccounted /\ [Next]_vars => ClaimAccounted'
<1> SUFFICES ASSUME Shape /\ Progress /\ ClaimAccounted, [Next]_vars
             PROVE  ClaimAccounted'
    OBVIOUS
<1> USE CycleConstants
    DEF TypeOK, Shape, CurSet, Quiet, Delivering, Keys,
        Progress, TodoWaits, HandHeld, DropsFirst, Recorded,
        ClaimAccounted, InHand, Informed,
        feed, batchVars, priceVars, told, fate
<1>1. ASSUME NEW M \in SUBSET Keys, NEW prices \in [Tokens -> Prices],
            NEW details \in [Tokens -> Details], StartCycle(M, prices, details)
      PROVE  ClaimAccounted'
  BY <1>1 DEF StartCycle, Failing, Fault
<1>2. ASSUME NEW s \in Searches, NEW t \in Tokens, Match(s, t)
      PROVE  ClaimAccounted'
  BY <1>2, MatchAccountedStep
<1>3. ASSUME NEW s \in Searches, NEW t \in Tokens, ClaimFails(s, t)
      PROVE  ClaimAccounted'
  BY <1>3 DEF ClaimFails, Fault
<1>4. ASSUME NEW s \in Searches, NEW stuck \in SUBSET fresh[s],
             Process(s, stuck)
      PROVE  ClaimAccounted'
  BY <1>4 DEF Process, Release, Unfit, Failing, Fault
<1>5. ASSUME NEW S \in SUBSET Tokens, Persist(S)
      PROVE  ClaimAccounted'
  BY <1>5 DEF Persist, Incomplete
<1>6. ASSUME NEW S \in SUBSET Tokens, PersistFails(S)
      PROVE  ClaimAccounted'
  BY <1>6 DEF PersistFails
<1>7. ASSUME NEW S \in SUBSET Tokens, SendDrops(S)
      PROVE  ClaimAccounted'
  BY <1>7 DEF SendDrops, Tell, Failing, Fault
<1>8. ASSUME NEW S \in SUBSET Tokens, SendDropsBlocked(S)
      PROVE  ClaimAccounted'
  BY <1>8 DEF SendDropsBlocked, Tell, Fault
<1>9. ASSUME NEW S \in SUBSET Tokens, SendBatch(S)
      PROVE  ClaimAccounted'
  BY <1>9 DEF SendBatch, BatchDone
<1>10. ASSUME NEW S \in SUBSET Tokens, SendBatchFails(S)
      PROVE  ClaimAccounted'
  BY <1>10 DEF SendBatchFails, BatchDone
<1>11. ASSUME NEW S \in SUBSET Tokens, Flush(S)
      PROVE  ClaimAccounted'
  BY <1>11 DEF Flush, Flushed, Cleared, Failing, Fault
<1>12. ASSUME SendBatchMalformed
      PROVE  ClaimAccounted'
  BY <1>12 DEF SendBatchMalformed, BatchDone, Fault
<1>13. ASSUME Crash
      PROVE  ClaimAccounted'
  BY <1>13 DEF Crash, Cleared, Fault
<1>14. ASSUME NEW k \in Keys, Ingest(k)
      PROVE  ClaimAccounted'
  BY <1>14 DEF Ingest
<1>15. CASE UNCHANGED vars
  BY <1>15 DEF vars
<1> QED
  BY <1>1, <1>2, <1>3, <1>4, <1>5, <1>6, <1>7, <1>8, <1>9, <1>10, <1>11,
     <1>12, <1>13, <1>14, <1>15 DEF Next, CycleStep

\* No step puts a listing in hand twice for one user.
LEMMA OneStep ==
    Shape /\ Counted /\ OneMessagePerListing /\ [Next]_vars
        => (Counted /\ OneMessagePerListing)'
<1> SUFFICES ASSUME Shape /\ Counted /\ OneMessagePerListing, [Next]_vars
             PROVE  (Counted /\ OneMessagePerListing)'
    OBVIOUS
<1> USE CycleConstants
    DEF TypeOK, Shape, CurSet, Delivering, Keys,
        Counted, OneMessagePerListing, InHand,
        feed, batchVars, priceVars, told, fate
<1>1. ASSUME NEW M \in SUBSET Keys, NEW prices \in [Tokens -> Prices],
            NEW details \in [Tokens -> Details], StartCycle(M, prices, details)
      PROVE  (Counted /\ OneMessagePerListing)'
  BY <1>1 DEF StartCycle, Failing, Fault
<1>2. ASSUME NEW s \in Searches, NEW t \in Tokens, Match(s, t)
      PROVE  (Counted /\ OneMessagePerListing)'
  BY <1>2 DEF Match, File, IsNew, Taken, Peek, Fault
<1>3. ASSUME NEW s \in Searches, NEW t \in Tokens, ClaimFails(s, t)
      PROVE  (Counted /\ OneMessagePerListing)'
  BY <1>3 DEF ClaimFails, Fault
<1>4. ASSUME NEW s \in Searches, NEW stuck \in SUBSET fresh[s],
             Process(s, stuck)
      PROVE  (Counted /\ OneMessagePerListing)'
  BY <1>4 DEF Process, Release, Unfit, Failing, Fault
<1>5. ASSUME NEW S \in SUBSET Tokens, Persist(S)
      PROVE  (Counted /\ OneMessagePerListing)'
  BY <1>5 DEF Persist, Incomplete
<1>6. ASSUME NEW S \in SUBSET Tokens, PersistFails(S)
      PROVE  (Counted /\ OneMessagePerListing)'
  BY <1>6 DEF PersistFails
<1>7. ASSUME NEW S \in SUBSET Tokens, SendDrops(S)
      PROVE  (Counted /\ OneMessagePerListing)'
  BY <1>7 DEF SendDrops, Tell, Failing, Fault
<1>8. ASSUME NEW S \in SUBSET Tokens, SendDropsBlocked(S)
      PROVE  (Counted /\ OneMessagePerListing)'
  BY <1>8 DEF SendDropsBlocked, Tell, Fault
<1>9. ASSUME NEW S \in SUBSET Tokens, SendBatch(S)
      PROVE  (Counted /\ OneMessagePerListing)'
  BY <1>9 DEF SendBatch, BatchDone
<1>10. ASSUME NEW S \in SUBSET Tokens, SendBatchFails(S)
      PROVE  (Counted /\ OneMessagePerListing)'
  BY <1>10 DEF SendBatchFails, BatchDone
<1>11. ASSUME NEW S \in SUBSET Tokens, Flush(S)
      PROVE  (Counted /\ OneMessagePerListing)'
  BY <1>11 DEF Flush, Flushed, Cleared, Failing, Fault
<1>12. ASSUME SendBatchMalformed
      PROVE  (Counted /\ OneMessagePerListing)'
  BY <1>12 DEF SendBatchMalformed, BatchDone, Fault
<1>13. ASSUME Crash
      PROVE  (Counted /\ OneMessagePerListing)'
  BY <1>13 DEF Crash, Cleared, Fault
<1>14. ASSUME NEW k \in Keys, Ingest(k)
      PROVE  (Counted /\ OneMessagePerListing)'
  BY <1>14 DEF Ingest
<1>15. CASE UNCHANGED vars
  BY <1>15 DEF vars
<1> QED
  BY <1>1, <1>2, <1>3, <1>4, <1>5, <1>6, <1>7, <1>8, <1>9, <1>10, <1>11,
     <1>12, <1>13, <1>14, <1>15 DEF Next, CycleStep

\* No step releases the claim of an alerted key.
LEMMA AlertedStep ==
    Shape /\ FreshHeld /\ AlertedStaysClaimed /\ [Next]_vars
        => (FreshHeld /\ AlertedStaysClaimed)'
<1> SUFFICES ASSUME Shape /\ FreshHeld /\ AlertedStaysClaimed, [Next]_vars
             PROVE  (FreshHeld /\ AlertedStaysClaimed)'
    OBVIOUS
<1> USE CycleConstants
    DEF TypeOK, Shape, CurSet, Delivering, Keys,
        FreshHeld, AlertedStaysClaimed,
        feed, batchVars, priceVars, told, fate
<1>1. ASSUME NEW M \in SUBSET Keys, NEW prices \in [Tokens -> Prices],
            NEW details \in [Tokens -> Details], StartCycle(M, prices, details)
      PROVE  (FreshHeld /\ AlertedStaysClaimed)'
  BY <1>1 DEF StartCycle, Failing, Fault
<1>2. ASSUME NEW s \in Searches, NEW t \in Tokens, Match(s, t)
      PROVE  (FreshHeld /\ AlertedStaysClaimed)'
  BY <1>2, MatchAlertedStep
<1>3. ASSUME NEW s \in Searches, NEW t \in Tokens, ClaimFails(s, t)
      PROVE  (FreshHeld /\ AlertedStaysClaimed)'
  BY <1>3 DEF ClaimFails, Fault
<1>4. ASSUME NEW s \in Searches, NEW stuck \in SUBSET fresh[s],
             Process(s, stuck)
      PROVE  (FreshHeld /\ AlertedStaysClaimed)'
  BY <1>4 DEF Process, Release, Unfit, Failing, Fault
<1>5. ASSUME NEW S \in SUBSET Tokens, Persist(S)
      PROVE  (FreshHeld /\ AlertedStaysClaimed)'
  BY <1>5 DEF Persist, Incomplete
<1>6. ASSUME NEW S \in SUBSET Tokens, PersistFails(S)
      PROVE  (FreshHeld /\ AlertedStaysClaimed)'
  BY <1>6 DEF PersistFails
<1>7. ASSUME NEW S \in SUBSET Tokens, SendDrops(S)
      PROVE  (FreshHeld /\ AlertedStaysClaimed)'
  BY <1>7 DEF SendDrops, Tell, Failing, Fault
<1>8. ASSUME NEW S \in SUBSET Tokens, SendDropsBlocked(S)
      PROVE  (FreshHeld /\ AlertedStaysClaimed)'
  BY <1>8 DEF SendDropsBlocked, Tell, Fault
<1>9. ASSUME NEW S \in SUBSET Tokens, SendBatch(S)
      PROVE  (FreshHeld /\ AlertedStaysClaimed)'
  BY <1>9 DEF SendBatch, BatchDone
<1>10. ASSUME NEW S \in SUBSET Tokens, SendBatchFails(S)
      PROVE  (FreshHeld /\ AlertedStaysClaimed)'
  BY <1>10 DEF SendBatchFails, BatchDone
<1>11. ASSUME NEW S \in SUBSET Tokens, Flush(S)
      PROVE  (FreshHeld /\ AlertedStaysClaimed)'
  BY <1>11 DEF Flush, Flushed, Cleared, Failing, Fault
<1>12. ASSUME SendBatchMalformed
      PROVE  (FreshHeld /\ AlertedStaysClaimed)'
  BY <1>12 DEF SendBatchMalformed, BatchDone, Fault
<1>13. ASSUME Crash
      PROVE  (FreshHeld /\ AlertedStaysClaimed)'
  BY <1>13 DEF Crash, Cleared, Fault
<1>14. ASSUME NEW k \in Keys, Ingest(k)
      PROVE  (FreshHeld /\ AlertedStaysClaimed)'
  BY <1>14 DEF Ingest
<1>15. CASE UNCHANGED vars
  BY <1>15 DEF vars
<1> QED
  BY <1>1, <1>2, <1>3, <1>4, <1>5, <1>6, <1>7, <1>8, <1>9, <1>10, <1>11,
     <1>12, <1>13, <1>14, <1>15 DEF Next, CycleStep

-----------------------------------------------------------------------------
(* The theorems *)

CycleInv ==
    /\ Shape
    /\ Progress
    /\ ClaimAccounted
    /\ Counted /\ OneMessagePerListing
    /\ FreshHeld /\ AlertedStaysClaimed

\* The initial states satisfy the inductive invariant.
LEMMA CycleInvInit == Init => CycleInv
<1> SUFFICES ASSUME Init PROVE CycleInv
    OBVIOUS
<1> USE CycleConstants DEF Init
<1>0. recorded \in [Tokens -> Prices]
  OBVIOUS
<1>1. Shape
  BY <1>0 DEF Shape, TypeOK, Keys, Details, NotYet, Failed, CurSet, Delivering,
         Quiet, PeekedPriced
<1>2. Progress
  BY DEF Progress, TodoWaits, HandHeld, DropsFirst, Recorded, Delivering
<1>3. ClaimAccounted /\ AlertedStaysClaimed /\ Counted /\ FreshHeld
  BY DEF ClaimAccounted, AlertedStaysClaimed, Counted, FreshHeld
<1>4. OneMessagePerListing
  BY DEF OneMessagePerListing, InHand, Keys
<1> QED
  BY <1>1, <1>2, <1>3, <1>4 DEF CycleInv

\* The inductive invariant holds in every reachable state.
LEMMA CycleInvAlways == Spec => []CycleInv
<1>1. Init => CycleInv
  BY CycleInvInit
<1>2. CycleInv /\ [Next]_vars => CycleInv'
  BY CurStep, TypeStep, ProgressStep, AccountedStep, OneStep, AlertedStep
  DEF CycleInv, Shape
<1> QED
  BY <1>1, <1>2, PTL DEF Spec

\* Every variable of the cycle keeps its type; only real prices are staged.
THEOREM CycleTypeCorrect == Spec => []TypeOK
<1>1. CycleInv => TypeOK
  BY DEF CycleInv, Shape
<1> QED
  BY <1>1, CycleInvAlways, PTL

\* fetchAndMatch never forgets a claim: through matching, the km filter, a
\* failed persist, blocked, malformed and failed deliveries and crashes, a
\* claim that stands has one of the reasons ClaimAccounted lists.
THEOREM ClaimsAccountedFor == Spec => []ClaimAccounted
<1>1. CycleInv => ClaimAccounted
  BY DEF CycleInv
<1> QED
  BY <1>1, CycleInvAlways, PTL

\* However many searches of a user overlap, matchListingsToSearches puts a
\* listing into the hands of one of them.
THEOREM OneMessage == Spec => []OneMessagePerListing
<1>1. CycleInv => OneMessagePerListing
  BY DEF CycleInv
<1> QED
  BY <1>1, CycleInvAlways, PTL

\* No release of the scheduler, in whatever order with the ingest handler,
\* gives back the claim of a key that was alerted, save for the second
\* release after a failed persist.
THEOREM AlertedKeysStayClaimed == Spec => []AlertedStaysClaimed
<1>1. CycleInv => AlertedStaysClaimed
  BY DEF CycleInv
<1> QED
  BY <1>1, CycleInvAlways, PTL

-----------------------------------------------------------------------------
(* Price drops *)

\* What the cycle knows of a price: a cached price is the recorded one, only
\* seen prices are staged, and a drop in hand was seen and is to be written.
Cheaper(t) == price[t] > 0 /\ peeked[t] > price[t]
PriceInv ==
    /\ pc = "idle" => userDelivered = {}
    /\ \A t \in Tokens : peeked[t] >= 0 => peeked[t] = recorded[t]
    /\ \A t \in staged : peeked[t] >= 0
    /\ \A s \in Searches : \A t \in dropped[s] : t \in staged /\ Cheaper(t)

\* A drop somebody was told of is written, or will be at the end of the cycle,
\* or is one of the unsettled.
ToldInv ==
    \A u \in Users, t \in Tokens :
        /\ pc # "idle" => announced[<<u, t>>] \in {0, price[t]}
        /\ announced[<<u, t>>] > 0 =>
              \/ recorded[t] = announced[<<u, t>>]
              \/ t \in unsettled
              \/ t \in staged /\ <<u, t>> \in userDelivered

\* The user is to be told of the drop of t, was told, or could not be.
Owed(u, t) ==
    \/ \E s \in Searches : Owner[s] = u /\ t \in dropped[s]
    \/ announced[<<u, t>>] = price[t]
    \/ <<u, t>> \in missed

\* Whoever has been matched with a cheaper listing is owed the drop, also when
\* the listing was filed under another search of the same user.
OwedInv ==
    /\ \A k \in matched \ todo :
          \/ <<Owner[k[1]], k[2]>> \in missed
          \/ price[k[2]] > 0 =>
                /\ peeked[k[2]] # NotYet
                /\ Cheaper(k[2]) => <<Owner[k[1]], k[2]>> \in userDelivered
    /\ \A u \in Users, t \in Tokens :
          <<u, t>> \in userDelivered /\ price[t] > 0 =>
              /\ peeked[t] # NotYet
              /\ Cheaper(t) => Owed(u, t)

DropInv == PriceInv /\ ToldInv /\ RepeatedDropHasCause /\ OwedInv

\* What Match saw of the price and where it filed the pair.
LEMMA MatchSees ==
    ASSUME Shape, PriceInv, NEW s \in Searches, NEW t \in Tokens, Match(s, t)
    PROVE  \E old \in Prices \cup {NotYet, Failed} :
               /\ peeked' = [peeked EXCEPT ![t] = old]
               /\ peeked[t] # NotYet => old = peeked[t]
               /\ price[t] > 0 => old # NotYet
               /\ old >= 0 => old = recorded[t] /\ price[t] > 0
               /\ staged' = IF old >= 0 /\ old # price[t]
                            THEN staged \cup {t} ELSE staged
               /\ File(s, t, old)
<1>1. PICK old \in {Peek(t), Failed} :
         /\ IF old = Peek(t) THEN UNCHANGED faults
            ELSE Fault /\ price[t] > 0 /\ peeked[t] = NotYet
         /\ peeked' = [peeked EXCEPT ![t] = old]
         /\ staged' = IF old >= 0 /\ old # price[t]
                      THEN staged \cup {t} ELSE staged
         /\ File(s, t, old)
  BY DEF Match
<1>2. /\ recorded[t] \in Prices /\ Prices \subseteq Nat /\ price[t] \in Nat
      /\ peeked[t] \in Prices \cup {NotYet, Failed}
      /\ NotYet = -1 /\ Failed = -2
  BY CycleConstants DEF Shape, TypeOK, NotYet, Failed
<1>3. old \in Prices \cup {NotYet, Failed}
  BY <1>2 DEF Peek
<1>4. peeked[t] # NotYet => old = peeked[t] /\ price[t] > 0
  BY <1>1, <1>2 DEF Peek, Shape, PeekedPriced
<1>5. peeked[t] = NotYet => old \in {recorded[t], Failed} \/ (old = NotYet /\ price[t] = 0)
  BY <1>1, <1>2 DEF Peek
<1>6. peeked[t] = NotYet /\ old = recorded[t] => price[t] > 0
  BY <1>1, <1>2 DEF Peek
<1>7. price[t] > 0 => old # NotYet
  BY <1>2, <1>4, <1>5
<1>8. old >= 0 => old = recorded[t] /\ price[t] > 0
  BY <1>2, <1>4, <1>5, <1>6 DEF PriceInv
<1> QED BY <1>1, <1>3, <1>4, <1>7, <1>8

\* Matching a pair keeps DropInv: a drop is filed unless the user has the
\* listing already, and then an earlier match of the cycle filed it.
LEMMA MatchDropStep ==
    ASSUME Shape, PriceInv, ToldInv, RepeatedDropHasCause, OwedInv,
           NEW s \in Searches, NEW t \in Tokens, Match(s, t)
    PROVE  DropInv'
<1>0. PICK old \in Prices \cup {NotYet, Failed} :
         /\ peeked' = [peeked EXCEPT ![t] = old]
         /\ peeked[t] # NotYet => old = peeked[t]
         /\ price[t] > 0 => old # NotYet
         /\ old >= 0 => old = recorded[t] /\ price[t] > 0
         /\ staged' = IF old >= 0 /\ old # price[t]
                      THEN staged \cup {t} ELSE staged
         /\ File(s, t, old)
  BY MatchSees
<1>1. /\ UNCHANGED <<pc, recorded, price, matched, announced, missed, unsettled>>
      /\ todo' = todo \ {<<s, t>>} /\ pc = "cycle"
  BY DEF Match, feed, told
<1>a. NotYet = -1 /\ Failed = -2 /\ Prices \subseteq Nat
  BY CycleConstants DEF NotYet, Failed
<1>b. old \in Int
  BY <1>a
<1>c. peeked \in [Tokens -> Int]
  <2>1. Prices \cup {NotYet, Failed} \subseteq Int
    BY <1>a
  <2> QED BY <2>1 DEF Shape, TypeOK
<1>d. old >= 0 => old = recorded[t] /\ price[t] > 0
  BY <1>0
<1>2. /\ price \in [Tokens -> Nat] /\ dropped \in [Searches -> SUBSET Tokens]
      /\ staged \subseteq Tokens /\ Owner[s] \in Users /\ Owner \in [Searches -> Users]
      /\ announced \in [Users \X Tokens -> Nat]
      /\ recorded \in [Tokens -> Nat]
  BY <1>a, CycleConstants DEF Shape, TypeOK
<1>3. /\ \A x \in Tokens : x # t => peeked'[x] = peeked[x]
      /\ peeked'[t] = old
  BY <1>0, <1>c
<1>4. /\ userDelivered \subseteq userDelivered'
      /\ userDelivered' \subseteq userDelivered \cup {<<Owner[s], t>>}
      /\ IsDrop(old, price[t]) => <<Owner[s], t>> \in userDelivered'
      /\ dropped' = IF IsDrop(old, price[t]) /\ <<Owner[s], t>> \notin userDelivered
                    THEN [dropped EXCEPT ![s] = @ \cup {t}] ELSE dropped
  BY <1>0 DEF File, Taken
<1>5. IsDrop(old, price[t]) <=> Cheaper(t)'
  BY <1>1, <1>2, <1>b, <1>3 DEF IsDrop, Cheaper
<1>6. \A x \in Tokens : Cheaper(x) => Cheaper(x)'
  BY <1>0, <1>1, <1>2, <1>a, <1>c, <1>3 DEF Cheaper
<1>7. /\ staged \subseteq staged' /\ staged' \subseteq staged \cup {t}
      /\ t \in staged' => old >= 0
      /\ IsDrop(old, price[t]) => t \in staged' /\ old >= 0
  <2>1. staged' = IF old >= 0 /\ old # price[t] THEN staged \cup {t} ELSE staged
    BY <1>0
  <2>2. t \in staged => old >= 0
    <3>1. t \in staged => peeked[t] >= 0
      BY DEF PriceInv
    <3> QED BY <1>0, <1>a, <3>1
  <2>3. IsDrop(old, price[t]) => old >= 0 /\ old # price[t]
    BY <1>2, <1>b DEF IsDrop
  <2> QED BY <2>1, <2>2, <2>3
<1>8. /\ \A x \in Searches : dropped[x] \subseteq dropped'[x]
      /\ \A x \in Searches : \A y \in dropped'[x] : y \in dropped[x] \/
            (x = s /\ y = t /\ IsDrop(old, price[t])
                   /\ <<Owner[s], t>> \notin userDelivered)
      /\ IsDrop(old, price[t]) => t \in dropped'[s] \/ <<Owner[s], t>> \in userDelivered
  BY <1>2, <1>4
<1>9. PriceInv'
  <2>1. \A x \in Tokens : peeked'[x] >= 0 => peeked'[x] = recorded'[x]
    BY <1>0, <1>1, <1>3 DEF PriceInv
  <2>2. \A x \in staged' : peeked'[x] >= 0
    BY <1>2, <1>b, <1>c, <1>3, <1>7 DEF PriceInv
  <2>3. ASSUME NEW x \in Searches, NEW y \in dropped'[x]
        PROVE  y \in staged' /\ Cheaper(y)'
    <3>1. CASE y \in dropped[x]
      BY <1>2, <1>6, <1>7, <3>1 DEF PriceInv
    <3>2. CASE y \notin dropped[x]
      BY <1>5, <1>7, <1>8, <3>2
    <3> QED BY <3>1, <3>2
  <2> QED BY <1>1, <2>1, <2>2, <2>3 DEF PriceInv
<1>10. ToldInv'
  BY <1>1, <1>4, <1>7 DEF ToldInv
<1>11. RepeatedDropHasCause'
  <2> SUFFICES ASSUME NEW x \in Searches, NEW y \in dropped'[x],
                      announced[<<Owner[x], y>>] = price[y]
               PROVE  y \in unsettled
    BY <1>1 DEF RepeatedDropHasCause
  <2>1. CASE y \in dropped[x]
    BY <2>1 DEF RepeatedDropHasCause
  <2>2. CASE y \notin dropped[x]
    <3>1. x = s /\ y = t /\ IsDrop(old, price[t]) /\ <<Owner[s], t>> \notin userDelivered
      BY <1>8, <2>2
    <3>2. old = recorded[t] /\ price[t] > 0 /\ price[t] < old
      BY <1>b, <1>d, <1>2, <3>1 DEF IsDrop
    <3>3. announced[<<Owner[s], t>>] > 0 /\ recorded[t] # announced[<<Owner[s], t>>]
      BY <1>2, <3>1, <3>2
    <3> QED BY <1>2, <3>1, <3>3 DEF ToldInv
  <2> QED BY <2>1, <2>2
<1>12. \A u \in Users, y \in Tokens : Owed(u, y) => Owed(u, y)'
  BY <1>1, <1>8 DEF Owed
<1>13. ASSUME NEW u \in Users, NEW y \in Tokens,
              <<u, y>> \in userDelivered', price[y] > 0
       PROVE  peeked'[y] # NotYet /\ (Cheaper(y)' => Owed(u, y)')
  <2>1. CASE <<u, y>> \in userDelivered
    <3>1. peeked[y] # NotYet /\ (Cheaper(y) => Owed(u, y))
      BY <1>13, <2>1 DEF OwedInv
    <3>2. peeked'[y] = peeked[y]
      BY <1>0, <1>3, <3>1
    <3>3. Cheaper(y)' => Cheaper(y)
      BY <1>1, <3>2 DEF Cheaper
    <3> QED BY <1>12, <3>1, <3>2, <3>3
  <2>2. CASE <<u, y>> \notin userDelivered
    <3>1. u = Owner[s] /\ y = t
      BY <1>4, <1>13, <2>2
    <3>2. peeked'[y] # NotYet
      BY <1>0, <1>3, <1>13, <3>1
    <3>3. Cheaper(y)' => t \in dropped'[s]
      BY <1>5, <1>8, <2>2, <3>1
    <3> QED BY <3>1, <3>2, <3>3 DEF Owed
  <2> QED BY <2>1, <2>2
<1>14. ASSUME NEW k \in matched' \ todo'
       PROVE  \/ <<Owner[k[1]], k[2]>> \in missed'
              \/ price'[k[2]] > 0 =>
                    /\ peeked'[k[2]] # NotYet
                    /\ Cheaper(k[2])' => <<Owner[k[1]], k[2]>> \in userDelivered'
  <2>1. k \in Searches \X Tokens
    BY <1>1, <1>14 DEF Shape, TypeOK, Keys
  <2>2. CASE k = <<s, t>>
    BY <1>0, <1>1, <1>3, <1>4, <1>5, <2>2
  <2>3. CASE k # <<s, t>>
    <3>1. k \in matched \ todo
      BY <1>1, <1>14, <2>3
    <3>2. peeked[k[2]] # NotYet => peeked'[k[2]] = peeked[k[2]]
      BY <1>0, <1>3, <2>1
    <3>3. peeked[k[2]] # NotYet => (Cheaper(k[2])' <=> Cheaper(k[2]))
      BY <1>1, <3>2 DEF Cheaper
    <3> QED BY <1>1, <1>4, <3>1, <3>2, <3>3 DEF OwedInv
  <2> QED BY <2>2, <2>3
<1>15. OwedInv'
  BY <1>1, <1>13, <1>14 DEF OwedInv
<1> QED BY <1>9, <1>10, <1>11, <1>15 DEF DropInv

\* A step that touches neither prices nor drops.
LEMMA QuietDropStep ==
    ASSUME DropInv,
           UNCHANGED <<peeked, staged, recorded, price, dropped, userDelivered,
                       announced, missed, unsettled, matched, todo>>,
           pc' = "idle" <=> pc = "idle"
    PROVE  DropInv'
BY DEF DropInv, PriceInv, ToldInv, RepeatedDropHasCause, OwedInv, Cheaper, Owed

\* A new cycle forgets the drops announced at another price.
LEMMA StartDropStep ==
    ASSUME Shape, HandHeld, DropInv, NEW M \in SUBSET Keys,
           NEW prices \in [Tokens -> Prices], NEW details \in [Tokens -> Details],
           StartCycle(M, prices, details)
    PROVE  DropInv'
<1>1. /\ UNCHANGED <<recorded, peeked, staged, dropped, userDelivered, unsettled>>
      /\ price' = prices /\ matched' = todo' /\ pc = "idle"
      /\ announced' = [p \in Users \X Tokens |->
                          IF announced[p] = prices[p[2]] THEN announced[p] ELSE 0]
  BY DEF StartCycle, batchVars, priceVars, fate
<1>2. userDelivered = {} /\ \A s \in Searches : dropped[s] = {}
  BY <1>1 DEF DropInv, PriceInv, HandHeld, Shape, Quiet, Delivering
<1>3. PriceInv'
  BY <1>1, <1>2 DEF DropInv, PriceInv
<1>4. ASSUME NEW u \in Users, NEW t \in Tokens
      PROVE  /\ announced'[<<u, t>>] \in {0, price'[t]}
             /\ announced'[<<u, t>>] > 0 => announced'[<<u, t>>] = announced[<<u, t>>]
  BY <1>1, <1>4
<1>5. ToldInv'
  BY <1>1, <1>4 DEF DropInv, ToldInv
<1>6. RepeatedDropHasCause' /\ OwedInv'
  BY <1>1, <1>2 DEF RepeatedDropHasCause, OwedInv
<1> QED BY <1>3, <1>5, <1>6 DEF DropInv

\* A pair whose claim failed is skipped: its drop counts as missed.
LEMMA ClaimFailsDropStep ==
    ASSUME Shape, DropInv, NEW s \in Searches, NEW t \in Tokens, ClaimFails(s, t)
    PROVE  DropInv'
<1>1. /\ UNCHANGED <<peeked, staged, recorded, price, dropped, userDelivered,
                     announced, unsettled, matched, pc>>
      /\ todo' = todo \ {<<s, t>>} /\ missed' = missed \cup {<<Owner[s], t>>}
  BY DEF ClaimFails, feed, batchVars, priceVars
<1>2. PriceInv' /\ ToldInv' /\ RepeatedDropHasCause'
  BY <1>1 DEF DropInv, PriceInv, ToldInv, RepeatedDropHasCause, Cheaper
<1>3. \A x, u : Cheaper(x)' = Cheaper(x) /\ (Owed(u, x) => Owed(u, x)')
  BY <1>1 DEF Cheaper, Owed
<1>4. ASSUME NEW k \in matched' \ todo'
      PROVE  \/ <<Owner[k[1]], k[2]>> \in missed'
             \/ price'[k[2]] > 0 =>
                   /\ peeked'[k[2]] # NotYet
                   /\ Cheaper(k[2])' => <<Owner[k[1]], k[2]>> \in userDelivered'
  <2>1. CASE k = <<s, t>>
    BY <1>1, <2>1
  <2>2. CASE k # <<s, t>>
    BY <1>1, <1>3, <1>4, <2>2 DEF DropInv, OwedInv
  <2> QED BY <2>1, <2>2
<1>5. OwedInv'
  BY <1>1, <1>3, <1>4 DEF DropInv, OwedInv
<1> QED BY <1>2, <1>5 DEF DropInv

\* Sending the drops of a search: what was in hand is told or missed, and no
\* other search of the user had it in hand.
LEMMA SendDropsStep ==
    ASSUME Shape, Counted, OneMessagePerListing, DropInv,
           NEW sent \in SUBSET Tokens, SendDrops(sent) \/ SendDropsBlocked(sent)
    PROVE  DropInv'
<1>1. /\ UNCHANGED <<peeked, staged, recorded, price, userDelivered, unsettled,
                     matched, todo>>
      /\ pc = "drops" /\ pc' # "idle" /\ sent \subseteq dropped[cur]
      /\ dropped' = [dropped EXCEPT ![cur] = {}]
      /\ missed' = missed \cup ({Owner[cur]} \X (dropped[cur] \ sent))
      /\ Tell(sent)
  BY DEF SendDrops, SendDropsBlocked, feed, priceVars
<1>2. /\ cur \in Searches /\ Owner \in [Searches -> Users]
      /\ dropped \in [Searches -> SUBSET Tokens]
      /\ announced \in [Users \X Tokens -> Nat] /\ price \in [Tokens -> Nat]
      /\ \A x \in staged : price[x] > 0
  BY <1>1, CycleConstants DEF Shape, TypeOK, CurSet, Delivering
<1>3. \A u \in Users, t \in Tokens :
          announced'[<<u, t>>] = IF u = Owner[cur] /\ t \in sent THEN price[t]
                                 ELSE announced[<<u, t>>]
  BY <1>1 DEF Tell
<1>4. \A s \in Searches :
          dropped'[s] = IF s = cur THEN {} ELSE dropped[s]
  BY <1>1, <1>2
<1>5. PriceInv'
  BY <1>1, <1>4 DEF DropInv, PriceInv, Cheaper
<1>6. \A t \in sent : t \in staged /\ <<Owner[cur], t>> \in userDelivered
  BY <1>1, <1>2 DEF DropInv, PriceInv, Counted
<1>7. ToldInv'
  BY <1>1, <1>3, <1>6 DEF DropInv, ToldInv
<1>8. RepeatedDropHasCause'
  <2> SUFFICES ASSUME NEW s \in Searches, NEW t \in dropped'[s],
                      announced'[<<Owner[s], t>>] = price[t]
               PROVE  t \in unsettled
    BY <1>1 DEF RepeatedDropHasCause
  <2>1. s # cur /\ t \in dropped[s] /\ t \in Tokens
    BY <1>2, <1>4
  <2>2. CASE t \in sent /\ Owner[s] = Owner[cur]
    <3>1. <<s, t>> \in Keys /\ <<cur, t>> \in Keys
          /\ InHand(<<s, t>>) /\ InHand(<<cur, t>>)
      BY <1>1, <1>2, <2>1, <2>2 DEF Keys, InHand
    <3>2. <<s, t>> = <<cur, t>>
      BY <2>2, <3>1 DEF OneMessagePerListing
    <3> QED BY <2>1, <3>2
  <2>3. CASE ~(t \in sent /\ Owner[s] = Owner[cur])
    <3>1. announced'[<<Owner[s], t>>] = announced[<<Owner[s], t>>]
      BY <1>2, <1>3, <2>1, <2>3
    <3> QED BY <2>1, <3>1 DEF DropInv, RepeatedDropHasCause
  <2> QED BY <2>2, <2>3
<1>9. ASSUME NEW u \in Users, NEW t \in Tokens, Owed(u, t) PROVE Owed(u, t)'
  <2>1. CASE \E s \in Searches : Owner[s] = u /\ t \in dropped[s]
    <3>1. PICK s \in Searches : Owner[s] = u /\ t \in dropped[s]
      BY <2>1
    <3>2. CASE s = cur /\ t \in sent
      <4>1. announced'[<<u, t>>] = price'[t]
        BY <1>1, <1>3, <3>1, <3>2
      <4> QED BY <4>1 DEF Owed
    <3>3. CASE s = cur /\ t \notin sent
      BY <1>1, <3>1, <3>3 DEF Owed
    <3>4. CASE s # cur
      BY <1>4, <3>1, <3>4 DEF Owed
    <3> QED BY <3>2, <3>3, <3>4
  <2>2. CASE announced[<<u, t>>] = price[t]
    <3>1. announced'[<<u, t>>] = price'[t]
      BY <1>1, <1>3, <2>2
    <3> QED BY <3>1 DEF Owed
  <2>3. CASE <<u, t>> \in missed
    BY <1>1, <2>3 DEF Owed
  <2> QED BY <1>9, <2>1, <2>2, <2>3 DEF Owed
<1>10. OwedInv'
  BY <1>1, <1>9 DEF DropInv, OwedInv, Cheaper
<1> QED BY <1>5, <1>7, <1>8, <1>10 DEF DropInv

\* At the end of a cycle what was staged is written or unsettled.
LEMMA ClearDropStep ==
    ASSUME Shape, DropInv, pc # "idle", Cleared, UNCHANGED announced,
           \A t \in Tokens : recorded'[t] # recorded[t] =>
               t \in staged /\ recorded'[t] = price[t],
           \A t \in staged : recorded'[t] = price[t] \/ t \in unsettled',
           unsettled \ staged \subseteq unsettled'
    PROVE  DropInv'
<1>1. /\ \A t \in Tokens : peeked'[t] = NotYet
      /\ staged' = {} /\ userDelivered' = {} /\ matched' = {} /\ pc' = "idle"
      /\ \A s \in Searches : dropped'[s] = {}
  BY DEF Cleared
<1>2. PriceInv'
  BY <1>1 DEF PriceInv, NotYet
<1>3. RepeatedDropHasCause' /\ OwedInv'
  BY <1>1 DEF RepeatedDropHasCause, OwedInv
<1>4. ASSUME NEW u \in Users, NEW t \in Tokens, announced[<<u, t>>] > 0
      PROVE  recorded'[t] = announced[<<u, t>>] \/ t \in unsettled'
  <2>1. announced[<<u, t>>] = price[t]
    BY <1>4 DEF DropInv, ToldInv
  <2>2. CASE t \in staged
    BY <2>1, <2>2
  <2>3. CASE t \notin staged
    BY <1>4, <2>3 DEF DropInv, ToldInv
  <2> QED BY <2>2, <2>3
<1>5. ToldInv'
  BY <1>1, <1>4 DEF ToldInv
<1> QED BY <1>2, <1>3, <1>5 DEF DropInv

\* The flush writes only staged prices.
LEMMA FlushWrites ==
    ASSUME Shape, NEW failed \in SUBSET Tokens, Flush(failed)
    PROVE  /\ \A t \in Tokens : recorded'[t] # recorded[t] =>
                  t \in staged /\ recorded'[t] = price[t]
           /\ \A t \in staged : recorded'[t] = price[t] \/ t \in unsettled'
           /\ unsettled \ staged \subseteq unsettled'
<1>1. /\ recorded' = Flushed(staged \ failed) /\ staged \subseteq Tokens
      /\ unsettled' = (unsettled \ staged) \cup failed \cup
                      {t \in staged : ~Flushable(t)
                                        \/ Implausible(recorded[t], price[t])}
  BY DEF Flush, Shape, TypeOK
<1>2. \A t \in Tokens :
          recorded'[t] = IF t \in staged \ failed /\ Flushable(t)
                              /\ ~Implausible(recorded[t], price[t])
                         THEN price[t] ELSE recorded[t]
  BY <1>1 DEF Flushed
<1> QED BY <1>1, <1>2

\* Every step keeps DropInv.
LEMMA DropStep ==
    CycleInv /\ DropInv /\ [Next]_vars => DropInv'
<1> SUFFICES ASSUME CycleInv, DropInv, [Next]_vars PROVE DropInv'
  OBVIOUS
<1>0. Shape /\ HandHeld /\ Counted /\ OneMessagePerListing
  BY DEF CycleInv, Progress
<1>1. ASSUME NEW M \in SUBSET Keys, NEW prices \in [Tokens -> Prices],
             NEW details \in [Tokens -> Details], StartCycle(M, prices, details)
      PROVE  DropInv'
  BY <1>0, <1>1, StartDropStep
<1>2. ASSUME NEW s \in Searches, NEW t \in Tokens, Match(s, t) \/ ClaimFails(s, t)
      PROVE  DropInv'
  BY <1>0, <1>2, MatchDropStep, ClaimFailsDropStep DEF DropInv
<1>3. ASSUME NEW s \in Searches, NEW stuck \in SUBSET fresh[s], Process(s, stuck)
      PROVE  DropInv'
  BY <1>3, QuietDropStep DEF Process, feed, told, priceVars
<1>4. ASSUME NEW S \in SUBSET Tokens, SendDrops(S) \/ SendDropsBlocked(S)
      PROVE  DropInv'
  BY <1>0, <1>4, SendDropsStep
<1>5. ASSUME NEW S \in SUBSET Tokens, Persist(S) \/ PersistFails(S)
      PROVE  DropInv'
  BY <1>5, QuietDropStep DEF Persist, PersistFails, feed, told
<1>6. ASSUME BatchDone PROVE DropInv'
  BY <1>6, QuietDropStep DEF BatchDone, feed, priceVars
<1>7. ASSUME NEW S \in SUBSET Tokens, Flush(S) PROVE DropInv'
  BY <1>0, <1>7, FlushWrites, ClearDropStep DEF Flush, told
<1>8. CASE Crash
  BY <1>0, <1>8, ClearDropStep DEF Crash, told
<1>9. ASSUME NEW k \in Keys, Ingest(k) PROVE DropInv'
  BY <1>9, QuietDropStep DEF Ingest, feed, batchVars, priceVars, fate
<1>10. CASE UNCHANGED vars
  BY <1>10, QuietDropStep DEF vars, feed, batchVars, priceVars, told, fate
<1> QED
  BY <1>1, <1>2, <1>3, <1>4, <1>5, <1>6, <1>7, <1>8, <1>9, <1>10
     DEF Next, CycleStep, SendBatch, SendBatchFails, SendBatchMalformed

\* No drop is known at the start.
LEMMA DropInit == Init => DropInv
<1> SUFFICES ASSUME Init PROVE DropInv
  OBVIOUS
<1>1. PriceInv
  BY DEF Init, PriceInv, NotYet
<1>2. ToldInv
  BY DEF Init, ToldInv
<1>3. RepeatedDropHasCause /\ OwedInv
  BY DEF Init, RepeatedDropHasCause, OwedInv
<1> QED BY <1>1, <1>2, <1>3 DEF DropInv

\* What the cycle knows of prices and drops holds in every reachable state.
LEMMA DropInvAlways == Spec => []DropInv
BY CycleInvAlways, DropInit, DropStep, PTL DEF Spec

\* A drop at a price the user was told of is in hand again only if that price
\* was not written: whatever crashes, failed peeks, failed or refused writes
\* and other users' cycles lie in between.
THEOREM RepeatedDropsHaveCause == Spec => []RepeatedDropHasCause
<1>1. DropInv => RepeatedDropHasCause
  BY DEF DropInv
<1> QED BY <1>1, DropInvAlways, PTL

\* A lower price is written only when every user the listing was matched for
\* has been told of it, or could not be: one search's observation of the price
\* never swallows the drop of another.
THEOREM NoDropIsSwallowed == Spec => NoDropSwallowed
<1> DEFINE Told == \A k \in matched :
          LET t == k[2] IN
          recorded[t] > 0 /\ recorded'[t] < recorded[t] =>
             \/ announced[Owner[k[1]], t] = recorded'[t]
             \/ <<Owner[k[1]], t>> \in missed
<1>1. CycleInv /\ DropInv /\ [Next]_vars => [Told]_vars
  <2> SUFFICES ASSUME CycleInv, DropInv, [Next]_vars, NEW k \in matched,
                      NEW u, NEW t, u = Owner[k[1]], t = k[2],
                      recorded[t] > 0, recorded'[t] < recorded[t]
               PROVE  announced[<<u, t>>] = recorded'[t] \/ <<u, t>> \in missed
    OBVIOUS
  <2>0. /\ u \in Users /\ t \in Tokens /\ recorded \in [Tokens -> Nat]
        /\ \A x \in staged : price[x] > 0
    BY CycleConstants DEF CycleInv, Shape, TypeOK, Keys
  <2>1. recorded'[t] # recorded[t]
    BY <2>0
  <2>2. PICK S \in SUBSET Tokens : Flush(S)
    BY <2>1 DEF Next, CycleStep, vars, StartCycle, Match, ClaimFails, Process,
       Persist, PersistFails, SendDrops, SendDropsBlocked, SendBatch, BatchDone,
       SendBatchFails, SendBatchMalformed, Crash, Ingest
  <2>3. t \in staged /\ recorded'[t] = price[t]
    BY <2>0, <2>1, <2>2, FlushWrites DEF CycleInv
  <2>4. k \notin todo /\ \A s \in Searches : dropped[s] = {}
    BY <2>2 DEF Flush, CycleInv, Progress, HandHeld, Delivering
  <2>5. peeked[t] = recorded[t] /\ Cheaper(t)
    BY <2>0, <2>3 DEF DropInv, PriceInv, Cheaper
  <2>6. <<u, t>> \in userDelivered \/ <<u, t>> \in missed
    BY <2>4, <2>5 DEF DropInv, OwedInv, Cheaper
  <2>7. <<u, t>> \in userDelivered => Owed(u, t)
    BY <2>0, <2>5 DEF DropInv, OwedInv, Cheaper
  <2>8. Owed(u, t) => announced[<<u, t>>] = price[t] \/ <<u, t>> \in missed
    BY <2>4 DEF Owed
  <2> QED BY <2>3, <2>6, <2>7, <2>8
<1> QED
  BY <1>1, CycleInvAlways, DropInvAlways, PTL DEF Spec, NoDropSwallowed
=============================================================================
