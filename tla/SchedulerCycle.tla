-------------------------- MODULE SchedulerCycle --------------------------
(***************************************************************************)
(* The scheduler's cycle from the fetched listings to their alerts: match  *)
(* and claim, km filter, persist, deliver per search, then write the       *)
(* prices it staged (fetchAndMatch).  The API's ingest handler, which      *)
(* claims the same keys, is one atomic step here; IngestDelivery has its   *)
(* own steps.                                                              *)
(*                                                                         *)
(* The feed is read once per cycle.  Of a listing it keeps the price, and  *)
(* of km, city and image what is known once the stored values are filled   *)
(* in: "noKm", "noCity" (or no image), complete with a km "low" enough for *)
(* every search, or too "high" for those with a limit.                     *)
(***************************************************************************)
EXTENDS Integers, FiniteSets

CONSTANTS Users, Searches, Tokens,
          Owner,            \* search -> its user
          Limited,          \* searches with a MaxKm
          Prices,           \* prices in the feed; 0 is no price
          OldPrices,        \* those recorded before the first cycle modelled
          MaxBatch,         \* maxBatchSize
          Outcomes,         \* what DeliverBatch and DeliverRaw may return
          MaxFaults,        \* bound: failed calls and crashes
          MaxCycles,        \* bound: cycles
          NoSearch

ASSUME CycleConstants ==
    /\ Owner \in [Searches -> Users]
    /\ Limited \subseteq Searches
    /\ Prices \subseteq Nat /\ 0 \in Prices /\ OldPrices \subseteq Prices
    /\ MaxBatch \in Nat \ {0}
    /\ Outcomes \subseteq {"ok", "fail", "malformed", "blocked"}
    /\ MaxFaults \in Nat /\ MaxCycles \in Nat
    /\ NoSearch \notin Searches

Keys == Searches \X Tokens
Details == {"noKm", "noCity", "low", "high"}
NotYet == -1
Failed == -2

VARIABLES seen,             \* seen_listings: the claimed keys
          recorded,         \* token -> latest row of price_history, or 0
          price, detail,    \* ms.raw: token -> its price; its km, city, image
          pc,               \* "idle", "cycle", "persist", "drops", "batch"
          matched, todo,    \* matching pairs of the cycle; those not handled
          waiting,          \* searches with matches, not yet delivered
          cur,              \* the search being delivered
          fresh, dropped,   \* search -> its new listings, its price drops
          records,          \* records the pipeline built for cur
          userDelivered,    \* user and token pairs of the cycle
          peeked,           \* priceCache: token -> recorded price
          staged,           \* pendingPrices
          persisted, persistFailed,
          alerted,          \* history: keys handed over in a batch
          informed,         \* history: user and token pairs handed over in
                            \* a batch or a price drop message
          lost,             \* history: keys the cycle gave up
          unreleased,       \* history: keys whose release failed
          shadowed,         \* history: keys left to another search
          regiven,          \* history: keys the cycle released twice
          announced,        \* history: last price told as a drop, per user
          missed,           \* history: pairs whose drop could not be told
          unsettled,        \* history: tokens whose staged price was not
                            \* written, by a fault or because it was refused
          faults, cycles

feed == <<price, detail>>
batchVars == <<fresh, dropped, records>>
priceVars == <<peeked, staged, persisted, persistFailed>>
told == <<alerted, informed, announced, missed>>
fate == <<lost, unreleased, shadowed, regiven, unsettled>>
vars == <<seen, recorded, feed, pc, matched, todo, waiting, cur, batchVars,
          userDelivered, priceVars, told, fate, faults, cycles>>

TypeOK ==
    /\ seen \subseteq Keys
    /\ recorded \in [Tokens -> Prices]
    /\ price \in [Tokens -> Prices]
    /\ detail \in [Tokens -> Details]
    /\ pc \in {"idle", "cycle", "persist", "drops", "batch"}
    /\ matched \subseteq Keys
    /\ todo \subseteq matched
    /\ waiting \subseteq Searches
    /\ cur \in Searches \cup {NoSearch}
    /\ fresh \in [Searches -> SUBSET Tokens]
    /\ dropped \in [Searches -> SUBSET Tokens]
    /\ records \subseteq Tokens
    /\ userDelivered \subseteq Users \X Tokens
    /\ peeked \in [Tokens -> Prices \cup {NotYet, Failed}]
    /\ staged \subseteq {t \in Tokens : price[t] > 0}
    /\ persisted \subseteq Tokens
    /\ persistFailed \subseteq Tokens
    /\ alerted \subseteq Keys
    /\ informed \subseteq Users \X Tokens
    /\ lost \subseteq Keys
    /\ unreleased \subseteq Keys
    /\ shadowed \subseteq Keys
    /\ regiven \subseteq Keys
    /\ announced \in [Users \X Tokens -> Prices]
    /\ missed \subseteq Users \X Tokens
    /\ unsettled \subseteq Tokens
    /\ faults \in 0..MaxFaults
    /\ cycles \in 0..MaxCycles

Init ==
    /\ seen = {}
    /\ recorded \in [Tokens -> OldPrices]
    /\ price = [t \in Tokens |-> 0]
    /\ detail = [t \in Tokens |-> "noKm"]
    /\ pc = "idle"
    /\ matched = {}
    /\ todo = {}
    /\ waiting = {}
    /\ cur = NoSearch
    /\ fresh = [s \in Searches |-> {}]
    /\ dropped = [s \in Searches |-> {}]
    /\ records = {}
    /\ userDelivered = {}
    /\ peeked = [t \in Tokens |-> NotYet]
    /\ staged = {}
    /\ persisted = {}
    /\ persistFailed = {}
    /\ alerted = {}
    /\ informed = {}
    /\ lost = {}
    /\ unreleased = {}
    /\ shadowed = {}
    /\ regiven = {}
    /\ announced = [p \in Users \X Tokens |-> 0]
    /\ missed = {}
    /\ unsettled = {}
    /\ faults = 0
    /\ cycles = 0

Fault == faults < MaxFaults /\ faults' = faults + 1

\* A loop of calls, of which those in S fail.
Failing(S) == IF S = {} THEN UNCHANGED faults ELSE Fault

\* ReleaseClaim for each token of T, failing for those in stuck.
ReleaseForgotten(s, T, stuck) ==
    /\ stuck = {}
    /\ UNCHANGED <<seen, unreleased, faults>>
Release(s, T, stuck) ==
    /\ stuck \subseteq T
    /\ Failing(stuck)
    /\ seen' = seen \ ({s} \X (T \ stuck))
    /\ unreleased' = unreleased \cup ({s} \X stuck)

-----------------------------------------------------------------------------
(* Matching *)

\* The cycle has fetched, prefilled and percolated: M are the pairs of active
\* searches and listings that match and that the user did not hide.  A search
\* with a limit matches a listing above it only if the prefill failed, and
\* the pipeline's own lookup finds the km later.
StartCycle(M, prices, details) ==
    /\ pc = "idle"
    /\ M # {}
    /\ cycles < MaxCycles
    /\ cycles' = cycles + 1
    /\ Failing({k \in M : k[1] \in Limited /\ details[k[2]] = "high"})
    /\ pc' = "cycle"
    /\ price' = prices
    /\ detail' = details
    /\ matched' = M
    /\ todo' = M
    /\ waiting' = {k[1] : k \in M}
    /\ missed' = {}
    /\ announced' = [p \in Users \X Tokens |->
                        IF announced[p] = prices[p[2]] THEN announced[p] ELSE 0]
    /\ UNCHANGED <<seen, recorded, cur, batchVars, userDelivered, priceVars,
                   alerted, informed, fate>>

\* One pair: claim it, compare the price with the recorded one, and file the
\* listing under the search's price drops or new listings, unless the user
\* gets it through another search.
IsNewAlways(s, t) == TRUE
IsNew(s, t) == <<s, t>> \notin seen
TakenByAnyone(u, t) == \E v \in Users : <<v, t>> \in userDelivered
Taken(u, t) == <<u, t>> \in userDelivered
IsDrop(old, new) == old > 0 /\ new > 0 /\ new < old
File(s, t, old) ==
    LET isNew == IsNew(s, t)
        drop == IsDrop(old, price[t])
        wanted == isNew \/ drop
        taken == Taken(Owner[s], t)
    IN  /\ seen' = seen \cup {<<s, t>>}
        /\ dropped' = IF drop /\ ~taken
                      THEN [dropped EXCEPT ![s] = @ \cup {t}] ELSE dropped
        /\ fresh' = IF isNew /\ ~drop /\ ~taken
                    THEN [fresh EXCEPT ![s] = @ \cup {t}] ELSE fresh
        /\ userDelivered' = IF wanted THEN userDelivered \cup {<<Owner[s], t>>}
                            ELSE userDelivered
        /\ shadowed' = IF isNew /\ taken THEN shadowed \cup {<<s, t>>}
                       ELSE shadowed

\* PeekPrice, unless the price is cached or the feed has none.
Peek(t) == IF price[t] > 0 /\ peeked[t] = NotYet THEN recorded[t] ELSE peeked[t]
Match(s, t) ==
    /\ pc = "cycle"
    /\ <<s, t>> \in todo
    /\ todo' = todo \ {<<s, t>>}
    /\ \E old \in {Peek(t), Failed} :
          /\ IF old = Peek(t) THEN UNCHANGED faults
             ELSE Fault /\ price[t] > 0 /\ peeked[t] = NotYet
          /\ peeked' = [peeked EXCEPT ![t] = old]
          /\ staged' = IF old >= 0 /\ old # price[t]
                       THEN staged \cup {t} ELSE staged
          /\ File(s, t, old)
    /\ UNCHANGED <<recorded, feed, cycles, pc, matched, waiting, cur, records,
                   persisted, persistFailed, told, lost, unreleased, regiven,
                   unsettled>>

\* ClaimNew fails, possibly after the row was inserted: the pair is skipped.
ClaimFails(s, t) ==
    /\ pc = "cycle"
    /\ <<s, t>> \in todo
    /\ Fault
    /\ todo' = todo \ {<<s, t>>}
    /\ missed' = missed \cup {<<Owner[s], t>>}
    /\ \/ UNCHANGED <<seen, lost>>
       \/ /\ <<s, t>> \notin seen
          /\ seen' = seen \cup {<<s, t>>}
          /\ lost' = lost \cup {<<s, t>>}
    /\ UNCHANGED <<recorded, feed, cycles, pc, matched, waiting, cur, batchVars,
                   userDelivered, priceVars, alerted, informed, announced,
                   unreleased, shadowed, regiven, unsettled>>

-----------------------------------------------------------------------------
(* processAndDeliverPerSearch *)

\* The pipeline builds a record for every new listing; then the km filter
\* drops those without a km or with too much, and releases their claims.
Unfit(s) ==
    IF s \in Limited THEN {t \in fresh[s] : detail[t] \in {"noKm", "high"}}
    ELSE {}
Process(s, stuck) ==
    /\ pc = "cycle"
    /\ todo = {}
    /\ s \in waiting
    /\ pc' = "persist"
    /\ cur' = s
    /\ waiting' = waiting \ {s}
    /\ records' = fresh[s]
    /\ Release(s, Unfit(s), stuck)
    /\ fresh' = [fresh EXCEPT ![s] = @ \ Unfit(s)]
    /\ UNCHANGED <<recorded, feed, cycles, matched, todo, dropped,
                   userDelivered,
                   priceVars, told, lost, shadowed, regiven, unsettled>>

\* SaveListings; then listings that are incomplete and were posted less than
\* the grace period ago are left out of this cycle's batch.
Incomplete == {t \in fresh[cur] : detail[t] \in {"noKm", "noCity"}}
Persist(deferred) ==
    /\ pc = "persist"
    /\ deferred \subseteq Incomplete
    /\ pc' = "drops"
    /\ persisted' = persisted \cup records
    /\ fresh' = [fresh EXCEPT ![cur] = @ \ deferred]
    /\ lost' = lost \cup ({cur} \X deferred)
    /\ UNCHANGED <<seen, recorded, feed, cycles, matched, todo, waiting, cur,
                   dropped, records, userDelivered, peeked, staged,
                   persistFailed, told, unreleased, shadowed, regiven,
                   unsettled, faults>>

\* SaveListings fails: every record's claim is released, also those that the
\* km filter released before.
PersistFails(stuck) ==
    /\ pc = "persist"
    /\ records # {}
    /\ faults < MaxFaults
    /\ stuck \subseteq records
    /\ faults' = faults + 1
    /\ seen' = seen \ ({cur} \X (records \ stuck))
    /\ unreleased' = unreleased \cup ({cur} \X stuck)
    /\ regiven' = regiven \cup ({cur} \X (records \ fresh[cur]))
    /\ fresh' = [fresh EXCEPT ![cur] = {}]
    /\ persistFailed' = persistFailed \cup records
    /\ pc' = "drops"
    /\ UNCHANGED <<recorded, feed, cycles, matched, todo, waiting, cur, dropped,
                   records, userDelivered, peeked, staged, persisted, told,
                   lost, shadowed, unsettled>>

\* deliverResults, price drops: each message is handed over or given up.
Tell(T) ==
    LET u == Owner[cur] IN
    /\ informed' = informed \cup ({u} \X T)
    /\ announced' = [p \in Users \X Tokens |->
                        IF p[1] = u /\ p[2] \in T THEN price[p[2]]
                        ELSE announced[p]]
SendDrops(sent) ==
    /\ pc = "drops"
    /\ sent \subseteq dropped[cur]
    /\ sent # dropped[cur] => {"fail", "malformed"} \cap Outcomes # {}
    /\ Failing(dropped[cur] \ sent)
    /\ Tell(sent)
    /\ missed' = missed \cup ({Owner[cur]} \X (dropped[cur] \ sent))
    /\ lost' = lost \cup ({cur} \X (dropped[cur] \ sent))
    /\ dropped' = [dropped EXCEPT ![cur] = {}]
    /\ pc' = "batch"
    /\ UNCHANGED <<seen, recorded, feed, cycles, matched, todo, waiting, cur,
                   fresh,
                   records, userDelivered, priceVars, alerted, unreleased,
                   shadowed, regiven, unsettled>>

\* The recipient blocked the bot: the rest, new listings included, is
\* dropped, and the claims stay.
SendDropsBlocked(sent) ==
    /\ pc = "drops"
    /\ "blocked" \in Outcomes
    /\ sent \subseteq dropped[cur]
    /\ sent # dropped[cur]
    /\ Fault
    /\ Tell(sent)
    /\ missed' = missed \cup ({Owner[cur]} \X (dropped[cur] \ sent))
    /\ lost' = lost \cup ({cur} \X ((dropped[cur] \ sent) \cup fresh[cur]))
    /\ dropped' = [dropped EXCEPT ![cur] = {}]
    /\ fresh' = [fresh EXCEPT ![cur] = {}]
    /\ pc' = "cycle"
    /\ cur' = NoSearch
    /\ records' = {}
    /\ UNCHANGED <<seen, recorded, feed, cycles, matched, todo, waiting,
                   userDelivered, priceVars, alerted, unreleased,
                   shadowed, regiven, unsettled>>

\* DeliverBatch hands over the first MaxBatch listings by score.
BatchDone ==
    /\ pc = "batch"
    /\ pc' = "cycle"
    /\ cur' = NoSearch
    /\ records' = {}
    /\ fresh' = [fresh EXCEPT ![cur] = {}]
    /\ UNCHANGED <<recorded, feed, cycles, matched, todo, waiting, dropped,
                   userDelivered, priceVars, announced, missed,
                   shadowed, regiven, unsettled>>
SendBatch(shown) ==
    /\ BatchDone
    /\ shown \subseteq fresh[cur]
    /\ shown = fresh[cur] \/ Cardinality(shown) = MaxBatch
    /\ Cardinality(shown) <= MaxBatch
    /\ alerted' = alerted \cup ({cur} \X shown)
    /\ informed' = informed \cup ({Owner[cur]} \X shown)
    /\ lost' = lost \cup ({cur} \X (fresh[cur] \ shown))
    /\ UNCHANGED <<seen, unreleased, faults>>

SendBatchMalformed ==
    /\ "malformed" \in Outcomes
    /\ BatchDone
    /\ fresh[cur] # {}
    /\ Fault
    /\ lost' = lost \cup ({cur} \X fresh[cur])
    /\ UNCHANGED <<seen, unreleased, alerted, informed>>

\* Any other error, a blocked recipient too, gives the claims back.
SendBatchFails(stuck) ==
    /\ {"fail", "blocked"} \cap Outcomes # {}
    /\ BatchDone
    /\ fresh[cur] # {}
    /\ faults < MaxFaults
    /\ stuck \subseteq fresh[cur]
    /\ faults' = faults + 1
    /\ seen' = seen \ ({cur} \X (fresh[cur] \ stuck))
    /\ unreleased' = unreleased \cup ({cur} \X stuck)
    /\ UNCHANGED <<lost, alerted, informed>>

-----------------------------------------------------------------------------
(* The end of the cycle *)

Cleared ==
    /\ pc' = "idle"
    /\ price' = [t \in Tokens |-> 0]
    /\ detail' = [t \in Tokens |-> "noKm"]
    /\ matched' = {}
    /\ todo' = {}
    /\ waiting' = {}
    /\ cur' = NoSearch
    /\ fresh' = [s \in Searches |-> {}]
    /\ dropped' = [s \in Searches |-> {}]
    /\ records' = {}
    /\ userDelivered' = {}
    /\ peeked' = [t \in Tokens |-> NotYet]
    /\ staged' = {}
    /\ persisted' = {}
    /\ persistFailed' = {}

\* RecordPrice refuses a price more than three times, or less than a third
\* of, the recorded one.
Implausible(old, new) == old > 0 /\ (new > 3 * old \/ 3 * new < old)

\* flushPendingPrices: tokens that no search persisted and some search failed
\* to persist keep their old price.
Flushable(t) == t \notin persistFailed \/ t \in persisted
FlushedNever(S) == recorded
Flushed(S) ==
    [t \in Tokens |->
        IF t \in S /\ Flushable(t) /\ ~Implausible(recorded[t], price[t])
        THEN price[t] ELSE recorded[t]]
Flush(failed) ==
    /\ pc = "cycle"
    /\ todo = {}
    /\ waiting = {}
    /\ failed \subseteq {t \in staged : Flushable(t)}
    /\ Failing(failed)
    /\ recorded' = Flushed(staged \ failed)
    /\ unsettled' = (unsettled \ staged) \cup failed \cup
                      {t \in staged : ~Flushable(t)
                                        \/ Implausible(recorded[t], price[t])}
    /\ Cleared
    /\ UNCHANGED <<seen, cycles, told, lost, unreleased, shadowed, regiven>>

\* The process dies; what it had in hand stays claimed.
Crash ==
    /\ pc # "idle"
    /\ Fault
    /\ lost' = lost \cup {k \in Keys : k[2] \in fresh[k[1]] \cup dropped[k[1]]}
    /\ unsettled' = unsettled \cup staged
    /\ Cleared
    /\ UNCHANGED <<seen, recorded, cycles, told, unreleased, shadowed, regiven>>

-----------------------------------------------------------------------------
(* The others *)

\* The API's ingest handler claims a key and alerts it.
Ingest(k) ==
    /\ k \notin seen
    /\ seen' = seen \cup {k}
    /\ alerted' = alerted \cup {k}
    /\ informed' = informed \cup {<<Owner[k[1]], k[2]>>}
    /\ UNCHANGED <<recorded, feed, cycles, pc, matched, todo, waiting, cur,
                   batchVars, userDelivered, priceVars, announced, missed,
                   fate, faults>>

CycleStep ==
    \/ \E s \in Searches, t \in Tokens : Match(s, t) \/ ClaimFails(s, t)
    \/ \E s \in Searches : \E stuck \in SUBSET fresh[s] : Process(s, stuck)
    \/ \E S \in SUBSET Tokens :
          \/ Persist(S) \/ PersistFails(S)
          \/ SendDrops(S) \/ SendDropsBlocked(S)
          \/ SendBatch(S) \/ SendBatchFails(S)
          \/ Flush(S)
    \/ SendBatchMalformed

Next ==
    \/ \E M \in SUBSET Keys, prices \in [Tokens -> Prices],
          details \in [Tokens -> Details] : StartCycle(M, prices, details)
    \/ CycleStep
    \/ Crash
    \/ \E k \in Keys : Ingest(k)

Spec == Init /\ [][Next]_vars

-----------------------------------------------------------------------------
(* Properties *)

InHand(k) == k[2] \in fresh[k[1]] \cup dropped[k[1]]
Informed(k) == <<Owner[k[1]], k[2]>> \in informed

\* A claim always has a reason: the cycle has the listing in hand, its user
\* was alerted, the listing was left to another search of the same user, or
\* the code gave it up (deferred, cut off, malformed, blocked, crashed) or
\* failed to release it.
ClaimAccounted ==
    \A k \in seen :
        InHand(k) \/ Informed(k) \/ k \in lost \cup unreleased \cup shadowed

\* A listing is in at most one message per user and cycle, whichever of the
\* user's overlapping searches match it, and whether it is new or cheaper.
OneMessagePerListing ==
    \A j, k \in Keys :
        /\ InHand(j) /\ InHand(k)
        /\ j[2] = k[2]
        /\ Owner[j[1]] = Owner[k[1]]
        => j = k

\* Whoever alerted a key, its claim stands, so that nobody alerts it again;
\* except that a failed persist releases the claims of listings the km filter
\* had let go, which the ingest handler may have taken meanwhile.
AlertedStaysClaimed == alerted \subseteq seen \cup regiven

\* A user is told of the same drop twice only if its price was not written in
\* between: a crash, a failed or skipped flush, or a refused price.
RepeatedDropHasCause ==
    \A s \in Searches : \A t \in dropped[s] :
        announced[Owner[s], t] = price[t] => t \in unsettled

\* A lower price is written only after every user it matched was told, or
\* could not be: no drop is swallowed by another search's, or another
\* user's, observation of the same price.
NoDropSwallowed ==
    [][\A k \in matched :
          LET t == k[2] IN
          recorded[t] > 0 /\ recorded'[t] < recorded[t] =>
             \/ announced[Owner[k[1]], t] = recorded'[t]
             \/ <<Owner[k[1]], t>> \in missed]_vars

-----------------------------------------------------------------------------
(* What comments in the code say *)

\* recordClaimReleaseFailure: "a failed dedup-claim release - the only
\* permanent listing-loss path".  Once a cycle is over, the user has been told
\* of every claimed listing whose release did not fail.
OnlyReleaseFailuresLose ==
    pc = "idle" => \A k \in seen : Informed(k) \/ k \in unreleased

\* RecordPrice: an implausible swing "is not reported as a change - so it
\* cannot fire a price-drop alert".
ImplausibleNeverFires ==
    \A s \in Searches : \A t \in dropped[s] : ~Implausible(peeked[t], price[t])
=============================================================================
