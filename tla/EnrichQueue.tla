---------------------------- MODULE EnrichQueue ----------------------------
(***************************************************************************)
(* Enrichment of listings: the scheduler publishes a request for a listing *)
(* that lacks details to the Redis stream carwatch:enrich, unless the      *)
(* listing's token is in the set carwatch:enrich:pending; enricher workers *)
(* read the stream through one consumer group, fetch the item page, fill   *)
(* the row and take the token off the set.                                 *)
(*                                                                         *)
(* The stream and the set are changed by separate Redis calls.  A step is  *)
(* one call to Redis or the handling of one request up to its answer.      *)
(* Entries of the stream are taken from a pool and reused once nobody      *)
(* refers to them, so publishing is not bounded.                           *)
(***************************************************************************)
EXTENDS Naturals, Sequences, FiniteSets, SequencesExt, Infra

CONSTANTS Tokens, None,
          Workers, NoWorker,
          Entries,          \* pool of stream entries
          Pages,            \* what an item page may yield: sets of fields
          Unowned,          \* tokens whose feed row names no ownership
          StreamMaxLen,     \* EnrichStreamMaxLen (50000)
          Watermark,        \* enrichBackfillWatermark (80% of it)
          BackfillLimit,    \* listings a backfill asks for (30)
          ReadCount,        \* COUNT of XREADGROUP (10)
          MaxRetries,       \* enrichMaxRetries (5)
          MaxAttempts,      \* attempts after which a token is given up (10)
          ResetBelow        \* attempts below which a reset clears them (30)

ASSUME EnrichConstants ==
    /\ NoWorker \notin Workers /\ None \notin Tokens \cup Entries
    /\ Unowned \subseteq Tokens
    /\ StreamMaxLen \in Nat \ {0} /\ Watermark \in Nat /\ BackfillLimit \in Nat \ {0}
    /\ ReadCount \in Nat \ {0} /\ MaxRetries \in Nat \ {0}
    /\ MaxAttempts \in Nat \ {0} /\ ResetBelow \in Nat
    /\ MaxAttempts <= ResetBelow

\* Details of a listing: its km, its city and image, its body type.
Fields == {"km", "place", "body"}

VARIABLES
    \* Redis
    stream,         \* entries in the stream, oldest first
    token,          \* entry -> the listing it asks for
    unread,         \* entries the group has not delivered
    owner,          \* entry -> worker it is pending for, or NoWorker
    count,          \* entry -> delivery count
    idle,           \* pending entries nobody touched for long enough to claim
    pendingSet,     \* carwatch:enrich:pending
    \* listing_history
    found,          \* tokens that have a row, by first_seen_at
    have,           \* token -> details in its row
    attempts,       \* token -> enrich_attempts, up to ResetBelow
    resting,        \* tokens with last_enrich_at less than an hour ago
    \* the scheduler
    step,           \* "idle", "check", "add", "mark", "purge", "unmark"
    todo,           \* tokens to publish, or entries to purge
    at,             \* the token being published or purged
    \* each worker
    pc,             \* "ready", "fetch", "ack", "dead", "forget"
    batch,          \* entries in hand
    dead, claim,    \* what a scan of the pending list found
    cur,            \* the entry being handled
    \* history
    leaked          \* tokens left in the set with a known cause

redis == <<stream, token, unread, owner, count, idle>>
rowVars == <<found, have, attempts, resting>>
schedVars == <<step, todo, at>>
workerVars == <<pc, batch, dead, claim, cur>>
vars == <<redis, pendingSet, rowVars, schedVars, workerVars, leaked, faults>>

rows == ToSet(found)

Least(a, b) == IF a <= b THEN a ELSE b

TypeOK ==
    /\ stream \in Seq(Entries)
    /\ token \in [Entries -> Tokens \cup {None}]
    /\ unread \subseteq Entries
    /\ owner \in [Entries -> Workers \cup {NoWorker}]
    /\ count \in [Entries -> Nat] /\ idle \subseteq Entries
    /\ pendingSet \subseteq Tokens /\ found \in Seq(Tokens)
    /\ have \in [Tokens -> SUBSET Fields]
    /\ attempts \in [Tokens -> 0..ResetBelow] /\ resting \subseteq Tokens
    /\ step \in {"idle", "check", "add", "mark", "purge", "unmark"}
    /\ at \in Tokens \cup {None}
    /\ pc \in [Workers -> {"ready", "fetch", "ack", "dead", "forget"}]
    /\ \A w \in Workers : batch[w] \cup dead[w] \cup claim[w] \subseteq Entries
    /\ cur \in [Workers -> Entries \cup {None}]
    /\ leaked \subseteq Tokens

Init ==
    /\ stream = << >> /\ unread = {} /\ pendingSet = {} /\ leaked = {}
    /\ token = [e \in Entries |-> None]
    /\ owner = [e \in Entries |-> NoWorker]
    /\ count = [e \in Entries |-> 0] /\ idle = {}
    /\ found = << >> /\ have = [t \in Tokens |-> {}]
    /\ attempts = [t \in Tokens |-> 0] /\ resting = {}
    /\ step = "idle" /\ todo = {} /\ at = None
    /\ pc = [w \in Workers |-> "ready"]
    /\ batch = [w \in Workers |-> {}] /\ dead = batch /\ claim = batch
    /\ cur = [w \in Workers |-> None]
    /\ InfraInit

-----------------------------------------------------------------------------
(* Redis *)

Stored == ToSet(stream)
InHand(e) == \E w \in Workers :
                e \in batch[w] \cup dead[w] \cup claim[w] \cup {cur[w]}
Free == {e \in Entries : /\ e \notin Stored \cup unread \cup todo
                         /\ owner[e] = NoWorker /\ ~InHand(e)}

\* A request for t that somebody will still read, claim or finish.
Live(t) == \E e \in Entries :
              token[e] = t /\ (e \in unread \/ owner[e] # NoWorker)

\* The marked tokens that lose their last live request with the entries S.
LastOf(S) == {t \in pendingSet :
                 /\ \E e \in S : token[e] = t
                 /\ \A e \in Entries \ S :
                       token[e] = t => e \notin unread /\ owner[e] = NoWorker}

\* XADD: append, and evict the oldest entries beyond MAXLEN; one that is
\* pending stays in the pending list.
XAdd(t) ==
    LET e == CHOOSE f \in Free : TRUE
        all == Append(stream, e)
        over == IF Len(all) > StreamMaxLen THEN Len(all) - StreamMaxLen ELSE 0
        gone == ToSet(SubSeq(all, 1, over))
    IN /\ Free # {}
       /\ stream' = SubSeq(all, over + 1, Len(all))
       /\ token' = [token EXCEPT ![e] = t]
       /\ unread' = (unread \cup {e}) \ gone
       /\ leaked' = leaked \cup LastOf(gone \cap unread)
       /\ UNCHANGED <<owner, count, idle>>

\* XACK: off the pending list.
XAck(e) ==
    /\ owner' = [owner EXCEPT ![e] = NoWorker]
    /\ count' = [count EXCEPT ![e] = 0]
    /\ idle' = idle \ {e}
    /\ UNCHANGED <<stream, token, unread>>

\* SREM carwatch:enrich:pending.
Forget(t) ==
    /\ pendingSet' = pendingSet \ {t}
    /\ leaked' = leaked \ {t}

Age(e) ==
    /\ owner[e] # NoWorker /\ e \notin idle
    /\ idle' = idle \cup {e}
    /\ UNCHANGED <<stream, token, unread, owner, count, pendingSet, rowVars,
                   schedVars, workerVars, leaked, faults>>

-----------------------------------------------------------------------------
(* listing_history *)

Core == {"km", "place"}

\* unenrichedBacklogWhereSQL; a listing found less than a week ago, for a search
\* that is active and wants its price and year.
Due(t) ==
    /\ t \in rows /\ t \notin resting
    /\ have[t] # Fields \/ t \in Unowned
    /\ attempts[t] < MaxAttempts

\* SaveListings puts a row in; what it knows of the listing stays unless the
\* row was dropped.
Save(t) ==
    /\ t \notin rows
    /\ found' = Append(found, t)
    /\ have' = [have EXCEPT ![t] = {}]
    /\ attempts' = [attempts EXCEPT ![t] = 0]
    /\ resting' = resting \ {t}
    /\ UNCHANGED <<redis, pendingSet, schedVars, workerVars, leaked, faults>>

\* An hour has passed since last_enrich_at.
Rest(t) ==
    /\ t \in resting
    /\ resting' = resting \ {t}
    /\ UNCHANGED <<redis, pendingSet, found, have, attempts, schedVars,
                   workerVars, leaked, faults>>

\* IncrementEnrichAttempt.
Incremented(a, t) == IF t \in rows THEN [a EXCEPT ![t] = Least(@ + 1, ResetBelow)]
                     ELSE a

\* mutant: a missing body type counts as a missing field
ResetAll(h, a) ==
    [t \in Tokens |-> IF t \in rows /\ a[t] < ResetBelow /\ h[t] # Fields THEN 0 ELSE a[t]]

\* ResetUnenrichedAttempts, given the details and attempts of all rows.  A
\* listing that lacks only its body type keeps its attempts.
ResetAttempts(h, a) ==
    [t \in Tokens |-> IF /\ t \in rows /\ a[t] < ResetBelow
                         /\ ~(Core \subseteq h[t]) \/ t \in Unowned
                      THEN 0 ELSE a[t]]

-----------------------------------------------------------------------------
(* The scheduler *)

Publish(S) ==
    /\ step = "idle" /\ S # {}
    /\ step' = "check" /\ todo' = S
    /\ UNCHANGED <<redis, pendingSet, rowVars, at, workerVars, leaked>>

\* publishEnrichRequests: matched listings without km, city or image, before
\* they are saved.  If the lookup of exhausted tokens fails, none are left out.
PublishMatched(S) ==
    /\ \A t \in S : ~(Core \subseteq have[t])
    /\ IF \A t \in S : attempts[t] < MaxAttempts THEN NoFault ELSE Fault
    /\ Publish(S)

\* ListUnenrichedTokens: the newest due listings, and no others, however often
\* they were asked for before.
Newer(t) == {u \in rows : Due(u) /\ \E i, j \in DOMAIN found : i < j /\ found[i] = t /\ found[j] = u}
Newest == {t \in rows : Due(t) /\ Cardinality(Newer(t)) < BackfillLimit}

\* backfillUnenrichedListings: not while the stream is long.
Backfill ==
    /\ Len(stream) < Watermark
    /\ NoFault
    /\ Publish(Newest)

\* PublishEnrichDedup: SISMEMBER, XADD, SADD.  A token whose call fails is
\* left out, whether or not the call took effect.
Check(t) ==
    /\ step = "check" /\ t \in todo
    /\ IF t \in pendingSet
       THEN todo' = todo \ {t} /\ UNCHANGED <<step, at>>
       ELSE step' = "add" /\ at' = t /\ UNCHANGED todo
    /\ UNCHANGED <<redis, pendingSet, rowVars, workerVars, leaked, faults>>

Published == todo' = todo \ {at} /\ at' = None /\ step' = "check"

Add ==
    /\ step = "add"
    /\ XAdd(at)
    /\ \/ step' = "mark" /\ UNCHANGED <<todo, at>> /\ NoFault
       \/ Published /\ Fault
    /\ UNCHANGED <<pendingSet, rowVars, workerVars>>

AddFails ==
    /\ step = "add" /\ Fault
    /\ Published
    /\ UNCHANGED <<redis, pendingSet, rowVars, workerVars, leaked>>

\* A worker may have finished the request before its token is in the set.
Mark ==
    /\ step = "mark"
    /\ Published
    /\ \/ /\ pendingSet' = pendingSet \cup {at}
          /\ leaked' = IF Live(at) THEN leaked ELSE leaked \cup {at}
          /\ NoFault
       \/ Fault /\ UNCHANGED <<pendingSet, leaked>>
    /\ UNCHANGED <<redis, rowVars, workerVars>>

\* purgeStaleEnrichMessages: of each token with km, city and image, the last
\* entry is deleted, delivered or not, and the token leaves the set.
Purgeable ==
    {e \in Stored : /\ Core \subseteq have[token[e]] /\ token[e] \in rows
                    /\ \A i, j \in 1..Len(stream) :
                          stream[i] = e /\ token[stream[j]] = token[e] => j <= i}
PurgeScan ==
    /\ step = "idle" /\ Purgeable # {}
    /\ step' = "purge" /\ todo' = Purgeable
    /\ UNCHANGED <<redis, pendingSet, rowVars, at, workerVars, leaked, faults>>

PurgeDelete(e) ==
    /\ step = "purge" /\ e \in todo
    /\ stream' = Remove(stream, e) /\ unread' = unread \ {e}
    /\ todo' = todo \ {e} /\ at' = token[e] /\ step' = "unmark"
    /\ UNCHANGED <<token, owner, count, idle, pendingSet, rowVars, workerVars,
                   leaked, faults>>

Unmark ==
    /\ step = "unmark"
    /\ Forget(at) /\ at' = None /\ step' = "purge"
    /\ UNCHANGED <<redis, rowVars, todo, workerVars, faults>>

\* The loops end; a failed purge ends early, a crash ends anything.
CycleDone ==
    /\ step \in {"check", "purge"} /\ todo = {}
    /\ step' = "idle"
    /\ UNCHANGED <<redis, pendingSet, rowVars, todo, at, workerVars, leaked, faults>>

SchedulerFails ==
    /\ step # "idle" /\ Fault
    /\ step' = "idle" /\ todo' = {} /\ at' = None
    /\ leaked' = IF step = "unmark" /\ at \in pendingSet /\ ~Live(at)
                 THEN leaked \cup {at} ELSE leaked
    /\ UNCHANGED <<redis, pendingSet, rowVars, workerVars>>

-----------------------------------------------------------------------------
(* A worker: broker.EnrichConsumer with enricher.Worker *)

Ready(w) == pc[w] = "ready"
AtRest(w) == Ready(w) /\ batch[w] = {} /\ dead[w] = {} /\ claim[w] = {}
Goto(w, p, e) == pc' = [pc EXCEPT ![w] = p] /\ cur' = [cur EXCEPT ![w] = e]

\* Run: XREADGROUP.
Position(e) == CHOOSE i \in 1..Len(stream) : stream[i] = e
NextUnread == {e \in unread : Cardinality({f \in unread :
                  Position(f) < Position(e)}) < ReadCount}
Read(w) ==
    /\ AtRest(w) /\ unread # {}
    /\ batch' = [batch EXCEPT ![w] = NextUnread]
    /\ unread' = unread \ NextUnread
    /\ owner' = [e \in Entries |-> IF e \in NextUnread THEN w ELSE owner[e]]
    /\ count' = [e \in Entries |-> IF e \in NextUnread THEN 1 ELSE count[e]]
    /\ idle' = idle \ NextUnread
    /\ UNCHANGED <<stream, token, pendingSet, rowVars, schedVars, pc, dead, claim, cur,
                   leaked, faults>>

\* reclaimPending and reclaimOrphans: XPENDING, then dead-letter what was
\* delivered too often and claim the rest.
Scannable(w) == {{e \in idle : owner[e] = w},
                 {e \in idle : owner[e] \notin {w, NoWorker}}}
Scan(w, S) ==
    /\ AtRest(w) /\ S # {}
    /\ dead' = [dead EXCEPT ![w] = {e \in S : count[e] >= MaxRetries}]
    /\ claim' = [claim EXCEPT ![w] = {e \in S : count[e] < MaxRetries}]
    /\ UNCHANGED <<redis, pendingSet, rowVars, schedVars, pc, batch, cur, leaked, faults>>

\* XCLAIM: entries no longer in the stream leave the pending list instead.
Claim(w) ==
    LET S == {e \in claim[w] : owner[e] # NoWorker /\ e \in idle}
        lost == S \ Stored
    IN /\ Ready(w) /\ dead[w] = {} /\ claim[w] # {}
       /\ claim' = [claim EXCEPT ![w] = {}]
       /\ batch' = [batch EXCEPT ![w] = S \cap Stored]
       /\ owner' = [e \in Entries |-> IF e \in lost THEN NoWorker
                                      ELSE IF e \in S THEN w ELSE owner[e]]
       /\ count' = [e \in Entries |-> IF e \in lost THEN 0
                                      ELSE IF e \in S THEN count[e] + 1 ELSE count[e]]
       /\ idle' = idle \ S
       /\ leaked' = leaked \cup LastOf(lost)
       /\ UNCHANGED <<stream, token, unread, pendingSet, rowVars, schedVars, pc, dead, cur, faults>>

\* Drain at shutdown: everything pending for w that is still stored, without
\* claiming it.
Drain(w) ==
    LET mine == {e \in Entries : owner[e] = w} IN
    /\ AtRest(w) /\ mine # {} /\ Fault
    /\ dead' = [dead EXCEPT ![w] = {e \in mine : count[e] >= MaxRetries}]
    /\ batch' = [batch EXCEPT ![w] = {e \in mine \cap Stored : count[e] < MaxRetries}]
    /\ UNCHANGED <<redis, pendingSet, rowVars, schedVars, pc, claim, cur, leaked>>

\* HandleRequest up to the fetch: complete details are skipped, a token
\* without a row is a permanent failure, and so is any error of
\* LookupListingIdentity, asked when the row has no details yet.
Take(w, e) ==
    /\ Ready(w) /\ dead[w] = {} /\ claim[w] = {} /\ e \in batch[w]
    /\ batch' = [batch EXCEPT ![w] = @ \ {e}]
    /\ \/ /\ Goto(w, IF token[e] \notin rows THEN "dead"
                     ELSE IF have[token[e]] = Fields THEN "ack"
                     ELSE "fetch", e)
          /\ NoFault
       \/ have[token[e]] \cap Core = {} /\ Goto(w, "dead", e) /\ Fault
    /\ UNCHANGED <<redis, pendingSet, rowVars, schedVars, dead, claim, leaked>>

OnlyBodyMissing(t) == t \in rows /\ have[t] = Core /\ t \notin Unowned

\* The page came: fill what is missing; a page with km, city and image may
\* reset the attempts of other listings (at most every 5 minutes); count the
\* attempt if the page has no km, or everything but the body type.
Counts(page) == "km" \notin page \/ page = Core
Counted(a, t) ==
    \/ attempts' = Incremented(a, t) /\ resting' = resting \cup ({t} \cap rows) /\ NoFault
    \/ attempts' = a /\ UNCHANGED resting /\ Fault
FetchPage(w, page) ==
    LET t == token[cur[w]] IN
    /\ pc[w] = "fetch"
    /\ have' = [have EXCEPT ![t] = IF t \in rows THEN @ \cup page ELSE @]
    /\ \E before \in {attempts} \cup (IF Core \subseteq page
                                      THEN {ResetAttempts(have', attempts)} ELSE {}) :
          IF Counts(page) THEN Counted(before, t)
          ELSE attempts' = before /\ UNCHANGED resting /\ NoFault
    /\ Goto(w, "ack", cur[w])
    /\ UNCHANGED <<redis, pendingSet, found, schedVars, batch, dead, claim, leaked>>

\* A challenge or an error: the request stays pending.  Gone at the source:
\* DropListingByToken takes the row, unless it is bookmarked, and the request
\* is dead-lettered.
FetchFails(w) ==
    LET t == token[cur[w]] IN
    /\ pc[w] = "fetch"
    /\ Counted(attempts, t)
    /\ \/ Goto(w, "ready", None) /\ UNCHANGED found
       \/ Goto(w, "dead", cur[w]) /\ found' \in {found, Remove(found, t)}
    /\ UNCHANGED <<redis, pendingSet, have, schedVars, batch, dead, claim, leaked>>

\* LookupEnrichmentData or BackfillListings fails: the request stays pending.
HandleFails(w) ==
    /\ pc[w] = "fetch" /\ Fault
    /\ Goto(w, "ready", None)
    /\ UNCHANGED <<redis, pendingSet, rowVars, schedVars, batch, dead, claim, leaked>>

DeadLetterNext(w, e) ==
    /\ Ready(w) /\ e \in dead[w]
    /\ dead' = [dead EXCEPT ![w] = @ \ {e}]
    /\ Goto(w, "dead", e)
    /\ UNCHANGED <<redis, pendingSet, rowVars, schedVars, batch, claim, leaked, faults>>

\* deadLetter: copied, then acked and taken off the set ...
DeadLetter(w) ==
    /\ pc[w] = "dead" /\ cur[w] \in Stored
    /\ Goto(w, "ack", cur[w])
    /\ UNCHANGED <<redis, pendingSet, rowVars, schedVars, batch, dead, claim, leaked, faults>>

\* ... but an entry that is gone, or cannot be read, is acked only, its token
\* being unknown ...
DeadLetterBlind(w) ==
    /\ pc[w] = "dead"
    /\ IF cur[w] \in Stored THEN Fault ELSE NoFault
    /\ XAck(cur[w])
    /\ leaked' = leaked \cup LastOf({cur[w]})
    /\ Goto(w, "ready", None)
    /\ UNCHANGED <<pendingSet, rowVars, schedVars, batch, dead, claim>>

\* ... and one that cannot be copied stays pending.
DeadLetterFails(w) ==
    /\ pc[w] = "dead" /\ cur[w] \in Stored /\ Fault
    /\ Goto(w, "ready", None)
    /\ UNCHANGED <<redis, pendingSet, rowVars, schedVars, batch, dead, claim, leaked>>

AckOnly(w) ==
    /\ pc[w] = "ack"
    /\ XAck(cur[w])
    /\ Goto(w, "ready", None)
    /\ UNCHANGED <<pendingSet, rowVars, schedVars, batch, dead, claim, leaked, faults>>
Ack(w) ==
    /\ pc[w] = "ack"
    /\ \/ XAck(cur[w]) /\ NoFault
       \/ UNCHANGED redis /\ Fault
    /\ Goto(w, "forget", cur[w])
    /\ UNCHANGED <<pendingSet, rowVars, schedVars, batch, dead, claim, leaked>>

RemoveNothing(w) ==
    /\ pc[w] = "forget"
    /\ Goto(w, "ready", None)
    /\ UNCHANGED <<redis, pendingSet, rowVars, schedVars, batch, dead, claim, leaked, faults>>
RemovePending(w) ==
    /\ pc[w] = "forget"
    /\ \/ Forget(token[cur[w]]) /\ NoFault
       \/ UNCHANGED pendingSet /\ leaked' = leaked \cup LastOf({cur[w]}) /\ Fault
    /\ Goto(w, "ready", None)
    /\ UNCHANGED <<redis, rowVars, schedVars, batch, dead, claim>>

\* The worker dies and starts again under the same name.
Crash(w) ==
    /\ ~AtRest(w) /\ Fault
    /\ leaked' = IF pc[w] = "forget" THEN leaked \cup LastOf({cur[w]}) ELSE leaked
    /\ Goto(w, "ready", None)
    /\ batch' = [batch EXCEPT ![w] = {}]
    /\ dead' = [dead EXCEPT ![w] = {}]
    /\ claim' = [claim EXCEPT ![w] = {}]
    /\ UNCHANGED <<redis, pendingSet, rowVars, schedVars>>

-----------------------------------------------------------------------------
Handle(w) ==
    \/ \E e \in Entries : Take(w, e) \/ DeadLetterNext(w, e)
    \/ \E p \in Pages : FetchPage(w, p)
    \/ FetchFails(w) \/ HandleFails(w)
    \/ Claim(w) \/ DeadLetter(w) \/ DeadLetterBlind(w) \/ DeadLetterFails(w)
    \/ Ack(w) \/ RemovePending(w)

Worker(w) ==
    \/ Read(w) \/ Drain(w) \/ Crash(w) \/ Handle(w)
    \/ \E S \in Scannable(w) : Scan(w, S)

Publishing ==
    \/ \E t \in Tokens : Check(t)
    \/ \E e \in Entries : PurgeDelete(e)
    \/ Add \/ AddFails \/ Mark \/ Unmark \/ CycleDone

Scheduler ==
    \/ \E S \in SUBSET Tokens : PublishMatched(S)
    \/ Backfill \/ PurgeScan \/ Publishing \/ SchedulerFails

Next ==
    \/ Scheduler
    \/ \E w \in Workers : Worker(w)
    \/ \E t \in Tokens : Save(t) \/ Rest(t)
    \/ \E e \in Entries : Age(e)

Spec == Init /\ [][Next]_vars

\* A cycle goes on and calls the backfill each time; the workers are
\* supervised and poll; pending entries grow idle and hours pass.
Fairness ==
    /\ WF_vars(Publishing)
    /\ SF_vars(Backfill)
    /\ \A w \in Workers :
          /\ WF_vars(Handle(w))
          /\ SF_vars(Read(w))
          /\ SF_vars(\E S \in Scannable(w) : Scan(w, S))
    /\ \A e \in Entries : WF_vars(Age(e))

-----------------------------------------------------------------------------
(* Properties *)

\* A token in the pending set is never published again, so it must belong to
\* a request that is read, claimed or finished later.  It is left there only
\* by a cause the history names: the request was evicted, or finished before
\* SADD, or its token could not be removed.
PendingAccounted ==
    \A t \in pendingSet :
        \/ Live(t) \/ t \in leaked
        \/ \E w \in Workers : pc[w] = "forget" /\ token[cur[w]] = t
        \/ step = "unmark" /\ at = t

\* A listing that lacks only its body type may never get one (many pages name
\* none), so nothing but its own return as a new row clears its attempts: the
\* reset that a good page of another listing causes must leave it out.
BodyAttemptsKept ==
    [][\A t \in Tokens :
          OnlyBodyMissing(t) /\ OnlyBodyMissing(t)' => attempts'[t] >= attempts[t]]_vars

\* The backfill reaches every listing that lacks details, unless its token
\* leaked, the stream stays above the watermark, or as many newer listings as a
\* backfill asks for come before it: each of these lacks details too, be it that
\* they keep coming or that their own tokens leaked.
BacklogServed ==
    \A t \in Tokens :
        Due(t) ~> \/ ~Due(t) \/ t \in leaked \/ Len(stream) >= Watermark
                  \/ Cardinality(Newer(t)) >= BackfillLimit

\* Every listing worth another attempt gets its turn, and none gets it for ever.
BacklogSound == BacklogServed /\ BodyAttemptsKept
=============================================================================
