--------------------------- MODULE NotifierWorker ---------------------------
(***************************************************************************)
(* The notifier worker: broker.Consumer (internal/broker/consumer.go) with *)
(* the hooks cmd/notifier/main.go gives it.  A worker is one sequential    *)
(* process; every call it makes to Redis, PostgreSQL or a notifier is one  *)
(* step, so that workers, producers, shutdowns and crashes interleave      *)
(* between the calls.                                                      *)
(*                                                                         *)
(* pc     "loop"     the select / XREADGROUP loop of Run                   *)
(*        "deliver"  processMessage over a batch read or claimed           *)
(*        "own"      reclaimPending, after its XPENDING                    *)
(*        "orphan"   reclaimOrphans, after its XPENDING                    *)
(*        "drain"    Drain, after its XPENDING                             *)
(*        "release"  the dead-letter hook, releasing claims one by one     *)
(*        "bury"     deadLetter, about to XADD to the dead-letter stream   *)
(*        "ack"      about to XACK                                         *)
(*        "record"   the delivery hook, about to write the ledger          *)
(*        "down"     not running                                           *)
(***************************************************************************)
EXTENDS AlertStream, DedupClaims, Infra

CONSTANTS MaxRetries,       \* broker.MaxRetries (3)
          MaxStops,         \* bound: SIGTERMs sent to workers
          Outcomes          \* what a notify call may come back with

\* "ok" delivered; "fail" an error, nothing shown; "failShown" an error after
\* the user saw (part of) it; "blocked" ErrRecipientBlocked or
\* ErrNoChannelNotifier; "noTarget" ErrNoDelivery.
AllOutcomes == {"ok", "fail", "failShown", "blocked", "noTarget"}

ASSUME WorkerConstants ==
    /\ MaxRetries \in Nat \ {0}
    /\ MaxStops \in Nat
    /\ Outcomes \subseteq AllOutcomes

VARIABLES pc,               \* see above
          ctx,              \* "live", "cancelled" (after SIGTERM), "drain"
          bury,             \* ids the last XPENDING said to dead-letter
          retry,            \* ids the last XPENDING said to XCLAIM
          work,             \* messages in memory, still to be processed
          cur,              \* message being settled, 0 if none
          left,             \* tokens of cur whose claim is still to release
          status,           \* how cur is being settled
          ret,              \* where to go on once cur is done with
          stops,            \* SIGTERMs so far
          attempts,         \* history: notify calls made for an id
          told,             \* history: how often an alert reached the user
          dead,             \* ids in the dead-letter stream
          ledger            \* notification_deliveries, "instant" rows

listVars == <<bury, retry, work>>
settleVars == <<cur, left, status, ret>>
historyVars == <<attempts, told>>
recordVars == <<dead, ledger>>
workerVars == <<pc, ctx, listVars, settleVars, stops, historyVars, recordVars>>

PCs == {"loop", "deliver", "own", "orphan", "drain",
        "release", "bury", "ack", "record", "down"}
Statuses == {"none", "sent", "blocked", "noTarget", "dead_lettered", "gone"}
Rows == {Chat(r) : r \in Routes} \X Tokens
Entry == [status : {"none", "sent", "dropped", "dead_lettered"},
          batch : Ids \cup {0}]

WorkerType ==
    /\ pc \in [Consumers -> PCs]
    /\ ctx \in [Consumers -> {"live", "cancelled", "drain"}]
    /\ bury \in [Consumers -> SUBSET Ids]
    /\ retry \in [Consumers -> SUBSET Ids]
    /\ work \in [Consumers -> SUBSET Ids]
    /\ cur \in [Consumers -> Ids \cup {0}]
    /\ left \in [Consumers -> SUBSET Tokens]
    /\ status \in [Consumers -> Statuses]
    /\ ret \in [Consumers -> PCs]
    /\ stops \in Nat
    /\ attempts \in [Ids -> Nat]
    /\ told \in [Ids -> Nat]
    /\ dead \subseteq Ids
    /\ ledger \in [Rows -> Entry]

WorkerInit ==
    /\ pc = [c \in Consumers |-> "loop"]
    /\ ctx = [c \in Consumers |-> "live"]
    /\ bury = [c \in Consumers |-> {}]
    /\ retry = [c \in Consumers |-> {}]
    /\ work = [c \in Consumers |-> {}]
    /\ cur = [c \in Consumers |-> 0]
    /\ left = [c \in Consumers |-> {}]
    /\ status = [c \in Consumers |-> "none"]
    /\ ret = [c \in Consumers |-> "loop"]
    /\ stops = 0
    /\ attempts = [i \in Ids |-> 0]
    /\ told = [i \in Ids |-> 0]
    /\ dead = {}
    /\ ledger = [row \in Rows |-> [status |-> "none", batch |-> 0]]

-----------------------------------------------------------------------------
(* Helpers *)

AlertKeysOf(i) == KeysOf(log[i].route, log[i].tokens)

\* A call made with the worker's context: it fails once Run's context is
\* cancelled, and may fail by a fault at any time.
CallOk(c) == ctx[c] # "cancelled" /\ NoFault
CallFails(c) == (ctx[c] = "cancelled" /\ NoFault) \/ Fault

Goto(c, label) == pc' = [pc EXCEPT ![c] = label]

\* XPENDING's RetryCount against MaxRetries: dead-letter rather than retry.
ExhaustedOffByOne(i) == count[i] > MaxRetries
Exhausted(i) == count[i] >= MaxRetries

\* The idle threshold of reclaimPending and of reclaimOrphans.
MinIdleTooLong(label) == 3
MinIdle(label) == IF label = "orphan" THEN 2 ELSE 1

\* The message the worker's loops come to next: XREADGROUP, XPENDING and
\* XCLAIM all answer in id order, and bury and work are never both in use
\* except by Drain, which goes through both in that order.
IsNext(c, i) == \A j \in bury[c] \cup work[c] : i <= j

\* The worker holds the message and will act on it without asking Redis again.
InHand(c, i) == i \in bury[c] \/ i \in work[c] \/ i = cur[c]
Contested(c, i) == ~Pending(i) \/ \E d \in Consumers \ {c} : InHand(d, i)

\* Keys of cur that the worker has already shown or given back while the
\* message is not acked: if it stops here, they come up again.
Dangling(c) ==
    CASE pc[c] = "release" ->
           KeysOf(log[cur[c]].route, log[cur[c]].tokens \ left[c])
      [] pc[c] \in {"bury", "ack"} /\ status[c] \notin {"noTarget", "gone"} ->
           AlertKeysOf(cur[c])
      [] OTHER -> {}

\* Begin to settle message i; continue at ret[c] when it is done.
Settle(c, i, outcome, label) ==
    /\ cur' = [cur EXCEPT ![c] = i]
    /\ status' = [status EXCEPT ![c] = outcome]
    /\ ret' = [ret EXCEPT ![c] = pc[c]]
    /\ Goto(c, label)

\* The handler of cur returns to its caller.
Return(c) ==
    /\ cur' = [cur EXCEPT ![c] = 0]
    /\ left' = [left EXCEPT ![c] = {}]
    /\ status' = [status EXCEPT ![c] = "none"]
    /\ ret' = [ret EXCEPT ![c] = "loop"]
    /\ Goto(c, ret[c])

\* After the dead-letter hook: deadLetter still has to XADD the alert to the
\* dead-letter stream, a dropped alert is acked at once.
AfterHook(outcome) == IF outcome = "dead_lettered" THEN "bury" ELSE "ack"

\* Start the dead-letter hook on message i: nothing to do without tokens.
RunHook(c, i, outcome) ==
    /\ left' = [left EXCEPT ![c] = log[i].tokens]
    /\ Settle(c, i, outcome,
              IF log[i].tokens = {} THEN AfterHook(outcome) ELSE "release")

-----------------------------------------------------------------------------
(* Run: read new messages *)

\* XREADGROUP returns a batch.
Read(c) ==
    /\ pc[c] = "loop" /\ CallOk(c)
    /\ \E batch \in SUBSET Ids :
          /\ XReadGroup(c, batch)
          /\ work' = [work EXCEPT ![c] = batch]
    /\ Goto(c, "deliver")
    /\ UNCHANGED <<ctx, bury, retry, settleVars, stops, historyVars,
                   recordVars, dedupVars>>

\* The reply to XREADGROUP is lost: the entries are pending for c, which
\* does not know of them.
ReadLost(c) ==
    /\ pc[c] = "loop" /\ ctx[c] = "live" /\ Fault
    /\ \E batch \in SUBSET Ids : XReadGroup(c, batch)
    /\ UNCHANGED <<workerVars, dedupVars>>

\* The batch is done: back to the loop.
FinishBatch(c) ==
    /\ pc[c] = "deliver" /\ work[c] = {}
    /\ Goto(c, "loop")
    /\ UNCHANGED <<ctx, listVars, settleVars, stops, historyVars, recordVars,
                   streamVars, dedupVars, faults>>

-----------------------------------------------------------------------------
(* reclaimPending and reclaimOrphans *)

\* The XPENDING scan sorts what it finds by the counts it read; the calls
\* that follow rely on that snapshot.
Sort(c, found, label) ==
    /\ found # {}
    /\ bury' = [bury EXCEPT ![c] = {i \in found : Exhausted(i)}]
    /\ retry' = [retry EXCEPT ![c] = {i \in found : ~Exhausted(i)}]
    /\ Goto(c, label)
    /\ UNCHANGED <<ctx, work, settleVars, stops, historyVars, recordVars,
                   streamVars, dedupVars>>

ScanOwn(c) ==
    /\ pc[c] = "loop" /\ CallOk(c)
    /\ Sort(c, XPendingOf(c, 1, PendingCount), "own")

ScanOrphansOwnOnly(c) ==
    /\ pc[c] = "loop" /\ CallOk(c)
    /\ Sort(c, {i \in XPendingAll(2) : owner[i] = c}, "orphan")
ScanOrphans(c) ==
    /\ pc[c] = "loop" /\ CallOk(c)
    /\ Sort(c, {i \in XPendingAll(2) : owner[i] # c}, "orphan")

\* With the exhausted ones dead-lettered, XCLAIM the rest and process what
\* it returns.  A message another worker still holds may now go out twice.
Claim(c) ==
    LET min == MinIdle(pc[c])
        got == Claimed(retry[c], min)
    IN
    /\ pc[c] \in {"own", "orphan"} /\ bury[c] = {} /\ CallOk(c)
    /\ XClaim(c, retry[c], min)
    /\ work' = [work EXCEPT ![c] = got]
    /\ retry' = [retry EXCEPT ![c] = {}]
    /\ repeatable' = repeatable \cup
          UNION {AlertKeysOf(i) : i \in {j \in got : Contested(c, j)}}
    /\ Goto(c, "deliver")
    /\ UNCHANGED <<ctx, bury, settleVars, stops, historyVars, recordVars,
                   seen, forfeited>>

\* XCLAIM errors, before or after it took effect: the scan is given up.
ClaimFails(c) ==
    /\ pc[c] \in {"own", "orphan"} /\ bury[c] = {} /\ ctx[c] = "live" /\ Fault
    /\ XClaim(c, retry[c], MinIdle(pc[c])) \/ UNCHANGED streamVars
    /\ retry' = [retry EXCEPT ![c] = {}]
    /\ Goto(c, "loop")
    /\ UNCHANGED <<ctx, bury, work, settleVars, stops, historyVars, recordVars,
                   dedupVars>>

-----------------------------------------------------------------------------
(* processMessage *)

\* The message leaves memory and the notifier is called.
Notify(c, i) ==
    /\ pc[c] \in {"deliver", "drain"} /\ CallOk(c)
    /\ i \in work[c] /\ IsNext(c, i)
    /\ pc[c] = "drain" => Stored(i)
    /\ work' = [work EXCEPT ![c] = @ \ {i}]
    /\ attempts' = [attempts EXCEPT ![i] = @ + 1]
    /\ UNCHANGED <<ctx, bury, retry, stops, recordVars, streamVars,
                   seen, forfeited>>

NotifyOk(c, i) ==
    /\ "ok" \in Outcomes
    /\ Notify(c, i)
    /\ told' = [told EXCEPT ![i] = @ + 1]
    /\ Settle(c, i, "sent", "ack")
    /\ UNCHANGED <<left, repeatable>>

\* Any other error: leave the message pending, a later scan retries it.
NotifyFailAcked(c, i) ==
    /\ "fail" \in Outcomes
    /\ Notify(c, i)
    /\ Settle(c, i, "sent", "ack")
    /\ UNCHANGED <<told, left, repeatable>>
NotifyFail(c, i) ==
    /\ "fail" \in Outcomes
    /\ Notify(c, i)
    /\ UNCHANGED <<told, pc, settleVars, repeatable>>

\* The same, although the user was shown (part of) the message.
NotifyFailShown(c, i) ==
    /\ "failShown" \in Outcomes
    /\ Notify(c, i)
    /\ told' = [told EXCEPT ![i] = @ + 1]
    /\ repeatable' = repeatable \cup AlertKeysOf(i)
    /\ UNCHANGED <<pc, settleVars>>

\* Recipient blocked, or no channel: give the claims back, then drop.
NotifyBlocked(c, i) ==
    /\ "blocked" \in Outcomes
    /\ Notify(c, i)
    /\ RunHook(c, i, "blocked")
    /\ UNCHANGED <<told, repeatable>>

\* Nothing to deliver to: drop the alert and keep the claims.
NotifyNoTarget(c, i) ==
    /\ "noTarget" \in Outcomes
    /\ Notify(c, i)
    /\ Settle(c, i, "noTarget", "ack")
    /\ UNCHANGED <<told, left, repeatable>>

-----------------------------------------------------------------------------
(* deadLetter *)

\* XRANGE finds the exhausted message: run the hook on it.
DeadLetter(c, i) ==
    /\ pc[c] \in {"own", "orphan", "drain"} /\ CallOk(c)
    /\ i \in bury[c] /\ IsNext(c, i) /\ Stored(i)
    /\ bury' = [bury EXCEPT ![c] = @ \ {i}]
    /\ RunHook(c, i, "dead_lettered")
    /\ repeatable' = repeatable \cup
          (IF Contested(c, i) THEN AlertKeysOf(i) ELSE {})
    /\ UNCHANGED <<ctx, retry, work, stops, historyVars, recordVars, streamVars,
                   seen, forfeited>>

\* XRANGE errors or finds nothing: just ack.
DeadLetterGone(c, i) ==
    /\ pc[c] \in {"own", "orphan", "drain"}
    /\ i \in bury[c] /\ IsNext(c, i)
    /\ (CallOk(c) /\ ~Stored(i)) \/ (ctx[c] # "cancelled" /\ Fault)
    /\ bury' = [bury EXCEPT ![c] = @ \ {i}]
    /\ Settle(c, i, "gone", "ack")
    /\ UNCHANGED <<ctx, retry, work, left, stops, historyVars, recordVars,
                   streamVars, dedupVars>>

\* releaseDedupClaimsOnDeadLetter releases one token's claim.
Release(c, t) ==
    LET rest == left[c] \ {t} IN
    /\ pc[c] = "release" /\ t \in left[c] /\ CallOk(c)
    /\ ReleaseClaim(<<log[cur[c]].route, t>>)
    /\ left' = [left EXCEPT ![c] = rest]
    /\ Goto(c, IF rest = {} THEN AfterHook(status[c]) ELSE "release")
    /\ UNCHANGED <<ctx, listVars, cur, status, ret, stops, historyVars,
                   recordVars, streamVars, repeatable>>

\* The hook or the XADD to the dead-letter stream fails: the handler returns
\* without acking.  The XADD may have taken effect; a release that took
\* effect before it failed is Release, then this.
HandlerFails(c) ==
    /\ pc[c] \in {"release", "bury"} /\ CallFails(c)
    /\ dead' = dead \/ (pc[c] = "bury" /\ dead' = dead \cup {cur[c]})
    /\ repeatable' = repeatable \cup Dangling(c)
    /\ Return(c)
    /\ UNCHANGED <<ctx, listVars, stops, historyVars, ledger, streamVars,
                   seen, forfeited>>

\* XADD to carwatch:alerts:dead.
Bury(c) ==
    /\ pc[c] = "bury" /\ CallOk(c)
    /\ dead' = dead \cup {cur[c]}
    /\ Goto(c, "ack")
    /\ UNCHANGED <<ctx, listVars, settleVars, stops, historyVars, ledger,
                   streamVars, dedupVars>>

-----------------------------------------------------------------------------
(* ack and the delivery hook *)

\* A message that is gone is not recorded; every other outcome is.
AfterAck(c) ==
    IF status[c] = "gone" THEN Return(c)
    ELSE Goto(c, "record") /\ UNCHANGED settleVars

Ack(c) ==
    /\ pc[c] = "ack" /\ CallOk(c)
    /\ XAck(cur[c])
    /\ Forfeit(IF status[c] \in {"noTarget", "gone"}
               THEN AlertKeysOf(cur[c]) ELSE {})
    /\ AfterAck(c)
    /\ UNCHANGED <<ctx, listVars, stops, historyVars, recordVars,
                   seen, repeatable>>

\* A failed ack is only logged.
AckFails(c) ==
    /\ pc[c] = "ack" /\ CallFails(c)
    /\ repeatable' = repeatable \cup Dangling(c)
    /\ AfterAck(c)
    /\ UNCHANGED <<ctx, listVars, stops, historyVars, recordVars, streamVars,
                   seen, forfeited>>

LedgerStatusSent(outcome) == IF outcome = "noTarget" THEN "sent"
                             ELSE IF outcome = "blocked" THEN "dropped"
                             ELSE outcome
LedgerStatus(outcome) ==
    IF outcome \in {"blocked", "noTarget"} THEN "dropped" ELSE outcome

\* RecordDeliveries upserts one row per listing, keyed by chat and listing;
\* it runs under a context that outlives the worker's.
Record(c) ==
    LET a == log[cur[c]] IN
    /\ pc[c] = "record" /\ NoFault
    /\ ledger' = [row \in Rows |->
                    IF row[1] = Chat(a.route) /\ row[2] \in a.tokens
                    THEN [status |-> LedgerStatus(status[c]), batch |-> cur[c]]
                    ELSE ledger[row]]
    /\ Return(c)
    /\ UNCHANGED <<ctx, listVars, stops, historyVars, dead, streamVars,
                   dedupVars>>

RecordFails(c) ==
    /\ pc[c] = "record" /\ Fault
    /\ Return(c)
    /\ UNCHANGED <<ctx, listVars, stops, historyVars, recordVars, streamVars,
                   dedupVars>>

-----------------------------------------------------------------------------
(* Shutdown, Drain, crash, restart *)

\* SIGTERM cancels Run's context, wherever the worker is.
Shutdown(c) ==
    /\ pc[c] # "down" /\ ctx[c] = "live" /\ stops < MaxStops
    /\ ctx' = [ctx EXCEPT ![c] = "cancelled"]
    /\ stops' = stops + 1
    /\ UNCHANGED <<pc, listVars, settleVars, historyVars, recordVars,
                   streamVars, dedupVars, faults>>

\* Every call of the interrupted batch or scan fails at once: the rate
\* limiter's Wait in processMessage, XRANGE and XACK in deadLetter, XCLAIM.
Abandon(c) ==
    /\ ctx[c] = "cancelled" /\ pc[c] \in {"deliver", "own", "orphan"}
    /\ bury' = [bury EXCEPT ![c] = {}]
    /\ retry' = [retry EXCEPT ![c] = {}]
    /\ work' = [work EXCEPT ![c] = {}]
    /\ Goto(c, "loop")
    /\ UNCHANGED <<ctx, settleVars, stops, historyVars, recordVars, streamVars,
                   dedupVars, faults>>

\* Run has returned; Drain lists everything pending for this consumer,
\* whatever its idleness, under a fresh context.  An XCLAIM whose reply was
\* lost may have moved to it a message that another worker still holds.
StartDrain(c) ==
    LET found == XPendingOf(c, 0, DrainCount)
        again == {i \in found : ~Exhausted(i)}
    IN
    /\ ctx[c] = "cancelled" /\ pc[c] = "loop"
    /\ ctx' = [ctx EXCEPT ![c] = "drain"]
    /\ bury' = [bury EXCEPT ![c] = {i \in found : Exhausted(i)}]
    /\ work' = [work EXCEPT ![c] = again]
    /\ repeatable' = repeatable \cup
          UNION {AlertKeysOf(i) : i \in {j \in again : Contested(c, j)}}
    /\ Goto(c, "drain")
    /\ UNCHANGED <<retry, settleVars, stops, historyVars, recordVars,
                   streamVars, seen, forfeited, faults>>

\* Drain's XRANGE errors or finds nothing: on to the next one.
DrainSkip(c, i) ==
    /\ pc[c] = "drain" /\ i \in work[c] /\ IsNext(c, i)
    /\ (~Stored(i) /\ NoFault) \/ Fault
    /\ work' = [work EXCEPT ![c] = @ \ {i}]
    /\ UNCHANGED <<pc, ctx, bury, retry, settleVars, stops, historyVars,
                   recordVars, streamVars, dedupVars>>

\* The process forgets everything it held in memory.
Halt(c) ==
    /\ bury' = [bury EXCEPT ![c] = {}]
    /\ retry' = [retry EXCEPT ![c] = {}]
    /\ work' = [work EXCEPT ![c] = {}]
    /\ cur' = [cur EXCEPT ![c] = 0]
    /\ left' = [left EXCEPT ![c] = {}]
    /\ status' = [status EXCEPT ![c] = "none"]
    /\ ret' = [ret EXCEPT ![c] = "loop"]
    /\ ctx' = [ctx EXCEPT ![c] = "live"]
    /\ Goto(c, "down")

EndDrain(c) ==
    /\ pc[c] = "drain" /\ bury[c] \cup work[c] = {}
    /\ Halt(c)
    /\ UNCHANGED <<stops, historyVars, recordVars, streamVars, dedupVars,
                   faults>>

Crash(c) ==
    /\ pc[c] # "down" /\ Fault
    /\ repeatable' = repeatable \cup Dangling(c)
    /\ Halt(c)
    /\ UNCHANGED <<stops, historyVars, recordVars, streamVars, seen, forfeited>>

Restart(c) ==
    /\ pc[c] = "down"
    /\ Goto(c, "loop")
    /\ UNCHANGED <<ctx, listVars, settleVars, stops, historyVars, recordVars,
                   streamVars, dedupVars, faults>>

-----------------------------------------------------------------------------
\* What a running worker does.
WorkerStep(c) ==
    \/ Read(c) \/ ReadLost(c) \/ FinishBatch(c)
    \/ ScanOwn(c) \/ ScanOrphans(c) \/ Claim(c) \/ ClaimFails(c)
    \/ \E i \in Ids : \/ NotifyOk(c, i) \/ NotifyFail(c, i)
                      \/ NotifyFailShown(c, i) \/ NotifyBlocked(c, i)
                      \/ NotifyNoTarget(c, i)
                      \/ DeadLetter(c, i) \/ DeadLetterGone(c, i)
                      \/ DrainSkip(c, i)
    \/ \E t \in Tokens : Release(c, t)
    \/ HandlerFails(c) \/ Bury(c)
    \/ Ack(c) \/ AckFails(c) \/ Record(c) \/ RecordFails(c)
    \/ Abandon(c) \/ StartDrain(c) \/ EndDrain(c)
    \/ Restart(c)
=============================================================================
