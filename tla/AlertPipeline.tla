--------------------------- MODULE AlertPipeline ---------------------------
(***************************************************************************)
(* Ingest requests and notifier workers around the alert stream and the    *)
(* dedup store: the path of a listing from the claim that makes it "new"   *)
(* to the message a user sees.                                             *)
(***************************************************************************)
EXTENDS NotifierWorker, IngestDelivery

CONSTANT Stable             \* workers that run again after they stopped

ASSUME StableWorkers == Stable \subseteq Consumers

vars == <<streamVars, dedupVars, workerVars, ingestVars, faults>>

Init ==
    /\ StreamInit
    /\ DedupInit
    /\ WorkerInit
    /\ IngestInit
    /\ InfraInit

Worker(c) ==
    /\ WorkerStep(c) \/ Shutdown(c) \/ Crash(c)
    /\ UNCHANGED ingestVars

Request(p) ==
    /\ StartIngest(p) \/ RequestStep(p) \/ Cancel(p)
    /\ UNCHANGED workerVars

Server ==
    /\ CrashServer \/ \E r \in Routes : PublishRaw(r)
    /\ UNCHANGED workerVars

Tick == \E i \in Ids : /\ Age(i)
                       /\ UNCHANGED <<dedupVars, workerVars, ingestVars, faults>>

Next ==
    \/ \E c \in Consumers : Worker(c)
    \/ \E p \in Requests : Request(p)
    \/ Server
    \/ Tick

Spec == Init /\ [][Next]_vars

\* A running Go process keeps executing, time passes, and the container of a
\* stable worker is started again; faults, SIGTERMs and clients owe nothing.
Fairness ==
    /\ \A c \in Stable : WF_vars(WorkerStep(c) /\ NoFault /\ UNCHANGED ingestVars)
    /\ \A p \in Requests : WF_vars(RequestStep(p) /\ NoFault /\ UNCHANGED workerVars)
    /\ \A i \in Ids : WF_vars(Age(i) /\ UNCHANGED <<dedupVars, workerVars,
                                                    ingestVars, faults>>)

FairSpec == Spec /\ Fairness

-----------------------------------------------------------------------------
(* Properties *)

\* Every variable has its type.
TypeOK ==
    /\ StreamType
    /\ DedupType
    /\ WorkerType
    /\ IngestType
    /\ faults \in Nat

\* The user has been shown listing k on its route.
Shown(k) == \E i \in Published : told[i] > 0 /\ k \in AlertKeysOf(i)

\* ... more than once.
ShownTwice(k) ==
    \E i, j \in Published :
        /\ k \in AlertKeysOf(i) /\ k \in AlertKeysOf(j)
        /\ told[i] > 0 /\ told[j] > 0
        /\ i # j \/ told[i] > 1

\* Somebody will still deliver k or give its claim back.
Carried(k) ==
    \/ \E p \in Requests : k \in Held(p)
    \/ \E i \in Published : Live(i) /\ k \in AlertKeysOf(i)

\* No listing is lost silently: a claim in seen_listings, which stops every
\* later ingest from alerting the listing, belongs to a request still at
\* work, to an alert still in the queue, to a listing the user was shown, or
\* the code met one of the situations in which it gives the listing up
\* (a claim whose release failed or whose process died, a listing beyond the
\* batch limit, a malformed message, no delivery target, a trimmed alert).
NoSilentLoss ==
    \A k \in seen : Carried(k) \/ Shown(k) \/ k \in forfeited

\* A listing is shown twice on the same route only after one of the events
\* that make delivery at-least-once: an alert shown or given back but not
\* acked (failed ack, failed hook, crash), an ambiguous send or publish, or
\* two workers holding the same message.
NoUncausedRepeat ==
    \A k \in Keys : ShownTwice(k) => k \in repeatable

\* The delivery count that deadLetter decides on cannot run away: scans act
\* on a snapshot of the count, so several workers can each claim a message
\* once more, but no more than that.
RetryBound ==
    \A i \in Ids : count[i] < MaxRetries + Cardinality(Consumers)

\* Only Drain delivers without counting the delivery: a message is handed to
\* the notifier at most once per counted delivery and once per shutdown.
AttemptBound ==
    \A i \in Ids : attempts[i] <= count[i] + stops

\* The ledger does not lie: a row says "sent" only for an alert that reached
\* the user, and "dead_lettered" only for one that is in the dead-letter
\* stream and that the user was not shown, or saw in one of the at-least-once
\* situations.  ("dropped" is not final: the ack may fail and a later retry
\* deliver.)
LedgerTruthful ==
    \A row \in Rows :
        LET e == ledger[row] IN
        /\ e.status = "sent" => told[e.batch] > 0
        /\ e.status = "dead_lettered" =>
              /\ e.batch \in dead
              /\ told[e.batch] = 0 \/ AlertKeysOf(e.batch) \subseteq repeatable

\* A settled alert stays settled: once it has been acked, no read, scan or
\* claim makes it pending again.
SettledForGood ==
    [][\A i \in Published : ~Live(i) => ~Live(i)']_vars

\* Every claim is resolved: the listing is shown, or the claim is given back
\* for a later ingest, or it is one of those given up.
EveryClaimResolved ==
    \A k \in Keys :
        k \in seen ~> (Shown(k) \/ k \notin seen \/ k \in forfeited)

\* Every published alert is settled, even if the worker that read it never
\* comes back.
EveryAlertSettles ==
    \A i \in Ids : i \in Published ~> ~Live(i)
=============================================================================
