--------------------------- MODULE IngestDelivery ---------------------------
(***************************************************************************)
(* The producing side: an ingest request of the browser extension, for one *)
(* matching search (api.deliverIngestMatches -> claimAndDeliver ->         *)
(* InstantDelivery.DeliverBatch -> broker.Publish).  Several requests run  *)
(* at once in the API server; each claim, publish and release is a step.   *)
(* Every call uses the request's context, which the client can cancel by   *)
(* going away.                                                             *)
(***************************************************************************)
EXTENDS AlertStream, DedupClaims, Infra

CONSTANTS Requests,         \* request handlers running at the same time
          MaxIngests,       \* bound: requests ever made
          MaxBatch,         \* scheduler.maxBatchSize (10)
          RawRoutes,        \* routes that are also sent price-drop messages
          MalformedRoutes   \* routes whose rendered message may be malformed

ASSUME IngestConstants ==
    /\ MaxIngests \in Nat
    /\ MaxIngests <= MaxAlerts   \* the log's bound is never what stops XADD
    /\ MaxBatch \in Nat \ {0}
    /\ RawRoutes \subseteq Routes
    /\ MalformedRoutes \subseteq Routes

VARIABLES rpc,              \* "idle", "claim", "publish", "release"
          rctx,             \* "live" or "cancelled"
          route,            \* the matching search's route
          fresh,            \* tokens still to be claimed
          newOnes,          \* tokens this request has claimed
          ingests           \* requests so far

requestVars == <<rpc, rctx, route, fresh, newOnes>>
ingestVars == <<requestVars, ingests>>

IngestType ==
    /\ rpc \in [Requests -> {"idle", "claim", "publish", "release"}]
    /\ rctx \in [Requests -> {"live", "cancelled"}]
    /\ route \in [Requests -> Routes]
    /\ fresh \in [Requests -> SUBSET Tokens]
    /\ newOnes \in [Requests -> SUBSET Tokens]
    /\ ingests \in Nat

IngestInit ==
    /\ rpc = [p \in Requests |-> "idle"]
    /\ rctx = [p \in Requests |-> "live"]
    /\ \E r \in Routes : route = [p \in Requests |-> r]
    /\ fresh = [p \in Requests |-> {}]
    /\ newOnes = [p \in Requests |-> {}]
    /\ ingests = 0

RequestOk(p) == rctx[p] = "live" /\ NoFault
RequestFails(p) == (rctx[p] = "cancelled" /\ NoFault) \/ Fault

Held(p) == KeysOf(route[p], newOnes[p])

RGoto(p, label) == rpc' = [rpc EXCEPT ![p] = label]

\* The request is over.
Finish(p) ==
    /\ RGoto(p, "idle")
    /\ rctx' = [rctx EXCEPT ![p] = "live"]
    /\ newOnes' = [newOnes EXCEPT ![p] = {}]
    /\ UNCHANGED <<route, fresh, ingests>>

-----------------------------------------------------------------------------
\* A push with listings that match search r, persisted already.
StartIngest(p) ==
    /\ rpc[p] = "idle" /\ ingests < MaxIngests
    /\ \E r \in Routes, T \in SUBSET Tokens \ {{}} :
          /\ route' = [route EXCEPT ![p] = r]
          /\ fresh' = [fresh EXCEPT ![p] = T]
    /\ RGoto(p, "claim")
    /\ ingests' = ingests + 1
    /\ UNCHANGED <<rctx, newOnes, streamVars, dedupVars, faults>>

\* ClaimNew for one listing: it is ours only if the claim is new.
ClaimListing(p, t) ==
    LET k == <<route[p], t>> IN
    /\ rpc[p] = "claim" /\ t \in fresh[p] /\ RequestOk(p)
    /\ ClaimNew(k)
    /\ newOnes' = [newOnes EXCEPT ![p] = IF IsNew(k) THEN @ \cup {t} ELSE @]
    /\ fresh' = [fresh EXCEPT ![p] = @ \ {t}]
    /\ UNCHANGED <<rpc, rctx, route, ingests, streamVars, forfeited, repeatable,
                   faults>>

\* ClaimNew errors: the listing is skipped.  If the row was inserted all the
\* same, nobody will ever act on that claim.
ClaimListingFails(p, t) ==
    LET k == <<route[p], t>> IN
    /\ rpc[p] = "claim" /\ t \in fresh[p]
    /\ \/ RequestFails(p) /\ UNCHANGED <<seen, forfeited>>
       \/ Fault /\ IsNew(k) /\ ClaimNew(k) /\ forfeited' = forfeited \cup {k}
    /\ fresh' = [fresh EXCEPT ![p] = @ \ {t}]
    /\ UNCHANGED <<rpc, rctx, route, newOnes, ingests, streamVars, repeatable>>

\* All listings are claimed or skipped.
EndClaims(p) ==
    /\ rpc[p] = "claim" /\ fresh[p] = {}
    /\ IF newOnes[p] = {} THEN Finish(p)
       ELSE RGoto(p, "publish")
            /\ UNCHANGED <<rctx, route, fresh, newOnes, ingests>>
    /\ UNCHANGED <<streamVars, dedupVars, faults>>

\* DeliverBatch keeps the best-scored MaxBatch listings; scores are left
\* out, so any of them.
Batches(T) ==
    {S \in SUBSET T : /\ Cardinality(S) <= MaxBatch
                      /\ S # T => Cardinality(S) = MaxBatch}

TrimmedKeys == UNION {KeysOf(log[i].route, log[i].tokens) : i \in NewlyTrimmed}

\* The alert is in the stream.  Listings beyond MaxBatch are only counted in
\* its text, yet their claims stand.
Publish(p) ==
    /\ rpc[p] = "publish" /\ RequestOk(p)
    /\ \E S \in Batches(newOnes[p]) :
          /\ XAdd([route |-> route[p], tokens |-> S])
          /\ Forfeit(TrimmedKeys \cup KeysOf(route[p], newOnes[p] \ S))
    /\ Finish(p)
    /\ UNCHANGED <<seen, repeatable, faults>>

\* XADD fails, or its reply is lost after the alert went in: either way the
\* claims are released.
PublishFails(p) ==
    /\ rpc[p] = "publish"
    /\ \/ /\ RequestFails(p)
          /\ UNCHANGED <<streamVars, forfeited, repeatable>>
       \/ /\ Fault
          /\ \E S \in Batches(newOnes[p]) :
                /\ XAdd([route |-> route[p], tokens |-> S])
                /\ repeatable' = repeatable \cup KeysOf(route[p], S)
          /\ Forfeit(TrimmedKeys)
    /\ RGoto(p, "release")
    /\ UNCHANGED <<seen, rctx, route, fresh, newOnes, ingests>>

\* The rendered message is malformed: permanent, the claims are kept.
PublishMalformed(p) ==
    /\ rpc[p] = "publish" /\ route[p] \in MalformedRoutes
    /\ Forfeit(Held(p))
    /\ Finish(p)
    /\ UNCHANGED <<seen, repeatable, streamVars, faults>>

\* Give the claims back one by one, with the request's own context.
ReleaseListing(p, t) ==
    LET k == <<route[p], t>> IN
    /\ rpc[p] = "release" /\ t \in newOnes[p]
    /\ \/ RequestOk(p) /\ ReleaseClaim(k)
       \/ RequestFails(p) /\ Forfeit({k}) /\ UNCHANGED seen
    /\ newOnes' = [newOnes EXCEPT ![p] = @ \ {t}]
    /\ UNCHANGED <<rpc, rctx, route, fresh, ingests, streamVars, repeatable>>

EndRelease(p) ==
    /\ rpc[p] = "release" /\ newOnes[p] = {}
    /\ Finish(p)
    /\ UNCHANGED <<streamVars, dedupVars, faults>>

\* The scheduler's price-drop message (DeliverRaw): no token, no claim.
PublishRaw(r) ==
    /\ r \in RawRoutes /\ ingests < MaxIngests
    /\ ingests' = ingests + 1
    /\ XAdd([route |-> r, tokens |-> {}])
    /\ Forfeit(TrimmedKeys)
    /\ UNCHANGED <<requestVars, seen, repeatable, faults>>

\* The client goes away.
Cancel(p) ==
    /\ rpc[p] # "idle" /\ rctx[p] = "live"
    /\ rctx' = [rctx EXCEPT ![p] = "cancelled"]
    /\ UNCHANGED <<rpc, route, fresh, newOnes, ingests, streamVars, dedupVars,
                   faults>>

\* The API server dies with every request it is serving.
CrashServer ==
    /\ \E p \in Requests : rpc[p] # "idle"
    /\ Fault
    /\ Forfeit(UNION {Held(p) : p \in Requests})
    /\ rpc' = [p \in Requests |-> "idle"]
    /\ rctx' = [p \in Requests |-> "live"]
    /\ fresh' = [p \in Requests |-> {}]
    /\ newOnes' = [p \in Requests |-> {}]
    /\ UNCHANGED <<route, ingests, streamVars, seen, repeatable>>

\* What a request does once it is started.
RequestStep(p) ==
    \/ \E t \in Tokens : \/ ClaimListing(p, t) \/ ClaimListingFails(p, t)
                         \/ ReleaseListing(p, t)
    \/ EndClaims(p) \/ Publish(p) \/ PublishFails(p) \/ PublishMalformed(p)
    \/ EndRelease(p)
=============================================================================
