----------------------------- MODULE ApiServer -----------------------------
(***************************************************************************)
(* The API server and the bot's buttons over one account: every request    *)
(* passes the middleware chain and then its handler, each statement to the *)
(* store a step; the clock, the sweeps and the rows of cycles go on beside.*)
(* Instant search and refresh, which reach the source, are modelled here.  *)
(***************************************************************************)
EXTENDS AdminOps

CONSTANTS MaxFetches,   \* max_concurrent_fetches
          MaxAttempts,  \* attempts of a fetch
          Cooldown,     \* between refreshes of a search
          EvictAge,     \* refreshCooldownEvictAge
          SweepInterval \* refreshSweepInterval

ASSUME ServerConstants ==
    /\ {MaxFetches, MaxAttempts} \subseteq Nat \ {0}
    /\ {Cooldown, EvictAge, SweepInterval} \subseteq Nat
    /\ Cooldown <= EvictAge

VARIABLES fetchSem,   \* slots taken by instant searches
          refreshed,  \* refreshMu: when the account's search was refreshed; Never if no entry
          lastSweep,  \* lastRefreshSweep; Never if none
          refreshes   \* history: completed refreshes, how many were complete when each was let in,
                      \* and whether a sweep deleted its entry for an older one

upstream == <<fetchSem, refreshed, lastSweep, refreshes>>
vars == <<limits, requests, lists, confirms, upstream>>

Never == MaxTime + 1

Init ==
    /\ LimitsInit /\ RequestsInit /\ ListsInit /\ ConfirmsInit
    /\ fetchSem = 0
    /\ refreshed = Never /\ lastSweep = Never
    /\ refreshes = <<>>

(***************************************************************************)
(* Requests that reach the source                                          *)
(***************************************************************************)

\* the guests' shared bucket, then a slot of the semaphore
instantSearch(r) ==
    /\ At(r, "handle", "instantSearch")
    /\ \E ok \in BOOLEAN :
         /\ globalAllow(ok)
         /\ IF ok THEN Goto(r, "slot") ELSE End(r)
    /\ UNCHANGED upstream

AcquireSlot(r) ==
    /\ At(r, "slot", "instantSearch")
    /\ \/ /\ fetchSem < MaxFetches /\ fetchSem' = fetchSem + 1 /\ Goto(r, "fetch")
       \/ End(r) /\ UNCHANGED fetchSem  \* the request's context ends
    /\ UNCHANGED <<limits, refreshed, lastSweep, refreshes>>

\* an attempt that fails is repeated, after a wait, up to MaxAttempts
Retried(r) == req' = [req EXCEPT ![r].n = @ + 1]
LastAttempt(r) == req[r].n + 1 = MaxAttempts

\* The slot goes back once the source answered or every attempt failed.
FetchInstant(r) ==
    /\ At(r, "fetch", "instantSearch")
    /\ \/ ~LastAttempt(r) /\ Retried(r) /\ UNCHANGED fetchSem
       \/ End(r) /\ fetchSem' = fetchSem - 1
    /\ UNCHANGED <<limits, refreshed, lastSweep, refreshes>>

\* At most once per interval a request sweeps refreshMu first. The entry is
\* judged by its age and deleted afterwards, whatever was stored in between.
SweepDue == lastSweep = Never \/ now - lastSweep >= SweepInterval
sweepRefreshCooldowns(r) ==
    /\ At(r, "handle", "refreshListings")
    /\ IF SweepDue THEN lastSweep' = now /\ req' = [req EXCEPT ![r].pc = "judge", ![r].at = now]
                   ELSE Goto(r, "check") /\ UNCHANGED lastSweep
    /\ UNCHANGED <<limits, fetchSem, refreshed, refreshes>>

OutOfDate(r) == refreshed # Never /\ req[r].at - refreshed > EvictAge
JudgeEntry(r) ==
    /\ At(r, "judge", "refreshListings")
    /\ IF OutOfDate(r) THEN req' = [req EXCEPT ![r].pc = "evict", ![r].at = refreshed] ELSE Goto(r, "check")
    /\ UNCHANGED <<limits, upstream>>

EvictEntry(r) ==
    /\ At(r, "evict", "refreshListings") /\ Goto(r, "check")
    /\ refreshed' = Never
    /\ refreshes' = IF refreshed \in {Never, req[r].at} THEN refreshes
                    ELSE [refreshes EXCEPT ![Len(refreshes)].erased = TRUE]
    /\ UNCHANGED <<limits, fetchSem, lastSweep>>

\* The cooldown is checked on entry and set after the fetch. The request ends
\* here too when there is no such search, or it was of another one.
CoolingDown == refreshed # Never /\ now - refreshed < Cooldown
refreshListings(r) ==
    /\ At(r, "check", "refreshListings")
    /\ \/ End(r)
       \/ ~CoolingDown /\ req' = [req EXCEPT ![r].pc = "fetch", ![r].at = Len(refreshes)]
    /\ UNCHANGED <<limits, upstream>>

FetchRefresh(r) ==
    /\ At(r, "fetch", "refreshListings")
    /\ \/ ~LastAttempt(r) /\ Retried(r) /\ UNCHANGED <<refreshed, refreshes>>
       \/ LastAttempt(r) /\ End(r) /\ UNCHANGED <<refreshed, refreshes>>
       \/ /\ refreshed' = now /\ End(r)
          /\ refreshes' = Append(refreshes, [at |-> now, knew |-> req[r].at, erased |-> FALSE])
    /\ UNCHANGED <<limits, fetchSem, lastSweep>>

\* a statement to the store fails: 500, and nothing is written
StoreFails(r) ==
    /\ req[r].pc \in {"handle", "insert", "page", "run"}
    /\ req[r].op \notin GuestRoutes \cup {"confirmToken", "vacuum"}
    /\ End(r)
    /\ UNCHANGED <<limits, upstream>>

Sweeping(r) == sweepRefreshCooldowns(r) \/ JudgeEntry(r) \/ EvictEntry(r)
Upstream(r) ==
    \/ instantSearch(r) \/ AcquireSlot(r) \/ FetchInstant(r)
    \/ Sweeping(r) \/ refreshListings(r) \/ FetchRefresh(r)

(***************************************************************************)
(* Composition                                                             *)
(***************************************************************************)

Next ==
    \/ \E r \in Requests :
         \/ Chain(r) /\ UNCHANGED <<lists, confirms, upstream>>
         \/ UserListsStep(r) /\ UNCHANGED <<limits, load, spent, confirms, upstream>>
         \/ AdminListsStep(r) /\ UNCHANGED <<limits, load, spent, upstream>>
         \/ AdminTokenStep(r) /\ UNCHANGED <<limits, load, spent, lists, upstream>>
         \/ adminVacuum(r) /\ UNCHANGED <<limits, load, spent, upstream>>
         \/ (Upstream(r) \/ StoreFails(r)) /\ UNCHANGED <<load, spent, lists, confirms>>
    \/ \E t \in Tokens : StampRecord(t) /\ UNCHANGED <<limits, req, load, confirms, upstream>>
    \/ \E t \in Tokens : SaveRecord(t) /\ UNCHANGED <<limits, req, load, confirms, upstream>>
    \/ EditSearch /\ UNCHANGED <<limits, req, load, confirms, upstream>>
    \/ now < load.time /\ Tick /\ UNCHANGED <<requests, lists, confirms, upstream>>
    \/ Sweep /\ UNCHANGED <<requests, lists, confirms, upstream>>

Spec == Init /\ [][Next]_vars

(***************************************************************************)
(* Properties                                                              *)
(***************************************************************************)

\* Two refreshes of a search complete within the cooldown only if the later was
\* let in before the earlier was complete, or if the entry that would have held
\* it back was erased by a sweep: one that had found an entry out of date before
\* this one was stored, and deleted the key without looking again.
RefreshSpaced ==
    \A i, j \in DOMAIN refreshes :
      i < j /\ refreshes[j].at - refreshes[i].at < Cooldown =>
        \/ refreshes[j].knew < i
        \/ \E k \in i .. refreshes[j].knew : refreshes[k].erased

\* Nothing is done more often than the server means to allow: requests per
\* key (ratelimit.go) and refreshes per search (listings.go).
LimitsHeld == RateHeld /\ RefreshSpaced

\* What a user keeps stays within its cap and can be paged through in full
\* (bookmarks.go, history.go).
ListsHeld == ListsCapped /\ PagesReachAll
=============================================================================
