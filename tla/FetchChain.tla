---------------------------- MODULE FetchChain ----------------------------
(***************************************************************************)
(* The fetch chain of app.BuildFetchers, CircuitBreaker over               *)
(* CachingFetcher over PaginatingFetcher over Yad2, under concurrent       *)
(* callers: the scheduler's cycle and the API's refresh and instant search *)
(* handlers.  A caller takes one step per critical section of the chain,   *)
(* and one for what Yad2 answers.                                          *)
(***************************************************************************)
EXTENDS CircuitBreaker, CachingFetcher

CONSTANTS Callers,
          MaxFailures       \* bound: failures counted between two successes

ASSUME ChainConstants ==
    /\ IsFiniteSet(Callers)
    /\ MaxFailures \in Nat

\* What the paginated fetch of Yad2 can end in: all pages; some pages and an
\* error (ErrPartialResults); a challenge page; a rate limit; the caller's
\* context cancelled or expired; any other error.
Answers == {"ok", "partial", "challenge", "rateLimited", "cancelled", "error"}

\* What the breaker makes of it.
Verdicts == {"success", "failure", "ignored"}

VARIABLES pc,               \* caller -> where it is
          key,              \* caller -> the parameters it fetches
          had,              \* caller -> it found an entry, however old
          verdict,          \* caller -> outcome the breaker will see
          probe,            \* callers admitted in the half-open state
          overtaken         \* history: a caller admitted while the breaker
                            \* was closed returned during a probe

chainVars == <<pc, key, had, verdict, probe, overtaken>>
vars == <<breakerVars, cacheVars, chainVars>>

\* Callers whose failure the breaker has yet to count.
Failing == {c \in Callers : pc[c] = "return" /\ verdict[c] = "failure"}

ChainType ==
    /\ pc \in [Callers -> {"idle", "lookup", "yad2", "touch", "store", "return"}]
    /\ key \in [Callers -> Keys]
    /\ had \in [Callers -> BOOLEAN]
    /\ verdict \in [Callers -> Verdicts]
    /\ probe \subseteq Callers
    /\ overtaken \in BOOLEAN

TypeOK == BreakerType /\ CacheType /\ ChainType

Init ==
    /\ BreakerInit
    /\ CacheInit
    /\ pc = [c \in Callers |-> "idle"]
    /\ key \in [Callers -> Keys]
    /\ had = [c \in Callers |-> FALSE]
    /\ verdict = [c \in Callers |-> "ignored"]
    /\ probe = {}
    /\ overtaken = FALSE

-----------------------------------------------------------------------------
Goto(c, where) == pc' = [pc EXCEPT ![c] = where]
Conclude(c, v) == verdict' = [verdict EXCEPT ![c] = v]

\* CircuitBreaker.Fetch up to the inner fetch.
Call(c, k) ==
    /\ pc[c] = "idle"
    /\ Admit
    /\ Goto(c, "lookup")
    /\ key' = [key EXCEPT ![c] = k]
    /\ probe' = IF state' = "halfOpen" THEN probe \cup {c} ELSE probe
    /\ UNCHANGED <<cacheVars, had, verdict, overtaken>>

\* CachingFetcher.Fetch reads the entry.
LookUp(c) ==
    /\ pc[c] = "lookup"
    /\ had' = [had EXCEPT ![c] = key[c] \in Cached]
    /\ IF age[key[c]] = "fresh"
       THEN Goto(c, "touch") /\ Conclude(c, "success")
       ELSE Goto(c, "yad2") /\ UNCHANGED verdict
    /\ UNCHANGED <<breakerVars, cacheVars, key, probe, overtaken>>

\* Yad2 answers with listings.
AnswerOk(c) ==
    /\ pc[c] = "yad2"
    /\ Goto(c, "store")
    /\ Conclude(c, "success")
    /\ UNCHANGED <<breakerVars, cacheVars, key, had, probe, overtaken>>

\* An error the cache hides behind the entry it read, if there was one: the
\* breaker then sees a success.
Hidden(c, a) == a \in {"cancelled", "error"} /\ had[c]
Judge(a) == IF a \in {"challenge", "error"} THEN "failure" ELSE "ignored"

AnswerError(c, a) ==
    /\ pc[c] = "yad2"
    /\ a # "ok"
    /\ IF Hidden(c, a)
       THEN Goto(c, "touch") /\ Conclude(c, "success")
       ELSE Goto(c, "return") /\ Conclude(c, Judge(a))
    /\ a \in {"challenge", "error"} =>
          failures + Cardinality(Failing) < MaxFailures
    /\ UNCHANGED <<breakerVars, cacheVars, key, had, probe, overtaken>>

TouchEntry(c) ==
    /\ pc[c] = "touch"
    /\ Touch(key[c])
    /\ Goto(c, "return")
    /\ UNCHANGED <<breakerVars, key, had, verdict, probe, overtaken>>

StoreEntry(c) ==
    /\ pc[c] = "store"
    /\ Store(key[c])
    /\ Goto(c, "return")
    /\ UNCHANGED <<breakerVars, key, had, verdict, probe, overtaken>>

\* CircuitBreaker.Fetch after the inner fetch.
Return(c) ==
    /\ pc[c] = "return"
    /\ \/ verdict[c] = "success" /\ Succeed
       \/ verdict[c] = "failure" /\ Fail
       \/ verdict[c] = "ignored" /\ Ignore
    /\ Goto(c, "idle")
    /\ overtaken' = (overtaken \/ (probing /\ c \notin probe))
    /\ probe' = probe \ {c}
    /\ UNCHANGED <<cacheVars, key, had, verdict>>

Caller(c) ==
    \/ \E k \in Keys : Call(c, k)
    \/ LookUp(c)
    \/ AnswerOk(c)
    \/ \E a \in Answers : AnswerError(c, a)
    \/ TouchEntry(c)
    \/ StoreEntry(c)
    \/ Return(c)

Time ==
    \/ Cool /\ UNCHANGED <<cacheVars, chainVars>>
    \/ \E k \in Keys : GrowOld(k) /\ UNCHANGED <<breakerVars, chainVars>>

Next == Time \/ \E c \in Callers : Caller(c)

Spec == Init /\ [][Next]_vars

\* Somebody keeps calling (the scheduler's cycle), calls return, the
\* cooldown passes, and a source that is asked again and again answers well
\* again and again.
FairSpec ==
    /\ Spec
    /\ WF_vars(Cool /\ UNCHANGED <<cacheVars, chainVars>>)
    /\ \A c \in Callers :
          /\ WF_vars(\E k \in Keys : Call(c, k))
          /\ WF_vars(LookUp(c) \/ TouchEntry(c) \/ StoreEntry(c) \/ Return(c))
          /\ WF_vars(AnswerOk(c) \/ \E a \in Answers : AnswerError(c, a))
          /\ SF_vars(AnswerOk(c))

-----------------------------------------------------------------------------
(* Properties *)

\* Fetch trips the breaker only after failureThreshold failures: whenever it
\* is not closed, that many failures have been counted since the last
\* success, whatever order concurrent calls return in.
TripsOnlyAfterThreshold == state # "closed" => failures >= Threshold

\* Half-open lets one probe through.  Two probes are in flight only if
\* a caller admitted before the breaker opened returned during a probe and
\* cleared the probing flag that was not its own.
OneProbe == Cardinality(probe) > 1 => overtaken

\* Fetch leaves at most maxCacheEntries in the cache, and lastUsed orders
\* exactly the entries that are there, although an entry can be evicted
\* between its lookup and its touch.
CacheConsistent ==
    /\ Len(order) <= MaxEntries
    /\ Cached = {order[i] : i \in 1..Len(order)}
    /\ Cardinality(Cached) = Len(order)

\* The breaker does not stay open: it closes again while the source answers.
Recovers == []<>(state = "closed")

=============================================================================
