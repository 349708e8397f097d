-------------------------- MODULE CircuitBreaker --------------------------
(***************************************************************************)
(* fetcher.CircuitBreaker: the two critical sections of Fetch, before and  *)
(* after the inner fetch, over the state they share.  One breaker is used  *)
(* at once by the scheduler and by the API's refresh and search handlers.  *)
(***************************************************************************)
EXTENDS Naturals

CONSTANT Threshold          \* failureThreshold (5)

ASSUME BreakerConstants == Threshold \in Nat \ {0}

VARIABLES state,            \* "closed", "open" or "halfOpen"
          failures,
          probing,
          cooling           \* time.Since(openedAt) < cooldown

breakerVars == <<state, failures, probing, cooling>>

BreakerType ==
    /\ state \in {"closed", "open", "halfOpen"}
    /\ failures \in Nat
    /\ probing \in BOOLEAN
    /\ cooling \in BOOLEAN

BreakerInit ==
    /\ state = "closed"
    /\ failures = 0
    /\ probing = FALSE
    /\ cooling = FALSE

\* The caller passes; any other caller gets ErrCircuitOpen and nothing
\* changes.
AdmitAnyProbe ==
    /\ state = "open" => ~cooling
    /\ state' = IF state = "open" THEN "halfOpen" ELSE state
    /\ probing' = (state' = "halfOpen")
    /\ UNCHANGED <<failures, cooling>>
Admit ==
    /\ \/ state = "closed"
       \/ state = "open" /\ ~cooling
       \/ state = "halfOpen" /\ ~probing
    /\ state' = IF state = "open" THEN "halfOpen" ELSE state
    /\ probing' = (state' = "halfOpen")
    /\ UNCHANGED <<failures, cooling>>

\* A success of any caller closes the breaker.
Succeed ==
    /\ probing' = FALSE
    /\ failures' = 0
    /\ state' = "closed"
    /\ UNCHANGED cooling

\* A failure that counts: anything but partial results with listings,
\* a cancelled or expired context, and a rate limit.
Trips == failures + 1 >= Threshold \/ state = "halfOpen"
Fail ==
    /\ probing' = FALSE
    /\ failures' = failures + 1
    /\ IF Trips
       THEN state' = "open" /\ cooling' = TRUE
       ELSE UNCHANGED <<state, cooling>>

\* Partial results, a cancelled context, a rate limit.
IgnoreAltogether == UNCHANGED <<state, failures, probing, cooling>>
Ignore ==
    /\ probing' = FALSE
    /\ UNCHANGED <<state, failures, cooling>>

\* The cooldown passes.
Cool ==
    /\ cooling
    /\ cooling' = FALSE
    /\ UNCHANGED <<state, failures, probing>>
=============================================================================
