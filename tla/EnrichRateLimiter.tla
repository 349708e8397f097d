------------------------- MODULE EnrichRateLimiter -------------------------
(***************************************************************************)
(* enricher.AdaptiveRateLimiter and the enricher worker that uses it, one  *)
(* request at a time: Wait, fetch the item page, record the outcome.       *)
(*                                                                         *)
(* Times are whole units.  Instead of the clock the model keeps how long   *)
(* the cooldown still lasts and how old the window is.                     *)
(***************************************************************************)
EXTENDS Integers

CONSTANTS BaseDelay, MaxDelay,
          CooldownDur,      \* cooldown_duration
          CooldownCap,      \* 30 minutes
          Window,           \* windowDuration
          JitterSigns,      \* jitters tried: these multiples of delay / 4
          FetchTimes,       \* how long fetching an item page may take
          Gaps,             \* how long the queue may stay empty
          MaxChallenges     \* bound: challenges recorded

ASSUME LimiterConstants ==
    /\ BaseDelay \in Nat \ {0}
    /\ MaxDelay \in Nat /\ BaseDelay <= MaxDelay
    /\ CooldownDur \in Nat \ {0}
    /\ CooldownCap \in Nat \ {0}
    /\ Window \in Nat \ {0}
    /\ JitterSigns \subseteq {-1, 0, 1}
    /\ FetchTimes \subseteq Nat
    /\ Gaps \subseteq Nat
    /\ MaxChallenges \in Nat

VARIABLES currentDelay,
          cooldownLeft,     \* time until cooldownUntil, 0 if it has passed
          windowAge,        \* time since windowStart
          windowSuccesses, windowTotal,
          consecutiveCooldowns,
          stage,            \* the worker: "wait", "fetch", "record" or
                            \* "panicked"
          early,            \* history: a Wait ended before its delay
          challenges        \* history: challenges recorded

limits == <<currentDelay, cooldownLeft, windowAge, windowSuccesses,
            windowTotal, consecutiveCooldowns>>
limiter == <<limits, stage, early, challenges>>

Lesser(a, b) == IF a <= b THEN a ELSE b
Most(a, b) == IF a >= b THEN a ELSE b

MaxCooldownDur == Lesser(4 * CooldownDur, CooldownCap)

LimiterTypeOK ==
    /\ currentDelay \in BaseDelay..MaxDelay
    /\ cooldownLeft \in 0..MaxCooldownDur
    /\ windowAge \in 0..(Window + 1)
    /\ windowSuccesses \in Nat
    /\ windowTotal \in Nat
    /\ windowSuccesses <= windowTotal
    /\ consecutiveCooldowns \in 0..MaxChallenges
    /\ stage \in {"wait", "fetch", "record", "panicked"}
    /\ early \in BOOLEAN
    /\ challenges \in 0..MaxChallenges

\* NewAdaptiveRateLimiter.
LimiterInit ==
    /\ currentDelay = BaseDelay
    /\ cooldownLeft = 0
    /\ windowAge = 0
    /\ windowSuccesses = 0
    /\ windowTotal = 0
    /\ consecutiveCooldowns = 0
    /\ stage = "wait"
    /\ early = FALSE
    /\ challenges = 0

-----------------------------------------------------------------------------
\* Time passes.  A window older than Window is only ever found expired.
Pass(t) ==
    /\ cooldownLeft' = Most(0, cooldownLeft - t)
    /\ windowAge' = Lesser(windowAge + t, Window + 1)
    /\ UNCHANGED <<currentDelay, windowSuccesses, windowTotal,
                   consecutiveCooldowns>>

\* Wait: the rest of the cooldown, or the current delay, plus a jitter.  The
\* random bits are read as a signed number, so its remainder by a quarter of
\* the delay is negative as often as not.
DelayIgnoringCooldown == currentDelay
Delay == IF cooldownLeft > 0 THEN cooldownLeft ELSE currentDelay
Jitter(sign) == sign * (Delay \div 4)

Wait(sign) ==
    /\ stage = "wait"
    /\ Pass(Delay + Jitter(sign))
    /\ early' = (early \/ Jitter(sign) < 0)
    /\ stage' = "fetch"
    /\ UNCHANGED challenges

\* No request for a while.
Idle(t) ==
    /\ stage = "wait"
    /\ Pass(t)
    /\ UNCHANGED <<stage, early, challenges>>

\* FetchItem.
Fetch(t) ==
    /\ stage = "fetch"
    /\ Pass(t)
    /\ stage' = "record"
    /\ UNCHANGED <<early, challenges>>

-----------------------------------------------------------------------------
\* resetWindowIfExpired, and the request counted in the window it leaves.
Expired == windowAge > Window
Count(success) ==
    /\ windowAge' = IF Expired THEN 0 ELSE windowAge
    /\ windowTotal' = (IF Expired THEN 0 ELSE windowTotal) + 1
    /\ windowSuccesses' = (IF Expired THEN 0 ELSE windowSuccesses) + success

SlowForGood(d) == d
Faster(d) == Most(d \div 2, BaseDelay)
RecordSuccess ==
    /\ stage = "record"
    /\ Count(1)
    /\ consecutiveCooldowns' = 0
    /\ currentDelay' = IF Expired THEN currentDelay ELSE Faster(currentDelay)
    /\ stage' = "wait"
    /\ UNCHANGED <<cooldownLeft, early, challenges>>

\* A cooldown that starts now: 1x, 2x or 4x the base by the number of
\* cooldowns in a row.  For zero in a row the shift count is negative and the
\* expression panics.
Blocked(total, successes) == total >= 3 /\ 2 * successes < total
RepeatsUncounted == consecutiveCooldowns
Repeats == IF cooldownLeft > 0 THEN consecutiveCooldowns
           ELSE consecutiveCooldowns + 1
Escalated(n) == CooldownDur * <<1, 2, 4>>[Lesser(n, 3)]

RecordChallenge ==
    /\ stage = "record"
    /\ challenges < MaxChallenges
    /\ challenges' = challenges + 1
    /\ Count(0)
    /\ currentDelay' = Lesser(2 * currentDelay, MaxDelay)
    /\ IF Blocked(windowTotal', windowSuccesses')
       THEN /\ consecutiveCooldowns' = Repeats
            /\ IF Repeats = 0
               THEN stage' = "panicked" /\ UNCHANGED cooldownLeft
               ELSE /\ cooldownLeft' = Lesser(Escalated(Repeats), MaxCooldownDur)
                    /\ stage' = "wait"
       ELSE stage' = "wait" /\ UNCHANGED <<consecutiveCooldowns, cooldownLeft>>
    /\ UNCHANGED early

\* Any other outcome: nothing is recorded.
RecordNothing ==
    /\ stage = "record"
    /\ stage' = "wait"
    /\ UNCHANGED <<limits, early, challenges>>

\* The process dies of the panic and is started again.
Restart ==
    /\ stage = "panicked"
    /\ stage' = "wait"
    /\ currentDelay' = BaseDelay
    /\ cooldownLeft' = 0
    /\ windowAge' = 0
    /\ windowSuccesses' = 0
    /\ windowTotal' = 0
    /\ consecutiveCooldowns' = 0
    /\ UNCHANGED <<early, challenges>>

LimiterNext ==
    \/ \E s \in JitterSigns : Wait(s)
    \/ \E t \in Gaps : Idle(t)
    \/ \E t \in FetchTimes : Fetch(t)
    \/ RecordSuccess
    \/ RecordChallenge
    \/ RecordNothing
    \/ Restart

LimiterSpec == LimiterInit /\ [][LimiterNext]_limiter

\* The worker goes on while there are requests; the jitter is random and the
\* item pages do not depend on it, so short waits at the start of a window
\* recur, and so do successes, the ones inside a window too.
LimiterFairSpec ==
    /\ LimiterSpec
    /\ WF_limiter(\E s \in JitterSigns : Wait(s))
    /\ SF_limiter(windowAge = 0 /\ Wait(-1))
    /\ WF_limiter(\E t \in FetchTimes : Fetch(t))
    /\ WF_limiter(RecordNothing)
    /\ SF_limiter(RecordSuccess)
    /\ SF_limiter(~Expired /\ RecordSuccess)
    /\ WF_limiter(Restart)

-----------------------------------------------------------------------------
(* Properties *)

\* Wait keeps the worker out of Yad2 for the whole cooldown, unless a jitter
\* cut some wait short.
CooldownRespected == stage = "fetch" /\ cooldownLeft > 0 => early

\* RecordChallenge never computes with a negative shift, unless a request
\* went out, and succeeded, inside a cooldown.
PanicNeedsEarlyWake == stage = "panicked" => early /\ cooldownLeft > 0

\* RecordSuccess brings the delay back to the base once the challenges stop,
\* although a success that opens a new window does not shorten it.
BackoffRecovers == []<>(currentDelay = BaseDelay)

-----------------------------------------------------------------------------
(* What comments in the code say *)

\* RecordChallenge: "cap at 4x base (1x, 2x, 4x)".
EscalationIsDefined == stage # "panicked"

=============================================================================
