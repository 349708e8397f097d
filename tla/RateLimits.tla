----------------------------- MODULE RateLimits -----------------------------
(***************************************************************************)
(* The token buckets in front of the API server and of the bot: one per    *)
(* web user, per client address, per guest address, one for all guests and *)
(* one per chat.  Buckets refill lazily by the clock; idle ones are swept. *)
(***************************************************************************)
EXTENDS Naturals, Sequences, FiniteSets

CONSTANTS Keys,      \* user ids, addresses, chats and the one key of the guests' bucket
          TheBucket, \* that key
          Private,   \* addresses in privateNets
          TrustProxy,\* trustForwardedFor
          Burst,     \* of each limiter
          Every,     \* of each limiter
          Idle,      \* idle time after which its sweep drops a bucket
          MaxBuckets,\* maxIPBuckets
          MaxTime    \* bound of the clock

Limiters == {"user", "ip", "guest", "global", "chat"}

ASSUME LimitConstants ==
    /\ TheBucket \in Keys /\ Private \subseteq Keys /\ TrustProxy \in BOOLEAN
    /\ \A f \in {Burst, Every} : f \in [Limiters -> Nat \ {0}]
    /\ Idle \in [Limiters -> Nat]
    /\ MaxBuckets \in Nat /\ MaxTime \in Nat
    \* a bucket of these is full again before it is swept; not so for guests
    /\ \A l \in {"user", "ip", "chat"} : Burst[l] * Every[l] <= Idle[l]

VARIABLES now,      \* the clock
          bucket,   \* the bucket of each key of each limiter
          doomed,   \* chats the bot's sweep found stale and has not removed yet
          admitted  \* history: when each bucket's key was let through

limits == <<now, bucket, doomed, admitted>>

NoBucket == [tokens |-> 0, tick |-> 0, used |-> 0, kept |-> FALSE]
Full(l) == [tokens |-> Burst[l], tick |-> now, used |-> now, kept |-> TRUE]

LimitsInit ==
    /\ now = 0
    /\ bucket = [l \in Limiters |-> [k \in Keys |->
                   IF <<l, k>> = <<"global", TheBucket>>
                   THEN [NoBucket EXCEPT !.tokens = Burst[l], !.kept = TRUE] ELSE NoBucket]]
    /\ doomed = {}
    /\ admitted = [l \in Limiters |-> [k \in Keys |-> <<>>]]

Found(l, k) == IF bucket[l][k].kept THEN bucket[l][k] ELSE Full(l)

\* mutant: the tick stays where it was
RefilledAgain(l, b) ==
    LET t == b.tokens + (now - b.tick) \div Every[l]
    IN  [b EXCEPT !.tokens = IF t < Burst[l] THEN t ELSE Burst[l]]

\* Whole intervals since the last tick become tokens, the rest stays on the tick.
Refilled(l, b) ==
    LET n == (now - b.tick) \div Every[l]
        t == b.tokens + n
    IN  [b EXCEPT !.tokens = IF t < Burst[l] THEN t ELSE Burst[l],
                  !.tick = @ + n * Every[l]]

\* One call of allow under the limiter's mutex: ok tells whether it let k through.
\* isRateLimited stamps the bucket only when it does.
Take(l, k, ok) ==
    LET b == Refilled(l, Found(l, k)) IN
    /\ ok = (b.tokens > 0)
    /\ bucket' = [bucket EXCEPT ![l][k] =
                    [b EXCEPT !.tokens = IF ok THEN @ - 1 ELSE @,
                              !.used = IF ok \/ l # "chat" THEN now ELSE @]]
    /\ admitted' = [admitted EXCEPT ![l][k] =
                      IF ok /\ ~(l = "chat" /\ k \in doomed) THEN Append(@, now) ELSE @]
    /\ UNCHANGED <<now, doomed>>

rateLimiterAllow(u, ok) == Take("user", u, ok)

ipAllow(l, ip, ok) ==
    LET known == {k \in Keys : bucket[l][k].kept} IN
    IF Cardinality(known) >= MaxBuckets /\ ip \notin known
    THEN ~ok /\ UNCHANGED limits
    ELSE Take(l, ip, ok)

globalAllow(ok) == Take("global", TheBucket, ok)

isRateLimited(c, limited) == Take("chat", c, ~limited)

\* The rightmost public forwarded address, when a trusted proxy speaks.
extractIP(c) ==
    LET public == {i \in DOMAIN c.forwarded : c.forwarded[i] \notin Private} IN
    IF TrustProxy /\ c.remote \in Private /\ public # {}
    THEN c.forwarded[CHOOSE i \in public : \A j \in public : j <= i]
    ELSE c.remote

Stale(l) == {k \in Keys : bucket[l][k].kept /\ bucket[l][k].used + Idle[l] < now}
Evict(l, ks) == bucket' = [bucket EXCEPT ![l] = [k \in Keys |-> IF k \in ks THEN NoBucket ELSE @[k]]]

\* the tickers of the API server's limiters
cleanup ==
    /\ Stale("user") # {} /\ Evict("user", Stale("user"))
    /\ UNCHANGED <<now, doomed, admitted>>

ipCleanup(l) ==
    /\ Stale(l) # {} /\ Evict(l, Stale(l))
    /\ UNCHANGED <<now, doomed, admitted>>

\* sweepStaleMaps: staleness is judged under the bucket's own mutex, and the
\* bucket removed after it was unlocked: what it gave in between is forgotten.
sweepStaleMaps ==
    /\ doomed = {} /\ Stale("chat") # {}
    /\ doomed' = Stale("chat")
    /\ UNCHANGED <<now, bucket, admitted>>

CompareAndDelete ==
    /\ doomed # {} /\ Evict("chat", doomed)
    /\ doomed' = {}
    /\ UNCHANGED <<now, admitted>>

Tick == now < MaxTime /\ now' = now + 1 /\ UNCHANGED <<bucket, doomed, admitted>>

Sweep == cleanup \/ (\E l \in {"ip", "guest"} : ipCleanup(l)) \/ sweepStaleMaps \/ CompareAndDelete

(***************************************************************************)
(* Properties                                                              *)
(***************************************************************************)

\* However requests, refills and sweeps interleave, in any window a key gets at
\* most its burst and what the window refills.  Guest buckets are left out:
\* they are swept before they have refilled.
RateHeld ==
    \A l \in Limiters \ {"guest"} : \A k \in Keys :
      LET a == admitted[l][k] IN
      \A i, j \in DOMAIN a : i <= j =>
        j - i + 1 <= Burst[l] + (a[j] - a[i] + Every[l] - 1) \div Every[l]
=============================================================================
