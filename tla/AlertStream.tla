---------------------------- MODULE AlertStream ----------------------------
(***************************************************************************)
(* The Redis Stream "carwatch:alerts" and its consumer group               *)
(* "notifier-workers", as internal/broker uses them.  Redis is external:   *)
(* the operators below say what XADD, XREADGROUP, XPENDING, XCLAIM and     *)
(* XACK (Redis 7, docker-compose.prod.yaml) do to the group's state.       *)
(*                                                                         *)
(* An entry's id is its position in the log.  Entries are never removed by *)
(* the consumer; XADD with MAXLEN ~ trims the oldest ones.                 *)
(***************************************************************************)
EXTENDS Naturals, Sequences, FiniteSets, AlertKeys

CONSTANTS Consumers,        \* consumer names (host names of notifier workers)
          NoConsumer,       \* owner of an entry that is not pending
          MaxAlerts,        \* bound: entries ever added to the stream
          StreamMaxLen,     \* MAXLEN of broker.Publish (100000)
          ReadCount,        \* COUNT of XREADGROUP (10)
          PendingCount,     \* COUNT of XPENDING when reclaiming (50)
          DrainCount        \* COUNT of XPENDING when draining (100)

ASSUME StreamConstants ==
    /\ MaxAlerts \in Nat
    /\ StreamMaxLen \in Nat \ {0}
    /\ ReadCount \in Nat \ {0}
    /\ PendingCount \in Nat \ {0}
    /\ DrainCount \in Nat \ {0}
    /\ NoConsumer \notin Consumers
    /\ IsFiniteSet(Consumers)

Ids == 1..MaxAlerts

\* How long an entry has been pending since its last delivery: below 30 s,
\* at least reclaimIdleThreshold (30 s), at least orphanIdleThreshold (5 min).
Idleness == 0..2

VARIABLES log,              \* every alert ever added, in order
          trimmed,          \* entries 1..trimmed are gone from the stream
          lastId,           \* the group's last-delivered id
          owner,            \* id -> consumer it is pending for, or NoConsumer
          count,            \* id -> its delivery count (RetryCount)
          idle              \* id -> its idleness

streamVars == <<log, trimmed, lastId, owner, count, idle>>

StreamType ==
    /\ log \in Seq(Alert)
    /\ Len(log) <= MaxAlerts
    /\ trimmed \in Nat
    /\ lastId \in Nat
    /\ owner \in [Ids -> Consumers \cup {NoConsumer}]
    /\ count \in [Ids -> Nat]
    /\ idle \in [Ids -> Idleness]

StreamInit ==
    /\ log = << >>
    /\ trimmed = 0
    /\ lastId = 0
    /\ owner = [i \in Ids |-> NoConsumer]
    /\ count = [i \in Ids |-> 0]
    /\ idle = [i \in Ids |-> 0]

-----------------------------------------------------------------------------
(* Queries *)

Published == 1..Len(log)
Pending(i) == owner[i] # NoConsumer
Stored(i) == i \in Published /\ i > trimmed
Unread == {i \in Ids : Stored(i) /\ i > lastId}

\* An alert somebody can still act on: not read yet, or read and not acked.
Live(i) == i \in Unread \/ Pending(i)

\* The n smallest ids of S: what a COUNT argument keeps.
Oldest(n, S) == {i \in S : Cardinality({j \in S : j < i}) < n}

-----------------------------------------------------------------------------
(* Commands *)

\* XADD MAXLEN ~ n: append, and trim to no fewer than n entries.
XAdd(alert) ==
    /\ Len(log) < MaxAlerts
    /\ log' = Append(log, alert)
    /\ \E cut \in trimmed..MaxAlerts :
          /\ cut = trimmed \/ cut + StreamMaxLen <= Len(log) + 1
          /\ trimmed' = cut
    /\ UNCHANGED <<lastId, owner, count, idle>>

\* Entries the XADD of this step trims away.
NewlyTrimmed == {i \in Ids : i > trimmed /\ i <= trimmed'}

\* XREADGROUP > : the oldest undelivered entries, delivered once, to c.
XReadGroup(c, batch) ==
    /\ batch = Oldest(ReadCount, Unread)
    /\ \E top \in batch : /\ \A i \in batch : i <= top
                          /\ lastId' = top
    /\ owner' = [i \in Ids |-> IF i \in batch THEN c ELSE owner[i]]
    /\ count' = [i \in Ids |-> IF i \in batch THEN 1 ELSE count[i]]
    /\ idle' = [i \in Ids |-> IF i \in batch THEN 0 ELSE idle[i]]
    /\ UNCHANGED <<log, trimmed>>

\* XPENDING IDLE min: pending entries, oldest first.
XPendingOf(c, min, n) ==
    Oldest(n, {i \in Ids : owner[i] = c /\ idle[i] >= min})
XPendingAll(min) ==
    Oldest(PendingCount, {i \in Ids : Pending(i) /\ idle[i] >= min})

\* XCLAIM: those of ids still pending and idle for min; each claim counts as
\* a delivery.  An entry already trimmed is dropped from the pending list.
ClaimableForced(ids, min) == {i \in ids : idle[i] >= min}
Claimable(ids, min) == {i \in ids : Pending(i) /\ idle[i] >= min}
Claimed(ids, min) == {i \in Claimable(ids, min) : i > trimmed}
XClaimJustId(c, ids, min) ==
    LET gone == Claimable(ids, min) \ Claimed(ids, min) IN
    /\ owner' = [i \in Ids |-> IF i \in gone THEN NoConsumer
                               ELSE IF i \in Claimed(ids, min) THEN c
                               ELSE owner[i]]
    /\ idle' = [i \in Ids |-> IF i \in Claimed(ids, min) THEN 0 ELSE idle[i]]
    /\ UNCHANGED <<log, trimmed, lastId, count>>
XClaim(c, ids, min) ==
    LET gone == Claimable(ids, min) \ Claimed(ids, min) IN
    /\ owner' = [i \in Ids |-> IF i \in gone THEN NoConsumer
                               ELSE IF i \in Claimed(ids, min) THEN c
                               ELSE owner[i]]
    /\ count' = [i \in Ids |-> IF i \in Claimed(ids, min) THEN count[i] + 1
                               ELSE count[i]]
    /\ idle' = [i \in Ids |-> IF i \in Claimed(ids, min) THEN 0 ELSE idle[i]]
    /\ UNCHANGED <<log, trimmed, lastId>>

\* XACK removes the entry from the pending list, whoever owns it.
XAck(i) ==
    /\ owner' = [owner EXCEPT ![i] = NoConsumer]
    /\ UNCHANGED <<log, trimmed, lastId, count, idle>>

\* Time passes for a pending entry.
Age(i) ==
    /\ Pending(i)
    /\ idle[i] < 2
    /\ idle' = [idle EXCEPT ![i] = @ + 1]
    /\ UNCHANGED <<log, trimmed, lastId, owner, count>>
=============================================================================
