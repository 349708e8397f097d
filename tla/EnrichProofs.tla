---------------------------- MODULE EnrichProofs ----------------------------
(***************************************************************************)
(* No listing is kept out of enrichment for ever without a known cause,    *)
(* for any number of listings, workers, stream entries and retries: each   *)
(* token in the pending set is accounted for although the stream, the      *)
(* group and the set are changed by separate calls that may each fail.     *)
(* And the worker's rate limiter for every configuration: as long as no    *)
(* jitter cuts a wait short, no request goes out in a cooldown and the     *)
(* escalation never shifts by a negative count.                            *)
(***************************************************************************)
EXTENDS EnrichQueue, EnrichRateLimiter, TLAPS

\* What the accounting needs to know of types: an entry asks for one listing,
\* a worker past its first step has an entry in hand, the scheduler a token.
Shape ==
    /\ token \in [Entries -> Tokens \cup {None}]
    /\ owner \in [Entries -> Workers \cup {NoWorker}]
    /\ pc \in [Workers -> {"ready", "fetch", "ack", "dead", "forget"}]
    /\ cur \in [Workers -> Entries \cup {None}]
    /\ \A w \in Workers : pc[w] # "ready" => cur[w] \in Entries
    /\ at \in Tokens \cup {None}
    /\ step \in {"add", "mark"} => at \in Tokens

\* Shape and PendingAccounted are inductive together.
AccountInv == Shape /\ PendingAccounted

\* They hold at the start: nothing is marked.
LEMMA AccountInit == Init => AccountInv
  BY DEF Init, AccountInv, Shape, PendingAccounted

-----------------------------------------------------------------------------
\* XADD writes an entry that nobody refers to; the entries it evicts are no
\* longer read, and what they leave behind is recorded.
LEMMA AppendsFree ==
    ASSUME NEW t, XAdd(t)
    PROVE  \E e \in Free : \E gone :
              /\ token' = [token EXCEPT ![e] = t]
              /\ unread' = (unread \cup {e}) \ gone
              /\ leaked' = leaked \cup LastOf(gone \cap unread)
              /\ owner' = owner
<1> DEFINE f == CHOOSE x \in Free : TRUE
<1> DEFINE all == Append(stream, f)
<1> DEFINE over == IF Len(all) > StreamMaxLen THEN Len(all) - StreamMaxLen ELSE 0
<1> DEFINE g == ToSet(SubSeq(all, 1, over))
<1>1. f \in Free
  BY DEF XAdd
<1>2. /\ token' = [token EXCEPT ![f] = t]
      /\ unread' = (unread \cup {f}) \ g
      /\ leaked' = leaked \cup LastOf(g \cap unread)
      /\ owner' = owner
  BY Zenon DEF XAdd
<1> HIDE DEF f, g
<1> QED
  BY <1>1, <1>2

\* A worker that goes to its next step takes an entry of the stream along.
LEMMA ShapeGoto ==
    ASSUME Shape, NEW w \in Workers, NEW e \in Entries \cup {None},
           NEW p \in {"ready", "fetch", "ack", "dead", "forget"},
           p # "ready" => e \in Entries, Goto(w, p, e)
    PROVE  /\ pc' \in [Workers -> {"ready", "fetch", "ack", "dead", "forget"}]
           /\ cur' \in [Workers -> Entries \cup {None}]
           /\ \A v \in Workers : pc'[v] # "ready" => cur'[v] \in Entries
  BY DEF Shape, Goto

-----------------------------------------------------------------------------
(* Types *)

\* The scheduler's steps keep the types.
LEMMA SchedulerShape ==
    ASSUME Shape, Scheduler
    PROVE  Shape'
<1> USE DEF Shape, redis, rowVars, schedVars, workerVars
<1>1. ASSUME NEW S, Publish(S)
      PROVE  Shape'
  BY <1>1 DEF Publish
<1>2. ASSUME NEW t \in Tokens, Check(t)
      PROVE  Shape'
  BY <1>2 DEF Check
<1>3. CASE Add
  <2>1. PICK e \in Free : token' = [token EXCEPT ![e] = at] /\ owner' = owner
    BY <1>3, AppendsFree DEF Add
  <2>2. e \in Entries /\ at \in Tokens
    BY <1>3 DEF Add, Free
  <2>3. token' \in [Entries -> Tokens \cup {None}]
    BY <2>1, <2>2
  <2> QED
    BY <1>3, <2>1, <2>2, <2>3 DEF Add, Published
<1>4. CASE AddFails \/ Mark
  BY <1>4 DEF AddFails, Mark, Published
<1>5. CASE PurgeScan \/ Unmark \/ CycleDone \/ SchedulerFails
  BY <1>5 DEF PurgeScan, Unmark, CycleDone, SchedulerFails
<1>6. ASSUME NEW e \in Entries, PurgeDelete(e)
      PROVE  Shape'
  BY <1>6 DEF PurgeDelete
<1> QED
  BY <1>1, <1>2, <1>3, <1>4, <1>5, <1>6
     DEF Scheduler, Publishing, PublishMatched, Backfill

\* So does the handling of a request.
LEMMA HandleShape ==
    ASSUME Shape, NEW w \in Workers, Handle(w)
    PROVE  Shape'
<1> USE DEF redis, rowVars, schedVars, workerVars
<1>1. ASSUME NEW e \in Entries, Take(w, e) \/ DeadLetterNext(w, e)
      PROVE  Shape'
  <2>1. \E p \in {"ready", "fetch", "ack", "dead", "forget"} : Goto(w, p, e)
    BY <1>1 DEF Take, DeadLetterNext
  <2>2. UNCHANGED <<token, owner, at, step>>
    BY <1>1 DEF Take, DeadLetterNext
  <2> QED
    BY <2>1, <2>2, ShapeGoto DEF Shape
<1>2. ASSUME NEW p \in Pages, FetchPage(w, p)
      PROVE  Shape'
  <2>1. Goto(w, "ack", cur[w]) /\ cur[w] \in Entries
    BY <1>2 DEF FetchPage, Shape
  <2>2. UNCHANGED <<token, owner, at, step>>
    BY <1>2 DEF FetchPage
  <2> QED
    BY <2>1, <2>2, ShapeGoto DEF Shape
<1>3. CASE FetchFails(w) \/ HandleFails(w) \/ DeadLetter(w) \/ DeadLetterFails(w)
  <2>1. Goto(w, "ready", None) \/ \E p \in {"dead", "ack"} : Goto(w, p, cur[w])
    BY <1>3 DEF FetchFails, HandleFails, DeadLetter, DeadLetterFails
  <2>2. cur[w] \in Entries
    BY <1>3 DEF FetchFails, HandleFails, DeadLetter, DeadLetterFails, Shape
  <2>3. UNCHANGED <<token, owner, at, step>>
    BY <1>3 DEF FetchFails, HandleFails, DeadLetter, DeadLetterFails
  <2> QED
    BY <2>1, <2>2, <2>3, ShapeGoto DEF Shape
<1>4. CASE Claim(w)
  <2>1. UNCHANGED <<token, at, step, pc, cur>>
    BY <1>4 DEF Claim
  <2>2. owner' \in [Entries -> Workers \cup {NoWorker}]
    BY <1>4 DEF Claim, Shape
  <2> QED
    BY <2>1, <2>2 DEF Shape
<1>5. CASE DeadLetterBlind(w) \/ Ack(w) \/ RemovePending(w)
  <2>1. Goto(w, "ready", None) \/ Goto(w, "forget", cur[w])
    BY <1>5 DEF DeadLetterBlind, Ack, RemovePending
  <2>2. cur[w] \in Entries
    BY <1>5 DEF DeadLetterBlind, Ack, RemovePending, Shape
  <2>3. UNCHANGED <<token, at, step>>
    BY <1>5 DEF DeadLetterBlind, Ack, RemovePending, XAck
  <2>4. owner' = owner \/ owner' = [owner EXCEPT ![cur[w]] = NoWorker]
    BY <1>5 DEF DeadLetterBlind, Ack, RemovePending, XAck
  <2> QED
    BY <2>1, <2>2, <2>3, <2>4, ShapeGoto DEF Shape
<1> QED
  BY <1>1, <1>2, <1>3, <1>4, <1>5 DEF Handle

\* Every step keeps the types.
LEMMA ShapeStep ==
    ASSUME Shape, [Next]_vars
    PROVE  Shape'
<1> USE DEF redis, rowVars, schedVars, workerVars
<1>1. ASSUME NEW w \in Workers, Read(w)
      PROVE  Shape'
  BY <1>1 DEF Read, Shape
<1>2. ASSUME NEW w \in Workers, Drain(w) \/ \E S \in Scannable(w) : Scan(w, S)
      PROVE  Shape'
  BY <1>2 DEF Drain, Scan, Shape
<1>3. ASSUME NEW w \in Workers, Crash(w)
      PROVE  Shape'
  <2>1. Goto(w, "ready", None) /\ UNCHANGED <<token, owner, at, step>>
    BY <1>3 DEF Crash
  <2> QED
    BY <2>1, ShapeGoto DEF Shape
<1>4. CASE \/ \E t \in Tokens : Save(t) \/ Rest(t)
           \/ \E e \in Entries : Age(e)
  BY <1>4 DEF Save, Rest, Age, Shape
<1>5. CASE UNCHANGED vars
  BY <1>5 DEF vars, Shape
<1> QED
  BY <1>1, <1>2, <1>3, <1>4, <1>5, SchedulerShape, HandleShape DEF Next, Worker

-----------------------------------------------------------------------------
(* Where a marked token is *)

\* The request that answers for t: read or claimed later, finished by a
\* worker that is about to take t off the set, or purged.
InCare(t) ==
    \/ Live(t)
    \/ \E w \in Workers : pc[w] = "forget" /\ token[cur[w]] = t
    \/ step = "unmark" /\ at = t

\* A step that leaves Redis and the set alone, by a worker that is not about
\* to take a token off it or by the scheduler between two purges, moves no
\* request out of care.
LEMMA CareKept ==
    ASSUME AccountInv,
           UNCHANGED <<token, unread, owner, pendingSet, leaked>>,
           \/ UNCHANGED <<step, at>>
           \/ step # "unmark",
           \/ UNCHANGED <<pc, cur>>
           \/ \E w \in Workers : \E p, e : pc[w] # "forget" /\ Goto(w, p, e)
    PROVE  PendingAccounted'
<1> SUFFICES ASSUME NEW t \in pendingSet, t \notin leaked
             PROVE  InCare(t)'
  BY DEF PendingAccounted, InCare
<1>1. InCare(t)
  BY DEF AccountInv, PendingAccounted, InCare
<1>2. CASE Live(t)
  BY <1>2 DEF Live, InCare
<1>3. ASSUME NEW w \in Workers, pc[w] = "forget", token[cur[w]] = t
      PROVE  InCare(t)'
  <2>1. pc'[w] = pc[w] /\ cur'[w] = cur[w]
    BY <1>3 DEF Goto, AccountInv, Shape
  <2> QED
    BY <1>3, <2>1 DEF InCare
<1>4. CASE step = "unmark" /\ at = t
  BY <1>4 DEF InCare
<1> QED
  BY <1>1, <1>2, <1>3, <1>4 DEF InCare

\* XADD.
LEMMA AddAccounted ==
    ASSUME AccountInv, Add
    PROVE  PendingAccounted'
<1>1. PICK e \in Free : \E gone :
              /\ token' = [token EXCEPT ![e] = at]
              /\ unread' = (unread \cup {e}) \ gone
              /\ leaked' = leaked \cup LastOf(gone \cap unread)
              /\ owner' = owner
  BY AppendsFree DEF Add
<1>2. PICK gone :
              /\ token' = [token EXCEPT ![e] = at]
              /\ unread' = (unread \cup {e}) \ gone
              /\ leaked' = leaked \cup LastOf(gone \cap unread)
              /\ owner' = owner
  BY <1>1
<1>3. UNCHANGED <<pendingSet, pc, cur>> /\ step # "unmark"
  BY DEF Add, workerVars
<1>4. /\ e \in Entries /\ e \notin unread /\ owner[e] = NoWorker
      /\ \A w \in Workers : cur[w] # e
  BY DEF Free, InHand
<1>5. \A f : f # e => token'[f] = token[f]
  BY <1>2 DEF AccountInv, Shape
<1> SUFFICES ASSUME NEW t \in pendingSet, t \notin leaked'
             PROVE  InCare(t)'
  BY <1>3 DEF PendingAccounted, InCare
<1>6. InCare(t)
  BY <1>2 DEF AccountInv, PendingAccounted, InCare
<1>7. CASE Live(t)
  <2>1. PICK f \in Entries : /\ token[f] = t /\ f \notin gone \cap unread
                             /\ f \in unread \/ owner[f] # NoWorker
    BY <1>2, <1>7 DEF Live, LastOf
  <2>2. f # e
    BY <1>4, <2>1
  <2>3. Live(t)'
    BY <1>2, <1>5, <2>1, <2>2 DEF Live
  <2> QED
    BY <2>3 DEF InCare
<1>8. CASE \E w \in Workers : pc[w] = "forget" /\ token[cur[w]] = t
  BY <1>3, <1>4, <1>5, <1>8 DEF InCare
<1> QED
  BY <1>3, <1>6, <1>7, <1>8 DEF InCare

\* SADD: the request may have been finished before, which the step records.
LEMMA MarkAccounted ==
    ASSUME AccountInv, Mark
    PROVE  PendingAccounted'
<1>1. /\ UNCHANGED <<token, unread, owner, pc, cur>> /\ step # "unmark"
      /\ \/ /\ pendingSet' = pendingSet \cup {at}
            /\ leaked' = IF Live(at) THEN leaked ELSE leaked \cup {at}
         \/ UNCHANGED <<pendingSet, leaked>>
  BY DEF Mark, redis, workerVars
<1> SUFFICES ASSUME NEW t \in pendingSet', t \notin leaked'
             PROVE  InCare(t)'
  BY DEF PendingAccounted, InCare
<1>2. CASE t \in pendingSet
  <2>1. InCare(t)
    BY <1>1, <1>2 DEF AccountInv, PendingAccounted, InCare
  <2> QED
    BY <1>1, <2>1 DEF InCare, Live
<1>3. CASE t \notin pendingSet
  <2>1. t = at /\ Live(at)
    BY <1>1, <1>3
  <2> QED
    BY <1>1, <2>1 DEF InCare, Live
<1> QED
  BY <1>2, <1>3

\* The purge deletes an entry and then takes its token off the set; if it
\* fails in between, the token is recorded as leaked.
LEMMA PurgeAccounted ==
    ASSUME AccountInv,
           (\E e \in Entries : PurgeDelete(e)) \/ Unmark \/ SchedulerFails
    PROVE  PendingAccounted'
<1>1. UNCHANGED <<token, owner, pc, cur>>
  BY DEF PurgeDelete, Unmark, SchedulerFails, redis, workerVars
<1>2. ASSUME NEW e \in Entries, PurgeDelete(e)
      PROVE  PendingAccounted'
  <2>1. /\ unread' = unread \ {e} /\ UNCHANGED <<pendingSet, leaked>>
        /\ step = "purge" /\ step' = "unmark" /\ at' = token[e]
    BY <1>2 DEF PurgeDelete
  <2> SUFFICES ASSUME NEW t \in pendingSet, t \notin leaked
               PROVE  InCare(t)'
    BY <2>1 DEF PendingAccounted, InCare
  <2>2. InCare(t)
    BY DEF AccountInv, PendingAccounted, InCare
  <2>3. CASE Live(t)
    <3>1. PICK f \in Entries : token[f] = t /\ (f \in unread \/ owner[f] # NoWorker)
      BY <2>3 DEF Live
    <3>2. CASE f = e
      BY <1>1, <2>1, <3>1, <3>2 DEF InCare
    <3>3. CASE f # e
      BY <1>1, <2>1, <3>1, <3>3 DEF InCare, Live
    <3> QED
      BY <3>2, <3>3
  <2>4. CASE \E w \in Workers : pc[w] = "forget" /\ token[cur[w]] = t
    BY <1>1, <2>4 DEF InCare
  <2> QED
    BY <2>1, <2>2, <2>3, <2>4 DEF InCare
<1>3. CASE Unmark
  <2>1. /\ UNCHANGED unread
        /\ pendingSet' = pendingSet \ {at} /\ leaked' = leaked \ {at}
    BY <1>3 DEF Unmark, Forget, redis
  <2> SUFFICES ASSUME NEW t \in pendingSet', t \notin leaked'
               PROVE  InCare(t)'
    BY DEF PendingAccounted, InCare
  <2>2. InCare(t) /\ t # at
    BY <2>1 DEF AccountInv, PendingAccounted, InCare
  <2> QED
    BY <1>1, <2>1, <2>2 DEF InCare, Live
<1>4. CASE SchedulerFails
  <2>1. /\ UNCHANGED <<unread, pendingSet>>
        /\ leaked' = IF step = "unmark" /\ at \in pendingSet /\ ~Live(at)
                     THEN leaked \cup {at} ELSE leaked
    BY <1>4 DEF SchedulerFails, redis
  <2> SUFFICES ASSUME NEW t \in pendingSet, t \notin leaked'
               PROVE  InCare(t)'
    BY <2>1 DEF PendingAccounted, InCare
  <2>2. InCare(t)
    BY <2>1 DEF AccountInv, PendingAccounted, InCare
  <2>3. Live(t) \/ \E w \in Workers : pc[w] = "forget" /\ token[cur[w]] = t
    BY <2>1, <2>2 DEF InCare
  <2> QED
    BY <1>1, <2>1, <2>3 DEF InCare, Live
<1> QED
  BY <1>2, <1>3, <1>4

-----------------------------------------------------------------------------
(* The workers *)

\* XREADGROUP: an entry that was unread is pending.
LEMMA ReadAccounted ==
    ASSUME AccountInv, NEW w \in Workers, Read(w), NoWorker \notin Workers
    PROVE  PendingAccounted'
<1> DEFINE taken == NextUnread
<1>1. /\ UNCHANGED <<token, pendingSet, leaked, pc, cur, step, at>>
      /\ unread' = unread \ taken
      /\ owner' = [e \in Entries |-> IF e \in taken THEN w ELSE owner[e]]
  BY DEF Read, schedVars
<1> HIDE DEF taken
<1> SUFFICES ASSUME NEW t \in pendingSet, t \notin leaked
             PROVE  InCare(t)'
  BY <1>1 DEF PendingAccounted, InCare
<1>2. InCare(t)
  BY DEF AccountInv, PendingAccounted, InCare
<1>3. ASSUME Live(t) PROVE Live(t)'
  BY <1>1, <1>3 DEF Live
<1> QED
  BY <1>1, <1>2, <1>3 DEF InCare

\* A call that takes the entries S off the pending list, and gives others to
\* w, leaves in care what it does not record as leaked.
LEMMA LostAccounted ==
    ASSUME AccountInv, NEW w \in Workers, NEW S,
           NoWorker \notin Workers,
           UNCHANGED <<token, unread, pendingSet>>,
           leaked' = leaked \cup LastOf(S),
           \A e \in Entries \ S : owner'[e] \in {owner[e], w},
           UNCHANGED <<step, at>>,
           \A v \in Workers : pc[v] = "forget" =>
                pc'[v] = "forget" /\ cur'[v] = cur[v]
    PROVE  PendingAccounted'
<1> SUFFICES ASSUME NEW t \in pendingSet, t \notin leaked'
             PROVE  InCare(t)'
  BY DEF PendingAccounted, InCare
<1>1. InCare(t)
  BY DEF AccountInv, PendingAccounted, InCare
<1>2. CASE Live(t)
  <2>1. PICK f \in Entries \ S : token[f] = t /\ (f \in unread \/ owner[f] # NoWorker)
    BY <1>2 DEF Live, LastOf
  <2>2. Live(t)'
    BY <2>1 DEF Live
  <2> QED
    BY <2>2 DEF InCare
<1> QED
  BY <1>1, <1>2 DEF InCare

\* XCLAIM.
LEMMA ClaimAccounted ==
    ASSUME AccountInv, NEW w \in Workers, Claim(w), NoWorker \notin Workers
    PROVE  PendingAccounted'
<1> DEFINE S == {e \in claim[w] : owner[e] # NoWorker /\ e \in idle}
<1> DEFINE lost == S \ Stored
<1>1. /\ leaked' = leaked \cup LastOf(lost)
      /\ owner' = [e \in Entries |-> IF e \in lost THEN NoWorker
                                     ELSE IF e \in S THEN w ELSE owner[e]]
  BY Zenon DEF Claim
<1> HIDE DEF S, lost
<1>2. UNCHANGED <<token, unread, pendingSet, pc, cur, step, at>>
  BY DEF Claim, schedVars
<1> QED
  BY <1>1, <1>2, LostAccounted

\* deadLetter of an entry that cannot be read: acked, its token unknown.
LEMMA BlindAccounted ==
    ASSUME AccountInv, NEW w \in Workers, DeadLetterBlind(w), NoWorker \notin Workers
    PROVE  PendingAccounted'
<1>1. /\ UNCHANGED <<token, unread, pendingSet, step, at>>
      /\ leaked' = leaked \cup LastOf({cur[w]})
      /\ owner' = [owner EXCEPT ![cur[w]] = NoWorker]
      /\ pc[w] = "dead" /\ Goto(w, "ready", None)
  BY DEF DeadLetterBlind, XAck, schedVars
<1>2. \A e \in Entries \ {cur[w]} : owner'[e] \in {owner[e], w}
  BY <1>1 DEF AccountInv, Shape
<1>3. \A v \in Workers : pc[v] = "forget" => pc'[v] = "forget" /\ cur'[v] = cur[v]
  BY <1>1 DEF Goto, AccountInv, Shape
<1> QED
  BY <1>1, <1>2, <1>3, LostAccounted

\* XACK: the worker goes on to take the token off the set.
LEMMA AckAccounted ==
    ASSUME AccountInv, NEW w \in Workers, Ack(w)
    PROVE  PendingAccounted'
<1>1. /\ UNCHANGED <<token, unread, pendingSet, leaked, step, at>>
      /\ owner' = [owner EXCEPT ![cur[w]] = NoWorker] \/ owner' = owner
      /\ pc[w] = "ack" /\ Goto(w, "forget", cur[w])
  BY DEF Ack, XAck, redis, schedVars
<1>2. /\ pc'[w] = "forget" /\ cur'[w] = cur[w]
      /\ \A v \in Workers : pc[v] = "forget" => pc'[v] = "forget" /\ cur'[v] = cur[v]
  BY <1>1 DEF Goto, AccountInv, Shape
<1> SUFFICES ASSUME NEW t \in pendingSet, t \notin leaked
             PROVE  InCare(t)'
  BY <1>1 DEF PendingAccounted, InCare
<1>3. InCare(t)
  BY DEF AccountInv, PendingAccounted, InCare
<1>4. CASE Live(t)
  <2>1. PICK e \in Entries : token[e] = t /\ (e \in unread \/ owner[e] # NoWorker)
    BY <1>4 DEF Live
  <2>2. CASE e = cur[w]
    BY <1>1, <1>2, <2>1, <2>2 DEF InCare
  <2>3. CASE e # cur[w]
    <3>1. owner'[e] = owner[e]
      BY <1>1, <2>3 DEF AccountInv, Shape
    <3> QED
      BY <1>1, <2>1, <3>1 DEF InCare, Live
  <2> QED
    BY <2>2, <2>3
<1> QED
  BY <1>1, <1>2, <1>3, <1>4 DEF InCare

\* SREM of the worker's token, or a failure or crash before it that leaves
\* the token in the set and is recorded.
LEMMA ForgetAccounted ==
    ASSUME AccountInv, NEW w \in Workers, RemovePending(w) \/ Crash(w)
    PROVE  PendingAccounted'
<1>1. UNCHANGED <<token, unread, owner, step, at>> /\ Goto(w, "ready", None)
  BY DEF RemovePending, Crash, redis, schedVars
<1>2. \A v \in Workers \ {w} : pc'[v] = pc[v] /\ cur'[v] = cur[v]
  BY <1>1 DEF Goto, AccountInv, Shape
<1>3. CASE /\ pc[w] = "forget"
           /\ pendingSet' = pendingSet \ {token[cur[w]]}
           /\ leaked' = leaked \ {token[cur[w]]}
  <2> SUFFICES ASSUME NEW t \in pendingSet', t \notin leaked'
               PROVE  InCare(t)'
    BY DEF PendingAccounted, InCare
  <2>1. InCare(t) /\ t # token[cur[w]]
    BY <1>3 DEF AccountInv, PendingAccounted, InCare
  <2> QED
    BY <1>1, <1>2, <2>1 DEF InCare, Live
<1>4. CASE /\ pc[w] = "forget"
           /\ pendingSet' = pendingSet /\ leaked' = leaked \cup LastOf({cur[w]})
  <2> SUFFICES ASSUME NEW t \in pendingSet, t \notin leaked'
               PROVE  InCare(t)'
    BY <1>4 DEF PendingAccounted, InCare
  <2>1. InCare(t)
    BY <1>4 DEF AccountInv, PendingAccounted, InCare
  <2>2. CASE token[cur[w]] = t
    <3>1. Live(t)
      BY <1>4, <2>2 DEF LastOf, Live
    <3> QED
      BY <1>1, <3>1 DEF InCare, Live
  <2>3. CASE token[cur[w]] # t
    BY <1>1, <1>2, <2>1, <2>3 DEF InCare, Live
  <2> QED
    BY <2>2, <2>3
<1>5. CASE pc[w] # "forget" /\ UNCHANGED <<pendingSet, leaked>>
  BY <1>1, <1>5, CareKept
<1> QED
  BY <1>3, <1>4, <1>5 DEF RemovePending, Forget, Crash

-----------------------------------------------------------------------------
(* Every step *)

\* The scheduler's steps.
LEMMA SchedulerAccounted ==
    ASSUME AccountInv, Scheduler
    PROVE  PendingAccounted'
<1> USE DEF redis, rowVars, schedVars, workerVars
<1>1. ASSUME NEW S, Publish(S)
      PROVE  PendingAccounted'
  BY <1>1, CareKept DEF Publish
<1>2. ASSUME NEW t \in Tokens, Check(t)
      PROVE  PendingAccounted'
  BY <1>2, CareKept DEF Check
<1>3. CASE AddFails \/ PurgeScan \/ CycleDone
  BY <1>3, CareKept DEF AddFails, PurgeScan, CycleDone
<1> QED
  BY <1>1, <1>2, <1>3, AddAccounted, MarkAccounted, PurgeAccounted
     DEF Scheduler, Publishing, PublishMatched, Backfill

\* A worker's steps.
LEMMA WorkerAccounted ==
    ASSUME AccountInv, NEW w \in Workers, Worker(w), NoWorker \notin Workers
    PROVE  PendingAccounted'
<1> USE DEF redis, rowVars, schedVars, workerVars
<1>1. ASSUME NEW e \in Entries, Take(w, e) \/ DeadLetterNext(w, e)
      PROVE  PendingAccounted'
  <2>1. pc[w] = "ready" /\ \E p : Goto(w, p, e)
    BY <1>1 DEF Take, DeadLetterNext, Ready
  <2>2. UNCHANGED <<token, unread, owner, pendingSet, leaked, step, at>>
    BY <1>1 DEF Take, DeadLetterNext
  <2> QED
    BY <2>1, <2>2, CareKept
<1>2. ASSUME NEW p \in Pages, FetchPage(w, p)
      PROVE  PendingAccounted'
  <2>1. pc[w] = "fetch" /\ Goto(w, "ack", cur[w])
    BY <1>2 DEF FetchPage
  <2>2. UNCHANGED <<token, unread, owner, pendingSet, leaked, step, at>>
    BY <1>2 DEF FetchPage
  <2> QED
    BY <2>1, <2>2, CareKept
<1>3. CASE FetchFails(w) \/ HandleFails(w) \/ DeadLetter(w) \/ DeadLetterFails(w)
  <2>1. pc[w] # "forget" /\ \E p, e : Goto(w, p, e)
    BY <1>3 DEF FetchFails, HandleFails, DeadLetter, DeadLetterFails
  <2>2. UNCHANGED <<token, unread, owner, pendingSet, leaked, step, at>>
    BY <1>3 DEF FetchFails, HandleFails, DeadLetter, DeadLetterFails
  <2> QED
    BY <2>1, <2>2, CareKept
<1>4. CASE Drain(w) \/ \E S \in Scannable(w) : Scan(w, S)
  BY <1>4, CareKept DEF Drain, Scan
<1> QED
  BY <1>1, <1>2, <1>3, <1>4, ReadAccounted, ClaimAccounted, BlindAccounted,
     AckAccounted, ForgetAccounted DEF Worker, Handle

\* Every step keeps the accounting.
LEMMA AccountStep ==
    ASSUME AccountInv, [Next]_vars
    PROVE  AccountInv'
<1> USE DEF redis, rowVars, schedVars, workerVars
<1> SUFFICES PendingAccounted'
  BY ShapeStep DEF AccountInv
<1>1. CASE \E t \in Tokens : Save(t) \/ Rest(t)
  BY <1>1, CareKept DEF Save, Rest
<1>2. CASE \E e \in Entries : Age(e)
  BY <1>2, CareKept DEF Age
<1>3. CASE UNCHANGED vars
  BY <1>3, CareKept DEF vars
<1> QED
  BY <1>1, <1>2, <1>3, SchedulerAccounted, WorkerAccounted, EnrichConstants DEF Next

\* A token stays in carwatch:enrich:pending only while a request for it will
\* still be read, claimed, finished or purged, or for one of the recorded
\* causes; otherwise the scheduler would never publish it again.
THEOREM MarksAccountedFor == Spec => []PendingAccounted
<1>1. Spec => []AccountInv
  BY AccountInit, AccountStep, PTL DEF Spec
<1>2. AccountInv => PendingAccounted
  BY DEF AccountInv
<1> QED
  BY <1>1, <1>2, PTL

-----------------------------------------------------------------------------
(* Attempts *)

\* enrich_attempts is counted up to the bound.
AttemptsType == attempts \in [Tokens -> 0..ResetBelow]

\* What a step does to the attempts: nothing, a row that comes back starts
\* anew, or a page or a failure counts one, after a reset perhaps.
AttemptsMove ==
    \/ attempts' = attempts
    \/ \E t \in Tokens : t \notin rows /\ attempts' = [attempts EXCEPT ![t] = 0]
    \/ \E before \in {attempts, ResetAttempts(have', attempts)} : \E t :
          attempts' = before \/ attempts' = Incremented(before, t)

\* Every step is one of these.
LEMMA AttemptsShape ==
    ASSUME [Next]_vars
    PROVE  AttemptsMove
<1> USE DEF AttemptsMove, rowVars
<1>1. ASSUME NEW w \in Workers, Handle(w)
      PROVE  AttemptsMove
  <2>1. ASSUME NEW p \in Pages, FetchPage(w, p)
        PROVE  AttemptsMove
    BY <2>1 DEF FetchPage, Counted
  <2>2. CASE FetchFails(w)
    BY <2>2 DEF FetchFails, Counted
  <2>3. CASE \/ \E e \in Entries : Take(w, e) \/ DeadLetterNext(w, e)
             \/ HandleFails(w) \/ Claim(w) \/ DeadLetter(w)
    BY <2>3 DEF Take, DeadLetterNext, HandleFails, Claim, DeadLetter
  <2>4. CASE \/ DeadLetterBlind(w) \/ DeadLetterFails(w) \/ Ack(w) \/ RemovePending(w)
    BY <2>4 DEF DeadLetterBlind, DeadLetterFails, Ack, RemovePending
  <2> QED
    BY <1>1, <2>1, <2>2, <2>3, <2>4 DEF Handle
<1>2. CASE Scheduler
  <2>1. CASE Publishing
    BY <2>1 DEF Publishing, Check, PurgeDelete, Add, AddFails, Mark, Unmark, CycleDone
  <2>2. CASE (\E S \in SUBSET Tokens : PublishMatched(S)) \/ Backfill
    BY <2>2 DEF PublishMatched, Backfill, Publish
  <2> QED
    BY <1>2, <2>1, <2>2 DEF Scheduler, PurgeScan, SchedulerFails
<1>3. CASE \E t \in Tokens : Save(t) \/ Rest(t)
  BY <1>3 DEF Save, Rest
<1>4. CASE \E w \in Workers : Read(w) \/ Drain(w) \/ Crash(w) \/ \E S \in Scannable(w) : Scan(w, S)
  BY <1>4 DEF Read, Drain, Crash, Scan
<1>5. CASE (\E e \in Entries : Age(e)) \/ UNCHANGED vars
  BY <1>5 DEF Age, vars
<1> QED
  BY <1>1, <1>2, <1>3, <1>4, <1>5 DEF Next, Worker

\* A reset and an increment keep the type.
LEMMA AttemptsTypeStep ==
    ASSUME AttemptsType, [Next]_vars
    PROVE  AttemptsType'
<1>1. AttemptsMove
  BY AttemptsShape
<1>2. ResetBelow \in Nat
  BY EnrichConstants
<1>3. ResetAttempts(have', attempts) \in [Tokens -> 0..ResetBelow]
  BY <1>2 DEF ResetAttempts, AttemptsType
<1>4. ASSUME NEW b \in [Tokens -> 0..ResetBelow], NEW t
      PROVE  Incremented(b, t) \in [Tokens -> 0..ResetBelow]
  <2>1. CASE t \in Tokens
    <3>1. Least(b[t] + 1, ResetBelow) \in 0..ResetBelow
      BY <1>2, <2>1 DEF Least
    <3> QED
      BY <3>1 DEF Incremented
  <2>2. CASE t \notin Tokens
    BY <2>2 DEF Incremented
  <2> QED
    BY <2>1, <2>2
<1> QED
  BY <1>1, <1>2, <1>3, <1>4 DEF AttemptsMove, AttemptsType

\* A listing that lacks only its body type keeps its attempts: the reset that
\* a good page of another listing causes leaves it out.
LEMMA BodyAttemptsStep ==
    ASSUME AttemptsType, [Next]_vars, NEW t \in Tokens,
           OnlyBodyMissing(t), OnlyBodyMissing(t)'
    PROVE  attempts'[t] >= attempts[t]
<1>1. AttemptsMove
  BY AttemptsShape
<1>2. ResetBelow \in Nat /\ attempts[t] \in 0..ResetBelow
  BY EnrichConstants DEF AttemptsType
<1>3. t \in rows /\ have'[t] = Core /\ t \notin Unowned
  BY DEF OnlyBodyMissing
<1>4. ResetAttempts(have', attempts)[t] = attempts[t]
  BY <1>3 DEF ResetAttempts
<1>5. ASSUME NEW b \in {attempts, ResetAttempts(have', attempts)}, NEW u
      PROVE  Incremented(b, u)[t] >= attempts[t]
  <2>1. b[t] = attempts[t] /\ b = [x \in Tokens |-> b[x]]
    BY <1>4 DEF ResetAttempts, AttemptsType
  <2> QED
    BY <1>2, <2>1 DEF Incremented, Least
<1>6. CASE \E u \in Tokens : u \notin rows /\ attempts' = [attempts EXCEPT ![u] = 0]
  BY <1>2, <1>3, <1>6 DEF AttemptsType
<1> QED
  BY <1>1, <1>2, <1>4, <1>5, <1>6 DEF AttemptsMove

\* A listing whose page names no body type is not fetched for ever because
\* other listings are enriched.
THEOREM BodyAttemptsNeverReset == Spec => BodyAttemptsKept
<1>1. Init => AttemptsType
  BY EnrichConstants DEF Init, AttemptsType
<1>2. Spec => []AttemptsType
  BY <1>1, AttemptsTypeStep, PTL DEF Spec
<1>3. ASSUME AttemptsType, [Next]_vars
      PROVE  [\A t \in Tokens :
                OnlyBodyMissing(t) /\ OnlyBodyMissing(t)' => attempts'[t] >= attempts[t]]_vars
  BY <1>3, BodyAttemptsStep
<1> QED
  BY <1>2, <1>3, PTL DEF Spec, BodyAttemptsKept

-----------------------------------------------------------------------------
(* The rate limiter *)

\* The part of the types the argument needs, and the argument: between a
\* full wait and its record no cooldown is left, so a challenge is counted
\* as a new cooldown.
LimiterInv ==
    /\ currentDelay \in Nat
    /\ cooldownLeft \in Nat
    /\ consecutiveCooldowns \in Nat
    /\ windowAge \in Nat
    /\ early \in BOOLEAN
    /\ stage \in {"fetch", "record"} /\ cooldownLeft > 0 => early
    /\ stage = "panicked" => early /\ cooldownLeft > 0

\* A fresh limiter satisfies LimiterInv.
LEMMA LimiterStarts == LimiterInit => LimiterInv
<1> SUFFICES ASSUME LimiterInit PROVE LimiterInv
  OBVIOUS
<1>1. early \in BOOLEAN
  BY Zenon DEF LimiterInit
<1> QED
  BY <1>1, LimiterConstants DEF LimiterInit, LimiterInv

\* Time only shortens the cooldown.
LEMMA PassShortens ==
    ASSUME LimiterInv, NEW t \in Int, t >= 0, Pass(t)
    PROVE  /\ cooldownLeft' \in Nat
           /\ windowAge' \in Nat
           /\ cooldownLeft' <= cooldownLeft
           /\ t >= cooldownLeft => cooldownLeft' = 0
           /\ UNCHANGED <<currentDelay, consecutiveCooldowns>>
BY LimiterConstants DEF LimiterInv, Pass, Most, Lesser

\* Every step keeps LimiterInv.
LEMMA LimiterStep == LimiterInv /\ [LimiterNext]_limiter => LimiterInv'
<1> SUFFICES ASSUME LimiterInv, [LimiterNext]_limiter PROVE LimiterInv'
  OBVIOUS
<1>1. ASSUME NEW s \in JitterSigns, Wait(s) PROVE LimiterInv'
  <2>1. /\ Delay \in Nat
        /\ cooldownLeft <= Delay \/ cooldownLeft = 0
    BY DEF Delay, LimiterInv
  <2>2. /\ Jitter(s) \in Int
        /\ Delay + Jitter(s) \in Int
        /\ Delay + Jitter(s) >= 0
    <3>1. s \in {-1, 0, 1}
      BY LimiterConstants
    <3>2. Delay \div 4 \in Nat /\ Delay \div 4 <= Delay
      BY <2>1
    <3>3. Jitter(s) = 0 - (Delay \div 4) \/ Jitter(s) = 0
            \/ Jitter(s) = Delay \div 4
      BY <3>1, <3>2 DEF Jitter
    <3> QED
      BY <2>1, <3>2, <3>3
  <2>3. /\ cooldownLeft' \in Nat
        /\ windowAge' \in Nat
        /\ Delay + Jitter(s) >= cooldownLeft => cooldownLeft' = 0
        /\ UNCHANGED <<currentDelay, consecutiveCooldowns>>
    BY <1>1, <2>2, PassShortens DEF Wait
  <2>4. early' \in BOOLEAN /\ stage' = "fetch"
    BY <1>1, Zenon DEF Wait
  <2>5. ASSUME ~early' PROVE cooldownLeft' = 0
    <3>1. ~(Jitter(s) < 0)
      BY <1>1, <2>5, Zenon DEF Wait
    <3> QED
      BY <2>1, <2>2, <2>3, <3>1 DEF LimiterInv
  <2> QED
    BY <2>3, <2>4, <2>5 DEF LimiterInv
<1>2. ASSUME NEW t \in Gaps, Idle(t) PROVE LimiterInv'
  <2>1. t \in Int /\ t >= 0
    BY LimiterConstants
  <2> QED
    BY <1>2, <2>1, PassShortens DEF Idle, LimiterInv
<1>3. ASSUME NEW t \in FetchTimes, Fetch(t) PROVE LimiterInv'
  <2>1. t \in Int /\ t >= 0
    BY LimiterConstants
  <2> QED
    BY <1>3, <2>1, PassShortens DEF Fetch, LimiterInv
<1>4. CASE RecordSuccess
  BY <1>4, LimiterConstants
     DEF RecordSuccess, Count, Expired, Faster, Most, LimiterInv
<1>5. CASE RecordChallenge
  <2>1. /\ currentDelay' \in Nat
        /\ windowAge' \in Nat
        /\ early' = early
    BY <1>5, LimiterConstants
       DEF RecordChallenge, Count, Expired, Lesser, LimiterInv
  <2>2. Repeats \in Nat /\ (Repeats = 0 => cooldownLeft > 0 /\ early)
    BY <1>5 DEF Repeats, LimiterInv, RecordChallenge
  <2>3. CASE ~Blocked(windowTotal', windowSuccesses')
    BY <1>5, <2>1, <2>3 DEF RecordChallenge, LimiterInv
  <2>4. CASE Blocked(windowTotal', windowSuccesses') /\ Repeats = 0
    BY <1>5, <2>1, <2>2, <2>4 DEF RecordChallenge, LimiterInv
  <2>5. CASE Blocked(windowTotal', windowSuccesses') /\ Repeats # 0
    <3>1. Lesser(Repeats, 3) \in 1..3
      BY <2>2, <2>5 DEF Lesser
    <3>2. <<1, 2, 4>>[Lesser(Repeats, 3)] \in Nat
      BY <3>1
    <3>3. Lesser(Escalated(Repeats), MaxCooldownDur) \in Nat
      BY <3>2, LimiterConstants DEF Escalated, MaxCooldownDur, Lesser
    <3> QED
      BY <1>5, <2>1, <2>2, <2>5, <3>3 DEF RecordChallenge, LimiterInv
  <2> QED
    BY <2>3, <2>4, <2>5
<1>6. CASE RecordNothing
  BY <1>6 DEF RecordNothing, limits, LimiterInv
<1>7. CASE Restart
  BY <1>7, LimiterConstants DEF Restart, LimiterInv
<1>8. CASE UNCHANGED limiter
  BY <1>8 DEF limiter, limits, LimiterInv
<1> QED
  BY <1>1, <1>2, <1>3, <1>4, <1>5, <1>6, <1>7, <1>8 DEF LimiterNext

\* Wait keeps the worker away from Yad2 for the whole cooldown unless
\* a negative jitter has cut some wait short, for every configuration.
THEOREM CooldownKeptWithoutEarlyWake == LimiterSpec => []CooldownRespected
<1>1. LimiterInv => CooldownRespected
  BY DEF LimiterInv, CooldownRespected
<1> QED
  BY <1>1, LimiterStarts, LimiterStep, PTL DEF LimiterSpec

\* RecordChallenge panics only if a wait was cut short, for every
\* configuration.
THEOREM NoPanicWithoutEarlyWake == LimiterSpec => []PanicNeedsEarlyWake
<1>1. LimiterInv => PanicNeedsEarlyWake
  BY DEF LimiterInv, PanicNeedsEarlyWake
<1> QED
  BY <1>1, LimiterStarts, LimiterStep, PTL DEF LimiterSpec
=============================================================================
