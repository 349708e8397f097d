------------------------ MODULE AlertPipelineProofs ------------------------
(***************************************************************************)
(* Theorems about AlertPipeline, for any number of workers, requests,      *)
(* routes and listings and any bounds: retries are bounded, a settled      *)
(* alert stays settled and no listing is lost silently; a listing is shown *)
(* twice only for a cause, the delivery ledger tells the truth, and a      *)
(* message is handed to the notifier a bounded number of times.            *)
(***************************************************************************)
EXTENDS AlertPipeline, FiniteSetTheorems, TLAPS

Settling == {"release", "bury", "ack", "record"}

\* Ids the stream and the workers talk about have been read from the log.
StreamShape ==
    /\ trimmed <= Len(log)
    /\ lastId <= Len(log)
    /\ \A i \in Ids : Pending(i) => i <= lastId

\* A worker's lists hold ids that were read, and while it settles a message
\* it knows which one and how.
WorkerShape ==
    \A c \in Consumers :
        /\ \A i \in bury[c] \cup retry[c] \cup work[c] : i <= lastId
        /\ ret[c] \notin Settling
        /\ pc[c] \in Settling =>
              cur[c] \in Ids /\ cur[c] <= lastId /\ status[c] # "none"
        /\ pc[c] \in {"release", "bury", "record"} => status[c] # "gone"

Shape == TypeOK /\ StreamShape /\ WorkerShape

-----------------------------------------------------------------------------
(* Helpers *)

\* COUNT keeps a subset.
LEMMA OldestSubset == ASSUME NEW n, NEW S PROVE Oldest(n, S) \subseteq S
BY DEF Oldest

\* The keys of an alert are keys.
LEMMA AlertKeysType ==
    ASSUME log \in Seq(Alert), NEW i \in Published
    PROVE  AlertKeysOf(i) \in SUBSET Keys
<1>1. log[i] \in Alert
  BY DEF Published
<1> QED BY <1>1 DEF AlertKeysOf, KeysOf, Keys, Alert

\* What XADD does to the stream.
LEMMA XAddShape ==
    ASSUME StreamType, StreamShape, NEW a \in Alert, XAdd(a)
    PROVE  /\ StreamType' /\ StreamShape'
           /\ Len(log') = Len(log) + 1
           /\ \A i \in Published : log'[i] = log[i]
           /\ log'[Len(log) + 1] = a
           /\ trimmed' >= trimmed /\ trimmed' <= Len(log)
           /\ lastId' = lastId
<1> USE StreamConstants
<1>1. log' \in Seq(Alert) /\ Len(log') = Len(log) + 1 /\ Len(log) \in Nat
  BY DEF XAdd, StreamType
<1>2. (\A i \in Published : log'[i] = log[i]) /\ log'[Len(log) + 1] = a
  BY DEF XAdd, StreamType, Published
<1>3. trimmed' \in Nat /\ trimmed' >= trimmed /\ trimmed' <= Len(log)
  BY <1>1 DEF XAdd, StreamType, StreamShape
<1>4. UNCHANGED <<lastId, owner, count, idle>> /\ Len(log) < MaxAlerts
  BY DEF XAdd
<1> QED BY <1>1, <1>2, <1>3, <1>4 DEF StreamType, StreamShape, Pending

\* XREADGROUP hands out ids of the log that had not been read.
LEMMA XReadGroupShape ==
    ASSUME StreamType, StreamShape, NEW c \in Consumers, NEW batch,
           XReadGroup(c, batch)
    PROVE  /\ StreamType' /\ StreamShape'
           /\ batch \subseteq Ids
           /\ \A i \in batch : i > lastId /\ i <= lastId' /\ ~Pending(i)
           /\ lastId' >= lastId
           /\ log' = log /\ trimmed' = trimmed
<1>1. batch \subseteq Unread
  BY OldestSubset DEF XReadGroup
<1>2. batch \subseteq Ids /\ \A i \in batch : i > lastId /\ i <= Len(log)
  BY <1>1 DEF Unread, Stored, Published
<1>3. \A i \in batch : i \in Nat
  BY <1>2, StreamConstants DEF Ids
<1>4. lastId' \in Nat /\ lastId' > lastId /\ lastId' <= Len(log)
      /\ \A i \in batch : i <= lastId'
  BY <1>2, <1>3 DEF XReadGroup, StreamType
<1>5. owner' \in [Ids -> Consumers \cup {NoConsumer}]
  BY DEF XReadGroup, StreamType
<1>6. count' \in [Ids -> Nat]
  BY DEF XReadGroup, StreamType
<1>7. idle' \in [Ids -> Idleness]
  BY DEF XReadGroup, StreamType, Idleness
<1>8. \A i \in Ids : Pending(i)' => i <= lastId'
  <2> SUFFICES ASSUME NEW i \in Ids, Pending(i)' PROVE i <= lastId'
    OBVIOUS
  <2>1. i \in Nat BY StreamConstants DEF Ids
  <2>2. CASE i \in batch BY <2>2, <1>4
  <2>3. CASE i \notin batch
    <3>1. Pending(i) BY <2>3 DEF XReadGroup, Pending
    <3> QED BY <3>1, <2>1, <1>4 DEF StreamShape, StreamType
  <2> QED BY <2>2, <2>3
<1>9. \A i \in batch : ~Pending(i)
  BY <1>2, <1>3 DEF StreamShape, StreamType
<1> QED
  BY <1>2, <1>4, <1>5, <1>6, <1>7, <1>8, <1>9
     DEF XReadGroup, StreamType, StreamShape

\* XCLAIM only moves pending entries, and only its own ids.
LEMMA XClaimShape ==
    ASSUME StreamType, StreamShape, NEW c \in Consumers, NEW ids, NEW min,
           XClaim(c, ids, min)
    PROVE  /\ StreamType' /\ StreamShape'
           /\ Claimed(ids, min) \subseteq ids
           /\ \A i \in Ids : Pending(i)' => Pending(i)
           /\ \A i \in Ids : count'[i] = IF i \in Claimed(ids, min)
                                         THEN count[i] + 1 ELSE count[i]
           /\ UNCHANGED <<log, trimmed, lastId>>
<1>1. owner' \in [Ids -> Consumers \cup {NoConsumer}]
  BY DEF XClaim, StreamType
<1>2. count' \in [Ids -> Nat]
      /\ \A i \in Ids : count'[i] = IF i \in Claimed(ids, min)
                                    THEN count[i] + 1 ELSE count[i]
  BY DEF XClaim, StreamType
<1>3. idle' \in [Ids -> Idleness]
  BY DEF XClaim, StreamType, Idleness
<1>4. \A i \in Ids : Pending(i)' => Pending(i)
  BY DEF XClaim, Pending, Claimed, Claimable
<1> QED
  BY <1>1, <1>2, <1>3, <1>4
     DEF XClaim, StreamType, StreamShape, Claimed, Claimable

-----------------------------------------------------------------------------
(* Shape is inductive *)

\* What the log holds for an id that was read.
LEMMA ReadEntry ==
    ASSUME Shape, NEW i \in Ids, i <= lastId
    PROVE  /\ i \in Published /\ log[i] \in Alert
           /\ log[i].route \in Routes /\ log[i].tokens \in SUBSET Tokens
           /\ AlertKeysOf(i) \in SUBSET Keys
<1>1. i \in Published
  BY StreamConstants DEF Shape, TypeOK, StreamType, StreamShape, Published, Ids
<1>2. log \in Seq(Alert) /\ log[i] \in Alert
  BY <1>1 DEF Shape, TypeOK, StreamType, Published
<1> QED BY <1>1, <1>2, AlertKeysType DEF Alert

\* ... in particular for the ids a worker has in its lists or in hand.
LEMMA WorkerEntry ==
    ASSUME Shape, NEW c \in Consumers
    PROVE  /\ \A i \in bury[c] \cup retry[c] \cup work[c] : i \in Ids /\ i <= lastId
           /\ pc[c] \in Settling => cur[c] \in Ids /\ cur[c] <= lastId
<1> QED BY StreamConstants
    DEF Shape, TypeOK, WorkerType, StreamType, StreamShape, WorkerShape, Ids

\* The pending entries XPENDING reports have been read.
LEMMA ScanShape ==
    ASSUME Shape, NEW c \in Consumers, NEW min, NEW n,
           NEW i \in XPendingOf(c, min, n) \cup XPendingAll(min)
    PROVE  i \in Ids /\ i <= lastId
<1>1. i \in Ids /\ Pending(i)
  BY OldestSubset, StreamConstants DEF XPendingOf, XPendingAll, Oldest, Pending
<1> QED BY <1>1 DEF Shape, StreamShape

\* What a worker leaves dangling are keys.
LEMMA DanglingType ==
    ASSUME Shape, NEW c \in Consumers
    PROVE  Dangling(c) \in SUBSET Keys
<1>1. CASE pc[c] \in Settling
  <2>1. cur[c] \in Ids /\ cur[c] <= lastId
    BY <1>1, WorkerEntry
  <2>2. AlertKeysOf(cur[c]) \in SUBSET Keys
    BY <2>1, ReadEntry
  <2>3. KeysOf(log[cur[c]].route, log[cur[c]].tokens \ left[c])
           \subseteq AlertKeysOf(cur[c])
    BY DEF KeysOf, AlertKeysOf
  <2> QED BY <2>2, <2>3 DEF Dangling
<1>2. CASE pc[c] \notin Settling
  BY <1>2 DEF Dangling, Settling
<1> QED BY <1>1, <1>2

\* A step that leaves the stream and the requests alone.
LEMMA QuietShape ==
    ASSUME Shape, UNCHANGED streamVars, UNCHANGED ingestVars,
           WorkerType', WorkerShape', DedupType', faults' \in Nat
    PROVE  Shape'
<1>1. StreamType' /\ StreamShape'
  BY DEF Shape, TypeOK, StreamType, StreamShape, streamVars, Pending
<1>2. IngestType'
  BY DEF Shape, TypeOK, IngestType, ingestVars, requestVars
<1> QED BY <1>1, <1>2 DEF Shape, TypeOK

\* FinishBatch keeps Shape.
LEMMA FinishBatchShape ==
    ASSUME Shape, NEW c \in Consumers, FinishBatch(c), UNCHANGED ingestVars
    PROVE  Shape'
<1> USE WorkerEntry, ReadEntry DEF FinishBatch, listVars, settleVars, historyVars, recordVars
<1>1. WorkerType'
  BY DEF Shape, TypeOK, WorkerType, PCs, Statuses, Settling, Goto
<1>2. WorkerShape'
  BY DEF Shape, TypeOK, WorkerType, WorkerShape, streamVars, Settling, PCs, Goto
<1>3. DedupType' /\ faults' \in Nat
  BY FaultBudget DEF Shape, TypeOK, DedupType, dedupVars, CallOk, CallFails, NoFault, Fault, Settling
<1>4. UNCHANGED streamVars
  OBVIOUS
<1> QED BY <1>1, <1>2, <1>3, <1>4, QuietShape

\* ScanOwn keeps Shape.
LEMMA ScanOwnShape ==
    ASSUME Shape, NEW c \in Consumers, ScanOwn(c), UNCHANGED ingestVars
    PROVE  Shape'
<1> USE WorkerEntry, ReadEntry, ScanShape DEF ScanOwn, Sort, listVars, settleVars, historyVars, recordVars
<1>1. WorkerType'
  BY DEF Shape, TypeOK, WorkerType, PCs, Statuses, Settling, Goto
<1>2. WorkerShape'
  BY DEF Shape, TypeOK, WorkerType, WorkerShape, streamVars, Settling, PCs, Goto
<1>3. DedupType' /\ faults' \in Nat
  BY FaultBudget DEF Shape, TypeOK, DedupType, dedupVars, CallOk, CallFails, NoFault, Fault, Settling
<1>4. UNCHANGED streamVars
  OBVIOUS
<1> QED BY <1>1, <1>2, <1>3, <1>4, QuietShape

\* ScanOrphans keeps Shape.
LEMMA ScanOrphansShape ==
    ASSUME Shape, NEW c \in Consumers, ScanOrphans(c), UNCHANGED ingestVars
    PROVE  Shape'
<1> USE WorkerEntry, ReadEntry, ScanShape DEF ScanOrphans, Sort, listVars, settleVars, historyVars, recordVars
<1>1. WorkerType'
  BY DEF Shape, TypeOK, WorkerType, PCs, Statuses, Settling, Goto
<1>2. WorkerShape'
  BY DEF Shape, TypeOK, WorkerType, WorkerShape, streamVars, Settling, PCs, Goto
<1>3. DedupType' /\ faults' \in Nat
  BY FaultBudget DEF Shape, TypeOK, DedupType, dedupVars, CallOk, CallFails, NoFault, Fault, Settling
<1>4. UNCHANGED streamVars
  OBVIOUS
<1> QED BY <1>1, <1>2, <1>3, <1>4, QuietShape

\* NotifyOk keeps Shape.
LEMMA NotifyOkShape ==
    ASSUME Shape, NEW c \in Consumers, NEW i \in Ids, NotifyOk(c, i), UNCHANGED ingestVars
    PROVE  Shape'
<1> USE WorkerEntry, ReadEntry DEF NotifyOk, Notify, listVars, settleVars, historyVars, recordVars
<1>1. WorkerType'
  BY DEF Shape, TypeOK, WorkerType, PCs, Statuses, Settling, Goto, Settle
<1>2. WorkerShape'
  BY DEF Shape, TypeOK, WorkerType, WorkerShape, streamVars, Settling, PCs, Goto, Settle
<1>3. DedupType' /\ faults' \in Nat
  BY FaultBudget DEF Shape, TypeOK, DedupType, dedupVars, CallOk, CallFails, NoFault, Fault, Settling
<1>4. UNCHANGED streamVars
  OBVIOUS
<1> QED BY <1>1, <1>2, <1>3, <1>4, QuietShape

\* NotifyFail keeps Shape.
LEMMA NotifyFailShape ==
    ASSUME Shape, NEW c \in Consumers, NEW i \in Ids, NotifyFail(c, i), UNCHANGED ingestVars
    PROVE  Shape'
<1> USE WorkerEntry, ReadEntry DEF NotifyFail, Notify, listVars, settleVars, historyVars, recordVars
<1>1. WorkerType'
  BY DEF Shape, TypeOK, WorkerType, PCs, Statuses, Settling, Goto
<1>2. WorkerShape'
  BY DEF Shape, TypeOK, WorkerType, WorkerShape, streamVars, Settling, PCs, Goto
<1>3. DedupType' /\ faults' \in Nat
  BY FaultBudget DEF Shape, TypeOK, DedupType, dedupVars, CallOk, CallFails, NoFault, Fault, Settling
<1>4. UNCHANGED streamVars
  OBVIOUS
<1> QED BY <1>1, <1>2, <1>3, <1>4, QuietShape

\* NotifyFailShown keeps Shape.
LEMMA NotifyFailShownShape ==
    ASSUME Shape, NEW c \in Consumers, NEW i \in Ids, NotifyFailShown(c, i), UNCHANGED ingestVars
    PROVE  Shape'
<1> USE WorkerEntry, ReadEntry DEF NotifyFailShown, Notify, listVars, settleVars, historyVars, recordVars
<1>1. WorkerType'
  BY DEF Shape, TypeOK, WorkerType, PCs, Statuses, Settling, Goto
<1>2. WorkerShape'
  BY DEF Shape, TypeOK, WorkerType, WorkerShape, streamVars, Settling, PCs, Goto
<1>3. DedupType' /\ faults' \in Nat
  BY FaultBudget DEF Shape, TypeOK, DedupType, dedupVars, CallOk, CallFails, NoFault, Fault, Settling
<1>4. UNCHANGED streamVars
  OBVIOUS
<1> QED BY <1>1, <1>2, <1>3, <1>4, QuietShape

\* NotifyBlocked keeps Shape.
LEMMA NotifyBlockedShape ==
    ASSUME Shape, NEW c \in Consumers, NEW i \in Ids, NotifyBlocked(c, i), UNCHANGED ingestVars
    PROVE  Shape'
<1> USE WorkerEntry, ReadEntry DEF NotifyBlocked, Notify, listVars, settleVars, historyVars, recordVars
<1>1. WorkerType'
  BY DEF Shape, TypeOK, WorkerType, PCs, Statuses, Settling, Goto, Settle, RunHook, AfterHook
<1>2. WorkerShape'
  BY DEF Shape, TypeOK, WorkerType, WorkerShape, streamVars, Settling, PCs, Goto, Settle, RunHook, AfterHook
<1>3. DedupType' /\ faults' \in Nat
  BY FaultBudget DEF Shape, TypeOK, DedupType, dedupVars, CallOk, CallFails, NoFault, Fault, Settling
<1>4. UNCHANGED streamVars
  OBVIOUS
<1> QED BY <1>1, <1>2, <1>3, <1>4, QuietShape

\* NotifyNoTarget keeps Shape.
LEMMA NotifyNoTargetShape ==
    ASSUME Shape, NEW c \in Consumers, NEW i \in Ids, NotifyNoTarget(c, i), UNCHANGED ingestVars
    PROVE  Shape'
<1> USE WorkerEntry, ReadEntry DEF NotifyNoTarget, Notify, listVars, settleVars, historyVars, recordVars
<1>1. WorkerType'
  BY DEF Shape, TypeOK, WorkerType, PCs, Statuses, Settling, Goto, Settle
<1>2. WorkerShape'
  BY DEF Shape, TypeOK, WorkerType, WorkerShape, streamVars, Settling, PCs, Goto, Settle
<1>3. DedupType' /\ faults' \in Nat
  BY FaultBudget DEF Shape, TypeOK, DedupType, dedupVars, CallOk, CallFails, NoFault, Fault, Settling
<1>4. UNCHANGED streamVars
  OBVIOUS
<1> QED BY <1>1, <1>2, <1>3, <1>4, QuietShape

\* DeadLetter keeps Shape.
LEMMA DeadLetterShape ==
    ASSUME Shape, NEW c \in Consumers, NEW i \in Ids, DeadLetter(c, i), UNCHANGED ingestVars
    PROVE  Shape'
<1> USE WorkerEntry, ReadEntry DEF DeadLetter, listVars, settleVars, historyVars, recordVars
<1>1. WorkerType'
  BY DEF Shape, TypeOK, WorkerType, PCs, Statuses, Settling, Goto, Settle, RunHook, AfterHook
<1>2. WorkerShape'
  BY DEF Shape, TypeOK, WorkerType, WorkerShape, streamVars, Settling, PCs, Goto, Settle, RunHook, AfterHook
<1>3. DedupType' /\ faults' \in Nat
  BY FaultBudget DEF Shape, TypeOK, DedupType, dedupVars, CallOk, CallFails, NoFault, Fault, Settling
<1>4. UNCHANGED streamVars
  OBVIOUS
<1> QED BY <1>1, <1>2, <1>3, <1>4, QuietShape

\* DeadLetterGone keeps Shape.
LEMMA DeadLetterGoneShape ==
    ASSUME Shape, NEW c \in Consumers, NEW i \in Ids, DeadLetterGone(c, i), UNCHANGED ingestVars
    PROVE  Shape'
<1> USE WorkerEntry, ReadEntry DEF DeadLetterGone, listVars, settleVars, historyVars, recordVars
<1>1. WorkerType'
  BY DEF Shape, TypeOK, WorkerType, PCs, Statuses, Settling, Goto, Settle
<1>2. WorkerShape'
  BY DEF Shape, TypeOK, WorkerType, WorkerShape, streamVars, Settling, PCs, Goto, Settle
<1>3. DedupType' /\ faults' \in Nat
  BY FaultBudget DEF Shape, TypeOK, DedupType, dedupVars, CallOk, CallFails, NoFault, Fault, Settling
<1>4. UNCHANGED streamVars
  OBVIOUS
<1> QED BY <1>1, <1>2, <1>3, <1>4, QuietShape

\* Release keeps Shape.
LEMMA ReleaseShape ==
    ASSUME Shape, NEW c \in Consumers, NEW t \in Tokens, Release(c, t), UNCHANGED ingestVars
    PROVE  Shape'
<1> USE WorkerEntry, ReadEntry DEF Release, listVars, settleVars, historyVars, recordVars
<1>1. WorkerType'
  BY DEF Shape, TypeOK, WorkerType, PCs, Statuses, Settling, Goto, AfterHook
<1>2. WorkerShape'
  BY DEF Shape, TypeOK, WorkerType, WorkerShape, streamVars, Settling, PCs, Goto, AfterHook
<1>3. DedupType' /\ faults' \in Nat
  BY FaultBudget DEF Shape, TypeOK, DedupType, dedupVars, CallOk, CallFails, NoFault, Fault, Settling, ReleaseClaim
<1>4. UNCHANGED streamVars
  OBVIOUS
<1> QED BY <1>1, <1>2, <1>3, <1>4, QuietShape

\* HandlerFails keeps Shape.
LEMMA HandlerFailsShape ==
    ASSUME Shape, NEW c \in Consumers, HandlerFails(c), UNCHANGED ingestVars
    PROVE  Shape'
<1> USE WorkerEntry, ReadEntry, DanglingType DEF HandlerFails, listVars, settleVars, historyVars, recordVars
<1>1. WorkerType'
  BY DEF Shape, TypeOK, WorkerType, PCs, Statuses, Settling, Goto, Return
<1>2. WorkerShape'
  BY DEF Shape, TypeOK, WorkerType, WorkerShape, streamVars, Settling, PCs, Goto, Return
<1>3. DedupType' /\ faults' \in Nat
  BY FaultBudget DEF Shape, TypeOK, DedupType, dedupVars, CallOk, CallFails, NoFault, Fault, Settling
<1>4. UNCHANGED streamVars
  OBVIOUS
<1> QED BY <1>1, <1>2, <1>3, <1>4, QuietShape

\* Bury keeps Shape.
LEMMA BuryShape ==
    ASSUME Shape, NEW c \in Consumers, Bury(c), UNCHANGED ingestVars
    PROVE  Shape'
<1> USE WorkerEntry, ReadEntry DEF Bury, listVars, settleVars, historyVars, recordVars
<1>1. WorkerType'
  BY DEF Shape, TypeOK, WorkerType, PCs, Statuses, Settling, Goto
<1>2. WorkerShape'
  BY DEF Shape, TypeOK, WorkerType, WorkerShape, streamVars, Settling, PCs, Goto
<1>3. DedupType' /\ faults' \in Nat
  BY FaultBudget DEF Shape, TypeOK, DedupType, dedupVars, CallOk, CallFails, NoFault, Fault, Settling
<1>4. UNCHANGED streamVars
  OBVIOUS
<1> QED BY <1>1, <1>2, <1>3, <1>4, QuietShape

\* AckFails keeps Shape.
LEMMA AckFailsShape ==
    ASSUME Shape, NEW c \in Consumers, AckFails(c), UNCHANGED ingestVars
    PROVE  Shape'
<1> USE WorkerEntry, ReadEntry, DanglingType DEF AckFails, listVars, settleVars, historyVars, recordVars
<1>1. WorkerType'
  BY DEF Shape, TypeOK, WorkerType, PCs, Statuses, Settling, Goto, AfterAck, Return
<1>2. WorkerShape'
  BY DEF Shape, TypeOK, WorkerType, WorkerShape, streamVars, Settling, PCs, Goto, AfterAck, Return
<1>3. DedupType' /\ faults' \in Nat
  BY FaultBudget DEF Shape, TypeOK, DedupType, dedupVars, CallOk, CallFails, NoFault, Fault, Settling
<1>4. UNCHANGED streamVars
  OBVIOUS
<1> QED BY <1>1, <1>2, <1>3, <1>4, QuietShape

\* Record keeps Shape.
LEMMA RecordShape ==
    ASSUME Shape, NEW c \in Consumers, Record(c), UNCHANGED ingestVars
    PROVE  Shape'
<1> USE WorkerEntry, ReadEntry DEF Record, listVars, settleVars, historyVars, recordVars
<1>0. ledger' \in [Rows -> Entry]
  <2>1. LedgerStatus(status[c]) \in {"sent", "dropped", "dead_lettered"}
    BY DEF Shape, TypeOK, WorkerType, WorkerShape, Statuses, Settling, LedgerStatus
  <2>2. cur[c] \in Ids
    BY DEF Settling
  <2>3. [status |-> LedgerStatus(status[c]), batch |-> cur[c]] \in Entry
    BY <2>1, <2>2 DEF Entry
  <2>4. ledger \in [Rows -> Entry]
    BY DEF Shape, TypeOK, WorkerType
  <2> QED BY <2>3, <2>4
<1>1. WorkerType'
  BY <1>0 DEF Shape, TypeOK, WorkerType, PCs, Statuses, Settling, Goto, Return
<1>2. WorkerShape'
  BY DEF Shape, TypeOK, WorkerType, WorkerShape, streamVars, Settling, PCs, Goto, Return
<1>3. DedupType' /\ faults' \in Nat
  BY FaultBudget DEF Shape, TypeOK, DedupType, dedupVars, CallOk, CallFails, NoFault, Fault, Settling
<1>4. UNCHANGED streamVars
  OBVIOUS
<1> QED BY <1>1, <1>2, <1>3, <1>4, QuietShape

\* RecordFails keeps Shape.
LEMMA RecordFailsShape ==
    ASSUME Shape, NEW c \in Consumers, RecordFails(c), UNCHANGED ingestVars
    PROVE  Shape'
<1> USE WorkerEntry, ReadEntry DEF RecordFails, listVars, settleVars, historyVars, recordVars
<1>1. WorkerType'
  BY DEF Shape, TypeOK, WorkerType, PCs, Statuses, Settling, Goto, Return
<1>2. WorkerShape'
  BY DEF Shape, TypeOK, WorkerType, WorkerShape, streamVars, Settling, PCs, Goto, Return
<1>3. DedupType' /\ faults' \in Nat
  BY FaultBudget DEF Shape, TypeOK, DedupType, dedupVars, CallOk, CallFails, NoFault, Fault, Settling
<1>4. UNCHANGED streamVars
  OBVIOUS
<1> QED BY <1>1, <1>2, <1>3, <1>4, QuietShape

\* Shutdown keeps Shape.
LEMMA ShutdownShape ==
    ASSUME Shape, NEW c \in Consumers, Shutdown(c), UNCHANGED ingestVars
    PROVE  Shape'
<1> USE WorkerEntry, ReadEntry DEF Shutdown, listVars, settleVars, historyVars, recordVars
<1>1. WorkerType'
  BY DEF Shape, TypeOK, WorkerType, PCs, Statuses, Settling, Goto
<1>2. WorkerShape'
  BY DEF Shape, TypeOK, WorkerType, WorkerShape, streamVars, Settling, PCs, Goto
<1>3. DedupType' /\ faults' \in Nat
  BY FaultBudget DEF Shape, TypeOK, DedupType, dedupVars, CallOk, CallFails, NoFault, Fault, Settling
<1>4. UNCHANGED streamVars
  OBVIOUS
<1> QED BY <1>1, <1>2, <1>3, <1>4, QuietShape

\* Abandon keeps Shape.
LEMMA AbandonShape ==
    ASSUME Shape, NEW c \in Consumers, Abandon(c), UNCHANGED ingestVars
    PROVE  Shape'
<1> USE WorkerEntry, ReadEntry DEF Abandon, listVars, settleVars, historyVars, recordVars
<1>1. WorkerType'
  BY DEF Shape, TypeOK, WorkerType, PCs, Statuses, Settling, Goto
<1>2. WorkerShape'
  BY DEF Shape, TypeOK, WorkerType, WorkerShape, streamVars, Settling, PCs, Goto
<1>3. DedupType' /\ faults' \in Nat
  BY FaultBudget DEF Shape, TypeOK, DedupType, dedupVars, CallOk, CallFails, NoFault, Fault, Settling
<1>4. UNCHANGED streamVars
  OBVIOUS
<1> QED BY <1>1, <1>2, <1>3, <1>4, QuietShape

\* StartDrain keeps Shape.
LEMMA StartDrainShape ==
    ASSUME Shape, NEW c \in Consumers, StartDrain(c), UNCHANGED ingestVars
    PROVE  Shape'
<1> USE WorkerEntry, ReadEntry, ScanShape DEF StartDrain, listVars, settleVars, historyVars, recordVars
<1>1. WorkerType'
  BY DEF Shape, TypeOK, WorkerType, PCs, Statuses, Settling, Goto
<1>2. WorkerShape'
  BY DEF Shape, TypeOK, WorkerType, WorkerShape, streamVars, Settling, PCs, Goto
<1>3. DedupType' /\ faults' \in Nat
  BY FaultBudget DEF Shape, TypeOK, DedupType, dedupVars, CallOk, CallFails, NoFault, Fault, Settling
<1>4. UNCHANGED streamVars
  OBVIOUS
<1> QED BY <1>1, <1>2, <1>3, <1>4, QuietShape

\* DrainSkip keeps Shape.
LEMMA DrainSkipShape ==
    ASSUME Shape, NEW c \in Consumers, NEW i \in Ids, DrainSkip(c, i), UNCHANGED ingestVars
    PROVE  Shape'
<1> USE WorkerEntry, ReadEntry DEF DrainSkip, listVars, settleVars, historyVars, recordVars
<1>1. WorkerType'
  BY DEF Shape, TypeOK, WorkerType, PCs, Statuses, Settling, Goto
<1>2. WorkerShape'
  BY DEF Shape, TypeOK, WorkerType, WorkerShape, streamVars, Settling, PCs, Goto
<1>3. DedupType' /\ faults' \in Nat
  BY FaultBudget DEF Shape, TypeOK, DedupType, dedupVars, CallOk, CallFails, NoFault, Fault, Settling
<1>4. UNCHANGED streamVars
  OBVIOUS
<1> QED BY <1>1, <1>2, <1>3, <1>4, QuietShape

\* EndDrain keeps Shape.
LEMMA EndDrainShape ==
    ASSUME Shape, NEW c \in Consumers, EndDrain(c), UNCHANGED ingestVars
    PROVE  Shape'
<1> USE WorkerEntry, ReadEntry DEF EndDrain, listVars, settleVars, historyVars, recordVars
<1>1. WorkerType'
  BY DEF Shape, TypeOK, WorkerType, PCs, Statuses, Settling, Goto, Halt
<1>2. WorkerShape'
  BY DEF Shape, TypeOK, WorkerType, WorkerShape, streamVars, Settling, PCs, Goto, Halt
<1>3. DedupType' /\ faults' \in Nat
  BY FaultBudget DEF Shape, TypeOK, DedupType, dedupVars, CallOk, CallFails, NoFault, Fault, Settling
<1>4. UNCHANGED streamVars
  OBVIOUS
<1> QED BY <1>1, <1>2, <1>3, <1>4, QuietShape

\* Crash keeps Shape.
LEMMA CrashShape ==
    ASSUME Shape, NEW c \in Consumers, Crash(c), UNCHANGED ingestVars
    PROVE  Shape'
<1> USE WorkerEntry, ReadEntry, DanglingType DEF Crash, listVars, settleVars, historyVars, recordVars
<1>1. WorkerType'
  BY DEF Shape, TypeOK, WorkerType, PCs, Statuses, Settling, Goto, Halt
<1>2. WorkerShape'
  BY DEF Shape, TypeOK, WorkerType, WorkerShape, streamVars, Settling, PCs, Goto, Halt
<1>3. DedupType' /\ faults' \in Nat
  BY FaultBudget DEF Shape, TypeOK, DedupType, dedupVars, CallOk, CallFails, NoFault, Fault, Settling
<1>4. UNCHANGED streamVars
  OBVIOUS
<1> QED BY <1>1, <1>2, <1>3, <1>4, QuietShape

\* Restart keeps Shape.
LEMMA RestartShape ==
    ASSUME Shape, NEW c \in Consumers, Restart(c), UNCHANGED ingestVars
    PROVE  Shape'
<1> USE WorkerEntry, ReadEntry DEF Restart, listVars, settleVars, historyVars, recordVars
<1>1. WorkerType'
  BY DEF Shape, TypeOK, WorkerType, PCs, Statuses, Settling, Goto
<1>2. WorkerShape'
  BY DEF Shape, TypeOK, WorkerType, WorkerShape, streamVars, Settling, PCs, Goto
<1>3. DedupType' /\ faults' \in Nat
  BY FaultBudget DEF Shape, TypeOK, DedupType, dedupVars, CallOk, CallFails, NoFault, Fault, Settling
<1>4. UNCHANGED streamVars
  OBVIOUS
<1> QED BY <1>1, <1>2, <1>3, <1>4, QuietShape

\* A step that changes the stream without adding to it: what was read stays
\* read.
LEMMA GroupStepShape ==
    ASSUME Shape, UNCHANGED ingestVars, StreamType', StreamShape',
           WorkerType', WorkerShape', DedupType', faults' \in Nat
    PROVE  Shape'
<1>1. IngestType'
  BY DEF Shape, TypeOK, IngestType, ingestVars, requestVars
<1> QED BY <1>1 DEF Shape, TypeOK

\* Read keeps Shape.
LEMMA ReadShape ==
    ASSUME Shape, NEW c \in Consumers, Read(c), UNCHANGED ingestVars
    PROVE  Shape'
<1>1. PICK batch \in SUBSET Ids : XReadGroup(c, batch)
                                  /\ work' = [work EXCEPT ![c] = batch]
  BY DEF Read
<1>2. StreamType' /\ StreamShape' /\ lastId' >= lastId
      /\ \A i \in batch : i <= lastId'
  BY <1>1, XReadGroupShape DEF Shape, TypeOK
<1>3. WorkerType'
  BY <1>1 DEF Read, Shape, TypeOK, WorkerType, Goto, settleVars, historyVars,
              recordVars, PCs
<1>4. WorkerShape'
  <2>1. \A i \in Ids : i <= lastId => i <= lastId'
    BY <1>2, StreamConstants DEF Shape, TypeOK, StreamType, Ids
  <2> QED BY <1>1, <1>2, <2>1, WorkerEntry
          DEF Read, Shape, TypeOK, WorkerType, WorkerShape, Goto, settleVars, Settling
<1>5. DedupType' /\ faults' \in Nat
  BY DEF Read, Shape, TypeOK, DedupType, dedupVars, CallOk, NoFault
<1> QED BY <1>2, <1>3, <1>4, <1>5, GroupStepShape

\* ReadLost keeps Shape.
LEMMA ReadLostShape ==
    ASSUME Shape, NEW c \in Consumers, ReadLost(c), UNCHANGED ingestVars
    PROVE  Shape'
<1>1. PICK batch \in SUBSET Ids : XReadGroup(c, batch)
  BY DEF ReadLost
<1>2. StreamType' /\ StreamShape' /\ lastId' >= lastId
  BY <1>1, XReadGroupShape DEF Shape, TypeOK
<1>3. WorkerType'
  BY DEF ReadLost, Shape, TypeOK, WorkerType, workerVars, listVars, settleVars,
         historyVars, recordVars
<1>4. WorkerShape'
  <2>1. \A i \in Ids : i <= lastId => i <= lastId'
    BY <1>2, StreamConstants DEF Shape, TypeOK, StreamType, Ids
  <2> QED BY <2>1, WorkerEntry
          DEF ReadLost, Shape, TypeOK, WorkerType, WorkerShape, workerVars,
              listVars, settleVars, Settling
<1>5. DedupType' /\ faults' \in Nat
  BY FaultBudget DEF ReadLost, Shape, TypeOK, DedupType, dedupVars, Fault
<1> QED BY <1>2, <1>3, <1>4, <1>5, GroupStepShape

\* Claim keeps Shape.
LEMMA ClaimShape ==
    ASSUME Shape, NEW c \in Consumers, Claim(c), UNCHANGED ingestVars
    PROVE  Shape'
<1> DEFINE got == Claimed(retry[c], MinIdle(pc[c]))
<1>1. StreamType' /\ StreamShape' /\ got \subseteq retry[c]
      /\ UNCHANGED <<log, trimmed, lastId>>
  BY XClaimShape DEF Claim, Shape, TypeOK
<1>2. got \subseteq Ids /\ \A i \in got : i <= lastId
  BY <1>1, WorkerEntry
<1> HIDE DEF got
<1>3. WorkerType'
  BY <1>2 DEF Claim, got, Shape, TypeOK, WorkerType, Goto, settleVars,
              historyVars, recordVars, PCs
<1>4. WorkerShape'
  BY <1>1, <1>2, WorkerEntry
     DEF Claim, got, Shape, TypeOK, WorkerType, WorkerShape, Goto, settleVars, Settling
<1>5. DedupType' /\ faults' \in Nat
  <2>1. \A i \in got : AlertKeysOf(i) \in SUBSET Keys
    BY <1>2, ReadEntry
  <2> QED BY <2>1 DEF Claim, got, Shape, TypeOK, DedupType, CallOk, NoFault
<1> QED BY <1>1, <1>3, <1>4, <1>5, GroupStepShape

\* ClaimFails keeps Shape.
LEMMA ClaimFailsShape ==
    ASSUME Shape, NEW c \in Consumers, ClaimFails(c), UNCHANGED ingestVars
    PROVE  Shape'
<1>1. StreamType' /\ StreamShape' /\ UNCHANGED <<log, trimmed, lastId>>
  <2>1. CASE XClaim(c, retry[c], MinIdle(pc[c]))
    BY <2>1, XClaimShape DEF Shape, TypeOK
  <2>2. CASE UNCHANGED streamVars
    BY <2>2 DEF Shape, TypeOK, StreamType, StreamShape, streamVars, Pending
  <2> QED BY <2>1, <2>2 DEF ClaimFails
<1>2. WorkerType'
  BY DEF ClaimFails, Shape, TypeOK, WorkerType, Goto, settleVars, historyVars,
         recordVars, PCs
<1>3. WorkerShape'
  BY <1>1, WorkerEntry
     DEF ClaimFails, Shape, TypeOK, WorkerType, WorkerShape, Goto, settleVars, Settling
<1>4. DedupType' /\ faults' \in Nat
  BY FaultBudget DEF ClaimFails, Shape, TypeOK, DedupType, dedupVars, Fault
<1> QED BY <1>1, <1>2, <1>3, <1>4, GroupStepShape

\* Ack keeps Shape.
LEMMA AckShape ==
    ASSUME Shape, NEW c \in Consumers, Ack(c), UNCHANGED ingestVars
    PROVE  Shape'
<1>1. cur[c] \in Ids /\ cur[c] <= lastId /\ AlertKeysOf(cur[c]) \in SUBSET Keys
  BY WorkerEntry, ReadEntry DEF Ack, Settling
<1>2. StreamType' /\ StreamShape' /\ UNCHANGED <<log, trimmed, lastId>>
  BY DEF Ack, XAck, Shape, TypeOK, StreamType, StreamShape, Pending
<1>3. WorkerType'
  BY DEF Ack, AfterAck, Return, Shape, TypeOK, WorkerType, Goto, listVars,
         settleVars, historyVars, recordVars, PCs, Statuses
<1>4. WorkerShape'
  BY <1>1, <1>2
     DEF Ack, AfterAck, Return, Shape, TypeOK, WorkerType, WorkerShape, Goto,
         listVars, settleVars, Settling
<1>5. DedupType' /\ faults' \in Nat
  BY <1>1 DEF Ack, Forfeit, Shape, TypeOK, DedupType, CallOk, NoFault
<1> QED BY <1>2, <1>3, <1>4, <1>5, GroupStepShape

\* Tick keeps Shape.
LEMMA TickShape ==
    ASSUME Shape, Tick
    PROVE  Shape'
<1>1. PICK i \in Ids : Age(i)
  BY DEF Tick
<1>2. StreamType' /\ StreamShape' /\ UNCHANGED <<log, trimmed, lastId>>
  BY <1>1 DEF Age, Shape, TypeOK, StreamType, StreamShape, Pending, Idleness
<1>3. WorkerType' /\ WorkerShape'
  BY <1>2 DEF Tick, Shape, TypeOK, WorkerType, WorkerShape, workerVars, listVars,
              settleVars, historyVars, recordVars
<1>4. DedupType' /\ faults' \in Nat /\ UNCHANGED ingestVars
  BY DEF Tick, Shape, TypeOK, DedupType, dedupVars
<1> QED BY <1>2, <1>3, <1>4, GroupStepShape

\* Every step of a worker keeps Shape.
LEMMA WorkerKeepsShape ==
    ASSUME Shape, NEW c \in Consumers, Worker(c)
    PROVE  Shape'
<1> USE Worker(c) DEF Worker
<1>1. CASE Read(c) \/ ReadLost(c) \/ FinishBatch(c)
  BY <1>1, ReadShape, ReadLostShape, FinishBatchShape
<1>2. CASE ScanOwn(c) \/ ScanOrphans(c) \/ Claim(c) \/ ClaimFails(c)
  BY <1>2, ScanOwnShape, ScanOrphansShape, ClaimShape, ClaimFailsShape
<1>3. CASE \E i \in Ids : \/ NotifyOk(c, i) \/ NotifyFail(c, i)
                          \/ NotifyFailShown(c, i) \/ NotifyBlocked(c, i)
                          \/ NotifyNoTarget(c, i)
  BY <1>3, NotifyOkShape, NotifyFailShape, NotifyFailShownShape,
     NotifyBlockedShape, NotifyNoTargetShape
<1>4. CASE \E i \in Ids : \/ DeadLetter(c, i) \/ DeadLetterGone(c, i)
                          \/ DrainSkip(c, i)
  BY <1>4, DeadLetterShape, DeadLetterGoneShape, DrainSkipShape
<1>5. CASE \E t \in Tokens : Release(c, t)
  BY <1>5, ReleaseShape
<1>6. CASE HandlerFails(c) \/ Bury(c) \/ Ack(c) \/ AckFails(c)
  BY <1>6, HandlerFailsShape, BuryShape, AckShape, AckFailsShape
<1>7. CASE Record(c) \/ RecordFails(c) \/ Abandon(c) \/ StartDrain(c)
  BY <1>7, RecordShape, RecordFailsShape, AbandonShape, StartDrainShape
<1>8. CASE EndDrain(c) \/ Restart(c) \/ Shutdown(c) \/ Crash(c)
  BY <1>8, EndDrainShape, RestartShape, ShutdownShape, CrashShape
<1> QED
  BY <1>1, <1>2, <1>3, <1>4, <1>5, <1>6, <1>7, <1>8 DEF WorkerStep

-----------------------------------------------------------------------------
(* Requests *)

\* A step of a request that leaves the stream alone.
LEMMA RequestQuietShape ==
    ASSUME Shape, UNCHANGED streamVars, UNCHANGED workerVars,
           IngestType', DedupType', faults' \in Nat
    PROVE  Shape'
<1>1. StreamType' /\ StreamShape'
  BY DEF Shape, TypeOK, StreamType, StreamShape, streamVars, Pending
<1>2. WorkerType' /\ WorkerShape'
  BY DEF Shape, TypeOK, WorkerType, WorkerShape, streamVars, workerVars,
         listVars, settleVars, historyVars, recordVars
<1> QED BY <1>1, <1>2 DEF Shape, TypeOK

\* A step of a request that adds an alert.
LEMMA RequestAddShape ==
    ASSUME Shape, NEW a \in Alert, XAdd(a), UNCHANGED workerVars,
           IngestType', DedupType', faults' \in Nat
    PROVE  Shape'
<1>1. StreamType' /\ StreamShape' /\ lastId' = lastId
  BY XAddShape DEF Shape, TypeOK
<1>2. WorkerType' /\ WorkerShape'
  BY <1>1 DEF Shape, TypeOK, WorkerType, WorkerShape, workerVars,
              listVars, settleVars, historyVars, recordVars
<1> QED BY <1>1, <1>2 DEF Shape, TypeOK

\* What an XADD trims away are alerts of the log.
LEMMA TrimmedKeysType ==
    ASSUME Shape, NEW a \in Alert, XAdd(a)
    PROVE  TrimmedKeys \in SUBSET Keys
<1>1. \A i \in NewlyTrimmed : i \in Published
  BY XAddShape, StreamConstants
     DEF NewlyTrimmed, Published, Shape, TypeOK, StreamType, Ids
<1>2. \A i \in NewlyTrimmed : AlertKeysOf(i) \in SUBSET Keys
  BY <1>1, AlertKeysType DEF Shape, TypeOK, StreamType
<1> QED BY <1>2 DEF TrimmedKeys, AlertKeysOf

\* What a request holds are keys.
LEMMA HeldType ==
    ASSUME Shape, NEW p \in Requests
    PROVE  Held(p) \in SUBSET Keys
BY DEF Shape, TypeOK, IngestType, Held, KeysOf, Keys

\* Every step of a request keeps Shape.
LEMMA RequestKeepsShape ==
    ASSUME Shape, NEW p \in Requests, Request(p)
    PROVE  Shape'
<1> USE DEF RGoto, Forfeit
<1>0. UNCHANGED workerVars
  BY DEF Request
<1>1. CASE StartIngest(p)
  <2>1. IngestType'
    BY <1>1 DEF StartIngest, Shape, TypeOK, IngestType
  <2>2. DedupType' /\ faults' \in Nat /\ UNCHANGED streamVars
    BY <1>1 DEF StartIngest, Shape, TypeOK, DedupType, dedupVars
  <2> QED BY <1>0, <2>1, <2>2, RequestQuietShape
<1>2. ASSUME NEW t \in Tokens, ClaimListing(p, t) PROVE Shape'
  <2>1. IngestType'
    BY <1>2 DEF ClaimListing, Shape, TypeOK, IngestType
  <2>2. DedupType' /\ faults' \in Nat /\ UNCHANGED streamVars
    BY <1>2 DEF ClaimListing, ClaimNew, Shape, TypeOK, DedupType, IngestType, Keys
  <2> QED BY <1>0, <2>1, <2>2, RequestQuietShape
<1>3. ASSUME NEW t \in Tokens, ClaimListingFails(p, t) PROVE Shape'
  <2>1. IngestType'
    BY <1>3 DEF ClaimListingFails, Shape, TypeOK, IngestType
  <2>2. DedupType' /\ faults' \in Nat /\ UNCHANGED streamVars
    BY <1>3, FaultBudget
       DEF ClaimListingFails, ClaimNew, Shape, TypeOK, DedupType, IngestType,
           Keys, RequestFails, NoFault, Fault
  <2> QED BY <1>0, <2>1, <2>2, RequestQuietShape
<1>4. CASE EndClaims(p)
  <2>1. IngestType'
    BY <1>4 DEF EndClaims, Finish, Shape, TypeOK, IngestType
  <2>2. DedupType' /\ faults' \in Nat /\ UNCHANGED streamVars
    BY <1>4 DEF EndClaims, Shape, TypeOK, DedupType, dedupVars
  <2> QED BY <1>0, <2>1, <2>2, RequestQuietShape
<1>5. CASE Publish(p)
  <2>1. IngestType'
    BY <1>5 DEF Publish, Finish, Shape, TypeOK, IngestType
  <2>2. PICK S \in Batches(newOnes[p]) :
          /\ XAdd([route |-> route[p], tokens |-> S])
          /\ Forfeit(TrimmedKeys \cup KeysOf(route[p], newOnes[p] \ S))
    BY <1>5 DEF Publish
  <2>3. [route |-> route[p], tokens |-> S] \in Alert
    BY DEF Batches, Shape, TypeOK, IngestType, Alert
  <2>4. DedupType' /\ faults' \in Nat
    <3>1. KeysOf(route[p], newOnes[p] \ S) \subseteq Held(p)
      BY DEF KeysOf, Held
    <3> QED BY <1>5, <2>2, <2>3, <3>1, TrimmedKeysType, HeldType
            DEF Publish, Shape, TypeOK, DedupType
  <2> QED BY <1>0, <2>1, <2>2, <2>3, <2>4, RequestAddShape
<1>6. CASE PublishFails(p)
  <2>1. IngestType'
    BY <1>6 DEF PublishFails, Shape, TypeOK, IngestType
  <2>2. CASE RequestFails(p) /\ UNCHANGED <<streamVars, forfeited, repeatable>>
    <3>1. DedupType' /\ faults' \in Nat
      BY <1>6, <2>2, FaultBudget
         DEF PublishFails, Shape, TypeOK, DedupType, RequestFails, NoFault, Fault
    <3> QED BY <1>0, <2>1, <2>2, <3>1, RequestQuietShape
  <2>3. ASSUME Fault, Forfeit(TrimmedKeys),
               NEW S \in Batches(newOnes[p]),
               XAdd([route |-> route[p], tokens |-> S]),
               repeatable' = repeatable \cup KeysOf(route[p], S)
        PROVE  Shape'
    <3>1. [route |-> route[p], tokens |-> S] \in Alert
      BY <2>3 DEF Batches, Shape, TypeOK, IngestType, Alert
    <3>2. KeysOf(route[p], S) \subseteq Held(p)
      BY <2>3 DEF KeysOf, Held, Batches
    <3>3. DedupType' /\ faults' \in Nat
      BY <1>6, <2>3, <3>1, <3>2, TrimmedKeysType, HeldType, FaultBudget
         DEF PublishFails, Shape, TypeOK, DedupType, Fault
    <3> QED BY <1>0, <2>1, <2>3, <3>1, <3>3, RequestAddShape
  <2> QED BY <1>6, <2>2, <2>3 DEF PublishFails
<1>7. CASE PublishMalformed(p)
  <2>1. IngestType'
    BY <1>7 DEF PublishMalformed, Finish, Shape, TypeOK, IngestType
  <2>2. DedupType' /\ faults' \in Nat /\ UNCHANGED streamVars
    BY <1>7, HeldType DEF PublishMalformed, Shape, TypeOK, DedupType
  <2> QED BY <1>0, <2>1, <2>2, RequestQuietShape
<1>8. ASSUME NEW t \in Tokens, ReleaseListing(p, t) PROVE Shape'
  <2>1. IngestType'
    BY <1>8 DEF ReleaseListing, Shape, TypeOK, IngestType
  <2>2. DedupType' /\ faults' \in Nat /\ UNCHANGED streamVars
    BY <1>8, FaultBudget
       DEF ReleaseListing, ReleaseClaim, Shape, TypeOK, DedupType, IngestType,
           Keys, RequestOk, RequestFails, NoFault, Fault
  <2> QED BY <1>0, <2>1, <2>2, RequestQuietShape
<1>9. CASE EndRelease(p)
  <2>1. IngestType'
    BY <1>9 DEF EndRelease, Finish, Shape, TypeOK, IngestType
  <2>2. DedupType' /\ faults' \in Nat /\ UNCHANGED streamVars
    BY <1>9 DEF EndRelease, Shape, TypeOK, DedupType, dedupVars
  <2> QED BY <1>0, <2>1, <2>2, RequestQuietShape
<1>10. CASE Cancel(p)
  <2>1. IngestType'
    BY <1>10 DEF Cancel, Shape, TypeOK, IngestType
  <2>2. DedupType' /\ faults' \in Nat /\ UNCHANGED streamVars
    BY <1>10 DEF Cancel, Shape, TypeOK, DedupType, dedupVars
  <2> QED BY <1>0, <2>1, <2>2, RequestQuietShape
<1> QED
  BY <1>1, <1>2, <1>3, <1>4, <1>5, <1>6, <1>7, <1>8, <1>9, <1>10
     DEF Request, RequestStep

\* ServerKeeps keeps Shape.
LEMMA ServerKeepsShape ==
    ASSUME Shape, Server
    PROVE  Shape'
<1> USE DEF Forfeit
<1>0. UNCHANGED workerVars
  BY DEF Server
<1>1. CASE CrashServer
  <2>1. IngestType'
    BY <1>1 DEF CrashServer, Shape, TypeOK, IngestType
  <2>2. DedupType' /\ faults' \in Nat /\ UNCHANGED streamVars
    BY <1>1, HeldType, FaultBudget DEF CrashServer, Shape, TypeOK, DedupType, Fault
  <2> QED BY <1>0, <2>1, <2>2, RequestQuietShape
<1>2. ASSUME NEW r \in Routes, PublishRaw(r) PROVE Shape'
  <2>1. [route |-> r, tokens |-> {}] \in Alert
    BY DEF Alert
  <2>2. IngestType'
    BY <1>2 DEF PublishRaw, Shape, TypeOK, IngestType, requestVars
  <2>3. DedupType' /\ faults' \in Nat
    BY <1>2, <2>1, TrimmedKeysType DEF PublishRaw, Shape, TypeOK, DedupType
  <2> QED BY <1>0, <1>2, <2>1, <2>2, <2>3, RequestAddShape DEF PublishRaw
<1> QED BY <1>1, <1>2 DEF Server

-----------------------------------------------------------------------------
(* Type correctness *)

\* The initial state has the shape.
LEMMA InitShape == Init => Shape
<1> SUFFICES ASSUME Init PROVE Shape
  OBVIOUS
<1> USE DEF Init
<1>1. StreamType /\ StreamShape
  BY StreamConstants DEF StreamInit, StreamType, StreamShape, Pending, Idleness
<1>2. DedupType /\ faults \in Nat
  BY DEF DedupInit, DedupType, InfraInit
<1>3. WorkerType
  BY DEF WorkerInit, WorkerType, PCs, Statuses, Entry
<1>4. WorkerShape
  BY DEF WorkerInit, WorkerShape, Settling
<1>5. IngestType
  BY DEF IngestInit, IngestType
<1> QED BY <1>1, <1>2, <1>3, <1>4, <1>5 DEF Shape, TypeOK

\* Every step keeps Shape.
LEMMA NextShape == Shape /\ [Next]_vars => Shape'
<1> SUFFICES ASSUME Shape, [Next]_vars PROVE Shape'
  OBVIOUS
<1>1. CASE UNCHANGED vars
  <2>1. /\ UNCHANGED streamVars /\ UNCHANGED dedupVars
        /\ UNCHANGED workerVars /\ UNCHANGED ingestVars /\ faults' = faults
    BY <1>1 DEF vars
  <2>2. DedupType' /\ IngestType' /\ faults' \in Nat
    BY <2>1 DEF Shape, TypeOK, DedupType, IngestType, dedupVars, ingestVars, requestVars
  <2> QED BY <2>1, <2>2, RequestQuietShape
<1>2. CASE Next
  BY <1>2, WorkerKeepsShape, RequestKeepsShape, ServerKeepsShape, TickShape
     DEF Next
<1> QED BY <1>1, <1>2

\* The inductive invariant behind the theorems below: every id a worker or the
\* group knows of was read from the log.
THEOREM SpecShape == Spec => []Shape
BY InitShape, NextShape, PTL DEF Spec

\* Every variable keeps its type, whatever the number of workers, requests
\* and listings: in particular every id a worker holds is one of the log, and
\* every status it writes to the ledger is one the ledger knows.
THEOREM TypeCorrect == Spec => []TypeOK
<1>1. Shape => TypeOK
  BY DEF Shape
<1> QED BY <1>1, SpecShape, PTL

-----------------------------------------------------------------------------
(* Settled alerts *)

\* Time, reads and trimming only move forward, and only an alert that was
\* pending or unread can be pending next.
Forward ==
    /\ trimmed' >= trimmed /\ lastId' >= lastId
    /\ \A i \in Ids : Pending(i)' => Pending(i) \/ i \in Unread
    /\ \A i \in Unread' : i \in Unread \/ i > Len(log)

\* A step that leaves the stream alone brings nothing back.
LEMMA QuietForward ==
    ASSUME Shape, UNCHANGED streamVars
    PROVE  Forward
BY DEF Forward, Shape, TypeOK, StreamType, streamVars, Pending, Unread, Stored,
       Published

\* XADD brings nothing back: the new alert was not in the log.
LEMMA XAddForward ==
    ASSUME Shape, NEW a \in Alert, XAdd(a)
    PROVE  Forward
<1>1. /\ Len(log') = Len(log) + 1 /\ trimmed' >= trimmed
      /\ lastId' = lastId /\ owner' = owner
  BY XAddShape DEF Shape, TypeOK, XAdd
<1>2. Len(log) \in Nat /\ trimmed \in Nat /\ lastId \in Nat /\ trimmed' \in Nat
  BY XAddShape DEF Shape, TypeOK, StreamType
<1>3. \A i \in Ids : i \in Nat
  BY StreamConstants DEF Ids
<1> QED BY <1>1, <1>2, <1>3 DEF Forward, Pending, Unread, Stored, Published

\* XREADGROUP delivers only what had not been read.
LEMMA XReadGroupForward ==
    ASSUME Shape, NEW c \in Consumers, NEW batch, XReadGroup(c, batch)
    PROVE  Forward
<1>1. batch \subseteq Unread
  BY OldestSubset DEF XReadGroup
<1>2. lastId' >= lastId /\ log' = log /\ trimmed' = trimmed /\ lastId' \in Nat
  BY XReadGroupShape DEF Shape, TypeOK, StreamType
<1>3. \A i \in Ids : Pending(i)' => Pending(i) \/ i \in batch
  BY DEF XReadGroup, Pending
<1>4. \A i \in Ids : i \in Nat
  BY StreamConstants DEF Ids
<1> QED BY <1>1, <1>2, <1>3, <1>4
        DEF Forward, Shape, TypeOK, StreamType, Unread, Stored, Published

\* XCLAIM moves only what is pending.
LEMMA XClaimForward ==
    ASSUME Shape, NEW c \in Consumers, NEW ids, NEW min, XClaim(c, ids, min)
    PROVE  Forward
<1>1. UNCHANGED <<log, trimmed, lastId>> /\ \A i \in Ids : Pending(i)' => Pending(i)
  BY XClaimShape DEF Shape, TypeOK
<1> QED BY <1>1 DEF Forward, Shape, TypeOK, StreamType, Unread, Stored, Published

\* No step brings a settled alert back.
LEMMA NextForward == Shape /\ [Next]_vars => Forward
<1> SUFFICES ASSUME Shape, [Next]_vars PROVE Forward
  OBVIOUS
<1>1. CASE UNCHANGED vars
  BY <1>1, QuietForward DEF vars
<1>2. ASSUME NEW c \in Consumers, Worker(c) PROVE Forward
  <2>1. CASE Read(c) \/ ReadLost(c)
    BY <2>1, XReadGroupForward DEF Read, ReadLost
  <2>2. CASE Claim(c) \/ ClaimFails(c)
    BY <2>2, XClaimForward, QuietForward DEF Claim, ClaimFails
  <2>3. CASE Ack(c)
    <3>1. XAck(cur[c])
      BY <2>3 DEF Ack
    <3>2. UNCHANGED <<log, trimmed, lastId>>
          /\ \A i \in Ids : Pending(i)' => Pending(i)
      BY <3>1 DEF XAck, Pending, Shape, TypeOK, StreamType
    <3> QED BY <3>2 DEF Forward, Shape, TypeOK, StreamType, Unread, Stored, Published
  <2>4. CASE UNCHANGED streamVars
    BY <2>4, QuietForward
  <2> QED
    BY <1>2, <2>1, <2>2, <2>3, <2>4
       DEF Worker, WorkerStep, FinishBatch, ScanOwn, ScanOrphans, Sort, Notify,
           NotifyOk, NotifyFail, NotifyFailShown, NotifyBlocked, NotifyNoTarget,
           DeadLetter, DeadLetterGone, DrainSkip, Release, HandlerFails, Bury,
           AckFails, Record, RecordFails, Abandon, StartDrain, EndDrain,
           Restart, Shutdown, Crash
<1>3. ASSUME NEW p \in Requests, Request(p) PROVE Forward
  <2>1. ASSUME NEW S \in Batches(newOnes[p]),
               XAdd([route |-> route[p], tokens |-> S])
        PROVE  Forward
    <3>1. [route |-> route[p], tokens |-> S] \in Alert
      BY <2>1 DEF Batches, Shape, TypeOK, IngestType, Alert
    <3> QED BY <2>1, <3>1, XAddForward
  <2>2. CASE UNCHANGED streamVars
    BY <2>2, QuietForward
  <2> QED
    BY <1>3, <2>1, <2>2
       DEF Request, RequestStep, StartIngest, ClaimListing, ClaimListingFails,
           EndClaims, Publish, PublishFails, PublishMalformed, ReleaseListing,
           EndRelease, Cancel
<1>4. CASE Server
  <2>1. ASSUME NEW r \in Routes, PublishRaw(r) PROVE Forward
    <3>1. [route |-> r, tokens |-> {}] \in Alert
      BY DEF Alert
    <3> QED BY <2>1, <3>1, XAddForward DEF PublishRaw
  <2> QED BY <1>4, <2>1, QuietForward DEF Server, CrashServer
<1>5. CASE Tick
  BY <1>5 DEF Tick, Age, Forward, Shape, TypeOK, StreamType, Pending, Unread,
              Stored, Published
<1> QED BY <1>1, <1>2, <1>3, <1>4, <1>5 DEF Next

\* Once an alert has been acked (or trimmed away) it never comes back to a
\* worker through XREADGROUP, XPENDING or XCLAIM.
THEOREM SettledStaysSettled == Spec => SettledForGood
<1>1. Shape /\ [Next]_vars => [\A i \in Published : ~Live(i) => ~Live(i)']_vars
  <2> SUFFICES ASSUME Shape, [Next]_vars, NEW i \in Published, ~Live(i)
               PROVE  ~Live(i)'
    OBVIOUS
  <2>1. Forward
    BY NextForward
  <2>2. i \in Ids /\ i <= Len(log) /\ Len(log) \in Nat /\ i \in Nat
    BY StreamConstants DEF Published, Ids, Shape, TypeOK, StreamType
  <2> QED BY <2>1, <2>2 DEF Forward, Live
<1> QED BY <1>1, SpecShape, PTL DEF Spec, SettledForGood

-----------------------------------------------------------------------------
(* The delivery count *)

\* Workers whose last scan decided to claim message i, on a count that may be
\* stale by now.
Holders(i) == {c \in Consumers : i \in retry[c]}

\* Each of them may still add one to the count: RetryBound alone does not
\* survive a claim, this does.
RetryInv ==
    \A i \in Ids :
        count[i] + Cardinality(Holders(i)) < MaxRetries + Cardinality(Consumers)

\* There are at most as many holders as workers.
LEMMA HoldersFinite ==
    ASSUME NEW i
    PROVE  /\ IsFiniteSet(Holders(i)) /\ Cardinality(Holders(i)) \in Nat
           /\ Cardinality(Holders(i)) <= Cardinality(Consumers)
           /\ Cardinality(Consumers) \in Nat
<1>1. Holders(i) \subseteq Consumers
  BY DEF Holders
<1> QED BY <1>1, StreamConstants, FS_Subset, FS_CardinalityType

\* Fewer lists, fewer holders.
LEMMA HoldersShrink ==
    ASSUME NEW i, Holders(i)' \subseteq Holders(i)
    PROVE  /\ Cardinality(Holders(i)') \in Nat
           /\ Cardinality(Holders(i)') <= Cardinality(Holders(i))
BY HoldersFinite, FS_Subset, FS_CardinalityType

\* A step that neither counts a delivery nor adds to a claim list.
LEMMA RetryQuiet ==
    ASSUME Shape, RetryInv, count' = count,
           \A d \in Consumers : retry'[d] \subseteq retry[d]
    PROVE  RetryInv'
<1> SUFFICES ASSUME NEW i \in Ids
             PROVE  count'[i] + Cardinality(Holders(i)')
                       < MaxRetries + Cardinality(Consumers)
  BY DEF RetryInv
<1>1. Holders(i)' \subseteq Holders(i)
  BY DEF Holders
<1>2. count[i] \in Nat /\ MaxRetries \in Nat
  BY WorkerConstants DEF Shape, TypeOK, StreamType
<1> QED BY <1>1, <1>2, HoldersShrink, HoldersFinite DEF RetryInv

\* XREADGROUP starts the count of messages nobody has listed yet.
LEMMA RetryRead ==
    ASSUME Shape, RetryInv, NEW c \in Consumers, NEW batch,
           XReadGroup(c, batch), retry' = retry
    PROVE  RetryInv'
<1> SUFFICES ASSUME NEW i \in Ids
             PROVE  count'[i] + Cardinality(Holders(i)')
                       < MaxRetries + Cardinality(Consumers)
  BY DEF RetryInv
<1>1. Holders(i)' = Holders(i)
  BY DEF Holders
<1>2. CASE i \in batch
  <2>1. i > lastId
    BY <1>2, XReadGroupShape DEF Shape, TypeOK
  <2>2. Holders(i) = {}
    BY <2>1, WorkerEntry, StreamConstants DEF Holders, Shape, TypeOK, StreamType, Ids
  <2>3. Cardinality(Holders(i)') = 0
    BY <1>1, <2>2, FS_EmptySet
  <2>4. Cardinality(Consumers) \in Nat \ {0}
    BY StreamConstants, FS_EmptySet, FS_CardinalityType
  <2>5. count'[i] = 1
    BY <1>2 DEF XReadGroup
  <2> QED BY <2>3, <2>4, <2>5, WorkerConstants
<1>3. CASE i \notin batch
  BY <1>1, <1>3 DEF XReadGroup, RetryInv
<1> QED BY <1>2, <1>3

\* A scan lists a message for claiming only while its count is below the
\* limit, so it does not matter how many others have listed it.
LEMMA RetryScan ==
    ASSUME Shape, RetryInv, NEW c \in Consumers, NEW found, NEW label,
           Sort(c, found, label)
    PROVE  RetryInv'
<1> SUFFICES ASSUME NEW i \in Ids
             PROVE  count'[i] + Cardinality(Holders(i)')
                       < MaxRetries + Cardinality(Consumers)
  BY DEF RetryInv
<1>1. count' = count /\ count[i] \in Nat /\ MaxRetries \in Nat
  BY WorkerConstants DEF Sort, streamVars, Shape, TypeOK, StreamType
<1>2. retry' = [retry EXCEPT ![c] = {j \in found : ~Exhausted(j)}]
  BY DEF Sort
<1>3. CASE i \in retry'[c]
  <2>1. count[i] < MaxRetries
    BY <1>1, <1>2, <1>3 DEF Exhausted, Shape, TypeOK, WorkerType
  <2>2. Holders(i)' \subseteq Consumers
    BY DEF Holders
  <2>3. /\ Cardinality(Holders(i)') <= Cardinality(Consumers)
        /\ Cardinality(Holders(i)') \in Nat /\ Cardinality(Consumers) \in Nat
    BY <2>2, StreamConstants, FS_Subset, FS_CardinalityType
  <2> QED BY <1>1, <2>1, <2>3
<1>4. CASE i \notin retry'[c]
  <2>1. Holders(i)' \subseteq Holders(i)
    BY <1>2, <1>4 DEF Holders, Shape, TypeOK, WorkerType
  <2> QED BY <1>1, <2>1, HoldersShrink, HoldersFinite DEF RetryInv
<1> QED BY <1>3, <1>4

\* A claim adds one to the count and takes the claimer off the list.
LEMMA RetryClaim ==
    ASSUME Shape, RetryInv, NEW c \in Consumers, NEW min,
           XClaim(c, retry[c], min), retry' = [retry EXCEPT ![c] = {}]
    PROVE  RetryInv'
<1> SUFFICES ASSUME NEW i \in Ids
             PROVE  count'[i] + Cardinality(Holders(i)')
                       < MaxRetries + Cardinality(Consumers)
  BY DEF RetryInv
<1> DEFINE got == Claimed(retry[c], min)
<1>1. /\ got \subseteq retry[c]
      /\ count'[i] = IF i \in got THEN count[i] + 1 ELSE count[i]
  BY XClaimShape DEF Shape, TypeOK
<1>2. Holders(i)' = Holders(i) \ {c}
  BY DEF Holders, Shape, TypeOK, WorkerType
<1>3. count[i] \in Nat /\ MaxRetries \in Nat
  BY WorkerConstants DEF Shape, TypeOK, StreamType
<1> HIDE DEF got
<1>4. CASE i \in got
  <2>1. c \in Holders(i)
    BY <1>1, <1>4 DEF Holders
  <2>2. Cardinality(Holders(i)') = Cardinality(Holders(i)) - 1
    BY <1>2, <2>1, HoldersFinite, FS_RemoveElement
  <2> QED BY <1>1, <1>3, <1>4, <2>2, HoldersFinite DEF RetryInv
<1>5. CASE i \notin got
  <2>1. Holders(i)' \subseteq Holders(i)
    BY <1>2
  <2> QED BY <1>1, <1>3, <1>5, <2>1, HoldersShrink, HoldersFinite DEF RetryInv
<1> QED BY <1>4, <1>5

\* Every step keeps RetryInv.
LEMMA NextRetry == Shape /\ RetryInv /\ [Next]_vars => RetryInv'
<1> SUFFICES ASSUME Shape, RetryInv, [Next]_vars PROVE RetryInv'
  OBVIOUS
<1>1. CASE UNCHANGED vars
  BY <1>1, RetryQuiet DEF vars, streamVars, workerVars, listVars
<1>2. ASSUME NEW c \in Consumers, Worker(c) PROVE RetryInv'
  <2>1. CASE Read(c) \/ ReadLost(c)
    BY <2>1, RetryRead DEF Read, ReadLost, workerVars, listVars
  <2>2. CASE ScanOwn(c) \/ ScanOrphans(c)
    BY <2>2, RetryScan DEF ScanOwn, ScanOrphans
  <2>3. CASE Claim(c) \/ ClaimFails(c)
    <3>1. CASE XClaim(c, retry[c], MinIdle(pc[c]))
      BY <2>3, <3>1, RetryClaim DEF Claim, ClaimFails
    <3>2. CASE UNCHANGED streamVars /\ retry' = [retry EXCEPT ![c] = {}]
      BY <3>2, RetryQuiet DEF streamVars, Shape, TypeOK, WorkerType
    <3> QED BY <2>3, <3>1, <3>2 DEF Claim, ClaimFails
  <2>4. CASE Abandon(c) \/ EndDrain(c) \/ Crash(c)
    <3>1. count' = count /\ retry' = [retry EXCEPT ![c] = {}]
      BY <2>4 DEF Abandon, EndDrain, Crash, Halt, streamVars
    <3> QED BY <3>1, RetryQuiet DEF Shape, TypeOK, WorkerType
  <2>5. CASE count' = count /\ retry' = retry
    BY <2>5, RetryQuiet
  <2> QED
    BY <1>2, <2>1, <2>2, <2>3, <2>4, <2>5
       DEF Worker, WorkerStep, FinishBatch, Notify, NotifyOk, NotifyFail,
           NotifyFailShown, NotifyBlocked, NotifyNoTarget, DeadLetter,
           DeadLetterGone, DrainSkip, Release, HandlerFails, Bury, Ack, XAck,
           AckFails, Record, RecordFails, StartDrain, Restart, Shutdown,
           listVars, streamVars
<1>3. CASE (\E p \in Requests : Request(p)) \/ Server \/ Tick
  <2>1. UNCHANGED workerVars
    BY <1>3 DEF Request, Server, Tick
  <2>2. count' = count
    <3>1. ASSUME NEW p \in Requests, Request(p) PROVE count' = count
      BY <3>1 DEF Request, RequestStep, StartIngest, ClaimListing,
             ClaimListingFails, EndClaims, Publish, PublishFails,
             PublishMalformed, ReleaseListing, EndRelease, Cancel, XAdd,
             streamVars
    <3>2. CASE Server \/ Tick
      BY <3>2 DEF Server, CrashServer, PublishRaw, XAdd, Tick, Age, streamVars
    <3> QED BY <1>3, <3>1, <3>2
  <2> QED BY <2>1, <2>2, RetryQuiet DEF workerVars, listVars
<1> QED BY <1>1, <1>2, <1>3 DEF Next

\* RetryInv holds at the start.
LEMMA InitRetry == Init => RetryInv
<1> SUFFICES ASSUME Init, NEW i \in Ids
             PROVE  count[i] + Cardinality(Holders(i))
                       < MaxRetries + Cardinality(Consumers)
  BY DEF RetryInv
<1>1. Holders(i) = {} /\ count[i] = 0
  BY DEF Init, StreamInit, WorkerInit, Holders
<1> QED BY <1>1, WorkerConstants, HoldersFinite, FS_EmptySet

\* However scans, claims, lost replies, crashes and restarts of any number of
\* workers interleave, a message's delivery count stays below
\* MaxRetries + number of workers; with one worker it never exceeds MaxRetries.
THEOREM RetriesBounded == Spec => []RetryBound
<1>1. Shape /\ RetryInv => RetryBound
  <2> SUFFICES ASSUME Shape, RetryInv, NEW i \in Ids
               PROVE  count[i] < MaxRetries + Cardinality(Consumers)
    BY DEF RetryBound
  <2>1. count[i] \in Nat /\ MaxRetries \in Nat
    BY WorkerConstants DEF Shape, TypeOK, StreamType
  <2> QED BY <2>1, HoldersFinite DEF RetryInv
<1> QED BY <1>1, SpecShape, InitRetry, NextRetry, PTL DEF Spec

-----------------------------------------------------------------------------
(* No listing is lost silently *)

\* Keys of alert i whose claim worker c has released and not yet settled.
GivenBack(c, i) ==
    IF cur[c] = i /\ pc[c] = "release"
    THEN KeysOf(log[i].route, log[i].tokens \ left[c])
    ELSE IF /\ cur[c] = i /\ pc[c] \in {"bury", "ack"}
            /\ status[c] \in {"blocked", "dead_lettered"}
    THEN AlertKeysOf(i)
    ELSE {}

\* Alert i stands for the claim on k: it is in the stream, will come to a
\* worker, and nobody is giving k back on its account.  An alert whose claims
\* are being given back does not count, because its ack is about to remove it
\* while somebody else may have claimed k again.
Carrier(i, k) ==
    /\ Stored(i) /\ Live(i)
    /\ k \in AlertKeysOf(i)
    /\ \A c \in Consumers : k \notin GivenBack(c, i)

Kept(k) ==
    \/ Shown(k) \/ k \in forfeited
    \/ \E p \in Requests : k \in Held(p)
    \/ \E i \in Ids : Carrier(i, k)

\* Only what was shown is acked as sent, and only claims of a blocked or
\* dead-lettered alert are given back.
SettleInv ==
    \A c \in Consumers :
        /\ pc[c] = "ack" /\ status[c] = "sent" => told[cur[c]] > 0
        /\ pc[c] \in {"release", "bury"} =>
              status[c] \in {"blocked", "dead_lettered"}

\* An idle handler holds no claim.
IdleInv == \A p \in Requests : rpc[p] = "idle" => newOnes[p] = {}

LossInv == SettleInv /\ \A k \in seen : Kept(k)

\* What the user was shown stays shown.
LEMMA ShownStays ==
    ASSUME Shape, Shape', NEW k, Shown(k),
           \A i \in Published : i \in Published' /\ log'[i] = log[i]
                                /\ told'[i] >= told[i]
    PROVE  Shown(k)'
<1>1. PICK i \in Published : told[i] > 0 /\ k \in AlertKeysOf(i)
  BY DEF Shown
<1>2. i \in Published' /\ log'[i] = log[i] /\ told'[i] >= told[i]
  BY <1>1
<1>3. i \in Ids
  BY StreamConstants DEF Published, Ids, Shape, TypeOK, StreamType
<1>4. told[i] \in Nat /\ told'[i] \in Nat
  BY <1>3 DEF Shape, TypeOK, WorkerType
<1>5. told'[i] > 0
  BY <1>1, <1>2, <1>4
<1>6. k \in AlertKeysOf(i)'
  BY <1>1, <1>2 DEF AlertKeysOf
<1> QED BY <1>2, <1>5, <1>6 DEF Shown

\* What a step has to show to preserve LossInv: nothing is unshown, and what
\* kept a claim before either still does or is replaced.
LEMMA LossStep ==
    ASSUME Shape, Shape', LossInv, SettleInv',
           \A i \in Published : i \in Published' /\ log'[i] = log[i],
           \A i \in Ids : told'[i] >= told[i],
           forfeited \cap seen' \subseteq forfeited',
           \A k \in seen' \ seen : Kept(k)',
           \A k \in seen', p \in Requests : k \in Held(p) => Kept(k)',
           \A k \in seen', i \in Ids : Carrier(i, k) => Kept(k)'
    PROVE  LossInv'
<1> SUFFICES ASSUME NEW k \in seen', k \in seen PROVE Kept(k)'
  BY DEF LossInv
<1>1. Kept(k)
  BY DEF LossInv
<1>2. CASE Shown(k)
  <2>1. \A i \in Published : i \in Ids
    BY StreamConstants DEF Published, Ids, Shape, TypeOK, StreamType
  <2>2. Shown(k)'
    BY <1>2, <2>1, ShownStays
  <2> QED BY <2>2 DEF Kept
<1>3. CASE k \in forfeited
  BY <1>3 DEF Kept
<1> QED BY <1>1, <1>2, <1>3 DEF Kept

\* A step of one worker is not a step of another.
LEMMA OthersStay ==
    ASSUME Shape, NEW c \in Consumers, Worker(c), NEW d \in Consumers, d # c
    PROVE  /\ pc'[d] = pc[d] /\ cur'[d] = cur[d]
           /\ left'[d] = left[d] /\ status'[d] = status[d]
<1> USE DEF Goto, settleVars
<1>0. /\ pc \in [Consumers -> PCs] /\ cur \in [Consumers -> Ids \cup {0}]
      /\ left \in [Consumers -> SUBSET Tokens] /\ status \in [Consumers -> Statuses]
  BY DEF Shape, TypeOK, WorkerType
<1>1. CASE \/ Read(c) \/ ReadLost(c) \/ FinishBatch(c) \/ ScanOwn(c)
           \/ ScanOrphans(c) \/ Claim(c) \/ ClaimFails(c)
  BY <1>0, <1>1 DEF Read, ReadLost, FinishBatch, ScanOwn, ScanOrphans, Sort,
                    Claim, ClaimFails, workerVars
<1>2. CASE \E i \in Ids : \/ NotifyOk(c, i) \/ NotifyFail(c, i)
                          \/ NotifyFailShown(c, i) \/ NotifyBlocked(c, i)
                          \/ NotifyNoTarget(c, i)
  BY <1>0, <1>2 DEF NotifyOk, NotifyFail, NotifyFailShown, NotifyBlocked,
                    NotifyNoTarget, Settle, RunHook
<1>3. CASE \E i \in Ids : DeadLetter(c, i) \/ DeadLetterGone(c, i) \/ DrainSkip(c, i)
  BY <1>0, <1>3 DEF DeadLetter, DeadLetterGone, DrainSkip, Settle, RunHook
<1>4. CASE \/ \E t \in Tokens : Release(c, t)
           \/ HandlerFails(c) \/ Bury(c) \/ Ack(c) \/ AckFails(c)
  BY <1>0, <1>4 DEF Release, HandlerFails, Bury, Ack, AckFails, AfterAck, Return
<1>5. CASE Record(c) \/ RecordFails(c) \/ Abandon(c) \/ StartDrain(c)
  BY <1>0, <1>5 DEF Record, RecordFails, Abandon, StartDrain, Return
<1>6. CASE EndDrain(c) \/ Restart(c) \/ Shutdown(c) \/ Crash(c)
  BY <1>0, <1>6 DEF EndDrain, Restart, Shutdown, Crash, Halt
<1> QED BY <1>1, <1>2, <1>3, <1>4, <1>5, <1>6 DEF Worker, WorkerStep

\* A worker gives back a key only by releasing its claim.
LEMMA GivenBackGrows ==
    ASSUME Shape, Shape', NEW c \in Consumers, Worker(c), UNCHANGED log,
           NEW d \in Consumers, NEW i \in Ids
    PROVE  GivenBack(d, i)' \cap seen' \subseteq GivenBack(d, i)
<1> USE DEF Goto, settleVars
<1>1. CASE d # c
  BY <1>1, OthersStay DEF GivenBack, AlertKeysOf
<1>2. CASE d = c
  <2>0. /\ pc \in [Consumers -> PCs] /\ cur \in [Consumers -> Ids \cup {0}]
        /\ left \in [Consumers -> SUBSET Tokens]
        /\ status \in [Consumers -> Statuses] /\ ret[c] \notin Settling
    BY DEF Shape, TypeOK, WorkerType, WorkerShape
  <2>1. CASE pc'[c] \notin {"release", "bury", "ack"}
    BY <1>2, <2>1 DEF GivenBack
  <2>2. CASE UNCHANGED <<pc, cur, left, status>>
    BY <1>2, <2>2 DEF GivenBack, AlertKeysOf
  <2>3. CASE pc'[c] = "ack" /\ status'[c] \in {"sent", "noTarget", "gone"}
    BY <1>2, <2>3 DEF GivenBack
  <2>4. ASSUME NEW j \in Ids, NEW outcome, RunHook(c, j, outcome)
        PROVE  GivenBack(c, i)' = {}
    <3>1. cur'[c] = j /\ left'[c] = log[j].tokens
          /\ (pc'[c] = "release" \/ log[j].tokens = {})
      BY <2>0, <2>4 DEF RunHook, Settle
    <3> QED BY <3>1 DEF GivenBack, AlertKeysOf, KeysOf
  <2>5. ASSUME NEW t \in Tokens, Release(c, t)
        PROVE  GivenBack(c, i)' \cap seen' \subseteq GivenBack(c, i)
    <3>1. /\ pc[c] = "release" /\ left'[c] = left[c] \ {t} /\ cur' = cur
          /\ <<log[cur[c]].route, t>> \notin seen'
      BY <2>0, <2>5 DEF Release, ReleaseClaim
    <3>2. CASE cur[c] # i
      BY <3>1, <3>2 DEF GivenBack
    <3>3. CASE cur[c] = i
      <4>1. pc'[c] = "release" \/ left'[c] = {}
        BY <2>0, <2>5, <3>1 DEF Release
      <4>2. GivenBack(c, i)' \subseteq
              KeysOf(log[i].route, log[i].tokens \ left'[c])
        BY <4>1 DEF GivenBack, AlertKeysOf, KeysOf
      <4>3. GivenBack(c, i) = KeysOf(log[i].route, log[i].tokens \ left[c])
        BY <3>1, <3>3 DEF GivenBack
      <4> QED BY <3>1, <3>3, <4>2, <4>3 DEF KeysOf
    <3> QED BY <3>2, <3>3
  <2>6. CASE Bury(c)
    BY <1>2, <2>0, <2>6 DEF Bury, GivenBack, AlertKeysOf
  <2>7. CASE \/ Read(c) \/ ReadLost(c) \/ FinishBatch(c) \/ ScanOwn(c)
             \/ ScanOrphans(c) \/ Claim(c) \/ ClaimFails(c)
    BY <2>0, <2>1, <2>2, <2>7
       DEF Read, ReadLost, FinishBatch, ScanOwn, ScanOrphans, Sort, Claim,
           ClaimFails, workerVars
  <2>8. ASSUME NEW j \in Ids,
               \/ NotifyOk(c, j) \/ NotifyFail(c, j) \/ NotifyFailShown(c, j)
               \/ NotifyBlocked(c, j) \/ NotifyNoTarget(c, j)
        PROVE  GivenBack(d, i)' \cap seen' \subseteq GivenBack(d, i)
    BY <1>2, <2>0, <2>2, <2>3, <2>4, <2>8
       DEF NotifyOk, NotifyFail, NotifyFailShown, NotifyBlocked, NotifyNoTarget,
           Settle
  <2>9. ASSUME NEW j \in Ids,
               DeadLetter(c, j) \/ DeadLetterGone(c, j) \/ DrainSkip(c, j)
        PROVE  GivenBack(d, i)' \cap seen' \subseteq GivenBack(d, i)
    BY <1>2, <2>0, <2>2, <2>3, <2>4, <2>9
       DEF DeadLetter, DeadLetterGone, DrainSkip, Settle
  <2>10. CASE HandlerFails(c) \/ Ack(c) \/ AckFails(c) \/ Record(c) \/ RecordFails(c)
    BY <2>0, <2>1, <2>10
       DEF HandlerFails, Ack, AckFails, AfterAck, Record, RecordFails, Return,
           Settling
  <2>11. CASE Abandon(c) \/ StartDrain(c) \/ EndDrain(c) \/ Restart(c)
              \/ Shutdown(c) \/ Crash(c)
    BY <2>0, <2>1, <2>2, <2>11
       DEF Abandon, StartDrain, EndDrain, Restart, Shutdown, Crash, Halt
  <2> QED
    BY <1>2, <2>5, <2>6, <2>7, <2>8, <2>9, <2>10, <2>11 DEF Worker, WorkerStep
<1> QED BY <1>1, <1>2

\* No worker's step unshows an alert or claims a key, and a key leaves
\* `forfeited` only with its claim.
LEMMA WorkerTells ==
    ASSUME Shape, NEW c \in Consumers, Worker(c)
    PROVE  /\ \A i \in Ids : told'[i] >= told[i]
           /\ seen' \subseteq seen
           /\ forfeited \cap seen' \subseteq forfeited'
<1> USE DEF dedupVars, historyVars
<1>0. told \in [Ids -> Nat]
  BY DEF Shape, TypeOK, WorkerType
<1>1. CASE \/ Read(c) \/ ReadLost(c) \/ FinishBatch(c) \/ ScanOwn(c)
           \/ ScanOrphans(c) \/ Claim(c) \/ ClaimFails(c)
  BY <1>0, <1>1 DEF Read, ReadLost, FinishBatch, ScanOwn, ScanOrphans, Sort,
                    Claim, ClaimFails, workerVars
<1>2. CASE \E i \in Ids : \/ NotifyOk(c, i) \/ NotifyFail(c, i)
                          \/ NotifyFailShown(c, i) \/ NotifyBlocked(c, i)
                          \/ NotifyNoTarget(c, i)
  BY <1>0, <1>2 DEF NotifyOk, NotifyFail, NotifyFailShown, NotifyBlocked,
                    NotifyNoTarget, Notify
<1>3. CASE \E i \in Ids : DeadLetter(c, i) \/ DeadLetterGone(c, i) \/ DrainSkip(c, i)
  BY <1>0, <1>3 DEF DeadLetter, DeadLetterGone, DrainSkip
<1>4. CASE \/ \E t \in Tokens : Release(c, t)
           \/ HandlerFails(c) \/ Bury(c) \/ Ack(c) \/ AckFails(c)
  BY <1>0, <1>4 DEF Release, ReleaseClaim, HandlerFails, Bury, Ack, Forfeit,
                    AckFails
<1>5. CASE Record(c) \/ RecordFails(c) \/ Abandon(c) \/ StartDrain(c)
  BY <1>0, <1>5 DEF Record, RecordFails, Abandon, StartDrain
<1>6. CASE EndDrain(c) \/ Restart(c) \/ Shutdown(c) \/ Crash(c)
  BY <1>0, <1>6 DEF EndDrain, Restart, Shutdown, Crash
<1> QED BY <1>1, <1>2, <1>3, <1>4, <1>5, <1>6 DEF Worker, WorkerStep

\* SettleInv is inductive.
LEMMA WorkerSettles ==
    ASSUME Shape, SettleInv, NEW c \in Consumers, Worker(c)
    PROVE  SettleInv'
<1> USE DEF Goto, settleVars
<1> SUFFICES ASSUME NEW d \in Consumers
             PROVE  /\ pc'[d] = "ack" /\ status'[d] = "sent" => told'[cur'[d]] > 0
                    /\ pc'[d] \in {"release", "bury"} =>
                          status'[d] \in {"blocked", "dead_lettered"}
  BY DEF SettleInv
<1>1. pc[d] = "ack" /\ status[d] = "sent" => told'[cur[d]] > 0
  <2> SUFFICES ASSUME pc[d] = "ack", status[d] = "sent" PROVE told'[cur[d]] > 0
    OBVIOUS
  <2>1. cur[d] \in Ids
    BY WorkerEntry DEF Settling
  <2>2. told[cur[d]] > 0 /\ told'[cur[d]] >= told[cur[d]]
    BY <2>1, WorkerTells DEF SettleInv
  <2>3. told[cur[d]] \in Nat /\ told'[cur[d]] \in Nat
    BY <2>1, WorkerKeepsShape DEF Shape, TypeOK, WorkerType
  <2> QED BY <2>2, <2>3
<1>2. CASE d # c
  BY <1>1, <1>2, OthersStay DEF SettleInv
<1>3. CASE d = c
  <2>0. /\ pc \in [Consumers -> PCs] /\ cur \in [Consumers -> Ids \cup {0}]
        /\ status \in [Consumers -> Statuses] /\ ret[c] \notin Settling
        /\ told \in [Ids -> Nat]
    BY DEF Shape, TypeOK, WorkerType, WorkerShape
  <2>1. CASE pc'[c] \notin {"release", "bury", "ack"}
    BY <1>3, <2>1
  <2>2. CASE UNCHANGED <<pc, cur, status>>
    BY <1>1, <1>3, <2>2 DEF SettleInv
  <2>3. CASE status'[c] \in {"blocked", "dead_lettered"}
    BY <1>3, <2>3
  <2>4. CASE pc'[c] = "ack" /\ status'[c] # "sent"
    BY <1>3, <2>4
  <2>5. CASE \/ Read(c) \/ ReadLost(c) \/ FinishBatch(c) \/ ScanOwn(c)
             \/ ScanOrphans(c) \/ Claim(c) \/ ClaimFails(c)
    BY <2>0, <2>1, <2>2, <2>5
       DEF Read, ReadLost, FinishBatch, ScanOwn, ScanOrphans, Sort, Claim,
           ClaimFails, workerVars
  <2>6. ASSUME NEW j \in Ids, NotifyOk(c, j)
        PROVE  pc'[c] = "ack" /\ told'[cur'[c]] > 0
    BY <2>0, <2>6 DEF NotifyOk, Settle
  <2>7. ASSUME NEW j \in Ids,
               \/ NotifyFail(c, j) \/ NotifyFailShown(c, j)
               \/ NotifyBlocked(c, j) \/ NotifyNoTarget(c, j)
        PROVE  \/ UNCHANGED <<pc, cur, status>>
               \/ status'[c] \in {"blocked", "dead_lettered"}
               \/ pc'[c] = "ack" /\ status'[c] # "sent"
    BY <2>0, <2>7
       DEF NotifyFail, NotifyFailShown, NotifyBlocked, NotifyNoTarget, RunHook,
           Settle
  <2>8. ASSUME NEW j \in Ids,
               DeadLetter(c, j) \/ DeadLetterGone(c, j) \/ DrainSkip(c, j)
        PROVE  \/ UNCHANGED <<pc, cur, status>>
               \/ status'[c] \in {"blocked", "dead_lettered"}
               \/ pc'[c] = "ack" /\ status'[c] # "sent"
    BY <2>0, <2>8 DEF DeadLetter, DeadLetterGone, DrainSkip, RunHook, Settle
  <2>9. CASE Bury(c) \/ \E t \in Tokens : Release(c, t)
    <3>1. status' = status /\ pc[c] \in {"release", "bury"}
      BY <2>9 DEF Bury, Release
    <3> QED BY <2>3, <3>1 DEF SettleInv
  <2>10. CASE HandlerFails(c) \/ Ack(c) \/ AckFails(c) \/ Record(c) \/ RecordFails(c)
    BY <2>0, <2>1, <2>10
       DEF HandlerFails, Ack, AckFails, AfterAck, Record, RecordFails, Return,
           Settling
  <2>11. CASE Abandon(c) \/ StartDrain(c) \/ EndDrain(c) \/ Restart(c)
              \/ Shutdown(c) \/ Crash(c)
    BY <2>0, <2>1, <2>2, <2>11
       DEF Abandon, StartDrain, EndDrain, Restart, Shutdown, Crash, Halt
  <2> QED
    BY <1>3, <2>2, <2>3, <2>4, <2>5, <2>6, <2>7, <2>8, <2>9, <2>10, <2>11
       DEF Worker, WorkerStep
<1> QED BY <1>2, <1>3

\* A worker's step that adds and trims nothing, and leaves the alerts that
\* stand for a claim live or settles them.
LEMMA WorkerLoss ==
    ASSUME Shape, LossInv, NEW c \in Consumers, Worker(c),
           UNCHANGED <<log, trimmed>>,
           \A k \in seen', i \in Ids : Carrier(i, k) => Live(i)' \/ Kept(k)'
    PROVE  LossInv'
<1>1. Shape' /\ SettleInv'
  BY WorkerKeepsShape, WorkerSettles DEF LossInv
<1>2. \A i \in Published : i \in Published' /\ log'[i] = log[i]
  BY DEF Published
<1>3. /\ \A i \in Ids : told'[i] >= told[i]
      /\ seen' \subseteq seen /\ forfeited \cap seen' \subseteq forfeited'
  BY WorkerTells
<1>4. ASSUME NEW k \in seen', NEW p \in Requests, k \in Held(p) PROVE Kept(k)'
  <2>1. k \in Held(p)'
    BY <1>4 DEF Worker, Held, ingestVars, requestVars
  <2> QED BY <2>1 DEF Kept
<1>5. ASSUME NEW k \in seen', NEW i \in Ids, Carrier(i, k) PROVE Kept(k)'
  <2>1. CASE Live(i)'
    <3>1. Stored(i)' /\ k \in AlertKeysOf(i)'
      BY <1>5 DEF Carrier, Stored, Published, AlertKeysOf
    <3>2. \A d \in Consumers : k \notin GivenBack(d, i)'
      BY <1>1, <1>5, GivenBackGrows DEF Carrier
    <3>3. Carrier(i, k)'
      BY <2>1, <3>1, <3>2 DEF Carrier
    <3> QED BY <3>3 DEF Kept
  <2> QED BY <1>5, <2>1
<1> QED BY <1>1, <1>2, <1>3, <1>4, <1>5, LossStep

\* COUNT keeps a prefix.
LEMMA OldestPrefix ==
    ASSUME NEW n \in Nat, NEW S \in SUBSET Ids,
           NEW i \in S, NEW j \in Oldest(n, S), i < j
    PROVE  i \in Oldest(n, S)
<1>1. IsFiniteSet(Ids)
  BY FS_Interval, StreamConstants DEF Ids
<1>2. \A x \in Ids : x \in Nat
  BY StreamConstants DEF Ids
<1> DEFINE before(x) == {y \in S : y < x}
<1>3. before(i) \subseteq before(j)
  BY <1>2 DEF Oldest
<1>4. IsFiniteSet(before(j)) /\ before(i) \subseteq Ids
  BY <1>1, FS_Subset
<1>5. /\ IsFiniteSet(before(i)) /\ Cardinality(before(i)) <= Cardinality(before(j))
      /\ Cardinality(before(i)) \in Nat /\ Cardinality(before(j)) \in Nat
  BY <1>3, <1>4, FS_Subset, FS_CardinalityType
<1>6. Cardinality(before(j)) < n
  BY DEF Oldest
<1>7. Cardinality(before(i)) < n
  BY <1>5, <1>6
<1> QED BY <1>7 DEF Oldest

\* What XREADGROUP passes over, it delivers.
LEMMA XReadGroupLive ==
    ASSUME Shape, NEW c \in Consumers, NEW batch, XReadGroup(c, batch),
           NEW i \in Ids, Live(i)
    PROVE  Live(i)'
<1>0. batch = Oldest(ReadCount, Unread) /\ ReadCount \in Nat
      /\ Unread \in SUBSET Ids
  BY StreamConstants DEF XReadGroup, Unread
<1>1. i \in Nat /\ \A j \in Ids : j \in Nat
  BY StreamConstants DEF Ids
<1>2. CASE i \in batch
  BY <1>2, StreamConstants DEF XReadGroup, Live, Pending
<1>3. CASE Pending(i) /\ i \notin batch
  BY <1>3 DEF XReadGroup, Live, Pending
<1>4. CASE i \in Unread /\ i \notin batch
  <2>1. PICK top \in batch : lastId' = top
    BY DEF XReadGroup
  <2>2. top \in Unread
    BY <1>0, <2>1, OldestSubset
  <2>3. ~(i < top)
    BY <1>0, <1>4, <2>1, OldestPrefix
  <2>4. i > top
    BY <1>0, <1>1, <1>4, <2>1, <2>2, <2>3
  <2>5. i \in Unread'
    BY <1>4, <2>1, <2>4 DEF XReadGroup, Unread, Stored, Published
  <2> QED BY <2>5 DEF Live
<1> QED BY <1>2, <1>3, <1>4 DEF Live

\* XCLAIM drops only trimmed entries.
LEMMA XClaimLive ==
    ASSUME Shape, NEW c \in Consumers, NEW ids, NEW min, XClaim(c, ids, min),
           NEW i \in Ids, Stored(i), Live(i)
    PROVE  Live(i)'
<1>1. CASE i \in Unread
  BY <1>1 DEF XClaim, Live, Unread, Stored, Published
<1>2. CASE Pending(i)
  <2>1. i \notin Claimable(ids, min) \ Claimed(ids, min)
    BY DEF Claimed, Stored
  <2>2. owner'[i] \in {c, owner[i]}
    BY <2>1 DEF XClaim
  <2> QED BY <1>2, <2>2, StreamConstants DEF Pending, Live
<1> QED BY <1>1, <1>2 DEF Live

\* An ack settles the alert: what it stood for was shown, or given up, or
\* had been given back before.
LEMMA AckLoss ==
    ASSUME Shape, LossInv, NEW c \in Consumers, Worker(c), Ack(c)
    PROVE  LossInv'
<1>0. UNCHANGED <<log, trimmed, lastId, seen, told>>
  BY DEF Ack, XAck, historyVars
<1>1. cur[c] \in Ids /\ cur[c] <= lastId /\ status[c] # "none"
      /\ status[c] \in Statuses /\ pc[c] = "ack"
  BY DEF Ack, Settling, Shape, TypeOK, WorkerType, WorkerShape
<1>2. cur[c] \in Published
  BY <1>1, ReadEntry
<1>3. ASSUME NEW k \in seen', NEW i \in Ids, Carrier(i, k)
      PROVE  Live(i)' \/ Kept(k)'
  <2>1. CASE i # cur[c]
    BY <1>0, <1>3, <2>1 DEF Carrier, Live, Unread, Stored, Published, Pending,
                             Ack, XAck, Shape, TypeOK, StreamType
  <2>2. CASE i = cur[c] /\ status[c] = "sent"
    <3>1. told'[i] > 0 /\ i \in Published' /\ k \in AlertKeysOf(i)'
      BY <1>0, <1>1, <1>2, <1>3, <2>2
         DEF LossInv, SettleInv, Carrier, AlertKeysOf, Published
    <3> QED BY <3>1 DEF Kept, Shown
  <2>3. CASE i = cur[c] /\ status[c] \in {"noTarget", "gone"}
    <3>1. k \in forfeited'
      BY <1>0, <1>3, <2>3 DEF Ack, Forfeit, Carrier
    <3> QED BY <3>1 DEF Kept
  <2>4. CASE i = cur[c] /\ status[c] \in {"blocked", "dead_lettered"}
    <3>1. k \in GivenBack(c, i)
      BY <1>1, <1>3, <2>4 DEF GivenBack, Carrier
    <3> QED BY <1>3, <3>1 DEF Carrier
  <2> QED BY <1>1, <2>1, <2>2, <2>3, <2>4 DEF Statuses
<1> QED BY <1>0, <1>3, WorkerLoss

\* Every step of a worker keeps LossInv.
LEMMA WorkerKeepsLoss ==
    ASSUME Shape, LossInv, NEW c \in Consumers, Worker(c)
    PROVE  LossInv'
<1>1. CASE UNCHANGED streamVars
  <2>1. \A i \in Ids : Live(i) => Live(i)'
    BY <1>1 DEF Live, Unread, Stored, Published, Pending, streamVars
  <2> QED BY <1>1, <2>1, WorkerLoss DEF streamVars, Carrier
<1>2. CASE \E batch \in SUBSET Ids : XReadGroup(c, batch)
  <2>1. \A i \in Ids : Live(i) => Live(i)'
    BY <1>2, XReadGroupLive
  <2>2. UNCHANGED <<log, trimmed>>
    BY <1>2 DEF XReadGroup
  <2> QED BY <2>1, <2>2, WorkerLoss DEF Carrier
<1>3. CASE XClaim(c, retry[c], MinIdle(pc[c]))
  <2>1. \A i \in Ids : Stored(i) /\ Live(i) => Live(i)'
    BY <1>3, XClaimLive
  <2>2. UNCHANGED <<log, trimmed>>
    BY <1>3 DEF XClaim
  <2> QED BY <2>1, <2>2, WorkerLoss DEF Carrier
<1>4. CASE Ack(c)
  BY <1>4, AckLoss
<1>5. CASE Read(c) \/ ReadLost(c)
  BY <1>2, <1>5 DEF Read, ReadLost
<1>6. CASE Claim(c) \/ ClaimFails(c)
  BY <1>1, <1>3, <1>6 DEF Claim, ClaimFails
<1>7. CASE FinishBatch(c) \/ ScanOwn(c) \/ ScanOrphans(c)
  BY <1>1, <1>7 DEF FinishBatch, ScanOwn, ScanOrphans, Sort
<1>8. CASE \E i \in Ids : \/ NotifyOk(c, i) \/ NotifyFail(c, i)
                          \/ NotifyFailShown(c, i) \/ NotifyBlocked(c, i)
                          \/ NotifyNoTarget(c, i)
  BY <1>1, <1>8 DEF NotifyOk, NotifyFail, NotifyFailShown, NotifyBlocked,
                    NotifyNoTarget, Notify
<1>9. CASE \E i \in Ids : DeadLetter(c, i) \/ DeadLetterGone(c, i) \/ DrainSkip(c, i)
  BY <1>1, <1>9 DEF DeadLetter, DeadLetterGone, DrainSkip
<1>10. CASE \/ \E t \in Tokens : Release(c, t)
            \/ HandlerFails(c) \/ Bury(c) \/ AckFails(c)
  BY <1>1, <1>10 DEF Release, HandlerFails, Bury, AckFails
<1>11. CASE Record(c) \/ RecordFails(c) \/ Abandon(c) \/ StartDrain(c)
  BY <1>1, <1>11 DEF Record, RecordFails, Abandon, StartDrain
<1>12. CASE EndDrain(c) \/ Restart(c) \/ Shutdown(c) \/ Crash(c)
  BY <1>1, <1>12 DEF EndDrain, Restart, Shutdown, Crash
<1> QED
  BY <1>4, <1>5, <1>6, <1>7, <1>8, <1>9, <1>10, <1>11, <1>12
     DEF Worker, WorkerStep

\* A step outside the workers: alerts that stand for a claim stay in the
\* stream unless the claim is given up.
LEMMA ProducerLoss ==
    ASSUME Shape, Shape', LossInv, UNCHANGED workerVars,
           \A i \in Published : i \in Published' /\ log'[i] = log[i],
           UNCHANGED <<lastId, owner>>,
           forfeited \cap seen' \subseteq forfeited',
           \A k \in seen' \ seen : Kept(k)',
           \A k \in seen', p \in Requests : k \in Held(p) => Kept(k)',
           \A k \in seen', i \in Ids :
               Carrier(i, k) => i > trimmed' \/ k \in forfeited'
    PROVE  LossInv'
<1> USE DEF workerVars, settleVars, historyVars
<1>1. SettleInv'
  BY DEF LossInv, SettleInv
<1>2. \A i \in Ids : told'[i] >= told[i]
  BY DEF Shape, TypeOK, WorkerType
<1>3. ASSUME NEW k \in seen', NEW i \in Ids, Carrier(i, k) PROVE Kept(k)'
  <2>1. CASE k \in forfeited'
    BY <2>1 DEF Kept
  <2>2. CASE i > trimmed'
    <3>1. i \in Published /\ i \in Published' /\ log'[i] = log[i]
      BY <1>3 DEF Carrier, Stored
    <3>2. Stored(i)' /\ k \in AlertKeysOf(i)'
      BY <1>3, <2>2, <3>1 DEF Carrier, Stored, AlertKeysOf
    <3>3. Live(i)'
      BY <1>3, <3>2 DEF Carrier, Live, Unread, Pending
    <3>4. \A c \in Consumers : GivenBack(c, i)' = GivenBack(c, i)
      BY <3>1 DEF GivenBack, AlertKeysOf
    <3>5. Carrier(i, k)'
      BY <1>3, <3>2, <3>3, <3>4 DEF Carrier
    <3> QED BY <3>5 DEF Kept
  <2> QED BY <1>3, <2>1, <2>2
<1> QED BY <1>1, <1>2, <1>3, LossStep

\* ... one that leaves the stream alone.
LEMMA ProducerQuiet ==
    ASSUME Shape, Shape', LossInv, UNCHANGED workerVars, UNCHANGED streamVars,
           forfeited \cap seen' \subseteq forfeited',
           \A k \in seen' \ seen : Kept(k)',
           \A k \in seen', p \in Requests : k \in Held(p) => Kept(k)'
    PROVE  LossInv'
<1>1. \A i \in Published : i \in Published' /\ log'[i] = log[i]
  BY DEF Published, streamVars
<1>2. UNCHANGED <<lastId, owner, trimmed>>
  BY DEF streamVars
<1>3. \A k \in seen', i \in Ids : Carrier(i, k) => i > trimmed'
  BY <1>2 DEF Carrier, Stored
<1> QED BY <1>1, <1>2, <1>3, ProducerLoss

\* ... one that adds an alert and gives up the claims of what XADD trims.
LEMMA ProducerAdd ==
    ASSUME Shape, Shape', LossInv, UNCHANGED workerVars, seen' = seen,
           NEW a \in Alert, XAdd(a),
           forfeited \subseteq forfeited',
           TrimmedKeys \cap seen \subseteq forfeited',
           \A k \in seen, p \in Requests : k \in Held(p) => Kept(k)'
    PROVE  LossInv'
<1>1. /\ Len(log') = Len(log) + 1 /\ Len(log) \in Nat
      /\ \A i \in Published : log'[i] = log[i]
      /\ trimmed' \in Nat /\ trimmed \in Nat
  BY XAddShape DEF Shape, TypeOK, StreamType
<1>2. \A i \in Published : i \in Published' /\ log'[i] = log[i]
  BY <1>1 DEF Published
<1>3. UNCHANGED <<lastId, owner>>
  BY DEF XAdd
<1>4. ASSUME NEW k \in seen, NEW i \in Ids, Carrier(i, k), ~(i > trimmed')
      PROVE  k \in forfeited'
  <2>1. i \in Nat
    BY StreamConstants DEF Ids
  <2>2. i \in NewlyTrimmed
    BY <1>1, <1>4, <2>1 DEF NewlyTrimmed, Carrier, Stored
  <2>3. k \in TrimmedKeys
    BY <1>4, <2>2 DEF TrimmedKeys, Carrier, AlertKeysOf
  <2> QED BY <2>3
<1> QED BY <1>2, <1>3, <1>4, ProducerLoss

\* The alert just added stands for the claims on its keys.
LEMMA AddedCarries ==
    ASSUME Shape, Shape', UNCHANGED workerVars, NEW a \in Alert, XAdd(a),
           NEW k \in KeysOf(a.route, a.tokens)
    PROVE  \E i \in Ids : Carrier(i, k)'
<1>0. PICK n \in Nat : n = Len(log) + 1
  BY DEF Shape, TypeOK, StreamType
<1>1. /\ Len(log') = n /\ n = Len(log) + 1 /\ log'[n] = a /\ trimmed' <= Len(log) /\ lastId' = lastId
      /\ Len(log) \in Nat /\ trimmed' \in Nat /\ lastId <= Len(log) /\ lastId \in Nat
  BY <1>0, XAddShape DEF Shape, TypeOK, StreamType, StreamShape
<1>2. n \in Ids
  BY <1>1, StreamConstants DEF XAdd, Ids
<1>3. Stored(n)' /\ Live(n)'
  BY <1>1, <1>2 DEF Stored, Published, Live, Unread
<1>4. k \in AlertKeysOf(n)'
  BY <1>1 DEF AlertKeysOf
<1>5. \A c \in Consumers : GivenBack(c, n)' = {}
  <2> SUFFICES ASSUME NEW c \in Consumers, pc'[c] \in {"release", "bury", "ack"}
               PROVE  cur'[c] # n
    BY DEF GivenBack
  <2>1. cur'[c] <= lastId' /\ cur'[c] \in Ids
    BY DEF Shape, WorkerShape, Settling
  <2>2. cur'[c] \in Nat
    BY <2>1, StreamConstants DEF Ids
  <2> QED BY <1>1, <2>1, <2>2
<1>6. Carrier(n, k)'
  BY <1>3, <1>4, <1>5 DEF Carrier
<1> QED BY <1>2, <1>6

\* A handler goes idle only after its claims are published, released or
\* given up.
LEMMA NextIdle == Shape /\ IdleInv /\ [Next]_vars => IdleInv'
<1> SUFFICES ASSUME Shape, IdleInv, [Next]_vars PROVE IdleInv'
  OBVIOUS
<1> USE DEF RGoto
<1>0. /\ rpc \in [Requests -> {"idle", "claim", "publish", "release"}]
      /\ newOnes \in [Requests -> SUBSET Tokens]
  BY DEF Shape, TypeOK, IngestType
<1>1. CASE UNCHANGED ingestVars
  BY <1>1 DEF IdleInv, ingestVars, requestVars
<1>2. ASSUME NEW p \in Requests, StartIngest(p) \/ Cancel(p) PROVE IdleInv'
  BY <1>0, <1>2 DEF IdleInv, StartIngest, Cancel
<1>3. ASSUME NEW p \in Requests, NEW t \in Tokens,
             ClaimListing(p, t) \/ ClaimListingFails(p, t) \/ ReleaseListing(p, t)
      PROVE  IdleInv'
  BY <1>0, <1>3 DEF IdleInv, ClaimListing, ClaimListingFails, ReleaseListing
<1>4. ASSUME NEW p \in Requests, Finish(p) PROVE IdleInv'
  BY <1>0, <1>4 DEF IdleInv, Finish
<1>5. ASSUME NEW p \in Requests,
             \/ EndClaims(p) \/ Publish(p) \/ PublishFails(p)
             \/ PublishMalformed(p) \/ EndRelease(p)
      PROVE  IdleInv'
  BY <1>0, <1>4, <1>5
     DEF IdleInv, EndClaims, Publish, PublishFails, PublishMalformed, EndRelease
<1>6. CASE CrashServer
  BY <1>6 DEF IdleInv, CrashServer
<1>7. ASSUME NEW r \in Routes, PublishRaw(r) PROVE IdleInv'
  BY <1>7 DEF IdleInv, PublishRaw, requestVars
<1> QED
  BY <1>1, <1>2, <1>3, <1>5, <1>6, <1>7
     DEF Next, Worker, Request, RequestStep, Server, Tick, vars

\* A handler that finishes keeps the claims of the others.
LEMMA FinishHeld ==
    ASSUME Shape, NEW p \in Requests, Finish(p), NEW q \in Requests, q # p
    PROVE  Held(q)' = Held(q)
BY DEF Shape, TypeOK, IngestType, Finish, Held

\* Every step of a request keeps LossInv.
LEMMA RequestKeepsLoss ==
    ASSUME Shape, LossInv, IdleInv, NEW p \in Requests, Request(p)
    PROVE  LossInv'
<1> USE DEF RGoto, Forfeit
<1>0. UNCHANGED workerVars /\ Shape' /\ seen \subseteq Keys
  BY RequestKeepsShape DEF Request, Shape, TypeOK, DedupType
<1>h. \A q \in Requests : \A k \in Held(q)' : Kept(k)'
  BY DEF Kept
<1>f. \A k \in forfeited' : Kept(k)'
  BY DEF Kept
<1>t. /\ rpc \in [Requests -> {"idle", "claim", "publish", "release"}]
      /\ route \in [Requests -> Routes]
      /\ newOnes \in [Requests -> SUBSET Tokens]
  BY DEF Shape, TypeOK, IngestType
<1>q. CASE /\ UNCHANGED streamVars /\ UNCHANGED <<seen, forfeited>>
           /\ \A q \in Requests : Held(q)' = Held(q)
  BY <1>0, <1>h, <1>q, ProducerQuiet
<1>1. CASE StartIngest(p)
  <2>1. newOnes[p] = {} /\ newOnes' = newOnes
        /\ \A q \in Requests : q # p => route'[q] = route[q]
    BY <1>1, <1>t DEF StartIngest, IdleInv
  <2>2. \A q \in Requests : Held(q)' = Held(q)
    BY <2>1 DEF Held, KeysOf
  <2> QED BY <1>1, <1>q, <2>2 DEF StartIngest, dedupVars
<1>2. ASSUME NEW t \in Tokens, ClaimListing(p, t) PROVE LossInv'
  <2> DEFINE k == <<route[p], t>>
  <2>1. /\ UNCHANGED streamVars /\ forfeited' = forfeited
        /\ seen' = seen \cup {k} /\ route' = route
    BY <1>2 DEF ClaimListing, ClaimNew
  <2>2. \A q \in Requests : newOnes[q] \subseteq newOnes'[q]
    BY <1>2, <1>t DEF ClaimListing
  <2>3. \A q \in Requests : Held(q) \subseteq Held(q)'
    BY <2>1, <2>2 DEF Held, KeysOf
  <2>4. k \notin seen => t \in newOnes'[p]
    BY <1>2, <1>t DEF ClaimListing, IsNew
  <2>5. k \notin seen => k \in Held(p)'
    BY <2>1, <2>4 DEF Held, KeysOf
  <2>6. \A x \in seen' \ seen : Kept(x)'
    BY <1>h, <2>1, <2>5
  <2>7. \A x \in seen', q \in Requests : x \in Held(q) => Kept(x)'
    BY <1>h, <2>3
  <2> QED BY <1>0, <2>1, <2>6, <2>7, ProducerQuiet
<1>3. ASSUME NEW t \in Tokens, ClaimListingFails(p, t) PROVE LossInv'
  <2>1. UNCHANGED streamVars /\ UNCHANGED <<route, newOnes>>
    BY <1>3 DEF ClaimListingFails
  <2>2. \A q \in Requests : Held(q)' = Held(q)
    BY <2>1 DEF Held
  <2>3. forfeited \subseteq forfeited' /\ seen' \ seen \subseteq forfeited'
    BY <1>3 DEF ClaimListingFails, ClaimNew
  <2>4. \A x \in seen' \ seen : Kept(x)'
    BY <1>f, <2>3
  <2>5. \A x \in seen', q \in Requests : x \in Held(q) => Kept(x)'
    BY <1>h, <2>2
  <2> QED BY <1>0, <2>1, <2>3, <2>4, <2>5, ProducerQuiet
<1>4. CASE EndClaims(p)
  <2>1. newOnes' = newOnes /\ route' = route
    BY <1>4, <1>t DEF EndClaims, Finish
  <2> QED BY <1>4, <1>q, <2>1 DEF EndClaims, dedupVars, Held
<1>5. CASE Publish(p)
  <2>1. PICK S \in Batches(newOnes[p]) :
          /\ XAdd([route |-> route[p], tokens |-> S])
          /\ forfeited' = forfeited \cup
                ((TrimmedKeys \cup KeysOf(route[p], newOnes[p] \ S)) \cap seen)
    BY <1>5 DEF Publish
  <2> DEFINE a == [route |-> route[p], tokens |-> S]
  <2>2. a \in Alert /\ a.route = route[p] /\ a.tokens = S
    BY <1>t DEF Batches, Alert
  <2>3. seen' = seen /\ Finish(p)
    BY <1>5 DEF Publish
  <2>4. ASSUME NEW k \in seen, k \in Held(p) PROVE Kept(k)'
    <3>1. CASE k \in KeysOf(route[p], S)
      <4>1. \E i \in Ids : Carrier(i, k)'
        BY <1>0, <2>1, <2>2, <3>1, AddedCarries
      <4> QED BY <4>1 DEF Kept
    <3>2. CASE k \notin KeysOf(route[p], S)
      <4>1. k \in KeysOf(route[p], newOnes[p] \ S)
        BY <2>4, <3>2 DEF Held, KeysOf
      <4> QED BY <1>f, <2>1, <4>1
    <3> QED BY <3>1, <3>2
  <2>5. \A k \in seen, q \in Requests : k \in Held(q) => Kept(k)'
    BY <1>h, <2>3, <2>4, FinishHeld
  <2> HIDE DEF a
  <2>6. XAdd(a) /\ forfeited \subseteq forfeited'
        /\ TrimmedKeys \cap seen \subseteq forfeited'
    BY <2>1 DEF a
  <2> QED BY <1>0, <2>2, <2>3, <2>5, <2>6, ProducerAdd
<1>6. CASE PublishFails(p)
  <2>1. UNCHANGED <<seen, route, newOnes>>
    BY <1>6 DEF PublishFails
  <2>2. \A q \in Requests : Held(q)' = Held(q)
    BY <2>1 DEF Held
  <2>3. CASE UNCHANGED <<streamVars, forfeited, repeatable>>
    BY <1>q, <2>1, <2>2, <2>3
  <2>4. ASSUME forfeited' = forfeited \cup (TrimmedKeys \cap seen),
               NEW S \in Batches(newOnes[p]),
               XAdd([route |-> route[p], tokens |-> S])
        PROVE  LossInv'
    <3>1. [route |-> route[p], tokens |-> S] \in Alert
      BY <1>t, <2>4 DEF Batches, Alert
    <3>2. \A k \in seen, q \in Requests : k \in Held(q) => Kept(k)'
      BY <1>h, <2>2
    <3> QED BY <1>0, <2>1, <2>4, <3>1, <3>2, ProducerAdd
  <2> QED BY <1>6, <2>3, <2>4 DEF PublishFails
<1>7. CASE PublishMalformed(p)
  <2>1. /\ seen' = seen /\ UNCHANGED streamVars /\ Finish(p)
        /\ forfeited' = forfeited \cup (Held(p) \cap seen)
    BY <1>7 DEF PublishMalformed
  <2>2. \A k \in seen, q \in Requests : k \in Held(q) => Kept(k)'
    BY <1>h, <1>f, <2>1, FinishHeld
  <2> QED BY <1>0, <2>1, <2>2, ProducerQuiet
<1>8. ASSUME NEW t \in Tokens, ReleaseListing(p, t) PROVE LossInv'
  <2> DEFINE k == <<route[p], t>>
  <2>1. UNCHANGED streamVars /\ route' = route
        /\ newOnes' = [newOnes EXCEPT ![p] = @ \ {t}]
    BY <1>8 DEF ReleaseListing
  <2>2. /\ seen' \subseteq seen /\ forfeited \cap seen' \subseteq forfeited'
        /\ k \in seen' => k \in forfeited'
    BY <1>8 DEF ReleaseListing, ReleaseClaim
  <2>3. ASSUME NEW x \in seen', NEW q \in Requests, x \in Held(q) PROVE Kept(x)'
    <3>1. CASE x = k
      BY <1>f, <2>2, <3>1
    <3>2. CASE x # k
      <4>1. x \in Held(q)'
        BY <1>t, <2>1, <2>3, <3>2 DEF Held, KeysOf
      <4> QED BY <1>h, <4>1
    <3> QED BY <3>1, <3>2
  <2> QED BY <1>0, <2>1, <2>2, <2>3, ProducerQuiet
<1>9. CASE EndRelease(p)
  <2>1. newOnes' = newOnes /\ route' = route
    BY <1>9, <1>t DEF EndRelease, Finish
  <2> QED BY <1>9, <1>q, <2>1 DEF EndRelease, dedupVars, Held
<1>10. CASE Cancel(p)
  BY <1>10, <1>q DEF Cancel, dedupVars, Held
<1> QED
  BY <1>1, <1>2, <1>3, <1>4, <1>5, <1>6, <1>7, <1>8, <1>9, <1>10
     DEF Request, RequestStep

\* A crash of the server gives up what its requests held; a price-drop
\* message carries no claim.
LEMMA ServerKeepsLoss ==
    ASSUME Shape, LossInv, Server
    PROVE  LossInv'
<1> USE DEF Forfeit
<1>0. UNCHANGED workerVars /\ Shape'
  BY ServerKeepsShape DEF Server
<1>1. CASE CrashServer
  <2>1. /\ seen' = seen /\ UNCHANGED streamVars
        /\ forfeited' = forfeited \cup ((UNION {Held(p) : p \in Requests}) \cap seen)
    BY <1>1 DEF CrashServer
  <2>2. \A k \in seen, q \in Requests : k \in Held(q) => Kept(k)'
    BY <2>1 DEF Kept
  <2> QED BY <1>0, <2>1, <2>2, ProducerQuiet
<1>2. ASSUME NEW r \in Routes, PublishRaw(r) PROVE LossInv'
  <2>1. [route |-> r, tokens |-> {}] \in Alert
    BY DEF Alert
  <2>2. /\ seen' = seen /\ UNCHANGED requestVars
        /\ forfeited' = forfeited \cup (TrimmedKeys \cap seen)
        /\ XAdd([route |-> r, tokens |-> {}])
    BY <1>2 DEF PublishRaw
  <2>3. \A k \in seen, q \in Requests : k \in Held(q) => Kept(k)'
    BY <2>2 DEF Kept, Held, requestVars
  <2> QED BY <1>0, <2>1, <2>2, <2>3, ProducerAdd
<1> QED BY <1>1, <1>2 DEF Server

\* Every step keeps LossInv.
LEMMA NextLoss == Shape /\ IdleInv /\ LossInv /\ [Next]_vars => LossInv'
<1> SUFFICES ASSUME Shape, IdleInv, LossInv, [Next]_vars PROVE LossInv'
  OBVIOUS
<1>1. CASE \E c \in Consumers : Worker(c)
  BY <1>1, WorkerKeepsLoss
<1>2. CASE \E p \in Requests : Request(p)
  BY <1>2, RequestKeepsLoss
<1>3. CASE Server
  BY <1>3, ServerKeepsLoss
<1>4. CASE Tick \/ UNCHANGED vars
  <2>1. UNCHANGED workerVars /\ UNCHANGED ingestVars /\ UNCHANGED dedupVars
        /\ UNCHANGED <<log, trimmed, lastId, owner>> /\ Shape'
    BY <1>4, NextShape DEF Tick, Age, vars, streamVars
  <2>2. \A i \in Published : i \in Published' /\ log'[i] = log[i]
    BY <2>1 DEF Published
  <2>3. \A k \in seen', p \in Requests : k \in Held(p) => Kept(k)'
    BY <2>1 DEF Kept, Held, ingestVars, requestVars
  <2>4. \A k \in seen', i \in Ids : Carrier(i, k) => i > trimmed'
    BY <2>1 DEF Carrier, Stored
  <2> QED BY <2>1, <2>2, <2>3, <2>4, ProducerLoss DEF dedupVars
<1> QED BY <1>1, <1>2, <1>3, <1>4 DEF Next

\* No listing is lost silently, whatever the number of workers, requests,
\* shutdowns and faults: a claim that stands belongs to a request at work, to
\* an alert still queued, to a listing that was shown, or to one the code
\* gave up in one of the ways `forfeited` records.
THEOREM NoListingLost == Spec => []NoSilentLoss
<1>1. Init => IdleInv /\ LossInv
  BY DEF Init, IngestInit, WorkerInit, DedupInit, IdleInv, LossInv, SettleInv
<1>2. Shape /\ LossInv => NoSilentLoss
  BY DEF LossInv, Kept, Carrier, Stored, Published, NoSilentLoss, Carried
<1> QED BY <1>1, <1>2, SpecShape, NextIdle, NextLoss, PTL DEF Spec

-----------------------------------------------------------------------------
(* What a worker is at *)

\* Worker c is settling message i (an alert that is gone needs no settling).
Doing(c, i) == cur[c] = i /\ pc[c] \in Settling /\ status[c] # "gone"

\* Worker c will act on message i, or is acting on it.
Acts(c, i) == i \in work[c] \/ Doing(c, i)

\* The loop the worker is in, also while it settles a message of it.
Where(c) == IF pc[c] \in Settling THEN ret[c] ELSE pc[c]

\* A message is in one place of a worker's memory at a time, and the claims
\* being released are those of its listings.
ListInv ==
    \A c \in Consumers :
        /\ Where(c) \in {"loop", "own", "orphan", "down"} => work[c] = {}
        /\ work[c] \cap bury[c] = {}
        /\ pc[c] \in Settling => cur[c] \notin work[c]
        /\ pc[c] = "release" => left[c] \subseteq log[cur[c]].tokens

-----------------------------------------------------------------------------
(* What the steps of a worker leave alone *)

\* What the steps of a worker leave alone: the alerts in the log, and the
\* memory of the other workers.
LEMMA WorkerFrame ==
    ASSUME Shape, NEW c \in Consumers, Worker(c)
    PROVE  /\ log' = log /\ UNCHANGED ingestVars
           /\ repeatable \subseteq repeatable'
           /\ \A d \in Consumers \ {c} :
                 /\ pc'[d] = pc[d] /\ cur'[d] = cur[d] /\ status'[d] = status[d]
                 /\ left'[d] = left[d] /\ ret'[d] = ret[d] /\ ctx'[d] = ctx[d]
                 /\ work'[d] = work[d] /\ bury'[d] = bury[d]
<1> USE DEF Goto, settleVars, listVars, dedupVars, streamVars
<1>0. /\ pc \in [Consumers -> PCs] /\ cur \in [Consumers -> Ids \cup {0}]
      /\ left \in [Consumers -> SUBSET Tokens] /\ status \in [Consumers -> Statuses]
      /\ ret \in [Consumers -> PCs] /\ work \in [Consumers -> SUBSET Ids]
      /\ bury \in [Consumers -> SUBSET Ids]
      /\ ctx \in [Consumers -> {"live", "cancelled", "drain"}]
  BY DEF Shape, TypeOK, WorkerType
<1>1. CASE \/ Read(c) \/ ReadLost(c) \/ FinishBatch(c) \/ ScanOwn(c)
           \/ ScanOrphans(c)
  BY <1>0, <1>1 DEF Read, ReadLost, FinishBatch, ScanOwn, ScanOrphans, Sort,
                    workerVars, XReadGroup, Worker
<1>2. CASE Claim(c) \/ ClaimFails(c)
  BY <1>0, <1>2 DEF Claim, ClaimFails, XClaim, Worker
<1>3. CASE \E i \in Ids : \/ NotifyOk(c, i) \/ NotifyFail(c, i)
                          \/ NotifyFailShown(c, i) \/ NotifyBlocked(c, i)
                          \/ NotifyNoTarget(c, i)
  BY <1>0, <1>3 DEF NotifyOk, NotifyFail, NotifyFailShown, NotifyBlocked,
                    NotifyNoTarget, Notify, Settle, RunHook, Worker
<1>4. CASE \E i \in Ids : DeadLetter(c, i) \/ DeadLetterGone(c, i) \/ DrainSkip(c, i)
  BY <1>0, <1>4 DEF DeadLetter, DeadLetterGone, DrainSkip, Settle, RunHook, Worker
<1>5. CASE \/ \E t \in Tokens : Release(c, t)
           \/ HandlerFails(c) \/ Bury(c) \/ Ack(c) \/ AckFails(c)
  BY <1>0, <1>5 DEF Release, ReleaseClaim, HandlerFails, Bury, Ack, AckFails,
                    AfterAck, Return, XAck, Worker
<1>6. CASE Record(c) \/ RecordFails(c) \/ Abandon(c) \/ StartDrain(c)
  BY <1>0, <1>6 DEF Record, RecordFails, Abandon, StartDrain, Return, Worker
<1>7. CASE EndDrain(c) \/ Restart(c) \/ Shutdown(c) \/ Crash(c)
  BY <1>0, <1>7 DEF EndDrain, Restart, Shutdown, Crash, Halt, Worker
<1> QED BY <1>1, <1>2, <1>3, <1>4, <1>5, <1>6, <1>7 DEF Worker, WorkerStep

\* A batch from XREADGROUP holds nothing a worker knows already.
LEMMA BatchIsNew ==
    ASSUME Shape, NEW c \in Consumers, NEW batch, XReadGroup(c, batch),
           NEW d \in Consumers, NEW i \in batch
    PROVE  /\ i \in Ids /\ i > lastId /\ i \notin work[d] /\ i \notin bury[d]
           /\ pc[d] \in Settling => cur[d] # i
<1>1. i \in Ids /\ i > lastId
  BY XReadGroupShape DEF Shape, TypeOK
<1>2. i \in Nat /\ lastId \in Nat
  BY <1>1, StreamConstants DEF Ids, Shape, TypeOK, StreamType
<1> QED BY <1>1, <1>2, WorkerEntry

-----------------------------------------------------------------------------
(* A message is in one place of a worker's memory *)

\* Every step of a worker keeps ListInv.
LEMMA WorkerKeepsLists ==
    ASSUME Shape, ListInv, NEW c \in Consumers, Worker(c)
    PROVE  ListInv'
<1> USE DEF Goto, settleVars, listVars, Where
<1> DEFINE Listed(d) ==
        /\ Where(d) \in {"loop", "own", "orphan", "down"} => work[d] = {}
        /\ work[d] \cap bury[d] = {}
        /\ pc[d] \in Settling => cur[d] \notin work[d]
        /\ pc[d] = "release" => left[d] \subseteq log[cur[d]].tokens
<1>0. /\ pc \in [Consumers -> PCs] /\ cur \in [Consumers -> Ids \cup {0}]
      /\ ret \in [Consumers -> PCs] /\ work \in [Consumers -> SUBSET Ids]
      /\ bury \in [Consumers -> SUBSET Ids] /\ ret[c] \notin Settling
      /\ left \in [Consumers -> SUBSET Tokens] /\ log' = log
  BY WorkerFrame DEF Shape, TypeOK, WorkerType, WorkerShape
<1>a. Listed(c)
  BY DEF ListInv
<1>b. \A d \in Consumers \ {c} : Listed(d)'
  BY WorkerFrame DEF ListInv
<1>1. CASE Read(c)
  <2>1. PICK batch \in SUBSET Ids :
            XReadGroup(c, batch) /\ work' = [work EXCEPT ![c] = batch]
    BY <1>1 DEF Read
  <2>2. batch \cap bury[c] = {}
    BY <2>1, BatchIsNew
  <2>3. pc'[c] = "deliver" /\ bury' = bury
    BY <1>0, <1>1 DEF Read
  <2>4. Listed(c)'
    BY <1>0, <2>1, <2>2, <2>3 DEF Settling
  <2> QED BY <1>b, <2>4 DEF ListInv
<1>2. CASE ReadLost(c) \/ FinishBatch(c) \/ ScanOwn(c) \/ ScanOrphans(c)
  <2>1. Listed(c)'
    BY <1>0, <1>a, <1>2 DEF ReadLost, FinishBatch, ScanOwn, ScanOrphans, Sort,
                            workerVars, Settling
  <2> QED BY <1>b, <2>1 DEF ListInv
<1>3. CASE Claim(c) \/ ClaimFails(c)
  <2>1. Listed(c)'
    BY <1>0, <1>a, <1>3 DEF Claim, ClaimFails, Settling
  <2> QED BY <1>b, <2>1 DEF ListInv
<1>4. CASE \E i \in Ids : \/ NotifyOk(c, i) \/ NotifyFail(c, i)
                          \/ NotifyFailShown(c, i) \/ NotifyBlocked(c, i)
                          \/ NotifyNoTarget(c, i)
  <2>1. Listed(c)'
    BY <1>0, <1>a, <1>4 DEF NotifyOk, NotifyFail, NotifyFailShown, NotifyBlocked,
         NotifyNoTarget, Notify, Settle, RunHook, Settling, AfterHook
  <2> QED BY <1>b, <2>1 DEF ListInv
<1>5. CASE \E i \in Ids : DeadLetter(c, i) \/ DeadLetterGone(c, i) \/ DrainSkip(c, i)
  <2>1. Listed(c)'
    BY <1>0, <1>a, <1>5 DEF DeadLetter, DeadLetterGone, DrainSkip, Settle,
         RunHook, Settling, AfterHook
  <2> QED BY <1>b, <2>1 DEF ListInv
<1>6. CASE \E t \in Tokens : Release(c, t)
  <2>1. Listed(c)'
    BY <1>0, <1>a, <1>6 DEF Release, Settling, AfterHook
  <2> QED BY <1>b, <2>1 DEF ListInv
<1>9. CASE HandlerFails(c) \/ Record(c) \/ RecordFails(c)
  <2>1. Listed(c)'
    BY <1>0, <1>a, <1>9 DEF HandlerFails, Record, RecordFails, Return, Settling
  <2> QED BY <1>b, <2>1 DEF ListInv
<1>10. CASE Bury(c) \/ Ack(c) \/ AckFails(c)
  <2>1. Listed(c)'
    BY <1>0, <1>a, <1>10 DEF Bury, Ack, AckFails, AfterAck, Return, Settling
  <2> QED BY <1>b, <2>1 DEF ListInv
<1>7. CASE Abandon(c) \/ StartDrain(c)
  <2>1. Listed(c)'
    BY <1>0, <1>a, <1>7 DEF Abandon, StartDrain, Settling
  <2> QED BY <1>b, <2>1 DEF ListInv
<1>8. CASE EndDrain(c) \/ Restart(c) \/ Shutdown(c) \/ Crash(c)
  <2>1. Listed(c)'
    BY <1>0, <1>a, <1>8 DEF EndDrain, Restart, Shutdown, Crash, Halt, Settling
  <2> QED BY <1>b, <2>1 DEF ListInv
<1> QED
  BY <1>1, <1>2, <1>3, <1>4, <1>5, <1>6, <1>7, <1>8, <1>9, <1>10
     DEF Worker, WorkerStep

-----------------------------------------------------------------------------
(* A message is acted on once *)

\* Alert i still has a listing for which every delivery must have its cause.
Sound(i) == \E k \in AlertKeysOf(i) : k \notin repeatable

\* At most one worker has the message; once the user was shown it, nobody is
\* about to show it again: it is acked, or the one that showed it is about to
\* ack it.  A settled message that is only to be recorded has been acked.
Sole(i) ==
    /\ \A c, d \in Consumers : Acts(c, i) /\ Acts(d, i) => c = d
    /\ told[i] > 0 =>
          /\ told[i] = 1
          /\ \A c \in Consumers : i \notin work[c]
          /\ \A c \in Consumers : Doing(c, i) => status[c] = "sent"
          /\ Pending(i) => \E c \in Consumers : Doing(c, i) /\ pc[c] = "ack"
    /\ \A c \in Consumers :
          Doing(c, i) /\ pc[c] = "record" /\ status[c] # "noTarget" => ~Pending(i)

\* Read messages that are not repeatable are acted on once; the others have
\* not been shown.
SoleInv ==
    /\ \A i \in Ids : i > lastId => told[i] = 0
    /\ \A i \in Ids : i <= lastId /\ Sound(i) => Sole(i)

\* A step of c that does not bring message i closer to being shown.
Calm(c, i) ==
    /\ told'[i] = told[i]
    /\ Pending(i)' => Pending(i)
    /\ i \in work'[c] => i \in work[c]
    /\ Doing(c, i)' => Doing(c, i) /\ status'[c] = status[c]
    /\ Doing(c, i)' /\ pc'[c] = "record" /\ status'[c] # "noTarget" =>
          ~Pending(i)' \/ pc[c] = "record"
    /\ Doing(c, i) /\ pc[c] = "ack" /\ status[c] = "sent" =>
          ~Pending(i)' \/ (Doing(c, i)' /\ pc'[c] = "ack")

\* What the user was shown or a worker does with a message survives a calm step.
LEMMA CalmKeepsSole ==
    ASSUME Shape, NEW c \in Consumers, Worker(c), NEW i \in Ids,
           Calm(c, i), Sole(i)
    PROVE  Sole(i)'
<1>1. \A d \in Consumers \ {c} :
          /\ Doing(d, i)' = Doing(d, i) /\ work'[d] = work[d]
          /\ pc'[d] = pc[d] /\ status'[d] = status[d]
  BY WorkerFrame DEF Doing
<1>2. \A d \in Consumers : Acts(d, i)' => Acts(d, i)
  BY <1>1 DEF Acts, Calm
<1>3. \A d, e \in Consumers : Acts(d, i)' /\ Acts(e, i)' => d = e
  BY <1>2 DEF Sole
<1>4. ASSUME told'[i] > 0
      PROVE  /\ told'[i] = 1
             /\ \A d \in Consumers : i \notin work'[d]
             /\ \A d \in Consumers : Doing(d, i)' => status'[d] = "sent"
  BY <1>1, <1>4 DEF Sole, Calm
<1>5. ASSUME told'[i] > 0, Pending(i)'
      PROVE  \E d \in Consumers : Doing(d, i)' /\ pc'[d] = "ack"
  <2>1. PICK d \in Consumers : Doing(d, i) /\ pc[d] = "ack" /\ status[d] = "sent"
    BY <1>5 DEF Sole, Calm
  <2> QED BY <1>1, <1>5, <2>1 DEF Calm
<1>6. \A d \in Consumers :
          Doing(d, i)' /\ pc'[d] = "record" /\ status'[d] # "noTarget" => ~Pending(i)'
  BY <1>1 DEF Sole, Calm
<1> QED BY <1>3, <1>4, <1>5, <1>6 DEF Sole

\* A step that gives c a message nobody has: it was pending and nobody was
\* settling it, so the user was not shown it.
LEMMA AcquireKeepsSole ==
    ASSUME Shape, NEW c \in Consumers, Worker(c), NEW i \in Ids, Sole(i),
           told'[i] = told[i], Pending(i), ~Contested(c, i),
           pc[c] \notin Settling, pc'[c] \notin Settling
    PROVE  Sole(i)'
<1>1. \A d \in Consumers \ {c} :
          /\ ~Doing(d, i) /\ i \notin work[d]
          /\ Doing(d, i)' = Doing(d, i) /\ work'[d] = work[d]
  BY WorkerFrame DEF Doing, Contested, InHand
<1>2. ~Doing(c, i) /\ ~Doing(c, i)'
  BY DEF Doing
<1>3. ~(told[i] > 0)
  BY <1>1, <1>2 DEF Sole
<1> QED BY <1>1, <1>2, <1>3 DEF Sole, Acts

\* A message nobody has read yet is not shown, and nobody has it.
LEMMA ReadKeepsSole ==
    ASSUME Shape, SoleInv, NEW c \in Consumers, Worker(c), NEW batch,
           XReadGroup(c, batch), told' = told,
           NEW i \in Ids, i > lastId, Doing(c, i)' => Doing(c, i)
    PROVE  Sole(i)'
<1>1. i \in Nat /\ lastId \in Nat
  BY StreamConstants DEF Ids, Shape, TypeOK, StreamType
<1>2. told'[i] = 0
  BY DEF SoleInv
<1>3. \A d \in Consumers : ~Acts(d, i)
  BY <1>1, WorkerEntry DEF Acts, Doing
<1>4. \A d \in Consumers \ {c} : ~Acts(d, i)'
  BY <1>3, WorkerFrame DEF Acts, Doing
<1>5. ~Doing(c, i)'
  BY <1>3 DEF Acts, Doing, Settling
<1> QED BY <1>2, <1>4, <1>5 DEF Sole, Acts

\* An alert whose keys all become repeatable is no longer sound.
LEMMA DanglingUnsound ==
    ASSUME Shape, NEW c \in Consumers, NEW i \in Ids, log' = log,
           Dangling(c) \subseteq repeatable', cur[c] = i,
           pc[c] \in {"bury", "ack"}, status[c] \notin {"noTarget", "gone"}
    PROVE  ~Sound(i)'
<1>1. pc[c] # "release"
  OBVIOUS
<1>2. Dangling(c) = AlertKeysOf(i)
  BY <1>1 DEF Dangling
<1> QED BY <1>2 DEF Sound, AlertKeysOf

\* Steps that only take messages from a worker, or go on settling one: either
\* calm, or the step left the alert repeatable.
LEMMA WorkerCalm ==
    ASSUME Shape, NEW c \in Consumers, Worker(c), NEW i \in Ids, Sound(i)',
           \/ FinishBatch(c) \/ ScanOwn(c) \/ ScanOrphans(c) \/ ClaimFails(c)
           \/ \E j \in Ids : NotifyFail(c, j) \/ DeadLetterGone(c, j) \/ DrainSkip(c, j)
           \/ \E t \in Tokens : Release(c, t)
           \/ HandlerFails(c) \/ Bury(c) \/ Ack(c) \/ AckFails(c)
           \/ Record(c) \/ RecordFails(c)
           \/ Abandon(c) \/ EndDrain(c) \/ Restart(c) \/ Shutdown(c) \/ Crash(c)
    PROVE  Calm(c, i)
<1> USE DEF Goto, settleVars, listVars, historyVars, dedupVars
<1>0. /\ pc \in [Consumers -> PCs] /\ cur \in [Consumers -> Ids \cup {0}]
      /\ status \in [Consumers -> Statuses] /\ work \in [Consumers -> SUBSET Ids]
      /\ owner \in [Ids -> Consumers \cup {NoConsumer}] /\ ret[c] \notin Settling
  BY DEF Shape, TypeOK, StreamType, WorkerType, WorkerShape
<1>d. Dangling(c) \subseteq repeatable' /\ Doing(c, i) =>
         ~(pc[c] = "ack" /\ status[c] \notin {"noTarget", "gone"})
  BY WorkerFrame, DanglingUnsound DEF Doing
<1>1. CASE FinishBatch(c) \/ ScanOwn(c) \/ ScanOrphans(c)
  BY <1>0, <1>1 DEF FinishBatch, ScanOwn, ScanOrphans, Sort, Calm, Doing,
                    Settling, Pending, streamVars
<1>2. CASE ClaimFails(c)
  <2>1. Pending(i)' => Pending(i)
    BY <1>2, XClaimShape DEF ClaimFails, streamVars, Pending, Shape, TypeOK
  <2> QED BY <1>0, <1>2, <2>1 DEF ClaimFails, Calm, Doing, Settling
<1>3. ASSUME NEW j \in Ids, NotifyFail(c, j) PROVE Calm(c, i)
  BY <1>0, <1>3 DEF NotifyFail, Notify, Calm, Doing, Settling, Pending, streamVars
<1>4. ASSUME NEW j \in Ids, DeadLetterGone(c, j) \/ DrainSkip(c, j)
      PROVE  Calm(c, i)
  BY <1>0, <1>4 DEF DeadLetterGone, DrainSkip, Settle, Calm, Doing, Settling,
                    Pending, streamVars
<1>5. ASSUME NEW t \in Tokens, Release(c, t) PROVE Calm(c, i)
  BY <1>0, <1>5 DEF Release, AfterHook, Calm, Doing, Settling, Pending, streamVars
<1>6. CASE HandlerFails(c) \/ Bury(c)
  BY <1>0, <1>6 DEF HandlerFails, Bury, Return, Calm, Doing, Settling, Pending,
                    streamVars
<1>7. CASE Ack(c)
  <2>1. Pending(i)' => Pending(i) /\ i # cur[c]
    BY <1>0, <1>7 DEF Ack, XAck, Pending
  <2> QED BY <1>0, <1>7, <2>1 DEF Ack, AfterAck, Return, Calm, Doing, Settling
<1>8. CASE AckFails(c)
  BY <1>0, <1>d, <1>8 DEF AckFails, AfterAck, Return, Calm, Doing, Settling,
                          Pending, streamVars
<1>9. CASE Record(c) \/ RecordFails(c)
  BY <1>0, <1>9 DEF Record, RecordFails, Return, Calm, Doing, Settling, Pending,
                    streamVars
<1>10. CASE Abandon(c) \/ EndDrain(c) \/ Restart(c) \/ Shutdown(c)
  BY <1>0, <1>10 DEF Abandon, EndDrain, Restart, Shutdown, Halt, Calm, Doing,
                     Settling, Pending, streamVars
<1>11. CASE Crash(c)
  BY <1>0, <1>d, <1>11 DEF Crash, Halt, Calm, Doing, Settling, Pending, streamVars
<1> QED BY <1>1, <1>2, <1>3, <1>4, <1>5, <1>6, <1>7, <1>8, <1>9, <1>10, <1>11

\* The notifier shows the message: the worker had it, so nobody else has it
\* and it was not shown before.
LEMMA NotifyOkKeepsSole ==
    ASSUME Shape, ListInv, NEW c \in Consumers, Worker(c), NEW i \in Ids,
           NotifyOk(c, i), Sole(i)
    PROVE  Sole(i)'
<1> USE DEF Goto
<1>0. /\ pc \in [Consumers -> PCs] /\ cur \in [Consumers -> Ids \cup {0}]
      /\ status \in [Consumers -> Statuses] /\ work \in [Consumers -> SUBSET Ids]
      /\ told \in [Ids -> Nat]
  BY DEF Shape, TypeOK, WorkerType
<1>1. /\ i \in work[c] /\ work'[c] = work[c] \ {i} /\ told'[i] = told[i] + 1
      /\ cur'[c] = i /\ status'[c] = "sent" /\ pc'[c] = "ack"
      /\ told[i] \in Nat
  BY <1>0 DEF NotifyOk, Notify, Settle
<1>2. told[i] = 0
  BY <1>1 DEF Sole
<1>3. \A d \in Consumers \ {c} : ~Acts(d, i) /\ ~Acts(d, i)'
  BY <1>1, WorkerFrame DEF Sole, Acts, Doing
<1>4. Doing(c, i)' /\ i \notin work'[c]
  BY <1>1 DEF Doing, Settling
<1> QED BY <1>1, <1>2, <1>3, <1>4 DEF Sole, Acts

\* The worker starts to settle a message it had, without showing it.
LEMMA SettleKeepsSole ==
    ASSUME Shape, ListInv, NEW c \in Consumers, Worker(c), NEW i \in Ids, Sole(i),
           \/ NotifyBlocked(c, i) \/ NotifyNoTarget(c, i)
           \/ DeadLetter(c, i) /\ ~Contested(c, i)
    PROVE  Sole(i)'
<1> USE DEF Goto
<1>0. /\ pc \in [Consumers -> PCs] /\ cur \in [Consumers -> Ids \cup {0}]
      /\ status \in [Consumers -> Statuses] /\ work \in [Consumers -> SUBSET Ids]
      /\ told \in [Ids -> Nat]
  BY DEF Shape, TypeOK, WorkerType
<1>1. /\ told' = told /\ pc[c] \notin Settling /\ pc'[c] # "record"
      /\ i \notin work'[c] /\ pc'[c] \in Settling
  BY <1>0 DEF NotifyBlocked, NotifyNoTarget, DeadLetter, Notify, Settle, RunHook,
              ListInv, AfterHook, Settling, historyVars, listVars
<1>2. \A d \in Consumers \ {c} : ~Acts(d, i)
  <2>1. CASE NotifyBlocked(c, i) \/ NotifyNoTarget(c, i)
    BY <2>1 DEF NotifyBlocked, NotifyNoTarget, Notify, Sole, Acts
  <2>2. CASE DeadLetter(c, i) /\ ~Contested(c, i)
    BY <2>2 DEF Contested, InHand, Acts, Doing
  <2> QED BY <2>1, <2>2
<1>3. \A d \in Consumers \ {c} : ~Acts(d, i)'
  BY <1>2, WorkerFrame DEF Acts, Doing
<1>4. told[i] = 0
  <2>1. CASE NotifyBlocked(c, i) \/ NotifyNoTarget(c, i)
    BY <1>0, <2>1 DEF NotifyBlocked, NotifyNoTarget, Notify, Sole
  <2>2. CASE DeadLetter(c, i) /\ ~Contested(c, i)
    <3>1. Pending(i) /\ \A d \in Consumers : ~Doing(d, i)
      BY <1>1, <1>2, <2>2 DEF Contested, Acts, Doing
    <3> QED BY <1>0, <3>1 DEF Sole
  <2> QED BY <2>1, <2>2
<1> QED BY <1>1, <1>3, <1>4 DEF Sole, Acts, Doing

\* A step on message j is calm for the others.
LEMMA OtherMessageCalm ==
    ASSUME Shape, NEW c \in Consumers, Worker(c), NEW i \in Ids, NEW j \in Ids,
           i # j,
           \/ NotifyOk(c, j) \/ NotifyFailShown(c, j) \/ NotifyBlocked(c, j)
           \/ NotifyNoTarget(c, j) \/ DeadLetter(c, j)
    PROVE  Calm(c, i)
<1> USE DEF Goto, settleVars, listVars, historyVars, streamVars
<1>0. /\ pc \in [Consumers -> PCs] /\ cur \in [Consumers -> Ids \cup {0}]
      /\ status \in [Consumers -> Statuses] /\ work \in [Consumers -> SUBSET Ids]
      /\ told \in [Ids -> Nat]
  BY DEF Shape, TypeOK, WorkerType
<1>1. CASE \/ NotifyOk(c, j) \/ NotifyFailShown(c, j) \/ NotifyBlocked(c, j)
           \/ NotifyNoTarget(c, j)
  BY <1>0, <1>1 DEF NotifyOk, NotifyFailShown, NotifyBlocked, NotifyNoTarget,
       Notify, Settle, RunHook, Calm, Doing, Settling, Pending
<1>2. CASE DeadLetter(c, j)
  BY <1>0, <1>2 DEF DeadLetter, Settle, RunHook, Calm, Doing, Settling, Pending
<1> QED BY <1>1, <1>2

\* XREADGROUP is calm for what had been read before.
LEMMA ReadCalm ==
    ASSUME Shape, NEW c \in Consumers, Worker(c), Read(c) \/ ReadLost(c),
           NEW i \in Ids, i <= lastId
    PROVE  Calm(c, i)
<1> USE DEF Goto, settleVars, listVars, historyVars, workerVars
<1>0. /\ pc \in [Consumers -> PCs] /\ work \in [Consumers -> SUBSET Ids]
  BY DEF Shape, TypeOK, WorkerType
<1>1. PICK batch \in SUBSET Ids :
          /\ XReadGroup(c, batch)
          /\ work' = [work EXCEPT ![c] = batch] \/ work' = work
  BY DEF Read, ReadLost
<1>2. i \notin batch
  BY <1>1, XReadGroupShape, StreamConstants DEF Shape, TypeOK, StreamType, Ids
<1>3. Pending(i)' => Pending(i)
  BY <1>1, <1>2 DEF XReadGroup, Pending
<1>4. i \in work'[c] => i \in work[c]
  BY <1>0, <1>1, <1>2
<1> QED BY <1>0, <1>3, <1>4 DEF Read, ReadLost, Calm, Doing, Settling

\* A claim or the scan of Drain gives the worker messages nobody else has,
\* or marks them repeatable.
LEMMA TakeKeepsSole ==
    ASSUME Shape, NEW c \in Consumers, Worker(c), Claim(c) \/ StartDrain(c),
           NEW i \in Ids, Sole(i), Sound(i)'
    PROVE  Sole(i)'
<1> USE DEF Goto, settleVars, historyVars
<1>0. /\ pc \in [Consumers -> PCs] /\ work \in [Consumers -> SUBSET Ids]
  BY DEF Shape, TypeOK, WorkerType
<1>1. pc[c] \notin Settling /\ pc'[c] \notin Settling /\ told' = told
      /\ pc'[c] # "ack"
  BY <1>0 DEF Claim, StartDrain, Settling
<1>2. Pending(i)' => Pending(i)
  <2>1. CASE Claim(c)
    BY <2>1, XClaimShape DEF Claim, Shape, TypeOK
  <2>2. CASE StartDrain(c)
    BY <2>2 DEF StartDrain, streamVars, Pending
  <2> QED BY <2>1, <2>2
<1>3. CASE i \notin work'[c]
  <2>1. Calm(c, i)
    BY <1>1, <1>2, <1>3 DEF Calm, Doing, Settling
  <2> QED BY <2>1, CalmKeepsSole
<1>4. CASE i \in work'[c]
  <2>1. Pending(i) /\ (Contested(c, i) => AlertKeysOf(i) \subseteq repeatable')
    <3>1. CASE Claim(c)
      BY <1>0, <1>4, <3>1 DEF Claim, Claimed, Claimable
    <3>2. CASE StartDrain(c)
      <4>1. i \in XPendingOf(c, 0, DrainCount)
        BY <1>0, <1>4, <3>2 DEF StartDrain
      <4>2. Pending(i)
        BY <4>1, OldestSubset, StreamConstants DEF XPendingOf, Oldest, Pending
      <4> QED BY <1>0, <1>4, <3>2, <4>2 DEF StartDrain
    <3> QED BY <3>1, <3>2
  <2>2. ~Contested(c, i)
    BY <2>1, WorkerFrame DEF Sound, AlertKeysOf
  <2> QED BY <1>1, <2>1, <2>2, AcquireKeepsSole
<1> QED BY <1>3, <1>4

\* The user is shown only messages that were read.
LEMMA ToldOnlyRead ==
    ASSUME Shape, NEW c \in Consumers, Worker(c), NEW i \in Ids,
           told'[i] # told[i]
    PROVE  /\ i \in work[c] /\ i <= lastId /\ lastId' = lastId
           /\ NotifyOk(c, i) \/ NotifyFailShown(c, i)
<1> USE DEF settleVars, listVars, historyVars, streamVars, workerVars
<1>0. told \in [Ids -> Nat]
  BY DEF Shape, TypeOK, WorkerType
<1>1. PICK j \in Ids : NotifyOk(c, j) \/ NotifyFailShown(c, j)
  BY DEF Worker, WorkerStep, Read, ReadLost, FinishBatch, ScanOwn, ScanOrphans,
         Sort, Claim, ClaimFails, NotifyFail, NotifyBlocked, NotifyNoTarget,
         DeadLetter, DeadLetterGone, DrainSkip, Release, HandlerFails, Bury, Ack,
         AckFails, Record, RecordFails, Abandon, StartDrain, EndDrain, Restart,
         Shutdown, Crash
<1>2. j = i
  BY <1>0, <1>1 DEF NotifyOk, NotifyFailShown
<1>3. i \in work[c] /\ lastId' = lastId
  BY <1>1, <1>2 DEF NotifyOk, NotifyFailShown, Notify
<1> QED BY <1>1, <1>2, <1>3, WorkerEntry

\* Every step of a worker keeps SoleInv.
LEMMA WorkerKeepsSole ==
    ASSUME Shape, ListInv, SoleInv, NEW c \in Consumers, Worker(c)
    PROVE  SoleInv'
<1>0. lastId' >= lastId /\ lastId' \in Nat /\ lastId \in Nat
  BY NextForward, WorkerKeepsShape DEF Next, Forward, Shape, TypeOK, StreamType
<1>n. \A i \in Ids : i \in Nat
  BY StreamConstants DEF Ids
<1>1. ASSUME NEW i \in Ids, i > lastId' PROVE told'[i] = 0
  BY <1>0, <1>n, <1>1, ToldOnlyRead DEF SoleInv
<1>2. ASSUME NEW i \in Ids, i <= lastId', Sound(i)' PROVE Sole(i)'
  <2>1. Sound(i)
    BY <1>2, WorkerFrame DEF Sound, AlertKeysOf
  <2>2. CASE ~(i <= lastId)
    <3>1. i > lastId
      BY <1>0, <1>n, <2>2
    <3>2. Read(c) \/ ReadLost(c)
      BY <1>0, <1>n, <1>2, <2>2
         DEF Worker, WorkerStep, FinishBatch, ScanOwn, ScanOrphans, Sort, Claim,
             ClaimFails, XClaim, Notify, NotifyOk, NotifyFail, NotifyFailShown,
             NotifyBlocked, NotifyNoTarget, DeadLetter, DeadLetterGone, DrainSkip,
             Release, HandlerFails, Bury, Ack, XAck, AckFails, Record,
             RecordFails, Abandon, StartDrain, EndDrain, Restart, Shutdown, Crash,
             streamVars
    <3>3. PICK batch \in SUBSET Ids : XReadGroup(c, batch)
      BY <3>2 DEF Read, ReadLost
    <3>4. told' = told /\ (Doing(c, i)' => Doing(c, i))
      BY <3>2 DEF Read, ReadLost, workerVars, settleVars, historyVars, Goto,
                  Shape, TypeOK, WorkerType, Doing, Settling
    <3> QED BY <3>1, <3>3, <3>4, ReadKeepsSole
  <2>3. CASE i <= lastId
    <3>1. Sole(i)
      BY <2>1, <2>3 DEF SoleInv
    <3>2. CASE Calm(c, i)
      BY <3>1, <3>2, CalmKeepsSole
    <3>3. CASE Read(c) \/ ReadLost(c)
      BY <2>3, <3>2, <3>3, ReadCalm
    <3>4. CASE Claim(c) \/ StartDrain(c)
      BY <1>2, <3>1, <3>4, TakeKeepsSole
    <3>5. ASSUME NEW j \in Ids,
                 \/ NotifyOk(c, j) \/ NotifyFailShown(c, j) \/ NotifyBlocked(c, j)
                 \/ NotifyNoTarget(c, j) \/ DeadLetter(c, j)
          PROVE  Sole(i)'
      <4>1. CASE j # i
        BY <3>2, <3>5, <4>1, OtherMessageCalm
      <4>2. CASE j = i
        <5>1. CASE NotifyOk(c, i)
          BY <3>1, <5>1, NotifyOkKeepsSole
        <5>2. CASE NotifyFailShown(c, i)
          BY <1>2, <5>2, WorkerFrame DEF NotifyFailShown, Sound, AlertKeysOf
        <5>3. CASE DeadLetter(c, i) /\ Contested(c, i)
          BY <1>2, <5>3, WorkerFrame DEF DeadLetter, Sound, AlertKeysOf
        <5>4. CASE \/ NotifyBlocked(c, i) \/ NotifyNoTarget(c, i)
                   \/ DeadLetter(c, i) /\ ~Contested(c, i)
          BY <3>1, <5>4, SettleKeepsSole
        <5> QED BY <3>5, <4>2, <5>1, <5>2, <5>3, <5>4
      <4> QED BY <4>1, <4>2
    <3> QED
      BY <1>2, <3>2, <3>3, <3>4, <3>5, WorkerCalm DEF Worker, WorkerStep
  <2> QED BY <2>2, <2>3
<1> QED BY <1>1, <1>2 DEF SoleInv

\* A step outside the workers changes neither what they hold nor what is
\* pending.
LEMMA ProducerKeepsSole ==
    ASSUME Shape, ListInv, SoleInv, UNCHANGED workerVars,
           UNCHANGED <<lastId, owner>>, repeatable \subseteq repeatable',
           \A i \in Published : log'[i] = log[i]
    PROVE  ListInv' /\ SoleInv'
<1> USE DEF workerVars, settleVars, listVars, historyVars
<1>1. ListInv'
  <2>1. \A c \in Consumers : pc[c] = "release" => log'[cur[c]] = log[cur[c]]
    BY WorkerEntry, ReadEntry DEF Settling
  <2> QED BY <2>1 DEF ListInv, Where
<1>2. ASSUME NEW i \in Ids, i <= lastId', Sound(i)' PROVE Sole(i)'
  <2>1. log'[i] = log[i]
    BY <1>2, ReadEntry
  <2>2. Sound(i)
    BY <1>2, <2>1 DEF Sound, AlertKeysOf
  <2>3. Sole(i)
    BY <1>2, <2>2 DEF SoleInv
  <2> QED BY <2>3 DEF Sole, Acts, Doing, Pending
<1> QED BY <1>1, <1>2 DEF SoleInv

\* What the steps of the requests, of the server and of time leave alone.
LEMMA ProducerFrame ==
    ASSUME Shape, (\E p \in Requests : Request(p)) \/ Server \/ Tick
    PROVE  /\ UNCHANGED workerVars /\ UNCHANGED <<lastId, owner, count>>
           /\ repeatable \subseteq repeatable'
           /\ \A i \in Published : i \in Published' /\ log'[i] = log[i]
<1> USE DEF dedupVars
<1>1. UNCHANGED workerVars
  BY DEF Request, Server, Tick
<1>a. ASSUME NEW a \in Alert, XAdd(a)
      PROVE  /\ UNCHANGED <<lastId, owner, count>>
             /\ \A i \in Published : i \in Published' /\ log'[i] = log[i]
  <2>1. /\ \A i \in Published : log'[i] = log[i]
        /\ Len(log') = Len(log) + 1 /\ Len(log) \in Nat
    BY <1>a, XAddShape DEF Shape, TypeOK, StreamType
  <2>2. \A i \in Published : i \in Published'
    BY <2>1 DEF Published
  <2> QED BY <1>a, <2>1, <2>2 DEF XAdd
<1>q. ASSUME UNCHANGED streamVars
      PROVE  /\ UNCHANGED <<lastId, owner, count>>
             /\ \A i \in Published : i \in Published' /\ log'[i] = log[i]
  <2>1. UNCHANGED <<log, lastId, owner, count>>
    BY <1>q DEF streamVars
  <2> QED BY <2>1 DEF Published
<1>2. ASSUME NEW p \in Requests, Request(p)
      PROVE  /\ UNCHANGED <<lastId, owner, count>>
             /\ \A i \in Published : i \in Published' /\ log'[i] = log[i]
  <2>1. ASSUME NEW S \in Batches(newOnes[p])
        PROVE  [route |-> route[p], tokens |-> S] \in Alert
    BY <2>1 DEF Batches, Alert, Shape, TypeOK, IngestType
  <2>2. CASE Publish(p) \/ PublishFails(p)
    BY <1>a, <1>q, <2>1, <2>2 DEF Publish, PublishFails
  <2> QED
    BY <1>q, <1>2, <2>2 DEF Request, RequestStep, StartIngest, ClaimListing,
       ClaimListingFails, ReleaseListing, EndClaims, PublishMalformed,
       EndRelease, Cancel
<1>3. ASSUME NEW p \in Requests, Request(p) PROVE repeatable \subseteq repeatable'
  BY <1>3 DEF Request, RequestStep, StartIngest, ClaimListing,
       ClaimListingFails, ReleaseListing, EndClaims, Publish, PublishFails,
       PublishMalformed, EndRelease, Cancel
<1>4. CASE Server
  <2>1. ASSUME NEW r \in Routes PROVE [route |-> r, tokens |-> {}] \in Alert
    BY DEF Alert
  <2>2. CASE CrashServer
    BY <1>1, <1>q, <2>2 DEF CrashServer
  <2>3. ASSUME NEW r \in Routes, PublishRaw(r)
        PROVE  /\ UNCHANGED <<lastId, owner, count>> /\ repeatable' = repeatable
               /\ \A i \in Published : i \in Published' /\ log'[i] = log[i]
    BY <1>a, <2>1, <2>3 DEF PublishRaw
  <2> QED BY <1>1, <1>4, <2>2, <2>3 DEF Server
<1>5. CASE Tick
  <2>1. UNCHANGED <<log, lastId, owner, count, repeatable>>
    BY <1>5 DEF Tick, Age
  <2>2. \A i \in Published : i \in Published' /\ log'[i] = log[i]
    BY <2>1 DEF Published
  <2> QED BY <1>1, <2>1, <2>2
<1> QED BY <1>1, <1>2, <1>3, <1>4, <1>5

\* Every step keeps ListInv and SoleInv.
LEMMA NextSole == Shape /\ ListInv /\ SoleInv /\ [Next]_vars => ListInv' /\ SoleInv'
<1> SUFFICES ASSUME Shape, ListInv, SoleInv, [Next]_vars PROVE ListInv' /\ SoleInv'
  OBVIOUS
<1>1. CASE UNCHANGED vars
  <2>1. /\ UNCHANGED workerVars /\ UNCHANGED <<lastId, owner>>
        /\ repeatable \subseteq repeatable' /\ \A i \in Published : log'[i] = log[i]
    BY <1>1 DEF vars, streamVars, dedupVars
  <2> QED BY <2>1, ProducerKeepsSole
<1>2. ASSUME NEW c \in Consumers, Worker(c) PROVE ListInv' /\ SoleInv'
  BY <1>2, WorkerKeepsLists, WorkerKeepsSole
<1>3. CASE (\E p \in Requests : Request(p)) \/ Server \/ Tick
  BY <1>3, ProducerFrame, ProducerKeepsSole
<1> QED BY <1>1, <1>2, <1>3 DEF Next

\* Nothing is read, shown or held at the start.
LEMMA InitSole == Init => ListInv /\ SoleInv
<1> SUFFICES ASSUME Init PROVE ListInv /\ SoleInv
  OBVIOUS
<1>1. ListInv
  BY DEF Init, WorkerInit, ListInv, Settling
<1>2. \A i \in Ids : Sole(i)
  BY DEF Init, WorkerInit, StreamInit, Sole, Acts, Doing, Settling
<1> QED BY <1>1, <1>2 DEF SoleInv, Init, WorkerInit

\* Unless one of the recorded causes occurred, a message is in the hands of at
\* most one worker and is shown at most once, for any number of workers,
\* shutdowns and faults.
THEOREM SpecSole == Spec => [](ListInv /\ SoleInv)
BY SpecShape, InitSole, NextSole, PTL DEF Spec

-----------------------------------------------------------------------------
(* A listing is shown twice only for a cause *)

\* The claim on k of the alert c is settling is still to be released.
Releasing(c, i, k) ==
    Doing(c, i) /\ pc[c] = "release" /\ k \in KeysOf(log[i].route, left[c])

\* ... has been released, or was to be: whoever claims k next is not served
\* by alert i, which is about to be acked.
GaveBack(c, i, k) ==
    /\ Doing(c, i) /\ status[c] \in {"blocked", "dead_lettered"}
    /\ ~Releasing(c, i, k)

\* Some worker may still come to act on message i.
Worked(i) == Live(i) \/ \E c \in Consumers : i \in work[c]

\* The claim on k that stands is the one alert i was published for.
Open(i, k) ==
    /\ i \in Published /\ k \in AlertKeysOf(i)
    /\ \/ told[i] > 0
       \/ \E c \in Consumers : Releasing(c, i, k)
       \/ Worked(i) /\ \A c \in Consumers : ~GaveBack(c, i, k)

\* A claim stands for one alert or one request: as long as k is open, nobody
\* else can claim it.
UniqueInv ==
    \A k \in Keys \ repeatable :
        /\ \A i, j \in Ids : Open(i, k) /\ Open(j, k) => i = j
        /\ \A p \in Requests : k \in Held(p) =>
              /\ \A i \in Ids : ~Open(i, k)
              /\ \A q \in Requests : k \in Held(q) => p = q
        /\ (\E i \in Ids : Open(i, k)) \/ (\E p \in Requests : k \in Held(p))
              => k \in seen

\* A worker comes to act only on messages that were live or in its hands.
LEMMA WorkedBefore ==
    ASSUME Shape, NEW c \in Consumers, Worker(c), NEW i \in Published, Worked(i)'
    PROVE  Worked(i)
<1> USE DEF settleVars, listVars, streamVars, workerVars
<1>0. work \in [Consumers -> SUBSET Ids] /\ i \in Ids
  BY StreamConstants DEF Shape, TypeOK, StreamType, WorkerType, Published, Ids
<1>1. CASE Live(i)'
  <2>1. i \in Nat /\ Len(log) \in Nat /\ i <= Len(log)
    BY DEF Published, Shape, TypeOK, StreamType
  <2>2. Forward
    BY NextForward DEF Next
  <2> QED BY <1>0, <1>1, <2>1, <2>2 DEF Forward, Live, Worked
<1>2. ASSUME NEW d \in Consumers \ {c}, i \in work'[d] PROVE Worked(i)
  BY <1>2, WorkerFrame DEF Worked
<1>3. CASE i \in work'[c] /\ i \notin work[c]
  <2>1. CASE Read(c)
    <3>1. PICK batch \in SUBSET Ids :
              XReadGroup(c, batch) /\ work' = [work EXCEPT ![c] = batch]
      BY <2>1 DEF Read
    <3>2. i \in Unread
      BY <1>0, <1>3, <3>1, OldestSubset DEF XReadGroup
    <3> QED BY <3>2 DEF Worked, Live
  <2>2. CASE Claim(c)
    BY <1>0, <1>3, <2>2 DEF Claim, Claimed, Claimable, Worked, Live
  <2>3. CASE StartDrain(c)
    <3>1. i \in XPendingOf(c, 0, DrainCount)
      BY <1>0, <1>3, <2>3 DEF StartDrain
    <3>2. Pending(i)
      BY <3>1, OldestSubset, StreamConstants DEF XPendingOf, Oldest, Pending
    <3> QED BY <3>2 DEF Worked, Live
  <2>4. CASE ReadLost(c) \/ FinishBatch(c) \/ ScanOwn(c) \/ ScanOrphans(c) \/ ClaimFails(c)
    BY <1>3, <2>4 DEF ReadLost, FinishBatch, ScanOwn, ScanOrphans, Sort, ClaimFails
  <2>5. CASE \E j \in Ids : \/ NotifyOk(c, j) \/ NotifyFail(c, j)
                            \/ NotifyFailShown(c, j) \/ NotifyBlocked(c, j)
                            \/ NotifyNoTarget(c, j) \/ DeadLetter(c, j)
                            \/ DeadLetterGone(c, j) \/ DrainSkip(c, j)
    BY <1>0, <1>3, <2>5
       DEF NotifyOk, NotifyFail, NotifyFailShown, NotifyBlocked, NotifyNoTarget,
           Notify, DeadLetter, DeadLetterGone, DrainSkip
  <2>6. CASE \/ (\E t \in Tokens : Release(c, t)) \/ HandlerFails(c) \/ Bury(c)
             \/ Ack(c) \/ AckFails(c) \/ Record(c) \/ RecordFails(c)
             \/ Restart(c) \/ Shutdown(c)
    BY <1>3, <2>6 DEF Release, HandlerFails, Bury, Ack, AckFails, Record,
                      RecordFails, Restart, Shutdown
  <2>7. CASE Abandon(c) \/ EndDrain(c) \/ Crash(c)
    BY <1>0, <1>3, <2>7 DEF Abandon, EndDrain, Crash, Halt
  <2> QED
    BY <2>1, <2>2, <2>3, <2>4, <2>5, <2>6, <2>7 DEF Worker, WorkerStep
<1>4. CASE i \in work[c]
  BY <1>4 DEF Worked
<1> QED BY <1>1, <1>2, <1>3, <1>4 DEF Worked

\* What a worker gave back stays given back until the alert is settled.
LEMMA GaveBackStays ==
    ASSUME Shape, ListInv, SoleInv, NEW c \in Consumers, Worker(c),
           NEW i \in Published, NEW k \in AlertKeysOf(i), k \notin repeatable',
           GaveBack(c, i, k), Worked(i)'
    PROVE  GaveBack(c, i, k)'
<1> USE DEF Goto, settleVars, listVars, workerVars
<1>0. /\ pc \in [Consumers -> PCs] /\ cur \in [Consumers -> Ids \cup {0}]
      /\ left \in [Consumers -> SUBSET Tokens]
      /\ status \in [Consumers -> Statuses]
  BY DEF Shape, TypeOK, WorkerType
<1>1. /\ cur[c] = i /\ pc[c] \in Settling
      /\ status[c] \in {"blocked", "dead_lettered"}
      /\ pc[c] = "release" => k \notin KeysOf(log[i].route, left[c])
      /\ log' = log /\ repeatable \subseteq repeatable'
  BY WorkerFrame DEF GaveBack, Doing, Releasing
<1>2. k \notin Dangling(c) \/ ~(Dangling(c) \subseteq repeatable')
  OBVIOUS
<1>3. pc[c] \in {"release", "bury", "ack"} => k \in Dangling(c)
  <2>1. CASE pc[c] = "release"
    <3>1. Dangling(c) = KeysOf(log[i].route, log[i].tokens \ left[c])
      BY <1>1, <2>1 DEF Dangling
    <3> QED BY <1>1, <2>1, <3>1 DEF KeysOf, AlertKeysOf
  <2>2. CASE pc[c] \in {"bury", "ack"}
    <3>1. pc[c] # "release"
      BY <2>2
    <3>2. Dangling(c) = AlertKeysOf(i)
      BY <1>1, <2>2, <3>1 DEF Dangling
    <3> QED BY <3>2
  <2> QED BY <2>1, <2>2
<1>4. pc[c] # "record"
  <2> SUFFICES ASSUME pc[c] = "record" PROVE FALSE
    OBVIOUS
  <2>1. i \in Ids /\ i <= lastId /\ Doing(c, i)
    BY <1>1, WorkerEntry DEF GaveBack
  <2>2. Sole(i)
    BY <1>1, <2>1 DEF SoleInv, Sound
  <2>3. ~Pending(i)
    BY <1>1, <2>1, <2>2 DEF Sole
  <2>4. \A d \in Consumers : i \notin work[d]
    BY <1>1, <2>1, <2>2 DEF Sole, Acts, ListInv
  <2>5. i \notin Unread
    BY <2>1, StreamConstants DEF Unread, Ids, Shape, TypeOK, StreamType
  <2> QED BY <2>3, <2>4, <2>5, WorkedBefore DEF Worked, Live
<1>5. ASSUME NEW t \in Tokens, Release(c, t) PROVE GaveBack(c, i, k)'
  BY <1>0, <1>1, <1>5
     DEF Release, AfterHook, GaveBack, Doing, Releasing, Settling, KeysOf
<1>6. CASE Bury(c)
  BY <1>0, <1>1, <1>6 DEF Bury, GaveBack, Doing, Releasing, Settling
<1>7. CASE Ack(c)
  BY <1>0, <1>1, <1>7 DEF Ack, AfterAck, GaveBack, Doing, Releasing, Settling
<1>8. CASE HandlerFails(c) \/ AckFails(c) \/ Crash(c)
  BY <1>1, <1>2, <1>3, <1>4, <1>8 DEF HandlerFails, AckFails, Crash, Settling
<1>9. CASE Record(c) \/ RecordFails(c)
  BY <1>4, <1>9 DEF Record, RecordFails
<1>10. CASE Shutdown(c)
  BY <1>0, <1>1, <1>10 DEF Shutdown, GaveBack, Doing, Releasing
<1>11. ~(\/ Read(c) \/ ReadLost(c) \/ FinishBatch(c) \/ ScanOwn(c)
         \/ ScanOrphans(c) \/ Claim(c) \/ ClaimFails(c) \/ Abandon(c)
         \/ StartDrain(c) \/ EndDrain(c) \/ Restart(c))
  BY <1>1 DEF Read, ReadLost, FinishBatch, ScanOwn, ScanOrphans, Claim,
              ClaimFails, Abandon, StartDrain, EndDrain, Restart, Settling
<1>12. ASSUME NEW j \in Ids
       PROVE ~(\/ NotifyOk(c, j) \/ NotifyFail(c, j) \/ NotifyFailShown(c, j)
               \/ NotifyBlocked(c, j) \/ NotifyNoTarget(c, j) \/ DeadLetter(c, j)
               \/ DeadLetterGone(c, j) \/ DrainSkip(c, j))
  BY <1>1 DEF NotifyOk, NotifyFail, NotifyFailShown, NotifyBlocked,
              NotifyNoTarget, Notify, DeadLetter, DeadLetterGone, DrainSkip,
              Settling
<1> QED
  BY <1>5, <1>6, <1>7, <1>8, <1>9, <1>10, <1>11, <1>12 DEF Worker, WorkerStep

\* A worker starts to release claims only for a message it had.
LEMMA ReleasingBefore ==
    ASSUME Shape, NEW c \in Consumers, Worker(c), NEW i \in Ids, NEW k,
           Releasing(c, i, k)', ~NotifyBlocked(c, i), ~DeadLetter(c, i)
    PROVE  Releasing(c, i, k)
<1> USE DEF Goto, settleVars, listVars, workerVars
<1>0. /\ pc \in [Consumers -> PCs] /\ cur \in [Consumers -> Ids \cup {0}]
      /\ left \in [Consumers -> SUBSET Tokens]
      /\ status \in [Consumers -> Statuses] /\ ret[c] \notin Settling
  BY DEF Shape, TypeOK, WorkerType, WorkerShape
<1>1. /\ cur'[c] = i /\ pc'[c] = "release" /\ log' = log
      /\ status'[c] # "gone" /\ k \in KeysOf(log[i].route, left'[c])
  BY WorkerFrame DEF Releasing, Doing
<1>2. CASE UNCHANGED <<pc, cur, left, status>>
  BY <1>1, <1>2 DEF Releasing, Doing
<1>3. ASSUME NEW t \in Tokens, Release(c, t) PROVE Releasing(c, i, k)
  BY <1>0, <1>1, <1>3 DEF Release, Releasing, Doing, KeysOf, Settling
<1>4. ASSUME NEW j \in Ids, NotifyBlocked(c, j) \/ DeadLetter(c, j) PROVE FALSE
  BY <1>0, <1>1, <1>4 DEF NotifyBlocked, DeadLetter, RunHook, Settle
<1>5. ASSUME NEW j \in Ids,
             NotifyOk(c, j) \/ NotifyNoTarget(c, j) \/ DeadLetterGone(c, j)
      PROVE  FALSE
  BY <1>0, <1>1, <1>5 DEF NotifyOk, NotifyNoTarget, DeadLetterGone, Settle
<1>6. ASSUME NEW j \in Ids,
             NotifyFail(c, j) \/ NotifyFailShown(c, j) \/ DrainSkip(c, j)
      PROVE  Releasing(c, i, k)
  BY <1>2, <1>6 DEF NotifyFail, NotifyFailShown, DrainSkip
<1>7. CASE \/ Read(c) \/ FinishBatch(c) \/ ScanOwn(c) \/ ScanOrphans(c)
           \/ Claim(c) \/ ClaimFails(c) \/ Abandon(c) \/ StartDrain(c)
           \/ EndDrain(c) \/ Restart(c) \/ Crash(c)
  BY <1>0, <1>1, <1>7 DEF Read, FinishBatch, ScanOwn, ScanOrphans, Sort,
       Claim, ClaimFails, Abandon, StartDrain, EndDrain, Restart, Crash, Halt
<1>8. CASE ReadLost(c) \/ Shutdown(c)
  BY <1>2, <1>8 DEF ReadLost, Shutdown
<1>9. CASE HandlerFails(c) \/ Record(c) \/ RecordFails(c)
  BY <1>0, <1>1, <1>9 DEF HandlerFails, Record, RecordFails, Return, Settling
<1>10. CASE Bury(c) \/ Ack(c) \/ AckFails(c)
  BY <1>0, <1>1, <1>10 DEF Bury, Ack, AckFails, AfterAck, Return, Settling
<1> QED
  BY <1>3, <1>4, <1>5, <1>6, <1>7, <1>8, <1>9, <1>10 DEF Worker, WorkerStep

\* A message in the hands of a worker that is not settling one is open.
LEMMA HeldIsOpen ==
    ASSUME Shape, ListInv, SoleInv, NEW c \in Consumers, NEW i \in Published,
           NEW k \in AlertKeysOf(i), k \notin repeatable,
           pc[c] \notin Settling,
           i \in work[c] \/ (i \in bury[c] /\ ~Contested(c, i))
    PROVE  Open(i, k)
<1>1. i \in Ids /\ i <= lastId
  BY WorkerEntry
<1>2. Sole(i)
  BY <1>1 DEF SoleInv, Sound
<1>3. \A d \in Consumers : ~Doing(d, i)
  BY <1>2 DEF Doing, Contested, InHand, Sole, Acts
<1>4. Worked(i)
  BY DEF Worked, Live, Contested
<1> QED BY <1>3, <1>4 DEF Open, GaveBack

\* No step of a worker opens a key that is not repeatable.
LEMMA OpenBefore ==
    ASSUME Shape, ListInv, SoleInv, NEW c \in Consumers, Worker(c),
           NEW i \in Ids, NEW k, k \notin repeatable', Open(i, k)'
    PROVE  Open(i, k)
<1>1. i \in Published /\ k \in AlertKeysOf(i) /\ log' = log /\ k \notin repeatable
  BY WorkerFrame DEF Open, Published, AlertKeysOf
<1>2. CASE told'[i] # told[i]
  <2>1. i \in work[c] /\ (NotifyOk(c, i) \/ NotifyFailShown(c, i))
    BY <1>2, ToldOnlyRead
  <2>2. pc[c] \notin Settling
    BY <2>1 DEF NotifyOk, NotifyFailShown, Notify, Settling
  <2> QED BY <1>1, <2>1, <2>2, HeldIsOpen
<1>3. CASE NotifyBlocked(c, i) \/ DeadLetter(c, i)
  <2>1. pc[c] \notin Settling /\ (i \in work[c] \/ i \in bury[c])
    BY <1>3 DEF NotifyBlocked, Notify, DeadLetter, Settling
  <2>2. i \in work[c] \/ ~Contested(c, i)
    BY <1>1, <1>3 DEF NotifyBlocked, Notify, DeadLetter
  <2> QED BY <1>1, <2>1, <2>2, HeldIsOpen
<1>4. CASE told'[i] = told[i] /\ ~NotifyBlocked(c, i) /\ ~DeadLetter(c, i)
  <2>1. \A d \in Consumers \ {c} :
            /\ Releasing(d, i, k)' <=> Releasing(d, i, k)
            /\ GaveBack(d, i, k)' <=> GaveBack(d, i, k)
    BY WorkerFrame DEF Releasing, GaveBack, Doing
  <2>2. (\E d \in Consumers : Releasing(d, i, k)')
            => \E d \in Consumers : Releasing(d, i, k)
    BY <1>4, <2>1, ReleasingBefore
  <2>3. Worked(i)' => Worked(i)
    BY <1>1, WorkedBefore
  <2>4. Worked(i)' /\ (\A d \in Consumers : ~GaveBack(d, i, k)')
            => \A d \in Consumers : ~GaveBack(d, i, k)
    BY <1>1, <2>1, GaveBackStays
  <2> QED BY <1>1, <1>4, <2>2, <2>3, <2>4 DEF Open
<1> QED BY <1>2, <1>3, <1>4

\* A claim a worker releases is nobody's any more.
LEMMA ReleaseCloses ==
    ASSUME Shape, ListInv, SoleInv, SettleInv, UniqueInv,
           NEW c \in Consumers, Worker(c), NEW t \in Tokens, Release(c, t),
           NEW k \in Keys, k = <<log[cur[c]].route, t>>, k \notin repeatable'
    PROVE  /\ \A i \in Ids : ~Open(i, k)'
           /\ \A p \in Requests : k \notin Held(p)'
<1> USE DEF Goto
<1>0. /\ pc \in [Consumers -> PCs] /\ left \in [Consumers -> SUBSET Tokens]
  BY DEF Shape, TypeOK, WorkerType
<1>1. /\ pc[c] = "release" /\ t \in left[c] /\ cur[c] \in Ids /\ cur[c] <= lastId
      /\ status[c] \in {"blocked", "dead_lettered"}
      /\ UNCHANGED <<cur, status, told, work, repeatable, log>>
  BY WorkerEntry DEF Release, Settling, SettleInv, historyVars, listVars, streamVars
<1>2. Releasing(c, cur[c], k)
  BY <1>1 DEF Releasing, Doing, Settling, KeysOf
<1>3. /\ \A i \in Ids : Open(i, k)' => Open(i, k)
      /\ UNCHANGED ingestVars
  BY <1>1, OpenBefore, WorkerFrame
<1>4. k \in AlertKeysOf(cur[c]) /\ cur[c] \in Published
  BY <1>1, ReadEntry DEF ListInv, AlertKeysOf, KeysOf
<1>5. Open(cur[c], k) /\ k \notin repeatable
  BY <1>1, <1>2, <1>4 DEF Open
<1>6. \A i \in Ids : Open(i, k)' => i = cur[c]
  BY <1>1, <1>3, <1>5 DEF UniqueInv
<1>7. ~Open(cur[c], k)'
  <2>1. Sole(cur[c]) /\ Doing(c, cur[c])
    BY <1>1, <1>4, <1>5 DEF SoleInv, Sound, Doing, Settling
  <2>2. ~(told[cur[c]] > 0) /\ \A d \in Consumers \ {c} : ~Doing(d, cur[c])
    BY <1>1, <2>1 DEF Sole, Acts
  <2>3. /\ k \notin KeysOf(log[cur[c]].route, left'[c])
        /\ pc'[c] \in {"release", "bury", "ack"}
    BY <1>0, <1>1, <1>4 DEF Release, AfterHook, KeysOf
  <2>4. /\ \A d \in Consumers : ~Releasing(d, cur[c], k)'
        /\ GaveBack(c, cur[c], k)'
    BY <1>1, <2>2, <2>3, WorkerFrame DEF Releasing, GaveBack, Doing, Settling
  <2> QED BY <1>1, <2>2, <2>4 DEF Open
<1>8. \A p \in Requests : k \notin Held(p)'
  BY <1>1, <1>3, <1>5 DEF UniqueInv, Held, ingestVars, requestVars
<1> QED BY <1>1, <1>6, <1>7, <1>8

\* A step that opens and claims nothing keeps UniqueInv, as long as it gives
\* back only claims that are nobody's afterwards.
LEMMA UniqueShrinks ==
    ASSUME UniqueInv, repeatable \subseteq repeatable',
           \A k \in Keys \ repeatable' :
               /\ \A i \in Ids : Open(i, k)' => Open(i, k)
               /\ \A p \in Requests : k \in Held(p)' => k \in Held(p)
               /\ k \in seen /\ k \notin seen' =>
                     /\ \A i \in Ids : ~Open(i, k)'
                     /\ \A p \in Requests : k \notin Held(p)'
    PROVE  UniqueInv'
<1> SUFFICES ASSUME NEW k \in Keys \ repeatable'
             PROVE  /\ \A i, j \in Ids : Open(i, k)' /\ Open(j, k)' => i = j
                    /\ \A p \in Requests : k \in Held(p)' =>
                          /\ \A i \in Ids : ~Open(i, k)'
                          /\ \A q \in Requests : k \in Held(q)' => p = q
                    /\ (\E i \in Ids : Open(i, k)') \/ (\E p \in Requests : k \in Held(p)')
                          => k \in seen'
  BY DEF UniqueInv, Keys
<1>1. k \in Keys \ repeatable
  OBVIOUS
<1> QED BY <1>1 DEF UniqueInv

\* A worker deletes a row of seen_listings only as the hook releases a claim.
LEMMA WorkerReleases ==
    ASSUME NEW c \in Consumers, Worker(c), NEW k \in seen, k \notin seen'
    PROVE  \E t \in Tokens : Release(c, t) /\ k = <<log[cur[c]].route, t>>
<1> USE DEF dedupVars
<1>1. ~(seen' = seen)
  OBVIOUS
<1>2. PICK t \in Tokens : Release(c, t)
  BY <1>1
     DEF Worker, WorkerStep, Read, ReadLost, FinishBatch, ScanOwn, ScanOrphans,
         Sort, Claim, ClaimFails, Notify, NotifyOk, NotifyFail, NotifyFailShown,
         NotifyBlocked, NotifyNoTarget, DeadLetter, DeadLetterGone, DrainSkip,
         HandlerFails, Bury, Ack, AckFails, Record, RecordFails, Abandon,
         StartDrain, EndDrain, Restart, Shutdown, Crash
<1>3. k = <<log[cur[c]].route, t>>
  BY <1>2 DEF Release, ReleaseClaim
<1> QED BY <1>2, <1>3

\* Every step of a worker keeps UniqueInv.
LEMMA WorkerKeepsUnique ==
    ASSUME Shape, ListInv, SoleInv, SettleInv, UniqueInv,
           NEW c \in Consumers, Worker(c)
    PROVE  UniqueInv'
<1>1. repeatable \subseteq repeatable' /\ UNCHANGED ingestVars
  BY WorkerFrame
<1>2. ASSUME NEW k \in Keys \ repeatable', NEW i \in Ids, Open(i, k)'
      PROVE  Open(i, k)
  BY <1>2, OpenBefore
<1>3. ASSUME NEW k \in Keys \ repeatable', NEW p \in Requests, k \in Held(p)'
      PROVE  k \in Held(p)
  BY <1>1, <1>3 DEF Held, ingestVars, requestVars
<1>4. ASSUME NEW k \in Keys \ repeatable', k \in seen, k \notin seen'
      PROVE  /\ \A i \in Ids : ~Open(i, k)'
             /\ \A p \in Requests : k \notin Held(p)'
  <2>1. PICK t \in Tokens : Release(c, t) /\ k = <<log[cur[c]].route, t>>
    BY <1>4, WorkerReleases
  <2> QED BY <2>1, ReleaseCloses
<1> QED BY <1>1, <1>2, <1>3, <1>4, UniqueShrinks

\* Outside the workers nobody comes to act on a message that was in the log.
LEMMA ProducerWorks ==
    ASSUME Shape, (\E p \in Requests : Request(p)) \/ Server \/ Tick,
           NEW i \in Published, Worked(i)'
    PROVE  Worked(i)
<1>1. UNCHANGED workerVars
  BY ProducerFrame
<1>2. Live(i)' => Live(i)
  <2>1. Forward
    BY NextForward DEF Next
  <2>2. i \in Ids /\ i \in Nat /\ Len(log) \in Nat /\ i <= Len(log)
    BY StreamConstants DEF Published, Ids, Shape, TypeOK, StreamType
  <2> QED BY <2>1, <2>2 DEF Forward, Live
<1> QED BY <1>1, <1>2 DEF Worked, workerVars, listVars

\* Nor does any such step open an alert that was in the log.
LEMMA ProducerOpens ==
    ASSUME Shape, (\E p \in Requests : Request(p)) \/ Server \/ Tick,
           NEW i \in Published, NEW k, Open(i, k)'
    PROVE  Open(i, k)
<1>1. /\ UNCHANGED workerVars /\ log'[i] = log[i]
  BY ProducerFrame
<1>3. Worked(i)' => Worked(i)
  BY ProducerWorks
<1>4. \A c \in Consumers :
          /\ Releasing(c, i, k)' <=> Releasing(c, i, k)
          /\ GaveBack(c, i, k)' <=> GaveBack(c, i, k)
  BY <1>1 DEF Releasing, GaveBack, Doing, workerVars, settleVars
<1>5. told' = told
  BY <1>1 DEF workerVars, historyVars
<1>6. k \in AlertKeysOf(i)
  BY <1>1 DEF Open, AlertKeysOf
<1> QED BY <1>3, <1>4, <1>5, <1>6 DEF Open

\* A step of a producer that adds no alert and makes no claim.
LEMMA ProducerUnique ==
    ASSUME Shape, UniqueInv, (\E p \in Requests : Request(p)) \/ Server \/ Tick,
           log' = log, seen \subseteq seen',
           \A p \in Requests : Held(p)' \subseteq Held(p)
    PROVE  UniqueInv'
<1>1. repeatable \subseteq repeatable'
  BY ProducerFrame
<1>2. ASSUME NEW k, NEW i \in Ids, Open(i, k)' PROVE Open(i, k)
  <2>1. i \in Published
    BY <1>2 DEF Open, Published
  <2> QED BY <1>2, <2>1, ProducerOpens
<1> QED BY <1>1, <1>2, UniqueShrinks

\* One that adds an alert: the alert takes over claims that a request held.
LEMMA ProducerAddUnique ==
    ASSUME Shape, UniqueInv, (\E p \in Requests : Request(p)) \/ Server \/ Tick,
           NEW a \in Alert, XAdd(a), seen' = seen,
           \A p \in Requests : Held(p)' \subseteq Held(p),
           \A k \in KeysOf(a.route, a.tokens) \ repeatable' :
               /\ \E p \in Requests : k \in Held(p)
               /\ \A p \in Requests : k \notin Held(p)'
    PROVE  UniqueInv'
<1>0. PICK n \in Nat : n = Len(log) + 1
  BY DEF Shape, TypeOK, StreamType
<1>1. Len(log') = n /\ log'[n] = a /\ Len(log) \in Nat
  BY <1>0, XAddShape DEF Shape, TypeOK, StreamType
<1>2. repeatable \subseteq repeatable'
  BY ProducerFrame
<1>3. ASSUME NEW k, NEW i \in Ids, Open(i, k)'
      PROVE  Open(i, k) \/ (i = n /\ k \in KeysOf(a.route, a.tokens))
  <2>1. CASE i \in Published
    BY <1>3, <2>1, ProducerOpens
  <2>2. CASE i \notin Published
    <3>1. i \in 1..n /\ k \in AlertKeysOf(i)'
      BY <1>1, <1>3 DEF Open, Published
    <3>2. i = n
      BY <1>0, <1>1, <2>2, <3>1 DEF Published
    <3> QED BY <1>1, <3>1, <3>2 DEF AlertKeysOf
  <2> QED BY <2>1, <2>2
<1> SUFFICES ASSUME NEW k \in Keys \ repeatable'
             PROVE  /\ \A i, j \in Ids : Open(i, k)' /\ Open(j, k)' => i = j
                    /\ \A p \in Requests : k \in Held(p)' =>
                          /\ \A i \in Ids : ~Open(i, k)'
                          /\ \A q \in Requests : k \in Held(q)' => p = q
                    /\ (\E i \in Ids : Open(i, k)') \/ (\E p \in Requests : k \in Held(p)')
                          => k \in seen'
  BY DEF UniqueInv, Keys
<1>4. k \in Keys \ repeatable
  BY <1>2
<1>5. CASE k \in KeysOf(a.route, a.tokens)
  <2>1. PICK p \in Requests : k \in Held(p)
    BY <1>5
  <2>2. k \in seen /\ \A i \in Ids : ~Open(i, k)
    BY <1>4, <2>1 DEF UniqueInv
  <2>3. \A i \in Ids : Open(i, k)' => i = n
    BY <1>3, <2>2
  <2> QED BY <1>5, <2>2, <2>3
<1>6. CASE k \notin KeysOf(a.route, a.tokens)
  BY <1>3, <1>4, <1>6 DEF UniqueInv
<1> QED BY <1>5, <1>6

\* A handler that finishes holds nothing; the others hold what they held.
LEMMA FinishReleases ==
    ASSUME Shape, NEW p \in Requests, Finish(p)
    PROVE  Held(p)' = {} /\ \A q \in Requests : Held(q)' \subseteq Held(q)
<1>1. newOnes' = [newOnes EXCEPT ![p] = {}] /\ route' = route
      /\ newOnes \in [Requests -> SUBSET Tokens]
  BY DEF Finish, Shape, TypeOK, IngestType
<1> QED BY <1>1 DEF Held, KeysOf

\* Every step of a request keeps UniqueInv: a claim is new only for a key that
\* nothing is open for.
LEMMA RequestKeepsUnique ==
    ASSUME Shape, IdleInv, UniqueInv, NEW p \in Requests, Request(p)
    PROVE  UniqueInv'
<1> USE DEF RGoto, Forfeit, dedupVars, streamVars
<1>t. /\ rpc \in [Requests -> {"idle", "claim", "publish", "release"}]
      /\ route \in [Requests -> Routes]
      /\ newOnes \in [Requests -> SUBSET Tokens]
  BY DEF Shape, TypeOK, IngestType
<1>q. CASE /\ log' = log /\ seen \subseteq seen'
           /\ \A q \in Requests : Held(q)' \subseteq Held(q)
  BY <1>q, ProducerUnique
<1>r. repeatable \subseteq repeatable'
  BY ProducerFrame
<1>o. ASSUME log' = log, NEW k, NEW i \in Ids, Open(i, k)' PROVE Open(i, k)
  <2>1. i \in Published
    BY <1>o DEF Open, Published
  <2> QED BY <1>o, <2>1, ProducerOpens
<1>1. CASE StartIngest(p)
  <2>1. newOnes[p] = {} /\ newOnes' = newOnes
        /\ \A q \in Requests : q # p => route'[q] = route[q]
    BY <1>1, <1>t DEF StartIngest, IdleInv
  <2>2. \A q \in Requests : Held(q)' \subseteq Held(q)
    BY <2>1 DEF Held, KeysOf
  <2> QED BY <1>1, <1>q, <2>2 DEF StartIngest
<1>2. ASSUME NEW t \in Tokens, ClaimListing(p, t) PROVE UniqueInv'
  <2> DEFINE k == <<route[p], t>>
  <2>1. log' = log /\ seen' = seen \cup {k} /\ route' = route /\ repeatable' = repeatable
    BY <1>2 DEF ClaimListing, ClaimNew
  <2>2. CASE k \in seen
    <3>1. newOnes' = newOnes
      BY <1>2, <1>t, <2>2 DEF ClaimListing, IsNew
    <3>2. \A q \in Requests : Held(q)' = Held(q)
      BY <2>1, <3>1 DEF Held
    <3> QED BY <1>q, <2>1, <3>2
  <2>3. CASE k \notin seen
    <3>1. \A q \in Requests : Held(q)' = IF q = p THEN Held(q) \cup {k} ELSE Held(q)
      BY <1>2, <1>t, <2>1, <2>3 DEF ClaimListing, IsNew, Held, KeysOf
    <3>2. ASSUME NEW x \in Keys \ repeatable', x # k
          PROVE  \A q \in Requests : x \in Held(q)' <=> x \in Held(q)
      BY <3>1, <3>2
    <3>3. k \in Keys \ repeatable' =>
              /\ \A i \in Ids : ~Open(i, k)
              /\ \A q \in Requests : k \notin Held(q)
      BY <2>1, <2>3 DEF UniqueInv
    <3> SUFFICES ASSUME NEW x \in Keys \ repeatable'
                 PROVE  /\ \A i, j \in Ids : Open(i, x)' /\ Open(j, x)' => i = j
                        /\ \A q \in Requests : x \in Held(q)' =>
                              /\ \A i \in Ids : ~Open(i, x)'
                              /\ \A u \in Requests : x \in Held(u)' => q = u
                        /\ (\E i \in Ids : Open(i, x)')
                              \/ (\E q \in Requests : x \in Held(q)') => x \in seen'
      BY DEF UniqueInv, Keys
    <3> HIDE DEF k
    <3>4. CASE x = k
      <4>1. \A i \in Ids : ~Open(i, x)'
        BY <1>o, <2>1, <3>3, <3>4
      <4>2. \A q \in Requests : x \in Held(q)' => q = p
        BY <3>1, <3>3, <3>4
      <4> QED BY <2>1, <3>4, <4>1, <4>2
    <3>5. CASE x # k
      <4>1. x \in Keys \ repeatable /\ \A i \in Ids : Open(i, x)' => Open(i, x)
        BY <1>o, <2>1
      <4> QED BY <2>1, <3>2, <3>5, <4>1 DEF UniqueInv
    <3> QED BY <3>4, <3>5
  <2> QED BY <2>2, <2>3
<1>3. ASSUME NEW t \in Tokens, ClaimListingFails(p, t) PROVE UniqueInv'
  <2>1. UNCHANGED <<route, newOnes, log>> /\ seen \subseteq seen'
    BY <1>3 DEF ClaimListingFails, ClaimNew
  <2> QED BY <1>q, <2>1 DEF Held
<1>4. CASE EndClaims(p)
  <2>1. newOnes' = newOnes /\ route' = route /\ log' = log /\ seen' = seen
    BY <1>4, <1>t DEF EndClaims, Finish
  <2> QED BY <1>q, <2>1 DEF Held
<1>5. CASE Publish(p)
  <2>1. PICK S \in Batches(newOnes[p]) : XAdd([route |-> route[p], tokens |-> S])
    BY <1>5 DEF Publish
  <2> DEFINE a == [route |-> route[p], tokens |-> S]
  <2>2. a \in Alert /\ a.route = route[p] /\ a.tokens = S
    BY <1>t DEF Batches, Alert
  <2>3. seen' = seen /\ Finish(p)
    BY <1>5 DEF Publish
  <2>4. ASSUME NEW k \in KeysOf(a.route, a.tokens) \ repeatable'
        PROVE  k \in Held(p) /\ \A q \in Requests : k \notin Held(q)'
    <3>1. k \in Held(p)
      BY <2>2 DEF Held, KeysOf, Batches
    <3>2. k \in Keys \ repeatable
      BY <1>r, <1>t, <3>1 DEF Held, KeysOf, Keys
    <3>3. \A q \in Requests : k \in Held(q) => q = p
      BY <3>1, <3>2 DEF UniqueInv
    <3> QED BY <2>3, <3>1, <3>3, FinishReleases
  <2>5. \A q \in Requests : Held(q)' \subseteq Held(q)
    BY <2>3, FinishReleases
  <2>6. XAdd(a)
    BY <2>1
  <2> HIDE DEF a
  <2> QED BY <2>2, <2>3, <2>4, <2>5, <2>6, ProducerAddUnique
<1>6. CASE PublishFails(p)
  <2>1. UNCHANGED <<seen, route, newOnes>>
    BY <1>6 DEF PublishFails
  <2>2. \A q \in Requests : Held(q)' = Held(q)
    BY <2>1 DEF Held
  <2>3. CASE log' = log
    BY <1>q, <2>1, <2>2, <2>3
  <2>4. ASSUME NEW S \in Batches(newOnes[p]),
               XAdd([route |-> route[p], tokens |-> S]),
               repeatable' = repeatable \cup KeysOf(route[p], S)
        PROVE  UniqueInv'
    <3> DEFINE a == [route |-> route[p], tokens |-> S]
    <3>1. a \in Alert /\ a.route = route[p] /\ a.tokens = S
      BY <1>t, <2>4 DEF Batches, Alert
    <3>2. KeysOf(a.route, a.tokens) \ repeatable' = {} /\ XAdd(a)
      BY <2>4, <3>1
    <3> HIDE DEF a
    <3> QED BY <2>1, <2>2, <3>1, <3>2, ProducerAddUnique
  <2> QED BY <1>6, <2>3, <2>4 DEF PublishFails
<1>7. CASE PublishMalformed(p)
  BY <1>7, <1>q, FinishReleases DEF PublishMalformed
<1>8. ASSUME NEW t \in Tokens, ReleaseListing(p, t) PROVE UniqueInv'
  <2>0. PICK k : k = <<route[p], t>>
    OBVIOUS
  <2>1. /\ log' = log /\ route' = route /\ repeatable' = repeatable
        /\ newOnes' = [newOnes EXCEPT ![p] = @ \ {t}] /\ t \in newOnes[p]
        /\ seen \ {k} \subseteq seen'
    BY <1>8, <2>0 DEF ReleaseListing, ReleaseClaim
  <2>2. /\ \A q \in Requests : Held(q)' \subseteq Held(q)
        /\ k \in Held(p) /\ k \notin Held(p)' /\ k \in Keys
    BY <1>t, <2>0, <2>1 DEF Held, KeysOf, Keys
  <2>3. k \notin repeatable' =>
            /\ \A i \in Ids : ~Open(i, k)
            /\ \A q \in Requests : k \in Held(q) => q = p
    BY <2>1, <2>2 DEF UniqueInv
  <2>4. k \notin repeatable' =>
            /\ \A i \in Ids : ~Open(i, k)'
            /\ \A q \in Requests : k \notin Held(q)'
    BY <1>o, <2>1, <2>2, <2>3
  <2>5. ASSUME NEW x \in Keys \ repeatable'
        PROVE  /\ \A i \in Ids : Open(i, x)' => Open(i, x)
               /\ \A q \in Requests : x \in Held(q)' => x \in Held(q)
               /\ x \in seen /\ x \notin seen' =>
                     /\ \A i \in Ids : ~Open(i, x)'
                     /\ \A q \in Requests : x \notin Held(q)'
    BY <1>o, <2>1, <2>2, <2>4
  <2> QED BY <1>r, <2>5, UniqueShrinks
<1>9. CASE EndRelease(p)
  BY <1>9, <1>q, FinishReleases DEF EndRelease
<1>10. CASE Cancel(p)
  BY <1>10, <1>q DEF Cancel, Held
<1> QED
  BY <1>1, <1>2, <1>3, <1>4, <1>5, <1>6, <1>7, <1>8, <1>9, <1>10
     DEF Request, RequestStep

\* A crash of the server only loses what its requests held; a price-drop
\* message is about no key.
LEMMA ServerKeepsUnique ==
    ASSUME Shape, UniqueInv, Server
    PROVE  UniqueInv'
<1>1. CASE CrashServer
  <2>1. /\ log' = log /\ seen' = seen /\ route' = route
        /\ newOnes' = [q \in Requests |-> {}]
    BY <1>1 DEF CrashServer, streamVars
  <2> QED BY <2>1, ProducerUnique DEF Held, KeysOf
<1>2. ASSUME NEW r \in Routes, PublishRaw(r) PROVE UniqueInv'
  <2> DEFINE a == [route |-> r, tokens |-> {}]
  <2>1. a \in Alert /\ KeysOf(a.route, a.tokens) = {}
    BY DEF Alert, KeysOf
  <2>2. /\ seen' = seen /\ XAdd(a) /\ \A q \in Requests : Held(q)' = Held(q)
    BY <1>2 DEF PublishRaw, requestVars, Held
  <2> HIDE DEF a
  <2> QED BY <2>1, <2>2, ProducerAddUnique
<1> QED BY <1>1, <1>2 DEF Server

\* Every step keeps UniqueInv.
LEMMA NextUnique ==
    Shape /\ IdleInv /\ ListInv /\ SoleInv /\ SettleInv /\ UniqueInv /\ [Next]_vars
    => UniqueInv'
<1> SUFFICES ASSUME Shape, IdleInv, ListInv, SoleInv, SettleInv, UniqueInv, [Next]_vars
             PROVE  UniqueInv'
  OBVIOUS
<1>1. CASE UNCHANGED vars
  <2>1. \A k, i : Open(i, k)' <=> Open(i, k)
    BY <1>1 DEF Open, Releasing, GaveBack, Doing, Worked, Live, Unread, Stored,
       Published, Pending, AlertKeysOf, vars, streamVars, workerVars, settleVars,
       listVars, historyVars
  <2>2. UNCHANGED <<seen, repeatable, route, newOnes>>
    BY <1>1 DEF vars, dedupVars, ingestVars, requestVars
  <2> QED BY <2>1, <2>2, UniqueShrinks DEF Held
<1>2. ASSUME NEW c \in Consumers, Worker(c) PROVE UniqueInv'
  BY <1>2, WorkerKeepsUnique
<1>3. ASSUME NEW p \in Requests, Request(p) PROVE UniqueInv'
  BY <1>3, RequestKeepsUnique
<1>4. CASE Server
  BY <1>4, ServerKeepsUnique
<1>5. CASE Tick
  <2>1. log' = log /\ seen' = seen /\ UNCHANGED <<route, newOnes>>
    BY <1>5 DEF Tick, Age, dedupVars, ingestVars, requestVars
  <2> QED BY <1>5, <2>1, ProducerUnique DEF Held
<1> QED BY <1>1, <1>2, <1>3, <1>4, <1>5 DEF Next

\* SettleInv without the claims it serves to keep.
LEMMA NextSettles == Shape /\ SettleInv /\ [Next]_vars => SettleInv'
<1> SUFFICES ASSUME Shape, SettleInv, [Next]_vars PROVE SettleInv'
  OBVIOUS
<1>1. CASE UNCHANGED workerVars
  BY <1>1 DEF SettleInv, workerVars, settleVars, historyVars
<1>2. ASSUME NEW c \in Consumers, Worker(c) PROVE SettleInv'
  BY <1>2, WorkerSettles
<1> QED BY <1>1, <1>2, ProducerFrame DEF Next, vars

\* At the start no listing is claimed.
LEMMA InitUnique == Init => IdleInv /\ SettleInv /\ UniqueInv
<1> SUFFICES ASSUME Init PROVE IdleInv /\ SettleInv /\ UniqueInv
  OBVIOUS
<1>1. IdleInv /\ SettleInv
  BY DEF Init, IngestInit, WorkerInit, IdleInv, SettleInv
<1>2. Published = {} /\ \A p \in Requests : Held(p) = {}
  BY DEF Init, StreamInit, IngestInit, Published, Held, KeysOf
<1> QED BY <1>1, <1>2 DEF UniqueInv, Open

\* A listing is shown twice on a route only after one of the recorded causes,
\* whatever the number of workers, requests, shutdowns, restarts and faults:
\* claims are exclusive, a claim is served by one alert, and an alert is shown
\* once.
THEOREM RepeatsHaveCause == Spec => []NoUncausedRepeat
<1>1. Shape /\ SoleInv /\ UniqueInv => NoUncausedRepeat
  <2> SUFFICES ASSUME Shape, SoleInv, UniqueInv, NEW k \in Keys, k \notin repeatable,
                      ShownTwice(k)
               PROVE  FALSE
    BY DEF NoUncausedRepeat
  <2>1. PICK i \in Published, j \in Published :
            /\ k \in AlertKeysOf(i) /\ k \in AlertKeysOf(j)
            /\ told[i] > 0 /\ told[j] > 0
            /\ i # j \/ told[i] > 1
    BY DEF ShownTwice
  <2>2. i \in Ids /\ j \in Ids /\ told[i] \in Nat /\ i \in Nat /\ lastId \in Nat
    BY StreamConstants DEF Published, Ids, Shape, TypeOK, StreamType, WorkerType
  <2>3. Open(i, k) /\ Open(j, k)
    BY <2>1 DEF Open
  <2>4. i = j
    BY <2>2, <2>3 DEF UniqueInv
  <2>5. Sole(i)
    BY <2>1, <2>2 DEF SoleInv, Sound
  <2> QED BY <2>1, <2>4, <2>5 DEF Sole
<1> QED
  BY <1>1, SpecShape, SpecSole, InitUnique, NextUnique, NextIdle, NextSettles,
     PTL DEF Spec

-----------------------------------------------------------------------------
(* The ledger tells the truth *)

\* What will be recorded as sent was shown; what will be recorded as
\* dead-lettered is in the dead-letter stream.
RecordInv ==
    \A c \in Consumers :
        pc[c] \in {"ack", "record"} =>
            /\ status[c] = "sent" => told[cur[c]] > 0
            /\ status[c] = "dead_lettered" => cur[c] \in dead

\* Nobody has shown message i, or will come to.
Buried(i) == told[i] = 0 /\ ~Worked(i)

\* What a row of the ledger says of message i stays true.
TrueRow(s, i) ==
    /\ s \in {"sent", "dead_lettered"} => i \in Ids /\ i <= lastId
    /\ s = "sent" => told[i] > 0
    /\ s = "dead_lettered" => i \in dead /\ (Sound(i) => Buried(i))

LedgerInv == \A row \in Rows : TrueRow(ledger[row].status, ledger[row].batch)

\* A worker's step takes nothing out of the dead-letter stream.
LEMMA DeadGrows ==
    ASSUME NEW c \in Consumers, Worker(c)
    PROVE  dead \subseteq dead'
BY DEF Worker, WorkerStep, Read, ReadLost, FinishBatch, ScanOwn, ScanOrphans,
       Sort, Claim, ClaimFails, Notify, NotifyOk, NotifyFail, NotifyFailShown,
       NotifyBlocked, NotifyNoTarget, DeadLetter, DeadLetterGone, DrainSkip,
       Release, HandlerFails, Bury, Ack, AckFails, Record, RecordFails, Abandon,
       StartDrain, EndDrain, Restart, Shutdown, Crash, workerVars, recordVars

\* RecordInv is inductive.
LEMMA WorkerKeepsRecord ==
    ASSUME Shape, SettleInv, RecordInv, NEW c \in Consumers, Worker(c)
    PROVE  RecordInv'
<1> USE DEF Goto, settleVars, workerVars
<1> DEFINE R(d) == pc[d] \in {"ack", "record"} =>
                      /\ status[d] = "sent" => told[cur[d]] > 0
                      /\ status[d] = "dead_lettered" => cur[d] \in dead
<1>0. /\ pc \in [Consumers -> PCs] /\ cur \in [Consumers -> Ids \cup {0}]
      /\ status \in [Consumers -> Statuses] /\ ret[c] \notin Settling
      /\ told \in [Ids -> Nat] /\ dead \subseteq dead'
  BY DeadGrows DEF Shape, TypeOK, WorkerType, WorkerShape
<1>1. ASSUME NEW d \in Consumers, pc[d] \in {"ack", "record"}, status[d] = "sent"
      PROVE  told'[cur[d]] > 0
  <2>1. cur[d] \in Ids /\ told[cur[d]] > 0
    BY <1>1, WorkerEntry DEF RecordInv, Settling
  <2>2. told'[cur[d]] >= told[cur[d]] /\ told[cur[d]] \in Nat /\ told'[cur[d]] \in Nat
    BY <1>0, <2>1, WorkerTells, WorkerKeepsShape DEF Shape, TypeOK, WorkerType
  <2> QED BY <2>1, <2>2
<1>2. \A d \in Consumers \ {c} : R(d)'
  BY <1>0, <1>1, WorkerFrame DEF RecordInv
<1>3. CASE UNCHANGED <<pc, cur, status>>
  BY <1>0, <1>1, <1>3 DEF RecordInv
<1>4. CASE pc'[c] \notin {"ack", "record"} \/ status'[c] \notin {"sent", "dead_lettered"}
  BY <1>2, <1>4 DEF RecordInv
<1>5. CASE R(c)'
  BY <1>2, <1>5 DEF RecordInv
<1>6. CASE \/ Read(c) \/ ReadLost(c) \/ FinishBatch(c) \/ ScanOwn(c)
           \/ ScanOrphans(c) \/ Claim(c) \/ ClaimFails(c)
  BY <1>0, <1>3, <1>4, <1>6
     DEF Read, ReadLost, FinishBatch, ScanOwn, ScanOrphans, Sort, Claim, ClaimFails
<1>7. ASSUME NEW j \in Ids, NotifyOk(c, j) PROVE RecordInv'
  <2>1. cur'[c] = j /\ status'[c] = "sent" /\ told'[j] > 0
    BY <1>0, <1>7 DEF NotifyOk, Settle
  <2> QED BY <1>5, <2>1
<1>8. ASSUME NEW j \in Ids, NotifyFail(c, j) \/ NotifyFailShown(c, j) \/ DrainSkip(c, j)
      PROVE  RecordInv'
  BY <1>3, <1>8 DEF NotifyFail, NotifyFailShown, DrainSkip
<1>9. ASSUME NEW j \in Ids,
             NotifyBlocked(c, j) \/ NotifyNoTarget(c, j) \/ DeadLetterGone(c, j)
      PROVE  RecordInv'
  BY <1>0, <1>4, <1>9 DEF NotifyBlocked, NotifyNoTarget, DeadLetterGone, RunHook, Settle
<1>10. ASSUME NEW j \in Ids, DeadLetter(c, j) PROVE RecordInv'
  BY <1>0, <1>4, <1>10 DEF DeadLetter, RunHook, Settle, AfterHook
<1>11. ASSUME NEW t \in Tokens, Release(c, t) PROVE RecordInv'
  <2>1. status' = status /\ status[c] \in {"blocked", "dead_lettered"}
        /\ pc'[c] = IF left[c] \ {t} = {} THEN AfterHook(status[c]) ELSE "release"
    BY <1>0, <1>11 DEF Release, SettleInv
  <2> QED BY <1>4, <2>1 DEF AfterHook
<1>12. CASE Bury(c)
  <2>1. status' = status /\ status[c] \in {"blocked", "dead_lettered"}
        /\ cur' = cur /\ cur[c] \in dead'
    BY <1>0, <1>12 DEF Bury, SettleInv
  <2> QED BY <1>5, <2>1
<1>13. CASE HandlerFails(c) \/ Record(c) \/ RecordFails(c)
  BY <1>0, <1>4, <1>13 DEF HandlerFails, Record, RecordFails, Return, Settling
<1>14. CASE Ack(c) \/ AckFails(c)
  <2>1. \/ pc'[c] = ret[c]
        \/ UNCHANGED <<cur, status>> /\ pc[c] = "ack"
    BY <1>0, <1>14 DEF Ack, AckFails, AfterAck, Return
  <2>2. CASE pc'[c] = ret[c]
    BY <1>0, <1>4, <2>2 DEF Settling
  <2>3. CASE UNCHANGED <<cur, status>> /\ pc[c] = "ack"
    BY <1>0, <1>1, <1>5, <2>3 DEF RecordInv
  <2> QED BY <2>1, <2>2, <2>3
<1>15. CASE Abandon(c) \/ StartDrain(c) \/ EndDrain(c) \/ Restart(c)
            \/ Shutdown(c) \/ Crash(c)
  BY <1>0, <1>3, <1>4, <1>15
     DEF Abandon, StartDrain, EndDrain, Restart, Shutdown, Crash, Halt
<1> QED
  BY <1>6, <1>7, <1>8, <1>9, <1>10, <1>11, <1>12, <1>13, <1>14, <1>15
     DEF Worker, WorkerStep

\* Time, producers and other listings do not touch a row.
LEMMA RowStays ==
    ASSUME Shape, Shape', NEW i \in Ids, i <= lastId, lastId' >= lastId,
           log'[i] = log[i], repeatable \subseteq repeatable',
           Worked(i)' => Worked(i),
           told'[i] = told[i] \/ \E c \in Consumers : i \in work[c],
           Sound(i) => Buried(i)
    PROVE  i <= lastId' /\ (Sound(i)' => Buried(i)')
<1>1. i <= lastId'
  BY StreamConstants DEF Ids, Shape, TypeOK, StreamType
<1>2. Sound(i)' => Sound(i)
  BY DEF Sound, AlertKeysOf
<1> QED BY <1>1, <1>2 DEF Buried, Worked

\* Whatever a worker does, a true row stays true.
LEMMA WorkerKeepsRow ==
    ASSUME Shape, NEW c \in Consumers, Worker(c), NEW s, NEW i, TrueRow(s, i)
    PROVE  TrueRow(s, i)'
<1>0. /\ Shape' /\ Forward /\ log' = log /\ repeatable \subseteq repeatable'
      /\ dead \subseteq dead'
  BY WorkerKeepsShape, WorkerFrame, DeadGrows, NextForward DEF Next
<1>1. CASE s = "sent"
  <2>1. i \in Ids /\ i <= lastId /\ told[i] > 0
    BY <1>1 DEF TrueRow
  <2>2. told'[i] >= told[i] /\ told[i] \in Nat /\ told'[i] \in Nat
    BY <1>0, <2>1, WorkerTells DEF Shape, TypeOK, WorkerType
  <2>3. i <= lastId'
    BY <1>0, <2>1, StreamConstants DEF Forward, Ids, Shape, TypeOK, StreamType
  <2> QED BY <1>1, <2>1, <2>2, <2>3 DEF TrueRow
<1>2. CASE s = "dead_lettered"
  <2>1. i \in Ids /\ i <= lastId /\ i \in dead /\ (Sound(i) => Buried(i))
    BY <1>2 DEF TrueRow
  <2>2. Worked(i)' => Worked(i)
    BY <2>1, ReadEntry, WorkedBefore
  <2>3. told'[i] = told[i] \/ \E d \in Consumers : i \in work[d]
    BY <2>1, ToldOnlyRead
  <2>4. i <= lastId' /\ (Sound(i)' => Buried(i)')
    BY <1>0, <2>1, <2>2, <2>3, RowStays DEF Forward
  <2> QED BY <1>0, <1>2, <2>1, <2>4 DEF TrueRow
<1> QED BY <1>1, <1>2 DEF TrueRow

\* A worker writes a row only about the message it settled.
LEMMA WorkerKeepsLedger ==
    ASSUME Shape, ListInv, SoleInv, RecordInv, LedgerInv,
           NEW c \in Consumers, Worker(c)
    PROVE  LedgerInv'
<1> SUFFICES ASSUME NEW row \in Rows
             PROVE  TrueRow(ledger[row].status, ledger[row].batch)'
  BY DEF LedgerInv
<1>1. CASE ledger'[row] = ledger[row]
  <2>1. PICK s, i : s = ledger[row].status /\ i = ledger[row].batch
    OBVIOUS
  <2>2. TrueRow(s, i)'
    BY <2>1, WorkerKeepsRow DEF LedgerInv
  <2>3. s = ledger'[row].status /\ i = ledger'[row].batch
    BY <1>1, <2>1
  <2> QED BY <2>2, <2>3 DEF TrueRow
<1>2. CASE ledger'[row] # ledger[row]
  <2>1. Record(c)
    BY <1>2
       DEF Worker, WorkerStep, Read, ReadLost, FinishBatch, ScanOwn, ScanOrphans,
           Sort, Claim, ClaimFails, Notify, NotifyOk, NotifyFail, NotifyFailShown,
           NotifyBlocked, NotifyNoTarget, DeadLetter, DeadLetterGone, DrainSkip,
           Release, HandlerFails, Bury, Ack, AckFails, RecordFails, Abandon,
           StartDrain, EndDrain, Restart, Shutdown, Crash, workerVars, recordVars
  <2>2. PICK s, i : s = LedgerStatus(status[c]) /\ i = cur[c]
    OBVIOUS
  <2>3. /\ pc[c] = "record" /\ i \in Ids /\ i <= lastId /\ status[c] # "gone"
        /\ UNCHANGED <<told, work, dead, repeatable, streamVars>>
    BY <2>1, <2>2, WorkerEntry
       DEF Record, Settling, historyVars, listVars, dedupVars, Shape, WorkerShape
  <2>4. s = ledger'[row].status /\ i = ledger'[row].batch
    BY <1>2, <2>1, <2>2 DEF Record
  <2>5. /\ s = "sent" => status[c] = "sent"
        /\ s = "dead_lettered" => status[c] = "dead_lettered"
    BY <2>2 DEF LedgerStatus
  <2>6. ASSUME status[c] = "dead_lettered", Sound(i)' PROVE Buried(i)'
    <3>1. Sole(i) /\ Doing(c, i)
      BY <2>2, <2>3, <2>6 DEF SoleInv, Sound, AlertKeysOf, streamVars, Doing, Settling
    <3>2. ~Pending(i) /\ ~(told[i] > 0) /\ \A d \in Consumers : i \notin work[d]
      BY <2>2, <2>3, <2>6, <3>1 DEF Sole, Acts, ListInv, Settling
    <3>3. ~Worked(i)
      BY <2>3, <3>2, StreamConstants
         DEF Worked, Live, Unread, Ids, Shape, TypeOK, StreamType
    <3>4. told[i] \in Nat
      BY <2>3 DEF Shape, TypeOK, WorkerType
    <3> QED BY <2>3, <3>2, <3>3, <3>4
         DEF Buried, Worked, Live, Unread, Stored, Published, Pending, streamVars
  <2>7. /\ status[c] = "sent" => told[i] > 0
        /\ status[c] = "dead_lettered" => i \in dead
    BY <2>2, <2>3 DEF RecordInv
  <2>8. TrueRow(s, i)'
    BY <2>3, <2>5, <2>6, <2>7 DEF TrueRow, streamVars
  <2> QED BY <2>4, <2>8 DEF TrueRow
<1> QED BY <1>1, <1>2

\* The producers and time write no row and touch no read message.
LEMMA ProducerKeepsLedger ==
    ASSUME Shape, Shape', RecordInv, LedgerInv,
           (\E p \in Requests : Request(p)) \/ Server \/ Tick
    PROVE  RecordInv' /\ LedgerInv'
<1>1. /\ UNCHANGED workerVars /\ lastId' = lastId
      /\ repeatable \subseteq repeatable'
      /\ \A i \in Published : i \in Published' /\ log'[i] = log[i]
  BY ProducerFrame
<1>2. RecordInv'
  BY <1>1 DEF RecordInv, workerVars, settleVars, historyVars, recordVars
<1>3. ASSUME NEW s, NEW i, TrueRow(s, i) PROVE TrueRow(s, i)'
  <2>1. UNCHANGED <<told, dead, work>>
    BY <1>1 DEF workerVars, listVars, historyVars, recordVars
  <2>2. CASE s = "dead_lettered"
    <3>1. i \in Ids /\ i <= lastId /\ i \in dead /\ (Sound(i) => Buried(i))
      BY <1>3, <2>2 DEF TrueRow
    <3>2. i \in Published /\ log'[i] = log[i] /\ lastId' >= lastId
      BY <1>1, <3>1, ReadEntry DEF Shape, TypeOK, StreamType
    <3>3. Worked(i)' => Worked(i)
      BY <3>2, ProducerWorks
    <3>4. i <= lastId' /\ (Sound(i)' => Buried(i)')
      BY <1>1, <2>1, <3>1, <3>2, <3>3, RowStays
    <3> QED BY <2>1, <2>2, <3>1, <3>4 DEF TrueRow
  <2>3. CASE s # "dead_lettered"
    BY <1>1, <1>3, <2>1, <2>3 DEF TrueRow
  <2> QED BY <2>2, <2>3
<1>4. ASSUME NEW row \in Rows
      PROVE  TrueRow(ledger[row].status, ledger[row].batch)'
  <2>1. PICK s, i : s = ledger[row].status /\ i = ledger[row].batch
    OBVIOUS
  <2>2. TrueRow(s, i)'
    BY <1>3, <2>1 DEF LedgerInv
  <2>3. s = ledger'[row].status /\ i = ledger'[row].batch
    BY <1>1, <2>1 DEF workerVars, recordVars
  <2> QED BY <2>2, <2>3 DEF TrueRow
<1> QED BY <1>2, <1>4 DEF LedgerInv

\* Every step keeps the ledger true.
LEMMA NextLedger ==
    Shape /\ Shape' /\ ListInv /\ SoleInv /\ SettleInv /\ RecordInv /\ LedgerInv
    /\ [Next]_vars => RecordInv' /\ LedgerInv'
<1> SUFFICES ASSUME Shape, Shape', ListInv, SoleInv, SettleInv, RecordInv,
                    LedgerInv, [Next]_vars
             PROVE  RecordInv' /\ LedgerInv'
  OBVIOUS
<1>1. CASE UNCHANGED vars
  BY <1>1 DEF RecordInv, LedgerInv, TrueRow, Sound, Buried, Worked, Live, Unread,
     Stored, Published, Pending, AlertKeysOf, vars, streamVars, dedupVars,
     workerVars, settleVars, listVars, historyVars, recordVars
<1>2. ASSUME NEW c \in Consumers, Worker(c) PROVE RecordInv' /\ LedgerInv'
  BY <1>2, WorkerKeepsRecord, WorkerKeepsLedger
<1> QED BY <1>1, <1>2, ProducerKeepsLedger DEF Next

\* The ledger starts empty.
LEMMA InitLedger == Init => RecordInv /\ LedgerInv
<1> SUFFICES ASSUME Init PROVE RecordInv /\ LedgerInv
  OBVIOUS
<1>1. \A row \in Rows : ledger[row].status = "none"
  BY DEF Init, WorkerInit
<1>2. \A c \in Consumers : pc[c] = "loop"
  BY DEF Init, WorkerInit
<1> QED BY <1>1, <1>2 DEF RecordInv, LedgerInv, TrueRow

\* A ledger row says "sent" only for an alert that was shown, and
\* "dead_lettered" only for one that is in the dead-letter stream and that was
\* not shown, nor ever will be, unless every listing of it is repeatable.
THEOREM LedgerIsTruthful == Spec => []LedgerTruthful
<1>1. Shape /\ LedgerInv => LedgerTruthful
  BY DEF LedgerInv, TrueRow, Sound, Buried, LedgerTruthful
<1> QED
  BY <1>1, SpecShape, SpecSole, InitUnique, NextSettles, InitLedger, NextLedger,
     PTL DEF Spec

-----------------------------------------------------------------------------
(* How often a message is handed to the notifier *)

\* Workers that have message i in memory, and workers told to stop that have
\* not started to drain yet: each of them may still hand i to the notifier,
\* the latter without a delivery being counted.
Havers(i) == {c \in Consumers : i \in work[c]}
Stopping == {c \in Consumers : ctx[c] = "cancelled"}

\* AttemptBound alone is not inductive: a message in memory is an attempt that
\* is already counted, a cancelled worker one that already has its shutdown.
AttemptInv ==
    /\ Cardinality(Stopping) <= stops
    /\ \A i \in Ids :
          /\ i > lastId => attempts[i] = 0 /\ count[i] = 0
          /\ attempts[i] + Cardinality(Havers(i)) + Cardinality(Stopping)
                <= count[i] + stops

One(x, S) == IF x \in S THEN 1 ELSE 0

\* What a step of c adds to the attempts made and to come, it adds to the
\* deliveries counted and the shutdowns.
Balanced(c, i) ==
    attempts'[i] + One(i, work'[c]) + One(ctx'[c], {"cancelled"})
       + count[i] + stops
    <= attempts[i] + One(i, work[c]) + One(ctx[c], {"cancelled"})
       + count'[i] + stops'

\* The size of a set of which only the membership of c may have changed.
LEMMA OneMember ==
    ASSUME NEW S, NEW T, NEW c, IsFiniteSet(S), S \ {c} = T \ {c}
    PROVE  /\ Cardinality(S) \in Nat /\ Cardinality(T) \in Nat
           /\ Cardinality(T) = Cardinality(S) + One(c, T) - One(c, S)
<1> DEFINE R == S \ {c}
<1>1. /\ IsFiniteSet(R) /\ c \notin R
      /\ Cardinality(R) = IF c \in S THEN Cardinality(S) - 1 ELSE Cardinality(S)
  BY FS_RemoveElement
<1>2. T = IF c \in T THEN R \cup {c} ELSE R
  OBVIOUS
<1>3. /\ IsFiniteSet(R \cup {c}) /\ Cardinality(R \cup {c}) = Cardinality(R) + 1
  BY <1>1, FS_AddElement
<1>4. Cardinality(S) \in Nat /\ Cardinality(R) \in Nat
  BY <1>1, FS_CardinalityType
<1> HIDE DEF R
<1>5. Cardinality(T) = Cardinality(R) + One(c, T)
  <2>1. CASE c \in T
    BY <1>2, <1>3, <2>1 DEF One
  <2>2. CASE c \notin T
    <3>1. T = R /\ One(c, T) = 0
      BY <1>2, <2>2 DEF One
    <3> QED BY <1>4, <3>1
  <2> QED BY <2>1, <2>2
<1>6. Cardinality(R) = Cardinality(S) - One(c, S)
  BY <1>1, <1>4 DEF One
<1>7. One(c, S) \in Nat /\ One(c, T) \in Nat
  BY DEF One
<1>8. Cardinality(T) \in Nat
  BY <1>4, <1>5, <1>7
<1> QED BY <1>4, <1>5, <1>6, <1>7, <1>8

\* A balanced step keeps AttemptInv.
LEMMA AttemptStep ==
    ASSUME Shape, Shape', AttemptInv, NEW c \in Consumers, Worker(c),
           One(ctx'[c], {"cancelled"}) + stops <= One(ctx[c], {"cancelled"}) + stops',
           \A i \in Ids : Balanced(c, i),
           \A i \in Ids : i > lastId' => attempts'[i] = 0 /\ count'[i] = 0
    PROVE  AttemptInv'
<1>1. Stopping \subseteq Consumers /\ Stopping \ {c} = Stopping' \ {c}
  BY WorkerFrame DEF Stopping
<1>2. c \in Stopping <=> ctx[c] = "cancelled"
  BY DEF Stopping
<1>3. c \in Stopping' <=> ctx'[c] = "cancelled"
  BY DEF Stopping
<1>4. /\ Cardinality(Stopping) \in Nat /\ Cardinality(Stopping') \in Nat
      /\ Cardinality(Stopping') = Cardinality(Stopping)
            + One(ctx'[c], {"cancelled"}) - One(ctx[c], {"cancelled"})
  <2>1. IsFiniteSet(Stopping)
    BY <1>1, StreamConstants, FS_Subset
  <2>2. Cardinality(Stopping') = Cardinality(Stopping)
            + One(c, Stopping') - One(c, Stopping)
        /\ Cardinality(Stopping) \in Nat /\ Cardinality(Stopping') \in Nat
    BY <1>1, <2>1, OneMember
  <2> QED BY <1>2, <1>3, <2>2 DEF One
<1>5. stops \in Nat /\ stops' \in Nat
  BY DEF Shape, TypeOK, WorkerType
<1>6. Cardinality(Stopping') <= stops'
  <2>1. Cardinality(Stopping) <= stops
    BY DEF AttemptInv
  <2>2. One(ctx[c], {"cancelled"}) \in Nat /\ One(ctx'[c], {"cancelled"}) \in Nat
    BY DEF One
  <2> QED BY <1>4, <1>5, <2>1, <2>2
<1>7. ASSUME NEW i \in Ids
      PROVE  attempts'[i] + Cardinality(Havers(i)') + Cardinality(Stopping')
                <= count'[i] + stops'
  <2>1. Havers(i) \subseteq Consumers /\ Havers(i) \ {c} = Havers(i)' \ {c}
    BY WorkerFrame DEF Havers
  <2>2. (c \in Havers(i) <=> i \in work[c]) /\ (c \in Havers(i)' <=> i \in work'[c])
    BY DEF Havers
  <2>3. IsFiniteSet(Havers(i))
    BY <2>1, StreamConstants, FS_Subset
  <2>4. /\ Cardinality(Havers(i)) \in Nat /\ Cardinality(Havers(i)') \in Nat
        /\ Cardinality(Havers(i)') = Cardinality(Havers(i))
              + One(c, Havers(i)') - One(c, Havers(i))
    BY <2>1, <2>3, OneMember
  <2>5. Cardinality(Havers(i)') = Cardinality(Havers(i))
              + One(i, work'[c]) - One(i, work[c])
    BY <2>2, <2>4 DEF One
  <2>6. /\ attempts[i] \in Nat /\ attempts'[i] \in Nat
        /\ count[i] \in Nat /\ count'[i] \in Nat
    BY DEF Shape, TypeOK, StreamType, WorkerType
  <2>7. attempts[i] + Cardinality(Havers(i)) + Cardinality(Stopping)
           <= count[i] + stops
    BY DEF AttemptInv
  <2> QED BY <1>4, <1>5, <2>4, <2>5, <2>6, <2>7 DEF Balanced, One
<1> QED BY <1>6, <1>7 DEF AttemptInv

\* Only a SIGTERM cancels a worker's context.
LEMMA WorkerStops ==
    ASSUME Shape, Shape', NEW c \in Consumers, Worker(c)
    PROVE  One(ctx'[c], {"cancelled"}) + stops <= One(ctx[c], {"cancelled"}) + stops'
<1> USE DEF workerVars
<1>0. /\ stops \in Nat /\ stops' \in Nat
      /\ ctx \in [Consumers -> {"live", "cancelled", "drain"}]
  BY DEF Shape, TypeOK, WorkerType
<1>1. CASE Shutdown(c)
  <2>1. ctx[c] = "live" /\ ctx'[c] = "cancelled" /\ stops' = stops + 1
    BY <1>0, <1>1 DEF Shutdown
  <2> QED BY <1>0, <2>1 DEF One
<1>2. CASE StartDrain(c) \/ EndDrain(c) \/ Crash(c)
  <2>1. ctx'[c] # "cancelled" /\ stops' = stops
    BY <1>0, <1>2 DEF StartDrain, EndDrain, Crash, Halt
  <2> QED BY <1>0, <2>1 DEF One
<1>3. CASE UNCHANGED <<ctx, stops>>
  BY <1>0, <1>3 DEF One
<1> QED
  BY <1>1, <1>2, <1>3
     DEF Worker, WorkerStep, Read, ReadLost, FinishBatch, ScanOwn, ScanOrphans,
         Sort, Claim, ClaimFails, Notify, NotifyOk, NotifyFail, NotifyFailShown,
         NotifyBlocked, NotifyNoTarget, DeadLetter, DeadLetterGone, DrainSkip,
         Release, HandlerFails, Bury, Ack, AckFails, Record, RecordFails, Abandon,
         Restart

\* The steps of a worker are balanced.
LEMMA WorkerBalanced ==
    ASSUME Shape, Shape', ListInv, AttemptInv, NEW c \in Consumers, Worker(c),
           NEW i \in Ids
    PROVE  /\ Balanced(c, i)
           /\ attempts'[i] # attempts[i] => i <= lastId
           /\ count'[i] # count[i] => i <= lastId'
<1> DEFINE Good == /\ Balanced(c, i)
                   /\ attempts'[i] # attempts[i] => i <= lastId
                   /\ count'[i] # count[i] => i <= lastId'
<1> USE DEF listVars, historyVars, workerVars, streamVars
<1>0. /\ attempts \in [Ids -> Nat] /\ count[i] \in Nat /\ count'[i] \in Nat
      /\ stops \in Nat /\ stops' \in Nat /\ work \in [Consumers -> SUBSET Ids]
      /\ ctx \in [Consumers -> {"live", "cancelled", "drain"}]
  BY DEF Shape, TypeOK, StreamType, WorkerType
<1>n. lastId' >= lastId /\ lastId \in Nat /\ lastId' \in Nat /\ i \in Nat
  BY NextForward, StreamConstants DEF Next, Forward, Shape, TypeOK, StreamType, Ids
<1>1. CASE Read(c) \/ ReadLost(c)
  <2>1. PICK batch \in SUBSET Ids :
            /\ XReadGroup(c, batch)
            /\ work' = [work EXCEPT ![c] = batch] \/ work' = work
    BY <1>1 DEF Read, ReadLost
  <2>2. UNCHANGED <<attempts, ctx, stops>>
    BY <1>1 DEF Read, ReadLost
  <2>3. CASE i \in batch
    <3>1. /\ i > lastId /\ i \notin work[c] /\ i <= lastId'
          /\ count'[i] = 1 /\ count[i] = 0
      BY <2>1, <2>3, BatchIsNew, XReadGroupShape
         DEF XReadGroup, AttemptInv, Shape, TypeOK
    <3> QED BY <1>0, <2>1, <2>2, <3>1 DEF Balanced, One
  <2>4. CASE i \notin batch
    <3>1. count'[i] = count[i] /\ (i \in work'[c] => i \in work[c])
      BY <1>0, <2>1, <2>4 DEF XReadGroup
    <3> QED BY <1>0, <2>2, <3>1 DEF Balanced, One
  <2> QED BY <2>3, <2>4
<1>2. CASE Claim(c) \/ ClaimFails(c)
  <2>1. UNCHANGED <<attempts, ctx, stops>> /\ pc[c] \in {"own", "orphan"}
    BY <1>2 DEF Claim, ClaimFails
  <2>2. CASE count' = count /\ work' = work
    BY <1>0, <2>1, <2>2 DEF Balanced, One
  <2>3. CASE /\ XClaim(c, retry[c], MinIdle(pc[c]))
             /\ i \in work'[c] => i \in Claimed(retry[c], MinIdle(pc[c]))
                                  \/ i \in work[c]
    <3>1. PICK got : got = Claimed(retry[c], MinIdle(pc[c]))
      OBVIOUS
    <3>2. /\ got \subseteq retry[c]
          /\ count'[i] = IF i \in got THEN count[i] + 1 ELSE count[i]
      BY <2>3, <3>1, XClaimShape DEF Shape, TypeOK
    <3>3. i \in got => i <= lastId'
      BY <1>n, <3>2, WorkerEntry
    <3>4. i \notin work[c]
      BY <2>1 DEF ListInv, Where, Settling
    <3>5. i \in work'[c] => i \in got
      BY <2>3, <3>1, <3>4
    <3> QED BY <1>0, <2>1, <3>2, <3>3, <3>4, <3>5 DEF Balanced, One
  <2> QED BY <1>0, <1>2, <2>2, <2>3 DEF Claim, ClaimFails
<1>3. ASSUME NEW j \in Ids, Notify(c, j) PROVE Good
  <2>1. /\ j \in work[c] /\ UNCHANGED <<ctx, stops, count>> /\ j <= lastId
        /\ work' = [work EXCEPT ![c] = @ \ {j}]
        /\ attempts' = [attempts EXCEPT ![j] = @ + 1]
    BY <1>3, WorkerEntry DEF Notify
  <2> QED BY <1>0, <2>1 DEF Balanced, One
<1>4. CASE Shutdown(c)
  <2>1. /\ UNCHANGED <<attempts, work, count>> /\ ctx[c] = "live"
        /\ ctx'[c] = "cancelled" /\ stops' = stops + 1
    BY <1>0, <1>4 DEF Shutdown
  <2> QED BY <1>0, <2>1 DEF Balanced, One
<1>5. CASE StartDrain(c)
  <2>1. /\ UNCHANGED <<attempts, count, stops>> /\ ctx[c] = "cancelled"
        /\ ctx'[c] # "cancelled"
    BY <1>0, <1>5 DEF StartDrain
  <2> QED BY <1>0, <2>1 DEF Balanced, One
<1>6. CASE EndDrain(c) \/ Crash(c) \/ Abandon(c) \/ \E j \in Ids : DrainSkip(c, j)
  <2>1. /\ UNCHANGED <<attempts, count, stops>>
        /\ ctx'[c] = "cancelled" => ctx[c] = "cancelled"
        /\ i \in work'[c] => i \in work[c]
    BY <1>0, <1>6 DEF EndDrain, Crash, Abandon, DrainSkip, Halt
  <2> QED BY <1>0, <2>1 DEF Balanced, One
<1>7. CASE UNCHANGED <<attempts, work, ctx, count, stops>>
  BY <1>0, <1>7 DEF Balanced, One
<1>8. ASSUME \/ FinishBatch(c) \/ ScanOwn(c) \/ ScanOrphans(c) \/ Restart(c)
             \/ \E j \in Ids : DeadLetter(c, j) \/ DeadLetterGone(c, j)
             \/ \E t \in Tokens : Release(c, t)
             \/ HandlerFails(c) \/ Bury(c) \/ Ack(c) \/ AckFails(c)
             \/ Record(c) \/ RecordFails(c)
      PROVE  UNCHANGED <<attempts, work, ctx, count, stops>>
  BY <1>8 DEF FinishBatch, ScanOwn, ScanOrphans, Sort, DeadLetter, DeadLetterGone,
              Release, HandlerFails, Bury, Ack, XAck, AckFails, Record,
              RecordFails, Restart
<1>9. \/ Read(c) \/ ReadLost(c) \/ Claim(c) \/ ClaimFails(c)
      \/ \E j \in Ids : Notify(c, j)
      \/ Shutdown(c) \/ StartDrain(c) \/ EndDrain(c) \/ Crash(c) \/ Abandon(c)
      \/ \E j \in Ids : DrainSkip(c, j)
      \/ UNCHANGED <<attempts, work, ctx, count, stops>>
  BY <1>8 DEF Worker, WorkerStep, NotifyOk, NotifyFail, NotifyFailShown,
              NotifyBlocked, NotifyNoTarget
<1> QED BY <1>1, <1>2, <1>3, <1>4, <1>5, <1>6, <1>7, <1>9

\* Every step keeps AttemptInv.
LEMMA NextAttempts ==
    Shape /\ Shape' /\ ListInv /\ AttemptInv /\ [Next]_vars => AttemptInv'
<1> SUFFICES ASSUME Shape, Shape', ListInv, AttemptInv, [Next]_vars
             PROVE  AttemptInv'
  OBVIOUS
<1>1. ASSUME UNCHANGED workerVars, UNCHANGED <<lastId, count>> PROVE AttemptInv'
  BY <1>1 DEF AttemptInv, Havers, Stopping, workerVars, listVars, historyVars
<1>2. CASE UNCHANGED vars
  BY <1>1, <1>2 DEF vars, streamVars
<1>3. ASSUME NEW c \in Consumers, Worker(c) PROVE AttemptInv'
  <2>1. \A i \in Ids : i \in Nat
    BY StreamConstants DEF Ids
  <2>2. lastId' >= lastId /\ lastId \in Nat /\ lastId' \in Nat
    BY <1>3, NextForward DEF Next, Forward, Shape, TypeOK, StreamType
  <2>3. ASSUME NEW i \in Ids, i > lastId' PROVE attempts'[i] = 0 /\ count'[i] = 0
    BY <1>3, <2>1, <2>2, <2>3, WorkerBalanced DEF AttemptInv
  <2>4. \A i \in Ids : Balanced(c, i)
    BY <1>3, WorkerBalanced
  <2> QED BY <1>3, <2>3, <2>4, WorkerStops, AttemptStep
<1> QED BY <1>1, <1>2, <1>3, ProducerFrame DEF Next

\* Nothing is attempted at the start.
LEMMA InitAttempts == Init => AttemptInv
<1> SUFFICES ASSUME Init PROVE AttemptInv
  OBVIOUS
<1>1. Stopping = {} /\ \A i \in Ids : Havers(i) = {}
  BY DEF Init, WorkerInit, Stopping, Havers
<1>2. Cardinality(Stopping) = 0 /\ \A i \in Ids : Cardinality(Havers(i)) = 0
  BY <1>1, FS_EmptySet
<1>3. stops = 0 /\ \A i \in Ids : attempts[i] = 0 /\ count[i] = 0
  BY DEF Init, StreamInit, WorkerInit
<1> QED BY <1>2, <1>3 DEF AttemptInv

\* A message is handed to the notifier at most once per delivery Redis counted
\* and once per shutdown (Drain does not count), however reads, claims, lost
\* replies, drains, crashes and restarts interleave.
THEOREM AttemptsBounded == Spec => []AttemptBound
<1>1. Shape /\ AttemptInv => AttemptBound
  <2> SUFFICES ASSUME Shape, AttemptInv, NEW i \in Ids
               PROVE  attempts[i] <= count[i] + stops
    BY DEF AttemptBound
  <2>1. Havers(i) \subseteq Consumers /\ Stopping \subseteq Consumers
    BY DEF Havers, Stopping
  <2>2. Cardinality(Havers(i)) \in Nat /\ Cardinality(Stopping) \in Nat
    BY <2>1, StreamConstants, FS_Subset, FS_CardinalityType
  <2>3. attempts[i] \in Nat /\ count[i] \in Nat /\ stops \in Nat
    BY DEF Shape, TypeOK, StreamType, WorkerType
  <2> QED BY <2>2, <2>3 DEF AttemptInv
<1> QED BY <1>1, SpecShape, SpecSole, InitAttempts, NextAttempts, PTL DEF Spec
=============================================================================
