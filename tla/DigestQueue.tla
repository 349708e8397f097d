---------------------------- MODULE DigestQueue ----------------------------
(***************************************************************************)
(* Digest delivery for one user: DigestDelivery appends items to           *)
(* pending_digest while the scheduler's cycle flushes them (PeekDigest,    *)
(* NotifyRaw, AckDigest).  The adding side is the API's ingest handlers,   *)
(* which run while the cycle flushes, and the cycle itself.  What a send   *)
(* may do is all that matters of it here; MessageDelivery has the channels *)
(* it goes through.                                                        *)
(*                                                                         *)
(* Items are numbered in the order of created_at, which PostgreSQL sets    *)
(* when the INSERT starts; the row is visible when it commits.  A time is  *)
(* represented by the number of the last item stamped by then.             *)
(***************************************************************************)
EXTENDS Naturals, FiniteSets

CONSTANTS MaxItems,         \* bound: items ever added
          MaxPending,       \* maxDigestPending (100)
          MaxFaults         \* bound: failed calls, lost replies and crashes

ASSUME DigestConstants ==
    /\ MaxItems \in Nat
    /\ MaxPending \in Nat \ {0}
    /\ MaxFaults \in Nat

Items == 1..MaxItems

VARIABLES stamped,          \* items 1..stamped have a created_at
          writing,          \* INSERTs that have not committed
          pending,          \* committed rows of pending_digest
          mode,             \* users.digest_mode
          sinceFlush,       \* time since digest_last_flushed: 0 recent,
                            \* 1 at least digestRetryInterval, 2 the interval
          failed,           \* digestFailures holds the user (in memory)
          active,           \* some search is active
          pc,               \* the flush: "idle", "peek", "cutoff", "send",
                            \* "record" or "delete"
          payloads,         \* rows PeekDigest returned
          cutoff,           \* its cutoff, and AckDigest's
          rows,             \* delivery rows of the open transaction
          ledger,           \* items with a committed "sent" delivery row
          told,             \* item -> times the user was shown it, up to 2
          added,            \* history: items ever committed
          late, dropped,    \* history: items stamped by a cutoff but not
                            \* visible to its query; items over MaxPending
          skipped,          \* history: items of a send that succeeded without
                            \* reaching anyone
          unsure,           \* history: items sent by a flush that was not
                            \* seen to end
          faults

flushVars == <<pc, payloads, cutoff, rows>>
history == <<added, late, dropped, skipped, unsure>>
vars == <<stamped, writing, pending, mode, sinceFlush, failed, active,
          flushVars, ledger, told, history, faults>>

TypeOK ==
    /\ stamped \in 0..MaxItems
    /\ writing \subseteq 1..stamped
    /\ pending \subseteq 1..stamped
    /\ writing \cap pending = {}
    /\ mode \in {"instant", "digest"}
    /\ sinceFlush \in 0..2
    /\ failed \in BOOLEAN
    /\ active \in BOOLEAN
    /\ pc \in {"idle", "peek", "cutoff", "send", "record", "delete"}
    /\ payloads \subseteq 1..stamped
    /\ cutoff \in 0..stamped
    /\ rows \subseteq 1..stamped
    /\ ledger \subseteq 1..stamped
    /\ told \in [Items -> 0..2]
    /\ added \subseteq 1..stamped
    /\ late \subseteq 1..stamped
    /\ dropped \subseteq 1..stamped
    /\ skipped \subseteq 1..stamped
    /\ unsure \subseteq 1..stamped
    /\ faults \in 0..MaxFaults

Init ==
    /\ stamped = 0
    /\ writing = {}
    /\ pending = {}
    /\ mode = "digest"
    /\ sinceFlush = 2
    /\ failed = FALSE
    /\ active = TRUE
    /\ pc = "idle"
    /\ payloads = {}
    /\ cutoff = 0
    /\ rows = {}
    /\ ledger = {}
    /\ told = [i \in Items |-> 0]
    /\ added = {}
    /\ late = {}
    /\ dropped = {}
    /\ skipped = {}
    /\ unsure = {}
    /\ faults = 0

Fault == faults < MaxFaults /\ faults' = faults + 1

-----------------------------------------------------------------------------
(* DigestDelivery *)

\* AddDigestItem's INSERT starts; the producer saw digest mode some time ago.
AddItem ==
    /\ stamped < MaxItems
    /\ stamped' = stamped + 1
    /\ writing' = writing \cup {stamped + 1}
    /\ UNCHANGED <<pending, mode, sinceFlush, failed, active, flushVars,
                   ledger, told, history, faults>>

Commit(i) ==
    /\ i \in writing
    /\ writing' = writing \ {i}
    /\ pending' = pending \cup {i}
    /\ added' = added \cup {i}
    /\ UNCHANGED <<stamped, mode, sinceFlush, failed, active, flushVars,
                   ledger, told, late, dropped, skipped, unsure, faults>>

\* The INSERT fails: no row, and the producer releases its claims.
Abort(i) ==
    /\ i \in writing
    /\ Fault
    /\ writing' = writing \ {i}
    /\ UNCHANGED <<stamped, pending, mode, sinceFlush, failed, active,
                   flushVars, ledger, told, history>>

-----------------------------------------------------------------------------
(* The flush of a scheduler cycle *)

Idle ==
    /\ pc' = "idle"
    /\ payloads' = {}
    /\ cutoff' = 0
    /\ rows' = {}

\* processDigests decides for the user: at once after a switch to instant
\* mode, else after the interval, or the retry interval after a failure.  A
\* cycle without any active search returns before it gets here.
DueInDigestMode == mode = "digest" /\ sinceFlush >= (IF failed THEN 1 ELSE 2)
Due == mode # "digest" \/ sinceFlush >= (IF failed THEN 1 ELSE 2)
StartFlush ==
    /\ pc = "idle"
    /\ active
    /\ pending # {}
    /\ Due
    /\ pc' = "peek"
    /\ UNCHANGED <<stamped, writing, pending, mode, sinceFlush, failed, active,
                   payloads, cutoff, rows, ledger, told, history, faults>>

\* PeekDigest runs its query ...
Peek ==
    /\ pc = "peek"
    /\ IF pending = {} THEN Idle
       ELSE /\ pc' = "cutoff"
            /\ payloads' = pending
            /\ UNCHANGED <<cutoff, rows>>
    /\ UNCHANGED <<stamped, writing, pending, mode, sinceFlush, failed, active,
                   ledger, told, history, faults>>

\* A failed query ends the flush and is not remembered.
PeekFails ==
    /\ pc \in {"peek", "cutoff"}
    /\ Fault
    /\ Idle
    /\ UNCHANGED <<stamped, writing, pending, mode, sinceFlush, failed, active,
                   ledger, told, history>>

\* ... and then takes the time.
Now == stamped
Cutoff ==
    /\ pc = "cutoff"
    /\ pc' = "send"
    /\ cutoff' = Now
    /\ late' = late \cup ((writing \cup pending) \ payloads)
    /\ UNCHANGED <<stamped, writing, pending, mode, sinceFlush, failed, active,
                   payloads, rows, ledger, told, added, dropped, skipped, unsure,
                   faults>>

\* The newest MaxPending payloads are sent, in one message.
Newest(S) == {i \in S : Cardinality({j \in S : j > i}) < MaxPending}
Show(S) == told' = [i \in Items |-> IF i \in S /\ told[i] < 2 THEN told[i] + 1 ELSE told[i]]

\* NotifyRaw succeeds; S is what the user has been shown.
SendOk(S) ==
    /\ pc = "send"
    /\ S \subseteq Newest(payloads)
    /\ Show(S)
    /\ pc' = "record"
    /\ dropped' = dropped \cup (payloads \ Newest(payloads))
    /\ skipped' = skipped \cup (Newest(payloads) \ S)
    /\ UNCHANGED <<stamped, writing, pending, mode, sinceFlush, failed, active,
                   payloads, cutoff, rows, ledger, added, late, unsure, faults>>

\* NotifyRaw fails, with part of the message shown or none: the items stay.
SendFails(S) ==
    /\ pc = "send"
    /\ S \subseteq Newest(payloads)
    /\ Show(S)
    /\ unsure' = unsure \cup S
    /\ failed' = TRUE
    /\ Idle
    /\ UNCHANGED <<stamped, writing, pending, mode, sinceFlush, active, ledger,
                   added, late, dropped, skipped, faults>>

\* AckDigest, first statement of the transaction: recordDigestDeliveries.
AckedAll == pending
Acked == {i \in pending : i <= cutoff}
Record ==
    /\ pc = "record"
    /\ rows' = Acked
    /\ pc' = "delete"
    /\ UNCHANGED <<stamped, writing, pending, mode, sinceFlush, failed, active,
                   payloads, cutoff, ledger, told, history, faults>>

\* Second statement, with what was committed meanwhile, and commit.
Flushed ==
    /\ pending' = pending \ Acked
    /\ ledger' = ledger \cup rows
    /\ sinceFlush' = 0
AckOk ==
    /\ pc = "delete"
    /\ Flushed
    /\ failed' = FALSE
    /\ Idle
    /\ UNCHANGED <<stamped, writing, mode, active, told, history, faults>>

\* The transaction is rolled back, or commits and the reply is lost.
AckFails ==
    /\ pc \in {"record", "delete"}
    /\ Fault
    /\ \/ UNCHANGED <<pending, ledger, sinceFlush>>
       \/ pc = "delete" /\ Flushed
    /\ unsure' = unsure \cup payloads
    /\ failed' = TRUE
    /\ Idle
    /\ UNCHANGED <<stamped, writing, mode, active, told, added, late, dropped,
                   skipped>>

\* The process is killed, with a message on its way or not.
Crash(S) ==
    /\ pc # "idle" \/ writing # {} \/ failed
    /\ Fault
    /\ S \subseteq IF pc = "send" THEN Newest(payloads) ELSE {}
    /\ Show(S)
    /\ unsure' = IF pc \in {"send", "record", "delete"}
                 THEN unsure \cup payloads ELSE unsure
    /\ writing' = {}
    /\ failed' = FALSE
    /\ Idle
    /\ UNCHANGED <<stamped, pending, mode, sinceFlush, active, ledger, added,
                   late, dropped, skipped>>

-----------------------------------------------------------------------------
(* The user and time *)

SetDigestMode ==
    /\ mode' = IF mode = "digest" THEN "instant" ELSE "digest"
    /\ UNCHANGED <<stamped, writing, pending, sinceFlush, failed, active,
                   flushVars, ledger, told, history, faults>>

\* The last active search is paused, or one is resumed.
PauseOrResume ==
    /\ active' = ~active
    /\ UNCHANGED <<stamped, writing, pending, mode, sinceFlush, failed,
                   flushVars, ledger, told, history, faults>>

Age ==
    /\ sinceFlush < 2
    /\ sinceFlush' = sinceFlush + 1
    /\ UNCHANGED <<stamped, writing, pending, mode, failed, active, flushVars,
                   ledger, told, history, faults>>

FlushStep == Peek \/ Cutoff \/ Record \/ AckOk

Next ==
    \/ AddItem
    \/ \E i \in Items : Commit(i) \/ Abort(i)
    \/ StartFlush \/ FlushStep
    \/ \E S \in SUBSET Items : SendOk(S) \/ SendFails(S) \/ Crash(S)
    \/ PeekFails \/ AckFails
    \/ SetDigestMode \/ PauseOrResume \/ Age

Spec == Init /\ [][Next]_vars

-----------------------------------------------------------------------------
(* Properties *)

\* No item of a digest disappears unseen: a row that AckDigest deleted was
\* sent, was over maxDigestPending, was stamped before the cutoff and not yet
\* visible to PeekDigest's query, or was in a message the channel let pass
\* without a receiver.
NothingLost ==
    \A i \in added \ pending : told[i] > 0 \/ i \in late \cup dropped \cup skipped

\* An item is sent in two digests only if a flush that sent it was not seen
\* to end: the send failed after it was shown, the ack failed, or the process
\* died.
ResendHasCause == \A i \in Items : told[i] > 1 => i \in unsure

-----------------------------------------------------------------------------
(* What comments in the code say *)

\* AckDigest: the items it records and deletes "are confirmed deliveries".
ConfirmedDeliveries == \A i \in ledger : told[i] > 0

=============================================================================
