--------------------------- MODULE MessageProofs ---------------------------
(***************************************************************************)
(* What is sent, and that it is sent.  Of the digest queue, for any number *)
(* of items and any limit: an item that AckDigest deleted was sent, was    *)
(* over the limit, was stamped but not visible when the digest was read,   *)
(* or was let pass by its channel; an item is repeated only after a flush  *)
(* not seen to end.  Both then hold of the queue with the channels, which  *)
(* implements the queue.  Of the whole delivery: a listing is shown as     *)
(* photo and text, or a daily digest shown twice for a day, only for a     *)
(* cause the code accepts; and a message reported as sent is with the      *)
(* user, whole, cut into chunks that leave nothing out and fit Telegram's  *)
(* limit, but for a separator in one known case.                           *)
(*                                                                         *)
(* Of a listing on its way to the user, for every listing and search: the  *)
(* five texts of the match agree, what is alerted satisfies the search and *)
(* is found in its list, and a lower price is never scored worse.          *)
(***************************************************************************)
EXTENDS MessageDelivery, ListingFlow, SequenceTheorems, FiniteSetTheorems,
        WellFoundedInduction, TLAPS

\* The types the argument needs.
QueueType ==
    /\ stamped \in Nat
    /\ writing \subseteq 1..stamped
    /\ pending \subseteq 1..stamped
    /\ payloads \subseteq 1..stamped
    /\ added \subseteq 1..stamped
    /\ told \in [Items -> Nat]
    /\ stamped <= MaxItems
    /\ cutoff \in 0..stamped

\* A committed item is in the queue or accounted for.
Accounted(i) == told[i] > 0 \/ i \in late \cup dropped \cup skipped

\* What the flush will delete is accounted for once the message is sent;
\* between the cutoff and the send, it is either in the message or late.
Covered ==
    /\ pc = "send" =>
          \A i \in pending \cup writing : i <= cutoff => i \in payloads \cup late
    /\ pc \in {"record", "delete"} =>
          \A i \in pending \cup writing : i <= cutoff => Accounted(i)

DigestInv == QueueType /\ Covered /\ NothingLost

\* DigestInv holds at the start.
LEMMA DigestInit == Init => DigestInv
BY DigestConstants
   DEF Init, DigestInv, QueueType, Covered, NothingLost, Items

\* Newest picks from its argument.
LEMMA NewestWithin ==
    ASSUME NEW S PROVE Newest(S) \subseteq S
BY DEF Newest

\* What has a stamp is an item.
LEMMA StampedItems == QueueType => 1..stamped \subseteq Items
BY DigestConstants DEF QueueType, Items

\* Every step keeps the types.
LEMMA QueueTypeStep == QueueType /\ [Next]_vars => QueueType'
<1> SUFFICES ASSUME QueueType, [Next]_vars PROVE QueueType'
  OBVIOUS
<1> USE DigestConstants DEF QueueType
<1>1. CASE AddItem
  <2>1. /\ stamped' = stamped + 1
        /\ stamped' <= MaxItems
        /\ writing' = writing \cup {stamped + 1}
        /\ UNCHANGED <<pending, payloads, cutoff, told, added>>
    BY <1>1 DEF AddItem, flushVars, history
  <2>2. 1..stamped \subseteq 1..stamped' /\ stamped + 1 \in 1..stamped'
    BY <2>1
  <2>3. /\ writing' \subseteq 1..stamped'
        /\ pending' \subseteq 1..stamped'
        /\ payloads' \subseteq 1..stamped'
        /\ added' \subseteq 1..stamped'
    BY <2>1, <2>2
  <2> QED
    BY <2>1, <2>3
<1>2. ASSUME NEW i \in Items, Commit(i) PROVE QueueType'
  <2>1. i \in 1..stamped
    BY <1>2 DEF Commit
  <2>2. /\ writing' \subseteq 1..stamped
        /\ pending' \subseteq 1..stamped
        /\ added' \subseteq 1..stamped
    BY <1>2, <2>1 DEF Commit
  <2> QED
    BY <1>2, <2>2 DEF Commit, flushVars
<1>3. ASSUME NEW i \in Items, Abort(i) PROVE QueueType'
  BY <1>3 DEF Abort, flushVars, history
<1>4. CASE StartFlush
  BY <1>4 DEF StartFlush, history
<1>5. CASE Peek
  <2>1. /\ UNCHANGED <<stamped, writing, pending, told, added>>
        /\ payloads' = {} \/ payloads' = pending
        /\ cutoff' = 0 \/ cutoff' = cutoff
    BY <1>5 DEF Peek, Idle, history
  <2>2. payloads' \subseteq 1..stamped
    BY <2>1
  <2>3. cutoff' \in 0..stamped
    BY <2>1
  <2> QED
    BY <2>1, <2>2, <2>3
<1>6. CASE Cutoff
  BY <1>6 DEF Cutoff, Now
<1>7. ASSUME NEW S \in SUBSET Items, SendOk(S) PROVE QueueType'
  <2>1. told' \in [Items -> Nat]
    BY <1>7 DEF SendOk, Show
  <2> QED
    BY <1>7, <2>1 DEF SendOk
<1>8. CASE Record
  BY <1>8 DEF Record, history
<1>9. CASE AckOk
  <2>1. pending' \subseteq pending
    BY <1>9 DEF AckOk, Flushed
  <2> QED
    BY <1>9, <2>1 DEF AckOk, Idle, history
<1>10. CASE PeekFails
  BY <1>10 DEF PeekFails, Idle, history
<1>11. ASSUME NEW S \in SUBSET Items, SendFails(S) PROVE QueueType'
  <2>1. told' \in [Items -> Nat]
    BY <1>11 DEF SendFails, Show
  <2> QED
    BY <1>11, <2>1 DEF SendFails, Idle
<1>12. CASE AckFails
  <2>1. pending' \subseteq pending
    BY <1>12 DEF AckFails, Flushed
  <2> QED
    BY <1>12, <2>1 DEF AckFails, Idle
<1>13. ASSUME NEW S \in SUBSET Items, Crash(S) PROVE QueueType'
  <2>1. told' \in [Items -> Nat]
    BY <1>13 DEF Crash, Show
  <2> QED
    BY <1>13, <2>1 DEF Crash, Idle
<1>14. CASE SetDigestMode \/ PauseOrResume \/ Age
  BY <1>14 DEF SetDigestMode, PauseOrResume, Age, flushVars, history
<1>15. CASE UNCHANGED vars
  BY <1>15 DEF vars, flushVars, history
<1> QED
  BY <1>1, <1>2, <1>3, <1>4, <1>5, <1>6, <1>7, <1>8, <1>9, <1>10, <1>11,
     <1>12, <1>13, <1>14, <1>15 DEF Next, FlushStep

\* Once accounted for, an item stays accounted for: messages are not unsent.
LEMMA AccountedStays ==
    ASSUME QueueType, [Next]_vars, NEW i \in Items, Accounted(i)
    PROVE  Accounted(i)'
<1>1. told'[i] >= told[i]
  <2>1. told' = told \/ \E S \in SUBSET Items : Show(S)
    BY DEF Next, FlushStep, AddItem, Commit, Abort, StartFlush, Peek, Cutoff,
           SendOk, Record, AckOk, PeekFails, SendFails, AckFails, Crash,
           SetDigestMode, PauseOrResume, Age, vars
  <2> QED
    BY <2>1 DEF Show, QueueType
<1>2. late \subseteq late' /\ dropped \subseteq dropped' /\ skipped \subseteq skipped'
  BY DEF Next, FlushStep, AddItem, Commit, Abort, StartFlush, Peek, Cutoff,
         SendOk, Record, AckOk, PeekFails, SendFails, AckFails, Crash,
         SetDigestMode, PauseOrResume, Age, vars, history
<1>3. told[i] \in Nat /\ told'[i] \in Nat
  BY QueueTypeStep DEF QueueType
<1> QED
  BY <1>1, <1>2, <1>3 DEF Accounted

\* A step that adds nothing to the queue and does not move the flush keeps
\* the flush covered.
LEMMA CoveredStays ==
    ASSUME QueueType, [Next]_vars, Covered,
           pc' = pc, payloads' = payloads, cutoff' = cutoff,
           late \subseteq late',
           pending' \cup writing' \subseteq pending \cup writing
    PROVE  Covered'
<1>1. ASSUME pc' = "send",
             NEW i \in pending' \cup writing', i <= cutoff'
      PROVE  i \in payloads' \cup late'
  BY <1>1 DEF Covered
<1>2. ASSUME pc' \in {"record", "delete"},
             NEW i \in pending' \cup writing', i <= cutoff'
      PROVE  Accounted(i)'
  <2>1. i \in pending \cup writing
    OBVIOUS
  <2>2. Accounted(i)
    BY <1>2, <2>1 DEF Covered
  <2>3. i \in Items
    BY <2>1, StampedItems DEF QueueType
  <2> QED
    BY <2>2, <2>3, AccountedStays
<1> QED
  BY <1>1, <1>2 DEF Covered

\* Every step keeps the flush covered.
LEMMA CoveredStep == QueueType /\ Covered /\ [Next]_vars => Covered'
<1> SUFFICES ASSUME QueueType, Covered, [Next]_vars PROVE Covered'
  OBVIOUS
<1>1. CASE AddItem
  <2>1. /\ UNCHANGED <<pc, payloads, cutoff, pending, told, late, dropped, skipped>>
        /\ writing' = writing \cup {stamped + 1}
    BY <1>1 DEF AddItem, flushVars, history
  <2>2. ASSUME NEW i \in pending' \cup writing', i <= cutoff
        PROVE  i \in pending \cup writing
    BY <2>1, <2>2 DEF QueueType
  <2> QED
    BY <2>1, <2>2 DEF Covered, Accounted
<1>2. ASSUME NEW i \in Items, Commit(i) PROVE Covered'
  BY <1>2, CoveredStays DEF Commit, flushVars
<1>3. ASSUME NEW i \in Items, Abort(i) PROVE Covered'
  BY <1>3, CoveredStays DEF Abort, flushVars, history
<1>4. CASE StartFlush
  BY <1>4 DEF StartFlush, Covered
<1>5. CASE Peek
  BY <1>5 DEF Peek, Idle, Covered
<1>6. CASE Cutoff
  BY <1>6 DEF Cutoff, Covered
<1>7. ASSUME NEW S \in SUBSET Items, SendOk(S) PROVE Covered'
  <2>1. ASSUME NEW i \in pending \cup writing, i <= cutoff
        PROVE  Accounted(i)'
    <3>1. i \in payloads \cup late
      BY <1>7, <2>1 DEF SendOk, Covered
    <3>2. i \in Items
      BY StampedItems DEF QueueType
    <3>3. CASE i \in late
      BY <1>7, <3>3 DEF SendOk, Accounted
    <3>4. CASE i \in payloads /\ i \notin Newest(payloads)
      BY <1>7, <3>4 DEF SendOk, Accounted
    <3>5. CASE i \in S
      <4>1. told'[i] > 0
        BY <1>7, <3>2, <3>5 DEF SendOk, Show, QueueType
      <4> QED
        BY <4>1 DEF Accounted
    <3>6. CASE i \in Newest(payloads) /\ i \notin S
      BY <1>7, <3>6 DEF SendOk, Accounted
    <3> QED
      BY <3>1, <3>3, <3>4, <3>5, <3>6
  <2> QED
    BY <1>7, <2>1 DEF SendOk, Covered
<1>8. CASE Record
  <2>1. ASSUME NEW i \in pending \cup writing, i <= cutoff
        PROVE  Accounted(i)'
    BY <1>8, <2>1 DEF Record, history, Covered, Accounted
  <2> QED
    BY <1>8, <2>1 DEF Record, Covered
<1>9. CASE \/ AckOk \/ PeekFails \/ AckFails
           \/ \E S \in SUBSET Items : SendFails(S) \/ Crash(S)
  <2>1. pc' = "idle"
    BY <1>9 DEF AckOk, PeekFails, SendFails, AckFails, Crash, Idle
  <2> QED
    BY <2>1 DEF Covered
<1>10. CASE SetDigestMode \/ PauseOrResume \/ Age
  BY <1>10, CoveredStays
     DEF SetDigestMode, PauseOrResume, Age, flushVars, history
<1>11. CASE UNCHANGED vars
  BY <1>11, CoveredStays DEF vars, flushVars, history
<1> QED
  BY <1>1, <1>2, <1>3, <1>4, <1>5, <1>6, <1>7, <1>8, <1>9, <1>10, <1>11
     DEF Next, FlushStep

\* Every step keeps NothingLost: only the ack deletes rows, and what it
\* deletes is covered.
LEMMA NothingLostStep == DigestInv /\ [Next]_vars => NothingLost'
<1> SUFFICES ASSUME DigestInv, [Next]_vars,
                    NEW i \in added' \ pending'
             PROVE  Accounted(i)'
  BY DEF NothingLost, Accounted
<1> USE DEF DigestInv
<1>1. i \in Items
  <2>1. QueueType'
    BY QueueTypeStep
  <2>2. (1..stamped)' \subseteq Items
    BY <2>1, DigestConstants DEF QueueType, Items
  <2> QED
    BY <2>1, <2>2 DEF QueueType
<1>2. CASE i \in added \ pending
  <2>1. Accounted(i)
    BY <1>2 DEF NothingLost, Accounted
  <2> QED
    BY <1>1, <2>1, AccountedStays
<1>3. CASE i \in pending
  <2>1. CASE AckOk \/ AckFails
    <3>1. pc = "delete" /\ i <= cutoff
      BY <1>3, <2>1 DEF AckOk, AckFails, Flushed, Acked
    <3>2. Accounted(i)
      BY <1>3, <3>1 DEF Covered
    <3> QED
      BY <1>1, <3>2, AccountedStays
  <2>2. CASE ~(AckOk \/ AckFails)
    <3>1. pending \subseteq pending'
      BY <2>2 DEF Next, FlushStep, AddItem, Commit, Abort, StartFlush, Peek,
             Cutoff, SendOk, Record, PeekFails, SendFails, Crash,
             SetDigestMode, PauseOrResume, Age, vars
    <3> QED
      BY <1>3, <3>1
  <2> QED
    BY <2>1, <2>2
<1>4. CASE i \notin added
  <2>1. added' \subseteq added \cup pending'
    BY DEF Next, FlushStep, AddItem, Commit, Abort, StartFlush, Peek, Cutoff,
           SendOk, Record, AckOk, PeekFails, SendFails, AckFails, Crash,
           SetDigestMode, PauseOrResume, Age, vars, history
  <2> QED
    BY <1>4, <2>1
<1> QED
  BY <1>2, <1>3, <1>4

\* AckDigest never deletes an item of a digest that was not sent, except the
\* ones over maxDigestPending, those stamped but not yet visible when PeekDigest
\* ran its query, and those of a message that had no receiver.
THEOREM NoDigestItemLost == Spec => []NothingLost
<1>1. DigestInv /\ [Next]_vars => DigestInv'
  BY QueueTypeStep, CoveredStep, NothingLostStep DEF DigestInv
<1>2. DigestInv => NothingLost
  BY DEF DigestInv
<1> QED
  BY <1>1, <1>2, DigestInit, PTL DEF Spec

-----------------------------------------------------------------------------

\* A flush works on rows that stay in the queue until it deletes them all; a
\* row in the queue that the user has seen is of this flush, or unsure.
FlushOwns ==
    /\ pc \in {"cutoff", "send", "record", "delete"} => payloads \subseteq pending
    /\ pc \in {"send", "record", "delete"} => \A i \in payloads : i <= cutoff
    /\ pc \in {"idle", "peek", "cutoff", "send", "record", "delete"}
Unseen ==
    /\ writing \cap pending = {}
    /\ \A i \in writing : told[i] = 0
    /\ \A i \in Items : i > stamped => told[i] = 0
SeenIsOwned ==
    \A i \in pending : told[i] > 0 =>
        i \in unsure \/ (pc \in {"record", "delete"} /\ i \in payloads)
RepeatInv == QueueType /\ FlushOwns /\ Unseen /\ SeenIsOwned /\ ResendHasCause

\* RepeatInv holds at the start.
LEMMA RepeatInit == Init => RepeatInv
<1> SUFFICES ASSUME Init PROVE RepeatInv
  OBVIOUS
<1>1. QueueType
  BY DigestInit DEF DigestInv
<1>2. \A i \in Items : told[i] = 0
  BY DEF Init
<1> QED
  BY <1>1, <1>2
     DEF Init, RepeatInv, FlushOwns, Unseen, SeenIsOwned, ResendHasCause

\* Every step keeps the flush's hold on its rows.
LEMMA FlushOwnsStep == QueueType /\ FlushOwns /\ [Next]_vars => FlushOwns'
<1> SUFFICES ASSUME QueueType, FlushOwns, [Next]_vars PROVE FlushOwns'
  OBVIOUS
<1>1. CASE pc' = "idle"
  BY <1>1 DEF FlushOwns
<1>2. CASE AddItem \/ (\E i \in Items : Commit(i) \/ Abort(i))
           \/ SetDigestMode \/ PauseOrResume \/ Age \/ UNCHANGED vars
  <2>1. pc' = pc /\ payloads' = payloads /\ cutoff' = cutoff /\ pending \subseteq pending'
    BY <1>2 DEF AddItem, Commit, Abort, SetDigestMode, PauseOrResume, Age, vars,
                flushVars
  <2> QED
    BY <2>1 DEF FlushOwns
<1>3. CASE StartFlush \/ Peek
  BY <1>3 DEF StartFlush, Peek, Idle, FlushOwns
<1>4. CASE Cutoff
  BY <1>4 DEF Cutoff, Now, FlushOwns, QueueType
<1>5. CASE Record \/ \E S \in SUBSET Items : SendOk(S)
  BY <1>5 DEF Record, SendOk, FlushOwns
<1>6. CASE \/ AckOk \/ PeekFails \/ AckFails
           \/ \E S \in SUBSET Items : SendFails(S) \/ Crash(S)
  BY <1>1, <1>6 DEF AckOk, PeekFails, AckFails, SendFails, Crash, Idle
<1> QED
  BY <1>2, <1>3, <1>4, <1>5, <1>6 DEF Next, FlushStep

\* What is shown in a step is in the queue, and of this flush.
LEMMA ShownIsPending ==
    ASSUME FlushOwns, NEW S \in SUBSET Items, SendOk(S) \/ SendFails(S) \/ Crash(S)
    PROVE  S = {} \/ (pc = "send" /\ S \subseteq payloads /\ S \subseteq pending)
<1>1. CASE pc = "send"
  <2>1. S \subseteq Newest(payloads)
    BY <1>1 DEF SendOk, SendFails, Crash
  <2>2. S \subseteq payloads
    BY <2>1, NewestWithin
  <2> QED
    BY <1>1, <2>2 DEF FlushOwns
<1>2. CASE pc # "send"
  BY <1>2 DEF SendOk, SendFails, Crash
<1> QED
  BY <1>1, <1>2

\* Every step keeps it that nothing is seen before it is committed.
LEMMA UnseenStep == RepeatInv /\ [Next]_vars => Unseen'
<1> SUFFICES ASSUME RepeatInv, [Next]_vars PROVE Unseen'
  OBVIOUS
<1> USE DEF RepeatInv, Unseen
<1>1. CASE AddItem
  <2>1. /\ stamped' = stamped + 1 /\ stamped + 1 \in Items
        /\ writing' = writing \cup {stamped + 1}
        /\ UNCHANGED <<pending, told>>
    BY <1>1, DigestConstants DEF AddItem, Items, QueueType
  <2>2. told[stamped + 1] = 0 /\ stamped + 1 \notin pending
    BY <2>1 DEF QueueType, Items
  <2>3. \A i \in Items : i > stamped' => i > stamped
    BY <2>1, DigestConstants DEF QueueType, Items
  <2> QED
    BY <2>1, <2>2, <2>3
<1>2. ASSUME NEW i \in Items, Commit(i) \/ Abort(i) PROVE Unseen'
  BY <1>2 DEF Commit, Abort
<1>3. ASSUME NEW S \in SUBSET Items, SendOk(S) \/ SendFails(S) \/ Crash(S)
      PROVE  Unseen'
  <2>1. /\ writing' \subseteq writing /\ pending' = pending /\ stamped' = stamped
        /\ Show(S)
    BY <1>3 DEF SendOk, SendFails, Crash
  <2>2. \A i \in Items : i \notin S => told'[i] = told[i]
    BY <2>1 DEF Show
  <2>3. \A i \in S : i \in pending
    BY <1>3, ShownIsPending
  <2>4. \A i \in S : i \notin writing /\ ~(i > stamped)
    BY <2>3, DigestConstants DEF QueueType, Items
  <2>5. \A i \in writing : i \in Items
    BY StampedItems DEF QueueType
  <2> QED
    BY <2>1, <2>2, <2>4, <2>5
<1>4. CASE AckOk \/ AckFails
  <2>1. /\ pending' \subseteq pending
        /\ UNCHANGED <<writing, stamped, told>>
    BY <1>4 DEF AckOk, AckFails, Flushed
  <2> QED
    BY <2>1
<1>5. CASE \/ StartFlush \/ Peek \/ Cutoff \/ Record \/ PeekFails
           \/ SetDigestMode \/ PauseOrResume \/ Age \/ UNCHANGED vars
  <2>1. UNCHANGED <<writing, pending, stamped, told>>
    BY <1>5 DEF StartFlush, Peek, Cutoff, Record, PeekFails, SetDigestMode,
                PauseOrResume, Age, vars
  <2> QED
    BY <2>1
<1> QED
  BY <1>1, <1>2, <1>3, <1>4, <1>5 DEF Next, FlushStep

\* Every step keeps the other two: a row seen again is unsure by then.
LEMMA SeenStep == RepeatInv /\ [Next]_vars => SeenIsOwned' /\ ResendHasCause'
<1> SUFFICES ASSUME RepeatInv, [Next]_vars PROVE SeenIsOwned' /\ ResendHasCause'
  OBVIOUS
<1> USE DEF RepeatInv, SeenIsOwned, ResendHasCause
<1>1. \A i \in pending : i \in Items
  BY StampedItems DEF QueueType
<1>2. \A i \in Items : told[i] \in Nat
  BY DEF QueueType
<1>3. ASSUME NEW i \in Items, Commit(i) PROVE SeenIsOwned' /\ ResendHasCause'
  BY <1>3 DEF Commit, Unseen, flushVars
<1>4. ASSUME NEW S \in SUBSET Items, SendOk(S) PROVE SeenIsOwned' /\ ResendHasCause'
  <2>1. /\ pc = "send" /\ pc' = "record"
        /\ UNCHANGED <<pending, payloads, unsure>> /\ Show(S)
    BY <1>4 DEF SendOk
  <2>2. S \subseteq payloads /\ S \subseteq pending
    BY <1>4, ShownIsPending
  <2>3. \A i \in Items : told'[i] > told[i] => i \in S
    BY <1>2, <2>1 DEF Show
  <2>4. \A i \in Items : told'[i] > 1 => told[i] > 0
    BY <1>2, <2>1 DEF Show
  <2>5. \A i \in Items : told'[i] > 0 => told[i] > 0 \/ i \in S
    BY <1>2, <2>1 DEF Show
  <2>6. \A i \in Items : i \notin S => told'[i] = told[i]
    BY <2>1 DEF Show
  <2>7. SeenIsOwned'
    BY <1>1, <2>1, <2>2, <2>5
  <2>8. ResendHasCause'
    BY <2>1, <2>2, <2>4, <2>6
  <2> QED
    BY <2>7, <2>8
<1>5. ASSUME NEW S \in SUBSET Items, SendFails(S) \/ Crash(S)
      PROVE  SeenIsOwned' /\ ResendHasCause'
  <2>1. /\ pending' = pending /\ Show(S) /\ unsure \subseteq unsure'
    BY <1>5 DEF SendFails, Crash
  <2>2. S = {} \/ (pc = "send" /\ S \subseteq payloads)
    BY <1>5, ShownIsPending
  <2>3. S \subseteq unsure'
    BY <1>5, <2>2 DEF SendFails, Crash
  <2>4. \A i \in Items : i \notin S => told'[i] = told[i]
    BY <2>1 DEF Show
  <2>5. pc \in {"record", "delete"} => payloads \subseteq unsure'
    BY <1>5 DEF SendFails, Crash
  <2>6. SeenIsOwned'
    <3>1. ASSUME NEW i \in pending, told'[i] > 0 PROVE i \in unsure'
      BY <1>1, <2>1, <2>3, <2>4, <2>5, <3>1
    <3> QED
      BY <2>1, <3>1
  <2>7. ResendHasCause'
    BY <2>1, <2>3, <2>4
  <2> QED
    BY <2>6, <2>7
<1>6. CASE AckOk \/ AckFails
  <2>1. told' = told /\ pending' \subseteq pending /\ unsure \subseteq unsure'
    BY <1>6 DEF AckOk, AckFails, Flushed, history
  <2>2. ASSUME NEW i \in pending', told[i] > 0 PROVE i \in unsure'
    <3>1. i \in pending /\ told[i] > 0
      BY <2>1, <2>2
    <3>2. i \in unsure \/ i \in payloads
      BY <3>1
    <3>3. CASE AckFails
      BY <2>1, <3>2, <3>3 DEF AckFails
    <3>4. CASE AckOk
      <4>1. pc = "delete" /\ pending' = pending \ Acked
        BY <3>4 DEF AckOk, Flushed
      <4>2. i \in payloads => i \in Acked
        BY <3>1, <4>1 DEF FlushOwns, Acked
      <4> QED
        BY <2>1, <2>2, <3>2, <4>1, <4>2
    <3> QED
      BY <1>6, <3>3, <3>4
  <2>3. SeenIsOwned'
    BY <2>1, <2>2
  <2>4. ResendHasCause'
    BY <2>1
  <2> QED
    BY <2>3, <2>4
<1>7. CASE PeekFails
  <2>1. /\ UNCHANGED <<pending, told, unsure>>
        /\ pc \notin {"record", "delete"}
    BY <1>7 DEF PeekFails, history
  <2>2. SeenIsOwned'
    BY <2>1
  <2>3. ResendHasCause'
    BY <2>1
  <2> QED
    BY <2>2, <2>3
<1>8. CASE StartFlush \/ Peek \/ Cutoff
  <2>1. /\ UNCHANGED <<pending, told, unsure>>
        /\ pc \notin {"record", "delete"}
    BY <1>8 DEF StartFlush, Peek, Cutoff, history
  <2>2. SeenIsOwned'
    BY <2>1
  <2>3. ResendHasCause'
    BY <2>1
  <2> QED
    BY <2>2, <2>3
<1>9. CASE Record
  BY <1>9 DEF Record, history
<1>10. CASE \/ AddItem \/ (\E i \in Items : Abort(i))
            \/ SetDigestMode \/ PauseOrResume \/ Age \/ UNCHANGED vars
  <2>1. UNCHANGED <<pending, told, unsure, pc, payloads>>
    BY <1>10 DEF AddItem, Abort, SetDigestMode, PauseOrResume, Age, vars,
                 flushVars, history
  <2> QED
    BY <2>1
<1> QED
  BY <1>3, <1>4, <1>5, <1>6, <1>7, <1>8, <1>9, <1>10 DEF Next, FlushStep

\* An item is in two digests only if a flush that sent it was not seen to end,
\* whatever is added, switched or restarted meanwhile.
THEOREM RepeatedItemHasCause == Spec => []ResendHasCause
<1>1. RepeatInv /\ [Next]_vars => RepeatInv'
  BY QueueTypeStep, FlushOwnsStep, UnseenStep, SeenStep DEF RepeatInv
<1>2. RepeatInv => ResendHasCause
  BY DEF RepeatInv
<1> QED
  BY <1>1, <1>2, RepeatInit, PTL DEF Spec

-----------------------------------------------------------------------------

\* A step of the queue with its channels is a step of the queue, or none.
LEMMA DeliveryStep == QueueType /\ [DeliveryNext]_allVars => [Next]_vars
<1> SUFFICES ASSUME QueueType, [DeliveryNext]_allVars PROVE [Next]_vars
  OBVIOUS
<1>1. Newest(payloads) \subseteq Items
  BY NewestWithin, StampedItems DEF QueueType
<1>2. CASE QueueStep
  BY <1>2 DEF QueueStep, Next
<1>3. CASE DigestCrash
  <2>1. PICK c \in CutOff : Crash(IF pc = "send" THEN SeenItems(c) ELSE {})
    BY <1>3 DEF DigestCrash
  <2>2. (IF pc = "send" THEN SeenItems(c) ELSE {}) \in SUBSET Items
    BY <1>1 DEF SeenItems
  <2> QED
    BY <2>1, <2>2 DEF Next
<1>4. CASE DigestSent
  <2>1. SendOk(SeenItems(call)) \/ SendFails(SeenItems(call))
    BY <1>4 DEF DigestSent
  <2>2. SeenItems(call) \in SUBSET Items
    BY <1>1 DEF SeenItems
  <2> QED
    BY <2>1, <2>2 DEF Next
<1>5. CASE UpdateDailyDigestLastSent
  BY <1>5 DEF UpdateDailyDigestLastSent
<1>6. CASE \/ CheckDaily \/ Tick \/ DailyCrash \/ SendDigest \/ SendDaily \/ SendAlert
           \/ SendStep \/ DailyEnded \/ AlertSent
           \/ UserStep /\ UNCHANGED <<vars, job, message, dailyVars>> /\ Bounded
  BY <1>6 DEF CheckDaily, Tick, DailyCrash, SendDigest, SendDaily, SendAlert, SendStep,
              DailyEnded, AlertSent
<1>7. CASE UNCHANGED allVars
  BY <1>7 DEF allVars
<1> QED
  BY <1>2, <1>3, <1>4, <1>5, <1>6, <1>7 DEF DeliveryNext, EndOfCall

\* The queue with its channels implements the queue: whatever chunks, retries,
\* fallbacks and subscriptions do to a message, the queue sees one of the
\* outcomes of SendOk, SendFails and Crash.
THEOREM DeliveryImplementsQueue == DeliverySpec => Spec
<1>1. DeliveryInit => Init /\ QueueType
  BY DigestInit DEF DeliveryInit, DigestInv
<1>2. QueueType /\ [Next]_vars => QueueType'
  BY QueueTypeStep
<1> QED
  BY <1>1, <1>2, DeliveryStep, PTL DEF DeliverySpec, Spec

\* So with the channels, too, no item disappears unseen, and none is repeated
\* without a cause.
THEOREM DeliveryLosesNoItem == DeliverySpec => []NothingLost /\ []ResendHasCause
BY DeliveryImplementsQueue, NoDigestItemLost, RepeatedItemHasCause, PTL

-----------------------------------------------------------------------------
(* Calls *)

\* The fields of a call.
CallShape(c) ==
    /\ DOMAIN c = {"pc", "photo", "fits", "chunks", "next", "attempt", "plain", "left", "err",
                   "result", "photoShown", "shown", "reached"}
    /\ c = [f \in DOMAIN c |-> c[f]]

\* Mishaps only add up.
LEMMA TroublesGrow ==
    ASSUME troubles \in Nat, Trouble \/ troubles' = troubles
    PROVE  troubles' \in Nat /\ troubles' >= troubles /\ (Trouble => troubles' > 0)
BY DEF Trouble

\* What c leaves as d has it.
Same(c, d) == c.result = d.result /\ c.photoShown = d.photoShown /\ c.shown = d.shown
              /\ c.reached = d.reached /\ c.next = d.next

\* What a step of the call makes of it: c before, d after.
Routed(c, d) ==
    /\ c.pc = "resolve" /\ Same(c, d)
    /\ \/ d.pc = "list" /\ channel = "web" /\ vapid
       \/ d.pc = "photo" /\ c.photo
       \/ d.pc = "text" /\ ~c.photo
PhotoTried(c, d) ==
    /\ c.pc = "photo" /\ d.shown = c.shown /\ d.reached = c.reached /\ d.next = c.next
    /\ \/ d.pc = "done" /\ d.result = "ok" /\ d.photoShown
       \/ d.pc = "done" /\ d.result = "blocked" /\ d.photoShown = c.photoShown
       \/ d.pc = "photo" /\ Same(c, d)
       \/ /\ d.pc = "text" /\ d.result = c.result
          /\ d.photoShown \in BOOLEAN /\ (d.photoShown => troubles' > 0)
ChunkTried(c, d) ==
    /\ c.pc = "text" /\ d.photoShown = c.photoShown /\ d.reached = c.reached
    /\ \/ /\ d.shown = c.shown \cup {c.next}
          /\ \/ c.next = Len(c.chunks) /\ d.pc = "done" /\ d.result = "ok" /\ d.next = c.next
             \/ c.next # Len(c.chunks) /\ d.pc = "text" /\ d.result = c.result /\ d.next = c.next + 1
       \/ d.pc = "text" /\ Same(c, d)
       \/ /\ d.pc = "done" /\ d.result \in {"blocked", "error"}
          /\ d.shown \in {c.shown, c.shown \cup {c.next}}
PushedOn(c, d) ==
    /\ c.pc \in {"list", "push"} /\ d.photoShown = c.photoShown /\ d.shown = c.shown
    /\ \/ d.pc = "push" /\ d.result = c.result
       \/ d.pc = "done" /\ d.result \in {"ok", "error", "noDelivery"}
\* Every step of a call makes of it one of these.
LEMMA CallOutcomes ==
    ASSUME CallShape(call), CallStep, troubles \in Nat
    PROVE  /\ CallShape(call') /\ call'.photo = call.photo /\ call'.chunks = call.chunks
           /\ \/ Routed(call, call') \/ PhotoTried(call, call')
              \/ ChunkTried(call, call') \/ PushedOn(call, call')
           /\ channel' = channel /\ vapid' = vapid
           /\ troubles' \in Nat /\ troubles' >= troubles
<1> DEFINE Goal == /\ CallShape(call') /\ call'.photo = call.photo /\ call'.chunks = call.chunks
                   /\ \/ Routed(call, call') \/ PhotoTried(call, call')
                      \/ ChunkTried(call, call') \/ PushedOn(call, call')
<1>1. channel' = channel /\ vapid' = vapid /\ (Trouble \/ troubles' = troubles)
  <2>1. ASSUME NEW answer, NEW mishaps, Answers(answer, mishaps) PROVE Trouble \/ troubles' = troubles
    BY <2>1 DEF Answers
  <2>2. ASSUME NEW e \in Endpoints, Push(e)
        PROVE  channel' = channel /\ vapid' = vapid /\ (Trouble \/ troubles' = troubles)
    BY <2>2 DEF Push, PushSucceeds, PushTooLong, PushGone, PushTroubled
  <2> QED
    BY <2>1, <2>2 DEF CallStep, Resolve, SendPhoto, SendChunk, ListPushSubscriptions
<1>2. ASSUME Resolve PROVE Goal
  <2>1. ASSUME NEW web \in BOOLEAN, call' = Via(web), web => channel = "web" /\ vapid PROVE Goal
    BY <1>2, <2>1 DEF Via, Resolve, CallShape, Routed, Same
  <2>2. PICK web : web = (channel = "web" /\ vapid)
    OBVIOUS
  <2>3. web \in BOOLEAN /\ FALSE \in BOOLEAN /\ (web => channel = "web" /\ vapid)
    BY <2>2
  <2>4. call' = Via(web) \/ call' = Via(FALSE)
    BY <1>2, <2>2 DEF Resolve
  <2> HIDE DEF Goal
  <2> QED
    BY <2>1, <2>3, <2>4
<1>3. ASSUME NEW answer, SendPhoto(answer) PROVE Goal
  <2>1. call.pc = "photo"
    BY <1>3 DEF SendPhoto
  <2>2. CASE call' = [Return("ok") EXCEPT !.photoShown = TRUE]
    BY <2>1, <2>2 DEF Return, CallShape, PhotoTried
  <2>3. CASE call' = Return("blocked")
    BY <2>1, <2>3 DEF Return, CallShape, PhotoTried
  <2>4. CASE call' = [call EXCEPT !.attempt = @ + 1]
    BY <2>1, <2>4 DEF CallShape, PhotoTried, Same
  <2>5. CASE call' = [call EXCEPT !.pc = "text", !.attempt = 0, !.photoShown = answer = "lost"]
    <3>1. answer = "lost" => troubles' > 0
      BY <1>3, TroublesGrow DEF SendPhoto, Answers
    <3> QED
      BY <2>1, <2>5, <3>1 DEF CallShape, PhotoTried
  <2> QED
    BY <1>3, <2>2, <2>3, <2>4, <2>5 DEF SendPhoto
<1>4. ASSUME NEW answer, SendChunk(answer) PROVE Goal
  <2>1. call.pc = "text"
    BY <1>4 DEF SendChunk
  <2>2. CASE call' = Delivered
    BY <2>1, <2>2 DEF Delivered, CallShape, ChunkTried
  <2>3. CASE call' = Return("blocked")
    BY <2>1, <2>3 DEF Return, CallShape, ChunkTried
  <2>4. CASE call' = [call EXCEPT !.plain = TRUE, !.attempt = @ + 1] \/ call' = [call EXCEPT !.attempt = @ + 1]
    BY <2>1, <2>4 DEF CallShape, ChunkTried, Same
  <2>5. ASSUME NEW shown \in {call.shown, call.shown \cup {call.next}},
               call' = [Return("error") EXCEPT !.shown = shown]
        PROVE  Goal
    BY <2>1, <2>5 DEF Return, CallShape, ChunkTried
  <2>6. CASE call' = [Return("error") EXCEPT !.shown = IF answer = "lost" THEN @ \cup {call.next} ELSE @]
    <3>1. Return("error").shown = call.shown
      BY DEF Return, CallShape
    <3>2. call' = [Return("error") EXCEPT !.shown = IF answer = "lost" THEN call.shown \cup {call.next} ELSE call.shown]
      BY <2>6, <3>1
    <3> QED
      BY <2>5, <3>2
  <2> QED
    BY <1>4, <2>2, <2>3, <2>4, <2>6 DEF SendChunk
<1>5. ASSUME ListPushSubscriptions PROVE Goal
  <2>1. call.pc = "list"
    BY <1>5 DEF ListPushSubscriptions
  <2>2. ASSUME NEW result \in {"noDelivery", "error"}, call' = Return(result) PROVE Goal
    BY <2>1, <2>2 DEF Return, CallShape, PushedOn
  <2>3. CASE call' = [call EXCEPT !.pc = "push", !.left = subs]
    <3>1. /\ CallShape(call') /\ call'.pc = "push" /\ call'.photo = call.photo /\ call'.chunks = call.chunks
          /\ call'.result = call.result /\ call'.photoShown = call.photoShown /\ call'.shown = call.shown
      BY <2>3 DEF CallShape
    <3> QED
      BY <2>1, <3>1 DEF PushedOn
  <2>4. \/ call' = Return("noDelivery") \/ call' = Return("error")
        \/ call' = [call EXCEPT !.pc = "push", !.left = subs]
    BY <1>5 DEF ListPushSubscriptions
  <2> HIDE DEF Goal
  <2> QED
    BY <2>2, <2>3, <2>4
<1>6. ASSUME NEW e \in Endpoints, Push(e) PROVE Goal
  <2>1. PICK err \in BOOLEAN, reached \in BOOLEAN : call.pc = "push" /\ call' = Pushed(e, err, reached)
    BY <1>6 DEF Push, PushSucceeds, PushTooLong, PushGone, PushTroubled
  <2> DEFINE c == [call EXCEPT !.left = @ \ {e}, !.err = @ \/ err,
                               !.reached = @ \cup (IF reached THEN {e} ELSE {})]
  <2>2. /\ CallShape(c) /\ c.pc = "push" /\ c.result = call.result /\ c.photoShown = call.photoShown
        /\ c.shown = call.shown /\ c.photo = call.photo /\ c.chunks = call.chunks
    BY <2>1 DEF CallShape
  <2>3. call' = c \/ \E result \in {"ok", "error"} : call' = [c EXCEPT !.pc = "done", !.result = result]
    BY <2>1 DEF Pushed
  <2> HIDE DEF c
  <2>4. CASE call' = c
    BY <2>1, <2>2, <2>4 DEF PushedOn
  <2>5. ASSUME NEW result \in {"ok", "error"}, call' = [c EXCEPT !.pc = "done", !.result = result] PROVE Goal
    <3>1. /\ CallShape(call') /\ call'.pc = "done" /\ call'.photo = c.photo /\ call'.chunks = c.chunks
          /\ call'.result = result /\ call'.photoShown = c.photoShown /\ call'.shown = c.shown
      BY <2>2, <2>5 DEF CallShape
    <3> QED
      BY <2>1, <2>2, <2>5, <3>1 DEF PushedOn
  <2> QED
    BY <2>3, <2>4, <2>5
<1>7. Goal
  BY <1>2, <1>3, <1>4, <1>5, <1>6 DEF CallStep
<1> QED
  BY <1>1, <1>7, TroublesGrow

\* No call, and a call that starts, have shown nothing.
LEMMA NewCalls ==
    /\ CallShape(NoCall) /\ NoCall.pc = "none" /\ ~NoCall.photoShown /\ NoCall.shown = {}
    /\ NoCall.result = "none" /\ NoCall.reached = {} /\ NoCall.next = 1
    /\ \A photo, chunks, pushLen : StartCall(photo, chunks, pushLen) =>
          /\ CallShape(call') /\ call'.pc = "resolve" /\ ~call'.photoShown /\ call'.shown = {}
          /\ call'.result = "none" /\ call'.reached = {} /\ call'.next = 1 /\ call'.chunks = chunks
          /\ call'.photo = photo
          /\ channel' = channel /\ vapid' = vapid /\ troubles' = troubles
<1>1. /\ CallShape(NoCall) /\ NoCall.pc = "none" /\ ~NoCall.photoShown /\ NoCall.shown = {}
      /\ NoCall.result = "none" /\ NoCall.reached = {} /\ NoCall.next = 1
  BY DEF NoCall, CallShape
<1>2. ASSUME NEW photo, NEW chunks, NEW pushLen, StartCall(photo, chunks, pushLen)
      PROVE  /\ CallShape(call') /\ call'.pc = "resolve" /\ ~call'.photoShown /\ call'.shown = {}
             /\ call'.result = "none" /\ call'.reached = {} /\ call'.next = 1 /\ call'.chunks = chunks
             /\ call'.photo = photo
             /\ channel' = channel /\ vapid' = vapid /\ troubles' = troubles
  <2>1. call' = [NoCall EXCEPT !.pc = "resolve", !.photo = photo, !.chunks = chunks,
                               !.fits = pushLen <= MaxPushLen]
    BY <1>2 DEF StartCall
  <2>2. CallShape(call')
    BY <2>1 DEF NoCall, CallShape
  <2>3. /\ call'.pc = "resolve" /\ ~call'.photoShown /\ call'.shown = {}
        /\ call'.result = "none" /\ call'.reached = {} /\ call'.next = 1 /\ call'.chunks = chunks
        /\ call'.photo = photo
    BY <2>1 DEF NoCall
  <2> QED
    BY <1>2, <2>2, <2>3 DEF StartCall
<1> QED
  BY <1>1, <1>2

-----------------------------------------------------------------------------
(* Repeats *)

\* A photo goes with a listing; a text follows it only when its answer was lost.
PhotoInv ==
    /\ troubles \in Nat /\ CallShape(call)
    /\ call.pc = "photo" \/ call.photoShown => call.photo
    /\ call.photoShown => call.pc \in {"text", "done"}
    /\ call.shown # {} => call.pc \in {"text", "done"}
    /\ call.photoShown /\ (call.pc = "text" \/ call.shown # {}) => troubles > 0

\* Every step of a call, every start and every end of one keeps it.
LEMMA PhotoCall == PhotoInv /\ CallStep => PhotoInv'
<1> SUFFICES ASSUME PhotoInv, CallStep PROVE PhotoInv'
  OBVIOUS
<1>1. /\ CallShape(call') /\ call'.photo = call.photo
      /\ \/ Routed(call, call') \/ PhotoTried(call, call')
         \/ ChunkTried(call, call') \/ PushedOn(call, call')
      /\ troubles \in Nat /\ troubles' \in Nat /\ troubles' >= troubles
  BY CallOutcomes DEF PhotoInv
<1>2. CASE Routed(call, call')
  BY <1>1, <1>2 DEF PhotoInv, Routed, Same
<1>3. CASE PhotoTried(call, call')
  BY <1>1, <1>3 DEF PhotoInv, PhotoTried, Same
<1>4. CASE ChunkTried(call, call')
  BY <1>1, <1>4 DEF PhotoInv, ChunkTried, Same
<1>5. CASE PushedOn(call, call')
  BY <1>1, <1>5 DEF PhotoInv, PushedOn
<1> QED
  BY <1>1, <1>2, <1>3, <1>4, <1>5

\* So does every step of the program.
LEMMA PhotoStep == PhotoInv /\ [DeliveryNext]_allVars => PhotoInv'
<1> SUFFICES ASSUME PhotoInv, [DeliveryNext]_allVars PROVE PhotoInv'
  OBVIOUS
<1>1. ASSUME call' = call, Trouble \/ troubles' = troubles PROVE PhotoInv'
  BY <1>1, TroublesGrow DEF PhotoInv
<1>2. ASSUME call' = NoCall, Trouble \/ troubles' = troubles PROVE PhotoInv'
  BY <1>2, TroublesGrow, NewCalls DEF PhotoInv
<1>3. ASSUME NEW photo, NEW chunks, NEW pushLen, StartCall(photo, chunks, pushLen) PROVE PhotoInv'
  BY <1>3, TroublesGrow, NewCalls DEF PhotoInv
<1>4. CASE QueueStep \/ CheckDaily \/ UpdateDailyDigestLastSent \/ Tick \/ UNCHANGED allVars
  BY <1>1, <1>4 DEF QueueStep, QueueAlone, CheckDaily, UpdateDailyDigestLastSent, Tick, allVars, channelVars
<1>5. CASE DigestCrash \/ DailyCrash \/ EndOfCall
  BY <1>2, <1>5 DEF DigestCrash, DailyCrash, EndOfCall, DigestSent, DailyEnded, AlertSent, EndCall
<1>6. CASE SendDigest \/ SendDaily \/ SendAlert
  <2>1. (call' = call /\ troubles' = troubles) \/ (\E photo, chunks, pushLen : StartCall(photo, chunks, pushLen))
    BY <1>6 DEF SendDigest, SendDaily, SendAlert, NotifyRaw, channelVars
  <2> QED
    BY <1>1, <1>3, <2>1
<1>7. CASE SendStep
  BY <1>7, PhotoCall DEF SendStep
<1>8. CASE UserStep
  BY <1>1, <1>8 DEF UserStep, PushSubscribe, PushUnsubscribe, Expire, BlockOrUnblock
<1> QED
  BY <1>4, <1>5, <1>6, <1>7, <1>8 DEF DeliveryNext

\* Days go with the clock.
LEMMA DayOrder ==
    /\ \A t \in Nat : Day(t) \in Nat
    /\ \A s, t \in Nat : s <= t => Day(s) <= Day(t)
<1>1. PICK e \in Nat \ {0} : e = DayLen
  BY DeliveryConstants
<1>2. \A t \in Nat : t \div e \in Nat
  OBVIOUS
<1>3. \A s, t \in Nat : s <= t => s \div e <= t \div e
  OBVIOUS
<1> QED
  BY <1>1, <1>2, <1>3 DEF Day

\* The daily digests: whoever is due had none today, and a day that saw one is
\* written down, or under way, or known not to be written down.
DailyInv ==
    /\ clock \in Nat /\ lastSent \in Nat /\ lastSent <= clock
    /\ shownDays \in [1..Days -> Nat]
    /\ shownOn \in Nat /\ shownOn <= Day(clock)
    /\ daily # "idle" => Day(lastSent) < Day(clock)
    /\ \A d \in 1..Days :
          /\ shownDays[d] > 0 => d \in unwritten \/ d = shownOn \/ d <= Day(lastSent)
          /\ shownDays[d] > 1 => d \in unwritten

\* The digest of the day is shown: the first one, or one too many of a day
\* whose digest was not written down.
LEMMA ShownOnce ==
    ASSUME DailyInv, Shown, shownOn = 0, daily # "idle",
           UNCHANGED <<clock, lastSent>>,
           \/ shownOn' = Day(clock) /\ unwritten' = unwritten
           \/ shownOn' = 0 /\ unwritten' = unwritten \cup {Day(clock)} /\ daily' = "idle"
    PROVE  DailyInv'
<1>1. PICK n \in Nat, m \in Nat : n = Day(clock) /\ m = Day(lastSent) /\ m < n
  BY DayOrder DEF DailyInv
<1>2. Day(clock)' = n /\ Day(lastSent)' = m
  BY <1>1 DEF Day
<1>3. /\ shownDays' \in [1..Days -> Nat]
      /\ \A d \in 1..Days : IF d = n THEN shownDays[d] > 0 => d \in unwritten
                            ELSE shownDays'[d] = shownDays[d]
      /\ \A d \in 1..Days : d = n /\ shownDays'[d] > 1 => shownDays[d] > 0
  <2>1. /\ shownDays \in [1..Days -> Nat]
        /\ shownDays' = [shownDays EXCEPT ![n] = IF shownDays[n] < 2 THEN shownDays[n] + 1 ELSE shownDays[n]]
    BY <1>1 DEF DailyInv, Shown
  <2>2. shownDays' \in [1..Days -> Nat]
    <3>1. CASE n \in 1..Days
      <4>1. PICK v \in Nat : shownDays' = [shownDays EXCEPT ![n] = v]
        <5>1. shownDays[n] \in Nat /\ shownDays[n] + 1 \in Nat
          BY <2>1, <3>1
        <5>2. (IF shownDays[n] < 2 THEN shownDays[n] + 1 ELSE shownDays[n]) \in Nat
          BY <5>1
        <5> QED
          BY <2>1, <5>2
      <4> QED
        BY <2>1, <4>1
    <3>2. CASE n \notin 1..Days
      BY <2>1, <3>2
    <3> QED
      BY <3>1, <3>2
  <2>3. \A d \in 1..Days : d = n => (shownDays[d] > 0 => d \in unwritten)
    BY <1>1 DEF DailyInv
  <2>4. \A d \in 1..Days : d # n => shownDays'[d] = shownDays[d]
    BY <2>1
  <2>5. \A d \in 1..Days : d = n /\ shownDays'[d] > 1 => shownDays[d] > 0
    BY <2>1
  <2> QED
    BY <2>2, <2>3, <2>4, <2>5
<1> QED
  BY <1>1, <1>2, <1>3 DEF DailyInv

\* Every step keeps the books of the daily digests.
LEMMA DailyStep == DailyInv /\ [DeliveryNext]_allVars => DailyInv'
<1> SUFFICES ASSUME DailyInv, [DeliveryNext]_allVars PROVE DailyInv'
  OBVIOUS
<1>0. /\ clock \in Nat /\ lastSent \in Nat /\ Day(clock) \in Nat /\ Day(lastSent) \in Nat
      /\ Day(lastSent) <= Day(clock) /\ shownOn \in Nat
  BY DayOrder DEF DailyInv
<1>1. CASE UNCHANGED dailyVars
  BY <1>1 DEF DailyInv, dailyVars, Day
<1>2. CASE CheckDaily
  <2>1. Day(lastSent) < Day(clock)
    BY <1>0, <1>2 DEF CheckDaily, DailyDue
  <2> QED
    BY <1>2, <2>1 DEF CheckDaily, DailyInv, Day
<1>3. CASE Tick
  <2>1. clock' = clock + 1 /\ UNCHANGED <<lastSent, daily, shownOn, shownDays, unwritten>>
    BY <1>3 DEF Tick
  <2>2. Day(clock') \in Nat /\ Day(clock) <= Day(clock') /\ clock' \in Nat
    BY <1>0, <2>1, DayOrder
  <2>3. Day(clock)' = Day(clock') /\ Day(lastSent)' = Day(lastSent)
    BY <2>1 DEF Day
  <2> QED
    BY <1>0, <2>1, <2>2, <2>3 DEF DailyInv
<1>4. CASE SendDaily
  BY <1>4 DEF SendDaily, DailyInv, Day
<1>5. CASE DailyEnded
  BY <1>0, <1>5 DEF DailyEnded, Unwritten, DailyInv, Day
<1>6. CASE UpdateDailyDigestLastSent
  <2>1. UNCHANGED <<clock, shownDays>> /\ daily' = "idle" /\ shownOn' = 0
    BY <1>6 DEF UpdateDailyDigestLastSent
  <2>2. CASE lastSent' = clock /\ unwritten' = unwritten
    <3>1. Day(clock)' = Day(clock) /\ Day(lastSent)' = Day(clock)
      BY <2>1, <2>2 DEF Day
    <3> QED
      BY <1>0, <2>1, <2>2, <3>1 DEF DailyInv
  <2>3. CASE lastSent' = lastSent /\ Unwritten
    <3>1. Day(clock)' = Day(clock) /\ Day(lastSent)' = Day(lastSent)
      BY <2>1, <2>3 DEF Day
    <3> QED
      BY <1>0, <2>1, <2>3, <3>1 DEF DailyInv, Unwritten
  <2> QED
    BY <1>6, <2>2, <2>3 DEF UpdateDailyDigestLastSent
<1>7. CASE DailyCrash
  <2>1. UNCHANGED <<clock, lastSent>> /\ daily # "idle" /\ daily' = "idle" /\ shownOn' = 0
    BY <1>7 DEF DailyCrash
  <2>2. CASE shownOn = 0 /\ Shown /\ unwritten' = unwritten \cup {Day(clock)}
    BY <2>1, <2>2, ShownOnce
  <2>3. CASE Unwritten /\ shownDays' = shownDays
    <3>1. Day(clock)' = Day(clock) /\ Day(lastSent)' = Day(lastSent)
      BY <2>1 DEF Day
    <3> QED
      BY <1>0, <2>1, <2>3, <3>1 DEF DailyInv, Unwritten
  <2> QED
    BY <1>7, <2>2, <2>3 DEF DailyCrash
<1>8. CASE SendStep
  <2>1. UNCHANGED <<clock, lastSent, daily, unwritten>>
    BY <1>8 DEF SendStep
  <2>2. CASE daily = "send" /\ shownOn = 0 /\ shownOn' = Day(clock) /\ Shown
    BY <2>1, <2>2, ShownOnce
  <2>3. CASE UNCHANGED <<shownOn, shownDays>>
    BY <2>1, <2>3 DEF DailyInv, Day
  <2> QED
    BY <1>8, <2>2, <2>3 DEF SendStep
<1>9. \/ UNCHANGED dailyVars
      \/ CheckDaily \/ Tick \/ SendDaily \/ DailyEnded \/ UpdateDailyDigestLastSent \/ DailyCrash \/ SendStep
  BY DEF DeliveryNext, QueueStep, QueueAlone, DigestCrash, SendDigest, SendAlert, EndOfCall, DigestSent,
     AlertSent, allVars
<1> QED
  BY <1>1, <1>2, <1>3, <1>4, <1>5, <1>6, <1>7, <1>8, <1>9

\* At the start nothing was sent.
LEMMA RepeatsInit == DeliveryInit => PhotoInv /\ DailyInv
<1> SUFFICES ASSUME DeliveryInit PROVE PhotoInv /\ DailyInv
  OBVIOUS
<1>1. PhotoInv
  BY NewCalls DEF DeliveryInit, ChannelsInit, PhotoInv
<1>2. /\ clock = DayLen /\ clock \in Nat /\ lastSent = 0 /\ 0 \in Nat /\ 0 <= clock /\ daily = "idle"
      /\ shownOn = 0 /\ shownDays = [d \in 1..Days |-> 0]
  BY DeliveryConstants DEF DeliveryInit
<1>3. Day(clock) \in Nat
  BY <1>2, DayOrder
<1>4. DailyInv
  BY <1>2, <1>3 DEF DailyInv
<1> QED
  BY <1>1, <1>4

\* The user sees something twice only for a cause the code accepts: an item
\* after a flush not seen to end, a listing as photo and text after the answer
\* to the photo was lost, a daily digest after one of that day that was not
\* written down (digest.go, telegram.go, daily_digest.go).
THEOREM RepeatsAreExplained == DeliverySpec => []RepeatsExplained
<1>1. DeliveryInit => PhotoInv /\ DailyInv
  BY RepeatsInit
<1>2. PhotoInv /\ DailyInv /\ [DeliveryNext]_allVars => (PhotoInv /\ DailyInv)'
  BY PhotoStep, DailyStep
<1>3. PhotoInv /\ DailyInv /\ ResendHasCause => RepeatsExplained
  BY DEF PhotoInv, DailyInv, RepeatsExplained
<1>4. DeliverySpec => []ResendHasCause
  BY DeliveryImplementsQueue, RepeatedItemHasCause, PTL
<1> QED
  BY <1>1, <1>2, <1>3, <1>4, PTL DEF DeliverySpec

-----------------------------------------------------------------------------
(* Numbers *)

\* A set of naturals has a least element.
LEMMA LeastExists ==
    ASSUME NEW T \in SUBSET Nat, T # {}
    PROVE  \E x \in T : \A y \in T : x <= y
<1> DEFINE R == OpToRel(<, Nat)
<1>1. IsWellFoundedOn(R, Nat)
  BY NatLessThanWellFounded
<1>2. \A x, y \in Nat : y < x => <<y, x>> \in R
  BY DEF OpToRel
<1> HIDE DEF R
<1>3. PICK x \in T : \A y \in T : ~ (<<y, x>> \in R)
  BY <1>1, WFMin
<1>4. \A y \in T : ~(y < x)
  BY <1>2, <1>3
<1> QED
  BY <1>4

\* A set that holds 0, and with every number its successor, holds them all.
LEMMA SetInduction ==
    ASSUME NEW S, 0 \in S, \A n \in Nat : n \in S => n + 1 \in S
    PROVE  Nat \subseteq S
<1> SUFFICES ASSUME Nat \ S # {} PROVE FALSE
  OBVIOUS
<1>1. PICK x \in Nat \ S : \A y \in Nat \ S : x <= y
  BY LeastExists
<1>2. x # 0 /\ x - 1 \in Nat /\ x - 1 + 1 = x
  OBVIOUS
<1>3. x - 1 \in S
  BY <1>1, <1>2
<1> QED
  BY <1>2, <1>3

-----------------------------------------------------------------------------
(* Sums of lengths *)

\* f holds the sums of the first terms of s.
SumsUp(s, f, n) == f[0] = 0 /\ \A k \in 1..n : f[k] = f[k - 1] + s[k]

\* There are such sums, as numbers.
LEMMA SumsExist ==
    ASSUME NEW s \in Seq(Int)
    PROVE  \A n \in 0..Len(s) : \E f \in [0..n -> Int] : SumsUp(s, f, n)
<1> DEFINE S == {n \in Nat : n <= Len(s) => \E f \in [0..n -> Int] : SumsUp(s, f, n)}
<1>1. 0 \in S
  <2>1. [k \in 0..0 |-> 0] \in [0..0 -> Int] /\ SumsUp(s, [k \in 0..0 |-> 0], 0)
    BY DEF SumsUp
  <2> QED
    BY <2>1
<1>2. ASSUME NEW n \in Nat, n \in S PROVE n + 1 \in S
  <2> SUFFICES ASSUME n + 1 <= Len(s)
               PROVE  \E f \in [0..n + 1 -> Int] : SumsUp(s, f, n + 1)
    OBVIOUS
  <2>1. n <= Len(s)
    OBVIOUS
  <2>2. PICK f \in [0..n -> Int] : SumsUp(s, f, n)
    BY <1>2, <2>1
  <2> DEFINE g == [k \in 0..n + 1 |-> IF k = n + 1 THEN f[n] + s[n + 1] ELSE f[k]]
  <2>3. s[n + 1] \in Int
    BY ElementOfSeq
  <2>4. g \in [0..n + 1 -> Int]
    BY <2>3
  <2>5. g[0] = 0
    BY <2>2 DEF SumsUp
  <2>6. ASSUME NEW k \in 1..n + 1 PROVE g[k] = g[k - 1] + s[k]
    <3>1. CASE k = n + 1
      BY <3>1
    <3>2. CASE k \in 1..n
      BY <2>2, <3>2 DEF SumsUp
    <3> QED
      BY <3>1, <3>2
  <2> HIDE DEF g
  <2> QED
    BY <2>4, <2>5, <2>6 DEF SumsUp
<1> HIDE DEF S
<1>3. Nat \subseteq S
  BY <1>1, <1>2, SetInduction
<1> QED
  BY <1>3 DEF S

\* The sums are determined.
LEMMA SumsAgree ==
    ASSUME NEW s, NEW m \in Nat, NEW f, NEW g, SumsUp(s, f, m), SumsUp(s, g, m)
    PROVE  f[m] = g[m]
<1> DEFINE S == {n \in Nat : n <= m => f[n] = g[n]}
<1>1. 0 \in S
  BY DEF SumsUp
<1>2. ASSUME NEW n \in Nat, n \in S PROVE n + 1 \in S
  <2> SUFFICES ASSUME n + 1 <= m PROVE f[n + 1] = g[n + 1]
    OBVIOUS
  <2>1. n + 1 \in 1..m /\ n + 1 - 1 = n /\ f[n] = g[n]
    BY <1>2
  <2> QED
    BY <2>1 DEF SumsUp
<1> HIDE DEF S
<1>3. m \in S
  BY <1>1, <1>2, SetInduction
<1> QED
  BY <1>3 DEF S

\* Sum is the last of the sums.
LEMMA SumIsLast ==
    ASSUME NEW s \in Seq(Int), NEW f, SumsUp(s, f, Len(s))
    PROVE  Sum(s) = f[Len(s)] /\ Sum(s) \in Int
<1> DEFINE upTo == CHOOSE g : g = [k \in 0..Len(s) |-> IF k = 0 THEN 0 ELSE g[k - 1] + s[k]]
<1>1. Sum(s) = upTo[Len(s)]
  BY DEF Sum
<1>2. PICK h \in [0..Len(s) -> Int] : SumsUp(s, h, Len(s))
  BY SumsExist
<1>3. h = [k \in 0..Len(s) |-> IF k = 0 THEN 0 ELSE h[k - 1] + s[k]]
  <2>1. \A k \in 0..Len(s) : h[k] = IF k = 0 THEN 0 ELSE h[k - 1] + s[k]
    BY <1>2 DEF SumsUp
  <2>2. h = [k \in 0..Len(s) |-> h[k]]
    BY <1>2
  <2> QED
    BY <2>1, <2>2, Zenon
<1>4. upTo = [k \in 0..Len(s) |-> IF k = 0 THEN 0 ELSE upTo[k - 1] + s[k]]
  BY <1>3
<1> HIDE DEF upTo
<1>5. Len(s) \in Nat
  OBVIOUS
<1>6. SumsUp(s, upTo, Len(s))
  <2>1. upTo[0] = 0
    BY <1>4, <1>5
  <2>2. \A k \in 1..Len(s) : upTo[k] = upTo[k - 1] + s[k]
    BY <1>4, <1>5
  <2> QED
    BY <2>1, <2>2 DEF SumsUp
<1>7. upTo[Len(s)] = f[Len(s)] /\ upTo[Len(s)] = h[Len(s)]
  BY <1>2, <1>5, <1>6, SumsAgree
<1> QED
  BY <1>1, <1>2, <1>5, <1>7

\* How sums are taken apart.
LEMMA SumRules ==
    /\ Sum(<<>>) = 0
    /\ \A x \in Int : Sum(<<x>>) = x
    /\ \A s \in Seq(Int) : Sum(s) \in Int
    /\ \A s, t \in Seq(Int) : Sum(s \o t) = Sum(s) + Sum(t)
    /\ \A s \in Seq(Int), x \in Int : Sum(Append(s, x)) = Sum(s) + x
<1>1. Sum(<<>>) = 0
  <2>1. <<>> \in Seq(Int) /\ Len(<<>>) = 0 /\ SumsUp(<<>>, [k \in 0..0 |-> 0], 0)
    BY DEF SumsUp
  <2> QED
    BY <2>1, SumIsLast
<1>2. ASSUME NEW x \in Int PROVE Sum(<<x>>) = x
  <2> DEFINE f == [k \in 0..1 |-> IF k = 0 THEN 0 ELSE x]
  <2>1. <<x>> \in Seq(Int) /\ Len(<<x>>) = 1 /\ SumsUp(<<x>>, f, 1) /\ f[1] = x
    BY DEF SumsUp
  <2> HIDE DEF f
  <2> QED
    BY <2>1, SumIsLast
<1>3. ASSUME NEW s \in Seq(Int)
      PROVE  Sum(s) \in Int /\ \E f \in [0..Len(s) -> Int] : SumsUp(s, f, Len(s)) /\ Sum(s) = f[Len(s)]
  <2>1. PICK f \in [0..Len(s) -> Int] : SumsUp(s, f, Len(s))
    BY SumsExist
  <2> QED
    BY <2>1, SumIsLast
<1>4. ASSUME NEW s \in Seq(Int), NEW t \in Seq(Int) PROVE Sum(s \o t) = Sum(s) + Sum(t)
  <2>1. PICK f \in [0..Len(s) -> Int] : SumsUp(s, f, Len(s)) /\ Sum(s) = f[Len(s)]
    BY <1>3
  <2>2. PICK g \in [0..Len(t) -> Int] : SumsUp(t, g, Len(t)) /\ Sum(t) = g[Len(t)]
    BY <1>3
  <2> DEFINE m == Len(s)
  <2> DEFINE n == Len(t)
  <2> DEFINE h == [k \in 0..m + n |-> IF k <= m THEN f[k] ELSE f[m] + g[k - m]]
  <2>3. /\ s \o t \in Seq(Int) /\ Len(s \o t) = m + n /\ m \in Nat /\ n \in Nat
        /\ \A k \in 1..m + n : (s \o t)[k] = IF k <= m THEN s[k] ELSE t[k - m]
    BY ConcatProperties
  <2>4. \A k \in 1..m : s[k] \in Int
    BY ElementOfSeq
  <2>5. \A k \in 1..n : t[k] \in Int
    BY ElementOfSeq
  <2> HIDE DEF m, n
  <2>6. h[0] = 0 /\ h[m + n] = f[m] + g[n]
    <3>1. f[0] = 0 /\ g[0] = 0 /\ f[m] \in Int /\ 0 \in 0..m + n /\ m + n \in 0..m + n
      BY <2>1, <2>2, <2>3 DEF SumsUp, m
    <3>2. CASE n = 0
      BY <2>3, <3>1, <3>2
    <3>3. CASE n # 0
      <4>1. ~(m + n <= m) /\ m + n - m = n
        BY <2>3, <3>3
      <4> QED
        BY <2>3, <3>1, <4>1
    <3> QED
      BY <3>2, <3>3
  <2>7. ASSUME NEW k \in 1..m + n PROVE h[k] = h[k - 1] + (s \o t)[k]
    <3>1. CASE k <= m
      <4>1. h[k] = f[k] /\ h[k - 1] = f[k - 1] /\ (s \o t)[k] = s[k]
        BY <2>3, <3>1
      <4> QED
        BY <2>1, <2>3, <3>1, <4>1 DEF SumsUp, m
    <3>2. CASE k > m
      <4>1. k - m \in 1..n /\ (s \o t)[k] = t[k - m] /\ h[k] = f[m] + g[k - m]
        BY <2>3, <3>2, SMTT(20)
      <4>2. g[k - m] = g[k - m - 1] + t[k - m]
        BY <2>2, <2>3, <4>1 DEF SumsUp, n
      <4>3. h[k - 1] = f[m] + g[k - m - 1]
        <5>1. CASE k = m + 1
          <6>1. h[k - 1] = f[m] /\ k - m - 1 = 0 /\ g[0] = 0 /\ f[m] \in Int
            BY <2>1, <2>2, <2>3, <5>1 DEF SumsUp, m
          <6> QED
            BY <6>1
        <5>2. CASE k # m + 1
          <6>1. k - 1 \in 0..m + n /\ ~(k - 1 <= m) /\ k - 1 - m = k - m - 1
            BY <2>3, <3>2, <5>2
          <6> QED
            BY <6>1
        <5> QED
          BY <5>1, <5>2
      <4>4. m \in 0..m /\ k - m - 1 \in 0..n
        BY <2>3, <4>1
      <4>5. f[m] \in Int /\ g[k - m - 1] \in Int /\ t[k - m] \in Int
        BY <2>1, <2>2, <2>5, <4>1, <4>4 DEF m, n
      <4> QED
        BY <4>1, <4>2, <4>3, <4>5, SMTT(20)
    <3> QED
      BY <2>3, <3>1, <3>2
  <2>8. SumsUp(s \o t, h, Len(s \o t))
    BY <2>3, <2>6, <2>7 DEF SumsUp
  <2> HIDE DEF h
  <2> QED
    BY <2>1, <2>2, <2>3, <2>6, <2>8, SumIsLast DEF m, n
<1>5. ASSUME NEW s \in Seq(Int), NEW x \in Int PROVE Sum(Append(s, x)) = Sum(s) + x
  <2>1. Append(s, x) = s \o <<x>> /\ <<x>> \in Seq(Int)
    BY AppendIsConcat
  <2> QED
    BY <1>2, <1>4, <2>1
<1> QED
  BY <1>1, <1>2, <1>3, <1>4, <1>5

-----------------------------------------------------------------------------
(* Chunks *)

\* A set of numbers below a bound has a greatest element.
LEMMA GreatestFound ==
    ASSUME NEW b \in Nat, NEW T \in SUBSET (0..b), T # {}
    PROVE  Max(T) \in T
<1> DEFINE below == {b - x : x \in T}
<1>1. below \in SUBSET Nat /\ below # {}
  <2>1. \A x \in T : x \in 0..b /\ b - x \in Nat
    OBVIOUS
  <2> QED
    BY <2>1
<1>2. PICK y \in below : \A z \in below : y <= z
  BY <1>1, LeastExists
<1>3. PICK x \in T : y = b - x
  BY <1>2
<1>4. ASSUME NEW z \in T PROVE x >= z
  <2>1. b - x <= b - z
    BY <1>2, <1>3
  <2>2. x \in 0..b /\ z \in 0..b
    OBVIOUS
  <2> QED
    BY <2>1, <2>2
<1> QED
  BY <1>3, <1>4 DEF Max

\* A cut is after where it starts, within the limit.
LEMMA CutFound ==
    ASSUME NEW from \in Nat
    PROVE  CutAfter(from) \in from + 1..from + MaxMessageLen
<1> DEFINE ends == {b \in from + 2..from + MaxMessageLen : b % LineLen = 0}
<1>1. MaxMessageLen \in Nat \ {0} /\ CutAfter(from) = IF ends = {} THEN from + MaxMessageLen ELSE Max(ends)
  BY ChannelConstants DEF CutAfter
<1>2. ends \in SUBSET (from + 2..from + MaxMessageLen)
  OBVIOUS
<1> HIDE DEF ends
<1>3. ends # {} => Max(ends) \in ends
  <2>1. ends \in SUBSET (0..from + MaxMessageLen) /\ from + MaxMessageLen \in Nat
    BY <1>1, <1>2
  <2> QED
    BY <2>1, GreatestFound
<1>4. CASE ends = {}
  BY <1>1, <1>4
<1>5. CASE ends # {}
  <2>1. CutAfter(from) \in from + 2..from + MaxMessageLen
    BY <1>1, <1>2, <1>3, <1>5
  <2> QED
    BY <1>1, <2>1
<1> QED
  BY <1>4, <1>5

\* What is left of a text of this length at a place is cut so.
CutUp(len, f, from) ==
    f[from] = IF len - from <= MaxMessageLen THEN <<len - from>>
              ELSE <<CutAfter(from) - from>> \o f[CutAfter(from)]

\* A text of this length in pieces.
IsPieces(len, s) ==
    /\ s \in Seq(Nat) /\ Len(s) > 0 /\ Sum(s) = len
    /\ \A j \in 1..Len(s) : s[j] <= MaxMessageLen /\ (len > 0 => s[j] > 0)

\* One more piece.
LEMMA PieceAdded ==
    ASSUME NEW len \in Nat, NEW from \in 0..len, NEW f,
           CutUp(len, f, from),
           len - from > MaxMessageLen => IsPieces(len - CutAfter(from), f[CutAfter(from)])
    PROVE  IsPieces(len - from, f[from])
<1>0. MaxMessageLen \in Nat \ {0} /\ from \in Nat /\ CutAfter(from) \in from + 1..from + MaxMessageLen
  BY ChannelConstants, CutFound
<1>1. CASE len - from <= MaxMessageLen
  <2>1. f[from] = <<len - from>> /\ len - from \in Nat
    BY <1>1 DEF CutUp
  <2>2. Sum(<<len - from>>) = len - from
    BY <2>1, SumRules
  <2> QED
    BY <1>1, <2>1, <2>2 DEF IsPieces
<1>2. CASE len - from > MaxMessageLen
  <2> DEFINE x == CutAfter(from) - from
  <2> DEFINE s == f[CutAfter(from)]
  <2>1. f[from] = <<x>> \o s /\ IsPieces(len - CutAfter(from), s)
    BY <1>0, <1>2, SMTT(20) DEF CutUp
  <2>2. x \in 1..MaxMessageLen /\ len - CutAfter(from) \in Nat \ {0} /\ x + (len - CutAfter(from)) = len - from
    BY <1>0, <1>2
  <2> HIDE DEF x, s
  <2>3. <<x>> \in Seq(Nat) /\ Len(<<x>>) = 1 /\ s \in Seq(Nat)
    BY <2>1, <2>2 DEF IsPieces
  <2>4. /\ <<x>> \o s \in Seq(Nat) /\ Len(<<x>> \o s) = 1 + Len(s)
        /\ \A j \in 1..1 + Len(s) : (<<x>> \o s)[j] = IF j <= 1 THEN x ELSE s[j - 1]
    BY <2>3, ConcatProperties
  <2>5. Sum(<<x>> \o s) = len - from
    <3>1. <<x>> \in Seq(Int) /\ s \in Seq(Int) /\ x \in Int
      BY <2>2, <2>3
    <3>2. Sum(<<x>> \o s) = Sum(<<x>>) + Sum(s) /\ Sum(<<x>>) = x
      BY <3>1, SumRules
    <3>3. Sum(s) = len - CutAfter(from)
      BY <2>1 DEF IsPieces
    <3> QED
      BY <2>2, <3>2, <3>3
  <2>6. ASSUME NEW j \in 1..1 + Len(s)
        PROVE  (<<x>> \o s)[j] <= MaxMessageLen /\ (<<x>> \o s)[j] > 0
    <3>1. CASE j <= 1
      BY <1>0, <2>2, <2>4, <3>1
    <3>2. CASE j > 1
      <4>1. j - 1 \in 1..Len(s) /\ (<<x>> \o s)[j] = s[j - 1]
        BY <2>3, <2>4, <3>2
      <4> QED
        BY <2>1, <2>2, <4>1, SMTT(20) DEF IsPieces
    <3> QED
      BY <2>3, <3>1, <3>2
  <2>7. Len(s) \in Nat /\ 1 + Len(s) > 0
    BY <2>3
  <2>8. IsPieces(len - from, <<x>> \o s)
    BY <2>4, <2>5, <2>6, <2>7 DEF IsPieces
  <2> QED
    BY <2>1, <2>8
<1> QED
  BY <1>0, <1>1, <1>2

\* A text can be cut up from any place.
LEMMA CutUpExists ==
    ASSUME NEW len \in Nat
    PROVE  \E f : \A from \in 0..len : CutUp(len, f, from)
<1> DEFINE S == {n \in Nat : n <= len => \E f : \A from \in len - n..len : CutUp(len, f, from)}
<1>0. MaxMessageLen \in Nat \ {0} /\ \A from \in Nat : CutAfter(from) \in from + 1..from + MaxMessageLen
  BY ChannelConstants, CutFound
<1>1. 0 \in S
  <2>1. \A from \in len - 0..len : CutUp(len, [x \in {len} |-> <<len - x>>], from)
    BY <1>0 DEF CutUp
  <2> QED
    BY <2>1
<1>2. ASSUME NEW n \in Nat, n \in S PROVE n + 1 \in S
  <2> SUFFICES ASSUME n + 1 <= len
               PROVE  \E f : \A from \in len - (n + 1)..len : CutUp(len, f, from)
    OBVIOUS
  <2>1. PICK f : \A from \in len - n..len : CutUp(len, f, from)
    BY <1>2
  <2> DEFINE m == len - (n + 1)
  <2>2. m \in Nat /\ m + 1 = len - n
    OBVIOUS
  <2> HIDE DEF m
  <2> DEFINE g == [x \in m..len |->
                     IF x # m THEN f[x]
                     ELSE IF len - m <= MaxMessageLen THEN <<len - m>>
                     ELSE <<CutAfter(m) - m>> \o f[CutAfter(m)]]
  <2>3. \A x \in m + 1..len : g[x] = f[x]
    BY <2>2
  <2>4. g[m] = IF len - m <= MaxMessageLen THEN <<len - m>>
               ELSE <<CutAfter(m) - m>> \o f[CutAfter(m)]
    BY <2>2
  <2> HIDE DEF g
  <2>5. ASSUME NEW from \in m + 1..len PROVE CutUp(len, g, from)
    <3>1. CutUp(len, f, from) /\ g[from] = f[from] /\ from \in Nat
      BY <2>1, <2>2, <2>3
    <3>2. len - from > MaxMessageLen => g[CutAfter(from)] = f[CutAfter(from)]
      <4>1. len - from > MaxMessageLen => CutAfter(from) \in m + 1..len
        BY <1>0, <2>2, <3>1
      <4> QED
        BY <2>3, <4>1
    <3>3. len - from <= MaxMessageLen \/ len - from > MaxMessageLen
      BY <1>0, <3>1
    <3> QED
      BY <3>1, <3>2, <3>3 DEF CutUp
  <2>6. CutUp(len, g, m)
    <3>1. len - m > MaxMessageLen => CutAfter(m) \in m + 1..len
      BY <1>0, <2>2
    <3>2. len - m <= MaxMessageLen \/ len - m > MaxMessageLen
      BY <1>0, <2>2
    <3> QED
      BY <2>3, <2>4, <3>1, <3>2 DEF CutUp
  <2>7. \A from \in m..len : CutUp(len, g, from)
    BY <2>2, <2>5, <2>6
  <2> QED
    BY <2>7 DEF m
<1> HIDE DEF S
<1>3. len \in S
  BY <1>1, <1>2, SetInduction
<1> QED
  BY <1>3 DEF S

\* splitMessageByNewlines leaves nothing out, and its pieces are within the
\* limit; a text within the limit stays whole.
LEMMA SplitIntoPieces ==
    ASSUME NEW len \in Nat
    PROVE  /\ IsPieces(len, SplitByNewlines(len))
           /\ len <= MaxMessageLen => SplitByNewlines(len) = <<len>>
<1> DEFINE Body(f) == [from \in 0..len |->
                         IF len - from <= MaxMessageLen THEN <<len - from>>
                         ELSE <<CutAfter(from) - from>> \o f[CutAfter(from)]]
<1> DEFINE rest == CHOOSE f : f = Body(f)
<1>0. MaxMessageLen \in Nat \ {0} /\ \A from \in Nat : CutAfter(from) \in from + 1..from + MaxMessageLen
  BY ChannelConstants, CutFound
<1>1. SplitByNewlines(len) = rest[0]
  BY DEF SplitByNewlines
<1>2. PICK f : \A from \in 0..len : CutUp(len, f, from)
  BY CutUpExists
<1>3. Body(f) = Body(Body(f))
  <2>1. \A from \in 0..len : len - from > MaxMessageLen => CutAfter(from) \in 0..len
    BY <1>0
  <2>2. \A from \in 0..len : Body(f)[from] = f[from]
    BY <1>2 DEF CutUp
  <2>3. \A from \in 0..len : len - from > MaxMessageLen => Body(f)[CutAfter(from)] = f[CutAfter(from)]
    BY <2>1, <2>2
  <2>4. \A from \in 0..len : len - from <= MaxMessageLen \/ len - from > MaxMessageLen
    BY <1>0
  <2>5. \A from \in 0..len : Body(f)[from] = Body(Body(f))[from]
    BY <2>3, <2>4
  <2> QED
    BY <2>5
<1>4. rest = Body(rest)
  BY <1>3
<1> HIDE DEF rest
<1>5. \A from \in 0..len : CutUp(len, rest, from)
  BY <1>4 DEF CutUp
<1> HIDE DEF Body
<1> DEFINE S == {n \in Nat : \A k \in 0..n : k <= len => IsPieces(k, rest[len - k])}
<1>6. ASSUME NEW k \in 0..len, \A j \in 0..len : j < k => IsPieces(j, rest[len - j])
      PROVE  IsPieces(k, rest[len - k])
  <2>1. len - k \in 0..len /\ len - (len - k) = k /\ len - k \in Nat
    OBVIOUS
  <2>2. ASSUME k > MaxMessageLen PROVE IsPieces(len - CutAfter(len - k), rest[CutAfter(len - k)])
    <3> DEFINE j == len - CutAfter(len - k)
    <3>1. j \in 0..len /\ j < k /\ len - j = CutAfter(len - k)
      BY <1>0, <2>1, <2>2
    <3> QED
      BY <1>6, <3>1
  <2>3. IsPieces(len - (len - k), rest[len - k])
    BY <1>5, <2>1, <2>2, PieceAdded
  <2> QED
    BY <2>1, <2>3
<1>7. 0 \in S
  <2>1. IsPieces(0, rest[len - 0])
    BY <1>6
  <2> QED
    BY <2>1
<1>8. ASSUME NEW n \in Nat, n \in S PROVE n + 1 \in S
  <2>1. n + 1 <= len => IsPieces(n + 1, rest[len - (n + 1)])
    BY <1>6, <1>8
  <2> QED
    BY <1>8, <2>1
<1> HIDE DEF S
<1>9. len \in S
  BY <1>7, <1>8, SetInduction
<1>10. IsPieces(len, rest[len - len]) /\ len - len = 0
  BY <1>9 DEF S
<1>11. len <= MaxMessageLen => rest[0] = <<len>>
  <2>1. CutUp(len, rest, 0) /\ len - 0 = len
    BY <1>5
  <2> QED
    BY <2>1 DEF CutUp
<1> QED
  BY <1>1, <1>10, <1>11

-----------------------------------------------------------------------------
(* Atoms *)

\* The lengths of atoms or chunks.
Lens(s) == [i \in DOMAIN s |-> s[i].len]

\* Taken one after the other.
LEMMA LensOfConcat ==
    ASSUME NEW A, \A x \in A : x.len \in Nat, NEW s \in Seq(A), NEW t \in Seq(A)
    PROVE  /\ Lens(s) \in Seq(Nat) /\ Lens(s) \in Seq(Int) /\ Len(Lens(s)) = Len(s)
           /\ Sum(Lens(s \o t)) = Sum(Lens(s)) + Sum(Lens(t))
<1>1. ASSUME NEW u \in Seq(A)
      PROVE  /\ Lens(u) \in Seq(Nat) /\ Lens(u) \in Seq(Int) /\ Len(Lens(u)) = Len(u)
             /\ \A i \in 1..Len(u) : Lens(u)[i] = u[i].len
  <2>1. DOMAIN u = 1..Len(u) /\ Len(u) \in Nat /\ \A i \in 1..Len(u) : u[i] \in A
    BY LenProperties, ElementOfSeq
  <2>2. Lens(u) \in [1..Len(u) -> Nat] /\ Lens(u) \in [1..Len(u) -> Int]
    BY <2>1 DEF Lens
  <2> QED
    BY <2>1, <2>2, IsASeq DEF Lens
<1>2. /\ s \o t \in Seq(A) /\ Len(s \o t) = Len(s) + Len(t)
      /\ \A i \in 1..Len(s) + Len(t) : (s \o t)[i] = IF i <= Len(s) THEN s[i] ELSE t[i - Len(s)]
  BY ConcatProperties
<1>3. Lens(s \o t) = Lens(s) \o Lens(t)
  <2> DEFINE u == Lens(s) \o Lens(t)
  <2>0. /\ Lens(s) \in Seq(Nat) /\ Len(Lens(s)) = Len(s)
        /\ Lens(t) \in Seq(Nat) /\ Len(Lens(t)) = Len(t)
    BY <1>1
  <2>1. /\ u \in Seq(Nat) /\ Len(u) = Len(s) + Len(t)
        /\ \A i \in 1..Len(s) + Len(t) : u[i] = IF i <= Len(s) THEN Lens(s)[i] ELSE Lens(t)[i - Len(s)]
    BY <2>0, ConcatProperties
  <2>2. ASSUME NEW i \in 1..Len(s) + Len(t) PROVE Lens(s \o t)[i] = u[i]
    <3>0. i \in 1..Len(s \o t) /\ s \o t \in Seq(A)
      BY <1>2
    <3>1. Lens(s \o t)[i] = (s \o t)[i].len
      BY <1>1, <3>0
    <3>2. Len(s) \in Nat /\ Len(t) \in Nat
      BY LenProperties
    <3>3. CASE i <= Len(s)
      <4>1. i \in 1..Len(s)
        BY <3>2, <3>3
      <4>2. Lens(s)[i] = s[i].len /\ (s \o t)[i] = s[i] /\ u[i] = Lens(s)[i]
        BY <1>1, <1>2, <2>1, <3>3, <4>1
      <4> QED
        BY <3>1, <4>2
    <3>4. CASE ~(i <= Len(s))
      <4>1. i - Len(s) \in 1..Len(t)
        BY <3>2, <3>4
      <4>2. Lens(t)[i - Len(s)] = t[i - Len(s)].len
        BY <1>1, <4>1
      <4>3. (s \o t)[i] = t[i - Len(s)] /\ u[i] = Lens(t)[i - Len(s)]
        BY <1>2, <2>1, <3>4
      <4> QED
        BY <3>1, <4>2, <4>3
    <3> QED
      BY <3>3, <3>4
  <2>3. Lens(s \o t) \in Seq(Nat) /\ Len(Lens(s \o t)) = Len(u)
    BY <1>1, <1>2, <2>1
  <2>4. \A i \in 1..Len(Lens(s \o t)) : Lens(s \o t)[i] = u[i]
    BY <2>1, <2>2, <2>3
  <2> HIDE DEF u
  <2>5. Lens(s \o t) = u
    BY <2>1, <2>3, <2>4, SeqEqual
  <2> QED
    BY <2>5 DEF u
<1> QED
  BY <1>1, <1>3, SumRules

\* FlattenSeq puts one sequence behind the other.
LEMMA FlattenIsConcat ==
    ASSUME NEW ss, NEW n \in Nat \ {0}, Len(ss) = n
    PROVE  \E f : /\ f[1] = ss[1] /\ \A i \in 2..n : f[i] = f[i - 1] \o ss[i]
                  /\ FlattenSeq(ss) = f[n]
<1> DEFINE Body(f) == [i \in 1..n |-> IF i = 1 THEN ss[i] ELSE f[i - 1] \o ss[i]]
<1> DEFINE flatten == CHOOSE f : f = Body(f)
<1>1. FlattenSeq(ss) = flatten[n]
  BY DEF FlattenSeq
<1> DEFINE S == {m \in Nat : \E f : f[1] = ss[1] /\ \A i \in 2..m : f[i] = f[i - 1] \o ss[i]}
<1>2. 0 \in S
  <2>1. [i \in {1} |-> ss[1]][1] = ss[1] /\ 2..0 = {}
    OBVIOUS
  <2> QED
    BY <2>1
<1>3. ASSUME NEW m \in Nat, m \in S PROVE m + 1 \in S
  <2>1. PICK f : f[1] = ss[1] /\ \A i \in 2..m : f[i] = f[i - 1] \o ss[i]
    BY <1>3, Zenon
  <2> DEFINE g == [i \in 1..m + 1 |-> IF i = 1 THEN ss[1] ELSE IF i = m + 1 THEN f[m] \o ss[i] ELSE f[i]]
  <2>2. g[1] = ss[1]
    OBVIOUS
  <2>3. ASSUME NEW i \in 1..m PROVE g[i] = f[i]
    <3>1. i \in 1..m + 1 /\ i # m + 1
      OBVIOUS
    <3> QED
      BY <2>1, <3>1
  <2>4. ASSUME m + 1 > 1 PROVE g[m + 1] = f[m] \o ss[m + 1]
    <3>1. m + 1 \in 1..m + 1 /\ m + 1 # 1
      BY <2>4
    <3> QED
      BY <3>1
  <2> HIDE DEF g
  <2>5. ASSUME NEW i \in 2..m + 1 PROVE g[i] = g[i - 1] \o ss[i]
    <3>1. CASE i = m + 1
      <4>1. i - 1 = m /\ m \in 1..m /\ m + 1 > 1
        BY <3>1
      <4> QED
        BY <2>3, <2>4, <3>1, <4>1
    <3>2. CASE i # m + 1
      <4>1. i \in 2..m /\ i \in 1..m /\ i - 1 \in 1..m
        BY <3>2
      <4> QED
        BY <2>1, <2>3, <4>1
    <3> QED
      BY <3>1, <3>2
  <2>6. \A i \in 2..m + 1 : g[i] = g[i - 1] \o ss[i]
    BY <2>5
  <2>7. \E h : h[1] = ss[1] /\ \A i \in 2..m + 1 : h[i] = h[i - 1] \o ss[i]
    BY <2>2, <2>6, Zenon
  <2> QED
    BY <2>7, m + 1 \in Nat, Zenon
<1> HIDE DEF S
<1>4. n \in S
  BY <1>2, <1>3, SetInduction
<1>5. PICK f : f[1] = ss[1] /\ \A i \in 2..n : f[i] = f[i - 1] \o ss[i]
  BY <1>4, Zenon DEF S
<1>6. Body(f) = Body(Body(f))
  <2>1. ASSUME NEW i \in 1..n PROVE Body(f)[i] = f[i]
    <3>1. i = 1 \/ i \in 2..n
      OBVIOUS
    <3> QED
      BY <1>5, <3>1
  <2>2. \A i \in 1..n : i # 1 => Body(f)[i - 1] = f[i - 1]
    BY <2>1
  <2>3. \A i \in 1..n : Body(f)[i] = Body(Body(f))[i]
    BY <2>2
  <2> QED
    BY <2>3
<1>7. flatten = Body(flatten)
  BY <1>6
<1> HIDE DEF flatten
<1>8. flatten[1] = ss[1]
  <2>1. 1 \in 1..n
    OBVIOUS
  <2> QED
    BY <1>7, <2>1
<1>9. ASSUME NEW i \in 2..n PROVE flatten[i] = flatten[i - 1] \o ss[i]
  <2>1. i \in 1..n /\ i # 1
    OBVIOUS
  <2> QED
    BY <1>7, <2>1
<1> QED
  BY <1>1, <1>8, <1>9

\* A message: parts that are not empty.
IsMessage(parts) == parts \in Seq(Nat \ {0}) /\ Len(parts) > 0

\* What is packed.
Atom == [part : Nat, len : Nat]

\* An atom fits like the chunk it makes up alone.
AtomFits(parts, a) ==
    a.len \in 1..MaxMessageLen + (IF a.part > 1 /\ parts[a.part] + SepLen > MaxMessageLen
                                  THEN SepLen ELSE 0)

\* Atoms of the first k parts, which have this length.
AreAtoms(parts, k, s, len) ==
    /\ s \in Seq(Atom) /\ Sum(Lens(s)) = len
    /\ Len(s) > 0 /\ s[1].part = 1
    /\ \A i \in 1..Len(s) : s[i].part \in 1..k /\ AtomFits(parts, s[i])
    /\ \A i, j \in 1..Len(s) : i < j => s[i].part <= s[j].part

\* The atoms of one part.
AtomsOf(parts, k) ==
    [j \in DOMAIN SplitByNewlines(parts[k]) |->
        [part |-> k, len |-> SplitByNewlines(parts[k])[j] + (IF k > 1 /\ j = 1 THEN SepLen ELSE 0)]]

\* More at the start is more in the sum.
LEMMA SumOfMore ==
    ASSUME NEW s \in Seq(Int), NEW t \in Seq(Int), Len(s) > 0, Len(t) = Len(s), NEW more \in Int,
           t[1] = s[1] + more, \A i \in 2..Len(s) : t[i] = s[i]
    PROVE  Sum(t) = Sum(s) + more
<1> DEFINE n == Len(s)
<1>1. n \in Nat \ {0} /\ \A i \in 1..n : s[i] \in Int /\ t[i] \in Int
  BY LenProperties, ElementOfSeq
<1>2. PICK f \in [0..n -> Int] : SumsUp(s, f, n) /\ Sum(s) = f[n]
  <2>1. n \in 0..n
    BY <1>1
  <2>2. PICK f \in [0..n -> Int] : SumsUp(s, f, n)
    BY <1>1, <2>1, SumsExist
  <2> QED
    BY <1>1, <2>2, SumIsLast
<1> DEFINE h == [i \in 0..n |-> IF i = 0 THEN 0 ELSE f[i] + more]
<1>3. h \in [0..n -> Int] /\ h[0] = 0 /\ h[n] = f[n] + more
  BY <1>1
<1>4. ASSUME NEW i \in 1..n PROVE h[i] = f[i] + more /\ f[i] \in Int
  <2>1. i \in 0..n /\ i # 0
    BY <1>1
  <2> QED
    BY <2>1
<1> HIDE DEF h, n
<1>5. ASSUME NEW i \in 1..n PROVE h[i] = h[i - 1] + t[i]
  <2>1. f[0] = 0 /\ f[i] = f[i - 1] + s[i] /\ i \in Nat
    BY <1>1, <1>2 DEF SumsUp
  <2>2. CASE i = 1
    <3>1. f[1] = s[1] /\ h[1] = f[1] + more /\ i - 1 = 0
      BY <1>1, <1>4, <2>1, <2>2
    <3> QED
      BY <1>1, <1>3, <2>2, <3>1
  <2>3. CASE i # 1
    <3>1. i - 1 \in 1..n /\ i \in 2..n
      BY <1>1, <2>3
    <3>2. h[i - 1] = f[i - 1] + more /\ f[i - 1] \in Int /\ t[i] = s[i]
      BY <1>4, <3>1 DEF n
    <3>3. h[i] = f[i] + more /\ f[i] \in Int /\ s[i] \in Int
      BY <1>1, <1>4
    <3> QED
      BY <2>1, <3>2, <3>3, SMTT(20)
  <2> QED
    BY <2>2, <2>3
<1>6. SumsUp(t, h, n)
  BY <1>3, <1>5 DEF SumsUp
<1>7. Sum(t) = h[n]
  BY <1>3, <1>6, SumIsLast DEF n
<1> QED
  BY <1>2, <1>3, <1>7

\* The atoms of a part, the first with the separator, make up its length.
LEMMA AtomsOfPart ==
    ASSUME NEW parts, IsMessage(parts), NEW k \in 1..Len(parts)
    PROVE  /\ AtomsOf(parts, k) \in Seq(Atom) /\ Len(AtomsOf(parts, k)) > 0
           /\ Sum(Lens(AtomsOf(parts, k))) = parts[k] + (IF k > 1 THEN SepLen ELSE 0)
           /\ \A i \in 1..Len(AtomsOf(parts, k)) :
                 AtomsOf(parts, k)[i].part = k /\ AtomFits(parts, AtomsOf(parts, k)[i])
<1> DEFINE p == SplitByNewlines(parts[k])
<1> DEFINE more == IF k > 1 THEN SepLen ELSE 0
<1>1. parts[k] \in Nat \ {0} /\ MaxMessageLen \in Nat /\ SepLen \in Nat /\ k \in Nat \ {0}
      /\ Len(parts) \in Nat
  BY ElementOfSeq, LenProperties, ChannelConstants DEF IsMessage
<1>2. IsPieces(parts[k], p) /\ (parts[k] <= MaxMessageLen => p = <<parts[k]>>)
  BY <1>1, SplitIntoPieces
<1>3. AtomsOf(parts, k) = [j \in DOMAIN p |-> [part |-> k, len |-> p[j] + (IF k > 1 /\ j = 1 THEN SepLen ELSE 0)]]
  BY DEF AtomsOf
<1>4. more \in Nat /\ (k > 1 => more = SepLen) /\ (~(k > 1) => more = 0)
  BY <1>1
<1> HIDE DEF p
<1>5. /\ p \in Seq(Nat) /\ DOMAIN p = 1..Len(p) /\ Len(p) \in Nat \ {0}
      /\ \A j \in 1..Len(p) : p[j] \in 1..MaxMessageLen
  BY <1>1, <1>2, LenProperties, ElementOfSeq DEF IsPieces
<1> DEFINE s == AtomsOf(parts, k)
<1> DEFINE len(j) == p[j] + (IF k > 1 /\ j = 1 THEN SepLen ELSE 0)
<1>6. s = [j \in 1..Len(p) |-> [part |-> k, len |-> len(j)]]
  BY <1>3, <1>5
<1>7. \A j \in 1..Len(p) : len(j) \in Nat /\ len(j) = IF j = 1 THEN p[j] + more ELSE p[j]
  BY <1>1, <1>5
<1> HIDE DEF s, len, more
<1>8. /\ s \in Seq(Atom) /\ Len(s) = Len(p) /\ DOMAIN s = 1..Len(p)
      /\ \A j \in 1..Len(p) : s[j].part = k /\ s[j].len = len(j)
  <2>1. s \in [1..Len(p) -> Atom]
    BY <1>1, <1>5, <1>6, <1>7 DEF Atom
  <2> QED
    BY <1>5, <1>6, <2>1, IsASeq
<1>9. Sum(Lens(s)) = parts[k] + more
  <2>1. Lens(s) = [j \in 1..Len(p) |-> len(j)]
    BY <1>8 DEF Lens
  <2>2. Lens(s) \in [1..Len(p) -> Int]
    BY <1>7, <2>1
  <2>3. Lens(s) \in Seq(Int) /\ Len(Lens(s)) = Len(p)
    BY <1>5, <2>2, IsASeq, SMTT(20)
  <2>4. 1 \in 1..Len(p) /\ \A j \in 2..Len(p) : j \in 1..Len(p) /\ j # 1
    BY <1>5
  <2>5. Lens(s)[1] = p[1] + more /\ \A j \in 2..Len(p) : Lens(s)[j] = p[j]
    BY <1>7, <2>1, <2>4
  <2>6. p \in Seq(Int)
    BY <1>5
  <2> DEFINE q == Lens(s)
  <2> HIDE DEF q
  <2>7. q \in Seq(Int) /\ Len(q) = Len(p) /\ Len(p) > 0 /\ more \in Int /\ q[1] = p[1] + more
        /\ \A j \in 2..Len(p) : q[j] = p[j]
    BY <1>4, <1>5, <2>3, <2>5 DEF q
  <2>8. Sum(q) = Sum(p) + more
    BY <2>6, <2>7, SumOfMore
  <2> QED
    BY <1>2, <2>8 DEF IsPieces, q
<1>10. ASSUME NEW j \in 1..Len(p) PROVE AtomFits(parts, s[j])
  <2>1. s[j].part = k /\ s[j].len = (IF j = 1 THEN p[j] + more ELSE p[j]) /\ p[j] \in 1..MaxMessageLen
    BY <1>5, <1>7, <1>8
  <2>2. CASE s[j].len <= MaxMessageLen
    <3>1. s[j].len \in 1..MaxMessageLen
      BY <1>1, <1>4, <2>1, <2>2
    <3> QED
      BY <1>1, <3>1 DEF AtomFits
  <2>3. CASE ~(s[j].len <= MaxMessageLen)
    <3>1. j = 1 /\ k > 1 /\ s[j].len = p[1] + SepLen
      BY <1>1, <1>4, <2>1, <2>3
    <3>2. parts[k] + SepLen > MaxMessageLen
      <4>1. CASE parts[k] <= MaxMessageLen
        <5>1. p[1] = parts[k]
          BY <1>2, <4>1
        <5> QED
          BY <1>1, <2>1, <2>3, <3>1, <5>1
      <4>2. CASE ~(parts[k] <= MaxMessageLen)
        BY <1>1, <4>2
      <4> QED
        BY <4>1, <4>2
    <3>3. s[j].len \in 1..MaxMessageLen + SepLen
      BY <1>1, <2>1, <3>1
    <3> QED
      BY <2>1, <3>1, <3>2, <3>3 DEF AtomFits
  <2> QED
    BY <2>2, <2>3
<1> QED
  BY <1>5, <1>8, <1>9, <1>10 DEF s, more

\* The atoms of more parts.
LEMMA AtomsAdded ==
    ASSUME NEW parts, NEW k \in Nat, NEW s, NEW len \in Int, AreAtoms(parts, k, s, len),
           NEW a \in Seq(Atom), NEW more \in Int, Sum(Lens(a)) = more,
           \A i \in 1..Len(a) : a[i].part = k + 1 /\ AtomFits(parts, a[i])
    PROVE  AreAtoms(parts, k + 1, s \o a, len + more)
<1> DEFINE t == s \o a
<1>1. s \in Seq(Atom) /\ Len(s) \in Nat \ {0} /\ Len(a) \in Nat
  BY LenProperties DEF AreAtoms
<1>2. /\ t \in Seq(Atom) /\ Len(t) = Len(s) + Len(a)
      /\ \A i \in 1..Len(s) + Len(a) : t[i] = IF i <= Len(s) THEN s[i] ELSE a[i - Len(s)]
  BY <1>1, ConcatProperties
<1>3. /\ \A i \in 1..Len(s) : t[i] = s[i]
      /\ \A i \in 1..Len(t) : i \notin 1..Len(s) => i - Len(s) \in 1..Len(a) /\ t[i] = a[i - Len(s)]
  BY <1>1, <1>2
<1>4. Sum(Lens(t)) = len + more
  <2>1. \A x \in Atom : x.len \in Nat
    BY DEF Atom
  <2>2. Sum(Lens(t)) = Sum(Lens(s)) + Sum(Lens(a))
    BY <1>1, <2>1, LensOfConcat
  <2> QED
    BY <2>2 DEF AreAtoms
<1> HIDE DEF t
<1>5. ASSUME NEW i \in 1..Len(s) PROVE t[i].part \in 1..k /\ AtomFits(parts, t[i])
  BY <1>3 DEF AreAtoms
<1>6. ASSUME NEW i \in 1..Len(t), i \notin 1..Len(s) PROVE t[i].part = k + 1 /\ AtomFits(parts, t[i])
  BY <1>3, <1>6
<1>7. ASSUME NEW i \in 1..Len(t) PROVE t[i].part \in 1..k + 1 /\ AtomFits(parts, t[i])
  <2>1. CASE i \in 1..Len(s)
    BY <1>5, <2>1
  <2>2. CASE i \notin 1..Len(s)
    BY <1>6, <2>2
  <2> QED
    BY <2>1, <2>2
<1>8. ASSUME NEW i \in 1..Len(t), NEW j \in 1..Len(t), i < j PROVE t[i].part <= t[j].part
  <2>1. CASE j \in 1..Len(s)
    <3>1. i \in 1..Len(s)
      BY <1>1, <1>8, <2>1
    <3>2. s[i].part <= s[j].part
      BY <1>8, <2>1, <3>1 DEF AreAtoms
    <3> QED
      BY <1>3, <2>1, <3>1, <3>2
  <2>2. CASE j \notin 1..Len(s)
    <3>1. t[j].part = k + 1 /\ t[i].part \in 1..k + 1
      BY <1>6, <1>7, <2>2
    <3> QED
      BY <3>1
  <2> QED
    BY <2>1, <2>2
<1>9. Len(t) > 0 /\ t[1].part = 1
  <2>1. 1 \in 1..Len(s)
    BY <1>1
  <2>2. t[1] = s[1] /\ s[1].part = 1
    BY <1>3, <2>1 DEF AreAtoms
  <2> QED
    BY <1>1, <1>2, <2>2
<1>10. AreAtoms(parts, k + 1, t, len + more)
  BY <1>2, <1>4, <1>7, <1>8, <1>9 DEF AreAtoms
<1> QED
  BY <1>10 DEF t

\* The atoms of a message make up its length.
LEMMA AtomsOfMessage ==
    ASSUME NEW parts, IsMessage(parts)
    PROVE  AreAtoms(parts, Len(parts), Atoms(parts), TotalLen(parts)) /\ TotalLen(parts) \in Int
<1> DEFINE n == Len(parts)
<1> DEFINE ss == [k \in DOMAIN parts |-> AtomsOf(parts, k)]
<1>1. parts \in Seq(Int) /\ n \in Nat \ {0} /\ DOMAIN parts = 1..n /\ SepLen \in Nat
      /\ MaxMessageLen \in Nat /\ \A k \in 1..n : parts[k] \in Nat \ {0}
  BY LenProperties, ElementOfSeq, ChannelConstants DEF IsMessage
<1>2. Atoms(parts) = FlattenSeq(ss)
  BY DEF Atoms, AtomsOf
<1>3. Len(ss) = n /\ \A k \in 1..n : ss[k] = AtomsOf(parts, k)
  BY <1>1
<1> HIDE DEF ss, n
<1>4. PICK f : /\ f[1] = ss[1] /\ \A i \in 2..n : f[i] = f[i - 1] \o ss[i]
               /\ FlattenSeq(ss) = f[n]
  BY <1>1, <1>3, FlattenIsConcat, ZenonT(30)
<1>5. PICK g \in [0..n -> Int] : SumsUp(parts, g, n) /\ Sum(parts) = g[n]
  <2>1. PICK g \in [0..n -> Int] : SumsUp(parts, g, n)
    BY <1>1, SumsExist DEF n
  <2> QED
    BY <1>1, <2>1, SumIsLast DEF n
<1> DEFINE S == {m \in Nat : m \in 1..n => AreAtoms(parts, m, f[m], g[m] + SepLen * (m - 1))}
<1>6. AreAtoms(parts, 1, f[1], g[1] + SepLen * (1 - 1))
  <2>1. g[0] = 0 /\ g[1] = g[1 - 1] + parts[1] /\ parts[1] \in Nat
    BY <1>1, <1>5 DEF SumsUp
  <2>2. g[1] + SepLen * (1 - 1) = parts[1]
    BY <1>1, <2>1
  <2>3. 1 \in 1..n /\ f[1] = AtomsOf(parts, 1)
    BY <1>1, <1>3, <1>4
  <2> DEFINE a == AtomsOf(parts, 1)
  <2>4. /\ a \in Seq(Atom) /\ Len(a) > 0 /\ Sum(Lens(a)) = parts[1] + 0
        /\ \A i \in 1..Len(a) : a[i].part = 1 /\ AtomFits(parts, a[i])
    BY <2>3, AtomsOfPart DEF n
  <2> HIDE DEF a
  <2>5. Len(a) \in Nat /\ 1 \in 1..Len(a)
    BY <2>4, LenProperties
  <2>6. AreAtoms(parts, 1, a, parts[1])
    BY <2>1, <2>4, <2>5 DEF AreAtoms
  <2> QED
    BY <2>2, <2>3, <2>6 DEF a
<1>7. ASSUME NEW m \in Nat, m \in S PROVE m + 1 \in S
  <2> SUFFICES ASSUME m + 1 \in 1..n PROVE AreAtoms(parts, m + 1, f[m + 1], g[m + 1] + SepLen * (m + 1 - 1))
    OBVIOUS
  <2>0. CASE m = 0
    BY <1>6, <2>0
  <2>1. CASE m # 0
    <3> DEFINE more == parts[m + 1] + SepLen
    <3>1. m \in 1..n /\ m \in 0..n /\ m + 1 \in 2..n /\ m + 1 - 1 = m
      BY <1>1, <2>1
    <3>2. AreAtoms(parts, m, f[m], g[m] + SepLen * (m - 1))
      BY <1>7, <3>1
    <3> DEFINE a == AtomsOf(parts, m + 1)
    <3>3. /\ ss[m + 1] = a /\ a \in Seq(Atom) /\ Sum(Lens(a)) = more /\ more \in Int
          /\ \A i \in 1..Len(a) : a[i].part = m + 1 /\ AtomFits(parts, a[i])
      <4>1. m + 1 \in 1..n /\ m + 1 > 1 /\ parts[m + 1] \in Nat
        BY <1>1, <2>1
      <4> QED
        BY <1>1, <1>3, <4>1, AtomsOfPart DEF n
    <3>4. f[m + 1] = f[m] \o ss[m + 1]
      <4>1. PICK i : i = m + 1
        OBVIOUS
      <4>2. i \in 2..n /\ i - 1 = m
        BY <3>1, <4>1
      <4>3. f[i] = f[i - 1] \o ss[i]
        BY <1>4, <4>2
      <4> QED
        BY <4>1, <4>2, <4>3
    <3>5. g[m + 1] = g[m] + parts[m + 1]
      BY <1>5, <3>1 DEF SumsUp
    <3>6. /\ SepLen * (m - 1) \in Int /\ g[m] \in Int
          /\ SepLen * (m + 1 - 1) = SepLen * (m - 1) + SepLen
      BY <1>1, <1>5, <3>1
    <3>7. g[m + 1] + SepLen * (m + 1 - 1) = (g[m] + SepLen * (m - 1)) + more
      BY <1>1, <3>5, <3>6, SMTT(20)
    <3>8. g[m] + SepLen * (m - 1) \in Int
      BY <3>6
    <3> HIDE DEF more, a
    <3>9. AreAtoms(parts, m + 1, f[m] \o a, (g[m] + SepLen * (m - 1)) + more)
      BY <3>2, <3>3, <3>8, AtomsAdded
    <3> QED
      BY <3>3, <3>4, <3>7, <3>9
  <2> QED
    BY <2>0, <2>1
<1> HIDE DEF S
<1>8. 0 \in S /\ n \in Nat
  BY <1>1 DEF S
<1>9. AreAtoms(parts, n, f[n], g[n] + SepLen * (n - 1))
  <2>1. Nat \subseteq S
    BY <1>7, <1>8, SetInduction
  <2>2. n \in S /\ n \in 1..n
    BY <1>1, <2>1
  <2> QED
    BY <2>2 DEF S
<1>10. TotalLen(parts) = g[n] + SepLen * (n - 1) /\ g[n] \in Int /\ SepLen * (n - 1) \in Int
  BY <1>1, <1>5 DEF TotalLen, n
<1> QED
  BY <1>2, <1>4, <1>9, <1>10 DEF n

-----------------------------------------------------------------------------
(* Packing *)

\* What is within the limit fits.
LEMMA ShortFits ==
    ASSUME NEW parts, NEW c, c.len \in Int, c.len <= MaxMessageLen PROVE Fits(c, parts)
BY ChannelConstants DEF Fits

\* An atom makes up a chunk that fits.
LEMMA AtomIsChunk ==
    ASSUME NEW parts, NEW a, NEW c, AtomFits(parts, a), c.len = a.len, c.parts = {a.part}
    PROVE  Fits(c, parts)
<1>1. MaxMessageLen \in Nat /\ SepLen \in Nat
  BY ChannelConstants
<1>2. CASE a.part > 1 /\ parts[a.part] + SepLen > MaxMessageLen
  <2>1. c.len <= MaxMessageLen + SepLen
    BY <1>1, <1>2 DEF AtomFits
  <2>2. \E k \in c.parts : k > 1 /\ parts[k] + SepLen > MaxMessageLen
    BY <1>2
  <2> QED
    BY <2>1, <2>2 DEF Fits
<1>3. CASE ~(a.part > 1 /\ parts[a.part] + SepLen > MaxMessageLen)
  <2>1. c.len \in 1..MaxMessageLen + 0
    BY <1>3 DEF AtomFits
  <2> QED
    BY <1>1, <2>1, ShortFits
<1> QED
  BY <1>2, <1>3

\* The texts of a part are in the order of the parts.
InOrder(s) ==
    \A j, k \in DOMAIN s : j < k => \A a \in s[j].parts, b \in s[k].parts : a <= b

\* What the first atoms, of this length together, were packed to; what follows
\* is of part next or a later one.
Packed(parts, acc, len, next) ==
    /\ acc = [done |-> acc.done, cur |-> acc.cur]
    /\ acc.done \in Seq([len : Nat, parts : SUBSET Nat]) /\ acc.cur \in [len : Nat, parts : SUBSET Nat]
    /\ \A j \in 1..Len(acc.done) : Fits(acc.done[j], parts)
    /\ Fits(acc.cur, parts)
    /\ Sum(Lens(acc.done)) + acc.cur.len = len
    /\ InOrder(acc.done)
    /\ \A j \in 1..Len(acc.done) : \A a \in acc.done[j].parts :
          a <= next /\ \A b \in acc.cur.parts : a <= b
    /\ \A a \in acc.cur.parts : a <= next

\* A chunk at the end.
LEMMA ChunkAdded ==
    ASSUME NEW s \in Seq([len : Nat, parts : SUBSET Nat]), NEW c \in [len : Nat, parts : SUBSET Nat],
           InOrder(s), \A j \in 1..Len(s) : \A a \in s[j].parts, b \in c.parts : a <= b
    PROVE  /\ Append(s, c) \in Seq([len : Nat, parts : SUBSET Nat]) /\ Len(Append(s, c)) = Len(s) + 1
           /\ \A j \in 1..Len(s) : Append(s, c)[j] = s[j]
           /\ Append(s, c)[Len(s) + 1] = c
           /\ Sum(Lens(Append(s, c))) = Sum(Lens(s)) + c.len /\ Sum(Lens(s)) \in Int
           /\ InOrder(Append(s, c))
<1> DEFINE C == [len : Nat, parts : SUBSET Nat]
<1> DEFINE t == Append(s, c)
<1>1. /\ t \in Seq(C) /\ Len(t) = Len(s) + 1 /\ Len(s) \in Nat
      /\ t[Len(s) + 1] = c /\ \A j \in 1..Len(s) : t[j] = s[j]
  BY AppendProperties, LenProperties
<1>2. Sum(Lens(t)) = Sum(Lens(s)) + c.len /\ Sum(Lens(s)) \in Int
  <2>1. t = s \o <<c>> /\ <<c>> \in Seq(C)
    BY AppendIsConcat
  <2>2. \A x \in C : x.len \in Nat
    OBVIOUS
  <2>3. Lens(<<c>>) = <<c.len>> /\ c.len \in Int
    BY DEF Lens
  <2> HIDE DEF C, t
  <2>4. Sum(Lens(t)) = Sum(Lens(s)) + Sum(Lens(<<c>>)) /\ Lens(s) \in Seq(Int)
    BY <2>1, <2>2, LensOfConcat DEF C
  <2> QED
    BY <2>3, <2>4, SumRules
<1> HIDE DEF t
<1>3. InOrder(t)
  <2> SUFFICES ASSUME NEW j \in DOMAIN t, NEW k \in DOMAIN t, j < k,
                      NEW a \in t[j].parts, NEW b \in t[k].parts
               PROVE  a <= b
    BY DEF InOrder
  <2>1. DOMAIN t = 1..Len(s) + 1 /\ DOMAIN s = 1..Len(s)
    BY <1>1, LenProperties
  <2>2. j \in 1..Len(s) /\ t[j] = s[j]
    BY <1>1, <2>1
  <2>3. CASE k \in 1..Len(s)
    BY <1>1, <2>1, <2>2, <2>3 DEF InOrder
  <2>4. CASE k = Len(s) + 1
    BY <1>1, <2>2, <2>4
  <2> QED
    BY <1>1, <2>1, <2>3, <2>4
<1> QED
  BY <1>1, <1>2, <1>3 DEF t

\* packListingChunks on one more atom.
LEMMA AtomPacked ==
    ASSUME NEW parts, NEW acc, NEW len \in Int, NEW atom \in Atom, Packed(parts, acc, len, atom.part),
           AtomFits(parts, atom), acc.cur.len = 0 => atom.len <= MaxMessageLen, NEW next \in Nat, atom.part <= next
    PROVE  Packed(parts, PackAtom(acc, atom), len + atom.len, next) /\ PackAtom(acc, atom).cur.len > 0
<1> DEFINE C == [len : Nat, parts : SUBSET Nat]
<1> DEFINE new == Chunk(atom.len, {atom.part})
<1>0. MaxMessageLen \in Nat /\ atom.part \in Nat /\ atom.len \in Nat \ {0}
  <2>1. atom.len \in Nat /\ atom.part \in Nat /\ MaxMessageLen \in Nat
    BY ChannelConstants DEF Atom
  <2>2. atom.len >= 1
    BY <2>1, ChannelConstants DEF AtomFits
  <2> QED
    BY <2>1, <2>2
<1>1. new \in C /\ new.len = atom.len /\ new.parts = {atom.part} /\ Fits(new, parts)
  <2>1. new \in C /\ new.len = atom.len /\ new.parts = {atom.part}
    BY <1>0 DEF Chunk
  <2> HIDE DEF new
  <2> QED
    BY <2>1, AtomIsChunk
<1>2. /\ acc.done \in Seq(C) /\ acc.cur \in C /\ acc.cur.len \in Nat /\ acc.cur.parts \subseteq Nat
      /\ acc = [done |-> acc.done, cur |-> acc.cur]
  BY DEF Packed
<1>3. \A j \in 1..Len(acc.done) : acc.done[j] \in C
  BY <1>2, ElementOfSeq
<1>4. Sum(Lens(acc.done)) \in Int /\ Sum(Lens(acc.done)) + acc.cur.len = len
  <2>1. \A x \in C : x.len \in Nat
    OBVIOUS
  <2> HIDE DEF C
  <2>2. Lens(acc.done) \in Seq(Int)
    BY <1>2, <2>1, LensOfConcat
  <2> QED
    BY <2>2, SumRules DEF Packed
<1>5. \A j \in 1..Len(acc.done) : \A a \in acc.done[j].parts : a \in Nat /\ a <= atom.part /\ a <= next
  BY <1>0, <1>3 DEF Packed
<1>6. \A a \in acc.cur.parts : a \in Nat /\ a <= atom.part /\ a <= next
  BY <1>0, <1>2 DEF Packed
<1> DEFINE p == PackAtom(acc, atom)
<1>7. CASE acc.cur.len = 0
  <2>1. p = [acc EXCEPT !.cur = new]
    BY <1>0, <1>7 DEF PackAtom
  <2>2. p = [done |-> acc.done, cur |-> new] /\ p.done = acc.done /\ p.cur = new
    BY <1>2, <2>1
  <2> HIDE DEF p, new
  <2>3. Sum(Lens(p.done)) + p.cur.len = len + atom.len
    BY <1>0, <1>1, <1>4, <1>7, <2>2
  <2>4. \A j \in 1..Len(p.done) : \A a \in p.done[j].parts : a <= next /\ \A b \in p.cur.parts : a <= b
    BY <1>1, <1>5, <2>2
  <2> QED
    BY <1>0, <1>1, <1>2, <2>2, <2>3, <2>4 DEF Packed, p
<1>8. CASE acc.cur.len > 0 /\ acc.cur.len + atom.len <= MaxMessageLen
  <2> DEFINE grown == Chunk(acc.cur.len + atom.len, acc.cur.parts \cup {atom.part})
  <2>1. p = [acc EXCEPT !.cur = grown]
    BY <1>0, <1>2, <1>8 DEF PackAtom
  <2>2. p = [done |-> acc.done, cur |-> grown] /\ p.done = acc.done /\ p.cur = grown
    BY <1>2, <2>1
  <2>3. grown \in C /\ grown.len = acc.cur.len + atom.len /\ grown.parts = acc.cur.parts \cup {atom.part}
    BY <1>0, <1>2 DEF Chunk
  <2> HIDE DEF p, grown
  <2>4. Sum(Lens(p.done)) + p.cur.len = len + atom.len
    BY <1>0, <1>2, <1>4, <2>2, <2>3
  <2>5. \A j \in 1..Len(p.done) : \A a \in p.done[j].parts : a <= next /\ \A b \in p.cur.parts : a <= b
    <3> SUFFICES ASSUME NEW j \in 1..Len(acc.done), NEW a \in acc.done[j].parts
                 PROVE  a <= next /\ \A b \in acc.cur.parts \cup {atom.part} : a <= b
      BY <2>2, <2>3
    <3>1. \A b \in acc.cur.parts : a <= b
      BY DEF Packed
    <3> QED
      BY <1>5, <3>1
  <2>6. p.cur.len > 0
    BY <1>0, <1>2, <2>2, <2>3
  <2>7. Packed(parts, p, len + atom.len, next)
    <3>1. p = [done |-> p.done, cur |-> p.cur] /\ p.done \in Seq(C) /\ p.cur \in C
      BY <1>2, <2>2, <2>3
    <3>2. InOrder(p.done) /\ \A j \in 1..Len(p.done) : Fits(p.done[j], parts)
      BY <2>2 DEF Packed
    <3>3. Fits(p.cur, parts) /\ \A a \in p.cur.parts : a <= next
      <4>1. p.cur.len \in Int /\ p.cur.len <= MaxMessageLen
        BY <1>0, <1>2, <1>8, <2>2, <2>3
      <4> QED
        BY <1>6, <2>2, <2>3, <4>1, ShortFits
    <3> QED
      BY <2>4, <2>5, <3>1, <3>2, <3>3 DEF Packed
  <2> QED
    BY <2>6, <2>7 DEF p
<1>9. CASE acc.cur.len > 0 /\ ~(acc.cur.len + atom.len <= MaxMessageLen)
  <2>1. p = [done |-> Append(acc.done, acc.cur), cur |-> new]
    BY <1>0, <1>2, <1>9 DEF PackAtom
  <2>2. p.done = Append(acc.done, acc.cur) /\ p.cur = new
    BY <2>1
  <2>3. /\ \A j \in 1..Len(acc.done) : Fits(acc.done[j], parts)
        /\ Fits(acc.cur, parts) /\ InOrder(acc.done)
        /\ \A j \in 1..Len(acc.done) : \A a \in acc.done[j].parts, b \in acc.cur.parts : a <= b
    BY DEF Packed
  <2> HIDE DEF p, new
  <2>0. acc.done \in Seq([len : Nat, parts : SUBSET Nat]) /\ acc.cur \in [len : Nat, parts : SUBSET Nat]
    BY DEF Packed
  <2>4. /\ p.done \in Seq(C) /\ Len(p.done) = Len(acc.done) + 1
        /\ \A j \in 1..Len(acc.done) : p.done[j] = acc.done[j]
        /\ p.done[Len(acc.done) + 1] = acc.cur
        /\ Sum(Lens(p.done)) = Sum(Lens(acc.done)) + acc.cur.len
        /\ InOrder(p.done)
    <3> HIDE DEF C
    <3>1. /\ Append(acc.done, acc.cur) \in Seq([len : Nat, parts : SUBSET Nat])
          /\ Len(Append(acc.done, acc.cur)) = Len(acc.done) + 1
          /\ \A j \in 1..Len(acc.done) : Append(acc.done, acc.cur)[j] = acc.done[j]
          /\ Append(acc.done, acc.cur)[Len(acc.done) + 1] = acc.cur
          /\ Sum(Lens(Append(acc.done, acc.cur))) = Sum(Lens(acc.done)) + acc.cur.len
          /\ InOrder(Append(acc.done, acc.cur))
      BY <2>0, <2>3, ChunkAdded, Zenon
    <3> QED
      BY <2>2, <3>1 DEF C
  <2>5. Sum(Lens(p.done)) + p.cur.len = len + atom.len
    BY <1>0, <1>1, <1>2, <1>4, <2>2, <2>4
  <2>6. ASSUME NEW j \in 1..Len(p.done), NEW a \in p.done[j].parts
        PROVE  a <= next /\ \A b \in p.cur.parts : a <= b
    <3>0. Len(acc.done) \in Nat
      BY <1>2, LenProperties
    <3>1. j \in 1..Len(acc.done) \/ j = Len(acc.done) + 1
      BY <2>4, <3>0
    <3>2. a <= atom.part /\ a <= next
      BY <1>5, <1>6, <2>4, <3>1
    <3> QED
      BY <1>1, <2>2, <3>2
  <2>7. Packed(parts, p, len + atom.len, next)
    <3>1. p = [done |-> p.done, cur |-> p.cur] /\ p.cur \in C
      BY <1>1, <2>1, <2>2
    <3>2. Fits(p.cur, parts) /\ \A a \in p.cur.parts : a <= next
      BY <1>0, <1>1, <2>2
    <3>3. ASSUME NEW j \in 1..Len(p.done) PROVE Fits(p.done[j], parts)
      <4>0. Len(acc.done) \in Nat
        BY <1>2, LenProperties
      <4>1. j \in 1..Len(acc.done) \/ j = Len(acc.done) + 1
        BY <2>4, <4>0
      <4> QED
        BY <2>3, <2>4, <4>1
    <3> QED
      BY <2>4, <2>5, <2>6, <3>1, <3>2, <3>3 DEF Packed
  <2> QED
    BY <1>0, <1>1, <2>2, <2>7 DEF p
<1> QED
  BY <1>2, <1>7, <1>8, <1>9

\* Packing runs through the atoms.
LEMMA PackingRuns ==
    ASSUME NEW parts, Len(Atoms(parts)) \in Nat
    PROVE  \E f : /\ f[0] = [done |-> <<>>, cur |-> Chunk(0, {})]
                  /\ \A n \in 1..Len(Atoms(parts)) : f[n] = PackAtom(f[n - 1], Atoms(parts)[n])
                  /\ PackListingChunks(parts) =
                        LET all == f[Len(Atoms(parts))]
                        IN  IF all.cur.len > 0 THEN Append(all.done, all.cur) ELSE all.done
<1> DEFINE atoms == Atoms(parts)
<1> DEFINE m == Len(atoms)
<1> DEFINE empty == [done |-> <<>>, cur |-> Chunk(0, {})]
<1> DEFINE Body(f) == [n \in 0..m |-> IF n = 0 THEN empty ELSE PackAtom(f[n - 1], atoms[n])]
<1> DEFINE packed == CHOOSE f : f = Body(f)
<1>1. PackListingChunks(parts) =
         LET all == packed[m] IN IF all.cur.len > 0 THEN Append(all.done, all.cur) ELSE all.done
  BY DEF PackListingChunks
<1>2. m \in Nat
  OBVIOUS
<1> HIDE DEF atoms, m, empty
<1> DEFINE S == {k \in Nat : \E f : f[0] = empty /\ \A n \in 1..k : f[n] = PackAtom(f[n - 1], atoms[n])}
<1>3. 0 \in S
  <2>1. [n \in {0} |-> empty][0] = empty /\ 1..0 = {}
    OBVIOUS
  <2> QED
    BY <2>1
<1>4. ASSUME NEW k \in Nat, k \in S PROVE k + 1 \in S
  <2>1. PICK f : f[0] = empty /\ \A n \in 1..k : f[n] = PackAtom(f[n - 1], atoms[n])
    BY <1>4, Zenon
  <2> DEFINE g == [n \in 0..k + 1 |-> IF n = k + 1 THEN PackAtom(f[k], atoms[n]) ELSE f[n]]
  <2>2. g[k + 1] = PackAtom(f[k], atoms[k + 1])
    OBVIOUS
  <2>3. ASSUME NEW n \in 0..k PROVE g[n] = f[n]
    <3>1. n \in 0..k + 1 /\ n # k + 1
      OBVIOUS
    <3> QED
      BY <3>1
  <2> HIDE DEF g
  <2>4. ASSUME NEW n \in 1..k + 1 PROVE g[n] = PackAtom(g[n - 1], atoms[n])
    <3>1. CASE n = k + 1
      <4>1. n - 1 = k /\ k \in 0..k
        BY <3>1
      <4> QED
        BY <2>2, <2>3, <3>1, <4>1
    <3>2. CASE n # k + 1
      <4>1. n \in 1..k /\ n \in 0..k /\ n - 1 \in 0..k
        BY <3>2
      <4>2. f[n] = PackAtom(f[n - 1], atoms[n])
        BY <2>1, <4>1
      <4>3. g[n] = f[n] /\ g[n - 1] = f[n - 1]
        BY <2>3, <4>1
      <4> QED
        BY <4>2, <4>3, Zenon
    <3> QED
      BY <3>1, <3>2
  <2>5. g[0] = empty
    BY <2>1, <2>3
  <2>6. \E h : h[0] = empty /\ \A n \in 1..k + 1 : h[n] = PackAtom(h[n - 1], atoms[n])
    BY <2>4, <2>5, Zenon
  <2> QED
    BY <2>6, k + 1 \in Nat, Zenon
<1> HIDE DEF S
<1>5. m \in S
  BY <1>2, <1>3, <1>4, SetInduction
<1>6. PICK f : f[0] = empty /\ \A n \in 1..m : f[n] = PackAtom(f[n - 1], atoms[n])
  BY <1>5, Zenon DEF S
<1>7. Body(f) = Body(Body(f))
  <2>1. ASSUME NEW n \in 0..m PROVE Body(f)[n] = f[n]
    <3>1. n = 0 \/ n \in 1..m
      BY <1>2
    <3> QED
      BY <1>6, <3>1
  <2>2. ASSUME NEW n \in 0..m PROVE Body(f)[n] = Body(Body(f))[n]
    <3>1. CASE n = 0
      BY <3>1
    <3>2. CASE n # 0
      <4>1. n - 1 \in 0..m
        BY <1>2, <3>2
      <4>2. Body(f)[n - 1] = f[n - 1]
        BY <2>1, <4>1
      <4> QED
        BY <3>2, <4>2
    <3> QED
      BY <3>1, <3>2
  <2> QED
    BY <2>2
<1>8. packed = Body(packed)
  BY <1>7
<1> HIDE DEF packed
<1>9. packed[0] = empty
  <2>1. 0 \in 0..m
    BY <1>2
  <2> QED
    BY <1>8, <2>1
<1>10. ASSUME NEW n \in 1..m PROVE packed[n] = PackAtom(packed[n - 1], atoms[n])
  <2>1. n \in 0..m /\ n # 0
    BY <1>2
  <2> QED
    BY <1>8, <2>1
<1> QED
  BY <1>1, <1>9, <1>10, Zenon DEF empty, atoms, m

\* Chunks of a message: ones that fit, of its whole text, in order.
WholeChunks(parts, s) ==
    /\ Len(s) \in Nat \ {0} /\ DOMAIN s = 1..Len(s)
    /\ \A j \in DOMAIN s : Fits(s[j], parts)
    /\ Sum(Lens(s)) = TotalLen(parts)
    /\ InOrder(s)

\* packListingChunks gives such chunks.
LEMMA PackedWhole ==
    ASSUME NEW parts, IsMessage(parts), TotalLen(parts) > 0
    PROVE  WholeChunks(parts, PackListingChunks(parts))
<1> DEFINE atoms == Atoms(parts)
<1> DEFINE m == Len(atoms)
<1> DEFINE Result(all) == IF all.cur.len > 0 THEN Append(all.done, all.cur) ELSE all.done
<1>1. AreAtoms(parts, Len(parts), atoms, TotalLen(parts)) /\ TotalLen(parts) \in Int
  BY AtomsOfMessage
<1>2. atoms \in Seq(Atom) /\ m \in Nat /\ Sum(Lens(atoms)) = TotalLen(parts) /\ Len(parts) \in Nat
  BY <1>1 DEF AreAtoms, IsMessage
<1>3. Lens(atoms) \in Seq(Int) /\ Len(Lens(atoms)) = m
  <2>1. \A x \in Atom : x.len \in Nat
    BY DEF Atom
  <2> HIDE DEF atoms
  <2> QED
    BY <1>2, <2>1, LensOfConcat
<1>4. PICK f : /\ f[0] = [done |-> <<>>, cur |-> Chunk(0, {})]
               /\ \A n \in 1..m : f[n] = PackAtom(f[n - 1], atoms[n])
               /\ PackListingChunks(parts) = Result(f[m])
  BY <1>2, PackingRuns, Zenon
<1>5. PICK g \in [0..m -> Int] : SumsUp(Lens(atoms), g, m) /\ TotalLen(parts) = g[m]
  <2>1. m \in 0..m
    BY <1>2
  <2>2. PICK g \in [0..m -> Int] : SumsUp(Lens(atoms), g, m)
    BY <1>3, <2>1, SumsExist
  <2> QED
    BY <1>2, <1>3, <2>2, SumIsLast
<1>6. \A n \in 1..m : /\ atoms[n] \in Atom /\ atoms[n].part \in 1..Len(parts)
                      /\ AtomFits(parts, atoms[n]) /\ Lens(atoms)[n] = atoms[n].len
  BY <1>1, <1>2, ElementOfSeq, LenProperties DEF AreAtoms, Lens
<1>0. m > 0 /\ atoms[1].len <= MaxMessageLen
  <2>1. m > 0 /\ atoms[1].part = 1
    BY <1>1 DEF AreAtoms
  <2>2. AtomFits(parts, atoms[1]) /\ MaxMessageLen \in Nat
    BY <1>2, <1>6, <2>1, ChannelConstants
  <2> QED
    BY <2>1, <2>2 DEF AtomFits
<1>7. \A i, j \in 1..m : i < j => atoms[i].part <= atoms[j].part
  BY <1>1 DEF AreAtoms
<1> HIDE DEF atoms, m, Result
<1> DEFINE Next1(n) == IF n < m THEN atoms[n + 1].part ELSE Len(parts)
<1> DEFINE S == {n \in Nat : n <= m => Packed(parts, f[n], g[n], Next1(n)) /\ (n > 0 => f[n].cur.len > 0)}
<1>8. ASSUME NEW n \in 0..m PROVE Next1(n) \in Nat
  <2>1. n < m => n + 1 \in 1..m
    BY <1>2
  <2> QED
    BY <1>2, <1>6, <2>1
<1>9. 0 \in S
  <2>1. g[0] = 0
    BY <1>5 DEF SumsUp
  <2>2. Lens(<<>>) = <<>>
    BY DEF Lens
  <2>3. /\ f[0] = [done |-> <<>>, cur |-> [len |-> 0, parts |-> {}]]
        /\ f[0].done = <<>> /\ f[0].cur = [len |-> 0, parts |-> {}]
    BY <1>4 DEF Chunk
  <2>4. Sum(Lens(f[0].done)) + f[0].cur.len = 0
    BY <2>2, <2>3, SumRules
  <2>5. MaxMessageLen \in Nat /\ Len(<<>>) = 0
    BY ChannelConstants
  <2>7. Fits(f[0].cur, parts)
    BY <2>3, <2>5, ShortFits
  <2> HIDE DEF Next1
  <2>6. Packed(parts, f[0], g[0], Next1(0))
    BY <2>1, <2>3, <2>4, <2>5, <2>7 DEF Packed, InOrder
  <2> QED
    BY <2>6
<1>10. ASSUME NEW n \in Nat, n \in S PROVE n + 1 \in S
  <2> SUFFICES ASSUME n + 1 <= m
               PROVE  Packed(parts, f[n + 1], g[n + 1], Next1(n + 1)) /\ f[n + 1].cur.len > 0
    OBVIOUS
  <2>1. n + 1 \in 1..m /\ n + 1 - 1 = n /\ n < m /\ n \in 0..m /\ n + 1 \in 0..m
    BY <1>2
  <2>2. Packed(parts, f[n], g[n], atoms[n + 1].part)
    BY <1>10, <2>1
  <2>3. f[n + 1] = PackAtom(f[n], atoms[n + 1])
    <3>1. PICK i : i = n + 1
      OBVIOUS
    <3>2. f[i] = PackAtom(f[i - 1], atoms[i])
      BY <1>4, <2>1, <3>1, Zenon
    <3> QED
      BY <2>1, <3>1, <3>2
  <2>4. g[n + 1] = g[n] + atoms[n + 1].len /\ g[n] \in Int
    BY <1>5, <1>6, <2>1 DEF SumsUp
  <2>5. atoms[n + 1].part <= Next1(n + 1)
    <3>1. CASE n + 1 < m
      <4>1. n + 1 + 1 \in 1..m
        BY <1>2, <3>1
      <4> QED
        BY <1>7, <2>1, <3>1, <4>1
    <3>2. CASE ~(n + 1 < m)
      BY <1>2, <1>6, <2>1, <3>2
    <3> QED
      BY <3>1, <3>2
  <2>6. Next1(n + 1) \in Nat
    BY <1>8, <2>1
  <2> HIDE DEF Next1
  <2>7. atoms[n + 1] \in Atom /\ AtomFits(parts, atoms[n + 1])
    BY <1>6, <2>1
  <2>9. f[n].cur.len = 0 => atoms[n + 1].len <= MaxMessageLen
    <3>1. CASE n = 0
      BY <1>0, <3>1
    <3>2. CASE n > 0
      BY <1>10, <2>1, <3>2
    <3> QED
      BY <3>1, <3>2
  <2>8. /\ Packed(parts, PackAtom(f[n], atoms[n + 1]), g[n] + atoms[n + 1].len, Next1(n + 1))
        /\ PackAtom(f[n], atoms[n + 1]).cur.len > 0
    BY <2>2, <2>4, <2>5, <2>6, <2>7, <2>9, AtomPacked
  <2> QED
    BY <2>3, <2>4, <2>8
<1> HIDE DEF S
<1>12. Packed(parts, f[m], g[m], Next1(m)) /\ f[m].cur.len > 0
  <2>1. m \in S
    BY <1>2, <1>9, <1>10, SetInduction
  <2> QED
    BY <1>0, <2>1 DEF S
<1> DEFINE all == f[m]
<1> DEFINE s == Append(all.done, all.cur)
<1> HIDE DEF Next1, all
<1>13. /\ all.done \in Seq([len : Nat, parts : SUBSET Nat]) /\ all.cur \in [len : Nat, parts : SUBSET Nat]
       /\ \A j \in 1..Len(all.done) : Fits(all.done[j], parts)
       /\ Fits(all.cur, parts) /\ InOrder(all.done)
       /\ \A j \in 1..Len(all.done) : \A a \in all.done[j].parts, b \in all.cur.parts : a <= b
       /\ Sum(Lens(all.done)) + all.cur.len = g[m] /\ all.cur.len > 0
  BY <1>12 DEF Packed, all
<1>14. /\ s \in Seq([len : Nat, parts : SUBSET Nat]) /\ Len(s) = Len(all.done) + 1
       /\ \A j \in 1..Len(all.done) : s[j] = all.done[j]
       /\ s[Len(all.done) + 1] = all.cur
       /\ Sum(Lens(s)) = Sum(Lens(all.done)) + all.cur.len
       /\ InOrder(s)
  BY <1>13, ChunkAdded, Zenon
<1>15. PackListingChunks(parts) = s
  BY <1>4, <1>13 DEF Result, all
<1> HIDE DEF s
<1>16. Len(s) \in Nat \ {0} /\ DOMAIN s = 1..Len(s)
  BY <1>13, <1>14, LenProperties
<1>17. ASSUME NEW j \in DOMAIN s PROVE Fits(s[j], parts)
  <2>1. Len(all.done) \in Nat
    BY <1>13, LenProperties
  <2>2. j \in 1..Len(all.done) \/ j = Len(all.done) + 1
    BY <1>14, <1>16, <2>1
  <2> QED
    BY <1>13, <1>14, <2>2
<1>18. WholeChunks(parts, s)
  BY <1>5, <1>13, <1>14, <1>16, <1>17 DEF WholeChunks
<1> QED
  BY <1>15, <1>18

\* splitMessage of a message sends all of it, in chunks that fit.
LEMMA SplitSendsAll ==
    ASSUME NEW parts, TotalLen(parts) <= MaxMessageLen \/ IsMessage(parts), TotalLen(parts) \in Int,
           Len(parts) = 1 => TotalLen(parts) = parts[1]
    PROVE  WholeChunks(parts, SplitMessage(parts))
<1>0. MaxMessageLen \in Nat \ {0}
  BY ChannelConstants
<1>1. CASE TotalLen(parts) <= MaxMessageLen
  <2> DEFINE s == <<Chunk(TotalLen(parts), DOMAIN parts)>>
  <2>1. SplitMessage(parts) = s
    BY <1>0, <1>1 DEF SplitMessage
  <2>2. Len(s) = 1 /\ DOMAIN s = 1..1 /\ s[1].len = TotalLen(parts) /\ 1..1 = {1}
    BY DEF Chunk
  <2>3. Lens(s) = <<TotalLen(parts)>>
    BY <2>2 DEF Lens
  <2>4. Sum(Lens(s)) = TotalLen(parts)
    BY <2>3, SumRules
  <2> HIDE DEF s
  <2>6. Fits(s[1], parts)
    BY <1>0, <1>1, <2>2, ShortFits
  <2>5. WholeChunks(parts, s)
    BY <2>2, <2>4, <2>6 DEF WholeChunks, InOrder
  <2> QED
    BY <2>1, <2>5
<1>2. CASE TotalLen(parts) > MaxMessageLen /\ Len(parts) > 1
  <2>1. SplitMessage(parts) = PackListingChunks(parts)
    BY <1>0, <1>2 DEF SplitMessage
  <2>2. IsMessage(parts) /\ TotalLen(parts) > 0
    BY <1>0, <1>2
  <2> QED
    BY <2>1, <2>2, PackedWhole
<1>3. CASE TotalLen(parts) > MaxMessageLen /\ ~(Len(parts) > 1)
  <2>0. parts \in Seq(Nat \ {0}) /\ Len(parts) > 0 /\ Len(parts) \in Nat
    BY <1>0, <1>3, LenProperties DEF IsMessage
  <2>1. Len(parts) = 1 /\ TotalLen(parts) = parts[1] /\ parts[1] \in Nat
    <3>1. Len(parts) = 1
      <4>1. PICK n \in Nat : n = Len(parts)
        BY <2>0
      <4>2. n > 0 /\ ~(n > 1)
        BY <1>3, <2>0, <4>1
      <4> QED
        BY <4>1, <4>2
    <3>2. parts[1] \in Nat \ {0}
      BY <2>0, <3>1, ElementOfSeq
    <3> QED
      BY <3>1, <3>2
  <2> DEFINE p == SplitByNewlines(parts[1])
  <2> DEFINE s == [j \in DOMAIN p |-> Chunk(p[j], {1})]
  <2>2. SplitMessage(parts) = s
    BY <1>0, <1>3 DEF SplitMessage
  <2>3. IsPieces(parts[1], p)
    BY <2>1, SplitIntoPieces
  <2> HIDE DEF p
  <2>4. p \in Seq(Nat) /\ DOMAIN p = 1..Len(p) /\ Len(p) \in Nat \ {0}
        /\ \A j \in 1..Len(p) : p[j] <= MaxMessageLen /\ p[j] \in Nat
    BY <2>3, LenProperties, ElementOfSeq DEF IsPieces
  <2>5. DOMAIN s = 1..Len(p) /\ \A j \in 1..Len(p) : s[j].len = p[j] /\ s[j].parts = {1}
    BY <2>4 DEF Chunk
  <2>6. Len(s) = Len(p)
    BY <2>4, <2>5
  <2>7. Lens(s) = p
    <3>1. Lens(s) = [j \in 1..Len(p) |-> p[j]]
      BY <2>5 DEF Lens
    <3>2. p = [j \in 1..Len(p) |-> p[j]]
      BY <2>4
    <3> QED
      BY <3>1, <3>2
  <2>8. Sum(Lens(s)) = TotalLen(parts)
    BY <2>1, <2>3, <2>7 DEF IsPieces
  <2> HIDE DEF s
  <2>9. InOrder(s)
    BY <2>5 DEF InOrder
  <2>11. \A j \in 1..Len(p) : Fits(s[j], parts)
    BY <2>4, <2>5, ShortFits
  <2>10. WholeChunks(parts, s)
    BY <2>4, <2>5, <2>6, <2>8, <2>9, <2>11 DEF WholeChunks
  <2> QED
    BY <2>2, <2>10
<1> QED
  BY <1>0, <1>1, <1>2, <1>3

\* All that is sent to a user is such a message, or of no parts.
LEMMA MessagesAreSplit ==
    ASSUME NEW parts \in Messages PROVE WholeChunks(parts, Chunked[parts])
<1>0. SepLen \in Nat \ {0} /\ MaxMessageLen \in Nat
  BY ChannelConstants
<1>1. Chunked[parts] = SplitMessage(parts)
  BY DEF Chunked
<1>2. ASSUME IsMessage(parts) PROVE WholeChunks(parts, SplitMessage(parts))
  <2>1. TotalLen(parts) \in Int
    BY <1>2, AtomsOfMessage
  <2>2. ASSUME Len(parts) = 1 PROVE TotalLen(parts) = parts[1]
    <3>1. parts \in Seq(Nat \ {0}) /\ parts[1] \in Nat \ {0}
      <4>1. parts \in Seq(Nat \ {0})
        BY <1>2 DEF IsMessage
      <4>2. 1 \in 1..Len(parts)
        BY <2>2
      <4> QED
        BY <4>1, <4>2, ElementOfSeq
    <3>2. parts = <<parts[1]>>
      BY <2>2, <3>1
    <3>3. Sum(parts) = parts[1]
      BY <3>1, <3>2, SumRules
    <3> QED
      BY <1>0, <2>2, <3>1, <3>3 DEF TotalLen
  <2> QED
    BY <1>2, <2>1, <2>2, SplitSendsAll
<1>3. CASE \E S \in SUBSET Items : parts = DigestParts(S)
  <2>1. PICK S \in SUBSET Items : parts = DigestParts(S)
    BY <1>3
  <2> DEFINE n == Cardinality(S) + Cardinality(S \cap BatchItems)
  <2>2. n \in Nat
    <3>1. IsFiniteSet(Items) /\ S \cap BatchItems \subseteq Items
      <4>1. MaxItems \in Int /\ 1 \in Int
        BY DigestConstants
      <4>2. IsFiniteSet(1..MaxItems)
        BY <4>1, FS_Interval
      <4> QED
        BY <4>2 DEF Items
    <3> QED
      BY <3>1, FS_Subset, FS_CardinalityType
  <2> HIDE DEF n
  <2>3. parts = [k \in 1..n |-> IF k = 1 THEN HeaderLen + ItemLen ELSE ItemLen]
    BY <2>1 DEF DigestParts, n
  <2>4. HeaderLen + ItemLen \in Nat \ {0} /\ ItemLen \in Nat \ {0}
    BY DeliveryConstants
  <2>5. parts \in [1..n -> Nat \ {0}]
    BY <2>3, <2>4
  <2>6. parts \in Seq(Nat \ {0}) /\ Len(parts) = n
    BY <2>2, <2>5, IsASeq
  <2>7. CASE n > 0
    <3>1. IsMessage(parts)
      BY <2>6, <2>7 DEF IsMessage
    <3> QED
      BY <1>1, <1>2, <3>1
  <2>8. CASE n = 0
    <3>1. parts = <<>> /\ Len(parts) = 0
      BY <2>6, <2>8
    <3>2. Sum(parts) = 0
      BY <3>1, SumRules
    <3>3. TotalLen(parts) = 0 + SepLen * (0 - 1)
      BY <3>1, <3>2 DEF TotalLen
    <3>4. TotalLen(parts) \in Int /\ TotalLen(parts) <= MaxMessageLen
      BY <1>0, <3>3
    <3> QED
      BY <1>1, <3>1, <3>4, SplitSendsAll
  <2> HIDE DEF n
  <2> QED
    BY <2>2, <2>7, <2>8
<1>4. CASE parts = <<DailyLen>>
  <2>1. <<DailyLen>> \in Seq(Nat \ {0}) /\ Len(<<DailyLen>>) = 1
    BY DeliveryConstants
  <2>2. IsMessage(parts)
    BY <1>4, <2>1 DEF IsMessage
  <2> QED
    BY <1>1, <1>2, <2>2
<1>5. CASE parts \in Alerts
  <2>1. PICK n \in 1..3 : parts \in [1..n -> AlertLens]
    BY <1>5 DEF Alerts
  <2>2. parts \in [1..n -> Nat \ {0}] /\ n \in Nat
    <3>1. AlertLens \subseteq Nat \ {0}
      BY DeliveryConstants
    <3>2. \A m \in Nat : parts \in [1..m -> AlertLens] => parts \in [1..m -> Nat \ {0}]
      BY <3>1
    <3>3. n \in Nat
      OBVIOUS
    <3> QED
      BY <2>1, <3>2, <3>3
  <2>3. parts \in Seq(Nat \ {0}) /\ Len(parts) = n
    BY <2>2, IsASeq
  <2>4. IsMessage(parts)
    BY <2>3 DEF IsMessage
  <2> QED
    BY <1>1, <1>2, <2>4
<1> QED
  BY <1>1, <1>3, <1>4, <1>5 DEF Messages

-----------------------------------------------------------------------------
(* What is sent *)

\* A call has put its chunks before the next one in front of the user, and the
\* browsers are only for a web user.
Underway ==
    /\ call.pc \in {"resolve", "photo", "text"} =>
          /\ WholeChunks(message, call.chunks)
          /\ call.next \in 1..Len(call.chunks) /\ call.shown = 1..call.next - 1
    /\ call.pc \in {"resolve", "photo", "text", "list", "push"} => call.result = "none"
    /\ call.pc = "none" => call.result = "none"
    /\ call.pc \in {"list", "push"} => channel = "web" /\ vapid
\* What was sent was shown, all of it, unless it went to browsers.
SentShown ==
    call.result = "ok" => \/ call.photoShown
                          \/ call.shown = DOMAIN call.chunks /\ call.shown # {}
                          \/ channel = "web" /\ vapid
SkippedByWeb == skipped # {} => channel = "web" /\ vapid
SentInv == PhotoInv /\ Underway /\ SentShown /\ SkippedByWeb

\* No job starts with anything but a message.
LEMMA MessagesStart ==
    ASSUME QueueType
    PROVE  /\ SendDigest => \E parts \in Messages : message' = parts /\ StartCall(FALSE, Chunked[parts], TotalLen(parts))
           /\ SendDaily => \/ UNCHANGED <<channelVars, message>>
                           \/ \E parts \in Messages : message' = parts /\ StartCall(FALSE, Chunked[parts], TotalLen(parts))
           /\ SendAlert => \E parts \in Messages : \E photo, len : message' = parts /\ StartCall(photo, Chunked[parts], len)
<1>1. Newest(payloads) \in SUBSET Items
  BY NewestWithin, StampedItems DEF QueueType
<1>2. DigestParts(Newest(payloads)) \in Messages /\ <<DailyLen>> \in Messages /\ Alerts \subseteq Messages
  BY <1>1, Zenon DEF Messages
<1>3. ASSUME SendDigest
      PROVE  \E parts \in Messages : message' = parts /\ StartCall(FALSE, Chunked[parts], TotalLen(parts))
  BY <1>2, <1>3, Zenon DEF SendDigest, NotifyRaw
<1>4. ASSUME SendDaily
      PROVE  \/ UNCHANGED <<channelVars, message>>
             \/ \E parts \in Messages : message' = parts /\ StartCall(FALSE, Chunked[parts], TotalLen(parts))
  BY <1>2, <1>4, Zenon DEF SendDaily, NotifyRaw
<1>5. ASSUME SendAlert
      PROVE  \E parts \in Messages : \E photo, len : message' = parts /\ StartCall(photo, Chunked[parts], len)
  BY <1>2, <1>5, Zenon DEF SendAlert
<1> QED
  BY <1>3, <1>4, <1>5

\* A call starts with the chunks of its message.
LEMMA CallStarts ==
    ASSUME SentInv, NEW parts \in Messages, NEW photo, NEW len, message' = parts,
           StartCall(photo, Chunked[parts], len), skipped' = skipped
    PROVE  Underway' /\ SentShown' /\ SkippedByWeb'
<1>1. /\ call'.pc = "resolve" /\ call'.shown = {} /\ call'.result = "none" /\ call'.next = 1
      /\ call'.chunks = Chunked[parts] /\ channel' = channel /\ vapid' = vapid
  BY NewCalls
<1>2. WholeChunks(message', call'.chunks)
  BY <1>1, MessagesAreSplit
<1>3. Len(call'.chunks) \in Nat \ {0}
  BY <1>2 DEF WholeChunks
<1>4. call'.next \in 1..Len(call'.chunks) /\ call'.shown = 1..call'.next - 1
  BY <1>1, <1>3
<1>5. WholeChunks(message, call.chunks)' <=> WholeChunks(message', call'.chunks)
  BY DEF WholeChunks, Lens, InOrder, Fits
<1>6. Underway'
  BY <1>1, <1>2, <1>4, <1>5 DEF Underway
<1> QED
  BY <1>1, <1>6 DEF SentInv, SentShown, SkippedByWeb

\* A step of the call shows a chunk after the other.
LEMMA CallGoesOn ==
    ASSUME SentInv, CallStep, message' = message, skipped' = skipped
    PROVE  Underway' /\ SentShown' /\ SkippedByWeb'
<1>1. /\ call'.chunks = call.chunks /\ channel' = channel /\ vapid' = vapid
      /\ \/ Routed(call, call') \/ PhotoTried(call, call')
         \/ ChunkTried(call, call') \/ PushedOn(call, call')
  BY CallOutcomes DEF SentInv, PhotoInv
<1>2. WholeChunks(message, call.chunks)' <=> WholeChunks(message, call.chunks)
  BY <1>1 DEF WholeChunks, Lens, InOrder, Fits
<1>3. Underway /\ SentShown /\ SkippedByWeb
  BY DEF SentInv
<1>4. SkippedByWeb'
  BY <1>1, <1>3 DEF SkippedByWeb
<1>5. CASE Routed(call, call')
  BY <1>1, <1>2, <1>3, <1>4, <1>5 DEF Routed, Same, Underway, SentShown
<1>6. CASE PhotoTried(call, call')
  BY <1>1, <1>2, <1>3, <1>4, <1>6 DEF PhotoTried, Same, Underway, SentShown
<1>7. CASE ChunkTried(call, call')
  <2>1. /\ call.pc = "text" /\ call.result = "none" /\ WholeChunks(message, call.chunks)
        /\ call.next \in 1..Len(call.chunks) /\ call.shown = 1..call.next - 1
    BY <1>3, <1>7 DEF ChunkTried, Underway
  <2>2. Len(call.chunks) \in Nat \ {0} /\ DOMAIN call.chunks = 1..Len(call.chunks)
    BY <2>1 DEF WholeChunks
  <2>3. call.shown \cup {call.next} = 1..call.next
    BY <2>1, <2>2
  <2>4. CASE /\ call'.shown = call.shown \cup {call.next} /\ call.next = Len(call.chunks)
             /\ call'.pc = "done" /\ call'.result = "ok"
    <3>1. call'.shown = DOMAIN call'.chunks /\ call'.shown # {}
      BY <1>1, <2>2, <2>3, <2>4
    <3> QED
      BY <1>4, <2>4, <3>1 DEF Underway, SentShown
  <2>5. CASE /\ call'.shown = call.shown \cup {call.next} /\ call.next # Len(call.chunks)
             /\ call'.pc = "text" /\ call'.result = call.result /\ call'.next = call.next + 1
    <3>1. call'.next \in 1..Len(call'.chunks) /\ call'.shown = 1..call'.next - 1
      BY <1>1, <2>1, <2>2, <2>3, <2>5
    <3> QED
      BY <1>1, <1>2, <1>4, <2>1, <2>5, <3>1 DEF Underway, SentShown
  <2>6. CASE call'.pc = "text" /\ Same(call, call')
    BY <1>1, <1>2, <1>4, <2>1, <2>6 DEF Underway, SentShown, Same
  <2>7. CASE call'.pc = "done" /\ call'.result \in {"blocked", "error"}
    BY <1>4, <2>7 DEF Underway, SentShown
  <2> QED
    BY <1>7, <2>4, <2>5, <2>6, <2>7 DEF ChunkTried
<1>8. CASE PushedOn(call, call')
  BY <1>1, <1>3, <1>4, <1>8 DEF PushedOn, Underway, SentShown
<1> QED
  BY <1>1, <1>5, <1>6, <1>7, <1>8

\* A user has all parts of a message that was sent.
LEMMA SentIsSeen ==
    ASSUME SentShown, call.result = "ok", ~(channel = "web" /\ vapid), NEW k
    PROVE  Seen(call, k)
BY DEF SentShown, Seen

\* A digest that was sent leaves out nothing, unless it went to browsers.
LEMMA SkippedStep ==
    ASSUME SentShown, SkippedByWeb, [DeliveryNext]_allVars, channel' = channel, vapid' = vapid
    PROVE  SkippedByWeb'
<1>1. ASSUME skipped' = skipped PROVE SkippedByWeb'
  BY <1>1 DEF SkippedByWeb
<1>2. CASE DigestSent
  <2>1. CASE call.result = "ok" /\ SendOk(SeenItems(call))
    <3>1. skipped' = skipped \cup (Newest(payloads) \ SeenItems(call))
      BY <2>1 DEF SendOk
    <3>2. CASE ~(channel = "web" /\ vapid)
      <4>1. SeenItems(call) = Newest(payloads)
        BY <2>1, <3>2, SentIsSeen DEF SeenItems
      <4> QED
        BY <1>1, <3>1, <4>1
    <3> QED
      BY <3>2 DEF SkippedByWeb
  <2>2. CASE SendFails(SeenItems(call))
    BY <1>1, <2>2 DEF SendFails
  <2> QED
    BY <1>2, <2>1, <2>2 DEF DigestSent
<1>3. CASE QueueStep
  BY <1>1, <1>3 DEF QueueStep, AddItem, Commit, Abort, StartFlush, FlushStep, Peek, Cutoff, Record,
                    AckOk, PeekFails, AckFails, SetDigestMode, PauseOrResume, Age, history
<1>4. CASE DigestCrash
  BY <1>1, <1>4 DEF DigestCrash, Crash
<1>5. CASE UpdateDailyDigestLastSent
  BY <1>1, <1>5 DEF UpdateDailyDigestLastSent, vars, history
<1>6. CASE \/ CheckDaily \/ Tick \/ DailyCrash \/ SendDigest \/ SendDaily \/ SendAlert
           \/ SendStep \/ DailyEnded \/ AlertSent
           \/ UserStep /\ UNCHANGED <<vars, job, message, dailyVars>> /\ Bounded
  BY <1>1, <1>6 DEF CheckDaily, Tick, DailyCrash, SendDigest, SendDaily, SendAlert, SendStep,
              DailyEnded, AlertSent, vars, history
<1>7. CASE UNCHANGED allVars
  BY <1>1, <1>7 DEF allVars, vars, history
<1> QED
  BY <1>2, <1>3, <1>4, <1>5, <1>6, <1>7 DEF DeliveryNext, EndOfCall

\* Every step of the program keeps all this.
LEMMA SentStep == QueueType /\ SentInv /\ [DeliveryNext]_allVars => SentInv'
<1> SUFFICES ASSUME QueueType, SentInv, [DeliveryNext]_allVars PROVE Underway' /\ SentShown' /\ SkippedByWeb'
  BY PhotoStep DEF SentInv
<1>0. Underway /\ SentShown /\ SkippedByWeb
  BY DEF SentInv
<1>1. ASSUME UNCHANGED <<call, message, channel, vapid>> PROVE Underway' /\ SentShown' /\ SkippedByWeb'
  <2>1. WholeChunks(message, call.chunks)' <=> WholeChunks(message, call.chunks)
    BY <1>1 DEF WholeChunks, Lens, InOrder, Fits
  <2>2. Underway' /\ SentShown'
    BY <1>0, <1>1, <2>1 DEF Underway, SentShown
  <2> QED
    BY <1>0, <1>1, <2>2, SkippedStep
<1>2. ASSUME call' = NoCall, UNCHANGED <<channel, vapid>> PROVE Underway' /\ SentShown' /\ SkippedByWeb'
  <2>1. Underway' /\ SentShown'
    BY <1>2, NewCalls DEF Underway, SentShown
  <2> QED
    BY <1>0, <1>2, <2>1, SkippedStep
<1>3. CASE QueueStep \/ CheckDaily \/ UpdateDailyDigestLastSent \/ Tick \/ UNCHANGED allVars
  BY <1>1, <1>3 DEF QueueStep, QueueAlone, CheckDaily, UpdateDailyDigestLastSent, Tick, allVars, channelVars
<1>4. CASE DigestCrash \/ DailyCrash \/ EndOfCall
  BY <1>2, <1>4 DEF DigestCrash, DailyCrash, EndOfCall, DigestSent, DailyEnded, AlertSent, EndCall
<1>5. CASE SendDigest \/ SendDaily \/ SendAlert
  <2>1. skipped' = skipped
    BY <1>5 DEF SendDigest, SendDaily, SendAlert, vars, history
  <2>2. \/ UNCHANGED <<channelVars, message>>
        \/ \E parts \in Messages : \E photo, len : message' = parts /\ StartCall(photo, Chunked[parts], len)
    BY <1>5, MessagesStart, Zenon
  <2>3. CASE UNCHANGED <<channelVars, message>>
    BY <1>1, <2>3 DEF channelVars
  <2> QED
    BY <2>1, <2>2, <2>3, CallStarts, Zenon
<1>6. CASE SendStep
  <2>1. CallStep /\ message' = message /\ skipped' = skipped
    BY <1>6 DEF SendStep, vars, history
  <2> QED
    BY <2>1, CallGoesOn
<1>7. CASE UserStep /\ UNCHANGED <<vars, job, message, dailyVars>> /\ Bounded
  <2>1. UNCHANGED <<call, channel, vapid>>
    BY <1>7 DEF UserStep, PushSubscribe, PushUnsubscribe, Expire, BlockOrUnblock
  <2> QED
    BY <1>1, <1>7, <2>1
<1> QED
  BY <1>3, <1>4, <1>5, <1>6, <1>7 DEF DeliveryNext

\* At the start no message is under way.
LEMMA SentStart == DeliveryInit => SentInv
<1> SUFFICES ASSUME DeliveryInit PROVE SentInv
  OBVIOUS
<1>1. call = NoCall /\ skipped = {} /\ PhotoInv
  BY RepeatsInit DEF DeliveryInit, ChannelsInit, Init
<1> QED
  BY <1>1, NewCalls DEF SentInv, Underway, SentShown, SkippedByWeb

\* A message that was reported as sent is with the user, whole: splitMessage
\* cuts it into chunks that fit, leave nothing out and keep the order of its
\* parts (only the separator in front of a part that leaves no room for it
\* exceeds Telegram's limit), and a call that returns nil has shown every one of
\* them, or a photo, or went to the browsers of a web user (telegram.go,
\* multi.go, webpush.go, digest.go).
THEOREM SentIsWhole == DeliverySpec => []SentWhole
<1>1. DeliveryInit => QueueType /\ SentInv
  BY DigestInit, SentStart DEF DeliveryInit, DigestInv
<1>2. QueueType /\ SentInv /\ [DeliveryNext]_allVars => (QueueType /\ SentInv)'
  BY DeliveryStep, QueueTypeStep, SentStep
<1>3. SentInv => SentWhole
  <2> SUFFICES ASSUME SentInv PROVE SentWhole
    OBVIOUS
  <2>1. ASSUME call.pc = "text"
        PROVE  /\ \A j \in DOMAIN call.chunks : Fits(call.chunks[j], message)
               /\ Sum([j \in DOMAIN call.chunks |-> call.chunks[j].len]) = TotalLen(message)
               /\ \A j, k \in DOMAIN call.chunks :
                     j < k => \A a \in call.chunks[j].parts, b \in call.chunks[k].parts : a <= b
    <3>1. WholeChunks(message, call.chunks)
      BY <2>1 DEF SentInv, Underway
    <3> QED
      BY <3>1 DEF WholeChunks, InOrder, Lens
  <2>2. ASSUME call.result = "ok"
        PROVE  \/ \A k \in DOMAIN message : Seen(call, k)
               \/ channel = "web" /\ vapid /\ call.reached = {}
    <3>1. CASE channel = "web" /\ vapid /\ call.reached # {}
      BY <3>1 DEF Seen
    <3>2. CASE ~(channel = "web" /\ vapid)
      BY <2>2, <3>2, SentIsSeen DEF SentInv
    <3> QED
      BY <3>1, <3>2
  <2> QED
    BY <2>1, <2>2 DEF SentWhole, SentInv, SkippedByWeb
<1> QED
  BY <1>1, <1>2, <1>3, PTL DEF DeliverySpec

-----------------------------------------------------------------------------
(* One match, five texts *)

\* The percolator and the filter of pushes, refreshes and instant searches
\* accept the same listings: one asks for a bound only where it is set, one
\* refuses where it is set and missed; one cuts the engine off to whole cubic
\* centimetres, the other does not.
LEMMA FilterIsPercolator ==
    ASSUME NEW l, IsListing(l), NEW s, IsSearch(s)
    PROVE  MatchesSearch(l, s) <=> Matches(FilterCriteriaFromSearch(s), l)
<1>1. l.engine \in Int /\ s.engineMinCC \in Int
  BY DEF IsListing, IsSearch
<1>2. s.engineMinCC > 0 => (l.engine \div 2 >= s.engineMinCC
                              <=> ~(2 * s.engineMinCC > 0 /\ l.engine < 2 * s.engineMinCC))
  BY <1>1
<1>3. SellerAccepts(s.seller, l.commercial) <=>
         \/ s.seller \in {NoText, "any"}
         \/ l.commercial = "nil"
         \/ /\ ~(s.seller = "private" /\ l.commercial = "yes")
            /\ ~(/\ s.seller \in {"commercial", "dealer", "dealership"}
                 /\ l.commercial = "no")
  BY MatchConstants DEF SellerAccepts, IsListing
<1>4. (s.excludeKeys \cap l.words = {}) <=> \A ex \in s.excludeKeys : ex \notin l.words
  OBVIOUS
<1> QED
  BY <1>1, <1>2, <1>3, <1>4
     DEF MatchesSearch, Matches, FilterCriteriaFromSearch, IsListing, IsSearch, AtLeast, AtMost

\* A set of naturals has a least element, and Min finds it.
LEMMA MinFound ==
    ASSUME NEW T \in SUBSET Nat, T # {}
    PROVE  Min(T) \in T /\ \A y \in T : Min(T) <= y
<1>1. \E x \in T : \A y \in T : x <= y
  BY LeastExists
<1> QED
  BY <1>1 DEF Min

\* The reasons that are given.
Reasons == {"wrong_model", "year_out", "price_out", "km_over", "hand_over", "engine_cc",
            "seller", "other_filter"}

\* The percolator's account of rejections has a reason for a listing if and
\* only if the percolator itself rejects it.
LEMMA RejectionIsPercolator ==
    ASSUME NEW l, IsListing(l), NEW s, IsSearch(s)
    PROVE  /\ ClassifyRejection(l, s) = NoText <=> MatchesSearch(l, s)
           /\ ClassifyRejection(l, s) \in Reasons \cup {NoText}
<1> DEFINE checks == Rejections(l, s)
<1> DEFINE missed == {i \in DOMAIN checks : checks[i][2]}
<1>1. DOMAIN checks = 1..16
  BY DEF Rejections
<1>2. \A i \in 1..16 : checks[i][1] \in Reasons
  BY DEF Rejections, Reasons
<1>3. missed = {} <=> \A i \in 1..16 : ~checks[i][2]
  BY <1>1
<1>4. (\A i \in 1..16 : ~checks[i][2]) <=> MatchesSearch(l, s)
  <2> DEFINE c1 == s.manufacturer > 0 /\ l.manufacturer # s.manufacturer
  <2> DEFINE c2 == s.model > 0 /\ l.model # s.model
  <2> DEFINE c3 == s.yearMin > 0 /\ l.year < s.yearMin
  <2> DEFINE c4 == s.yearMax > 0 /\ l.year > s.yearMax
  <2> DEFINE c5 == s.priceMin > 0 /\ l.price > 0 /\ l.price < s.priceMin
  <2> DEFINE c6 == s.priceMax > 0 /\ l.price > s.priceMax
  <2> DEFINE c7 == s.maxKm > 0 /\ l.km > 0 /\ l.km > s.maxKm
  <2> DEFINE c8 == s.maxHand > 0 /\ l.hand > s.maxHand
  <2> DEFINE c9 == s.engineMinCC > 0 /\ l.engine \div 2 < s.engineMinCC
  <2> DEFINE c10 == NoText \notin {s.gearBox, l.gearBox} /\ s.gearBox # l.gearBox
  <2> DEFINE c11 == s.seller = "private" /\ l.commercial = "yes"
  <2> DEFINE c12 == s.seller \in {"commercial", "dealer", "dealership"} /\ l.commercial = "no"
  <2> DEFINE c13 == s.priceOnly /\ l.price <= 0
  <2> DEFINE c14 == s.photoOnly /\ ~l.image
  <2> DEFINE c15 == \E w \in s.keywords : w \notin l.words
  <2> DEFINE c16 == \E w \in s.excludeKeys : w \in l.words
  <2>1. checks = <<<<"wrong_model", c1>>, <<"wrong_model", c2>>, <<"year_out", c3>>,
                   <<"year_out", c4>>, <<"price_out", c5>>, <<"price_out", c6>>,
                   <<"km_over", c7>>, <<"hand_over", c8>>, <<"engine_cc", c9>>,
                   <<"other_filter", c10>>, <<"seller", c11>>, <<"seller", c12>>,
                   <<"other_filter", c13>>, <<"other_filter", c14>>, <<"other_filter", c15>>,
                   <<"other_filter", c16>>>>
    BY DEF Rejections
  <2> HIDE DEF c1, c2, c3, c4, c5, c6, c7, c8, c9, c10, c11, c12, c13, c14, c15, c16, checks
  <2>2. checks[1][2] <=> c1
    BY <2>1
  <2>3. checks[2][2] <=> c2
    BY <2>1
  <2>4. checks[3][2] <=> c3
    BY <2>1
  <2>5. checks[4][2] <=> c4
    BY <2>1
  <2>6. checks[5][2] <=> c5
    BY <2>1
  <2>7. checks[6][2] <=> c6
    BY <2>1
  <2>8. checks[7][2] <=> c7
    BY <2>1
  <2>9. checks[8][2] <=> c8
    BY <2>1
  <2>10. checks[9][2] <=> c9
    BY <2>1
  <2>11. checks[10][2] <=> c10
    BY <2>1
  <2>12. checks[11][2] <=> c11
    BY <2>1
  <2>13. checks[12][2] <=> c12
    BY <2>1
  <2>14. checks[13][2] <=> c13
    BY <2>1
  <2>15. checks[14][2] <=> c14
    BY <2>1
  <2>16. checks[15][2] <=> c15
    BY <2>1
  <2>17. checks[16][2] <=> c16
    BY <2>1
  <2>18. (\A i \in 1..16 : ~checks[i][2]) <=>
            /\ ~c1 /\ ~c2 /\ ~c3 /\ ~c4 /\ ~c5 /\ ~c6 /\ ~c7 /\ ~c8
            /\ ~c9 /\ ~c10 /\ ~c11 /\ ~c12 /\ ~c13 /\ ~c14 /\ ~c15 /\ ~c16
    BY <2>2, <2>3, <2>4, <2>5, <2>6, <2>7, <2>8, <2>9, <2>10, <2>11, <2>12, <2>13, <2>14, <2>15, <2>16, <2>17
  <2>19. /\ ~c1 <=> (s.manufacturer > 0 => l.manufacturer = s.manufacturer)
         /\ ~c2 <=> (s.model > 0 => l.model = s.model)
         /\ ~c3 <=> AtLeast(l.year, s.yearMin)
         /\ ~c4 <=> AtMost(l.year, s.yearMax)
         /\ ~c5 <=> (l.price > 0 => AtLeast(l.price, s.priceMin))
         /\ ~c6 <=> AtMost(l.price, s.priceMax)
         /\ ~c7 <=> (l.km > 0 => AtMost(l.km, s.maxKm))
         /\ ~c8 <=> AtMost(l.hand, s.maxHand)
         /\ ~c9 <=> AtLeast(l.engine \div 2, s.engineMinCC)
    BY DEF c1, c2, c3, c4, c5, c6, c7, c8, c9, IsListing, IsSearch, AtLeast, AtMost
  <2>20. /\ ~c10 <=> (NoText \in {s.gearBox, l.gearBox} \/ s.gearBox = l.gearBox)
         /\ ~c13 <=> (s.priceOnly => l.price > 0)
         /\ ~c14 <=> (s.photoOnly => l.image)
         /\ ~c15 <=> (s.keywords \subseteq l.words)
         /\ ~c16 <=> (s.excludeKeys \cap l.words = {})
    BY DEF c10, c13, c14, c15, c16, IsListing, IsSearch
  <2>21. ~c11 /\ ~c12 <=> SellerAccepts(s.seller, l.commercial)
    BY DEF c11, c12, IsListing, SellerAccepts
  <2> QED
    BY <2>18, <2>19, <2>20, <2>21 DEF MatchesSearch
<1>5. missed # {} => Min(missed) \in 1..16
  <2>1. missed \in SUBSET Nat
    BY <1>1
  <2> HIDE DEF missed
  <2>2. missed # {} => Min(missed) \in missed
    BY <2>1, MinFound
  <2> QED
    BY <1>1, <2>2 DEF missed
<1>6. ClassifyRejection(l, s) = IF missed = {} THEN NoText ELSE checks[Min(missed)][1]
  BY DEF ClassifyRejection
<1> HIDE DEF checks, missed
<1> QED
  BY <1>2, <1>3, <1>4, <1>5, <1>6, MatchConstants DEF Reasons

-----------------------------------------------------------------------------
(* What is stored *)

\* A row is a listing that also says whether it is gone.
IsRow(r) == IsListing(r) /\ {"removed", "fitness", "deal"} \subseteq DOMAIN r
            /\ r.removed \in BOOLEAN

\* The counter shown on a search and the list behind it count the same rows.
LEMMA CounterIsList ==
    ASSUME NEW r, IsRow(r), NEW s, IsSearch(s)
    PROVE  CountSearchListingsForChat(r, s)
              <=> BuildFilterClauses(ListingFilterFromSearch(s), r)
<1> DEFINE f == ListingFilterFromSearch(s)
<1>1. (CASE s.seller = "private" -> SqlCommercial(r) = "no"
         [] s.seller \in {"commercial", "dealer", "dealership"} -> SqlCommercial(r) = "yes"
         [] OTHER -> TRUE)
      <=> (f.commercial # "nil" => SqlCommercial(r) = f.commercial)
  BY DEF ListingFilterFromSearch, NormalizeSellerFilter
<1>2. /\ f.price = <<s.priceMin, s.priceMax>> /\ f.year = <<s.yearMin, s.yearMax>>
      /\ f.maxKm = s.maxKm /\ f.maxHand = s.maxHand /\ f.gearBox = s.gearBox
      /\ f.priceOnly = s.priceOnly /\ f.photoOnly = s.photoOnly
  BY DEF ListingFilterFromSearch
<1> HIDE DEF f
<1>3. CountSearchListingsForChat(r, s) <=> BuildFilterClauses(f, r)
  BY <1>1, <1>2
     DEF CountSearchListingsForChat, BuildFilterClauses, IsSearch, IsRow, IsListing, AtLeast,
         AtMost
<1> QED
  BY <1>3 DEF f

\* What a record puts in its row: every field it has, and nothing of the row
\* is lost to one it lacks.
LEMMA UpsertKeeps ==
    ASSUME NEW rec, IsListing(rec.l), NEW old, old = NoRow \/ IsRow(old)
    PROVE  LET l == rec.l
               r == Upsert(old, rec)
           IN  /\ IsRow(r) /\ ~r.removed
               /\ \A x \in {"price", "km", "hand", "year"} : l[x] > 0 => r[x] = l[x]
               /\ l.gearBox # NoText => r.gearBox = l.gearBox
               /\ l.commercial # "nil" => r.commercial = l.commercial
               /\ l.image => r.image
<1> DEFINE l == rec.l
<1> DEFINE r == Upsert(old, rec)
<1>1. CASE old = NoRow
  <2>1. r = NewRow(l, rec.fitness, rec.deal)
    BY <1>1 DEF Upsert
  <2>2. /\ DOMAIN r = DOMAIN l \cup {"removed", "fitness", "deal"}
        /\ r.removed = FALSE
        /\ \A x \in DOMAIN l \ {"removed", "fitness", "deal"} : r[x] = l[x]
    BY <2>1 DEF NewRow
  <2> HIDE DEF r
  <2> QED
    BY <2>2 DEF IsRow, IsListing, r
<1>2. CASE old # NoRow
  <2>1. r = [old EXCEPT !.price = Kept(l.price, @), !.km = Kept(l.km, @),
                         !.hand = Kept(l.hand, @), !.year = Kept(l.year, @),
                         !.engine = Kept(l.engine, @),
                         !.gearBox = IF l.gearBox = NoText THEN @ ELSE l.gearBox,
                         !.commercial = IF l.commercial = "nil" THEN @ ELSE l.commercial,
                         !.image = l.image \/ @, !.link = l.link \/ @,
                         !.removed = FALSE, !.fitness = rec.fitness,
                         !.deal = IF rec.deal = NoDeal THEN @ ELSE rec.deal]
    BY <1>2 DEF Upsert
  <2> HIDE DEF r
  <2>2. /\ DOMAIN r = DOMAIN old /\ r.removed = FALSE
        /\ r.price = Kept(l.price, old.price) /\ r.km = Kept(l.km, old.km)
        /\ r.hand = Kept(l.hand, old.hand) /\ r.year = Kept(l.year, old.year)
        /\ r.engine = Kept(l.engine, old.engine)
        /\ r.gearBox = IF l.gearBox = NoText THEN old.gearBox ELSE l.gearBox
        /\ r.commercial = IF l.commercial = "nil" THEN old.commercial ELSE l.commercial
        /\ r.manufacturer = old.manufacturer /\ r.model = old.model
    BY <1>2, <2>1 DEF IsRow, IsListing
  <2>3. r.image = (l.image \/ old.image) /\ r.link = (l.link \/ old.link)
    BY <1>2, <2>1 DEF IsRow, IsListing
  <2> QED
    BY <1>2, <2>2, <2>3 DEF IsRow, IsListing, Kept, r
<1> QED
  BY <1>1, <1>2

\* A field that a source leaves out, that the server fills in from the row it
\* has, or that is blanked for its address leaves a listing a listing.
LEMMA PartialListing ==
    ASSUME NEW l, IsListing(l), NEW omitted
    PROVE  IsListing(Partial(l, omitted)) /\ Partial(l, omitted).year = l.year
<1> DEFINE p == Partial(l, omitted)
<1>1. p = [l EXCEPT !.km = IF "km" \in omitted THEN 0 ELSE @,
                    !.price = IF "price" \in omitted THEN 0 ELSE @,
                    !.image = @ /\ "image" \notin omitted]
  BY DEF Partial
<1> HIDE DEF p
<1>2. /\ DOMAIN p = DOMAIN l
      /\ p.km \in {0, l.km} /\ p.price \in {0, l.price} /\ p.image \in BOOLEAN
      /\ \A x \in DOMAIN l \ {"km", "price", "image"} : p[x] = l[x]
  BY <1>1 DEF IsListing
<1>3. /\ p.manufacturer = l.manufacturer /\ p.model = l.model /\ p.year = l.year
      /\ p.hand = l.hand /\ p.engine = l.engine /\ p.commercial = l.commercial
      /\ p.link = l.link
  BY <1>2 DEF IsListing
<1> QED
  BY <1>2, <1>3 DEF IsListing, p

\* A row can only complete a listing: its mileage if that is unknown, and its
\* picture.
LEMMA PrefilledListing ==
    ASSUME NEW l, IsListing(l), NEW r, r = NoRow \/ IsRow(r)
    PROVE  LET p == Prefilled(l, r)
           IN  /\ IsListing(p) /\ DOMAIN p = DOMAIN l
               /\ \A x \in DOMAIN l \ {"km", "image"} : p[x] = l[x]
               /\ l.km > 0 => p.km = l.km
               /\ l.image => p.image
<1> DEFINE p == Prefilled(l, r)
<1>1. CASE r = NoRow
  <2>1. p = l
    BY <1>1 DEF Prefilled
  <2> HIDE DEF p
  <2> QED
    BY <2>1 DEF p
<1>2. CASE r # NoRow
  <2>1. p = [l EXCEPT !.km = IF @ <= 0 THEN r.km ELSE @, !.image = @ \/ r.image]
    BY <1>2 DEF Prefilled
  <2> HIDE DEF p
  <2>2. /\ DOMAIN p = DOMAIN l /\ p.km = (IF l.km <= 0 THEN r.km ELSE l.km)
        /\ p.image = (l.image \/ r.image)
        /\ \A x \in DOMAIN l \ {"km", "image"} : p[x] = l[x]
    BY <2>1 DEF IsListing
  <2>3. /\ p.manufacturer = l.manufacturer /\ p.model = l.model /\ p.year = l.year
        /\ p.price = l.price /\ p.hand = l.hand /\ p.engine = l.engine
        /\ p.commercial = l.commercial /\ p.link = l.link
    BY <2>2 DEF IsListing
  <2>4. r.km \in Int /\ r.image \in BOOLEAN
    BY <1>2 DEF IsRow, IsListing
  <2>5. /\ p.km \in Int /\ p.image \in BOOLEAN
        /\ (l.km > 0 => p.km = l.km) /\ (l.image => p.image)
    BY <2>2, <2>4 DEF IsListing
  <2> QED
    BY <2>2, <2>3, <2>5 DEF IsListing, p
<1> QED
  BY <1>1, <1>2

\* What the server keeps of a pushed listing is one.
LEMMA SanitizedListing ==
    ASSUME NEW l, IsListing(l), NEW link, NEW picture
    PROVE  /\ IsListing(SanitizeIngestListing(l, link, picture))
           /\ SanitizeIngestListing(l, link, picture).year = l.year
<1> DEFINE p == SanitizeIngestListing(l, link, picture)
<1> DEFINE a == l.link /\ SanitizeURL(link, ListingHosts)
<1> DEFINE b == l.image /\ SanitizeURL(picture, ImageHosts)
<1>1. p = [l EXCEPT !.link = a, !.image = b]
  BY DEF SanitizeIngestListing
<1>2. a \in BOOLEAN /\ b \in BOOLEAN
  OBVIOUS
<1> HIDE DEF p, a, b
<1>3. /\ DOMAIN p = DOMAIN l /\ p.link = a /\ p.image = b
      /\ \A x \in DOMAIN l \ {"link", "image"} : p[x] = l[x]
  BY <1>1 DEF IsListing
<1>4. /\ p.manufacturer = l.manufacturer /\ p.model = l.model /\ p.year = l.year
      /\ p.price = l.price /\ p.hand = l.hand /\ p.engine = l.engine /\ p.km = l.km
      /\ p.commercial = l.commercial
  BY <1>3 DEF IsListing
<1> QED
  BY <1>2, <1>3, <1>4 DEF IsListing, p

-----------------------------------------------------------------------------
(* The flow *)

\* A listing the price list has an answer for.
IsPriced(l) == IsListing(l) /\ l.year \in DOMAIN BasePrice

\* The types the arguments need.
FlowShape ==
    /\ search \in Searches /\ cohorts \in Cohorts
    /\ DOMAIN source = Tokens /\ \A t \in Tokens : IsPriced(source[t])
    /\ DOMAIN row = Tokens /\ \A t \in Tokens : row[t] = NoRow \/ IsRow(row[t])
    /\ \A a \in alerts : a.token \in Tokens /\ IsPriced(a.l)

\* What a cycle takes a listing for.
Fetched(t, omitted) == Prefilled(Partial(source[t], omitted), row[t])

\* What a push delivers, and what the server completes it to.
Sent(t, omitted, link, picture) ==
    SanitizeIngestListing(Partial(source[t], omitted), link, picture)
Completed(t, omitted, link, picture) == Prefilled(Sent(t, omitted, link, picture), row[t])

\* What a cycle takes a listing for is one.
LEMMA FetchedListing ==
    ASSUME FlowShape, NEW t \in Tokens, NEW omitted
    PROVE  IsPriced(Fetched(t, omitted))
<1> DEFINE p == Partial(source[t], omitted)
<1>1. IsListing(p) /\ p.year \in DOMAIN BasePrice
  BY PartialListing DEF FlowShape, IsPriced
<1> HIDE DEF p
<1>2. IsListing(Prefilled(p, row[t])) /\ Prefilled(p, row[t]).year = p.year
  <2>1. row[t] = NoRow \/ IsRow(row[t])
    BY DEF FlowShape
  <2>2. /\ IsListing(Prefilled(p, row[t]))
        /\ \A x \in DOMAIN p \ {"km", "image"} : Prefilled(p, row[t])[x] = p[x]
    BY <1>1, <2>1, PrefilledListing
  <2> QED
    BY <1>1, <2>2 DEF IsListing
<1> QED
  BY <1>1, <1>2 DEF Fetched, IsPriced, p

\* So is what a push delivers, and its completion differs only in the mileage,
\* if that was left out, and the picture.
LEMMA PushedListing ==
    ASSUME FlowShape, NEW t \in Tokens, NEW omitted, NEW link, NEW picture
    PROVE  LET sent == Sent(t, omitted, link, picture)
               full == Completed(t, omitted, link, picture)
           IN  /\ IsListing(sent) /\ IsPriced(full) /\ DOMAIN full = DOMAIN sent
               /\ \A x \in DOMAIN sent \ {"km", "image"} : full[x] = sent[x]
               /\ sent.km > 0 => full.km = sent.km
               /\ sent.image => full.image
<1> DEFINE p == Partial(source[t], omitted)
<1> DEFINE sent == Sent(t, omitted, link, picture)
<1> DEFINE full == Completed(t, omitted, link, picture)
<1>1. IsListing(p) /\ p.year \in DOMAIN BasePrice
  BY PartialListing DEF FlowShape, IsPriced
<1>2. IsListing(sent) /\ sent.year \in DOMAIN BasePrice
  <2> HIDE DEF p
  <2>1. IsListing(SanitizeIngestListing(p, link, picture))
        /\ SanitizeIngestListing(p, link, picture).year = p.year
    BY <1>1, SanitizedListing
  <2> QED
    BY <1>1, <2>1 DEF Sent, p
<1>3. row[t] = NoRow \/ IsRow(row[t])
  BY DEF FlowShape
<1>4. full = Prefilled(sent, row[t])
  BY DEF Completed
<1> HIDE DEF sent, full, p
<1>5. /\ IsListing(full) /\ DOMAIN full = DOMAIN sent
      /\ \A x \in DOMAIN sent \ {"km", "image"} : full[x] = sent[x]
      /\ sent.km > 0 => full.km = sent.km
      /\ sent.image => full.image
  BY <1>2, <1>3, <1>4, PrefilledListing
<1>6. full.year = sent.year
  BY <1>2, <1>5 DEF IsListing
<1>7. IsPriced(full)
  BY <1>2, <1>5, <1>6 DEF IsPriced
<1> QED
  BY <1>2, <1>5, <1>7 DEF sent, full

\* The row of a token after a record of l was stored, or not.
Stores(t, l) == \E rec : rec.l = l /\ row'[t] = Upsert(row[t], rec)

\* What a cycle leaves: it stores the listings that match and are new, and
\* alerts of these only what it may deliver.
CycleEffect(omitted) ==
    /\ UNCHANGED <<search, source, cohorts>>
    /\ DOMAIN row' = Tokens
    /\ \A t \in Tokens : row'[t] = row[t] \/ Stores(t, Fetched(t, omitted))
    /\ stats' = Counts([t \in Tokens |-> Fetched(t, omitted)], search)
    /\ \A a \in alerts' :
          /\ a.token \in Tokens /\ a.path = "cycle" /\ a.l = Fetched(a.token, omitted)
          /\ MatchesSearch(a.l, search) /\ Deliverable(a.l) /\ Stores(a.token, a.l)

\* A cycle has that effect.
LEMMA CycleDoes ==
    ASSUME FlowShape, Cycle
    PROVE  \E omitted : CycleEffect(omitted)
<1>1. PICK omitted \in Omits, young \in {{}, Tokens} :
          LET raw == [t \in Tokens |-> Prefilled(Partial(source[t], omitted), row[t])]
              cache == NewMarketCacheFromMedians(cohorts)
              new == {t \in Tokens : MatchesSearch(raw[t], search)} \ claims
              recs == [t \in new |-> BuildRecord(raw[t], Market(cache, raw[t]))]
              fit == {t \in new : Deliverable(raw[t])}
              heard == fit \ {t \in young : raw[t].km <= 0 \/ ~raw[t].image}
          IN  /\ Save(recs)
              /\ alerts' = {[path |-> "cycle", token |-> t, l |-> raw[t], sent |-> raw[t]] :
                                t \in heard}
              /\ stats' = Counts(raw, search)
  BY Zenon DEF Cycle
<1> DEFINE raw == [t \in Tokens |-> Fetched(t, omitted)]
<1> DEFINE cache == NewMarketCacheFromMedians(cohorts)
<1> DEFINE new == {t \in Tokens : MatchesSearch(raw[t], search)} \ claims
<1> DEFINE recs == [t \in new |-> BuildRecord(raw[t], Market(cache, raw[t]))]
<1> DEFINE fit == {t \in new : Deliverable(raw[t])}
<1> DEFINE heard == fit \ {t \in young : raw[t].km <= 0 \/ ~raw[t].image}
<1>2. /\ Save(recs)
      /\ alerts' = {[path |-> "cycle", token |-> t, l |-> raw[t], sent |-> raw[t]] : t \in heard}
      /\ stats' = Counts(raw, search)
  BY <1>1, Zenon DEF Fetched
<1>3. heard \subseteq new /\ new \subseteq Tokens
  OBVIOUS
<1>4. \A t \in heard : MatchesSearch(raw[t], search) /\ Deliverable(raw[t])
  OBVIOUS
<1>5. \A t \in new : recs[t].l = raw[t]
  BY DEF BuildRecord
<1>6. DOMAIN recs = new
  OBVIOUS
<1>7. \A t \in Tokens : raw[t] = Fetched(t, omitted)
  OBVIOUS
<1> HIDE DEF recs, heard, new, fit
<1>8. DOMAIN row' = Tokens
      /\ \A t \in Tokens : row'[t] = IF t \in new THEN Upsert(row[t], recs[t]) ELSE row[t]
  BY <1>2, <1>6 DEF Save
<1>9. \A t \in new : Stores(t, raw[t])
  BY <1>3, <1>5, <1>8 DEF Stores
<1>10. \A t \in Tokens : row'[t] = row[t] \/ Stores(t, Fetched(t, omitted))
  BY <1>7, <1>8, <1>9
<1>11. ASSUME NEW a \in alerts'
       PROVE  /\ a.token \in Tokens /\ a.path = "cycle" /\ a.l = Fetched(a.token, omitted)
              /\ MatchesSearch(a.l, search) /\ Deliverable(a.l) /\ Stores(a.token, a.l)
  <2>1. PICK t \in heard :
           a = [path |-> "cycle", token |-> t, l |-> raw[t], sent |-> raw[t]]
    BY <1>2
  <2> HIDE DEF raw
  <2>2. a.token = t /\ a.path = "cycle" /\ a.l = raw[t]
    BY <2>1
  <2> QED
    BY <1>3, <1>4, <1>7, <1>9, <2>2
<1>12. UNCHANGED <<search, source, cohorts>>
  BY DEF Cycle
<1>13. CycleEffect(omitted)
  BY <1>2, <1>8, <1>10, <1>11, <1>12 DEF CycleEffect
<1> QED
  BY <1>13

\* What a push leaves: it stores and claims what the filter accepts as it was
\* sent, and alerts it as completed.
PushEffect(omitted, link, picture) ==
    /\ UNCHANGED <<search, source, cohorts, stats>>
    /\ DOMAIN row' = Tokens
    /\ \A t \in Tokens : row'[t] = row[t] \/ Stores(t, Completed(t, omitted, link, picture))
    /\ \A a \in alerts' :
          /\ a.token \in Tokens /\ a.path = "push"
          /\ a.sent = Sent(a.token, omitted, link, picture)
          /\ a.l = Completed(a.token, omitted, link, picture)
          /\ Matches(FilterCriteriaFromSearch(search), a.sent) /\ Stores(a.token, a.l)

\* A push has that effect.
LEMMA PushDoes ==
    ASSUME FlowShape, PushListings
    PROVE  \E omitted, link, picture : PushEffect(omitted, link, picture)
<1>1. PICK omitted \in Omits, link, picture \in Links, spelled \in Spellings :
          LET raw == [t \in Tokens |->
                         SanitizeIngestListing(Partial(source[t], omitted), link, picture)]
              kept == {t \in Tokens : /\ ValidIngestToken(spelled)
                                      /\ Matches(FilterCriteriaFromSearch(search), raw[t])}
              full == [t \in kept |-> Prefilled(raw[t], row[t])]
              recs == [t \in kept |-> BuildRecord(full[t], NoMarket)]
          IN  /\ claims' = claims \cup kept
              /\ Save(recs)
              /\ alerts' = {[path |-> "push", token |-> t, l |-> full[t], sent |-> raw[t]] :
                                t \in kept \ claims}
  BY Zenon DEF PushListings
<1> DEFINE raw == [t \in Tokens |-> Sent(t, omitted, link, picture)]
<1> DEFINE kept == {t \in Tokens : /\ ValidIngestToken(spelled)
                                   /\ Matches(FilterCriteriaFromSearch(search), raw[t])}
<1> DEFINE full == [t \in kept |-> Prefilled(raw[t], row[t])]
<1> DEFINE recs == [t \in kept |-> BuildRecord(full[t], NoMarket)]
<1>2. /\ Save(recs)
      /\ alerts' = {[path |-> "push", token |-> t, l |-> full[t], sent |-> raw[t]] :
                        t \in kept \ claims}
  BY <1>1, Zenon DEF Sent
<1>3. \A t \in kept : t \in Tokens /\ Matches(FilterCriteriaFromSearch(search), raw[t])
  OBVIOUS
<1>4. \A t \in kept : raw[t] = Sent(t, omitted, link, picture)
                      /\ full[t] = Completed(t, omitted, link, picture)
  BY DEF Completed
<1>5. \A t \in kept : recs[t].l = full[t]
  BY DEF BuildRecord
<1>6. DOMAIN recs = kept
  OBVIOUS
<1> HIDE DEF recs, kept, full, raw
<1>7. DOMAIN row' = Tokens
      /\ \A t \in Tokens : row'[t] = IF t \in kept THEN Upsert(row[t], recs[t]) ELSE row[t]
  BY <1>2, <1>6 DEF Save
<1>8. \A t \in kept : Stores(t, full[t])
  BY <1>3, <1>5, <1>7 DEF Stores
<1>9. \A t \in Tokens : row'[t] = row[t] \/ Stores(t, Completed(t, omitted, link, picture))
  BY <1>4, <1>7, <1>8
<1>10. ASSUME NEW a \in alerts'
       PROVE  /\ a.token \in Tokens /\ a.path = "push"
              /\ a.sent = Sent(a.token, omitted, link, picture)
              /\ a.l = Completed(a.token, omitted, link, picture)
              /\ Matches(FilterCriteriaFromSearch(search), a.sent) /\ Stores(a.token, a.l)
  <2>1. PICK t \in kept \ claims :
           a = [path |-> "push", token |-> t, l |-> full[t], sent |-> raw[t]]
    BY <1>2
  <2>2. a.token = t /\ a.path = "push" /\ a.l = full[t] /\ a.sent = raw[t]
    BY <2>1
  <2> QED
    BY <1>3, <1>4, <1>8, <2>2
<1>11. UNCHANGED <<search, source, cohorts, stats>>
  BY DEF PushListings
<1>12. PushEffect(omitted, link, picture)
  BY <1>7, <1>9, <1>10, <1>11 DEF PushEffect
<1> QED
  BY <1>12

\* A row that was stored from a listing, or left as it was, is a row.
LEMMA RowStays ==
    ASSUME FlowShape, NEW t \in Tokens, NEW l, IsListing(l),
           row'[t] = row[t] \/ Stores(t, l)
    PROVE  row'[t] = NoRow \/ IsRow(row'[t])
<1>1. row[t] = NoRow \/ IsRow(row[t])
  BY DEF FlowShape
<1>2. CASE Stores(t, l)
  <2>1. PICK rec : rec.l = l /\ row'[t] = Upsert(row[t], rec)
    BY <1>2 DEF Stores
  <2>2. IsRow(Upsert(row[t], rec))
    BY <1>1, <2>1, UpsertKeeps
  <2> QED
    BY <2>1, <2>2
<1> QED
  BY <1>1, <1>2

\* The flow starts with listings of the source, and at most their rows.
LEMMA FlowStarts ==
    FlowInit => FlowShape
<1> SUFFICES ASSUME FlowInit PROVE FlowShape
  OBVIOUS
<1>1. search \in Searches /\ cohorts \in Cohorts /\ source \in Feeds /\ alerts = {}
  BY DEF FlowInit
<1>2. DOMAIN source = Tokens /\ \A t \in Tokens : IsPriced(source[t])
  BY <1>1, FlowConstants DEF IsPriced
<1>3. DOMAIN row = Tokens
      /\ \A t \in Tokens : row[t] = NoRow \/ row[t] = NewRow(source[t], 0, NoDeal)
  BY DEF FlowInit
<1>4. ASSUME NEW t \in Tokens PROVE IsRow(NewRow(source[t], 0, NoDeal))
  <2> DEFINE l == source[t]
  <2> DEFINE r == NewRow(l, 0, NoDeal)
  <2>1. IsListing(l)
    BY <1>2 DEF IsPriced
  <2>2. /\ DOMAIN r = DOMAIN l \cup {"removed", "fitness", "deal"}
        /\ r.removed = FALSE
        /\ \A x \in DOMAIN l \ {"removed", "fitness", "deal"} : r[x] = l[x]
    BY DEF NewRow
  <2> HIDE DEF r, l
  <2>3. IsRow(r)
    BY <2>1, <2>2 DEF IsRow, IsListing
  <2> QED
    BY <2>3 DEF r, l
<1> QED
  BY <1>1, <1>2, <1>3, <1>4 DEF FlowShape

\* Every step of the flow keeps listings listings and rows rows.
LEMMA FlowKeepsShape ==
    FlowShape /\ [FlowNext]_flowVars => FlowShape'
<1> SUFFICES ASSUME FlowShape, [FlowNext]_flowVars PROVE FlowShape'
  OBVIOUS
<1>1. CASE Cycle
  <2>1. PICK omitted : CycleEffect(omitted)
    BY <1>1, CycleDoes
  <2>2. \A t \in Tokens : row'[t] = NoRow \/ IsRow(row'[t])
    <3> TAKE t \in Tokens
    <3>1. row'[t] = row[t] \/ Stores(t, Fetched(t, omitted))
      BY <2>1 DEF CycleEffect
    <3>2. IsListing(Fetched(t, omitted))
      BY FetchedListing DEF IsPriced
    <3> QED
      BY <3>1, <3>2, RowStays
  <2>3. \A a \in alerts' : a.token \in Tokens /\ IsPriced(a.l)
    BY <2>1, FetchedListing DEF CycleEffect
  <2>4. /\ search' = search /\ source' = source /\ cohorts' = cohorts
        /\ DOMAIN row' = Tokens
    BY <2>1 DEF CycleEffect
  <2> QED
    BY <2>2, <2>3, <2>4 DEF FlowShape
<1>2. CASE PushListings
  <2>1. PICK omitted, link, picture : PushEffect(omitted, link, picture)
    BY <1>2, PushDoes
  <2>2. \A t \in Tokens : IsPriced(Completed(t, omitted, link, picture))
    BY PushedListing
  <2>3. \A t \in Tokens : row'[t] = NoRow \/ IsRow(row'[t])
    <3> TAKE t \in Tokens
    <3>1. row'[t] = row[t] \/ Stores(t, Completed(t, omitted, link, picture))
      BY <2>1 DEF PushEffect
    <3>2. IsListing(Completed(t, omitted, link, picture))
      BY <2>2 DEF IsPriced
    <3> QED
      BY <3>1, <3>2, RowStays
  <2>4. \A a \in alerts' : a.token \in Tokens /\ IsPriced(a.l)
    BY <2>1, <2>2 DEF PushEffect
  <2>5. /\ search' = search /\ source' = source /\ cohorts' = cohorts
        /\ DOMAIN row' = Tokens
    BY <2>1 DEF PushEffect
  <2> QED
    BY <2>3, <2>4, <2>5 DEF FlowShape
<1>3. CASE InstantSearch
  BY <1>3 DEF FlowShape, InstantSearch
<1>4. CASE Learn
  <2>1. PICK t \in Tokens : row[t] # NoRow /\ row' = [row EXCEPT ![t].km = source[t].km]
    BY <1>4 DEF Learn
  <2>2. IsRow(row[t]) /\ IsListing(source[t])
    BY <2>1 DEF FlowShape, IsPriced
  <2>3. IsRow([row[t] EXCEPT !.km = source[t].km])
    BY <2>2 DEF IsRow, IsListing
  <2>4. DOMAIN row' = Tokens /\ \A u \in Tokens : row'[u] = NoRow \/ IsRow(row'[u])
    BY <2>1, <2>3 DEF FlowShape
  <2> QED
    BY <1>4, <2>4 DEF FlowShape, Learn
<1>5. CASE Sold
  <2>1. PICK t \in Tokens : row[t] # NoRow /\ row' = [row EXCEPT ![t].removed = TRUE]
    BY <1>5 DEF Sold
  <2>2. IsRow(row[t])
    BY <2>1 DEF FlowShape
  <2>3. IsRow([row[t] EXCEPT !.removed = TRUE])
    BY <2>2 DEF IsRow, IsListing
  <2>4. DOMAIN row' = Tokens /\ \A u \in Tokens : row'[u] = NoRow \/ IsRow(row'[u])
    BY <2>1, <2>3 DEF FlowShape
  <2> QED
    BY <1>5, <2>4 DEF FlowShape, Sold
<1>6. CASE Relist
  <2>1. PICK t \in Tokens, l \in Reprices : source' = [source EXCEPT ![t] = l]
    BY <1>6 DEF Relist
  <2>2. IsPriced(l)
    BY FlowConstants DEF IsPriced
  <2>3. DOMAIN source' = Tokens /\ \A u \in Tokens : IsPriced(source'[u])
    BY <2>1, <2>2 DEF FlowShape
  <2> QED
    BY <1>6, <2>3 DEF FlowShape, Relist
<1>7. CASE UNCHANGED flowVars
  BY <1>7 DEF FlowShape, flowVars
<1> QED
  BY <1>1, <1>2, <1>3, <1>4, <1>5, <1>6, <1>7 DEF FlowNext

\* Two listings that differ only in the mileage and the picture, the second
\* not worse, match alike once the mileage is set aside.
LEMMA MileageSetAside ==
    ASSUME NEW s, IsSearch(s), NEW sent, IsListing(sent), NEW full, IsListing(full),
           DOMAIN full = DOMAIN sent,
           \A x \in DOMAIN sent \ {"km", "image"} : full[x] = sent[x],
           sent.image => full.image, MatchesSearch(sent, s)
    PROVE  /\ MatchesSearch([full EXCEPT !.km = 0], s)
           /\ full.km = sent.km => MatchesSearch(full, s)
<1>1. /\ full.manufacturer = sent.manufacturer /\ full.model = sent.model
      /\ full.year = sent.year /\ full.price = sent.price /\ full.hand = sent.hand
      /\ full.engine = sent.engine /\ full.gearBox = sent.gearBox
      /\ full.commercial = sent.commercial /\ full.words = sent.words
  BY DEF IsListing
<1> DEFINE zero == [full EXCEPT !.km = 0]
<1>2. /\ zero.manufacturer = full.manufacturer /\ zero.model = full.model
      /\ zero.year = full.year /\ zero.price = full.price /\ zero.hand = full.hand
      /\ zero.engine = full.engine /\ zero.gearBox = full.gearBox
      /\ zero.commercial = full.commercial /\ zero.words = full.words
      /\ zero.image = full.image /\ zero.km = 0
  BY DEF IsListing
<1> HIDE DEF zero
<1>3. MatchesSearch(zero, s)
  BY <1>1, <1>2 DEF MatchesSearch, IsListing, IsSearch
<1>4. full.km = sent.km => MatchesSearch(full, s)
  BY <1>1 DEF MatchesSearch, IsListing, IsSearch
<1> QED
  BY <1>3, <1>4 DEF zero

\* What a step alerts satisfies the search, up to the mileage a push left out.
LEMMA AlertsHonourSearch ==
    FlowShape /\ AlertHonoursSearch /\ [FlowNext]_flowVars => AlertHonoursSearch'
<1> SUFFICES ASSUME FlowShape, AlertHonoursSearch, [FlowNext]_flowVars
             PROVE  AlertHonoursSearch'
  OBVIOUS
<1>1. IsSearch(search)
  BY FlowConstants DEF FlowShape
<1>2. CASE Cycle
  <2>1. PICK omitted : CycleEffect(omitted)
    BY <1>2, CycleDoes
  <2>2. search' = search
    BY <2>1 DEF CycleEffect
  <2>3. ASSUME NEW a \in alerts'
        PROVE  /\ a.path = "cycle" /\ MatchesSearch(a.l, search)
               /\ search.maxKm > 0 => a.l.km \in 1..search.maxKm
    <3>1. /\ a.token \in Tokens /\ a.path = "cycle" /\ a.l = Fetched(a.token, omitted)
          /\ MatchesSearch(a.l, search) /\ Deliverable(a.l)
      BY <2>1 DEF CycleEffect
    <3>2. a.l.km \in Int /\ search.maxKm \in Int
      BY <1>1, <3>1, FetchedListing DEF IsPriced, IsListing, IsSearch
    <3> QED
      BY <3>1, <3>2 DEF Deliverable
  <2> QED
    BY <2>2, <2>3 DEF AlertHonoursSearch
<1>3. CASE PushListings
  <2>1. PICK omitted, link, picture : PushEffect(omitted, link, picture)
    BY <1>3, PushDoes
  <2>2. search' = search
    BY <2>1 DEF PushEffect
  <2>3. ASSUME NEW a \in alerts'
        PROVE  /\ a.path = "push"
               /\ \/ MatchesSearch(a.l, search)
                  \/ a.sent.km <= 0 /\ MatchesSearch([a.l EXCEPT !.km = 0], search)
    <3>1. /\ a.token \in Tokens /\ a.path = "push"
          /\ a.sent = Sent(a.token, omitted, link, picture)
          /\ a.l = Completed(a.token, omitted, link, picture)
          /\ Matches(FilterCriteriaFromSearch(search), a.sent)
      BY <2>1 DEF PushEffect
    <3>2. /\ IsListing(a.sent) /\ IsListing(a.l) /\ DOMAIN a.l = DOMAIN a.sent
          /\ \A x \in DOMAIN a.sent \ {"km", "image"} : a.l[x] = a.sent[x]
          /\ a.sent.km > 0 => a.l.km = a.sent.km
          /\ a.sent.image => a.l.image
      BY <3>1, PushedListing DEF IsPriced
    <3>3. MatchesSearch(a.sent, search)
      BY <1>1, <3>1, <3>2, FilterIsPercolator
    <3>4. /\ MatchesSearch([a.l EXCEPT !.km = 0], search)
          /\ a.l.km = a.sent.km => MatchesSearch(a.l, search)
      BY <1>1, <3>2, <3>3, MileageSetAside
    <3>5. a.sent.km \in Int
      BY <3>2 DEF IsListing
    <3> QED
      BY <3>1, <3>2, <3>4, <3>5
  <2> QED
    BY <2>2, <2>3 DEF AlertHonoursSearch
<1>4. CASE InstantSearch
  BY <1>4 DEF AlertHonoursSearch, InstantSearch
<1>5. CASE Learn \/ Sold \/ Relist
  BY <1>5 DEF AlertHonoursSearch, Learn, Sold, Relist
<1>6. CASE UNCHANGED flowVars
  BY <1>6 DEF AlertHonoursSearch, flowVars
<1> QED
  BY <1>2, <1>3, <1>4, <1>5, <1>6 DEF FlowNext


-----------------------------------------------------------------------------
(* Sums *)

\* What the library's sum over a function is computed by: a function of the
\* indices that remain.
IsRunningSum(w, sum) ==
    sum = [s \in SUBSET DOMAIN w |->
              IF s = {} THEN 0
              ELSE w[CHOOSE x \in s : TRUE] + sum[s \ {CHOOSE x \in s : TRUE}]]

\* There is such a function.
LEMMA RunningSumExists ==
    ASSUME NEW w, IsFiniteSet(DOMAIN w)
    PROVE  \E sum : IsRunningSum(w, sum)
<1> DEFINE D == DOMAIN w
<1> DEFINE Left(s) == s \ {CHOOSE x \in s : TRUE}
<1> DEFINE Upto(n, sum) ==
       \A s \in SUBSET D : Cardinality(s) <= n =>
          sum[s] = IF s = {} THEN 0 ELSE w[CHOOSE x \in s : TRUE] + sum[Left(s)]
<1> DEFINE Reached == {n \in Nat : \E sum : DOMAIN sum = SUBSET D /\ Upto(n, sum)}
<1>1. \A s \in SUBSET D : IsFiniteSet(s) /\ Cardinality(s) \in Nat
  BY FS_Subset, FS_CardinalityType
<1>2. \A s \in SUBSET D : s # {} =>
         Left(s) \in SUBSET D /\ Cardinality(Left(s)) = Cardinality(s) - 1
  BY <1>1, FS_RemoveElement
<1>3. \A s \in SUBSET D : Cardinality(s) = 0 <=> s = {}
  BY <1>1, FS_EmptySet
<1>4. 0 \in Reached
  <2> DEFINE sum == [s \in SUBSET D |-> 0]
  <2>1. Upto(0, sum)
    BY <1>1, <1>3
  <2> QED
    BY <2>1
<1> HIDE DEF Left
<1>5. ASSUME NEW n \in Nat, n \in Reached PROVE n + 1 \in Reached
  <2>1. PICK old : DOMAIN old = SUBSET D /\ Upto(n, old)
    BY <1>5
  <2> DEFINE sum == [s \in SUBSET D |->
                       IF Cardinality(s) <= n THEN old[s]
                       ELSE w[CHOOSE x \in s : TRUE] + old[Left(s)]]
  <2>2. ASSUME NEW s \in SUBSET D, Cardinality(s) <= n + 1
        PROVE  sum[s] = IF s = {} THEN 0 ELSE w[CHOOSE x \in s : TRUE] + sum[Left(s)]
    <3>1. CASE s = {}
      <4>1. Cardinality(s) <= n
        BY <1>3, <3>1
      <4>2. old[s] = 0
        BY <2>1, <3>1, <4>1
      <4> QED
        BY <3>1, <4>1, <4>2
    <3>2. CASE s # {}
      <4>1. Left(s) \in SUBSET D /\ Cardinality(Left(s)) <= n
        BY <1>1, <1>2, <2>2, <3>2
      <4>2. sum[Left(s)] = old[Left(s)]
        BY <4>1
      <4>3. Cardinality(s) <= n => old[s] = w[CHOOSE x \in s : TRUE] + old[Left(s)]
        BY <2>1, <3>2
      <4>4. sum[s] = w[CHOOSE x \in s : TRUE] + old[Left(s)]
        BY <4>3
      <4> QED
        BY <3>2, <4>2, <4>4
    <3> QED
      BY <3>1, <3>2
  <2> HIDE DEF sum
  <2>3. DOMAIN sum = SUBSET D
    BY DEF sum
  <2>4. Upto(n + 1, sum)
    BY <2>2
  <2> QED
    BY <2>3, <2>4
<1> HIDE DEF Reached
<1>6. Nat \subseteq Reached
  BY <1>4, <1>5, SetInduction
<1>7. PICK sum : DOMAIN sum = SUBSET D /\ Upto(Cardinality(D), sum)
  BY <1>1, <1>6 DEF Reached
<1>8. \A s \in SUBSET D : Cardinality(s) <= Cardinality(D)
  BY FS_Subset
<1> DEFINE again == [s \in SUBSET D |-> IF s = {} THEN 0
                       ELSE w[CHOOSE x \in s : TRUE] + sum[Left(s)]]
<1>9. \A s \in SUBSET D : sum[s] = again[s]
  BY <1>7, <1>8
<1>10. IsRunningSum(w, [s \in SUBSET D |-> sum[s]])
  <2> DEFINE same == [s \in SUBSET D |-> sum[s]]
  <2>1. \A s \in SUBSET D : s # {} => same[Left(s)] = sum[Left(s)]
    BY <1>2
  <2>2. \A s \in SUBSET D : same[s] = IF s = {} THEN 0
                                      ELSE w[CHOOSE x \in s : TRUE] + same[Left(s)]
    BY <1>9, <2>1
  <2> HIDE DEF same
  <2>3. same = [s \in SUBSET D |-> same[s]]
    BY DEF same
  <2>4. same = [s \in SUBSET D |-> IF s = {} THEN 0
                                   ELSE w[CHOOSE x \in s : TRUE] + same[Left(s)]]
    BY <2>2, <2>3, Zenon
  <2> QED
    BY <2>4 DEF IsRunningSum, same, Left
<1> QED
  BY <1>10

\* The library's sum is computed by one.
LEMMA SumIsRunning ==
    ASSUME NEW w, IsFiniteSet(DOMAIN w)
    PROVE  \E sum : IsRunningSum(w, sum) /\ SumFunction(w) = sum[DOMAIN w]
<1> DEFINE sum == CHOOSE f : IsRunningSum(w, f)
<1>1. IsRunningSum(w, sum)
  BY RunningSumExists
<1>2. SumFunction(w) = sum[DOMAIN w]
  BY DEF SumFunction, SumFunctionOnSet, FoldFunctionOnSet, MapThenFoldSet, IsRunningSum
<1> QED
  BY <1>1, <1>2


\* A function of the index sets that grows by the value of each index added.
GrowsBy(w, g) ==
    /\ g[{}] = 0
    /\ \A s \in SUBSET DOMAIN w : \A x \in s : g[s] = w[x] + g[s \ {x}]

\* Such a function ends at the sum.
LEMMA SumGrows ==
    ASSUME NEW w, IsFiniteSet(DOMAIN w), \A x \in DOMAIN w : w[x] \in Int,
           NEW g, GrowsBy(w, g)
    PROVE  SumFunction(w) = g[DOMAIN w]
<1> DEFINE D == DOMAIN w
<1>1. PICK sum : IsRunningSum(w, sum) /\ SumFunction(w) = sum[D]
  BY SumIsRunning
<1>2. \A s \in SUBSET D : IsFiniteSet(s) /\ Cardinality(s) \in Nat
  BY FS_Subset, FS_CardinalityType
<1> DEFINE Agreed == {n \in Nat : \A s \in SUBSET D : Cardinality(s) = n => sum[s] = g[s]}
<1>3. 0 \in Agreed
  <2>1. \A s \in SUBSET D : Cardinality(s) = 0 => s = {}
    BY <1>2, FS_EmptySet
  <2>2. sum[{}] = 0 /\ g[{}] = 0
    BY <1>1 DEF IsRunningSum, GrowsBy
  <2> QED
    BY <2>1, <2>2
<1>4. ASSUME NEW n \in Nat, n \in Agreed PROVE n + 1 \in Agreed
  <2> SUFFICES ASSUME NEW s \in SUBSET D, Cardinality(s) = n + 1 PROVE sum[s] = g[s]
    OBVIOUS
  <2> DEFINE x == CHOOSE y \in s : TRUE
  <2>1. s # {}
    BY FS_EmptySet
  <2>2. x \in s
    BY <2>1
  <2>3. s \ {x} \in SUBSET D /\ Cardinality(s \ {x}) = n
    <3> HIDE DEF x
    <3>1. IsFiniteSet(s)
      BY <1>2
    <3>2. Cardinality(s \ {x}) = Cardinality(s) - 1
      BY <2>2, <3>1, FS_RemoveElement
    <3> QED
      BY <3>2
  <2>4. sum[s \ {x}] = g[s \ {x}]
    BY <1>4, <2>3
  <2>5. sum[s] = w[x] + sum[s \ {x}]
    BY <1>1, <2>1 DEF IsRunningSum
  <2> HIDE DEF x
  <2>6. g[s] = w[x] + g[s \ {x}]
    BY <2>2 DEF GrowsBy
  <2> QED
    BY <2>4, <2>5, <2>6
<1> HIDE DEF Agreed
<1>5. Nat \subseteq Agreed
  BY <1>3, <1>4, SetInduction
<1> QED
  BY <1>1, <1>2, <1>5 DEF Agreed

\* The sum of integers is one.
LEMMA SumType ==
    ASSUME NEW w, IsFiniteSet(DOMAIN w), \A x \in DOMAIN w : w[x] \in Int
    PROVE  SumFunction(w) \in Int
<1> DEFINE D == DOMAIN w
<1>1. PICK sum : IsRunningSum(w, sum) /\ SumFunction(w) = sum[D]
  BY SumIsRunning
<1>2. \A s \in SUBSET D : IsFiniteSet(s) /\ Cardinality(s) \in Nat
  BY FS_Subset, FS_CardinalityType
<1> DEFINE Typed == {n \in Nat : \A s \in SUBSET D : Cardinality(s) = n => sum[s] \in Int}
<1>3. 0 \in Typed
  <2>1. \A s \in SUBSET D : Cardinality(s) = 0 => s = {}
    BY <1>2, FS_EmptySet
  <2>2. sum[{}] = 0
    BY <1>1 DEF IsRunningSum
  <2> QED
    BY <2>1, <2>2
<1>4. ASSUME NEW n \in Nat, n \in Typed PROVE n + 1 \in Typed
  <2> SUFFICES ASSUME NEW s \in SUBSET D, Cardinality(s) = n + 1 PROVE sum[s] \in Int
    OBVIOUS
  <2> DEFINE x == CHOOSE y \in s : TRUE
  <2>1. s # {}
    BY FS_EmptySet
  <2>2. x \in s
    BY <2>1
  <2>3. s \ {x} \in SUBSET D /\ Cardinality(s \ {x}) = n
    <3> HIDE DEF x
    <3>1. IsFiniteSet(s)
      BY <1>2
    <3>2. Cardinality(s \ {x}) = Cardinality(s) - 1
      BY <2>2, <3>1, FS_RemoveElement
    <3> QED
      BY <3>2
  <2>4. sum[s \ {x}] \in Int
    BY <1>4, <2>3
  <2>5. sum[s] = w[x] + sum[s \ {x}]
    BY <1>1, <2>1 DEF IsRunningSum
  <2> HIDE DEF x
  <2> QED
    BY <2>2, <2>4, <2>5
<1> HIDE DEF Typed
<1>5. Nat \subseteq Typed
  BY <1>3, <1>4, SetInduction
<1> QED
  BY <1>1, <1>2, <1>5 DEF Typed

\* Every listing of a cycle is counted once: as matched, or under the reason it
\* was rejected for.
LEMMA CountsAddUp ==
    ASSUME NEW ls, IsFiniteSet(DOMAIN ls), \A t \in DOMAIN ls : IsListing(ls[t]),
           NEW s, IsSearch(s)
    PROVE  Counts(ls, s).fetched
              = Counts(ls, s).matched + SumFunction(Counts(ls, s).rejections)
<1> DEFINE T == DOMAIN ls
<1> DEFINE why(t) == ClassifyRejection(ls[t], s)
<1> DEFINE w == CountRejections(ls, s)
<1> DEFINE For(R) == {t \in T : why(t) \in R}
<1> DEFINE matched == {t \in T : MatchesSearch(ls[t], s)}
<1> DEFINE g == [R \in SUBSET DOMAIN w |-> Cardinality(For(R))]
<1>1. w = [r \in {why(t) : t \in T} \ {NoText} |-> Cardinality({t \in T : why(t) = r})]
  BY DEF CountRejections
<1>2. DOMAIN w = {why(t) : t \in T} \ {NoText}
  BY <1>1
<1>3. \A t \in T : MatchesSearch(ls[t], s) <=> why(t) = NoText
  BY RejectionIsPercolator
<1>4. IsFiniteSet({why(t) : t \in T})
  <2> DEFINE f == [t \in T |-> why(t)]
  <2>1. f \in Surjection(T, {why(t) : t \in T})
    BY DEF Surjection
  <2> QED
    BY <2>1, FS_Surjection
<1>5. IsFiniteSet(DOMAIN w)
  BY <1>2, <1>4, FS_Subset
<1> HIDE DEF why
<1>6. \A r \in DOMAIN w : w[r] = Cardinality({t \in T : why(t) = r})
  BY <1>1, <1>2
<1> HIDE DEF w
<1>7. \A A \in SUBSET T : IsFiniteSet(A) /\ Cardinality(A) \in Nat
  BY FS_Subset, FS_CardinalityType
<1>8. \A r \in DOMAIN w : w[r] \in Int
  <2> TAKE r \in DOMAIN w
  <2> DEFINE A == {t \in T : why(t) = r}
  <2>1. A \in SUBSET T
    OBVIOUS
  <2>2. w[r] = Cardinality(A)
    BY <1>6
  <2> HIDE DEF A
  <2>3. Cardinality(A) \in Nat
    BY <1>7, <2>1
  <2> QED
    BY <2>2, <2>3
<1>9. g[{}] = 0
  <2>1. For({}) = {}
    OBVIOUS
  <2> QED
    BY <2>1, FS_EmptySet
<1>10. ASSUME NEW R \in SUBSET DOMAIN w, NEW r \in R
       PROVE  g[R] = w[r] + g[R \ {r}]
  <2> DEFINE A == {t \in T : why(t) = r}
  <2> DEFINE B == For(R \ {r})
  <2>1. For(R) = A \cup B /\ A \cap B = {} /\ A \in SUBSET T /\ B \in SUBSET T
    OBVIOUS
  <2>2. IsFiniteSet(A) /\ IsFiniteSet(B)
    BY <1>7, <2>1
  <2> HIDE DEF A, B, For
  <2>3. Cardinality(A \cup B) = Cardinality(A) + Cardinality(B)
    <3>1. Cardinality(A \cup B) = Cardinality(A) + Cardinality(B) - Cardinality(A \cap B)
      BY <2>2, FS_Union
    <3>2. Cardinality(A) \in Nat /\ Cardinality(B) \in Nat
      BY <1>7, <2>1
    <3>3. Cardinality(A \cap B) = 0
      BY <2>1, FS_EmptySet
    <3> QED
      BY <3>1, <3>2, <3>3
  <2> QED
    BY <1>6, <2>1, <2>3 DEF A, B
<1>11. SumFunction(w) = g[DOMAIN w]
  <2> HIDE DEF g
  <2> QED
    <3>1. GrowsBy(w, g)
      BY <1>9, <1>10 DEF GrowsBy
    <3> QED
      BY <1>5, <1>8, <3>1, SumGrows
<1>12. T = matched \cup For(DOMAIN w) /\ matched \cap For(DOMAIN w) = {}
  BY <1>2, <1>3
<1>13. matched \in SUBSET T /\ For(DOMAIN w) \in SUBSET T
  OBVIOUS
<1>14. Cardinality(T) = Cardinality(matched) + Cardinality(For(DOMAIN w))
  <2> HIDE DEF matched, For
  <2> QED
    <3>1. IsFiniteSet(matched) /\ IsFiniteSet(For(DOMAIN w))
      BY <1>7, <1>13
    <3>2. Cardinality(matched \cup For(DOMAIN w))
             = Cardinality(matched) + Cardinality(For(DOMAIN w))
                 - Cardinality(matched \cap For(DOMAIN w))
      BY <3>1, FS_Union
    <3>3. Cardinality(matched) \in Nat /\ Cardinality(For(DOMAIN w)) \in Nat
      BY <1>7, <1>13
    <3>4. Cardinality(matched \cap For(DOMAIN w)) = 0
      BY <1>12, FS_EmptySet
    <3>5. Cardinality(T) = Cardinality(matched \cup For(DOMAIN w))
      BY <1>12
    <3> QED
      BY <3>2, <3>3, <3>4, <3>5
<1>15. /\ Counts(ls, s).fetched = Cardinality(T)
       /\ Counts(ls, s).matched = Cardinality(matched)
       /\ Counts(ls, s).rejections = w
  BY DEF Counts, w
<1> QED
  BY <1>11, <1>14, <1>15


-----------------------------------------------------------------------------
(* Verdicts and lists *)

\* The statistics start without any listing, and are those of a cycle after it.
LEMMA StatsAddUp ==
    /\ FlowInit => stats.fetched = stats.matched + SumFunction(stats.rejections)
    /\ /\ FlowShape /\ [FlowNext]_flowVars
       /\ stats.fetched = stats.matched + SumFunction(stats.rejections)
       => (stats.fetched = stats.matched + SumFunction(stats.rejections))'
<1>1. ASSUME FlowInit PROVE stats.fetched = stats.matched + SumFunction(stats.rejections)
  <2> DEFINE none == stats.rejections
  <2>1. stats.fetched = 0 /\ stats.matched = 0 /\ none = <<>>
    BY <1>1 DEF FlowInit, NoStats
  <2>2. DOMAIN none = {}
    BY <2>1
  <2>3. IsFiniteSet(DOMAIN none)
    BY <2>2, FS_EmptySet
  <2> HIDE DEF none
  <2> DEFINE g == [s \in {{}} |-> 0]
  <2>4. GrowsBy(none, g)
    BY <2>2 DEF GrowsBy
  <2>5. g[DOMAIN none] = 0
    BY <2>2
  <2> HIDE DEF g
  <2>6. SumFunction(none) = 0
    BY <2>2, <2>3, <2>4, <2>5, SumGrows
  <2> QED
    BY <2>1, <2>6 DEF none
<1>2. ASSUME FlowShape, [FlowNext]_flowVars,
             stats.fetched = stats.matched + SumFunction(stats.rejections)
      PROVE  (stats.fetched = stats.matched + SumFunction(stats.rejections))'
  <2>1. CASE Cycle
    <3>1. PICK omitted : CycleEffect(omitted)
      BY <1>2, <2>1, CycleDoes
    <3> DEFINE ls == [t \in Tokens |-> Fetched(t, omitted)]
    <3>2. stats' = Counts(ls, search)
      BY <3>1 DEF CycleEffect
    <3>3. DOMAIN ls = Tokens /\ \A t \in Tokens : IsListing(ls[t])
      BY <1>2, FetchedListing DEF IsPriced
    <3>4. IsFiniteSet(Tokens) /\ IsSearch(search)
      BY <1>2, FlowConstants DEF FlowShape
    <3> HIDE DEF ls
    <3>5. Counts(ls, search).fetched
             = Counts(ls, search).matched + SumFunction(Counts(ls, search).rejections)
      BY <3>3, <3>4, CountsAddUp
    <3>6. (stats.fetched = stats.matched + SumFunction(stats.rejections))'
             <=> stats'.fetched = stats'.matched + SumFunction(stats'.rejections)
      BY DEF SumFunction, SumFunctionOnSet, FoldFunctionOnSet, MapThenFoldSet
    <3> QED
      BY <3>2, <3>5, <3>6
  <2>2. CASE stats' = stats
    <3>1. stats'.fetched = stats'.matched + SumFunction(stats'.rejections)
      BY <1>2, <2>2
    <3> QED
      BY <3>1
  <2>3. CASE PushListings \/ InstantSearch \/ Learn \/ Sold \/ Relist \/ UNCHANGED flowVars
    <3>1. stats' = stats
      BY <2>3 DEF PushListings, InstantSearch, Learn, Sold, Relist, flowVars
    <3> QED
      BY <2>2, <3>1
  <2> QED
    BY <1>2, <2>1, <2>3 DEF FlowNext
<1> QED
  BY <1>1, <1>2

\* A listing that matches leaves a row that the list of the search shows, unless
\* the row knows a field that the listing lacks, or its seller is unknown.
LEMMA StoredIsListed ==
    ASSUME NEW s, IsSearch(s), NEW rec, IsListing(rec.l), NEW old, old = NoRow \/ IsRow(old),
           NEW r, r = Upsert(old, rec), NothingOlder(rec.l, r), rec.l.commercial # "nil",
           MatchesSearch(rec.l, s)
    PROVE  BuildFilterClauses(ListingFilterFromSearch(s), r)
<1> DEFINE l == rec.l
<1> DEFINE f == ListingFilterFromSearch(s)
<1>1. /\ IsRow(r) /\ ~r.removed
      /\ \A x \in {"price", "km", "hand", "year"} : l[x] > 0 => r[x] = l[x]
      /\ l.gearBox # NoText => r.gearBox = l.gearBox
      /\ l.commercial # "nil" => r.commercial = l.commercial
      /\ l.image => r.image
  BY UpsertKeeps
<1>2. /\ IF l.price > 0 THEN r.price = l.price ELSE r.price = 0
      /\ IF l.km > 0 THEN r.km = l.km ELSE r.km = 0
      /\ IF l.hand > 0 THEN r.hand = l.hand ELSE r.hand = 0
      /\ IF l.year > 0 THEN r.year = l.year ELSE r.year = 0
      /\ r.commercial = l.commercial
      /\ IF l.gearBox # NoText THEN r.gearBox = l.gearBox ELSE r.gearBox = NoText
  BY <1>1 DEF NothingOlder
<1>3. /\ f.price = <<s.priceMin, s.priceMax>> /\ f.year = <<s.yearMin, s.yearMax>>
      /\ f.maxKm = s.maxKm /\ f.maxHand = s.maxHand /\ f.gearBox = s.gearBox
      /\ f.priceOnly = s.priceOnly /\ f.photoOnly = s.photoOnly
  BY DEF ListingFilterFromSearch
<1>4. f.commercial # "nil" => SqlCommercial(r) = f.commercial
  BY <1>2 DEF ListingFilterFromSearch, NormalizeSellerFilter, SqlCommercial, MatchesSearch,
              SellerAccepts, IsListing
<1> HIDE DEF f, l
<1>5. MatchesSearch(l, s) /\ IsListing(l)
  BY DEF l
<1>6. /\ AtLeast(r.price, s.priceMin) \/ r.price = 0
      /\ AtMost(r.price, s.priceMax)
      /\ AtLeast(r.year, s.yearMin) /\ AtMost(r.year, s.yearMax)
      /\ AtMost(r.km, s.maxKm) \/ r.km = 0
      /\ AtMost(r.hand, s.maxHand)
      /\ s.priceOnly => r.price > 0
  BY <1>2, <1>5 DEF MatchesSearch, AtLeast, AtMost, IsListing, IsSearch
<1>7. s.gearBox # NoText => r.gearBox \in {NoText, s.gearBox}
  BY <1>2, <1>5 DEF MatchesSearch
<1>8. s.photoOnly => r.image
  BY <1>1, <1>5 DEF MatchesSearch
<1> QED
  BY <1>1, <1>3, <1>4, <1>6, <1>7, <1>8 DEF BuildFilterClauses, f

\* The counter on a search is the number of rows behind it.
LEMMA CounterIsTotal ==
    FlowShape => Dashboard.listingsCount = Dashboard.stats.total
<1> SUFFICES ASSUME FlowShape PROVE Dashboard.listingsCount = Dashboard.stats.total
  OBVIOUS
<1> DEFINE D == {t \in Tokens : row[t] # NoRow}
<1> DEFINE held == Restrict(row, D)
<1> DEFINE f == ListingFilterFromSearch(search)
<1>1. DOMAIN held = D /\ \A t \in D : held[t] = row[t] /\ IsRow(held[t])
  BY DEF Restrict, FlowShape
<1>2. IsSearch(search)
  BY FlowConstants DEF FlowShape
<1>3. \A t \in D : CountSearchListingsForChat(held[t], search)
                     <=> BuildFilterClauses(f, held[t])
  BY <1>1, <1>2, CounterIsList
<1>4. Dashboard.listingsCount
         = Cardinality({t \in DOMAIN held : CountSearchListingsForChat(held[t], search)})
  BY DEF Dashboard
<1>5. Dashboard.stats.total = Cardinality({t \in DOMAIN held : BuildFilterClauses(f, held[t])})
  BY DEF Dashboard, SearchStats
<1> HIDE DEF held, f, D
<1> QED
  BY <1>1, <1>3, <1>4, <1>5

\* The rows behind what is alerted.
AlertsListed ==
    \A a \in alerts :
        (/\ NothingOlder(a.l, row[a.token]) /\ a.l.commercial # "nil"
         /\ MatchesSearch(a.l, search))
           => BuildFilterClauses(ListingFilterFromSearch(search), row[a.token])

\* What a step alerts it has stored.
LEMMA AlertsStayListed ==
    FlowShape /\ AlertsListed /\ [FlowNext]_flowVars => AlertsListed'
<1> SUFFICES ASSUME FlowShape, AlertsListed, [FlowNext]_flowVars PROVE AlertsListed'
  OBVIOUS
<1>1. IsSearch(search)
  BY FlowConstants DEF FlowShape
<1>2. ASSUME NEW t \in Tokens, NEW l, IsListing(l), Stores(t, l), NothingOlder(l, row'[t]),
             l.commercial # "nil", MatchesSearch(l, search)
      PROVE  BuildFilterClauses(ListingFilterFromSearch(search), row'[t])
  <2>1. PICK rec : rec.l = l /\ row'[t] = Upsert(row[t], rec)
    BY <1>2 DEF Stores
  <2>2. row[t] = NoRow \/ IsRow(row[t])
    BY DEF FlowShape
  <2> QED
    BY <1>1, <1>2, <2>1, <2>2, StoredIsListed
<1>3. CASE Cycle
  <2>1. PICK omitted : CycleEffect(omitted)
    BY <1>3, CycleDoes
  <2>2. search' = search
    BY <2>1 DEF CycleEffect
  <2>3. \A a \in alerts' : a.token \in Tokens /\ IsListing(a.l) /\ Stores(a.token, a.l)
    BY <2>1, FetchedListing DEF CycleEffect, IsPriced
  <2> QED
    BY <1>2, <2>2, <2>3 DEF AlertsListed
<1>4. CASE PushListings
  <2>1. PICK omitted, link, picture : PushEffect(omitted, link, picture)
    BY <1>4, PushDoes
  <2>2. search' = search
    BY <2>1 DEF PushEffect
  <2>3. \A a \in alerts' : a.token \in Tokens /\ IsListing(a.l) /\ Stores(a.token, a.l)
    BY <2>1, PushedListing DEF PushEffect, IsPriced
  <2> QED
    BY <1>2, <2>2, <2>3 DEF AlertsListed
<1>5. CASE InstantSearch
  BY <1>5 DEF AlertsListed, InstantSearch
<1>6. CASE Learn \/ Sold \/ Relist
  BY <1>6 DEF AlertsListed, Learn, Sold, Relist
<1>7. CASE UNCHANGED flowVars
  BY <1>7 DEF AlertsListed, flowVars
<1> QED
  BY <1>3, <1>4, <1>5, <1>6, <1>7 DEF FlowNext

\* The verdicts on the listings of the source are the same by type.
LEMMA OneVerdictOnTypes ==
    FlowShape /\ stats.fetched = stats.matched + SumFunction(stats.rejections) => OneVerdict
<1> SUFFICES ASSUME FlowShape,
                    stats.fetched = stats.matched + SumFunction(stats.rejections)
             PROVE  OneVerdict
  OBVIOUS
<1>1. IsSearch(search) /\ \A t \in Tokens : IsListing(source[t])
  BY FlowConstants DEF FlowShape, IsPriced
<1>2. \A t \in Tokens :
         /\ MatchesSearch(source[t], search)
              <=> Matches(FilterCriteriaFromSearch(search), source[t])
         /\ MatchesSearch(source[t], search)
              <=> ClassifyRejection(source[t], search) = NoText
  BY <1>1, FilterIsPercolator, RejectionIsPercolator
<1> QED
  BY <1>2 DEF OneVerdict


-----------------------------------------------------------------------------
(* Cheaper is not worse *)

\* Division by a positive number keeps the order.
LEMMA DivKeepsOrder ==
    ASSUME NEW x \in Int, NEW y \in Int, NEW d \in Int, d > 0, x <= y
    PROVE  /\ x \div d \in Int /\ y \div d \in Int
           /\ x \div d <= y \div d
<1> DEFINE p == x \div d
<1> DEFINE q == y \div d
<1>1. p \in Int /\ q \in Int
  OBVIOUS
<1>2. d * p <= x /\ x < d * p + d /\ d * q <= y /\ y < d * q + d
  OBVIOUS
<1> HIDE DEF p, q
<1>3. p >= q + 1 => d * p >= d * q + d
  BY <1>1
<1>4. d * p \in Int /\ d * q \in Int
  BY <1>1
<1>5. p <= q
  BY <1>1, <1>2, <1>3, <1>4
<1> QED
  BY <1>1, <1>5 DEF p, q

\* So does a product with one that is not negative.
LEMMA TimesKeepsOrder ==
    ASSUME NEW x \in Int, NEW y \in Int, NEW d \in Int, d >= 0, x <= y
    PROVE  /\ x * d \in Int /\ y * d \in Int
           /\ x * d <= y * d
OBVIOUS

\* So does clamping.
LEMMA ClampKeepsOrder ==
    ASSUME NEW x \in Int, NEW y \in Int, NEW lo \in Int, NEW hi \in Int, lo <= hi, x <= y
    PROVE  /\ Clamp(x, lo, hi) \in lo..hi /\ Clamp(y, lo, hi) \in lo..hi
           /\ Clamp(x, lo, hi) <= Clamp(y, lo, hi)
BY DEF Clamp

\* The power that bends the curves beyond their middle.
LEMMA PowerRises ==
    ASSUME NEW x \in Int, NEW y \in Int, x <= y
    PROVE  LET Bent(v) == Pow07[Clamp(Milli(v, 300), 0, One)]
           IN  Bent(x) \in Nat /\ Bent(y) \in Nat /\ Bent(x) <= Bent(y)
<1> DEFINE p == Milli(x, 300)
<1> DEFINE q == Milli(y, 300)
<1>1. p \in Int /\ q \in Int /\ p <= q
  BY DEF Milli
<1>2. One \in Int /\ 0 <= One /\ One <= MaxExcess /\ MaxExcess \in Int
  BY DEF One, MaxExcess
<1> HIDE DEF p, q
<1>3. Clamp(p, 0, One) \in 0..One /\ Clamp(q, 0, One) \in 0..One
      /\ Clamp(p, 0, One) <= Clamp(q, 0, One)
  BY <1>1, <1>2, ClampKeepsOrder
<1>4. \A a, b \in 0..One : a <= b => Pow07[a] <= Pow07[b]
  BY ScoreConstants
<1>5. \A a \in 0..One : Pow07[a] \in Nat
  BY <1>2, ScoreConstants
<1> QED
  BY <1>3, <1>4, <1>5 DEF p, q

\* What a price adds never rises with the price: not where a market is known ...
LEMMA MarketCurveFalls ==
    ASSUME NEW x \in Int, NEW y \in Int, x <= y
    PROVE  LET F(r) == Curve(r, 800, 920, 1050, 2500, 300, -3500, 3200)
           IN  F(x) \in Int /\ F(y) \in Int /\ F(y) <= F(x)
<1> DEFINE B(v) == Pow07[Clamp(Milli(v, 300), 0, One)]
<1> DEFINE b == B(x - 1050)
<1> DEFINE c == B(y - 1050)
<1>1. b \in Nat /\ c \in Nat /\ b <= c
  BY PowerRises
<1> DEFINE f == Curve(x, 800, 920, 1050, 2500, 300, -3500, 3200)
<1> DEFINE g == Curve(y, 800, 920, 1050, 2500, 300, -3500, 3200)
<1>2. /\ x < 800 => f = 2500
      /\ x >= 800 /\ x < 920 => f = (2500 * (920 - x)) \div (920 - 800)
      /\ x >= 920 /\ x <= 1050 => f = -((300 * (x - 920)) \div (1050 - 920))
      /\ x > 1050 => f = Clamp(-300 - (3200 * b) \div 1000, -3500, -300)
  BY DEF Curve
<1>3. /\ y < 800 => g = 2500
      /\ y >= 800 /\ y < 920 => g = (2500 * (920 - y)) \div (920 - 800)
      /\ y >= 920 /\ y <= 1050 => g = -((300 * (y - 920)) \div (1050 - 920))
      /\ y > 1050 => g = Clamp(-300 - (3200 * c) \div 1000, -3500, -300)
  BY DEF Curve
<1> HIDE DEF b, c, f, g
<1>4. /\ x > 1050 => -3500 <= f /\ f <= -300 /\ f \in Int
      /\ y > 1050 => -3500 <= g /\ g <= -300 /\ g \in Int
      /\ x > 1050 /\ y > 1050 => g <= f
  <2>1. /\ -300 - (3200 * b) \div 1000 \in Int /\ -300 - (3200 * c) \div 1000 \in Int
        /\ -300 - (3200 * c) \div 1000 <= -300 - (3200 * b) \div 1000
    BY <1>1
  <2> QED
    BY <1>2, <1>3, <2>1 DEF Clamp
<1>5. /\ x >= 800 /\ x < 920 => 0 <= f /\ f <= 2500 /\ f \in Int
      /\ y >= 800 /\ y < 920 => 0 <= g /\ g <= 2500 /\ g \in Int
      /\ x >= 800 /\ y < 920 => g <= f
  BY <1>2, <1>3
<1>6. /\ x >= 920 /\ x <= 1050 => -300 <= f /\ f <= 0 /\ f \in Int
      /\ y >= 920 /\ y <= 1050 => -300 <= g /\ g <= 0 /\ g \in Int
      /\ x >= 920 /\ y <= 1050 => g <= f
  BY <1>2, <1>3
<1>7. f \in Int /\ -3500 <= f /\ f <= 2500
  BY <1>2, <1>4, <1>5, <1>6
<1>8. g \in Int /\ -3500 <= g /\ g <= 2500
  BY <1>3, <1>4, <1>5, <1>6
<1>9. g <= f
  BY <1>2, <1>3, <1>4, <1>5, <1>6, <1>7, <1>8
<1> QED
  BY <1>7, <1>8, <1>9 DEF f, g

\* ... nor where only the price list is.
LEMMA BaseCurveFalls ==
    ASSUME NEW x \in Int, NEW y \in Int, x <= y
    PROVE  LET F(r) == Curve(r, 750, 880, 1100, 1800, 200, -2800, 2600)
           IN  F(x) \in Int /\ F(y) \in Int /\ F(y) <= F(x)
<1> DEFINE B(v) == Pow07[Clamp(Milli(v, 300), 0, One)]
<1> DEFINE b == B(x - 1100)
<1> DEFINE c == B(y - 1100)
<1>1. b \in Nat /\ c \in Nat /\ b <= c
  BY PowerRises
<1> DEFINE f == Curve(x, 750, 880, 1100, 1800, 200, -2800, 2600)
<1> DEFINE g == Curve(y, 750, 880, 1100, 1800, 200, -2800, 2600)
<1>2. /\ x < 750 => f = 1800
      /\ x >= 750 /\ x < 880 => f = (1800 * (880 - x)) \div (880 - 750)
      /\ x >= 880 /\ x <= 1100 => f = -((200 * (x - 880)) \div (1100 - 880))
      /\ x > 1100 => f = Clamp(-200 - (2600 * b) \div 1000, -2800, -200)
  BY DEF Curve
<1>3. /\ y < 750 => g = 1800
      /\ y >= 750 /\ y < 880 => g = (1800 * (880 - y)) \div (880 - 750)
      /\ y >= 880 /\ y <= 1100 => g = -((200 * (y - 880)) \div (1100 - 880))
      /\ y > 1100 => g = Clamp(-200 - (2600 * c) \div 1000, -2800, -200)
  BY DEF Curve
<1> HIDE DEF b, c, f, g
<1>4. /\ x > 1100 => -2800 <= f /\ f <= -200 /\ f \in Int
      /\ y > 1100 => -2800 <= g /\ g <= -200 /\ g \in Int
      /\ x > 1100 /\ y > 1100 => g <= f
  <2>1. /\ -200 - (2600 * b) \div 1000 \in Int /\ -200 - (2600 * c) \div 1000 \in Int
        /\ -200 - (2600 * c) \div 1000 <= -200 - (2600 * b) \div 1000
    BY <1>1
  <2> QED
    BY <1>2, <1>3, <2>1 DEF Clamp
<1>5. /\ x >= 750 /\ x < 880 => 0 <= f /\ f <= 1800 /\ f \in Int
      /\ y >= 750 /\ y < 880 => 0 <= g /\ g <= 1800 /\ g \in Int
      /\ x >= 750 /\ y < 880 => g <= f
  BY <1>2, <1>3
<1>6. /\ x >= 880 /\ x <= 1100 => -200 <= f /\ f <= 0 /\ f \in Int
      /\ y >= 880 /\ y <= 1100 => -200 <= g /\ g <= 0 /\ g \in Int
      /\ x >= 880 /\ y <= 1100 => g <= f
  BY <1>2, <1>3
<1>7. f \in Int /\ -2800 <= f /\ f <= 1800
  BY <1>2, <1>4, <1>5, <1>6
<1>8. g \in Int /\ -2800 <= g /\ g <= 1800
  BY <1>3, <1>4, <1>5, <1>6
<1>9. g <= f
  BY <1>2, <1>3, <1>4, <1>5, <1>6, <1>7, <1>8
<1> QED
  BY <1>7, <1>8, <1>9 DEF f, g

\* The gate on bargains in poor condition keeps their order.
LEMMA GateKeepsOrder ==
    ASSUME NEW x \in Int, NEW y \in Int, x <= y, NEW c \in Nat
    PROVE  Gated(x, c) \in Int /\ Gated(y, c) \in Int /\ Gated(x, c) <= Gated(y, c)
<1>1. x * c \in Int /\ y * c \in Int /\ x * c <= y * c
  BY TimesKeepsOrder
<1>2. x > 0 => x * c >= 0
  OBVIOUS
<1>3. y > 0 => y * c >= 0
  OBVIOUS
<1> DEFINE a == x * c
<1> DEFINE b == y * c
<1> HIDE DEF a, b
<1>4. /\ Gated(x, c) = IF x > 0 /\ c < 550 THEN a \div 550 ELSE x
      /\ Gated(y, c) = IF y > 0 /\ c < 550 THEN b \div 550 ELSE y
  BY DEF Gated, a, b
<1>5. a \in Int /\ b \in Int /\ a <= b /\ (x > 0 => a >= 0) /\ (y > 0 => b >= 0)
  BY <1>1, <1>2, <1>3 DEF a, b
<1> QED
  BY <1>4, <1>5


\* A ratio in thousandths keeps the order of what is divided.
LEMMA MilliKeepsOrder ==
    ASSUME NEW x \in Int, NEW y \in Int, NEW d \in Int, d > 0, x <= y
    PROVE  /\ Milli(x, d) \in Int /\ Milli(y, d) \in Int
           /\ Milli(x, d) <= Milli(y, d)
<1> DEFINE a == x * 1000
<1> DEFINE b == y * 1000
<1>1. a \in Int /\ b \in Int /\ a <= b
  OBVIOUS
<1> HIDE DEF a, b
<1>2. a \div d \in Int /\ b \div d \in Int /\ a \div d <= b \div d
  BY <1>1, DivKeepsOrder
<1> QED
  BY <1>2 DEF Milli, a, b

\* A product of two large numbers is at least that of two smaller ones.
LEMMA ProductAtLeast ==
    ASSUME NEW x \in Int, NEW y \in Int, NEW a \in Nat, NEW b \in Nat, x >= a, y >= b
    PROVE  x * y \in Int /\ x * y >= a * b
<1>1. a * y <= x * y /\ a * y \in Int /\ x * y \in Int
  BY TimesKeepsOrder
<1>2. b * a <= y * a /\ b * a \in Int /\ y * a \in Int
  BY TimesKeepsOrder
<1>3. b * a = a * b /\ y * a = a * y
  OBVIOUS
<1> QED
  BY <1>1, <1>2, <1>3

\* A score that is shown is between 0 and 1.
LEMMA ShownScore ==
    ASSUME NEW v \in Int PROVE Clamp(v, 0, One) \in 0..One
<1>1. One \in Int /\ 0 <= One
  BY DEF One
<1> QED
  BY <1>1, ClampKeepsOrder

\* A car is at least a year old.
LEMMA AgeOfCar ==
    ASSUME NEW year \in Int PROVE CarAge(year) \in Nat /\ CarAge(year) >= 1
BY ScoreConstants DEF CarAge

\* What owners and origin do to an expected price leaves it a price.
LEMMA ExpectedStaysPositive ==
    ASSUME NEW p, p.hand \in Int, NEW age \in Nat, NEW e \in Int, e >= 500
    PROVE  Adjusted(e, p, age) \in Int /\ Adjusted(e, p, age) > 0
<1> DEFINE x == HandExcess(p.hand, age)
<1> DEFINE owners == CASE p.hand = 1 /\ age >= 3 -> 1050
                       [] p.hand > 0 /\ p.hand # 1 /\ x > 0 -> Clamp(1000 - (7 * x) \div 100, 850, 1000)
                       [] OTHER -> 1000
<1> DEFINE origin == CASE p.origin = "lease" -> 960 [] p.origin = "rental" -> 940
                       [] OTHER -> 1000
<1>1. x \in Int
  BY DEF HandExcess
<1> HIDE DEF x
<1>2. owners \in Int /\ owners >= 850
  BY <1>1 DEF Clamp
<1>3. origin \in Int /\ origin >= 940
  OBVIOUS
<1>4. Adjusted(e, p, age) = (((e * owners) \div 1000) * origin) \div 1000
  BY DEF Adjusted, x
<1> HIDE DEF owners, origin
<1>5. e * owners \in Int /\ e * owners >= 500 * 850
  BY <1>2, ProductAtLeast
<1> DEFINE a == (e * owners) \div 1000
<1>6. a \in Int /\ a >= 400
  BY <1>5
<1> HIDE DEF a
<1>7. a * origin \in Int /\ a * origin >= 400 * 940
  BY <1>3, <1>6, ProductAtLeast
<1>8. Adjusted(e, p, age) = (a * origin) \div 1000
  BY <1>4 DEF a
<1> DEFINE c == a * origin
<1> HIDE DEF c
<1>9. Adjusted(e, p, age) = c \div 1000 /\ c \in Int /\ c >= 400 * 940
  BY <1>7, <1>8 DEF c
<1> QED
  BY <1>9

\* Where Logistic is looked up it is defined.
LEMMA InSlope ==
    /\ \A r \in Nat : r <= 1000 => 4 * (r - 700) \in Slope
    /\ \A x \in Int : 0 <= x /\ x <= 8000 => x \in Slope
<1>1. \A lo, hi, x \in Int : lo <= x /\ x <= hi => x \in lo..hi
  OBVIOUS
<1>2. PICK lo \in Int, hi \in Int : lo = -3000 /\ hi = 8000
  OBVIOUS
<1>3. Slope = lo..hi
  BY <1>2 DEF Slope
<1>4. ASSUME NEW r \in Nat, r <= 1000 PROVE 4 * (r - 700) \in Slope
  <2>1. 4 * (r - 700) \in Int /\ lo <= 4 * (r - 700) /\ 4 * (r - 700) <= hi
    BY <1>2, <1>4
  <2> QED
    BY <1>1, <1>3, <2>1
<1>5. ASSUME NEW x \in Int, 0 <= x, x <= 8000 PROVE x \in Slope
  <2>1. lo <= x /\ x <= hi
    BY <1>2, <1>5
  <2> QED
    BY <1>1, <1>3, <2>1
<1> QED
  BY <1>4, <1>5

\* Where a market is known, a lower price adds no less.
LEMMA MarketDeltaFalls ==
    ASSUME NEW p, NEW q, q = [p EXCEPT !.price = q.price],
           {"price", "km", "hand", "origin", "medianPrice", "medianKm"} \subseteq DOMAIN p,
           p.price \in Int, q.price \in Int, q.price <= p.price,
           p.km \in Int, p.hand \in Int, p.medianPrice \in Int, p.medianKm \in Int,
           p.medianPrice > 0, NEW age \in Nat, NEW c \in Nat
    PROVE  /\ MarketDelta(p, age, c) \in Int /\ MarketDelta(q, age, c) \in Int
           /\ MarketDelta(p, age, c) <= MarketDelta(q, age, c)
<1>1. /\ q.km = p.km /\ q.hand = p.hand /\ q.origin = p.origin
      /\ q.medianPrice = p.medianPrice /\ q.medianKm = p.medianKm
  OBVIOUS
<1> DEFINE byKm == IF p.medianKm > 0 /\ p.km > 0
                   THEN Clamp(1000 + (150 * (p.medianKm - p.km)) \div p.medianKm, 500, 1500)
                   ELSE 1000
<1> DEFINE e == Adjusted(p.medianPrice * byKm, p, age)
<1>2. byKm \in Int /\ byKm >= 500
  <2>1. CASE p.medianKm > 0 /\ p.km > 0
    <3> DEFINE v == (150 * (p.medianKm - p.km)) \div p.medianKm
    <3>1. v \in Int
      BY <2>1, DivKeepsOrder
    <3> HIDE DEF v
    <3>2. Clamp(1000 + v, 500, 1500) \in Int /\ Clamp(1000 + v, 500, 1500) >= 500
      BY <3>1 DEF Clamp
    <3> QED
      BY <2>1, <3>2 DEF v
  <2>2. CASE ~(p.medianKm > 0 /\ p.km > 0)
    BY <2>2
  <2> QED
    BY <2>1, <2>2
<1>3. Adjusted(p.medianPrice * byKm, q, age) = e
  BY <1>1 DEF Adjusted
<1>4. /\ MarketDelta(p, age, c)
           = Gated(Curve(Milli(1000 * p.price, e), 800, 920, 1050, 2500, 300, -3500, 3200), c)
      /\ MarketDelta(q, age, c)
           = Gated(Curve(Milli(1000 * q.price, e), 800, 920, 1050, 2500, 300, -3500, 3200), c)
  <2>1. MarketDelta(p, age, c)
           = Gated(Curve(Milli(1000 * p.price, e), 800, 920, 1050, 2500, 300, -3500, 3200), c)
    BY SMT DEF MarketDelta
  <2> DEFINE byKmQ == IF q.medianKm > 0 /\ q.km > 0
                      THEN Clamp(1000 + (150 * (q.medianKm - q.km)) \div q.medianKm, 500, 1500)
                      ELSE 1000
  <2>2. MarketDelta(q, age, c)
           = Gated(Curve(Milli(1000 * q.price, Adjusted(q.medianPrice * byKmQ, q, age)),
                         800, 920, 1050, 2500, 300, -3500, 3200), c)
    BY SMT DEF MarketDelta
  <2>3. byKmQ = byKm /\ q.medianPrice = p.medianPrice
    BY <1>1
  <2> HIDE DEF byKm, byKmQ, e
  <2> QED
    BY <1>3, <2>1, <2>2, <2>3
<1> HIDE DEF byKm
<1>5. p.medianPrice * byKm \in Int /\ p.medianPrice * byKm >= 500
  <2> DEFINE m == p.medianPrice
  <2>1. m \in Int /\ m >= 1
    OBVIOUS
  <2> HIDE DEF m
  <2>2. m * byKm \in Int /\ m * byKm >= 1 * 500
    BY <1>2, <2>1, ProductAtLeast
  <2> QED
    BY <2>2 DEF m
<1>6. e \in Int /\ e > 0
  <2> DEFINE m == p.medianPrice * byKm
  <2> HIDE DEF m
  <2>1. m \in Int /\ m >= 500
    BY <1>5 DEF m
  <2>2. Adjusted(m, p, age) \in Int /\ Adjusted(m, p, age) > 0
    BY <2>1, ExpectedStaysPositive
  <2> QED
    BY <2>2 DEF m
<1> HIDE DEF e
<1> DEFINE x == Milli(1000 * p.price, e)
<1> DEFINE y == Milli(1000 * q.price, e)
<1>7. x \in Int /\ y \in Int /\ y <= x
  <2>1. 1000 * p.price \in Int /\ 1000 * q.price \in Int /\ 1000 * q.price <= 1000 * p.price
    OBVIOUS
  <2> QED
    BY <1>6, <2>1, MilliKeepsOrder
<1> HIDE DEF x, y
<1> DEFINE f == Curve(x, 800, 920, 1050, 2500, 300, -3500, 3200)
<1> DEFINE g == Curve(y, 800, 920, 1050, 2500, 300, -3500, 3200)
<1>8. f \in Int /\ g \in Int /\ f <= g
  BY <1>7, MarketCurveFalls
<1> HIDE DEF f, g
<1>9. Gated(f, c) \in Int /\ Gated(g, c) \in Int /\ Gated(f, c) <= Gated(g, c)
  BY <1>8, GateKeepsOrder
<1> QED
  BY <1>4, <1>9 DEF f, g, x, y

\* Where only the price list is, a lower price adds no less.
LEMMA BasePriceDeltaFalls ==
    ASSUME NEW p, NEW q, q = [p EXCEPT !.price = q.price],
           {"price", "km", "hand", "origin", "basePrice"} \subseteq DOMAIN p,
           p.price \in Int, q.price \in Int, q.price <= p.price,
           p.km \in Int, p.hand \in Int, p.basePrice \in Int, p.basePrice > 0,
           NEW age \in Nat, age >= 1, NEW c \in Nat
    PROVE  /\ BasePriceDelta(p, age, c) \in Int /\ BasePriceDelta(q, age, c) \in Int
           /\ BasePriceDelta(p, age, c) <= BasePriceDelta(q, age, c)
<1>1. /\ q.km = p.km /\ q.hand = p.hand /\ q.origin = p.origin
      /\ q.basePrice = p.basePrice
  OBVIOUS
<1> DEFINE byKm == IF p.km > 0
                   THEN Clamp(1000 + (120 * (15 * age - p.km)) \div (15 * age), 700, 1300)
                   ELSE 1000
<1> DEFINE listed == p.basePrice * BasePriceDiscount(age)
<1> DEFINE e == Adjusted((listed * byKm) \div 1000, p, age)
<1>2. byKm \in Int /\ byKm >= 700
  <2>1. CASE p.km > 0
    <3> DEFINE v == (120 * (15 * age - p.km)) \div (15 * age)
    <3>1. v \in Int
      BY DivKeepsOrder
    <3> HIDE DEF v
    <3>2. Clamp(1000 + v, 700, 1300) \in Int /\ Clamp(1000 + v, 700, 1300) >= 700
      BY <3>1 DEF Clamp
    <3> QED
      BY <2>1, <3>2 DEF v
  <2>2. CASE ~(p.km > 0)
    BY <2>2
  <2> QED
    BY <2>1, <2>2
<1>3. Adjusted((listed * byKm) \div 1000, q, age) = e
  BY <1>1 DEF Adjusted
<1>4. /\ BasePriceDelta(p, age, c)
           = Gated(Curve(Milli(1000 * p.price, e), 750, 880, 1100, 1800, 200, -2800, 2600), c)
      /\ BasePriceDelta(q, age, c)
           = Gated(Curve(Milli(1000 * q.price, e), 750, 880, 1100, 1800, 200, -2800, 2600), c)
  <2>1. BasePriceDelta(p, age, c)
           = Gated(Curve(Milli(1000 * p.price, e), 750, 880, 1100, 1800, 200, -2800, 2600), c)
    BY SMT DEF BasePriceDelta
  <2> DEFINE byKmQ == IF q.km > 0
                      THEN Clamp(1000 + (120 * (15 * age - q.km)) \div (15 * age), 700, 1300)
                      ELSE 1000
  <2> DEFINE listedQ == q.basePrice * BasePriceDiscount(age)
  <2>2. BasePriceDelta(q, age, c)
           = Gated(Curve(Milli(1000 * q.price, Adjusted((listedQ * byKmQ) \div 1000, q, age)),
                         750, 880, 1100, 1800, 200, -2800, 2600), c)
    BY SMT DEF BasePriceDelta
  <2>3. byKmQ = byKm /\ listedQ = listed
    BY <1>1
  <2> HIDE DEF byKm, byKmQ, listed, listedQ, e
  <2> QED
    BY <1>3, <2>1, <2>2, <2>3
<1> HIDE DEF byKm
<1>5. listed \in Int /\ listed >= 850
  <2> DEFINE d == BasePriceDiscount(age)
  <2>1. d \in Int /\ d >= 850
    BY DEF BasePriceDiscount
  <2> HIDE DEF d
  <2>2. p.basePrice >= 1
    OBVIOUS
  <2>3. p.basePrice * d \in Int /\ p.basePrice * d >= 1 * 850
    BY <2>1, <2>2, ProductAtLeast
  <2> QED
    BY <2>3 DEF d
<1> HIDE DEF listed
<1>6. listed * byKm \in Int /\ listed * byKm >= 850 * 700
  BY <1>2, <1>5, ProductAtLeast
<1>7. e \in Int /\ e > 0
  <2> DEFINE n == listed * byKm
  <2> DEFINE m == n \div 1000
  <2> HIDE DEF n
  <2>1. m \in Int /\ m >= 500
    BY <1>6 DEF n
  <2> HIDE DEF m
  <2>2. Adjusted(m, p, age) \in Int /\ Adjusted(m, p, age) > 0
    BY <2>1, ExpectedStaysPositive
  <2> QED
    BY <2>2 DEF m, n
<1> HIDE DEF e
<1> DEFINE x == Milli(1000 * p.price, e)
<1> DEFINE y == Milli(1000 * q.price, e)
<1>8. x \in Int /\ y \in Int /\ y <= x
  <2>1. 1000 * p.price \in Int /\ 1000 * q.price \in Int /\ 1000 * q.price <= 1000 * p.price
    OBVIOUS
  <2> QED
    BY <1>7, <2>1, MilliKeepsOrder
<1> HIDE DEF x, y
<1> DEFINE f == Curve(x, 750, 880, 1100, 1800, 200, -2800, 2600)
<1> DEFINE g == Curve(y, 750, 880, 1100, 1800, 200, -2800, 2600)
<1>9. f \in Int /\ g \in Int /\ f <= g
  BY <1>8, BaseCurveFalls
<1> HIDE DEF f, g
<1>10. Gated(f, c) \in Int /\ Gated(g, c) \in Int /\ Gated(f, c) <= Gated(g, c)
  BY <1>9, GateKeepsOrder
<1> QED
  BY <1>4, <1>10 DEF f, g, x, y

\* Where only the budget is, a lower price adds no less.
LEMMA BudgetDeltaFalls ==
    ASSUME NEW p, NEW q, p.price \in Int, q.price \in Int, q.price <= p.price,
           q.priceMax = p.priceMax, p.priceMax \in Int, p.priceMax > 0
    PROVE  /\ BudgetDelta(p) \in Int /\ BudgetDelta(q) \in Int
           /\ BudgetDelta(p) <= BudgetDelta(q)
<1> DEFINE x == Milli(p.price, p.priceMax)
<1> DEFINE y == Milli(q.price, p.priceMax)
<1>1. x \in Int /\ y \in Int /\ y <= x
  BY MilliKeepsOrder
<1> HIDE DEF x, y
<1> QED
  BY <1>1 DEF BudgetDelta, x, y


\* What the mileage adds is a number, and its score is between 0 and 1.
LEMMA KmDeltaType ==
    ASSUME NEW km \in Int, NEW age \in Nat, age >= 1
    PROVE  ComputeKmDelta(km, age).delta \in Int /\ ComputeKmDelta(km, age).score \in 0..One
<1> DEFINE ratio == Milli(km, 15 * age)
<1> DEFINE excess == Clamp(ratio - 1000, 0, MaxExcess)
<1> DEFINE delta == CASE ratio <= 850 -> (4200 * Sqrt[Milli(850 - ratio, 850)]) \div 1000
                      [] ratio > 850 /\ ratio <= 1000 -> -((300 * (ratio - 850)) \div 150)
                      [] OTHER -> -300 - (4700 * Pow07[excess]) \div 1000
<1> DEFINE score == IF ratio <= 1000 THEN Logistic[4 * (ratio - 700)]
                    ELSE Logistic[Clamp(5 * (ratio - 1000), 0, 8000)]
<1>1. ComputeKmDelta(km, age) = IF km <= 0 THEN Dim(0, 500) ELSE Dim(delta, score)
  BY SMT DEF ComputeKmDelta
<1>2. CASE km <= 0
  <2>1. 500 \in Int
    OBVIOUS
  <2>2. Clamp(500, 0, One) \in 0..One
    BY <2>1, ShownScore
  <2> QED
    BY <1>1, <1>2, <2>2 DEF Dim
<1>3. CASE km > 0
  <2>1. ratio \in Int /\ ratio >= 0
    <3>1. 15 * age \in Int /\ 15 * age > 0
      OBVIOUS
    <3>2. Milli(0, 15 * age) \in Int /\ ratio \in Int /\ Milli(0, 15 * age) <= ratio
      BY <1>3, <3>1, MilliKeepsOrder
    <3>3. Milli(0, 15 * age) = 0
      BY DEF Milli
    <3> QED
      BY <3>2, <3>3
  <2>2. excess \in 0..MaxExcess
    <3>1. MaxExcess \in Int /\ 0 <= MaxExcess
      BY DEF MaxExcess
    <3> DEFINE v == ratio - 1000
    <3>2. v \in Int
      BY <2>1
    <3> HIDE DEF v
    <3>3. Clamp(v, 0, MaxExcess) \in 0..MaxExcess
      BY <3>1, <3>2, ClampKeepsOrder
    <3> QED
      BY <3>3 DEF v
  <2>3. Pow07[excess] \in Nat
    BY <2>2, ScoreConstants
  <2> HIDE DEF ratio, excess
  <2>4. ratio <= 850 => Sqrt[Milli(850 - ratio, 850)] \in Nat
    <3>1. ratio <= 850 => Milli(850 - ratio, 850) \in 0..One
      BY <2>1 DEF Milli, One
    <3> QED
      BY <3>1, ScoreConstants
  <2>5. delta \in Int
    <3>1. CASE ratio <= 850
      <4> DEFINE root == Sqrt[Milli(850 - ratio, 850)]
      <4>1. root \in Nat
        BY <2>4, <3>1
      <4>2. delta = (4200 * root) \div 1000
        BY <2>1, <3>1
      <4> HIDE DEF root, delta
      <4> QED
        BY <4>1, <4>2
    <3>2. CASE ratio > 850
      BY <2>1, <2>3, <3>2
    <3> QED
      BY <2>1, <3>1, <3>2
  <2>6. score \in 0..One
    <3>1. CASE ratio <= 1000
      <4>1. 4 * (ratio - 700) \in Slope
        BY <2>1, <3>1, InSlope
      <4>2. Logistic[4 * (ratio - 700)] \in 0..One
        BY <4>1, ScoreConstants
      <4> QED
        BY <3>1, <4>2
    <3>2. CASE ~(ratio <= 1000)
      <4>1. Clamp(5 * (ratio - 1000), 0, 8000) \in Slope
        <5>1. 5 * (ratio - 1000) \in Int /\ 5 * (ratio - 1000) > 0
          BY <2>1, <3>2
        <5>2. \A v \in Int : v > 0 => Clamp(v, 0, 8000) \in Slope
          BY InSlope DEF Clamp
        <5> QED
          BY <5>1, <5>2
      <4>2. Logistic[Clamp(5 * (ratio - 1000), 0, 8000)] \in 0..One
        BY <4>1, ScoreConstants
      <4> QED
        BY <3>2, <4>2
    <3> QED
      BY <3>1, <3>2
  <2> HIDE DEF delta, score
  <2>7. Clamp(score, 0, One) \in 0..One
    <3>1. score \in Int
      BY <2>6
    <3> QED
      BY <3>1, ShownScore
  <2> QED
    BY <1>1, <1>3, <2>5, <2>7 DEF Dim
<1> QED
  BY <1>2, <1>3

\* So is what the number of owners adds.
LEMMA HandDeltaType ==
    ASSUME NEW hand \in Int, NEW age \in Nat, NEW commercial
    PROVE  /\ ComputeHandDelta(hand, age, commercial).delta \in Int
           /\ ComputeHandDelta(hand, age, commercial).score \in 0..One
<1> DEFINE first == 500 + Clamp(100 * age, 0, 800)
<1> DEFINE x == HandExcess(hand, age)
<1>1. first \in Int /\ x \in Int
  BY DEF Clamp, HandExcess
<1> HIDE DEF first, x
<1>2. PICK d \in Int, s \in Int : ComputeHandDelta(hand, age, commercial) = Dim(d, s)
  <2>1. ComputeHandDelta(hand, age, commercial) =
          CASE hand <= 0 -> Dim(0, 500)
            [] hand = 1 -> IF commercial THEN Dim((first * 4) \div 10, 700) ELSE Dim(first, 1000)
            [] hand > 1 /\ x <= 0 ->
                 Dim(Clamp((-x * 3) \div 10, 0, 300), 700 + (-x * 15) \div 100)
            [] OTHER -> Dim(-((11 * x) \div 10), 500 - x \div 4)
    BY SMT DEF ComputeHandDelta, first, x
  <2> DEFINE d1 == (first * 4) \div 10
  <2> DEFINE d2 == Clamp((-x * 3) \div 10, 0, 300)
  <2> DEFINE s2 == 700 + (-x * 15) \div 100
  <2> DEFINE d3 == -((11 * x) \div 10)
  <2> DEFINE s3 == 500 - x \div 4
  <2>2. d1 \in Int /\ d2 \in Int /\ s2 \in Int /\ d3 \in Int /\ s3 \in Int
    BY <1>1 DEF Clamp
  <2> HIDE DEF d1, d2, s2, d3, s3
  <2>3. ComputeHandDelta(hand, age, commercial)
          \in {Dim(0, 500), Dim(d1, 700), Dim(first, 1000), Dim(d2, s2), Dim(d3, s3)}
    BY <1>1, <2>1 DEF d1, d2, s2, d3, s3
  <2> QED
    BY <1>1, <2>2, <2>3
<1>3. Clamp(s, 0, One) \in 0..One
  BY ShownScore
<1> QED
  BY <1>2, <1>3 DEF Dim

\* What the score is computed from, with prices known.
IsParams(p) ==
    /\ {"price", "km", "hand", "year", "engine", "commercial", "origin", "priceMax",
        "engineMinCC", "medianPrice", "medianKm", "basePrice"} \subseteq DOMAIN p
    /\ {p.price, p.km, p.hand, p.year, p.engine, p.priceMax, p.engineMinCC, p.medianPrice,
        p.medianKm, p.basePrice} \subseteq Int

\* A lower price is worth no less, whatever it is compared with.
LEMMA ValueDeltaFalls ==
    ASSUME NEW p, IsParams(p), NEW q, q = [p EXCEPT !.price = q.price],
           q.price \in Int, 0 < q.price, q.price <= p.price,
           NEW age \in Nat, age >= 1, NEW c \in Nat
    PROVE  /\ ComputeValueDelta(p, age, c).delta \in Int
           /\ ComputeValueDelta(q, age, c).delta \in Int
           /\ ComputeValueDelta(p, age, c).delta <= ComputeValueDelta(q, age, c).delta
<1>1. /\ q.medianPrice = p.medianPrice /\ q.basePrice = p.basePrice /\ q.priceMax = p.priceMax
      /\ {p.price, p.km, p.hand, p.medianPrice, p.medianKm, p.basePrice, p.priceMax} \subseteq Int
      /\ p.price > 0
  BY DEF IsParams
<1> DEFINE known == ~(p.medianPrice + p.basePrice + p.priceMax <= 0)
<1> DEFINE D(r) == CASE r.medianPrice > 0 -> MarketDelta(r, age, c)
                     [] r.medianPrice <= 0 /\ r.basePrice > 0 -> BasePriceDelta(r, age, c)
                     [] OTHER -> BudgetDelta(r)
<1> DEFINE f == D(p)
<1> DEFINE g == D(q)
<1>2. CASE ~known
  <2>1. /\ ComputeValueDelta(p, age, c) = Dim(0, 500)
        /\ ComputeValueDelta(q, age, c) = Dim(0, 500)
    BY <1>1, <1>2 DEF ComputeValueDelta
  <2> QED
    BY <2>1 DEF Dim
<1>3. CASE known
  <2>1. /\ ComputeValueDelta(p, age, c) = Dim(Clamp(f, -3500, 2500), 500 + f \div 5)
        /\ ComputeValueDelta(q, age, c) = Dim(Clamp(g, -3500, 2500), 500 + g \div 5)
    BY <1>1, <1>3, SMT DEF ComputeValueDelta
  <2>2. f \in Int /\ g \in Int /\ f <= g
    <3>1. CASE p.medianPrice > 0
      <4>1. /\ MarketDelta(p, age, c) \in Int /\ MarketDelta(q, age, c) \in Int
            /\ MarketDelta(p, age, c) <= MarketDelta(q, age, c)
        BY <1>1, <3>1, MarketDeltaFalls DEF IsParams
      <4>2. f = MarketDelta(p, age, c) /\ g = MarketDelta(q, age, c)
        BY <1>1, <3>1
      <4> QED
        BY <4>1, <4>2
    <3>2. CASE p.medianPrice <= 0 /\ p.basePrice > 0
      <4>1. /\ BasePriceDelta(p, age, c) \in Int /\ BasePriceDelta(q, age, c) \in Int
            /\ BasePriceDelta(p, age, c) <= BasePriceDelta(q, age, c)
        BY <1>1, <3>2, BasePriceDeltaFalls DEF IsParams
      <4>2. f = BasePriceDelta(p, age, c) /\ g = BasePriceDelta(q, age, c)
        BY <1>1, <3>2
      <4> QED
        BY <4>1, <4>2
    <3>3. CASE p.medianPrice <= 0 /\ p.basePrice <= 0
      <4>1. p.priceMax > 0
        BY <1>1, <1>3, <3>3
      <4>2. /\ BudgetDelta(p) \in Int /\ BudgetDelta(q) \in Int
            /\ BudgetDelta(p) <= BudgetDelta(q)
        BY <1>1, <4>1, BudgetDeltaFalls
      <4>3. f = BudgetDelta(p) /\ g = BudgetDelta(q)
        BY <1>1, <3>3
      <4> QED
        BY <4>2, <4>3
    <3> QED
      BY <1>1, <3>1, <3>2, <3>3
  <2> HIDE DEF f, g
  <2>3. /\ Clamp(f, -3500, 2500) \in Int /\ Clamp(g, -3500, 2500) \in Int
        /\ Clamp(f, -3500, 2500) <= Clamp(g, -3500, 2500)
    BY <2>2 DEF Clamp
  <2> QED
    BY <2>1, <2>3 DEF Dim
<1> QED
  BY <1>2, <1>3

\* A car is scored no worse at a lower price.
LEMMA FitnessFalls ==
    ASSUME NEW p, IsParams(p), NEW q, q = [p EXCEPT !.price = q.price],
           q.price \in Int, 0 < q.price, q.price <= p.price
    PROVE  FitnessScoreDetailed(q).total >= FitnessScoreDetailed(p).total
<1>1. /\ q.year = p.year /\ q.km = p.km /\ q.hand = p.hand /\ q.commercial = p.commercial
      /\ q.engine = p.engine /\ q.engineMinCC = p.engineMinCC
      /\ {p.year, p.km, p.hand, p.engine, p.engineMinCC} \subseteq Int
  BY DEF IsParams
<1> DEFINE age == CarAge(p.year)
<1> DEFINE km == ComputeKmDelta(p.km, age)
<1> DEFINE hand == ComputeHandDelta(p.hand, age, p.commercial)
<1> DEFINE c == (7 * km.score + 3 * hand.score) \div 10
<1> DEFINE e == ComputeEngineDelta(p.engine, p.engineMinCC)
<1> DEFINE rest == 5000 + Clamp(km.delta + hand.delta, -5000, 4500)
<1> DEFINE f == ComputeValueDelta(p, age, c).delta
<1> DEFINE g == ComputeValueDelta(q, age, c).delta
<1> DEFINE Total(v) == (Clamp(rest + v + e.delta, 0, 10000) + 50) \div 100
<1>2. age \in Nat /\ age >= 1
  BY <1>1, AgeOfCar
<1>3. FitnessScoreDetailed(p).total = IF EngineTooSmall(p) THEN 0 ELSE Total(f)
  BY SMT DEF FitnessScoreDetailed
<1>4. FitnessScoreDetailed(q).total = IF EngineTooSmall(p) THEN 0 ELSE Total(g)
  <2> DEFINE Raw(a, k, h) ==
         5000 + Clamp(k.delta + h.delta, -5000, 4500)
              + ComputeValueDelta(q, a, (7 * k.score + 3 * h.score) \div 10).delta
  <2>1. FitnessScoreDetailed(q).total =
           IF EngineTooSmall(q) THEN 0
           ELSE (Clamp(Raw(CarAge(q.year), ComputeKmDelta(q.km, CarAge(q.year)),
                           ComputeHandDelta(q.hand, CarAge(q.year), q.commercial))
                         + ComputeEngineDelta(q.engine, q.engineMinCC).delta, 0, 10000) + 50)
                  \div 100
    BY SMT DEF FitnessScoreDetailed
  <2>2. EngineTooSmall(q) <=> EngineTooSmall(p)
    BY <1>1 DEF EngineTooSmall
  <2> QED
    BY <1>1, <2>1, <2>2
<1> HIDE DEF age
<1>5. km.delta \in Int /\ km.score \in 0..One
  BY <1>1, <1>2, KmDeltaType
<1>6. hand.delta \in Int /\ hand.score \in 0..One
  BY <1>1, <1>2, HandDeltaType
<1> HIDE DEF km, hand
<1>7. c \in Nat
  <2>1. One \in Int
    BY DEF One
  <2>2. km.score \in Nat /\ hand.score \in Nat
    BY <1>5, <1>6, <2>1
  <2> QED
    BY <2>2
<1> HIDE DEF c
<1>8. e.delta \in Int
  <2> DEFINE bonus == Milli(p.engine - 2 * p.engineMinCC, p.engineMinCC)
  <2>1. e = CASE p.engineMinCC <= 0 -> Dim(0, 1000)
              [] p.engineMinCC > 0 /\ p.engine <= 0 -> Dim(0, 500)
              [] p.engineMinCC > 0 /\ p.engine > 0 /\ p.engine < 2 * p.engineMinCC -> Dim(0, 0)
              [] OTHER -> Dim(Clamp(bonus, 0, 1000) \div 10, 700 + (3 * bonus) \div 10)
    BY SMT DEF ComputeEngineDelta
  <2>2. p.engineMinCC > 0 => bonus \in Int
    <3>1. p.engine - 2 * p.engineMinCC \in Int
      BY <1>1
    <3> QED
      BY <1>1, <3>1, MilliKeepsOrder
  <2> HIDE DEF e, bonus
  <2>3. p.engineMinCC > 0 => Clamp(bonus, 0, 1000) \div 10 \in Int
    BY <2>2 DEF Clamp
  <2> QED
    BY <1>1, <2>1, <2>3 DEF Dim
<1> HIDE DEF e
<1>9. rest \in Int
  BY <1>5, <1>6 DEF Clamp
<1> HIDE DEF rest
<1>10. f \in Int /\ g \in Int /\ f <= g
  BY <1>1, <1>2, <1>7, ValueDeltaFalls
<1> HIDE DEF f, g
<1>11. Total(f) <= Total(g)
  BY <1>8, <1>9, <1>10 DEF Clamp
<1> QED
  BY <1>3, <1>4, <1>11


\* So is its deal.
LEMMA DealFalls ==
    ASSUME NEW p \in Int, NEW q \in Int, 0 < q, q <= p, NEW km \in Int,
           NEW median \in Int, NEW medianKm \in Int
    PROVE  ScoreWithKm(q, km, median, medianKm) >= ScoreWithKm(p, km, median, medianKm)
<1> DEFINE a == ScoreRaw(p, median)
<1> DEFINE b == ScoreRaw(q, median)
<1>1. a \in Int /\ b \in Int /\ a <= b
  <2>1. CASE median <= 0
    BY <2>1 DEF ScoreRaw
  <2>2. CASE median > 0
    <3> DEFINE x == Milli(p, median)
    <3> DEFINE y == Milli(q, median)
    <3>1. x \in Int /\ y \in Int /\ y <= x
      BY <2>2, MilliKeepsOrder
    <3> HIDE DEF x, y
    <3>2. /\ a = Clamp((1000 - x + 5) \div 10, 0, 100)
          /\ b = Clamp((1000 - y + 5) \div 10, 0, 100)
      BY <2>2 DEF ScoreRaw, x, y
    <3> HIDE DEF a, b
    <3> QED
      BY <3>1, <3>2 DEF Clamp
  <2> QED
    BY <2>1, <2>2
<1> HIDE DEF a, b
<1> DEFINE k == Milli(km, medianKm)
<1>2. medianKm > 0 => k \in Int
  BY MilliKeepsOrder
<1> HIDE DEF k
<1> DEFINE S(v) == CASE medianKm <= 0 -> v
                     [] medianKm > 0 /\ km <= 0 -> Clamp(v - 5, 0, 100)
                     [] OTHER -> Clamp((1000 * v + 20 * (1000 - k) + 500) \div 1000, 0, 100)
<1>3. ScoreWithKm(p, km, median, medianKm) = S(a)
  BY SMT DEF ScoreWithKm, a, k
<1>4. ScoreWithKm(q, km, median, medianKm) = S(b)
  BY SMT DEF ScoreWithKm, b, k
<1>5. S(a) <= S(b)
  <2>1. CASE medianKm <= 0
    BY <1>1, <2>1
  <2>2. CASE medianKm > 0 /\ km <= 0
    BY <1>1, <2>2 DEF Clamp
  <2>3. CASE medianKm > 0 /\ km > 0
    <3>1. (1000 * a + 20 * (1000 - k) + 500) \div 1000
             <= (1000 * b + 20 * (1000 - k) + 500) \div 1000
      BY <1>1, <1>2, <2>3
    <3> QED
      BY <1>1, <1>2, <2>3, <3>1 DEF Clamp
  <2> QED
    BY <2>1, <2>2, <2>3
<1> QED
  BY <1>3, <1>4, <1>5, <1>1, <1>2 DEF Clamp

\* A market looked up among the cohorts has medians that are numbers.
LEMMA MarketType ==
    ASSUME NEW medians, IsFiniteSet(DOMAIN medians), \A y \in DOMAIN medians : IsCohort(medians[y]),
           NEW year
    PROVE  LET m == LookupPrecomputed(NewMarketCacheFromMedians(medians), year)
           IN  m.median \in Int /\ m.medianKm \in Int
<1> DEFINE cache == NewMarketCacheFromMedians(medians)
<1> DEFINE band == {y \in DOMAIN cache : y \in (year - 1)..(year + 1) /\ cache[y].ok}
<1> DEFINE sizes == [y \in band |-> cache[y].size]
<1> DEFINE prices == [y \in band |-> cache[y].median]
<1> DEFINE kms == [y \in band |-> cache[y].medianKm]
<1> DEFINE Weigh(w) == [y \in band |-> w[y] * cache[y].size]
<1>1. DOMAIN cache = DOMAIN medians
  BY DEF NewMarketCacheFromMedians
<1>2. \A y \in DOMAIN cache : /\ cache[y].median \in Int /\ cache[y].medianKm \in Int
                              /\ cache[y].size \in Nat
  <2> TAKE y \in DOMAIN cache
  <2>1. cache[y] = [medians[y] EXCEPT !.ok = medians[y].size >= MinCohortSize]
    BY <1>1 DEF NewMarketCacheFromMedians
  <2>2. IsCohort(medians[y])
    BY <1>1
  <2> HIDE DEF cache
  <2> QED
    BY <2>1, <2>2 DEF IsCohort
<1> HIDE DEF cache
<1>3. IsFiniteSet(band) /\ \A y \in band : y \in DOMAIN cache
  <2>1. band \subseteq DOMAIN cache
    OBVIOUS
  <2> HIDE DEF band
  <2> QED
    BY <1>1, <2>1, FS_Subset
<1> DEFINE total == SumFunction(sizes)
<1> DEFINE a == SumFunction(Weigh(prices))
<1> DEFINE b == SumFunction(Weigh(kms))
<1>4. LookupPrecomputed(cache, year) =
         IF total < MinCohortSize THEN NoMarket
         ELSE [median |-> a \div total, medianKm |-> b \div total, size |-> total, ok |-> TRUE]
  BY SMT DEF LookupPrecomputed
<1> HIDE DEF band
<1>5. total \in Int
  <2>1. DOMAIN sizes = band /\ \A y \in band : sizes[y] \in Int
    BY <1>2, <1>3
  <2> HIDE DEF sizes
  <2> QED
    BY <1>3, <2>1, SumType
<1>6. a \in Int
  <2> DEFINE w == Weigh(prices)
  <2>1. DOMAIN w = band
    OBVIOUS
  <2>2. \A y \in band : w[y] = cache[y].median * cache[y].size
    OBVIOUS
  <2> HIDE DEF w
  <2>3. \A y \in band : w[y] \in Int
    BY <1>2, <1>3, <2>2
  <2>4. SumFunction(w) \in Int
    BY <1>3, <2>1, <2>3, SumType
  <2> QED
    BY <2>4 DEF w
<1>7. b \in Int
  <2> DEFINE w == Weigh(kms)
  <2>1. DOMAIN w = band
    OBVIOUS
  <2>2. \A y \in band : w[y] = cache[y].medianKm * cache[y].size
    OBVIOUS
  <2> HIDE DEF w
  <2>3. \A y \in band : w[y] \in Int
    BY <1>2, <1>3, <2>2
  <2>4. SumFunction(w) \in Int
    BY <1>3, <2>1, <2>3, SumType
  <2> QED
    BY <2>4 DEF w
<1> HIDE DEF total, a, b
<1>8. CASE total < MinCohortSize
  BY <1>4, <1>8 DEF NoMarket, cache
<1>9. CASE ~(total < MinCohortSize)
  <2>1. total > 0
    BY <1>5, <1>9, ScoreConstants
  <2>2. a \div total \in Int /\ b \div total \in Int
    BY <1>5, <1>6, <1>7, <2>1, DivKeepsOrder
  <2> QED
    BY <1>4, <1>9, <2>2 DEF cache
<1> QED
  BY <1>8, <1>9

\* In every state of the flow, a listing that is alerted would have been scored
\* no worse at a lower price.
LEMMA CheaperOnTypes ==
    FlowShape => CheaperNeverWorse
<1> SUFFICES ASSUME FlowShape, NEW a \in alerts, NEW listed \in {0, BasePrice[a.l.year]}
             PROVE  LET l == a.l
                        market == Market(NewMarketCacheFromMedians(cohorts), l)
                        Fitness(m, p) ==
                            FitnessScoreDetailed(
                                FitnessParams([l EXCEPT !.price = p], m, listed)).total
                        Deal(p) == ScoreWithKm(p, l.km, market.median, market.medianKm)
                    IN  \A p \in {q \in Prices : q < l.price} :
                            /\ \A m \in {market, NoMarket} : Fitness(m, p) >= Fitness(m, l.price)
                            /\ Deal(p) >= Deal(l.price)
  BY Zenon DEF CheaperNeverWorse
<1> DEFINE l == a.l
<1> DEFINE market == Market(NewMarketCacheFromMedians(cohorts), l)
<1>1. IsListing(l) /\ l.year \in DOMAIN BasePrice /\ IsSearch(search)
  BY FlowConstants DEF FlowShape, IsPriced
<1>2. listed \in Int
  BY <1>1, FlowConstants
<1> HIDE DEF l
<1>3. market.median \in Int /\ market.medianKm \in Int
  <2>1. IsFiniteSet(DOMAIN cohorts) /\ \A y \in DOMAIN cohorts : IsCohort(cohorts[y])
    BY FlowConstants DEF FlowShape
  <2> DEFINE found == LookupPrecomputed(NewMarketCacheFromMedians(cohorts), l.year)
  <2>2. found.median \in Int /\ found.medianKm \in Int
    BY <2>1, MarketType
  <2> HIDE DEF found
  <2>3. market = IF l.price > 0 THEN found ELSE NoMarket
    BY DEF Market, found
  <2> HIDE DEF market
  <2> QED
    BY <2>2, <2>3 DEF NoMarket
<1> HIDE DEF market
<1> SUFFICES ASSUME NEW p \in Prices, p < l.price
             PROVE  /\ \A m \in {market, NoMarket} :
                          FitnessScoreDetailed(FitnessParams([l EXCEPT !.price = p], m, listed)).total
                            >= FitnessScoreDetailed(
                                  FitnessParams([l EXCEPT !.price = l.price], m, listed)).total
                    /\ ScoreWithKm(p, l.km, market.median, market.medianKm)
                         >= ScoreWithKm(l.price, l.km, market.median, market.medianKm)
  BY Zenon DEF l, market
<1>4. p \in Int /\ 0 < p /\ l.price \in Int /\ p <= l.price /\ l.km \in Int
  BY <1>1, FlowConstants DEF IsListing
<1>5. ScoreWithKm(p, l.km, market.median, market.medianKm)
        >= ScoreWithKm(l.price, l.km, market.median, market.medianKm)
  BY <1>3, <1>4, DealFalls
<1>6. ASSUME NEW m \in {market, NoMarket}
      PROVE  FitnessScoreDetailed(FitnessParams([l EXCEPT !.price = p], m, listed)).total
               >= FitnessScoreDetailed(
                     FitnessParams([l EXCEPT !.price = l.price], m, listed)).total
  <2> DEFINE dear == FitnessParams([l EXCEPT !.price = l.price], m, listed)
  <2> DEFINE cheap == FitnessParams([l EXCEPT !.price = p], m, listed)
  <2>1. m.median \in Int /\ m.medianKm \in Int
    BY <1>3 DEF NoMarket
  <2>2. IsParams(dear) /\ dear.price = l.price
    BY <1>1, <1>2, <2>1 DEF FitnessParams, IsParams, IsListing, IsSearch
  <2>3. cheap = [dear EXCEPT !.price = p] /\ cheap.price = p
    BY <1>1 DEF FitnessParams, IsListing
  <2> HIDE DEF dear, cheap
  <2>4. FitnessScoreDetailed(cheap).total >= FitnessScoreDetailed(dear).total
    BY <1>4, <2>2, <2>3, FitnessFalls
  <2> QED
    BY <2>4 DEF dear, cheap
<1> QED
  BY <1>5, <1>6


-----------------------------------------------------------------------------
(* The theorems about the flow *)

\* What is known of a state of the flow: its types, that the last cycle's
\* statistics add up, and what is true of the last step's alerts.
FlowInv ==
    /\ FlowShape
    /\ stats.fetched = stats.matched + SumFunction(stats.rejections)
    /\ AlertHonoursSearch
    /\ AlertsListed

\* It holds throughout.
THEOREM FlowHeld == FlowSpec => []FlowInv
<1>1. FlowInit => FlowInv
  <2>1. FlowInit => AlertHonoursSearch /\ AlertsListed
    BY DEF FlowInit, AlertHonoursSearch, AlertsListed
  <2> QED
    BY <2>1, FlowStarts, StatsAddUp DEF FlowInv
<1>2. FlowInv /\ [FlowNext]_flowVars => FlowInv'
  <2> SUFFICES ASSUME FlowInv, [FlowNext]_flowVars PROVE FlowInv'
    OBVIOUS
  <2>1. FlowShape'
    BY FlowKeepsShape DEF FlowInv
  <2>2. (stats.fetched = stats.matched + SumFunction(stats.rejections))'
    BY StatsAddUp DEF FlowInv
  <2>3. AlertHonoursSearch'
    BY AlertsHonourSearch DEF FlowInv
  <2>4. AlertsListed'
    BY AlertsStayListed DEF FlowInv
  <2> QED
    BY <2>1, <2>2, <2>3, <2>4 DEF FlowInv
<1> QED
  BY <1>1, <1>2, PTL DEF FlowSpec

\* The percolator, its account of rejections, the filter of pushes, the list of
\* a search and the counter shown on it agree, for every search and listing, and
\* a cycle's statistics account for every listing once.
THEOREM OneMatchFiveTexts == FlowSpec => []MatchersAgree
<1>1. FlowInv => MatchersAgree
  <2> SUFFICES ASSUME FlowInv PROVE MatchersAgree
    OBVIOUS
  <2>1. OneVerdict
    BY OneVerdictOnTypes DEF FlowInv
  <2>2. Dashboard.listingsCount = Dashboard.stats.total
    BY CounterIsTotal DEF FlowInv
  <2>3. AlertIsListed
    BY <2>2 DEF FlowInv, AlertsListed, AlertIsListed
  <2> QED
    BY <2>1, <2>3 DEF MatchersAgree
<1> QED
  BY <1>1, FlowHeld, PTL

\* Whatever the source leaves out and the server fills in, what a user is
\* alerted to satisfies the search, and the cycle never alerts a mileage it does
\* not know to be within the cap.
THEOREM AlertsAreWhatWasAskedFor == FlowSpec => []AlertHonoursSearch
<1>1. FlowInv => AlertHonoursSearch
  BY DEF FlowInv
<1> QED
  BY <1>1, FlowHeld, PTL

\* Whatever the market, the price list, the budget, the mileage, the owners and
\* the age are, a car is scored no worse at a lower price.
THEOREM CheaperIsNotWorse == FlowSpec => []CheaperNeverWorse
<1>1. FlowInv => CheaperNeverWorse
  BY CheaperOnTypes DEF FlowInv
<1> QED
  BY <1>1, FlowHeld, PTL
=============================================================================
