-------------------------- MODULE MessageDelivery --------------------------
(***************************************************************************)
(* What is sent to one user through the channels: the interval digest of   *)
(* DigestQueue, the daily digest, and alerts.  A behaviour is about one of *)
(* them (job): a cycle sends digests one after the other, and the alerts   *)
(* of a worker share nothing with them but the user's channel.             *)
(*                                                                         *)
(* Time, for the daily digest, is in steps of 15 minutes from day 1 on;    *)
(* day 0 is the zero time of a user who never had one.                     *)
(***************************************************************************)
EXTENDS DigestQueue, Channels

CONSTANTS HeaderLen,        \* length of a digest's header
          ItemLen,          \* length of a listing in a digest
          BatchItems,       \* digest items of two listings, not one
          AlertLens,        \* lengths of a listing in an alert
          DailyLen,         \* length of a daily digest
          Jobs,             \* "digest", "daily", "alert"
          DayLen,           \* steps in a day
          Days,             \* bound: last day
          MaxMishaps        \* bound: faults and troubles in a digest's life

ASSUME DeliveryConstants ==
    /\ HeaderLen \in Nat \ {0} /\ ItemLen \in Nat \ {0} /\ DailyLen \in Nat \ {0}
    /\ BatchItems \subseteq Items
    /\ AlertLens \subseteq Nat \ {0}
    /\ Jobs \subseteq {"digest", "daily", "alert"}
    /\ DayLen \in Nat \ {0} /\ Days \in Nat \ {0} /\ MaxMishaps \in Nat

VARIABLES job,
          message,          \* parts of the message of the call under way
          clock,
          target,           \* daily_digest_time
          lastSent,         \* daily_digest_last_sent
          daily,            \* the daily digest: "idle", "due", "send", "update"
          shownOn,          \* history: day the digest under way was shown, or 0
          shownDays,        \* history: day -> daily digests shown, up to 2
          unwritten         \* history: days with one that was not written down

dailyVars == <<clock, target, lastSent, daily, shownOn, shownDays, unwritten>>
allVars == <<vars, channelVars, job, message, dailyVars>>

Bounded == job = "digest" => faults' + troubles' <= MaxMishaps

Day(t) == t \div DayLen

DeliveryTypeOK ==
    /\ TypeOK
    /\ ChannelsTypeOK
    /\ job \in Jobs
    /\ message \in Seq(Nat)
    /\ clock \in DayLen..DayLen * (Days + 1) - 1
    /\ target \in 0..DayLen - 1
    /\ lastSent \in {0} \cup DayLen..clock
    /\ daily \in {"idle", "due", "send", "update"}
    /\ shownOn \in 0..Days
    /\ shownDays \in [1..Days -> 0..2]
    /\ unwritten \subseteq 1..Days

DeliveryInit ==
    /\ Init
    /\ ChannelsInit
    /\ job \in Jobs
    /\ job = "alert" \/ vapid      \* without keys a web user's digests fail
    /\ message = <<>>
    /\ clock = DayLen
    /\ target \in IF job = "daily" THEN 0..DayLen - 1 ELSE {0}
    /\ lastSent = 0
    /\ daily = "idle"
    /\ shownOn = 0
    /\ shownDays = [d \in 1..Days |-> 0]
    /\ unwritten = {}

\* What the jobs send, as parts: a digest is the listings of its items in
\* order, the first one after the header.
FirstPart(S, i) == 1 + Cardinality({j \in S : j < i})
                     + Cardinality({j \in S \cap BatchItems : j < i})
PartsOf(S, i) == {FirstPart(S, i)} \cup (IF i \in BatchItems THEN {FirstPart(S, i) + 1} ELSE {})
DigestParts(S) == [k \in 1..Cardinality(S) + Cardinality(S \cap BatchItems) |->
                      IF k = 1 THEN HeaderLen + ItemLen ELSE ItemLen]
Alerts == UNION {[1..n -> AlertLens] : n \in 1..3}
Messages == {DigestParts(S) : S \in SUBSET Items} \cup {<<DailyLen>>} \cup Alerts
Chunked == [parts \in Messages |-> SplitMessage(parts)]

\* A pushed message is the whole text.
NotifyRaw(parts) ==
    /\ message' = parts
    /\ StartCall(FALSE, Chunked[parts], TotalLen(parts))

EndCall ==
    /\ call' = NoCall
    /\ message' = <<>>
    /\ UNCHANGED <<channel, vapid, blocked, subs, gone, troubles>>

\* The user has all of part k in front of him.
Seen(c, k) ==
    \/ c.photoShown \/ c.reached # {}
    \/ /\ c.shown # {}
       /\ \A j \in DOMAIN c.chunks : k \in c.chunks[j].parts => j \in c.shown

\* A call cut off: what was on its way may still arrive.
CutOff == {call, [call EXCEPT !.shown = IF call.pc = "text" THEN @ \cup {call.next} ELSE @,
                              !.photoShown = @ \/ call.pc = "photo",
                              !.reached = @ \cup call.left]}

-----------------------------------------------------------------------------
(* The interval digest *)

\* The items the user has whole.
SeenItems(c) ==
    LET S == Newest(payloads)
    IN  {i \in S : \A k \in PartsOf(S, i) : Seen(c, k)}

QueueAlone ==
    /\ job = "digest"
    /\ UNCHANGED <<channelVars, job, message, dailyVars>>
    /\ Bounded
QueueStep ==
    /\ \/ AddItem
       \/ \E i \in Items : Commit(i) \/ Abort(i)
       \/ StartFlush \/ FlushStep
       \/ PeekFails \/ AckFails
       \/ SetDigestMode \/ PauseOrResume \/ Age
    /\ QueueAlone

SendDigest ==
    /\ pc = "send"
    /\ NotifyRaw(DigestParts(Newest(payloads)))
    /\ UNCHANGED <<vars, job, dailyVars>>

DigestSent ==
    /\ pc = "send"
    /\ call.pc = "done"
    /\ IF call.result = "ok" THEN SendOk(SeenItems(call))
       ELSE SendFails(SeenItems(call))
    /\ EndCall
    /\ UNCHANGED <<job, dailyVars>>

DigestCrash ==
    /\ job = "digest"
    /\ \E c \in CutOff : Crash(IF pc = "send" THEN SeenItems(c) ELSE {})
    /\ EndCall
    /\ UNCHANGED <<job, dailyVars>>
    /\ Bounded

-----------------------------------------------------------------------------
(* The daily digest *)

\* Within 15 minutes of the target, also across midnight.
InWindow ==
    LET now  == clock % DayLen
        diff == IF now > target THEN now - target ELSE target - now
    IN  (IF 2 * diff > DayLen THEN DayLen - diff ELSE diff) <= 1

\* processDailyDigests finds the user due ...
DailyDueByClock == InWindow /\ lastSent # clock
DailyDue == InWindow /\ Day(lastSent) # Day(clock)
CheckDaily ==
    /\ job = "daily"
    /\ daily = "idle"
    /\ DailyDue
    /\ daily' = "due"
    /\ UNCHANGED <<vars, channelVars, job, message, clock, target, lastSent,
                   shownOn, shownDays, unwritten>>

Shown == shownDays' = [shownDays EXCEPT ![Day(clock)] = IF @ < 2 THEN @ + 1 ELSE @]

\* ... and sends, or returns: no statistics, or they cannot be read.
SendDaily ==
    /\ daily = "due"
    /\ \/ NotifyRaw(<<DailyLen>>) /\ daily' = "send"
       \/ UNCHANGED <<channelVars, message>> /\ daily' = "idle"
    /\ UNCHANGED <<vars, job, clock, target, lastSent, shownOn, shownDays,
                   unwritten>>

Unwritten == unwritten' = unwritten \cup ({shownOn} \ {0})
DailyEnded ==
    /\ daily = "send"
    /\ call.pc = "done"
    /\ IF call.result = "ok" THEN daily' = "update" /\ UNCHANGED <<shownOn, unwritten>>
       ELSE daily' = "idle" /\ Unwritten /\ shownOn' = 0
    /\ EndCall
    /\ UNCHANGED <<vars, job, clock, target, lastSent, shownDays>>

UpdateDailyDigestLastSent ==
    /\ daily = "update"
    /\ \/ lastSent' = clock /\ UNCHANGED <<troubles, unwritten>>
       \/ UNCHANGED lastSent /\ Trouble /\ Unwritten
    /\ daily' = "idle"
    /\ shownOn' = 0
    /\ UNCHANGED <<vars, channel, vapid, blocked, subs, gone, call, job, message,
                   clock, target, shownDays>>

\* The process is killed between any two of these steps.
DailyCrash ==
    /\ daily # "idle"
    /\ Trouble
    /\ \E c \in CutOff :
        IF shownOn = 0 /\ (c.shown # {} \/ c.reached # {})
        THEN /\ Shown
             /\ unwritten' = unwritten \cup {Day(clock)}
        ELSE Unwritten /\ UNCHANGED shownDays
    /\ daily' = "idle"
    /\ shownOn' = 0
    /\ call' = NoCall
    /\ message' = <<>>
    /\ UNCHANGED <<vars, channel, vapid, blocked, subs, gone, job, clock, target,
                   lastSent>>

Tick ==
    /\ job = "daily"
    /\ clock < DayLen * (Days + 1) - 1
    /\ clock' = clock + 1
    /\ UNCHANGED <<vars, channelVars, job, message, target, lastSent, daily,
                   shownOn, shownDays, unwritten>>

-----------------------------------------------------------------------------
(* Alerts *)

\* A listing with its photo (direct delivery), or a text.
SendAlert ==
    /\ job = "alert"
    /\ call.pc = "none"
    /\ \E parts \in Alerts, photo \in BOOLEAN :
        /\ photo => Len(parts) = 1
        /\ message' = parts
        /\ StartCall(photo, Chunked[parts], IF photo THEN 0 ELSE TotalLen(parts))
    /\ UNCHANGED <<vars, job, dailyVars>>

AlertSent ==
    /\ job = "alert"
    /\ call.pc = "done"
    /\ EndCall
    /\ UNCHANGED <<vars, job, dailyVars>>

-----------------------------------------------------------------------------

\* A step of the call; the first thing shown of a daily digest is noted.
SendStep ==
    /\ CallStep
    /\ IF /\ daily = "send" /\ shownOn = 0
          /\ call'.shown # {} \/ call'.reached # {}
       THEN /\ shownOn' = Day(clock)
            /\ Shown
       ELSE UNCHANGED <<shownOn, shownDays>>
    /\ UNCHANGED <<vars, job, message, clock, target, lastSent, daily, unwritten>>
    /\ Bounded

EndOfCall == DigestSent \/ DailyEnded \/ AlertSent

DeliveryNext ==
    \/ QueueStep \/ DigestCrash
    \/ CheckDaily \/ UpdateDailyDigestLastSent \/ DailyCrash \/ Tick
    \/ SendDigest \/ SendDaily \/ SendAlert
    \/ SendStep \/ EndOfCall
    \/ UserStep /\ UNCHANGED <<vars, job, message, dailyVars>> /\ Bounded

DeliverySpec == DeliveryInit /\ [][DeliveryNext]_allVars

\* Statements and calls return, time passes, and the scheduler cycles again
\* and again; StartFlush needs strong fairness because the user may switch
\* and pause.
FairDelivery ==
    /\ DeliverySpec
    /\ WF_allVars((\E i \in Items : Commit(i) \/ Abort(i)) /\ QueueAlone)
    /\ WF_allVars(Age /\ QueueAlone)
    /\ SF_allVars(StartFlush /\ QueueAlone)
    /\ WF_allVars(FlushStep /\ QueueAlone)
    /\ WF_allVars(SendDigest \/ SendStep \/ EndOfCall)

-----------------------------------------------------------------------------
(* Properties *)

\* A committed digest item is eventually shown, or lost in one of the ways of
\* NothingLost, provided that there is an active search again and again and
\* the user stays reachable in the end -- or the digest has outgrown what a
\* web push may carry, which no retry changes.
TooLongToPush ==
    channel = "web" /\ TotalLen(DigestParts(Newest(pending))) > MaxPushLen
EveryItemLeaves ==
    ([]<>active /\ <>[]Reachable) =>
        \A i \in Items :
            i \in pending ~> \/ told[i] > 0
                             \/ i \in late \cup dropped \cup skipped
                             \/ TooLongToPush

\* The user sees something twice only for a cause the code accepts: an item
\* after a flush not seen to end, a photo after its answer was lost (the text
\* follows), a daily digest after one of the same day that was not written
\* down.
RepeatsExplained ==
    /\ ResendHasCause
    /\ call.photoShown /\ call.shown # {} => call.photo /\ troubles > 0
    /\ \A d \in 1..Days : shownDays[d] > 1 => d \in unwritten

\* Telegram's limit.  Only a part after the first that leaves no room for the
\* separator in front of it exceeds the limit, by the separator at most.
Fits(chunk, parts) ==
    chunk.len <= MaxMessageLen
                 + (IF \E k \in chunk.parts : k > 1 /\ parts[k] + SepLen > MaxMessageLen
                    THEN SepLen ELSE 0)

\* A message that was reported as sent is with the user, whole: its chunks fit
\* and leave nothing out, and their parts keep their order (a photo's caption
\* is cut to size).  The exception is a web user none of whose browsers was
\* reached, which a digest then counts as sent.
SentWhole ==
    /\ call.pc = "text" =>
          /\ \A j \in DOMAIN call.chunks : Fits(call.chunks[j], message)
          /\ Sum([j \in DOMAIN call.chunks |-> call.chunks[j].len]) = TotalLen(message)
          /\ \A j, k \in DOMAIN call.chunks :
                j < k => \A a \in call.chunks[j].parts, b \in call.chunks[k].parts : a <= b
    /\ call.result = "ok" =>
          \/ \A k \in DOMAIN message : Seen(call, k)
          \/ channel = "web" /\ vapid /\ call.reached = {}
    /\ skipped # {} => channel = "web" /\ vapid

=============================================================================
