------------------------------ MODULE Channels ------------------------------
(***************************************************************************)
(* The notification channels of one user: MultiNotifier picks Telegram or  *)
(* web push, Telegram sends a message in chunks, web push sends it to each *)
(* subscription.  One call of Notify or NotifyRaw is under way at a time.  *)
(*                                                                         *)
(* A message is the lengths of its parts (the texts between two separator  *)
(* lines); lengths are in the unit of the limits.  The services outside    *)
(* answer as they like, within MaxTroubles mishaps.                        *)
(***************************************************************************)
EXTENDS Naturals, Sequences, FiniteSets, SequencesExt

CONSTANTS Endpoints,        \* push endpoints of the user's browsers
          MaxMessageLen,    \* maxMessageLen (4096)
          MaxPushLen,       \* record size of a web push message
          SepLen,           \* length of the separator between two parts
          LineLen,          \* a text has a newline every LineLen
          TelegramMaxRetries,
          MaxTroubles       \* bound: mishaps of services, database and browsers

ASSUME ChannelConstants ==
    /\ MaxMessageLen \in Nat /\ MaxMessageLen > 1
    /\ MaxPushLen \in Nat
    /\ SepLen \in Nat \ {0}
    /\ LineLen \in Nat \ {0}
    /\ TelegramMaxRetries \in Nat
    /\ MaxTroubles \in Nat

VARIABLES channel,          \* users.channel: "telegram" or "web"
          vapid,            \* push keys are configured: web push is registered
          blocked,          \* the user blocked the bot
          subs,             \* rows of push_subscriptions
          gone,             \* those of them the push service has dropped
          call,             \* the call under way
          troubles

channelVars == <<channel, vapid, blocked, subs, gone, call, troubles>>

NoCall == [pc |-> "none", photo |-> FALSE, fits |-> TRUE, chunks |-> <<>>,
           next |-> 1, attempt |-> 0, plain |-> FALSE, left |-> {},
           err |-> FALSE, result |-> "none",
           \* what the user has seen of the message so far
           photoShown |-> FALSE, shown |-> {}, reached |-> {}]

ChannelsTypeOK ==
    /\ channel \in {"telegram", "web"}
    /\ vapid \in BOOLEAN
    /\ blocked \in BOOLEAN
    /\ gone \subseteq subs /\ subs \subseteq Endpoints
    /\ troubles \in 0..MaxTroubles
    /\ DOMAIN call = DOMAIN NoCall
    /\ call.pc \in {"none", "resolve", "photo", "text", "list", "push", "done"}
    /\ call.attempt \in 0..TelegramMaxRetries + 1
    /\ call.shown \subseteq DOMAIN call.chunks
    /\ call.left \subseteq Endpoints /\ call.reached \subseteq Endpoints
    /\ call.result \in {"none", "ok", "error", "blocked", "noDelivery"}

ChannelsInit ==
    /\ channel \in {"telegram", "web"}
    /\ vapid \in {TRUE, channel = "telegram"}     \* only web users need it
    /\ blocked = FALSE
    /\ subs = {}
    /\ gone = {}
    /\ call = NoCall
    /\ troubles = 0

Trouble == troubles < MaxTroubles /\ troubles' = troubles + 1

-----------------------------------------------------------------------------
(* The texts of a Telegram message *)

\* A chunk: its length, and the parts it has text of.
Chunk(len, parts) == [len |-> len, parts |-> parts]

Sum(lens) ==
    LET upTo[k \in 0..Len(lens)] == IF k = 0 THEN 0 ELSE upTo[k - 1] + lens[k]
    IN  upTo[Len(lens)]
TotalLen(parts) == Sum(parts) + SepLen * (Len(parts) - 1)

\* splitMessageByNewlines, as lengths: cut after the last newline that fits.
\* A newline that comes first in what is left does not count.
CutAfterLate(from) ==
    LET ends == {b \in from + 2 .. from + MaxMessageLen + 1 : b % LineLen = 0}
    IN  IF ends = {} THEN from + MaxMessageLen ELSE Max(ends)
CutAfter(from) ==
    LET ends == {b \in from + 2 .. from + MaxMessageLen : b % LineLen = 0}
    IN  IF ends = {} THEN from + MaxMessageLen ELSE Max(ends)
SplitByNewlines(len) ==
    LET rest[from \in 0..len] ==
            IF len - from <= MaxMessageLen THEN <<len - from>>
            ELSE <<CutAfter(from) - from>> \o rest[CutAfter(from)]
    IN  rest[0]

\* packListingChunks: parts are split, and the pieces packed again in order.
Atoms(parts) ==
    LET OfPart(k) ==
            LET pieces == SplitByNewlines(parts[k])
            IN  [j \in DOMAIN pieces |->
                    [part |-> k,
                     len  |-> pieces[j] + (IF k > 1 /\ j = 1 THEN SepLen ELSE 0)]]
    IN  FlattenSeq([k \in DOMAIN parts |-> OfPart(k)])
PackAtom(acc, atom) ==
    CASE acc.cur.len = 0 /\ atom.len > MaxMessageLen ->
            [acc EXCEPT !.done = @ \o [j \in DOMAIN SplitByNewlines(atom.len) |->
                            Chunk(SplitByNewlines(atom.len)[j], {atom.part})]]
      [] acc.cur.len = 0 /\ atom.len <= MaxMessageLen ->
            [acc EXCEPT !.cur = Chunk(atom.len, {atom.part})]
      [] acc.cur.len > 0 /\ acc.cur.len + atom.len <= MaxMessageLen ->
            [acc EXCEPT !.cur = Chunk(@.len + atom.len, @.parts \cup {atom.part})]
      [] OTHER -> [done |-> Append(acc.done, acc.cur),
                   cur  |-> Chunk(atom.len, {atom.part})]
PackListingChunks(parts) ==
    LET atoms == Atoms(parts)
        packed[n \in 0..Len(atoms)] ==
            IF n = 0 THEN [done |-> <<>>, cur |-> Chunk(0, {})]
            ELSE PackAtom(packed[n - 1], atoms[n])
        all == packed[Len(atoms)]
    IN  IF all.cur.len > 0 THEN Append(all.done, all.cur) ELSE all.done

SplitMessage(parts) ==
    CASE TotalLen(parts) <= MaxMessageLen -> <<Chunk(TotalLen(parts), DOMAIN parts)>>
      [] TotalLen(parts) > MaxMessageLen /\ Len(parts) > 1 -> PackListingChunks(parts)
      [] OTHER -> [j \in DOMAIN SplitByNewlines(parts[1]) |->
                      Chunk(SplitByNewlines(parts[1])[j], {1})]

-----------------------------------------------------------------------------
(* MultiNotifier *)

\* Notify (with a photo) or NotifyRaw, of a text in these chunks.
StartCall(photo, chunks, pushLen) ==
    /\ call.pc = "none"
    /\ call' = [NoCall EXCEPT !.pc = "resolve", !.photo = photo,
                              !.chunks = chunks,
                              !.fits = pushLen <= MaxPushLen]
    /\ UNCHANGED <<channel, vapid, blocked, subs, gone, troubles>>

Return(result) == [call EXCEPT !.pc = "done", !.result = result]

\* resolveAll: the user's channel; Telegram, registered first, if the user
\* cannot be read or web push is not registered.
Via(web) == [call EXCEPT !.pc = IF web THEN "list"
                                ELSE IF call.photo THEN "photo" ELSE "text"]
Resolve ==
    /\ call.pc = "resolve"
    /\ \/ call' = Via(channel = "web" /\ vapid) /\ UNCHANGED troubles
       \/ call' = Via(FALSE) /\ Trouble
    /\ UNCHANGED <<channel, vapid, blocked, subs, gone>>

-----------------------------------------------------------------------------
(* Telegram *)

\* What the Bot API answers.  It knows no chat with a web user's number.
\* After "lost" the message is shown and the caller has an error.
Known == channel = "telegram" /\ ~blocked
Answers(answer, mishaps) ==
    \/ answer = (IF Known THEN "ok" ELSE "blocked") /\ UNCHANGED troubles
    \/ answer \in mishaps /\ (answer \in {"lost", "markdown"} => Known) /\ Trouble

Retriable(answer) == answer = "limited" /\ call.attempt < TelegramMaxRetries

\* sendListingWithPhotoAndKeyboard: anything but a block falls back to text.
SendPhoto(answer) ==
    /\ call.pc = "photo"
    /\ Answers(answer, {"refused", "lost", "limited"})
    /\ \/ /\ answer = "ok"
          /\ call' = [Return("ok") EXCEPT !.photoShown = TRUE]
       \/ /\ answer = "blocked"
          /\ call' = Return("blocked")
       \/ /\ Retriable(answer)
          /\ call' = [call EXCEPT !.attempt = @ + 1]
       \/ /\ answer \notin {"ok", "blocked"} /\ ~Retriable(answer)
          /\ call' = [call EXCEPT !.pc = "text", !.attempt = 0,
                                  !.photoShown = answer = "lost"]
    /\ UNCHANGED <<channel, vapid, blocked, subs, gone>>

\* A chunk is delivered: the next one, or the end of the message.
Delivered ==
    LET c == [call EXCEPT !.shown = @ \cup {call.next}]
    IN  IF call.next = Len(call.chunks)
        THEN [c EXCEPT !.pc = "done", !.result = "ok"]
        ELSE [c EXCEPT !.next = @ + 1, !.attempt = 0, !.plain = FALSE]

\* sendMessageWithRetry on the next chunk.  Markdown that does not parse is
\* sent as plain text; only a rate limit is tried again.
SendChunk(answer) ==
    /\ call.pc = "text"
    /\ Answers(answer, {"refused", "lost", "limited"}
                       \cup (IF call.plain THEN {} ELSE {"markdown"}))
    /\ \/ /\ answer = "ok"
          /\ call' = Delivered
       \/ /\ answer = "blocked"
          /\ call' = Return("blocked")
       \/ /\ answer = "markdown"
          /\ call' = [call EXCEPT !.plain = TRUE, !.attempt = @ + 1]
       \/ /\ Retriable(answer)
          /\ call' = [call EXCEPT !.attempt = @ + 1]
       \/ /\ answer \in {"refused", "lost", "limited"} /\ ~Retriable(answer)
          /\ call' = [Return("error") EXCEPT
                        !.shown = IF answer = "lost" THEN @ \cup {call.next} ELSE @]
    /\ UNCHANGED <<channel, vapid, blocked, subs, gone>>

-----------------------------------------------------------------------------
(* Web push *)

ListPushSubscriptions ==
    /\ call.pc = "list"
    /\ \/ /\ call' = IF subs = {} THEN Return("noDelivery")
                     ELSE [call EXCEPT !.pc = "push", !.left = subs]
          /\ UNCHANGED troubles
       \/ call' = Return("error") /\ Trouble
    /\ UNCHANGED <<channel, vapid, blocked, subs, gone>>

\* deliver: one subscription, and after the last one the first error if any.
Pushed(e, err, reached) ==
    LET c == [call EXCEPT !.left = @ \ {e}, !.err = @ \/ err,
                          !.reached = @ \cup (IF reached THEN {e} ELSE {})]
    IN  IF c.left # {} THEN c
        ELSE [c EXCEPT !.pc = "done", !.result = IF c.err THEN "error" ELSE "ok"]
PushSucceeds(e) ==
    /\ e \in call.left \ gone /\ call.fits
    /\ call' = Pushed(e, FALSE, TRUE)
    /\ UNCHANGED <<subs, gone, troubles>>
PushTooLong(e) ==
    /\ e \in call.left /\ ~call.fits
    /\ call' = Pushed(e, TRUE, FALSE)
    /\ UNCHANGED <<subs, gone, troubles>>
\* 410: the row is deleted, unless that fails.
PushGone(e) ==
    /\ e \in call.left /\ (e \in gone \/ e \notin subs) /\ call.fits
    /\ call' = Pushed(e, FALSE, FALSE)
    /\ \/ subs' = subs \ {e} /\ gone' = gone \ {e} /\ UNCHANGED troubles
       \/ UNCHANGED <<subs, gone>> /\ Trouble
\* 429 is skipped; any other answer and a failed request are errors.
PushTroubled(e) ==
    /\ e \in call.left /\ call.fits
    /\ Trouble
    /\ \/ call' = Pushed(e, FALSE, FALSE)
       \/ call' = Pushed(e, TRUE, FALSE)
       \/ e \notin gone /\ call' = Pushed(e, TRUE, TRUE)
    /\ UNCHANGED <<subs, gone>>
Push(e) ==
    /\ call.pc = "push"
    /\ PushSucceeds(e) \/ PushTooLong(e) \/ PushGone(e) \/ PushTroubled(e)
    /\ UNCHANGED <<channel, vapid, blocked>>

CallStep ==
    \/ Resolve
    \/ \E answer \in {"ok", "blocked", "refused", "lost", "limited", "markdown"} :
            SendPhoto(answer) \/ SendChunk(answer)
    \/ ListPushSubscriptions
    \/ \E e \in Endpoints : Push(e)

-----------------------------------------------------------------------------
(* The user and his browsers *)

PushSubscribe(e) ==
    /\ channel = "web" /\ vapid
    /\ e \in Endpoints \ subs
    /\ subs' = subs \cup {e}
    /\ UNCHANGED <<channel, vapid, blocked, gone, call, troubles>>

PushUnsubscribe(e) ==
    /\ e \in subs
    /\ Trouble
    /\ subs' = subs \ {e}
    /\ gone' = gone \ {e}
    /\ UNCHANGED <<channel, vapid, blocked, call>>

\* A browser drops its subscription without telling.
Expire(e) ==
    /\ e \in subs \ gone
    /\ Trouble
    /\ gone' = gone \cup {e}
    /\ UNCHANGED <<channel, vapid, blocked, subs, call>>

BlockOrUnblock ==
    /\ channel = "telegram"
    /\ blocked' = ~blocked
    /\ IF blocked THEN UNCHANGED troubles ELSE Trouble
    /\ UNCHANGED <<channel, vapid, subs, gone, call>>

UserStep ==
    \/ \E e \in Endpoints : PushSubscribe(e) \/ PushUnsubscribe(e) \/ Expire(e)
    \/ BlockOrUnblock

\* A message sent now has somewhere to go.
Reachable == IF channel = "web" THEN vapid /\ subs # gone ELSE ~blocked

=============================================================================
