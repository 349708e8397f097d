------------------------------ MODULE Accounts ------------------------------
(***************************************************************************)
(* Web accounts and the Telegram chats linked to them.  A linked user's    *)
(* rows belong to the chat: linking moves them, and every request of a web *)
(* session or a browser is redirected to the chat once, when it arrives    *)
(* (resolveCanonicalChatID); what it writes comes later.  The bot and the  *)
(* API server are processes of their own, and the statements of a move     *)
(* run one after the other (READ COMMITTED), seen by nobody until the      *)
(* commit.                                                                 *)
(***************************************************************************)
EXTENDS WebIdentity, Sequences

CONSTANTS Chats,        \* Telegram chat ids, naturals apart from WebIds
          SearchIds, Filters, NoFilter,
          LinkKey(_),   \* the fields LinkTelegramToWeb compares
          Model(_),     \* the fields migrateUserData compares
          Items,        \* listings
          Stored,       \* accounts found when the processes start
          ExtCap,       \* maxExtTokensPerUser
          MaxExt,       \* extension tokens in a behaviour
          MaxFaults     \* failed calls in a behaviour

ASSUME AccountConstants ==
    /\ Chats \subseteq Nat \ (WebIds \cup {0})
    /\ "push" \notin Ops
    /\ SearchIds \subseteq Nat /\ NoFilter \notin Filters
    /\ ExtCap \in Nat \ {0} /\ {MaxExt, MaxFaults} \subseteq Nat

\* Rows found are of their tables; link tokens have the account they are of, and
\* nobody has more browsers than allowed.
ASSUME StoredConstants ==
    \A s \in Stored :
        /\ s.owner \in [WebIds -> Uids \cup {NoOne}]
        /\ s.link \in [Chats -> WebIds \cup {0}]
        /\ s.rows \in [SearchIds -> [own : WebIds \cup Chats, seq : Nat, f : Filters]
                                       \cup {[own |-> 0, seq |-> 0, f |-> NoFilter]}]
        /\ s.ext \in Seq([own : WebIds \cup Chats, live : BOOLEAN])
        /\ \A a \in WebIds \cup Chats :
              Cardinality({n \in DOMAIN s.ext : s.ext[n].live /\ s.ext[n].own = a}) <= ExtCap
        /\ s.token \subseteq {w \in WebIds : s.owner[w] # NoOne}

VARIABLES link,     \* linked_web_id of each chat, 0 for none
          active,   \* users.active of each chat
          rows,     \* searches
          kept,     \* saved, hidden, seen and history rows: <<chat id, listing>>
          ext,      \* ext_tokens in the order of created_at
          token,    \* link_tokens: the web ids with a live one
          bot,      \* handleLinkStart of each chat: the web id of the token consumed
          move,     \* transactions under way, by the chat the rows move to
          boot,     \* chats BackfillLinkedData has yet to do; the bot serves nobody before
          late,     \* history: searches (as <<0, id>>) and rows at a web id, written since its link began
          by,       \* history: the uids that linked each chat, with the web id
          asked, merged, faults

vars == <<identity, link, active, rows, kept, ext, token, bot, move, boot, late, by, asked, merged, faults>>
moves == <<link, token, bot, move, boot, by, merged>>
telegram == <<moves, active>>

All == WebIds \cup Chats
NoRow == [own |-> 0, seq |-> 0, f |-> NoFilter]

Of(a) == {i \in SearchIds : rows[i].own = a}
Linked(w) == {c \in Chats : link[c] = w}
NoMoves == [c \in {} |-> NoRow]
\* Searches whose rows a transaction has changed: others wait for it.
Held == UNION {move[c].moved \cup move[c].dropped : c \in DOMAIN move}
\* GetLinkedTelegramUser
GetLinkedTelegramUser(w) == {c \in Linked(w) : active[c]}

Init ==
    /\ \E s \in Stored :
         /\ link = s.link /\ rows = s.rows /\ ext = s.ext /\ token = s.token
         /\ IdentityInit(s.owner, {w \in WebIds : s.owner[w] = NoOne /\ Linked(w) # {}})
         /\ by = {<<c, link[c], owner[link[c]]>> : c \in {d \in Chats : link[d] # 0}}
    /\ active \in [Chats -> BOOLEAN] /\ bot = [c \in Chats |-> 0]
    /\ late = {<<0, i>> : i \in {j \in SearchIds : \E c \in Chats : link[c] # 0 /\ link[c] = rows[j].own}}
    /\ move = NoMoves /\ boot = {}
    /\ kept = {} /\ asked = {} /\ merged = {} /\ faults = 0

Exists(a) == a \in Chats \/ (a \in WebIds /\ owner[a] # NoOne)
LiveExt(a) == {n \in 1 .. Len(ext) : ext[n].live /\ ext[n].own = a}
Fail == faults < MaxFaults /\ faults' = faults + 1

-----------------------------------------------------------------------------
(* Web requests past their identity.                                       *)

\* extAuthMiddleware: the account of a live token, which a foreign key keeps.
ResolveExtToken(r) ==
    /\ req[r].pc = "idle" /\ spent.requests < MaxRequests
    /\ \E n \in 1 .. Len(ext) :
         /\ ext[n].live /\ Exists(ext[n].own)
         /\ req' = [req EXCEPT ![r] = [NoRequest EXCEPT !.op = "push", !.web = ext[n].own, !.pc = "canon",
                        !.uid = IF ext[n].own \in WebIds THEN owner[ext[n].own] ELSE NoOne]]
    /\ spent' = [spent EXCEPT !.requests = @ + 1]
    /\ UNCHANGED <<owner, cache, admin, gone, telegram, rows, kept, ext, late, asked, faults>>

\* requireResolvedChatID; a failed lookup falls back to the web id.  Linking
\* itself is the one operation that uses the web id (requireChatID).
resolveCanonicalChatID(r) ==
    /\ req[r].pc = "canon"
    /\ LET w == req[r].web
           tg == IF req[r].op = "link" THEN {} ELSE GetLinkedTelegramUser(w)
           go(a) == req' = [req EXCEPT ![r].id = a, ![r].pc = "serve"]
       IN \/ \E a \in IF tg = {} THEN {w} ELSE tg : go(a) /\ UNCHANGED faults
          \/ tg # {} /\ go(w) /\ Fail
    /\ UNCHANGED <<owner, cache, admin, spent, gone, telegram, rows, kept, ext, late, asked>>

Serve(r, op) == req[r].pc = "serve" /\ req[r].op = op
Linking(a) == Linked(a) # {} \/ \E c \in DOMAIN move : move[c].web = a
Late(a, x) == late' = IF Linking(a) THEN late \cup {x} ELSE late
others == <<owner, cache, admin, spent, gone, moves, faults>>

\* CreateSearch: MAX(user_seq) + 1, unique per chat with the rows a transaction
\* is moving there.
NextSeq(a) == 1 + Cardinality({n \in 1 .. Cardinality(SearchIds) : \E j \in Of(a) : rows[j].seq >= n})
NewSearch(a, f) ==
    LET free == {i \in SearchIds \ (asked \cup merged) : rows[i] = NoRow} IN
    \E i \in free :
       /\ \A j \in free : i <= j
       /\ a \in DOMAIN move => \A j \in move[a].moved : rows[j].seq # NextSeq(a)
       /\ rows' = [rows EXCEPT ![i] = [own |-> a, f |-> f, seq |-> NextSeq(a)]]
       /\ Late(a, <<0, i>>)

ensureUserActive(a) == active' = [c \in Chats |-> active[c] \/ c = a]

\* The limit, the user_seq or the foreign key, which needs the account, may
\* refuse the row.
createSearch(r) ==
    /\ Serve(r, "search")
    /\ \/ /\ Exists(req[r].id)
          /\ \E f \in Filters : NewSearch(req[r].id, f)
          /\ ensureUserActive(req[r].id)
       \/ UNCHANGED <<rows, late, active>>
    /\ End(r)
    /\ UNCHANGED <<others, kept, ext, asked>>

\* A search that moved meanwhile is not found.
deleteSearch(r) ==
    /\ Serve(r, "delete")
    /\ \/ \E i \in Of(req[r].id) \ Held : rows' = [rows EXCEPT ![i] = NoRow] /\ asked' = asked \cup {i}
       \/ UNCHANGED <<rows, asked>>
    /\ End(r)
    /\ UNCHANGED <<others, active, kept, ext, late>>

\* The tables of saved, hidden and seen listings have no foreign key.  A limit,
\* a filter or a failure may be in the way.
Keep(a) == \/ \E x \in Items :
                /\ \A c \in DOMAIN move : move[c].web = a => x \notin move[c].listings
                /\ kept' = kept \cup {<<a, x>>} /\ Late(a, <<a, x>>)
           \/ UNCHANGED <<kept, late>>
saveListing(r) ==
    /\ Serve(r, "save")
    /\ Keep(req[r].id)
    /\ End(r)
    /\ UNCHANGED <<others, active, rows, ext, asked>>

\* A browser's listings, matched and kept for the chat it resolved to.
ingestListings(r) ==
    /\ Serve(r, "push")
    /\ Keep(req[r].id)
    /\ End(r)
    /\ UNCHANGED <<others, active, rows, ext, asked>>

\* postTelegramLink
postTelegramLink(r) ==
    /\ Serve(r, "link")
    /\ token' = token \cup {req[r].id}
    /\ End(r)
    /\ UNCHANGED <<owner, cache, admin, spent, gone, link, active, bot, move, boot, by, merged,
                   faults, rows, kept, ext, late, asked>>

\* createExtToken: at the cap the oldest live ones are revoked, all but
\* ExtCap - 1 of them; then, apart, the new one is stored.
RevokeOldestExtTokens(a, keep) ==
    [n \in 1 .. Len(ext) |->
        [ext[n] EXCEPT !.live = @ /\ (ext[n].own = a =>
            Cardinality({m \in LiveExt(a) : m > n}) < keep)]]
CapExtTokens(r) ==
    /\ Serve(r, "ext")
    /\ req' = [req EXCEPT ![r].pc = "store"]
    /\ \/ /\ ext' = IF Cardinality(LiveExt(req[r].id)) >= ExtCap
                    THEN RevokeOldestExtTokens(req[r].id, ExtCap - 1) ELSE ext
          /\ UNCHANGED faults
       \/ Fail /\ UNCHANGED ext
    /\ UNCHANGED <<owner, cache, admin, spent, gone, telegram, rows, kept, late, asked>>
CreateExtToken(r) ==
    /\ req[r].pc = "store"
    /\ \/ /\ Exists(req[r].id) /\ Len(ext) < MaxExt
          /\ ext' = Append(ext, [own |-> req[r].id, live |-> TRUE])
       \/ ~Exists(req[r].id) /\ UNCHANGED ext
    /\ End(r)
    /\ UNCHANGED <<others, active, rows, kept, late, asked>>

revokeExtTokens(r) ==
    /\ Serve(r, "revoke")
    /\ ext' = [n \in 1 .. Len(ext) |-> [ext[n] EXCEPT !.live = @ /\ ext[n].own # req[r].id]]
    /\ End(r)
    /\ UNCHANGED <<others, active, rows, kept, late, asked>>

ExpireExt(n) ==
    /\ Event /\ n \in 1 .. Len(ext) /\ ext[n].live
    /\ ext' = [ext EXCEPT ![n].live = FALSE]
    /\ UNCHANGED <<owner, cache, req, admin, gone, telegram, rows, kept, late, asked, faults>>

-----------------------------------------------------------------------------
(* The bot.                                                                *)

\* handleLinkStart: the token is used up, then, apart, the accounts are linked.
ConsumeLinkToken(c) ==
    /\ boot = {} /\ bot[c] = 0
    /\ \E w \in token : token' = token \ {w} /\ bot' = [bot EXCEPT ![c] = w]
    /\ UNCHANGED <<identity, link, active, move, boot, by, merged, rows, kept, ext, late, asked, faults>>

\* Mutant: duplicates are recognised by manufacturer and model alone
AlikeByModel == {e \in Filters \X Filters : Model(e[1]) = Model(e[2])}

\* Filters the move takes as equal: linking compares them all, the bot's start
\* manufacturer and model alone.
Alike == {e \in Filters \X Filters : IF boot = {} THEN LinkKey(e[1]) = LinkKey(e[2])
                                     ELSE Model(e[1]) = Model(e[2])}
Moving(c, w) == {i \in Of(w) : \A j \in Of(c) : <<rows[j].f, rows[i].f>> \notin Alike}
Collides(c, w) == \E i \in Moving(c, w), j \in Of(c) : rows[i].seq = rows[j].seq
With(c, m) == move' = [d \in DOMAIN move \cup {c} |-> IF d = c THEN m ELSE move[d]]
Without(c) == move' = [d \in DOMAIN move \ {c} |-> move[d]]
unmoved == <<identity, active, token, asked, ext, faults>>

\* UPDATE searches: a row of web id w goes to chat c unless the chat has an
\* equal one.  Two rows of a chat with one user_seq are a unique violation, and
\* so are two chats linked to w.
MoveSearches(c, w) ==
    /\ c \notin DOMAIN move /\ \A d \in DOMAIN move : move[d].web # w
    /\ ~Collides(c, w)
    /\ With(c, [web |-> w, step |-> "delete", moved |-> Moving(c, w), dropped |-> {}, listings |-> {},
                saw |-> [i \in SearchIds |-> rows[i].f]])
    /\ UNCHANGED <<unmoved, link, rows, kept, bot, boot, by, merged, late>>

\* Mutant: what the chat had already stays with the web account
DropNothing(c) ==
    /\ c \in DOMAIN move /\ move[c].step = "delete"
    /\ LET m == move[c]
       IN With(c, [m EXCEPT !.step = "commit", !.listings = {x \in Items : <<m.web, x>> \in kept}])
    /\ UNCHANGED <<unmoved, link, rows, kept, bot, boot, by, merged, late>>

\* DELETE FROM searches: whatever is at w by now and did not move.  Then the
\* saved, hidden and seen listings are moved.
DropSearches(c) ==
    /\ c \in DOMAIN move /\ move[c].step = "delete"
    /\ LET m == move[c]
       IN With(c, [m EXCEPT !.step = "commit", !.dropped = Of(m.web) \ m.moved,
                            !.listings = {x \in Items : <<m.web, x>> \in kept}])
    /\ UNCHANGED <<unmoved, link, rows, kept, bot, boot, by, merged, late>>

\* The listings left at w are deleted, and all of it is there at once.
CommitMove(c) ==
    /\ c \in DOMAIN move /\ move[c].step = "commit"
    /\ LET m == move[c] IN
         /\ rows' = [i \in SearchIds |-> IF i \in m.moved THEN [rows[i] EXCEPT !.own = c]
                                         ELSE IF i \in m.dropped THEN NoRow ELSE rows[i]]
         /\ kept' = {e \in kept : e[1] # m.web} \cup {<<c, x>> : x \in m.listings}
         /\ merged' = merged \cup m.dropped
         /\ late' = {e \in late : e[1] # m.web /\ (e[1] = 0 => e[2] \notin m.moved \cup m.dropped)}
    /\ Without(c)
    /\ IF boot = {}
       THEN /\ link' = [d \in Chats |-> IF d = c THEN bot[c] ELSE IF link[d] = bot[c] THEN 0 ELSE link[d]]
            /\ by' = by \cup {<<c, bot[c], owner[bot[c]]>>}
            /\ bot' = [bot EXCEPT ![c] = 0] /\ UNCHANGED boot
       ELSE boot' = boot \ {c} /\ UNCHANGED <<link, by, bot>>
    /\ UNCHANGED unmoved

\* The link, which a failing statement rolls back; the token stays used up.
LinkTelegramToWeb(c) == boot = {} /\ bot[c] # 0 /\ MoveSearches(c, bot[c])
LinkFails(c) ==
    /\ boot = {} /\ bot[c] # 0
    /\ bot' = [bot EXCEPT ![c] = 0] /\ Without(c)
    /\ UNCHANGED <<unmoved, link, rows, kept, boot, by, merged, late>>

\* The wizard of the chat itself.
botCreates(c) ==
    /\ Event /\ boot = {} /\ \E f \in Filters : NewSearch(c, f)
    /\ UNCHANGED <<owner, cache, req, admin, gone, telegram, kept, ext, asked, faults>>

\* The bot stops, and what it had under way is rolled back.  Before it serves
\* anybody, BackfillLinkedData moves what was written to a linked web id since,
\* links one by one until one fails.
BackfillLinkedData ==
    /\ Event
    /\ bot' = [c \in Chats |-> 0] /\ move' = NoMoves
    /\ boot' = {c \in Chats : link[c] # 0 /\ active[c]}
    /\ UNCHANGED <<owner, cache, req, admin, gone, link, active, token, by, merged, rows, kept, ext, late, asked, faults>>
migrateUserData(c) == c \in boot /\ DOMAIN move = {} /\ MoveSearches(c, link[c])
BackfillFails ==
    /\ boot # {} /\ boot' = {} /\ move' = NoMoves
    /\ UNCHANGED <<unmoved, link, rows, kept, bot, by, merged, late>>

-----------------------------------------------------------------------------
(* Activity: a chat that blocked the bot is deactivated by the scheduler   *)
(* and the notifier, reactivated by the next cycle if it has searches.     *)

SetUserActive(c, b) ==
    /\ Event /\ active[c] # b /\ active' = [active EXCEPT ![c] = b]
    /\ UNCHANGED <<owner, cache, req, admin, gone, rows, kept, ext, moves, late, asked, faults>>
deactivateBlocked == \E c \in Chats : Of(c) # {} /\ SetUserActive(c, FALSE)
adminSetUserActive == \E c \in Chats, b \in BOOLEAN : SetUserActive(c, b)
ReactivateUsersWithSearches ==
    /\ Event /\ active' = [c \in Chats |-> active[c] \/ Of(c) # {}] /\ active' # active
    /\ UNCHANGED <<owner, cache, req, admin, gone, rows, kept, ext, moves, late, asked, faults>>
SyncUserActiveStatus ==
    /\ Event /\ active' = [c \in Chats |-> Of(c) # {}] /\ active' # active
    /\ UNCHANGED <<owner, cache, req, admin, gone, rows, kept, ext, moves, late, asked, faults>>

\* AdminDeleteUser of a web account: its rows go, a chat's link to it stays.
adminDeleteUser(w) ==
    /\ DeleteIdentity(w) /\ Of(w) \cap Held = {}
    /\ \A c \in DOMAIN move : move[c].web = w => move[c].listings = {}
    /\ rows' = [i \in SearchIds |-> IF rows[i].own = w THEN NoRow ELSE rows[i]]
    /\ asked' = asked \cup Of(w)
    /\ kept' = {e \in kept : e[1] # w}
    /\ ext' = [n \in 1 .. Len(ext) |-> [ext[n] EXCEPT !.live = @ /\ ext[n].own # w]]
    /\ token' = token \ {w}
    /\ UNCHANGED <<link, active, bot, move, boot, late, by, merged, faults>>

-----------------------------------------------------------------------------
Next ==
    \/ /\ ResolveStep \/ RestartServer
       /\ UNCHANGED <<telegram, rows, kept, ext, late, asked, faults>>
    \/ \E r \in Requests :
         \/ resolveCanonicalChatID(r) \/ createSearch(r) \/ deleteSearch(r) \/ saveListing(r)
         \/ ResolveExtToken(r) \/ ingestListings(r) \/ postTelegramLink(r) \/ CapExtTokens(r) \/ CreateExtToken(r) \/ revokeExtTokens(r)
    \/ \E n \in 1 .. MaxExt : ExpireExt(n)
    \/ \E c \in Chats : \/ ConsumeLinkToken(c) \/ botCreates(c)
                       \/ LinkTelegramToWeb(c) \/ LinkFails(c) \/ migrateUserData(c)
                       \/ DropSearches(c) \/ CommitMove(c)
    \/ BackfillLinkedData \/ BackfillFails
    \/ deactivateBlocked \/ adminSetUserActive
    \/ ReactivateUsersWithSearches \/ SyncUserActiveStatus
    \/ \E w \in WebIds : adminDeleteUser(w)

Spec == Init /\ [][Next]_vars

-----------------------------------------------------------------------------
(* Properties. *)

\* A request is carried out for its own user: under the web id of its uid (or of
\* its browser's token), or a chat that uid linked.  Only an id that was deleted breaks this: the admin's
\* delete empties the cache, but a request that had read the id before puts it
\* back (uid_cache.go), a chat stays linked to it (AdminDeleteUser), and the
\* next new user gets the id (tryUpsertChannelUser).
ServedAsOneself ==
    \A r \in Requests : req[r].pc \in {"serve", "store"} =>
        \/ req[r].web \in gone
        \/ req[r].web \in Chats /\ req[r].id = req[r].web
        \/ /\ owner[req[r].web] = req[r].uid
           /\ req[r].id \in Chats => <<req[r].id, req[r].web, req[r].uid>> \in by

\* What a linked user owns is where both the bot and the site look for it: only
\* what was written to the web id while it was being linked or later -- by a
\* request that had resolved its id before, whose lookup failed, or while the
\* chat was inactive -- and that no move has taken since is not.
SeenTogether ==
    \A w \in WebIds : Linked(w) # {} =>
        /\ \A i \in Of(w) : <<0, i>> \in late
        /\ \A x \in Items : <<w, x>> \in kept => <<w, x>> \in late

\* createExtToken counts, then stores; requests at once overshoot the cap, but
\* by no more than the requests at work and the listings that failed.
ExtTokensBounded ==
    \A a \in All : Cardinality(LiveExt(a)) <= ExtCap + Cardinality(Requests) - 1 + faults

\* Linking, moving and merging accounts loses no search that the move found
\* there when it compared them, unless an alike one stayed (AccountBook).
Book == INSTANCE AccountBook WITH book <- [i \in SearchIds |-> rows[i].f],
    looks <- [c \in DOMAIN move |-> move[c].saw], booting <- (boot # {})
NoSearchLost == Book!Spec

\* Whoever is served is who asked, and holds a bounded number of browser tokens.
IdentityHeld == ServedAsOneself /\ ExtTokensBounded
=============================================================================
