----------------------------- MODULE UserLists -----------------------------
(***************************************************************************)
(* One account's lists, as the API server's handlers and the bot's edit    *)
(* and page through them: bookmarks, hidden listings, the history, and the *)
(* notification bell over the listing rows that cycles and pushes save.    *)
(***************************************************************************)
EXTENDS ApiRequests, SequencesExt

CONSTANTS Tokens,     \* listings, numbered: the store breaks ties by token
          MaxSaved,   \* maxSavedListings
          MaxHidden,  \* maxHiddenListings
          PageSize,   \* historyPageSize, and the limit of the web pages
          BatchSize   \* savedAmongBatchSize

ASSUME ListConstants ==
    /\ Tokens \subseteq Nat /\ IsFiniteSet(Tokens)
    /\ {MaxSaved, MaxHidden} \subseteq Nat /\ {PageSize, BatchSize} \subseteq Nat \ {0}

VARIABLES saved,   \* saved_listings, oldest first
          hidden,  \* hidden_listings, oldest first
          rows,    \* listing_history: first_seen_at of each row, and whether it is committed
          stamps,  \* the latest first_seen_at handed out
          wanted,  \* the rows notifFilterSQL lets through: their search still asks for them
          seen,    \* listing_user_seen
          since,   \* users.last_seen_at
          view,    \* the notifications page the web client shows
          told     \* history: listings the user was shown, and those a mark passed over for a known cause

lists == <<saved, hidden, rows, stamps, wanted, seen, since, view, told>>

NoRow == [at |-> 0, in |-> FALSE]
NoView == [bell |-> {}, page |-> {}]

ListsInit ==
    /\ saved = <<>> /\ hidden = <<>>
    /\ rows = [t \in Tokens |-> NoRow]
    /\ stamps = 0 /\ since = 0
    /\ wanted = Tokens
    /\ seen = {}
    /\ view = NoView
    /\ told = [shown |-> {}, passed |-> {}]

Stored == {t \in Tokens : rows[t].in}
Listed(l) == {l[i] : i \in DOMAIN l}

\* the entries of l that are in ts, in their order
Kept(l, ts) ==
    LET kept[n \in 0 .. Len(l)] ==
          IF n = 0 THEN <<>>
          ELSE IF l[n] \in ts THEN Append(kept[n - 1], l[n]) ELSE kept[n - 1]
    IN  kept[Len(l)]
Without(l, t) == Kept(l, Tokens \ {t})

\* LIMIT PageSize OFFSET offset
Page(l, offset) ==
    LET last == IF offset + PageSize < Len(l) THEN offset + PageSize ELSE Len(l)
    IN  SubSeq(l, offset + 1, last)

\* ORDER BY first_seen_at DESC, token DESC
NewestFirst(ts) ==
    LET Newer(t) == {x \in ts : \/ rows[x].at > rows[t].at
                                \/ rows[x].at = rows[t].at /\ x > t}
    IN  [i \in 1 .. Cardinality(ts) |-> CHOOSE t \in ts : Cardinality(Newer(t)) = i - 1]

Reversed(l) == [i \in DOMAIN l |-> l[Len(l) + 1 - i]]

\* The store's pages: bookmarks only while their row exists, hidden ones always.
ListSaved(offset) == Page(Kept(Reversed(saved), Stored), offset)
ListHidden(offset) == Page(Reversed(hidden), offset)
ListUserListings(offset) == Page(NewestFirst(Stored), offset)
NewSince(s) == {t \in Stored : rows[t].at > s /\ t \notin seen /\ t \in wanted}
NewListingsSince(s, offset) == Page(NewestFirst(NewSince(s)), offset)
CountSaved == Len(saved)
CountHidden == Len(hidden)
CountUserListings == Cardinality(Stored)

(***************************************************************************)
(* Bookmarks and hidden listings                                           *)
(***************************************************************************)

SaveBookmark(t) == saved' = IF t \in Listed(saved) THEN saved ELSE Append(saved, t)
HideListing(t) == hidden' = IF t \in Listed(hidden) THEN hidden ELSE Append(hidden, t)

\* mutant: the cap itself still passes
CountedLoosely(r, op, count, max) == At(r, "handle", op) /\ IF count > max THEN End(r) ELSE Goto(r, "insert")

\* The handler counts in one statement and inserts in another.
Counted(r, op, count, max) == At(r, "handle", op) /\ IF count >= max THEN End(r) ELSE Goto(r, "insert")

saveListing(r) ==
    /\ \/ Counted(r, "saveListing", CountSaved, MaxSaved) /\ UNCHANGED saved
       \/ At(r, "insert", "saveListing") /\ (\E t \in Tokens : SaveBookmark(t)) /\ End(r)
    /\ UNCHANGED <<hidden, rows, stamps, wanted, seen, since, view, told>>

unsaveListing(r) ==
    /\ At(r, "handle", "unsaveListing") /\ End(r)
    /\ \E t \in Tokens : saved' = Without(saved, t)
    /\ UNCHANGED <<hidden, rows, stamps, wanted, seen, since, view, told>>

hideListing(r) ==
    /\ \/ Counted(r, "hideListing", CountHidden, MaxHidden) /\ UNCHANGED hidden
       \/ At(r, "insert", "hideListing") /\ (\E t \in Tokens : HideListing(t)) /\ End(r)
    /\ UNCHANGED <<saved, rows, stamps, wanted, seen, since, view, told>>

unhideListing(r) ==
    /\ At(r, "handle", "unhideListing") /\ End(r)
    /\ \E t \in Tokens : hidden' = Without(hidden, t)
    /\ UNCHANGED <<saved, rows, stamps, wanted, seen, since, view, told>>

\* The bot's buttons run under the chat's mutex.
Locked(r) == \A q \in Requests \ {r} : ~(req[q].op \in BotButtons /\ req[q].pc = "insert")

onSaveListing(r) ==
    /\ Locked(r)
    /\ \/ Counted(r, "onSaveListing", CountSaved, MaxSaved) /\ UNCHANGED saved
       \/ At(r, "insert", "onSaveListing") /\ (\E t \in Tokens : SaveBookmark(t)) /\ End(r)
    /\ UNCHANGED <<hidden, rows, stamps, wanted, seen, since, view, told>>

onHideListing(r) ==
    /\ Locked(r)
    /\ \/ Counted(r, "onHideListing", CountHidden, MaxHidden) /\ UNCHANGED hidden
       \/ At(r, "insert", "onHideListing") /\ (\E t \in Tokens : HideListing(t)) /\ End(r)
    /\ UNCHANGED <<saved, rows, stamps, wanted, seen, since, view, told>>

\* The button of the keyboard onClearHidden shows.
onClearHiddenConfirm(r) ==
    /\ Locked(r) /\ At(r, "handle", "onClearHiddenConfirm") /\ End(r)
    /\ hidden' = <<>>
    /\ UNCHANGED <<saved, rows, stamps, wanted, seen, since, view, told>>

(***************************************************************************)
(* Pages: handlers that only read are operators                            *)
(***************************************************************************)

\* parsePagination: the limit of the web client is PageSize here.
parsePagination(offset) == IF offset < 0 THEN 0 ELSE offset

\* SavedAmong, ListingUserSeenAmong: the page's tokens, each once, asked for in
\* batches of savedAmongBatchSize within one read transaction.
Among(page, marked) ==
    LET uniq == SetToSeq(Listed(page))
        starts == {i \in DOMAIN uniq : (i - 1) % BatchSize = 0}
    IN  UNION {Listed(SubSeq(uniq, i, IF i + BatchSize - 1 < Len(uniq) THEN i + BatchSize - 1 ELSE Len(uniq))) \cap marked : i \in starts}
SavedAmong(page) == Among(page, Listed(saved))
ListingUserSeenAmong(page) == Among(page, seen)

listSaved(offset) ==
    LET page == ListSaved(parsePagination(offset))
    IN  [items |-> page, saved |-> Listed(page), seen |-> ListingUserSeenAmong(page), total |-> CountSaved]
listHistory(offset) ==
    LET page == ListUserListings(parsePagination(offset))
    IN  [items |-> page, saved |-> SavedAmong(page), seen |-> ListingUserSeenAmong(page), total |-> CountUserListings]

TotalPages(n) == (n + PageSize - 1) \div PageSize
InPages(p, n) == 0 <= p /\ p < TotalPages(n)
\* the page number an old keyboard asks for: refused, or taken as the first page
sendHistoryPage(p) == IF InPages(p, CountUserListings) THEN ListUserListings(p * PageSize) ELSE <<>>
sendSavedPage(p) == ListSaved(IF InPages(p, CountSaved) THEN p * PageSize ELSE 0)
sendHiddenPage(p) == ListHidden(IF InPages(p, CountHidden) THEN p * PageSize ELSE 0)

(***************************************************************************)
(* The bell                                                                *)
(***************************************************************************)

\* GetLastSeenAt, NewListingsSince and the count are three statements; the page
\* reaches the client at the end.
listNotifications(r) ==
    /\ \/ /\ At(r, "handle", "listNotifications")
          /\ req' = [req EXCEPT ![r].pc = "page", ![r].n = since]
          /\ UNCHANGED <<view, told>>
       \/ /\ At(r, "page", "listNotifications") /\ End(r)
          /\ LET page == Listed(NewListingsSince(req[r].n, 0)) IN
             /\ view' = [bell |-> NewSince(req[r].n), page |-> page]
             /\ told' = [told EXCEPT !.shown = @ \cup page]
    /\ UNCHANGED <<saved, hidden, rows, stamps, wanted, seen, since>>

\* the badge, 0 for a guest: nothing but an answer
notificationCount(r) ==
    /\ At(r, "handle", "notificationCount") /\ End(r)
    /\ UNCHANGED lists

\* mutant: the mark lies ahead of the call, as a clock that runs fast has it
UpdateLastSeenAhead == since' = stamps + 1

\* last_seen_at becomes the time of the call, not of the page the user looks at:
\* rows stamped since that page, or not committed yet, are passed over.
UpdateLastSeenAt == since' = stamps

markNotificationsSeen(r) ==
    /\ At(r, "handle", "markNotificationsSeen") /\ End(r)
    /\ UpdateLastSeenAt
    /\ told' = [told EXCEPT !.passed = @ \cup ({t \in Tokens : rows[t].at # 0} \ view.bell)
                  \cup IF Cardinality(view.page) = PageSize THEN view.bell ELSE {}]
    /\ UNCHANGED <<saved, hidden, rows, stamps, wanted, seen, view>>

markListingSeen(r) ==
    /\ At(r, "handle", "markListingSeen") /\ End(r)
    /\ \E t \in Tokens : /\ seen' = seen \cup {t}
                        /\ told' = [told EXCEPT !.shown = @ \cup {t}]
    /\ UNCHANGED <<saved, hidden, rows, stamps, wanted, since, view>>

unmarkListingSeen(r) ==
    /\ At(r, "handle", "unmarkListingSeen") /\ End(r)
    /\ \E t \in Tokens : seen' = seen \ {t}
    /\ UNCHANGED <<saved, hidden, rows, stamps, wanted, since, view, told>>

\* A cycle or a push stamps the record when it is built and saves it later; a
\* row that is there keeps its first_seen_at.
StampRecord(t) ==
    /\ rows[t].at = 0 /\ Event
    /\ stamps' = stamps + 1
    /\ rows' = [rows EXCEPT ![t].at = stamps + 1]
    /\ UNCHANGED <<saved, hidden, wanted, seen, since, view, told>>

SaveRecord(t) ==
    /\ rows[t].at # 0 /\ ~rows[t].in
    /\ rows' = [rows EXCEPT ![t].in = TRUE]
    /\ UNCHANGED <<saved, hidden, stamps, wanted, seen, since, view, told, spent>>

\* an edit of the search the rows belong to
EditSearch ==
    /\ Event
    /\ \E t \in Tokens : wanted' = IF t \in wanted THEN wanted \ {t} ELSE wanted \cup {t}
    /\ UNCHANGED <<saved, hidden, rows, stamps, seen, since, view, told>>

UserListsStep(r) ==
    \/ saveListing(r) \/ unsaveListing(r) \/ hideListing(r) \/ unhideListing(r)
    \/ onSaveListing(r) \/ onHideListing(r) \/ onClearHiddenConfirm(r)
    \/ listNotifications(r) \/ notificationCount(r) \/ markNotificationsSeen(r)
    \/ markListingSeen(r) \/ unmarkListingSeen(r)

(***************************************************************************)
(* Properties                                                              *)
(***************************************************************************)

\* The count before an insert is not locked against the other handlers: a list
\* grows past its cap by at most one listing per further handler at work.
ListsCapped ==
    /\ Len(saved) <= MaxSaved + Cardinality(Requests) - 1
    /\ Len(hidden) <= MaxHidden + Cardinality(Requests) - 1

\* A listing leaves the bell unseen only for a cause the user's client cannot
\* tell: it was not in the bell when the page was read (arrived or was committed
\* later, or the search did not ask for it then), or the page was full.
NoticeNotSwallowed ==
    \A t \in Stored \ seen : rows[t].at <= since => t \in told.shown \cup told.passed

\* Following the pages from the first to the last the total promises, the bot and
\* the web client come past every hidden listing, every row of the history and
\* every bookmark whose row is still there; what a page flags as saved or seen is.
PagesReachAll ==
    LET Reached(page(_), n) == UNION {Listed(page(p)) : p \in 0 .. TotalPages(n) - 1}
        SavedItems(p) == listSaved(p * PageSize).items
        HistoryItems(p) == listHistory(p * PageSize).items
    IN  /\ Reached(sendHiddenPage, CountHidden) = Listed(hidden)
        /\ Reached(sendHistoryPage, CountUserListings) = Stored
        /\ Reached(HistoryItems, CountUserListings) = Stored
        /\ Reached(sendSavedPage, CountSaved) = Listed(saved) \cap Stored
        /\ Reached(SavedItems, CountSaved) = Listed(saved) \cap Stored
        /\ LET h == listHistory(0) IN /\ h.saved = Listed(h.items) \cap Listed(saved)
                                     /\ h.seen = Listed(h.items) \cap seen
=============================================================================
