---------------------------- MODULE ListingStore ----------------------------
(***************************************************************************)
(* What a user sees of the market: the rows of listing_history, kept by    *)
(* four writers that do not coordinate.                                    *)
(*  - The scheduler's cycle (server_fetch on) fetches a feed per distinct  *)
(*    set of search parameters, claims its matches, later saves the new    *)
(*    ones, gives claims back for those it could not save or send, and     *)
(*    drops the rows its feeds no longer contain.                          *)
(*  - The extension (server_fetch off) pushes what it found and reports    *)
(*    what is gone.                                                        *)
(*  - The user refreshes a search, bookmarks and hides listings.           *)
(*  - Retention prunes old rows and claims; the enricher drops a listing   *)
(*    whose page answers 404.                                              *)
(* A row holds the search it was last saved for; its other columns are     *)
(* data.  Each action is one transaction of the database, or the calls one *)
(* process makes before it next waits for the network.  Any call may fail, *)
(* and the process die, at any time and any number of times.               *)
(***************************************************************************)
EXTENDS Naturals, FiniteSets

CONSTANTS Chats, Searches, Tokens, NoSearch,
          FeedKeys,             \* distinct source parameters of the searches
          ChatOf,           \* search -> its chat
          KeyOf,            \* search -> fetcher.CacheKeyFor its parameters
          Wants,            \* search -> listings its filters accept
          Serves,           \* key -> listings its pages can hold
          Order,            \* ListSearches: the searches of a chat in order
          RemovalBudget     \* removalBudgetPerDay (200)

ASSUME ListingConstants ==
    /\ NoSearch \notin Searches
    /\ ChatOf \in [Searches -> Chats] /\ KeyOf \in [Searches -> FeedKeys]
    /\ Wants \in [Searches -> SUBSET Tokens]
    /\ Serves \in [FeedKeys -> SUBSET Tokens]
    /\ Order \in [Searches -> Nat]
    /\ RemovalBudget \in Nat \ {0}
    /\ IsFiniteSet(Searches) /\ IsFiniteSet(Tokens)

VARIABLES
    serverFetch,    \* config.PollingConfig.ServerFetch
    market,         \* listings on sale
    row,            \* listing_history: <<chat, token>> -> search or NoSearch
    removed,        \* rows with removed_at
    rowOld,         \* rows with last_seen_at beyond listingHistoryRetention
    claims,         \* seen_listings: <<search, token>>
    claimOld,       \* claims with last_seen_at beyond prune_after
    saved, hidden,  \* saved_listings, hidden_listings: <<chat, token>>
    phase,             \* the cycle: "idle", "match", "sweep"
    feed,           \* feedTokensByKey of the cycle
    left,           \* matches the cycle has not claimed yet
    drops,          \* listings whose price dropped
    pick,           \* chosen and not saved yet: <<chat, token>> -> search
    cur, ready,     \* the search being saved, its listings to be delivered
    give,           \* claims the cycle is about to release
    todo,           \* searches the sweep has not reached
    rpc, rsearch, fresh,    \* the refresh request: its step, search, tokens
    used,           \* removalBudget.day
    \* history
    exact,          \* keys whose feed was complete when it was fetched
    excused,        \* <<chat, token>> whose row went for a known cause
    shown,          \* <<chat, token>> pushed since rows were last old
    renewed,        \* <<search, token>> served since claims were last old
    retired         \* rows retired by pushes since the budget was full

rowVars == <<row, removed, rowOld>>
claimVars == <<claims, claimOld>>
userVars == <<saved, hidden>>
saveVars == <<left, drops, pick, cur, ready, give>>
cycleVars == <<phase, feed, todo, exact, saveVars>>
refreshVars == <<rpc, rsearch, fresh>>
budgetVars == <<used, retired>>
histVars == <<shown, renewed, excused>>
storeVars == <<serverFetch, market, rowVars, claimVars, userVars, cycleVars,
               refreshVars, budgetVars, histVars>>

Pairs == Chats \X Tokens
SearchPairs == Searches \X Tokens
Of(c) == {s \in Searches : ChatOf[s] = c}
HasRow(p) == row[p] # NoSearch
NoFeeds == [k \in {} |-> {}]
NoPicks == [p \in Pairs |-> NoSearch]

StoreTypeOK ==
    /\ serverFetch \in BOOLEAN /\ market \subseteq Tokens
    /\ row \in [Pairs -> Searches \cup {NoSearch}]
    /\ removed \subseteq Pairs /\ rowOld \subseteq Pairs
    /\ claims \subseteq SearchPairs /\ claimOld \subseteq claims
    /\ saved \subseteq Pairs /\ hidden \subseteq Pairs
    /\ phase \in {"idle", "match", "sweep"}
    /\ left \subseteq SearchPairs /\ give \subseteq SearchPairs
    /\ drops \subseteq Tokens /\ ready \subseteq Tokens
    /\ pick \in [Pairs -> Searches \cup {NoSearch}]
    /\ cur \in Searches \cup {NoSearch}
    /\ DOMAIN feed \subseteq FeedKeys /\ todo \subseteq Searches
    /\ rpc \in {"idle", "save"} /\ rsearch \in Searches \cup {NoSearch}
    /\ fresh \subseteq Tokens
    /\ used \in [Chats -> 0..RemovalBudget] /\ retired \in [Chats -> Nat]
    /\ exact \subseteq FeedKeys /\ excused \subseteq Pairs
    /\ shown \subseteq Pairs /\ renewed \subseteq SearchPairs

StoreInit ==
    /\ serverFetch \in BOOLEAN /\ market = {}
    /\ row = [p \in Pairs |-> NoSearch] /\ removed = {}
    /\ rowOld = {} /\ claims = {} /\ claimOld = {} /\ saved = {} /\ hidden = {}
    /\ phase = "idle" /\ feed = NoFeeds /\ todo = {}
    /\ left = {} /\ drops = {} /\ pick = NoPicks
    /\ cur = NoSearch /\ ready = {} /\ give = {}
    /\ rpc = "idle" /\ rsearch = NoSearch /\ fresh = {}
    /\ used = [c \in Chats |-> 0]
    /\ exact = {} /\ excused = {} /\ shown = {} /\ renewed = {}
    /\ retired = [c \in Chats |-> 0]

-----------------------------------------------------------------------------
(* The store *)

\* SaveListings: insert or update the rows of new, a function from pairs to
\* searches; a row saved again is no longer removed and its clock restarts.
SaveListings(new) ==
    /\ row' = [p \in Pairs |-> IF p \in DOMAIN new THEN new[p] ELSE row[p]]
    /\ removed' = removed \ DOMAIN new
    /\ rowOld' = rowOld \ DOMAIN new

\* DropListingByToken, MarkListingsRemoved and DeleteStaleListings share two
\* statements: bookmarked rows are marked removed, the others deleted.
Retire(gone) ==
    /\ row' = [p \in Pairs |->
                 IF p \in gone \ saved THEN NoSearch ELSE row[p]]
    /\ removed' = (removed \cup {p \in gone \cap saved : HasRow(p)})
                  \ (gone \ saved)
    /\ rowOld' = rowOld \ (gone \ saved)

\* The rows that retiring gone deletes.
Deleted(gone) == {p \in gone \ saved : HasRow(p)}

\* DeleteStaleListings: the rows of search s that are not in keep.
Stale(s, keep) ==
    {p \in Pairs : p[1] = ChatOf[s] /\ row[p] = s /\ p[2] \notin keep}

\* (mutant) ON CONFLICT DO NOTHING.
ClaimOnce(K) == claims' = claims \cup K /\ UNCHANGED claimOld

\* ClaimNew for each of K: a claim made before is renewed.
ClaimNew(K) == /\ claims' = claims \cup K
               /\ claimOld' = claimOld \ K

\* Every search of the chat that wants t has claimed it: no cycle will save
\* its row again unless its price drops.
ClaimedByAll(p) == \A s \in Of(p[1]) :
                      p[2] \in Wants[s] => <<s, p[2]>> \in claims

-----------------------------------------------------------------------------
(* The market *)

\* An ad is posted, perhaps again: rows that went while it was off the
\* market, with claims left behind, are excused.
Post(t) ==
    /\ t \notin market /\ market' = market \cup {t}
    /\ excused' = excused \cup {p \in Pairs : p[2] = t /\ ~HasRow(p)
                                               /\ ClaimedByAll(p)}
    /\ UNCHANGED <<serverFetch, rowVars, claimVars, userVars, cycleVars,
                   refreshVars, budgetVars, shown, renewed>>

Withdraw(t) ==
    /\ t \in market /\ market' = market \ {t}
    /\ UNCHANGED <<serverFetch, rowVars, claimVars, userVars, cycleVars,
                   refreshVars, budgetVars, histVars>>

-----------------------------------------------------------------------------
(* The scheduler's cycle *)

\* What the fetches may return: for each key the whole feed, the pages before
\* one that failed, a feed cached earlier, or an error, which leaves no entry.
Feeds == {f \in UNION {[K -> SUBSET Tokens] : K \in SUBSET FeedKeys} :
             \A k \in DOMAIN f : f[k] \subseteq Serves[k]}

\* The matches in the fetched listings: pairs of a search and a listing its
\* filters accept and its chat did not hide.
Matches(f) == {m \in SearchPairs :
                 /\ m[2] \in Wants[m[1]] \cap UNION {f[k] : k \in DOMAIN f}
                 /\ <<ChatOf[m[1]], m[2]>> \notin hidden}

Pair(m) == <<ChatOf[m[1]], m[2]>>
Picks(s) == {p \in Pairs : pick[p] = s}

\* (mutant) a batch that cannot be saved releases nothing.
KeepClaims(s, T) == {}

\* The claims by which search s has taken the listings T.
ClaimsOf(s, T) == {s} \X T

\* A cycle's fetches are in; D are the listings whose price dropped.
CycleStart(f, D) ==
    /\ serverFetch /\ phase = "idle" /\ phase' = "match"
    /\ feed' = f /\ exact' = {k \in DOMAIN f : f[k] = market \cap Serves[k]}
    /\ left' = Matches(f) /\ drops' = D
    /\ UNCHANGED <<serverFetch, market, rowVars, claimVars, userVars, todo,
                   pick, cur, ready, give, refreshVars, budgetVars, histVars>>

\* matchListingsToSearches, one match: it is claimed, and its chat's listing
\* chosen for this search if the claim is new or the price dropped, and no
\* search of the chat was before it.
ClaimMatch(m) ==
    /\ phase = "match" /\ m \in left /\ left' = left \ {m}
    /\ ClaimNew({m}) /\ renewed' = renewed \cup {m}
    /\ pick' = IF pick[Pair(m)] = NoSearch /\ (m[2] \in drops \/ m \notin claims)
               THEN [pick EXCEPT ![Pair(m)] = m[1]] ELSE pick
    /\ UNCHANGED <<serverFetch, market, rowVars, userVars, phase, feed, todo,
                   exact, drops, cur, ready, give, refreshVars, budgetVars,
                   shown, excused>>

\* ClaimNew answers with an error: the match is passed over, whether or not
\* the claim was committed.
ClaimFails(m) ==
    /\ phase = "match" /\ m \in left /\ left' = left \ {m}
    /\ \/ UNCHANGED <<claimVars, renewed, excused>>
       \/ /\ ClaimNew({m}) /\ renewed' = renewed \cup {m}
          /\ excused' = excused \cup
                {p \in {Pair(m)} : /\ m \notin claims /\ ~HasRow(p)
                                   /\ pick[p] = NoSearch}
    /\ UNCHANGED <<serverFetch, market, rowVars, userVars, phase, feed, todo,
                   exact, drops, pick, cur, ready, give, refreshVars,
                   budgetVars, shown>>

\* processPriceDrops, one listing, before any other is saved.
SaveDrop(p) ==
    /\ phase = "match" /\ left = {} /\ pick[p] # NoSearch /\ p[2] \in drops
    /\ SaveListings([q \in {p} |-> pick[p]])
    /\ pick' = [pick EXCEPT ![p] = NoSearch] /\ excused' = excused \ {p}
    /\ UNCHANGED <<serverFetch, market, claimVars, userVars, phase, feed, todo,
                   exact, left, drops, cur, ready, give, refreshVars,
                   budgetVars, shown, renewed>>

\* The row cannot be saved: that is only logged, the claim stands.
DropFails(p) ==
    /\ phase = "match" /\ left = {} /\ pick[p] # NoSearch /\ p[2] \in drops
    /\ pick' = [pick EXCEPT ![p] = NoSearch]
    /\ excused' = excused \cup {q \in {p} : ~HasRow(q)}
    /\ UNCHANGED <<serverFetch, market, rowVars, claimVars, userVars, phase,
                   feed, todo, exact, left, drops, cur, ready, give,
                   refreshVars, budgetVars, shown, renewed>>

\* processAndDeliverPerSearch turns to the next search.  Claims of listings
\* whose mileage is unknown or too high are released; T are the others.
Process(s, T) ==
    /\ phase = "match" /\ left = {} /\ cur = NoSearch /\ give = {}
    /\ Picks(s) # {} /\ \A p \in Pairs : pick[p] # NoSearch => p[2] \notin drops
    /\ T \subseteq {p[2] : p \in Picks(s)} /\ cur' = s /\ ready' = T
    /\ give' = ClaimsOf(s, {p[2] : p \in Picks(s)} \ T)
    /\ UNCHANGED <<serverFetch, market, rowVars, claimVars, userVars, phase,
                   feed, todo, exact, left, drops, pick, refreshVars,
                   budgetVars, histVars>>

\* The batch is done: T are the listings whose claims are to be released.
BatchDone(T) ==
    /\ cur # NoSearch /\ give = {} /\ give' = ClaimsOf(cur, T)
    /\ pick' = [p \in Pairs |-> IF pick[p] = cur THEN NoSearch ELSE pick[p]]
    /\ cur' = NoSearch /\ ready' = {}

\* persistListings saves all listings of the search, and they are delivered.
\* T are those whose delivery fails; a listing may be held back for the
\* enricher, and a malformed batch keeps its claims.
SaveSearch(T) ==
    /\ T \subseteq ready /\ BatchDone(T)
    /\ SaveListings([p \in Picks(cur) |-> cur])
    /\ excused' = excused \ Picks(cur)
    /\ UNCHANGED <<serverFetch, market, claimVars, userVars, phase, feed, todo,
                   exact, left, drops, refreshVars, budgetVars, shown, renewed>>

\* SaveListings fails: the claims of all its listings are to be released.
SaveFails ==
    /\ BatchDone({p[2] : p \in Picks(cur)})
    /\ UNCHANGED <<serverFetch, market, rowVars, claimVars, userVars, phase,
                   feed, todo, exact, left, drops, refreshVars, budgetVars,
                   histVars>>

\* ReleaseClaim, one listing at a time.
Release(m) ==
    /\ m \in give /\ give' = give \ {m}
    /\ claims' = claims \ {m} /\ claimOld' = claimOld \ {m}
    /\ renewed' = renewed \ {m}
    /\ UNCHANGED <<serverFetch, market, rowVars, userVars, phase, feed, todo,
                   exact, left, drops, pick, cur, ready, refreshVars,
                   budgetVars, shown, excused>>

\* It fails: logged, "listing may be permanently lost".
ReleaseFails(m) ==
    /\ m \in give /\ give' = give \ {m}
    /\ excused' = excused \cup
          {p \in {Pair(m)} : ~HasRow(p) /\ pick[p] = NoSearch}
    /\ UNCHANGED <<serverFetch, market, rowVars, claimVars, userVars, phase,
                   feed, todo, exact, left, drops, pick, cur, ready,
                   refreshVars, budgetVars, shown, renewed>>

\* Every search was processed: dropStaleListings begins.
SweepStart ==
    /\ phase = "match" /\ phase' = "sweep" /\ todo' = Searches
    /\ left = {} /\ pick = NoPicks /\ give = {} /\ drops' = {}
    /\ UNCHANGED <<serverFetch, market, rowVars, claimVars, userVars, feed,
                   exact, left, pick, cur, ready, give, refreshVars,
                   budgetVars, histVars>>

\* The sweep is done with s, and with the feeds no other search needs.
Swept(s) ==
    LET needed == {KeyOf[z] : z \in todo \ {s}} \cap DOMAIN feed IN
    /\ todo' = todo \ {s}
    /\ feed' = [k \in needed |-> feed[k]]
    /\ exact' = exact \cap needed

\* dropStaleListings, one search: its rows that its feed does not hold.  A
\* search whose fetch failed is passed over.
Sweep(s) ==
    /\ phase = "sweep" /\ s \in todo /\ Swept(s)
    /\ IF KeyOf[s] \notin DOMAIN feed THEN UNCHANGED <<rowVars, excused>>
       ELSE LET stale == Stale(s, feed[KeyOf[s]]) IN
            /\ Retire(stale)
            /\ excused' = excused \cup
                  {p \in Deleted(stale) : \/ KeyOf[s] \notin exact
                                 \/ p[2] \notin Serves[KeyOf[s]]
                                 \/ p[2] \in market \ feed[KeyOf[s]]}
    /\ UNCHANGED <<serverFetch, market, claimVars, userVars, phase, saveVars,
                   refreshVars, budgetVars, shown, renewed>>

\* DeleteStaleListings fails: logged, the next search is tried.
SweepFails(s) ==
    /\ phase = "sweep" /\ s \in todo /\ Swept(s)
    /\ UNCHANGED <<serverFetch, market, rowVars, claimVars, userVars, phase,
                   saveVars, refreshVars, budgetVars, histVars>>

CycleDone ==
    /\ phase = "sweep" /\ todo = {} /\ phase' = "idle"
    /\ UNCHANGED <<serverFetch, market, rowVars, claimVars, userVars, feed,
                   todo, exact, saveVars, refreshVars, budgetVars, histVars>>

\* The cycle has chosen the listing, or is about to release a claim of it.
UnderWay(p) == \/ pick[p] # NoSearch
               \/ \E s \in Of(p[1]) : <<s, p[2]>> \in give

\* The process dies in mid-cycle: what was committed stays, the claims of
\* listings under way among it.
CycleCrash ==
    /\ phase # "idle" /\ phase' = "idle" /\ todo' = {}
    /\ feed' = NoFeeds /\ exact' = {} /\ left' = {} /\ drops' = {}
    /\ pick' = NoPicks /\ cur' = NoSearch /\ ready' = {} /\ give' = {}
    /\ excused' = excused \cup {p \in Pairs : /\ UnderWay(p) /\ ~HasRow(p)
                                               /\ ClaimedByAll(p)}
    /\ UNCHANGED <<serverFetch, market, rowVars, claimVars, userVars, refreshVars,
                   budgetVars, shown, renewed>>

-----------------------------------------------------------------------------
(* The extension's pushes *)

\* ingestListings: for each search, in order, the listings it accepts are
\* saved, new or not, and then claimed; a search whose rows cannot be saved
\* is skipped.
Ingest(c, pushed, failed) ==
    LET hit == {s \in Of(c) \ failed : pushed \cap Wants[s] # {}}
        got == {t \in pushed : \E s \in hit : t \in Wants[s]}
        last(t) == CHOOSE s \in hit :
                      /\ t \in Wants[s]
                      /\ \A z \in hit : t \in Wants[z] => Order[z] <= Order[s]
    IN /\ SaveListings([p \in {c} \X got |-> last(p[2])])
       /\ ClaimNew({m \in hit \X pushed : m[2] \in Wants[m[1]]})
       /\ shown' = shown \cup ({c} \X got)
       /\ renewed' = renewed \cup {m \in hit \X pushed : m[2] \in Wants[m[1]]}
       /\ excused' = excused \ ({c} \X got)
       /\ UNCHANGED <<serverFetch, market, userVars, cycleVars, refreshVars, budgetVars>>

\* (mutant) the counter is charged but not consulted.
TakeUnchecked(c, want) == want

\* take: how many removals the chat's daily budget still allows.
Take(c, want) == IF want <= RemovalBudget - used[c]
                 THEN want ELSE RemovalBudget - used[c]

\* The removal part of the same handler: the tokens the daily budget lets
\* through are retired for this chat only.
IngestRemoved(c, tokens) ==
    LET allowed == Take(c, Cardinality(tokens)) IN
    \E part \in {T \in SUBSET tokens : Cardinality(T) = allowed} :
       /\ used' = [used EXCEPT ![c] = @ + allowed]
       /\ retired' = [retired EXCEPT ![c] =
                        @ + Cardinality({t \in part : HasRow(<<c, t>>)})]
       /\ Retire({c} \X part)
       /\ excused' = excused \cup Deleted({c} \X part)
       /\ UNCHANGED <<serverFetch, market, claimVars, userVars, cycleVars, refreshVars,
                      shown, renewed>>

\* Midnight UTC, when the first take of the day clears the counters, or a
\* restart, for they are in memory only.
BudgetReset ==
    /\ \E c \in Chats : used[c] > 0
    /\ used' = [c \in Chats |-> 0] /\ retired' = [c \in Chats |-> 0]
    /\ UNCHANGED <<serverFetch, market, rowVars, claimVars, userVars,
                   cycleVars, refreshVars, histVars>>

-----------------------------------------------------------------------------
(* The user *)

\* refreshListings: fetch (complete or cached; an incomplete answer is an
\* error here), filter, then two transactions: drop what is not in the
\* answer, save the answer.
RefreshDelete(s, answer) ==
    /\ rpc = "idle" /\ rpc' = "save" /\ rsearch' = s
    /\ answer \subseteq Wants[s] \cap Serves[KeyOf[s]] /\ fresh' = answer
    /\ Retire(Stale(s, answer))
    /\ excused' = excused \cup Deleted(Stale(s, answer))
    /\ UNCHANGED <<serverFetch, market, claimVars, userVars, cycleVars,
                   budgetVars, shown, renewed>>

RefreshSave ==
    /\ rpc = "save" /\ rpc' = "idle" /\ fresh' = {} /\ rsearch' = NoSearch
    /\ SaveListings([p \in {ChatOf[rsearch]} \X fresh |-> rsearch])
    /\ excused' = excused \ ({ChatOf[rsearch]} \X fresh)
    /\ UNCHANGED <<serverFetch, market, claimVars, userVars, cycleVars,
                   budgetVars, shown, renewed>>

RefreshFails ==
    /\ rpc # "idle" /\ rpc' = "idle" /\ fresh' = {} /\ rsearch' = NoSearch
    /\ UNCHANGED <<serverFetch, market, rowVars, claimVars, userVars, cycleVars,
                   budgetVars, histVars>>

\* saveListing, unsaveListing, hideListing, unhideListing.  A listing need
\* have no row; the caps (500 and 1000) are far beyond the instances.
SaveBookmark(p) == saved' = saved \cup {p} /\ UNCHANGED hidden
RemoveBookmark(p) == saved' = saved \ {p} /\ UNCHANGED hidden
HideListing(p) == hidden' = hidden \cup {p} /\ UNCHANGED saved
UnhideListing(p) == hidden' = hidden \ {p} /\ UNCHANGED saved

User(p) ==
    /\ SaveBookmark(p) \/ RemoveBookmark(p) \/ HideListing(p) \/ UnhideListing(p)
    /\ UNCHANGED <<serverFetch, market, rowVars, claimVars, cycleVars,
                   refreshVars, budgetVars, histVars>>

-----------------------------------------------------------------------------
(* Retention and the enricher *)

RowsAge ==
    /\ rowOld' = {p \in Pairs : HasRow(p)} /\ shown' = {}
    /\ UNCHANGED <<serverFetch, market, row, removed, claimVars, userVars, cycleVars,
                   refreshVars, budgetVars, renewed, excused>>

ClaimsAge ==
    /\ claimOld' = claims /\ renewed' = {}
    /\ UNCHANGED <<serverFetch, market, rowVars, claims, userVars, cycleVars, refreshVars,
                   budgetVars, shown, excused>>

\* Dedup.Prune, by the last time a claim was renewed.
PruneClaims ==
    /\ phase = "idle" /\ claimOld # {}
    /\ claims' = claims \ claimOld /\ claimOld' = {}
    /\ UNCHANGED <<serverFetch, market, rowVars, userVars, cycleVars, refreshVars,
                   budgetVars, histVars>>

\* PruneListings, by the last time a row was saved; bookmarks are exempt.
PruneListings ==
    /\ phase = "idle" /\ rowOld \ saved # {}
    /\ row' = [p \in Pairs |->
                 IF p \in rowOld \ saved THEN NoSearch ELSE row[p]]
    /\ removed' = removed \ (rowOld \ saved)
    /\ rowOld' = rowOld \cap saved
    /\ excused' = excused \cup Deleted(rowOld)
    /\ UNCHANGED <<serverFetch, market, claimVars, userVars, cycleVars, refreshVars,
                   budgetVars, shown, renewed>>

\* DropListingByToken: the item page answered 404 or 410.
DropListing(t) ==
    /\ Retire(Chats \X {t})
    /\ excused' = excused \cup Deleted(Chats \X {t})
    /\ UNCHANGED <<serverFetch, market, claimVars, userVars, cycleVars, refreshVars,
                   budgetVars, shown, renewed>>

-----------------------------------------------------------------------------
Match == \/ \E f \in Feeds :
               \E D \in SUBSET {m[2] : m \in Matches(f)} : CycleStart(f, D)
         \/ \E m \in SearchPairs :
               ClaimMatch(m) \/ ClaimFails(m) \/ Release(m) \/ ReleaseFails(m)
         \/ \E p \in Pairs : SaveDrop(p) \/ DropFails(p)
         \/ \E s \in Searches, T \in SUBSET Tokens : Process(s, T)
         \/ \E T \in SUBSET Tokens : SaveSearch(T)
         \/ SaveFails

Cycle == Match \/ SweepStart \/ CycleDone \/ \E s \in Searches : Sweep(s)

StoreNext ==
    \/ Cycle \/ CycleCrash \/ BudgetReset
    \/ RefreshSave \/ RefreshFails
    \/ RowsAge \/ ClaimsAge \/ PruneClaims \/ PruneListings
    \/ \E s \in Searches : SweepFails(s)
    \/ \E t \in Tokens : Post(t) \/ Withdraw(t) \/ DropListing(t)
    \/ \E s \in Searches, T \in SUBSET Tokens : RefreshDelete(s, T)
    \/ \E p \in Pairs : User(p)
    \/ /\ ~serverFetch
       /\ \E c \in Chats, T \in SUBSET Tokens \ {{}} :
             \/ \E failed \in SUBSET Of(c) : Ingest(c, T, failed)
             \/ IngestRemoved(c, T)

StoreSpec == StoreInit /\ [][StoreNext]_storeVars

\* The extension re-pushes everything it still finds, cycle after cycle.
FairStoreSpec == StoreSpec /\ \A c \in Chats :
                WF_storeVars(~serverFetch /\ market # {} /\ Ingest(c, market, {}))

-----------------------------------------------------------------------------
\* A live listing that every interested search of a chat has claimed will
\* not be saved again by a cycle (match.go:142).  So it has a row, or a cycle
\* is about to save it or to release a claim of it, or the row is missing for
\* a known cause: a push or a 404 retired it, the ad was withdrawn, retention,
\* a refresh, a sweep against a feed that was incomplete, cached or another
\* search's, the unsaved row of a price drop, a claim whose answer was lost, a
\* release that failed (processing.go:115), or a crash between claim and save.
VisibleOrExcused ==
    \A p \in Pairs :
       /\ p[2] \in market /\ ~HasRow(p) /\ p \notin excused
       /\ \E s \in Of(p[1]) : p[2] \in Wants[s]
       => ~ClaimedByAll(p) \/ UnderWay(p)

\* A claim is pruned only if nobody served its listing to its search within
\* the retention time (dedup.go:49), or the user would be alerted again.
ClaimsOutliveFeed ==
    [][PruneClaims => (claims \ claims') \cap renewed = {}]_storeVars

\* The same of the rows of listings that the extension pushed, which saves
\* every match each time (listings.go:874).  A cycle saves new ones only, so
\* it says nothing of those.
PushedRowsOutliveFeed ==
    [][PruneListings =>
          \A p \in shown : HasRow(p) => row'[p] # NoSearch]_storeVars

\* Whoever retires, sweeps or prunes listings stops at two things.  The row of
\* a bookmarked one is kept (listings.go:551, 599, 881).  However rows come
\* back and are reported again, pushes retire at most the budget of a chat's
\* rows between two resets (removal_budget.go:33).
RemovalsHeld ==
    [][/\ \A p \in saved : HasRow(p) => row'[p] # NoSearch
       /\ \A c \in Chats : retired'[c] <= RemovalBudget]_storeVars

\* While the extension keeps pushing it, a live listing that the user's
\* searches accept has its row again and again, whatever removed it.
ServedShown ==
    \A p \in Pairs :
       (\E s \in Of(p[1]) : p[2] \in Wants[s]) =>
          (<>[](~serverFetch /\ p[2] \in market)
              => []<>(HasRow(p) /\ p \notin removed))

\* What keeps being served is kept: its claim, its row while it is pushed, and
\* its place among the user's listings.
ServedKept == ClaimsOutliveFeed /\ PushedRowsOutliveFeed /\ ServedShown
=============================================================================
