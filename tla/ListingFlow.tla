---------------------------- MODULE ListingFlow ----------------------------
(***************************************************************************)
(* A listing on its way from the source to the user, for one search: the   *)
(* server's cycle, the extension's push and a guest's instant search each  *)
(* take it through matching, completion from what is already known,        *)
(* scoring and storing, in an order of their own.  The source may leave    *)
(* fields out of a feed.  What other requests do meanwhile is the subject  *)
(* of ListingStore and IngestDelivery; each path is one step here.  As     *)
(* there is one search, a row carries no search_id: an upsert for an       *)
(* overlapping search would overwrite it and move the row to that search's *)
(* list.                                                                   *)
(***************************************************************************)
EXTENDS ListingMatch, MarketScore

CONSTANTS Tokens,
          Searches,     \* the searches considered
          Feeds,        \* token -> listing: what the source may hold
          Reprices,     \* listings a car may be relisted as
          Omits,        \* sets of fields a feed may leave out
          Links,        \* URLs a push may carry, for page and picture
          Spellings,    \* how a push may spell a token
          Cohorts,      \* contents of market_medians: year -> cohort
          BasePrice,    \* answer of the price list per year, 0 for none
          Prices,       \* prices a listing's own price is compared with
          MaxResults,   \* instantSearchMaxResults (30)
          MaxSteps,     \* bound: steps taken
          NoRow, NoDeal

\* Numbers are numbers, the price list has an answer for each year of the
\* listings, a listing has one token and prices are positive.
ASSUME FlowConstants ==
    /\ IsFiniteSet(Tokens) /\ \A s \in Searches : IsSearch(s)
    /\ \A f \in Feeds : \A t \in Tokens : IsListing(f[t])
    /\ \A l \in Reprices : IsListing(l)
    /\ \A f \in Feeds : DOMAIN f = Tokens
    /\ \A c \in Cohorts : /\ IsFiniteSet(DOMAIN c)
                         /\ \A y \in DOMAIN c : IsCohort(c[y])
    /\ DOMAIN BasePrice \subseteq Int /\ \A y \in DOMAIN BasePrice : BasePrice[y] \in Int
    /\ \A f \in Feeds : \A t \in Tokens : f[t].year \in DOMAIN BasePrice
    /\ \A l \in Reprices : l.year \in DOMAIN BasePrice
    /\ Prices \subseteq Nat \ {0}

VARIABLES search, source, cohorts,
          row,          \* listing_history of the chat
          claims,       \* seen_listings of the search
          alerts,       \* what the last step alerted: [path, l, sent]
          stats,        \* search_cycle_stats of the last cycle
          page,         \* answer of the last instant search, best first
          steps

flowVars == <<search, source, cohorts, row, claims, alerts, stats, page, steps>>

NoStats == [fetched |-> 0, matched |-> 0, rejections |-> <<>>]

(* A row is a listing with what the server knows of it. *)
NewRow(l, fitness, deal) ==
    [x \in DOMAIN l \cup {"removed", "fitness", "deal"} |->
        CASE x = "removed" -> FALSE [] x = "fitness" -> fitness [] x = "deal" -> deal
          [] OTHER -> l[x]]

(* The chat may hold rows from before the search was changed, or whose      *)
(* claims were pruned.                                                     *)
FlowInit ==
    /\ search \in Searches /\ source \in Feeds /\ cohorts \in Cohorts
    /\ row \in { [t \in Tokens |-> NoRow],
                 [t \in Tokens |-> NewRow(source[t], 0, NoDeal)] }
    /\ claims = {} /\ alerts = {} /\ stats = NoStats /\ page = <<>> /\ steps = 0

Partial(l, omitted) ==
    [l EXCEPT !.km = IF "km" \in omitted THEN 0 ELSE @,
              !.price = IF "price" \in omitted THEN 0 ELSE @,
              !.image = @ /\ "image" \notin omitted]

(* prefillFromDB, of the cycle and of the pipeline. *)
Prefilled(l, r) ==
    IF r = NoRow THEN l
    ELSE [l EXCEPT !.km = IF @ <= 0 THEN r.km ELSE @, !.image = @ \/ r.image]

(* ListingPipeline.scoreAndEnrich: the deal score needs a market, the      *)
(* fitness score takes what there is.                                      *)
FitnessParams(l, market, base) ==
    [price |-> l.price, km |-> l.km, hand |-> l.hand, year |-> l.year,
     engine |-> l.engine, commercial |-> l.commercial = "yes", origin |-> l.origin,
     priceMax |-> search.priceMax, engineMinCC |-> search.engineMinCC,
     medianPrice |-> market.median, medianKm |-> market.medianKm, basePrice |-> base]

Market(cache, l) == IF l.price > 0 THEN LookupPrecomputed(cache, l.year) ELSE NoMarket

DealOf(l, market) ==
    IF ~market.ok THEN NoDeal
    ELSE [score |-> ScoreWithKm(l.price, l.km, market.median, market.medianKm),
          median |-> market.median]

BuildRecord(l, market) ==
    [l |-> l,
     fitness |-> FitnessScoreDetailed(FitnessParams(l, market, BasePrice[l.year])).total,
     deal |-> DealOf(l, market), suspicious |-> DetectSuspicious(l, market.median)]

(* upsertListingSQL: what is missing in the new record keeps its old value. *)
Kept(new, old) == IF new > 0 THEN new ELSE old
Upsert(old, rec) ==
    LET l == rec.l
    IN  IF old = NoRow THEN NewRow(l, rec.fitness, rec.deal)
        ELSE [old EXCEPT !.price = Kept(l.price, @), !.km = Kept(l.km, @),
                         !.hand = Kept(l.hand, @), !.year = Kept(l.year, @),
                         !.engine = Kept(l.engine, @),
                         !.gearBox = IF l.gearBox = NoText THEN @ ELSE l.gearBox,
                         !.commercial = IF l.commercial = "nil" THEN @ ELSE l.commercial,
                         !.image = l.image \/ @, !.link = l.link \/ @,
                         !.removed = FALSE, !.fitness = rec.fitness,
                         !.deal = IF rec.deal = NoDeal THEN @ ELSE rec.deal]

Save(recs) ==
    row' = [t \in Tokens |-> IF t \in DOMAIN recs THEN Upsert(row[t], recs[t]) ELSE row[t]]

Step == steps < MaxSteps /\ steps' = steps + 1
Counts(ls, s) ==
    LET tally == CountRejections(ls, s)
    IN  [fetched |-> Cardinality(DOMAIN ls),
         matched |-> Cardinality({t \in DOMAIN ls : MatchesSearch(ls[t], s)}),
         rejections |-> tally]

(* Scheduler.processAndDeliverPerSearch: a listing of unknown or too high  *)
(* mileage is saved, not alerted, and gives its claim back; an incomplete  *)
(* one posted within the grace period keeps its claim and is not alerted.  *)
DeliverableUnknown(l) == search.maxKm > 0 => l.km <= search.maxKm
Deliverable(l) == search.maxKm > 0 => l.km > 0 /\ l.km <= search.maxKm

(* Scheduler.fetchAndMatch for this search. *)
Cycle ==
    /\ Step
    /\ \E omitted \in Omits, young \in {{}, Tokens} :
          LET raw == [t \in Tokens |-> Prefilled(Partial(source[t], omitted), row[t])]
              cache == NewMarketCacheFromMedians(cohorts)
              new == {t \in Tokens : MatchesSearch(raw[t], search)} \ claims
              recs == [t \in new |-> BuildRecord(raw[t], Market(cache, raw[t]))]
              fit == {t \in new : Deliverable(raw[t])}
              told == fit \ {t \in young : raw[t].km <= 0 \/ ~raw[t].image}
          IN  /\ claims' = claims \cup fit
              /\ Save(recs)
              /\ alerts' = {[path |-> "cycle", token |-> t, l |-> raw[t], sent |-> raw[t]] :
                                t \in told}
              /\ stats' = Counts(raw, search)
    /\ UNCHANGED <<search, source, cohorts, page>>

(* Server.ingestListings for this search; a search that names neither a    *)
(* manufacturer nor a model takes no part.                                 *)
PushListings ==
    /\ Step
    /\ search.manufacturer > 0 \/ search.model > 0
    /\ \E omitted \in Omits, link, picture \in Links, spelled \in Spellings :
          LET raw == [t \in Tokens |->
                         SanitizeIngestListing(Partial(source[t], omitted), link, picture)]
              kept == {t \in Tokens : /\ ValidIngestToken(spelled)
                                      /\ Matches(FilterCriteriaFromSearch(search), raw[t])}
              full == [t \in kept |-> Prefilled(raw[t], row[t])]
              recs == [t \in kept |-> BuildRecord(full[t], NoMarket)]
          IN  /\ claims' = claims \cup kept
              /\ Save(recs)
              /\ alerts' = {[path |-> "push", token |-> t, l |-> full[t], sent |-> raw[t]] :
                                t \in kept \ claims}
    /\ UNCHANGED <<search, source, cohorts, stats, page>>

(* Server.instantSearch: the criteria of the request, a market of what it  *)
(* found, the best results first.                                          *)
InstantCriteria ==
    [FilterCriteriaFromSearch(search) EXCEPT
        !.manufacturerID = 0, !.sellerFilter = NoText, !.keywords = {}, !.excludeKeys = {}]

InstantScore(t, found) ==
    LET entries == SelectSeq(SetToSeq(found), LAMBDA u : source[u].price > 0)
        market == ComputeFromRaw([i \in DOMAIN entries |-> source[entries[i]]], source[t].year)
    IN  FitnessScoreDetailed(FitnessParams(source[t], market, 0)).total

InstantSearch ==
    /\ Step
    /\ search.manufacturer > 0
    /\ LET found == {t \in Tokens : Matches(InstantCriteria, source[t])}
           ranked == SortSeq(SetToSeq(found), LAMBDA t, u : InstantScore(t, found) > InstantScore(u, found))
       IN  page' = SubSeq(ranked, 1, Clamp(Len(ranked), 0, MaxResults))
    /\ UNCHANGED <<search, source, cohorts, row, claims, alerts, stats>>

(* The enricher learns a mileage; a bookmarked car is sold; one is         *)
(* relisted.                                                               *)
Learn ==
    /\ Step
    /\ \E t \in Tokens : /\ row[t] # NoRow /\ row[t].km = 0
                         /\ row' = [row EXCEPT ![t].km = source[t].km]
    /\ alerts' = {}
    /\ UNCHANGED <<search, source, cohorts, claims, stats, page>>

Relist ==
    /\ Step
    /\ \E t \in Tokens, l \in Reprices :
          l # source[t] /\ source' = [source EXCEPT ![t] = l]
    /\ alerts' = {}
    /\ UNCHANGED <<search, cohorts, row, claims, stats, page>>

Sold ==
    /\ Step
    /\ \E t \in Tokens : row[t] # NoRow /\ row' = [row EXCEPT ![t].removed = TRUE]
    /\ alerts' = {}
    /\ UNCHANGED <<search, source, cohorts, claims, stats, page>>

(* Server.listSearches: the counter and the statistics shown on the search. *)
Dashboard ==
    LET held == Restrict(row, {t \in Tokens : row[t] # NoRow})
    IN  [listingsCount |-> Cardinality({t \in DOMAIN held :
                                          CountSearchListingsForChat(held[t], search)}),
         stats |-> SearchStats(held, ListingFilterFromSearch(search))]

FlowNext == Cycle \/ PushListings \/ InstantSearch \/ Learn \/ Sold \/ Relist
FlowSpec == FlowInit /\ [][FlowNext]_flowVars
-----------------------------------------------------------------------------
(* The percolator, its account of rejections and the filter of pushes and  *)
(* refreshes give the same verdict on every listing, and the statistics of *)
(* a cycle account for every listing it fetched exactly once.              *)
OneVerdict ==
    /\ \A t \in Tokens :
          LET accepted == MatchesSearch(source[t], search)
          IN  /\ accepted <=> Matches(FilterCriteriaFromSearch(search), source[t])
              /\ accepted <=> ClassifyRejection(source[t], search) = NoText
    /\ stats.fetched = stats.matched + SumFunction(stats.rejections)

(* What a user is alerted to satisfies the search on the data alerted, and *)
(* the server's cycle never alerts a mileage it does not know to be within *)
(* the cap.  A push is judged before the mileage it left out is filled in, *)
(* so only there a known mileage above the cap can slip through.           *)
AlertHonoursSearch ==
    \A a \in alerts :
        /\ a.path = "cycle" =>
              MatchesSearch(a.l, search) /\ (search.maxKm > 0 => a.l.km \in 1..search.maxKm)
        /\ a.path = "push" =>
              \/ MatchesSearch(a.l, search)
              \/ a.sent.km <= 0 /\ MatchesSearch([a.l EXCEPT !.km = 0], search)

(* Of the fields a list filters by, the row knows none that l left out. *)
NothingOlder(l, r) ==
    /\ \A x \in {"price", "km", "hand", "year"} : l[x] > 0 \/ r[x] = 0
    /\ l.gearBox # NoText \/ r.gearBox = NoText

(* The counter on a search equals the number of rows behind it, and what   *)
(* was alerted is among them, unless the row already knew a field that was *)
(* missing from the alert, and keeps it.  (A row of unknown seller counts  *)
(* as private there, so an alert for a dealers-only search may be missing  *)
(* from its list; hence the seller must be known.)                         *)
AlertIsListed ==
    /\ Dashboard.listingsCount = Dashboard.stats.total
    /\ \A a \in alerts :
          (/\ NothingOlder(a.l, row[a.token]) /\ a.l.commercial # "nil"
           /\ MatchesSearch(a.l, search))
             => BuildFilterClauses(ListingFilterFromSearch(search), row[a.token])

(* A listing that is alerted would have been scored no worse at a lower    *)
(* price, whether it is judged by a market, by the price list or by the    *)
(* budget alone, and whatever its mileage, owners and age are.             *)
CheaperNeverWorse ==
    \A a \in alerts : \A listed \in {0, BasePrice[a.l.year]} :
        LET l == a.l
            market == Market(NewMarketCacheFromMedians(cohorts), l)
            Fitness(m, p) ==
                FitnessScoreDetailed(FitnessParams([l EXCEPT !.price = p], m, listed)).total
            Deal(p) == ScoreWithKm(p, l.km, market.median, market.medianKm)
        IN  \A p \in {q \in Prices : q < l.price} :
                /\ \A m \in {market, NoMarket} : Fitness(m, p) >= Fitness(m, l.price)
                /\ Deal(p) >= Deal(l.price)

\* Go and SQL transcribe the same match: the percolator, the filter, and the
\* list a search's alerts are later looked up in.
MatchersAgree == OneVerdict /\ AlertIsListed
=============================================================================
