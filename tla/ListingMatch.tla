---------------------------- MODULE ListingMatch ----------------------------
(***************************************************************************)
(* When a listing belongs to a search.  The code answers the question in   *)
(* five places, each with its own text: the percolator (server cycle), its *)
(* account of rejections, the filter of pushes, refreshes and instant      *)
(* searches, and two SQL texts, for the list of a search and for the       *)
(* counter shown on it.  They are transcribed one by one; the properties   *)
(* of ListingFlow compare them.                                            *)
(*                                                                         *)
(* 0 and NoText stand for an unset bound and for a field the source left   *)
(* out.  engine counts half cubic centimetres, so that a fraction can be   *)
(* told from a whole number.  Texts that are compared without case are     *)
(* their lower case; the words of the description that some search names   *)
(* are a set.                                                              *)
(***************************************************************************)
EXTENDS Integers, FiniteSets, SequencesExt

CONSTANTS NoText,       \* ""
          ListingHosts, \* allowedListingHosts, hosts as sequences of labels
          ImageHosts,   \* allowedImageHosts
          MaxURL        \* maxURLLen

\* The code compares with these; they are not the empty text.
ASSUME MatchConstants ==
    NoText \notin {"any", "private", "commercial", "dealer", "dealership", "wrong_model",
                  "year_out", "price_out", "km_over", "hand_over", "engine_cc", "seller",
                  "other_filter"}

(* What a listing and a search are records of. *)
IsListing(l) ==
    /\ {"manufacturer", "model", "year", "price", "km", "hand", "engine", "gearBox",
        "commercial", "image", "link", "words", "origin"} \subseteq DOMAIN l
    /\ {l.manufacturer, l.model, l.year, l.price, l.km, l.hand, l.engine} \subseteq Int
    /\ l.commercial \in {"nil", "no", "yes"} /\ {l.image, l.link} \subseteq BOOLEAN

IsSearch(s) ==
    /\ {s.manufacturer, s.model, s.yearMin, s.yearMax, s.priceMin, s.priceMax, s.maxKm,
        s.maxHand, s.engineMinCC} \subseteq Int
    /\ {s.priceOnly, s.photoOnly} \subseteq BOOLEAN

-----------------------------------------------------------------------------
(* Bounds. *)
AtLeast(v, bound) == bound > 0 => v >= bound
AtMost(v, bound) == bound > 0 => v <= bound

(* percolator.matchesSearch *)
SellerAccepts(filter, commercial) ==
    commercial # "nil" =>
        /\ filter = "private" => commercial = "no"
        /\ filter \in {"commercial", "dealer", "dealership"} => commercial = "yes"

(* As MatchesSearch with the engine rounded up, not cut off. *)
MatchesRounding(l, s) ==
    /\ s.manufacturer > 0 => l.manufacturer = s.manufacturer
    /\ s.model > 0 => l.model = s.model
    /\ AtLeast(l.year, s.yearMin) /\ AtMost(l.year, s.yearMax)
    /\ l.price > 0 => AtLeast(l.price, s.priceMin)
    /\ AtMost(l.price, s.priceMax)
    /\ l.km > 0 => AtMost(l.km, s.maxKm)
    /\ AtMost(l.hand, s.maxHand)
    /\ AtLeast((l.engine + 1) \div 2, s.engineMinCC)
    /\ NoText \in {s.gearBox, l.gearBox} \/ s.gearBox = l.gearBox
    /\ SellerAccepts(s.seller, l.commercial)
    /\ s.priceOnly => l.price > 0
    /\ s.photoOnly => l.image
    /\ s.keywords \subseteq l.words
    /\ s.excludeKeys \cap l.words = {}

MatchesSearch(l, s) ==
    /\ s.manufacturer > 0 => l.manufacturer = s.manufacturer
    /\ s.model > 0 => l.model = s.model
    /\ AtLeast(l.year, s.yearMin) /\ AtMost(l.year, s.yearMax)
    /\ l.price > 0 => AtLeast(l.price, s.priceMin)
    /\ AtMost(l.price, s.priceMax)
    /\ l.km > 0 => AtMost(l.km, s.maxKm)
    /\ AtMost(l.hand, s.maxHand)
    /\ AtLeast(l.engine \div 2, s.engineMinCC)
    /\ NoText \in {s.gearBox, l.gearBox} \/ s.gearBox = l.gearBox
    /\ SellerAccepts(s.seller, l.commercial)
    /\ s.priceOnly => l.price > 0
    /\ s.photoOnly => l.image
    /\ s.keywords \subseteq l.words
    /\ s.excludeKeys \cap l.words = {}

(* percolator.classifyRejection: the checks in the order of the code, each *)
(* with the reason it gives, true when the listing fails it.               *)
Rejections(l, s) ==
    << <<"wrong_model", s.manufacturer > 0 /\ l.manufacturer # s.manufacturer>>,
       <<"wrong_model", s.model > 0 /\ l.model # s.model>>,
       <<"year_out", s.yearMin > 0 /\ l.year < s.yearMin>>,
       <<"year_out", s.yearMax > 0 /\ l.year > s.yearMax>>,
       <<"price_out", s.priceMin > 0 /\ l.price > 0 /\ l.price < s.priceMin>>,
       <<"price_out", s.priceMax > 0 /\ l.price > s.priceMax>>,
       <<"km_over", s.maxKm > 0 /\ l.km > 0 /\ l.km > s.maxKm>>,
       <<"hand_over", s.maxHand > 0 /\ l.hand > s.maxHand>>,
       <<"engine_cc", s.engineMinCC > 0 /\ l.engine \div 2 < s.engineMinCC>>,
       <<"other_filter", NoText \notin {s.gearBox, l.gearBox}
                            /\ s.gearBox # l.gearBox>>,
       <<"seller", s.seller = "private" /\ l.commercial = "yes">>,
       <<"seller", s.seller \in {"commercial", "dealer", "dealership"}
                      /\ l.commercial = "no">>,
       <<"other_filter", s.priceOnly /\ l.price <= 0>>,
       <<"other_filter", s.photoOnly /\ ~l.image>>,
       <<"other_filter", \E w \in s.keywords : w \notin l.words>>,
       <<"other_filter", \E w \in s.excludeKeys : w \in l.words>> >>

ClassifyRejection(l, s) ==
    LET checks == Rejections(l, s)
        failed == {i \in DOMAIN checks : checks[i][2]}
    IN  IF failed = {} THEN NoText ELSE checks[Min(failed)][1]

(* percolator.CountRejections for one search; ls names the listings by token. *)
CountRejections(ls, s) ==
    [r \in {ClassifyRejection(ls[t], s) : t \in DOMAIN ls} \ {NoText} |->
        Cardinality({t \in DOMAIN ls : ClassifyRejection(ls[t], s) = r})]

(* filter.Apply: the criteria of a saved search, and the test itself.      *)
FilterCriteriaFromSearch(s) ==
    [manufacturerID |-> s.manufacturer, modelID |-> s.model,
     year |-> <<s.yearMin, s.yearMax>>, price |-> <<s.priceMin, s.priceMax>>,
     engine |-> <<2 * s.engineMinCC, 0>>, maxKm |-> s.maxKm, maxHand |-> s.maxHand,
     keywords |-> s.keywords, excludeKeys |-> s.excludeKeys, gearBox |-> s.gearBox,
     sellerFilter |-> s.seller, priceOnly |-> s.priceOnly, photoOnly |-> s.photoOnly]

Matches(c, l) ==
    /\ c.manufacturerID > 0 => l.manufacturer = c.manufacturerID
    /\ c.modelID > 0 => l.model = c.modelID
    /\ ~(c.price[1] > 0 /\ l.price > 0 /\ l.price < c.price[1])
    /\ ~(c.price[2] > 0 /\ l.price > c.price[2])
    /\ ~(c.year[1] > 0 /\ l.year < c.year[1])
    /\ ~(c.year[2] > 0 /\ l.year > c.year[2])
    /\ ~(c.engine[1] > 0 /\ l.engine < c.engine[1])
    /\ ~(c.engine[2] > 0 /\ l.engine > c.engine[2])
    /\ ~(c.maxKm > 0 /\ l.km > 0 /\ l.km > c.maxKm)
    /\ ~(c.maxHand > 0 /\ l.hand > c.maxHand)
    /\ c.priceOnly => l.price > 0
    /\ c.photoOnly => l.image
    /\ c.gearBox = NoText \/ l.gearBox = NoText \/ l.gearBox = c.gearBox
    /\ \/ c.sellerFilter \in {NoText, "any"}
       \/ l.commercial = "nil"
       \/ /\ ~(c.sellerFilter = "private" /\ l.commercial = "yes")
          /\ ~(/\ c.sellerFilter \in {"commercial", "dealer", "dealership"}
               /\ l.commercial = "no")
    /\ \A kw \in c.keywords : kw \in l.words
    /\ \A ex \in c.excludeKeys : ex \notin l.words

Apply(c, ls) == {l \in ls : Matches(c, l)}

(* storage.NormalizeSellerFilter and api.listingFilterFromSearch. *)
NormalizeSellerFilter(f) ==
    CASE f = "private" -> "private"
      [] f \in {"commercial", "dealer", "dealership"} -> "commercial"
      [] OTHER -> "any"

ListingFilterFromSearch(s) ==
    [price |-> <<s.priceMin, s.priceMax>>, year |-> <<s.yearMin, s.yearMax>>,
     maxKm |-> s.maxKm, maxHand |-> s.maxHand, gearBox |-> s.gearBox,
     priceOnly |-> s.priceOnly, photoOnly |-> s.photoOnly,
     commercial |-> CASE NormalizeSellerFilter(s.seller) = "private" -> "no"
                      [] NormalizeSellerFilter(s.seller) = "commercial" -> "yes"
                      [] OTHER -> "nil"]

(* COALESCE(is_commercial, 0) *)
SqlCommercial(r) == IF r.commercial = "yes" THEN "yes" ELSE "no"

(* buildFilterClauses, with removed rows left out: the list of a search,   *)
(* its total and its statistics.                                           *)
BuildFilterClauses(f, r) ==
    /\ AtLeast(r.price, f.price[1]) \/ r.price = 0
    /\ AtMost(r.price, f.price[2])
    /\ AtLeast(r.year, f.year[1]) /\ AtMost(r.year, f.year[2])
    /\ AtMost(r.km, f.maxKm) \/ r.km = 0
    /\ AtMost(r.hand, f.maxHand)
    /\ f.commercial # "nil" => SqlCommercial(r) = f.commercial
    /\ f.gearBox # NoText => r.gearBox \in {NoText, f.gearBox}
    /\ f.priceOnly => r.price > 0
    /\ f.photoOnly => r.image
    /\ ~r.removed

(* countSearchListingsForChatSQL: the counter shown on a search. *)
CountSearchListingsForChat(r, s) ==
    /\ s.priceMin <= 0 \/ r.price >= s.priceMin \/ r.price = 0
    /\ s.priceMax <= 0 \/ r.price <= s.priceMax
    /\ s.yearMin <= 0 \/ r.year >= s.yearMin
    /\ s.yearMax <= 0 \/ r.year <= s.yearMax
    /\ s.maxKm <= 0 \/ r.km <= s.maxKm \/ r.km = 0
    /\ s.maxHand <= 0 \/ r.hand <= s.maxHand
    /\ CASE s.seller = "private" -> SqlCommercial(r) = "no"
         [] s.seller \in {"commercial", "dealer", "dealership"} -> SqlCommercial(r) = "yes"
         [] OTHER -> TRUE
    /\ s.gearBox = NoText \/ r.gearBox = NoText \/ r.gearBox = s.gearBox
    /\ s.priceOnly => r.price > 0
    /\ s.photoOnly => r.image
    /\ ~r.removed

(* The statistics of a search; r is a function from tokens to rows.  Rows   *)
(* without a price do not count for prices.                                *)
SearchStats(r, f) ==
    LET listed == {t \in DOMAIN r : BuildFilterClauses(f, r[t])}
        priced == {r[t].price : t \in {u \in listed : r[u].price > 0}}
    IN  [total |-> Cardinality(listed),
         minPrice |-> IF priced = {} THEN 0 ELSE Min(priced),
         maxPrice |-> IF priced = {} THEN 0 ELSE Max(priced)]

-----------------------------------------------------------------------------
(* What a push is reduced to before it is believed (ingest_validation.go).  *)
HostAllowed(host, allowed) == \E a \in allowed : IsSuffix(a, host)

SanitizeURL(u, allowed) ==
    u.scheme = "https" /\ u.length <= MaxURL /\ HostAllowed(u.host, allowed)

ValidIngestToken(t) == t.shape = "word" /\ t.length \in 1..64

(* A bad link or picture is blanked, a listing without a usable token goes. *)
SanitizeIngestListing(l, link, picture) ==
    [l EXCEPT !.link = l.link /\ SanitizeURL(link, ListingHosts),
              !.image = l.image /\ SanitizeURL(picture, ImageHosts)]
=============================================================================
