-------------------------- MODULE BotWizardProofs --------------------------
(***************************************************************************)
(* Theorems about BotWizard, for any number of goroutines, searches and    *)
(* answers: no wizard state without the answers of the states before it,   *)
(* one search per summary, saved as shown and within the limit.            *)
(***************************************************************************)
EXTENDS BotWizard, FiniteSetTheorems, WellFoundedInduction, TLAPS

\* Filters, wizard data, rows and goroutines have their fields.
IsFilters(f) ==
    /\ DOMAIN f = {"mfr", "mdl", "ymin", "ymax", "pmax", "pmin", "opt", "web"}
    /\ f.ymin \in Nat /\ f.ymax \in Nat /\ f.pmax \in Nat /\ f.pmin \in Nat
IsData(w) ==
    /\ DOMAIN w = {"src", "f", "edit", "at", "torn"}
    /\ IsFilters(w.f) /\ w.torn \in BOOLEAN
IsSession(s) == DOMAIN s = {"st", "wd"} /\ IsData(s.wd)
IsRow(x) == \/ x = NoRow
            \/ /\ DOMAIN x = {"live", "active", "f", "by", "torn"}
               /\ x.live = TRUE /\ x.active \in BOOLEAN /\ x.torn \in BOOLEAN

\* The answers of a session or of what is to be saved.
Good(st, w) == w.torn \/ Told(st, w.f)

\* Handlers that load the data, and those that insert a search.
Loading == {"toggle", "legacy", "done", "mfrSearch", "mdlSearch", "skipPmin", "skipKw",
            "skipEx", "restart", "cancelCb", "confirm", "text"} \cup Binary
Inserting == {"confirm", "quick", "copy", "apiCreate"}
Handlers == Loading \cup Inserting \cup {"watchCb", "watch", "cancel", "edit"}

\* What a goroutine is doing.
IsUp(q) ==
    /\ DOMAIN q = {"pc", "h", "a", "mu", "st", "wd", "out", "raced"}
    /\ q.pc \in {"idle", "wait", "open", "load", "save", "count", "create", "update", "reset"}
    /\ q.pc # "idle" => q.h \in Handlers
    /\ q.pc = "wait" => q.h \notin Unlocked
    /\ q.pc = "load" => q.h \in Loading /\ q.st \in States /\ q.st \in expectState(q.h)
    /\ q.pc = "count" => q.h \in Inserting \cup {"watch", "watchCb"}
    /\ q.pc = "create" => q.h \in Inserting
    /\ q.pc \in {"update", "reset"} => q.h = "confirm"
    /\ q.a \in Nat
    /\ q.pc = "save" => IsSession(q.out) /\ q.out.st \in States /\ Good(q.out.st, q.out.wd)
    /\ IsData(q.wd)
    /\ q.h = "confirm" /\ q.pc \in {"count", "create", "update", "reset"} => Good("confirm", q.wd)

WizardInv ==
    /\ IsSession(session) /\ session.st \in States /\ Good(session.st, session.wd)
    /\ DOMAIN rows = Ids
    /\ \A i \in Ids : /\ IsRow(rows[i])
                      /\ rows[i].live /\ rows[i].by = "wizard" => rows[i].torn \/ Told("confirm", rows[i].f)
                      /\ rows[i].live => IsFilters(rows[i].f)
    /\ DOMAIN up = Updates
    /\ \A p \in Updates : IsUp(up[p])

-----------------------------------------------------------------------------
(* Answers *)

\* The order in which the wizard asks.
LEMMA Ranks ==
    /\ Rank("idle") = 0 /\ Rank("ask_source") = 0
    /\ Rank("ask_manufacturer") = 1 /\ Rank("search_manufacturer") = 1
    /\ Rank("ask_model") = 2 /\ Rank("search_model") = 2
    /\ Rank("ask_year_min") = 3 /\ Rank("ask_year_max") = 4
    /\ Rank("ask_price_max") = 5 /\ Rank("ask_price_min") = 6
    /\ \A st \in {"ask_gear_box", "ask_engine", "ask_max_km", "ask_max_hand", "ask_keywords",
                  "ask_exclude_keys", "confirm"} : Rank(st) = 7
  BY DEF Rank

\* A set of numbers has a least element.
LEMMA LeastIn ==
    ASSUME NEW T \in SUBSET Nat, T # {}
    PROVE  Least(T) \in T /\ \A y \in T : Least(T) <= y
<1> DEFINE R == OpToRel(<, Nat)
<1>1. IsWellFoundedOn(R, Nat)
  BY NatLessThanWellFounded
<1>2. \A x, y \in Nat : y < x => <<y, x>> \in R
  BY DEF OpToRel
<1> HIDE DEF R
<1>3. PICK x \in T : \A y \in T : ~ (<<y, x>> \in R)
  BY <1>1, WFMin
<1>4. \A y \in T : ~(y < x)
  BY <1>2, <1>3
<1>5. \E z \in T : \A y \in T : z <= y
  BY <1>4
<1> QED
  BY <1>5 DEF Least

\* The search of a template has all answers.
LEMMA WholeGood == IsFilters(Whole) /\ Told("confirm", Whole) /\ Whole.ymin \in Years /\ Whole.pmax \in Prices
<1>1. Least(Years) \in Years /\ Least(Prices) \in Prices
  BY LeastIn, WizardConstants
<1>2. Least(Years) \in Nat /\ Least(Prices) \in Nat
  BY <1>1, WizardConstants
<1>3. /\ Whole.ymin = Least(Years) /\ Whole.ymax = Least(Years)
      /\ Whole.pmax = Least(Prices) /\ Whole.pmin = 0
      /\ DOMAIN Whole = {"mfr", "mdl", "ymin", "ymax", "pmax", "pmin", "opt", "web"}
  BY DEF Whole, NoFilters
<1> HIDE DEF Whole
<1> QED
  BY <1>1, <1>2, <1>3 DEF IsFilters, Told

\* Setting a field leaves the others alone.
LEMMA SetField ==
    ASSUME NEW w, IsData(w), NEW k \in DOMAIN w.f, NEW v,
           k \in {"ymin", "ymax", "pmax", "pmin"} => v \in Nat
    PROVE  /\ IsData(Set(w, k, v)) /\ Set(w, k, v).torn = w.torn
           /\ Set(w, k, v).f[k] = v
           /\ \A j \in DOMAIN w.f \ {k} : Set(w, k, v).f[j] = w.f[j]
           /\ DOMAIN Set(w, k, v).f = DOMAIN w.f
<1>1. /\ Set(w, k, v).f = [w.f EXCEPT ![k] = v] /\ Set(w, k, v).torn = w.torn
      /\ DOMAIN Set(w, k, v) = DOMAIN w
  BY DEF Set, IsData
<1> QED
  BY <1>1 DEF IsData, IsFilters

\* What is told does not depend on the other fields.
LEMMA SetOther ==
    ASSUME NEW w, IsData(w), NEW k \in {"mfr", "mdl", "opt"}, NEW v
    PROVE  /\ IsData(Set(w, k, v))
           /\ \A st \in States : Good(st, w) => Good(st, Set(w, k, v))
<1>1. k \in DOMAIN w.f /\ {"ymin", "ymax", "pmax", "pmin"} \subseteq DOMAIN w.f \ {k}
  BY DEF IsData, IsFilters
<1>2. /\ IsData(Set(w, k, v)) /\ Set(w, k, v).torn = w.torn
      /\ \A j \in DOMAIN w.f \ {k} : Set(w, k, v).f[j] = w.f[j]
  BY <1>1, SetField
<1>3. /\ Set(w, k, v).f.ymin = w.f.ymin /\ Set(w, k, v).f.ymax = w.f.ymax
      /\ Set(w, k, v).f.pmax = w.f.pmax /\ Set(w, k, v).f.pmin = w.f.pmin
  BY <1>1, <1>2
<1> QED
  BY <1>2, <1>3 DEF Good, Told

\* Saving sets the time only.
LEMMA SavedGood ==
    ASSUME NEW w, IsData(w), NEW st \in States, Good(st, w)
    PROVE  LET s == saveWizardState(st, w)
           IN  IsSession(s) /\ s.st = st /\ Good(s.st, s.wd)
BY DEF saveWizardState, Session, IsSession, IsData, Good

\* Before the years are asked nothing need be told.
LEMMA EarlyGood ==
    ASSUME NEW w, NEW st \in {"idle", "ask_source", "ask_manufacturer", "search_manufacturer",
                              "ask_model", "search_model", "ask_year_min"}
    PROVE  Good(st, w)
BY Ranks DEF Good, Told

\* What a handler leaves is nothing or a session with its answers.
Fine(s) == s = Stay \/ (IsSession(s) /\ s.st \in States /\ Good(s.st, s.wd))

\* Saving a state whose answers are there.
LEMMA SavedFine ==
    ASSUME NEW w, IsData(w), NEW st \in States, Good(st, w)
    PROVE  Fine(saveWizardState(st, w))
BY SavedGood DEF Fine

\* A cleared session has no answers and needs none.
LEMMA ClearedFine ==
    ASSUME NEW st \in {"idle", "ask_source"}
    PROVE  Fine(Cleared(st)) /\ IsSession(Cleared(st)) /\ Good(st, Cleared(st).wd)
           /\ Cleared(st).st = st
<1>1. IsData(WizardData)
  BY DEF IsData, IsFilters, WizardData, NoFilters
<1>2. Good(st, WizardData)
  BY EarlyGood
<1> QED
  BY <1>1, <1>2 DEF Cleared, Session, Fine, IsSession, States

\* A choice and the next question: the answers after the years stay.
LEMMA NextFine ==
    ASSUME NEW w, IsData(w), NEW a \in {"ask_gear_box", "ask_engine", "ask_max_km", "ask_max_hand",
                                        "ask_keywords", "ask_exclude_keys"},
           NEW b \in {"ask_gear_box", "ask_engine", "ask_max_km", "ask_max_hand", "ask_keywords",
                      "ask_exclude_keys", "confirm"},
           Good(a, w), NEW o, NEW c
    PROVE  Fine(saveWizardState(b, Choose(w, o, c)))
<1>1. Choose(w, o, c) = Set(w, "opt", IF c THEN w.f.opt \cup {o} ELSE w.f.opt \ {o})
  BY DEF Choose
<1>2. a \in States /\ b \in States
  BY DEF States
<1>3. IsData(Choose(w, o, c)) /\ Good(a, Choose(w, o, c))
  BY <1>1, <1>2, SetOther
<1>4. Good(b, Choose(w, o, c))
  BY <1>3, Ranks DEF Good, Told
<1> QED
  BY <1>2, <1>3, <1>4, SavedFine

\* The years and prices: each handler checks its text against what was told.
LEMMA YearMinFine ==
    ASSUME NEW w, IsData(w), NEW t
    PROVE  Fine(handleYearMin(w, t))
<1>1. CASE t \in Years
  <2>1. t \in Nat
    BY <1>1, WizardConstants
  <2>2. "ymin" \in DOMAIN w.f
    BY DEF IsData, IsFilters
  <2>3. IsData(Set(w, "ymin", t)) /\ Set(w, "ymin", t).f.ymin = t
    BY <2>1, <2>2, SetField
  <2>4. Good("ask_year_max", Set(w, "ymin", t))
    BY <1>1, <2>3, Ranks DEF Good, Told
  <2> QED
    BY <1>1, <2>3, <2>4, SavedFine DEF handleYearMin, States
<1> QED
  BY <1>1 DEF handleYearMin, Fine

\* The last year, the greatest price and the least one are checked against what
\* was told before.
LEMMA YearMaxFine ==
    ASSUME NEW w, IsData(w), NEW t, Good("ask_year_max", w)
    PROVE  Fine(handleYearMax(w, t))
<1>1. CASE t \in Years /\ t >= w.f.ymin
  <2>1. t \in Nat
    BY <1>1, WizardConstants
  <2>2. {"ymin", "ymax"} \subseteq DOMAIN w.f
    BY DEF IsData, IsFilters
  <2>3. /\ IsData(Set(w, "ymax", t)) /\ Set(w, "ymax", t).f.ymax = t
        /\ Set(w, "ymax", t).torn = w.torn
        /\ Set(w, "ymax", t).f.ymin = w.f.ymin
    BY <2>1, <2>2, SetField
  <2>4. w.torn \/ w.f.ymin \in Years
    BY Ranks DEF Good, Told
  <2>5. Good("ask_price_max", Set(w, "ymax", t))
    BY <1>1, <2>1, <2>3, <2>4, Ranks DEF Good, Told, IsData, IsFilters
  <2> QED
    BY <1>1, <2>3, <2>5, SavedFine DEF handleYearMax, States
<1> QED
  BY <1>1 DEF handleYearMax, Fine

\* A greatest price may come with a least price of before; the next question asks it again.
LEMMA PriceMaxFine ==
    ASSUME NEW w, IsData(w), NEW t, Good("ask_price_max", w)
    PROVE  Fine(handlePriceMax(w, t))
<1>1. CASE t \in Prices
  <2>1. t \in Nat
    BY <1>1, WizardConstants
  <2>2. {"ymin", "ymax", "pmax"} \subseteq DOMAIN w.f
    BY DEF IsData, IsFilters
  <2>3. /\ IsData(Set(w, "pmax", t)) /\ Set(w, "pmax", t).f.pmax = t
        /\ Set(w, "pmax", t).torn = w.torn
        /\ Set(w, "pmax", t).f.ymin = w.f.ymin /\ Set(w, "pmax", t).f.ymax = w.f.ymax
    BY <2>1, <2>2, SetField
  <2>4. Good("ask_price_min", Set(w, "pmax", t))
    BY <1>1, <2>3, Ranks DEF Good, Told
  <2> QED
    BY <1>1, <2>3, <2>4, SavedFine DEF handlePriceMax, States
<1> QED
  BY <1>1 DEF handlePriceMax, Fine

\* The lowest price, or none.
LEMMA PriceMinGood ==
    ASSUME NEW w, IsData(w), NEW t \in Nat, Good("ask_price_min", w),
           t = 0 \/ ~(w.f.pmax > 0 /\ t > w.f.pmax)
    PROVE  Fine(saveWizardState("ask_gear_box", Set(w, "pmin", t)))
<1>1. {"ymin", "ymax", "pmax", "pmin"} \subseteq DOMAIN w.f /\ w.f.pmax \in Nat
  BY DEF IsData, IsFilters
<1>2. /\ IsData(Set(w, "pmin", t)) /\ Set(w, "pmin", t).f.pmin = t
      /\ Set(w, "pmin", t).torn = w.torn
      /\ Set(w, "pmin", t).f.ymin = w.f.ymin /\ Set(w, "pmin", t).f.ymax = w.f.ymax
      /\ Set(w, "pmin", t).f.pmax = w.f.pmax
  <2>1. /\ IsData(Set(w, "pmin", t)) /\ Set(w, "pmin", t).torn = w.torn
        /\ Set(w, "pmin", t).f["pmin"] = t
        /\ \A j \in DOMAIN w.f \ {"pmin"} : Set(w, "pmin", t).f[j] = w.f[j]
    BY <1>1, SetField
  <2>2. {"ymin", "ymax", "pmax"} \subseteq DOMAIN w.f \ {"pmin"}
    BY <1>1
  <2> QED
    BY <2>1, <2>2
<1>3. w.torn \/ (w.f.pmax \in Prices /\ w.f.pmax > 0)
  <2>1. w.torn \/ w.f.pmax \in Prices
    BY Ranks DEF Good, Told
  <2>2. \A x \in Prices : x \in Nat /\ x > 0
    BY WizardConstants
  <2> QED
    BY <2>1, <2>2
<1>4. w.torn \/ t <= w.f.pmax
  BY <1>1, <1>3
<1>5. Good("ask_gear_box", Set(w, "pmin", t))
  BY <1>2, <1>4, Ranks DEF Good, Told
<1> QED
  BY <1>2, <1>5, SavedFine DEF States

\* The text of the least price.
LEMMA PriceMinFine ==
    ASSUME NEW w, IsData(w), NEW t, Good("ask_price_min", w)
    PROVE  Fine(handlePriceMin(w, t)) /\ Fine(onSkipPriceMin(w))
<1>1. Fine(onSkipPriceMin(w))
  BY PriceMinGood DEF onSkipPriceMin
<1>2. CASE t = 0 \/ (t \in Prices /\ ~(w.f.pmax > 0 /\ t > w.f.pmax))
  <2>1. t \in Nat
    <3>1. t = 0 \/ t \in Prices
      BY <1>2
    <3>2. \A x \in Prices : x \in Nat
      BY WizardConstants
    <3> QED
      BY <3>1, <3>2
  <2>2. Fine(saveWizardState("ask_gear_box", Set(w, "pmin", t)))
    BY <1>2, <2>1, PriceMinGood
  <2> QED
    BY <1>1, <1>2, <2>2 DEF handlePriceMin
<1> QED
  BY <1>1, <1>2 DEF handlePriceMin, Fine

\* The source, and restarting.
LEMMA SourceFine ==
    ASSUME NEW w, IsData(w)
    PROVE  Fine(onSourceToggle(w)) /\ Fine(sourceDoneLocked(w)) /\ Fine(onLegacySourceSelected(w))
           /\ Fine(onMfrSearch(w)) /\ Fine(onMdlSearch(w)) /\ Fine(handleManufacturerSearch(w))
           /\ Fine(handleModelSearch(w)) /\ Fine(onEditRestart(w))
<1>1. \A st \in {"ask_source", "ask_manufacturer", "search_manufacturer", "ask_model", "search_model"} :
        \A x : IsData(x) => Fine(saveWizardState(st, x))
  BY EarlyGood, SavedFine DEF States
<1>2. \A b : IsData([w EXCEPT !.src = b])
  BY DEF IsData
<1>3. IsData([WizardData EXCEPT !.edit = w.edit])
  BY DEF IsData, IsFilters, WizardData, NoFilters
<1>4. \A x : IsData(x) => Fine(sourceDoneLocked(x))
  BY <1>1 DEF sourceDoneLocked, Fine
<1> QED
  BY <1>1, <1>2, <1>3, <1>4 DEF onSourceToggle, onLegacySourceSelected, onMfrSearch, onMdlSearch,
     handleManufacturerSearch, handleModelSearch, onEditRestart

\* Manufacturer and model.
LEMMA CarFine ==
    ASSUME NEW w, IsData(w), NEW a
    PROVE  Fine(onManufacturerSelected(w, a)) /\ Fine(onModelSelected(w, a))
<1>1. /\ IsData(Set(w, "mdl", a)) /\ IsData(Set(w, "mfr", a))
      /\ IsData(Set(Set(w, "mfr", 0), "mdl", 0))
  BY SetOther
<1>2. \A x : IsData(x) => Fine(saveWizardState("ask_year_min", x)) /\ Fine(saveWizardState("ask_model", x))
  BY EarlyGood, SavedFine DEF States
<1> QED
  BY <1>1, <1>2 DEF onManufacturerSelected, onModelSelected

\* The handlers whose button is checked, and those of free text, find the
\* answers of the state they were found in.
LEMMA CheckedFine ==
    ASSUME NEW w, IsData(w), NEW h \in Loading \ {"confirm", "text"}, NEW a, NEW st \in expectState(h),
           StateChecked(h) => Good(st, w)
    PROVE  Fine(dispatchCallbackData(h, w, a))
<1>c. StateChecked(h) <=> h \in {"mfr", "mdl", "skipPmin", "gear", "engine", "km", "hand", "skipKw", "skipEx"}
  <2>1. \A k \in {"mfr", "mdl", "skipPmin", "gear", "engine", "km", "hand", "skipKw", "skipEx"} :
          expectState(k) # States
    BY DEF expectState, States
  <2>2. \A k \in Loading \ {"confirm", "text", "mfr", "mdl", "skipPmin", "gear", "engine", "km", "hand", "skipKw", "skipEx"} :
          expectState(k) = States
    BY DEF expectState, Loading, Binary
  <2> QED
    BY <2>1, <2>2 DEF StateChecked
<1>1. CASE h \in {"toggle", "legacy", "done", "mfrSearch", "mdlSearch", "restart"}
  <2>1. /\ h = "toggle" => dispatchCallbackData(h, w, a) = onSourceToggle(w)
        /\ h = "legacy" => dispatchCallbackData(h, w, a) = onLegacySourceSelected(w)
        /\ h = "done" => dispatchCallbackData(h, w, a) = onSourceDone(w)
        /\ h = "mfrSearch" => dispatchCallbackData(h, w, a) = onMfrSearch(w)
        /\ h = "mdlSearch" => dispatchCallbackData(h, w, a) = onMdlSearch(w)
        /\ h = "restart" => dispatchCallbackData(h, w, a) = onEditRestart(w)
    BY DEF dispatchCallbackData
  <2> QED
    BY <1>1, <2>1, SourceFine DEF onSourceDone
<1>2. CASE h = "cancelCb"
  BY <1>2, ClearedFine DEF dispatchCallbackData, onCancelCallback
<1>3. CASE h \in {"mfr", "mdl"}
  BY <1>3, CarFine DEF dispatchCallbackData
<1>4. CASE h = "skipPmin"
  <2>1. st = "ask_price_min"
    BY <1>4 DEF expectState
  <2> QED
    BY <1>4, <1>c, <2>1, PriceMinFine DEF dispatchCallbackData
<1>5. CASE h \in {"gear", "engine", "km", "hand", "skipKw", "skipEx"}
  <2>1. /\ h = "gear" => st = "ask_gear_box"
        /\ h = "engine" => st = "ask_engine"
        /\ h = "km" => st = "ask_max_km"
        /\ h = "hand" => st = "ask_max_hand"
        /\ h = "skipKw" => st = "ask_keywords"
        /\ h = "skipEx" => st = "ask_exclude_keys"
    BY <1>5 DEF expectState
  <2>2. Good(st, w)
    BY <1>5, <1>c
  <2>3. \A c, o : /\ h = "gear" => Fine(saveWizardState("ask_engine", Choose(w, o, c)))
                  /\ h = "engine" => Fine(saveWizardState("ask_max_km", Choose(w, o, c)))
                  /\ h = "km" => Fine(saveWizardState("ask_max_hand", Choose(w, o, c)))
                  /\ h = "hand" => Fine(saveWizardState("ask_keywords", Choose(w, o, c)))
                  /\ h = "skipKw" => Fine(saveWizardState("ask_exclude_keys", Choose(w, o, c)))
                  /\ h = "skipEx" => Fine(saveWizardState("confirm", Choose(w, o, c)))
    BY <2>1, <2>2, NextFine
  <2> QED
    BY <1>5, <2>3 DEF dispatchCallbackData, onGearBoxSelected, onEngineSelected, onMaxKmSelected,
       onMaxHandSelected, onSkipKeywords, onSkipExcludeKeys
<1> QED
  BY <1>1, <1>2, <1>3, <1>4, <1>5 DEF Loading, Binary

\* Free text is answered as the state it was found in asks.
LEMMA TextFine ==
    ASSUME NEW w, IsData(w), NEW st \in States, NEW t, Good(st, w)
    PROVE  Fine(handleDefault(st, w, t))
<1>1. CASE w.at = "old"
  BY <1>1, ClearedFine DEF handleDefault
<1>2. CASE w.at # "old" /\ st \in {"search_manufacturer", "search_model"}
  BY <1>2, SourceFine DEF handleDefault
<1>3. CASE w.at # "old" /\ st \in {"ask_year_min", "ask_year_max", "ask_price_max", "ask_price_min"}
  <2>1. CASE st = "ask_year_min"
    BY <1>3, <2>1, YearMinFine DEF handleDefault
  <2>2. CASE st = "ask_year_max"
    BY <1>3, <2>2, YearMaxFine DEF handleDefault
  <2>3. CASE st = "ask_price_max"
    BY <1>3, <2>3, PriceMaxFine DEF handleDefault
  <2>4. CASE st = "ask_price_min"
    BY <1>3, <2>4, PriceMinFine DEF handleDefault
  <2> QED
    BY <1>3, <2>1, <2>2, <2>3, <2>4
<1>4. CASE w.at # "old" /\ st \in {"ask_keywords", "ask_exclude_keys"}
  <2>1. \A c, o : /\ st = "ask_keywords" => Fine(saveWizardState("ask_exclude_keys", Choose(w, o, c)))
                  /\ st = "ask_exclude_keys" => Fine(saveWizardState("confirm", Choose(w, o, c)))
    BY <1>4, NextFine
  <2> QED
    BY <1>4, <2>1 DEF handleDefault, handleKeywordsInput, handleExcludeKeysInput
<1>5. CASE w.at # "old" /\ st \notin {"search_manufacturer", "search_model", "ask_year_min", "ask_year_max",
             "ask_price_max", "ask_price_min", "ask_keywords", "ask_exclude_keys"}
  <2>1. handleDefault(st, w, t) = Stay
    BY <1>5 DEF handleDefault
  <2> QED
    BY <2>1 DEF Fine
<1> QED
  BY <1>1, <1>2, <1>3, <1>4, <1>5

\* A goroutine with nothing to do, and what it loads.
LEMMA NoUpIs == IsUp(NoUp)
<1>1. /\ DOMAIN NoUp = {"pc", "h", "a", "mu", "st", "wd", "out", "raced"}
      /\ NoUp.pc = "idle" /\ NoUp.h = "none" /\ NoUp.a = 0 /\ NoUp.wd = WizardData
  BY DEF NoUp
<1>2. IsData(WizardData)
  BY DEF IsData, IsFilters, WizardData, NoFilters
<1> HIDE DEF NoUp
<1>3. IsData(NoUp.wd)
  BY <1>1, <1>2
<1>4. NoUp.pc \notin {"wait", "load", "save", "count", "create", "update", "reset"} /\ NoUp.a \in Nat
  BY <1>1
<1> HIDE DEF IsData
<1> QED
  BY <1>1, <1>3, <1>4 DEF IsUp

\* A load fails, or has the session's data, torn if its state is not the one
\* checked.
LEMMA Loaded ==
    ASSUME WizardInv, NEW p \in Updates, up[p].pc = "load", NEW w \in loadWizardData(p)
    PROVE  /\ IsData(w)
           /\ StateChecked(up[p].h) => Good(up[p].st, w)
           /\ StateChecked(up[p].h) /\ ~w.torn => session.st = up[p].st
           /\ ~w.torn => w.f = session.wd.f
<1>1. CASE w = [session.wd EXCEPT !.torn = @ \/ (StateChecked(up[p].h) /\ session.st # up[p].st)]
  <2>1. /\ DOMAIN w = DOMAIN session.wd /\ w.f = session.wd.f
        /\ w.torn = (session.wd.torn \/ (StateChecked(up[p].h) /\ session.st # up[p].st))
    BY <1>1 DEF WizardInv, IsSession, IsData
  <2> HIDE <1>1
  <2>2. IsData(session.wd) /\ Good(session.st, session.wd)
    BY DEF WizardInv, IsSession
  <2>3. IsData(w)
    BY <2>1, <2>2 DEF IsData
  <2> QED
    BY <2>1, <2>2, <2>3 DEF Good
<1>2. CASE w = [WizardData EXCEPT !.torn = TRUE]
  <2>1. IsData(w) /\ w.torn
    BY <1>2 DEF IsData, IsFilters, WizardData, NoFilters
  <2> QED
    BY <2>1 DEF Good
<1> QED
  BY <1>1, <1>2 DEF loadWizardData

-----------------------------------------------------------------------------
(* Steps *)

\* One goroutine moves, a count may become stale, the rest stay as they are.
SessionInv == IsSession(session) /\ session.st \in States /\ Good(session.st, session.wd)
RowsInv == /\ DOMAIN rows = Ids
           /\ \A i \in Ids : /\ IsRow(rows[i])
                             /\ rows[i].live /\ rows[i].by = "wizard" => rows[i].torn \/ Told("confirm", rows[i].f)
                             /\ rows[i].live => IsFilters(rows[i].f)
UpsInv == DOMAIN up = Updates /\ \A p \in Updates : IsUp(up[p])
\* The invariant in three parts: the session, the searches, the goroutines.
LEMMA WizardParts == WizardInv <=> SessionInv /\ RowsInv /\ UpsInv
  BY DEF WizardInv, SessionInv, RowsInv, UpsInv

\* One goroutine moves to a good state.
LEMMA UpMoves ==
    ASSUME UpsInv, NEW p \in Updates, NEW q, IsUp(q), up' = [up EXCEPT ![p] = q]
    PROVE  UpsInv'
<1>1. DOMAIN up' = Updates /\ \A r \in Updates : up'[r] = IF r = p THEN q ELSE up[r]
  BY DEF UpsInv
<1>2. \A r \in Updates : IsUp(up'[r])
  BY <1>1 DEF UpsInv
<1> QED
  BY <1>1, <1>2 DEF UpsInv, IsUp

\* A count that became stale leaves a goroutine good.
LEMMA RacedUp ==
    ASSUME NEW q, IsUp(q)
    PROVE  IsUp([q EXCEPT !.raced = TRUE])
<1> DEFINE r == [q EXCEPT !.raced = TRUE]
<1>1. /\ DOMAIN r = {"pc", "h", "a", "mu", "st", "wd", "out", "raced"}
      /\ r.pc = q.pc /\ r.h = q.h /\ r.a = q.a /\ r.st = q.st /\ r.wd = q.wd /\ r.out = q.out
  BY DEF IsUp
<1> HIDE DEF r
<1> QED
  BY <1>1 DEF IsUp

\* So does being done.
LEMMA DoneUps == ASSUME UpsInv, NEW p \in Updates, Done(p) PROVE UpsInv'
  BY NoUpIs, UpMoves DEF Done

\* A goroutine that goes on to pc, if its data allows.
LEMMA GoUps ==
    ASSUME UpsInv, NEW p \in Updates, NEW k, Go(p, k), IsUp([up[p] EXCEPT !.pc = k])
    PROVE  UpsInv'
<1>1. up' = [up EXCEPT ![p] = [up[p] EXCEPT !.pc = k]]
  BY DEF Go, UpsInv
<1> QED
  BY <1>1, UpMoves

\* Each action keeps the invariant: an update arrives,
LEMMA ReceiveInv == ASSUME WizardInv, NEW p \in Updates, Receive(p) PROVE WizardInv'
<1>0. SessionInv /\ RowsInv /\ UpsInv
  BY WizardParts
<1>1. PICK i \in Inputs :
        \/ /\ lockChat(i.h)
           /\ \E m : up' = [up EXCEPT ![p] = [NoUp EXCEPT !.pc = "wait", !.h = i.h, !.a = i.a, !.mu = m]]
        \/ /\ ~lockChat(i.h)
           /\ up' = [up EXCEPT ![p] = [NoUp EXCEPT !.pc = "open", !.h = i.h, !.a = i.a]]
  BY DEF Receive
<1>2. i.h \in Handlers /\ i.a \in Nat
  <2>1. \A x \in Years \cup Prices \cup Ids \cup {0, 1} : x \in Nat
    BY WizardConstants
  <2>2. i.h \in Plain \cup Unlocked \cup Binary \cup {"text"} /\ i.a \in Years \cup Prices \cup Ids \cup {0, 1}
    BY DEF Inputs, Unlocked
  <2>3. Plain \cup Unlocked \cup Binary \cup {"text"} \subseteq Handlers
    BY DEF Plain, Unlocked, Binary, Handlers, Loading, Inserting
  <2> QED
    BY <2>1, <2>2, <2>3
<1>3. UpsInv'
  <2>1. ASSUME NEW m, i.h \notin Unlocked
        PROVE  IsUp([NoUp EXCEPT !.pc = "wait", !.h = i.h, !.a = i.a, !.mu = m])
    <3> DEFINE q == [NoUp EXCEPT !.pc = "wait", !.h = i.h, !.a = i.a, !.mu = m]
    <3>1. /\ DOMAIN q = {"pc", "h", "a", "mu", "st", "wd", "out", "raced"}
          /\ q.pc = "wait" /\ q.h = i.h /\ q.a = i.a /\ q.wd = NoUp.wd
      BY DEF NoUp
    <3> HIDE DEF q
    <3> QED
      BY <1>2, <2>1, <3>1, NoUpIs DEF IsUp
  <2>2. IsUp([NoUp EXCEPT !.pc = "open", !.h = i.h, !.a = i.a])
    <3> DEFINE q == [NoUp EXCEPT !.pc = "open", !.h = i.h, !.a = i.a]
    <3>1. /\ DOMAIN q = {"pc", "h", "a", "mu", "st", "wd", "out", "raced"}
          /\ q.pc = "open" /\ q.h = i.h /\ q.a = i.a /\ q.wd = NoUp.wd
      BY DEF NoUp
    <3> HIDE DEF q
    <3> QED
      BY <1>2, <3>1, NoUpIs DEF IsUp
  <2> QED
    BY <1>0, <1>1, <2>1, <2>2, UpMoves DEF lockChat
<1>4. UNCHANGED <<session, rows>>
  BY DEF Receive
<1> QED
  BY <1>0, <1>3, <1>4, WizardParts DEF SessionInv, RowsInv, WizardInv, UpsInv

\* its handler takes the lock and checks the state,
LEMMA BeginInv == ASSUME WizardInv, NEW p \in Updates, Begin(p) PROVE WizardInv'
<1>0. SessionInv /\ RowsInv /\ UpsInv /\ IsUp(up[p]) /\ up[p].pc = "wait"
  BY WizardParts DEF UpsInv, Begin
<1>1. ASSUME up[p].h \in Creators \cup {"watchCb"}, Go(p, "count") PROVE UpsInv'
  <2> DEFINE q == [up[p] EXCEPT !.pc = "count"]
  <2>1. /\ DOMAIN q = {"pc", "h", "a", "mu", "st", "wd", "out", "raced"}
        /\ q.pc = "count" /\ q.h = up[p].h /\ q.a = up[p].a /\ q.wd = up[p].wd
    BY <1>0 DEF IsUp
  <2>2. up[p].h \in {"quick", "copy", "apiCreate", "watchCb"}
    BY <1>1 DEF Creators
  <2> HIDE DEF q
  <2>3. IsUp(q)
    BY <1>0, <2>1, <2>2 DEF IsUp, Inserting
  <2> QED
    BY <1>0, <1>1, <2>3, GoUps DEF q
<1>2. ASSUME up[p].h \notin Creators \cup {"watchCb"}, session.st \in expectState(up[p].h),
             up' = [up EXCEPT ![p].pc = "load", ![p].st = session.st]
      PROVE  UpsInv'
  <2> DEFINE q == [up[p] EXCEPT !.pc = "load", !.st = session.st]
  <2>1. /\ DOMAIN q = {"pc", "h", "a", "mu", "st", "wd", "out", "raced"}
        /\ q.pc = "load" /\ q.h = up[p].h /\ q.a = up[p].a /\ q.wd = up[p].wd /\ q.st = session.st
    BY <1>0 DEF IsUp
  <2>2. up[p].h \in Loading
    BY <1>0, <1>2 DEF IsUp, Handlers, Creators, Inserting, Unlocked, Loading
  <2>3. up' = [up EXCEPT ![p] = q]
    BY <1>0, <1>2 DEF UpsInv
  <2> HIDE DEF q
  <2>4. IsUp(q)
    BY <1>0, <1>2, <2>1, <2>2 DEF IsUp, Handlers, SessionInv
  <2> QED
    BY <1>0, <2>3, <2>4, UpMoves
<1>3. UpsInv'
  BY <1>0, <1>1, <1>2, DoneUps DEF Begin
<1>4. UNCHANGED <<session, rows>>
  BY DEF Begin
<1> QED
  BY <1>0, <1>3, <1>4, WizardParts DEF SessionInv, RowsInv, WizardInv, UpsInv

\* loads the answers and works out what to save,
LEMMA LoadInv == ASSUME WizardInv, NEW p \in Updates, Load(p) PROVE WizardInv'
<1>0. /\ SessionInv /\ RowsInv /\ UpsInv /\ IsUp(up[p]) /\ up[p].pc = "load"
      /\ up[p].h \in Loading /\ up[p].st \in States /\ up[p].st \in expectState(up[p].h)
      /\ up[p].a \in Nat
  BY WizardParts DEF UpsInv, Load, IsUp
<1>1. PICK w \in loadWizardData(p) :
        IF up[p].h = "confirm"
        THEN up' = [up EXCEPT ![p].wd = w, ![p].st = "idle", ![p].pc = IF w.edit > 0 THEN "update" ELSE "count"]
        ELSE LET out == IF up[p].h = "text" THEN handleDefault(up[p].st, w, up[p].a)
                        ELSE dispatchCallbackData(up[p].h, w, up[p].a)
             IN IF out = Stay THEN Done(p)
                ELSE up' = [up EXCEPT ![p] = [NoUp EXCEPT !.pc = "save", !.h = up[p].h,
                                                          !.mu = up[p].mu, !.out = out]]
  BY DEF Load
<1>2. IsData(w) /\ (StateChecked(up[p].h) => Good(up[p].st, w))
  BY <1>0, Loaded
<1>3. ASSUME up[p].h = "confirm" PROVE UpsInv'
  <2> DEFINE k == IF w.edit > 0 THEN "update" ELSE "count"
             q == [up[p] EXCEPT !.wd = w, !.st = "idle", !.pc = k]
  <2>1. /\ DOMAIN q = {"pc", "h", "a", "mu", "st", "wd", "out", "raced"}
        /\ q.pc = k /\ q.h = "confirm" /\ q.a = up[p].a /\ q.wd = w /\ k \in {"update", "count"}
    BY <1>0, <1>3 DEF IsUp
  <2>2. up' = [up EXCEPT ![p] = q]
    BY <1>0, <1>1, <1>3 DEF UpsInv
  <2>3. up[p].st = "confirm" /\ StateChecked("confirm")
    BY <1>0, <1>3 DEF expectState, StateChecked, States
  <2>4. Good("confirm", w)
    BY <1>2, <1>3, <2>3
  <2> HIDE DEF k, q
  <2>5. q.pc \in {"update", "count"} /\ q.h = "confirm" /\ q.a \in Nat
    BY <1>0, <2>1
  <2>6. IsUp(q)
    BY <1>2, <2>1, <2>4, <2>5 DEF IsUp, Handlers, Inserting
  <2> QED
    BY <1>0, <2>2, <2>6, UpMoves
<1>4. ASSUME up[p].h # "confirm" PROVE UpsInv'
  <2> DEFINE out == IF up[p].h = "text" THEN handleDefault(up[p].st, w, up[p].a)
                    ELSE dispatchCallbackData(up[p].h, w, up[p].a)
             q == [NoUp EXCEPT !.pc = "save", !.h = up[p].h, !.mu = up[p].mu, !.out = out]
  <2>1. Fine(out)
    <3>1. CASE up[p].h = "text"
      <4>1. StateChecked("text")
        BY DEF StateChecked, expectState, States
      <4> QED
        BY <1>0, <1>2, <3>1, <4>1, TextFine
    <3>2. CASE up[p].h # "text"
      BY <1>0, <1>2, <1>4, <3>2, CheckedFine
    <3> QED
      BY <3>1, <3>2
  <2>2. /\ DOMAIN q = {"pc", "h", "a", "mu", "st", "wd", "out", "raced"}
        /\ q.pc = "save" /\ q.h = up[p].h /\ q.a = NoUp.a /\ q.wd = NoUp.wd /\ q.out = out
    BY DEF NoUp
  <2>3. IF out = Stay THEN Done(p) ELSE up' = [up EXCEPT ![p] = q]
    BY <1>1, <1>4
  <2> HIDE DEF out, q
  <2>4. out # Stay => IsUp(q)
    BY <1>0, <1>4, <2>1, <2>2, NoUpIs DEF IsUp, Handlers, Fine
  <2> QED
    BY <1>0, <2>3, <2>4, UpMoves, DoneUps
<1>5. UNCHANGED <<session, rows>>
  BY DEF Load
<1>6. UpsInv'
  BY <1>3, <1>4
<1> QED
  BY <1>0, <1>5, <1>6, WizardParts DEF SessionInv, RowsInv, WizardInv, UpsInv

\* or starts without the lock,
LEMMA OpenInv == ASSUME WizardInv, NEW p \in Updates, Open(p) PROVE WizardInv'
<1>0. /\ SessionInv /\ RowsInv /\ UpsInv /\ IsUp(up[p]) /\ up[p].pc = "open"
  BY WizardParts DEF UpsInv, Open
<1>s. ASSUME NEW out, IsSession(out), out.st \in States, Good(out.st, out.wd), up[p].h \in {"cancel", "edit"},
             up' = [up EXCEPT ![p].pc = "save", ![p].out = out]
      PROVE  UpsInv'
  <2> DEFINE q == [up[p] EXCEPT !.pc = "save", !.out = out]
  <2>1. /\ DOMAIN q = {"pc", "h", "a", "mu", "st", "wd", "out", "raced"}
        /\ q.pc = "save" /\ q.h = up[p].h /\ q.a = up[p].a /\ q.wd = up[p].wd /\ q.out = out
    BY <1>0 DEF IsUp
  <2>2. up' = [up EXCEPT ![p] = q]
    BY <1>0, <1>s DEF UpsInv
  <2> HIDE DEF q
  <2>3. IsUp(q)
    BY <1>0, <1>s, <2>1 DEF IsUp, Handlers
  <2> QED
    BY <1>0, <2>2, <2>3, UpMoves
<1>1. ASSUME up[p].h \in {"watch", "apiCreate"}, Go(p, "count") PROVE UpsInv'
  <2> DEFINE q == [up[p] EXCEPT !.pc = "count"]
  <2>1. /\ DOMAIN q = {"pc", "h", "a", "mu", "st", "wd", "out", "raced"}
        /\ q.pc = "count" /\ q.h = up[p].h /\ q.a = up[p].a /\ q.wd = up[p].wd
    BY <1>0 DEF IsUp
  <2> HIDE DEF q
  <2>2. IsUp(q)
    BY <1>0, <1>1, <2>1 DEF IsUp, Inserting
  <2> QED
    BY <1>0, <1>1, <2>2, GoUps DEF q
<1>2. ASSUME up[p].h = "cancel", up' = [up EXCEPT ![p].pc = "save", ![p].out = handleCancel] PROVE UpsInv'
  <2>1. IsSession(handleCancel) /\ handleCancel.st \in States /\ Good(handleCancel.st, handleCancel.wd)
    BY ClearedFine DEF handleCancel, States
  <2> QED
    BY <1>2, <1>s, <2>1
<1>3. ASSUME up[p].h = "edit", up[p].a \in Live, up' = [up EXCEPT ![p].pc = "save", ![p].out = handleEdit(up[p].a)]
      PROVE UpsInv'
  <2> DEFINE w == [WizardData EXCEPT !.src = TRUE, !.f = rows[up[p].a].f, !.edit = up[p].a]
  <2>1. IsFilters(rows[up[p].a].f)
    BY <1>0, <1>3 DEF Live, RowsInv
  <2>2. DOMAIN w = {"src", "f", "edit", "at", "torn"} /\ w.f = rows[up[p].a].f /\ w.torn = FALSE
    BY DEF WizardData
  <2>3. handleEdit(up[p].a) = saveWizardState("ask_source", w)
    BY DEF handleEdit
  <2> HIDE DEF w
  <2>4. IsData(w)
    BY <2>1, <2>2 DEF IsData
  <2>5. Good("ask_source", w)
    BY EarlyGood
  <2>6. /\ IsSession(handleEdit(up[p].a)) /\ handleEdit(up[p].a).st \in States
        /\ Good(handleEdit(up[p].a).st, handleEdit(up[p].a).wd)
    BY <2>3, <2>4, <2>5, SavedGood DEF States
  <2> QED
    BY <1>3, <1>s, <2>6
<1>4. UpsInv'
  BY <1>0, <1>1, <1>2, <1>3, DoneUps DEF Open
<1>5. UNCHANGED <<session, rows>>
  BY DEF Open
<1> QED
  BY <1>0, <1>4, <1>5, WizardParts DEF SessionInv, RowsInv, WizardInv, UpsInv

\* saves,
LEMMA SaveInv == ASSUME WizardInv, NEW p \in Updates, Save(p) PROVE WizardInv'
<1>0. /\ SessionInv /\ RowsInv /\ UpsInv /\ IsUp(up[p]) /\ up[p].pc = "save"
      /\ IsSession(up[p].out) /\ up[p].out.st \in States /\ Good(up[p].out.st, up[p].out.wd)
  BY WizardParts DEF UpsInv, Save, IsUp
<1>1. UpsInv'
  BY <1>0, DoneUps DEF Save
<1>2. SessionInv'
  <2>1. CASE session' = up[p].out
    BY <1>0, <2>1 DEF SessionInv
  <2>2. CASE UNCHANGED session
    BY <1>0, <2>2 DEF SessionInv
  <2>3. CASE session' = [up[p].out EXCEPT !.st = "ask_source"]
    <3>1. DOMAIN session' = {"st", "wd"} /\ session'.st = "ask_source" /\ session'.wd = up[p].out.wd
      BY <1>0, <2>3 DEF IsSession
    <3>2. Good("ask_source", session'.wd) /\ "ask_source" \in States
      BY EarlyGood DEF States
    <3>3. IsData(session'.wd)
      BY <1>0, <3>1 DEF IsSession
    <3> QED
      BY <3>1, <3>2, <3>3 DEF SessionInv, IsSession
  <2> QED
    BY <2>1, <2>2, <2>3 DEF Save
<1>3. UNCHANGED rows
  BY DEF Save
<1> QED
  BY <1>0, <1>1, <1>2, <1>3, WizardParts DEF SessionInv, RowsInv, WizardInv, UpsInv

\* counts the searches,
LEMMA CountInv == ASSUME WizardInv, NEW p \in Updates, checkSearchLimit(p) PROVE WizardInv'
<1>0. /\ SessionInv /\ RowsInv /\ UpsInv /\ IsUp(up[p]) /\ up[p].pc = "count"
      /\ up[p].h \in Inserting \cup {"watch", "watchCb"}
  BY WizardParts DEF UpsInv, checkSearchLimit, IsUp
<1>1. ASSUME up[p].h \in {"watch", "watchCb"},
             up' = [up EXCEPT ![p].pc = "save",
                        ![p].out = IF up[p].h = "watch" THEN handleWatch ELSE onWatchFromCallback]
      PROVE UpsInv'
  <2> DEFINE out == IF up[p].h = "watch" THEN handleWatch ELSE onWatchFromCallback
             q == [up[p] EXCEPT !.pc = "save", !.out = out]
  <2>1. IsSession(out) /\ out.st \in States /\ Good(out.st, out.wd)
    BY ClearedFine DEF handleWatch, onWatchFromCallback, States
  <2>2. /\ DOMAIN q = {"pc", "h", "a", "mu", "st", "wd", "out", "raced"}
        /\ q.pc = "save" /\ q.h = up[p].h /\ q.a = up[p].a /\ q.wd = up[p].wd /\ q.out = out
    BY <1>0 DEF IsUp
  <2>3. up' = [up EXCEPT ![p] = q]
    BY <1>0, <1>1 DEF UpsInv
  <2> HIDE DEF out, q
  <2>4. IsUp(q)
    BY <1>0, <1>1, <2>1, <2>2 DEF IsUp, Handlers
  <2> QED
    BY <1>0, <2>3, <2>4, UpMoves
<1>2. ASSUME up[p].h \notin {"watch", "watchCb"}, Go(p, "create") PROVE UpsInv'
  <2> DEFINE q == [up[p] EXCEPT !.pc = "create"]
  <2>1. /\ DOMAIN q = {"pc", "h", "a", "mu", "st", "wd", "out", "raced"}
        /\ q.pc = "create" /\ q.h = up[p].h /\ q.a = up[p].a /\ q.wd = up[p].wd
    BY <1>0 DEF IsUp
  <2>2. up[p].h \in Inserting
    BY <1>0, <1>2
  <2> HIDE DEF q
  <2>3. IsUp(q)
    BY <1>0, <2>1, <2>2 DEF IsUp
  <2> QED
    BY <1>0, <1>2, <2>3, GoUps DEF q
<1>3. UpsInv'
  BY <1>0, <1>1, <1>2, DoneUps DEF checkSearchLimit
<1>4. UNCHANGED <<session, rows>>
  BY DEF checkSearchLimit
<1> QED
  BY <1>0, <1>3, <1>4, WizardParts DEF SessionInv, RowsInv, WizardInv, UpsInv

\* A free id, if there is one, is one of the chat's.
LEMMA FreeId == ASSUME Ids \ Live # {} PROVE Least(Ids \ Live) \in Ids \ Live
  BY LeastIn, WizardConstants

\* What is inserted: the confirmed search has the answers of the summary.
LEMMA NewRowIs ==
    ASSUME WizardInv, NEW p \in Updates, up[p].pc = "create", NEW x, x = NewRow(p)
    PROVE  /\ IsRow(x) /\ x.live /\ x.active /\ IsFilters(x.f)
           /\ up[p].h = "confirm" => x.f = up[p].wd.f /\ x.torn = up[p].wd.torn
           /\ up[p].h # "confirm" => x.by # "wizard"
<1>0. IsUp(up[p]) /\ up[p].h \in Inserting /\ up[p].wd.torn \in BOOLEAN /\ IsFilters(up[p].wd.f)
  BY DEF WizardInv, IsUp, IsData
<1>1. CASE up[p].h = "confirm"
  <2>1. DOMAIN x = {"live", "active", "f", "by", "torn"}
    BY <1>1 DEF NewRow, Row
  <2>2. x.live = TRUE /\ x.active = TRUE /\ x.torn = up[p].wd.torn
    BY <1>1 DEF NewRow, Row
  <2>3. x.f = up[p].wd.f /\ x.by = "wizard"
    BY <1>1 DEF NewRow, Row
  <2> QED
    BY <1>0, <1>1, <2>1, <2>2, <2>3 DEF IsRow
<1>2. CASE up[p].h = "quick"
  <2>1. DOMAIN x = {"live", "active", "f", "by", "torn"}
    BY <1>2 DEF NewRow, Row, onQuickStart
  <2>2. x.live = TRUE /\ x.active = TRUE /\ x.torn = FALSE
    BY <1>2 DEF NewRow, Row, onQuickStart
  <2>3. x.f = Whole /\ x.by = "quick"
    BY <1>2 DEF NewRow, Row, onQuickStart
  <2> QED
    BY <1>2, <2>1, <2>2, <2>3, WholeGood DEF IsRow
<1>3. CASE up[p].h = "copy"
  <2>1. DOMAIN x = {"live", "active", "f", "by", "torn"}
    BY <1>3 DEF NewRow, Row, onShareCopy
  <2>2. x.live = TRUE /\ x.active = TRUE /\ x.torn = FALSE
    BY <1>3 DEF NewRow, Row, onShareCopy
  <2>3. x.f = Whole /\ x.by = "copy"
    BY <1>3 DEF NewRow, Row, onShareCopy
  <2> QED
    BY <1>3, <2>1, <2>2, <2>3, WholeGood DEF IsRow
<1>4. CASE up[p].h = "apiCreate"
  <2>1. DOMAIN x = {"live", "active", "f", "by", "torn"}
    BY <1>4 DEF NewRow, Row, createSearchRecord
  <2>2. x.live = TRUE /\ x.active = TRUE /\ x.torn = FALSE
    BY <1>4 DEF NewRow, Row, createSearchRecord
  <2>3. x.f = [NoFilters EXCEPT !.web = TRUE] /\ x.by = "web"
    BY <1>4 DEF NewRow, Row, createSearchRecord
  <2>4. IsFilters(x.f)
    BY <2>3 DEF IsFilters, NoFilters
  <2> QED
    BY <1>4, <2>1, <2>2, <2>3, <2>4 DEF IsRow
<1> QED
  BY <1>0, <1>1, <1>2, <1>3, <1>4 DEF Inserting

\* inserts one,
LEMMA CreateInv == ASSUME WizardInv, NEW p \in Updates, CreateSearch(p) PROVE WizardInv'
<1>0. /\ SessionInv /\ RowsInv /\ UpsInv /\ IsUp(up[p]) /\ up[p].pc = "create"
      /\ up[p].h \in Inserting /\ UNCHANGED session
  BY WizardParts DEF UpsInv, CreateSearch, IsUp
<1>1. RowsInv'
  <2>1. CASE UNCHANGED rows
    BY <1>0, <2>1 DEF RowsInv
  <2>2. CASE Ids \ Live # {} /\ rows' = [rows EXCEPT ![Least(Ids \ Live)] = NewRow(p)]
    <3>1. PICK x : x = NewRow(p)
      OBVIOUS
    <3>2. /\ IsRow(x) /\ x.live /\ IsFilters(x.f)
          /\ x.by = "wizard" => x.torn \/ Told("confirm", x.f)
      BY <1>0, <3>1, NewRowIs DEF IsUp, Good
    <3>3. DOMAIN rows' = Ids /\ \A i \in Ids : rows'[i] = x \/ rows'[i] = rows[i]
      BY <1>0, <2>2, <3>1 DEF RowsInv
    <3> QED
      BY <1>0, <3>2, <3>3 DEF RowsInv
  <2> QED
    BY <2>1, <2>2 DEF CreateSearch
<1>2. UpsInv'
  <2>1. ASSUME up' = [up EXCEPT ![p].pc = "reset"], up[p].h = "confirm" PROVE UpsInv'
    <3> DEFINE q == [up[p] EXCEPT !.pc = "reset"]
    <3>1. /\ DOMAIN q = {"pc", "h", "a", "mu", "st", "wd", "out", "raced"}
          /\ q.pc = "reset" /\ q.h = up[p].h /\ q.a = up[p].a /\ q.wd = up[p].wd
      BY <1>0 DEF IsUp
    <3> HIDE DEF q
    <3>2. IsUp(q)
      BY <1>0, <2>1, <3>1 DEF IsUp
    <3> QED
      BY <1>0, <2>1, <3>2, GoUps DEF q, Go
  <2>2. ASSUME up' = [Race(p) EXCEPT ![p] = NoUp] PROVE UpsInv'
    <3>1. \A r \in Updates : IsUp(Race(p)[r])
      BY <1>0, RacedUp DEF Race, UpsInv
    <3>2. DOMAIN Race(p) = Updates
      BY DEF Race
    <3>3. \A r \in Updates : up'[r] = NoUp \/ up'[r] = Race(p)[r]
      BY <2>2, <3>2
    <3>4. DOMAIN up' = Updates
      BY <2>2, <3>2
    <3>5. \A r \in Updates : IsUp(up'[r])
      BY <3>1, <3>3, NoUpIs
    <3> QED
      BY <3>4, <3>5 DEF UpsInv, IsUp
  <2>3. \/ Done(p)
        \/ up[p].h = "confirm" /\ up' = [up EXCEPT ![p].pc = "reset"]
        \/ up' = [Race(p) EXCEPT ![p] = NoUp]
    BY DEF CreateSearch, Done
  <2> QED
    BY <1>0, <2>1, <2>2, <2>3, DoneUps
<1> QED
  BY <1>0, <1>1, <1>2, WizardParts DEF SessionInv, RowsInv, WizardInv, UpsInv

\* or writes the one it edits,
LEMMA UpdateInv == ASSUME WizardInv, NEW p \in Updates, UpdateSearch(p) PROVE WizardInv'
<1>0. /\ SessionInv /\ RowsInv /\ UpsInv /\ IsUp(up[p]) /\ up[p].pc = "update"
      /\ up[p].h = "confirm" /\ Good("confirm", up[p].wd) /\ IsData(up[p].wd) /\ UNCHANGED session
  BY WizardParts DEF UpsInv, UpdateSearch, IsUp
<1>1. CASE Done(p) /\ UNCHANGED rows
  <2>1. UpsInv' /\ RowsInv'
    BY <1>0, <1>1, DoneUps DEF RowsInv
  <2> QED
    BY <1>0, <2>1, WizardParts DEF SessionInv, RowsInv, WizardInv, UpsInv
<1>2. ASSUME up[p].wd.edit \in Live, Go(p, "reset"),
             rows' = [rows EXCEPT ![up[p].wd.edit] =
                        [Row(up[p].wd.f, "wizard", up[p].wd.torn)
                           EXCEPT !.active = rows[up[p].wd.edit].active]]
      PROVE  WizardInv'
  <2>1. PICK x : x = [Row(up[p].wd.f, "wizard", up[p].wd.torn) EXCEPT !.active = rows[up[p].wd.edit].active]
    OBVIOUS
  <2>2. /\ DOMAIN x = {"live", "active", "f", "by", "torn"} /\ x.live = TRUE
        /\ x.active = rows[up[p].wd.edit].active /\ x.f = up[p].wd.f /\ x.torn = up[p].wd.torn
    BY <2>1 DEF Row
  <2>3. x.active \in BOOLEAN
    <3>1. up[p].wd.edit \in Ids /\ rows[up[p].wd.edit].live
      BY <1>2 DEF Live
    <3>2. rows[up[p].wd.edit] # NoRow
      BY <3>1 DEF NoRow
    <3> QED
      BY <1>0, <2>2, <3>1, <3>2 DEF RowsInv, IsRow
  <2>4. IsRow(x) /\ IsFilters(x.f) /\ (x.torn \/ Told("confirm", x.f))
    BY <1>0, <2>2, <2>3 DEF IsRow, IsData, Good
  <2>5. DOMAIN rows' = Ids /\ \A i \in Ids : rows'[i] = x \/ rows'[i] = rows[i]
    BY <1>0, <1>2, <2>1 DEF RowsInv
  <2>6. RowsInv'
    BY <1>0, <2>4, <2>5 DEF RowsInv
  <2>7. UpsInv'
    <3> DEFINE q == [up[p] EXCEPT !.pc = "reset"]
    <3>1. /\ DOMAIN q = {"pc", "h", "a", "mu", "st", "wd", "out", "raced"}
          /\ q.pc = "reset" /\ q.h = up[p].h /\ q.a = up[p].a /\ q.wd = up[p].wd
      BY <1>0 DEF IsUp
    <3> HIDE DEF q
    <3>2. IsUp(q)
      BY <1>0, <3>1 DEF IsUp
    <3> QED
      BY <1>0, <1>2, <3>2, GoUps DEF q
  <2> QED
    BY <1>0, <2>6, <2>7, WizardParts DEF SessionInv, RowsInv, WizardInv, UpsInv
<1> QED
  BY <1>1, <1>2 DEF UpdateSearch

\* and clears the session.
LEMMA ResetInv == ASSUME WizardInv, NEW p \in Updates, Reset(p) PROVE WizardInv'
<1>0. SessionInv /\ RowsInv /\ UpsInv /\ UNCHANGED rows
  BY WizardParts DEF Reset
<1>1. UpsInv'
  BY <1>0, DoneUps DEF Reset
<1>2. session' = Cleared("idle") => SessionInv'
  BY ClearedFine DEF SessionInv, States
<1>3. SessionInv'
  BY <1>0, <1>2 DEF Reset, SessionInv
<1> QED
  BY <1>0, <1>1, <1>3, WizardParts DEF SessionInv, RowsInv, WizardInv, UpsInv

\* Pausing, resuming and deleting leave the filters of a search alone.
LEMMA ActiveInv ==
    ASSUME WizardInv, NEW i \in Live, NEW b \in BOOLEAN, SetSearchActive(i, b), UNCHANGED session
    PROVE  WizardInv'
<1>0. SessionInv /\ RowsInv /\ UpsInv /\ i \in Ids /\ rows[i].live
  BY WizardParts DEF Live
<1>1. PICK x : x = [rows[i] EXCEPT !.active = b]
  OBVIOUS
<1>2. rows[i] # NoRow
  BY <1>0 DEF NoRow
<1>3. /\ DOMAIN x = {"live", "active", "f", "by", "torn"} /\ x.live = TRUE /\ x.active = b
      /\ x.f = rows[i].f /\ x.by = rows[i].by /\ x.torn = rows[i].torn
  BY <1>0, <1>1, <1>2 DEF RowsInv, IsRow
<1>4. IsRow(x) /\ IsFilters(x.f) /\ (x.by = "wizard" => x.torn \/ Told("confirm", x.f))
  BY <1>0, <1>2, <1>3 DEF IsRow, RowsInv
<1>5. DOMAIN rows' = Ids /\ \A j \in Ids : rows'[j] = x \/ rows'[j] = rows[j]
  BY <1>0, <1>1 DEF SetSearchActive, RowsInv
<1>6. RowsInv'
  BY <1>0, <1>4, <1>5 DEF RowsInv
<1>7. DOMAIN up' = Updates /\ \A q \in Updates : up'[q] = up[q] \/ up'[q] = [up[q] EXCEPT !.raced = TRUE]
  BY <1>0 DEF SetSearchActive, UpsInv
<1>8. \A q \in Updates : IsUp(up'[q])
  BY <1>0, <1>7, RacedUp DEF UpsInv
<1>9. UpsInv'
  BY <1>7, <1>8 DEF UpsInv, IsUp
<1> QED
  BY <1>0, <1>6, <1>9, WizardParts DEF SessionInv, RowsInv, WizardInv, UpsInv

\* A deletion takes one search away.
LEMMA DeleteInv ==
    ASSUME WizardInv, NEW i \in Live, DeleteSearch(i), UNCHANGED session
    PROVE  WizardInv'
<1>0. SessionInv /\ RowsInv /\ UpsInv /\ i \in Ids /\ UNCHANGED up
  BY WizardParts DEF Live, DeleteSearch
<1>1. DOMAIN rows' = Ids /\ \A j \in Ids : rows'[j] = NoRow \/ rows'[j] = rows[j]
  BY <1>0 DEF DeleteSearch, RowsInv
<1>2. IsRow(NoRow) /\ NoRow.live = FALSE
  BY DEF IsRow, NoRow
<1>3. RowsInv'
  BY <1>0, <1>1, <1>2 DEF RowsInv
<1> QED
  BY <1>0, <1>3, WizardParts DEF SessionInv, RowsInv, WizardInv, UpsInv

\* An hour passes: only the age of the session changes.
LEMMA HourInv == ASSUME WizardInv, HourPasses PROVE WizardInv'
<1>0. SessionInv /\ RowsInv /\ UpsInv /\ UNCHANGED <<rows, up>>
  BY WizardParts DEF HourPasses
<1>1. PICK a : session' = [session EXCEPT !.wd.at = a]
  BY DEF HourPasses
<1>2. /\ DOMAIN session' = {"st", "wd"} /\ session'.st = session.st
      /\ session'.wd = [session.wd EXCEPT !.at = a]
  BY <1>0, <1>1 DEF SessionInv, IsSession
<1>3. /\ DOMAIN session'.wd = {"src", "f", "edit", "at", "torn"}
      /\ session'.wd.f = session.wd.f /\ session'.wd.torn = session.wd.torn
  BY <1>0, <1>2 DEF SessionInv, IsSession, IsData
<1>4. SessionInv'
  BY <1>0, <1>2, <1>3 DEF SessionInv, IsSession, IsData, Good
<1> QED
  BY <1>0, <1>4, WizardParts DEF SessionInv, RowsInv, WizardInv, UpsInv

\* The sessions found at the start have the answers of their states.
LEMMA ResumedGood ==
    ASSUME NEW st \in States, NEW e, NEW s, s = Resumed(st, e)
    PROVE  IsSession(s) /\ s.st \in States /\ Good(s.st, s.wd)
<1>1. CASE st = "idle"
  BY <1>1, ClearedFine DEF Resumed, States
<1>2. CASE st # "idle"
  <2> DEFINE f == IF e = 0 THEN Answers(st) ELSE [Whole EXCEPT !.web = TRUE]
             w == [WizardData EXCEPT !.src = TRUE, !.edit = e, !.f = f]
  <2>1. s = saveWizardState(st, w)
    BY <1>2 DEF Resumed
  <2>2. DOMAIN w = {"src", "f", "edit", "at", "torn"} /\ w.f = f /\ w.torn = FALSE
    BY DEF WizardData
  <2>3. IsFilters(Answers(st)) /\ Told(st, Answers(st))
    <3>1. Whole.ymin \in Nat /\ Whole.ymax = Whole.ymin /\ Whole.ymin \in Years
          /\ Whole.pmax \in Nat /\ Whole.pmax \in Prices
      BY WholeGood DEF IsFilters, Whole, NoFilters
    <3>2. PICK g : g = Answers(st)
      OBVIOUS
    <3>3. /\ DOMAIN g = {"mfr", "mdl", "ymin", "ymax", "pmax", "pmin", "opt", "web"}
          /\ g.ymin = IF Rank(st) >= 4 THEN Whole.ymin ELSE 0
          /\ g.ymax = IF Rank(st) >= 5 THEN Whole.ymax ELSE 0
          /\ g.pmax = IF Rank(st) >= 6 THEN Whole.pmax ELSE 0
          /\ g.pmin = IF Rank(st) >= 7 THEN Whole.pmax ELSE 0
      BY <3>2 DEF Answers, NoFilters
    <3>4. Rank(st) \in 0 .. 7
      BY Ranks DEF States
    <3> HIDE DEF f, w
    <3> QED
      BY <3>1, <3>2, <3>3, <3>4 DEF IsFilters, Told
  <2>4. IsFilters([Whole EXCEPT !.web = TRUE]) /\ Told(st, [Whole EXCEPT !.web = TRUE])
    <3>1. PICK g : g = [Whole EXCEPT !.web = TRUE]
      OBVIOUS
    <3>2. /\ IsFilters(Whole) /\ Told("confirm", Whole)
          /\ Rank("confirm") = 7 /\ Rank(st) \in 0 .. 7
      BY WholeGood, Ranks DEF States
    <3>3. /\ DOMAIN g = DOMAIN Whole
          /\ g.ymin = Whole.ymin /\ g.ymax = Whole.ymax /\ g.pmax = Whole.pmax /\ g.pmin = Whole.pmin
      BY <3>1, <3>2 DEF IsFilters
    <3> HIDE DEF f, w
    <3> QED
      BY <3>1, <3>2, <3>3 DEF IsFilters, Told
  <2>5. IsFilters(f) /\ Told(st, f)
    BY <2>3, <2>4
  <2> HIDE DEF f, w
  <2>6. IsData(w) /\ Good(st, w)
    BY <2>2, <2>5 DEF IsData, Good
  <2> QED
    BY <2>1, <2>6, SavedGood
<1> QED
  BY <1>1, <1>2

\* The stored searches and sessions are good,
LEMMA WizardInit == ASSUME Init PROVE WizardInv
<1>1. SessionInv
  <2>1. PICK st \in States, e \in {0} \cup Live : session = Resumed(st, e)
    BY DEF Init
  <2> QED
    BY <2>1, ResumedGood DEF SessionInv
<1>2. RowsInv
  <2>0. DOMAIN rows = Ids
    BY DEF Init
  <2>1. PICK s \in Stored : rows = [i \in Ids |-> StoredRow(s, i)]
    BY DEF Init
  <2>2. PICK g : g = [Whole EXCEPT !.web = TRUE]
    OBVIOUS
  <2>3. IsFilters(g)
    BY <2>2, WholeGood DEF IsFilters
  <2>4. ASSUME NEW b \in BOOLEAN, NEW x, x = [Row(g, "web", FALSE) EXCEPT !.active = b]
        PROVE  IsRow(x) /\ x.by = "web" /\ x.f = g
    BY <2>4 DEF Row, IsRow
  <2>5. IsRow(NoRow) /\ NoRow.live = FALSE
    BY DEF IsRow, NoRow
  <2>6. \A i \in Ids : \/ rows[i] = NoRow
                       \/ IsRow(rows[i]) /\ rows[i].by = "web" /\ rows[i].f = g
    <3> TAKE i \in Ids
    <3>1. CASE i \in s.ids
      <4>1. rows[i] = [Row(g, "web", FALSE) EXCEPT !.active = i \notin s.paused]
        BY <2>1, <2>2, <3>1 DEF StoredRow
      <4>2. (i \notin s.paused) \in BOOLEAN
        OBVIOUS
      <4> QED
        BY <2>4, <4>1, <4>2
    <3>2. CASE i \notin s.ids
      BY <2>1, <3>2 DEF StoredRow
    <3> QED
      BY <3>1, <3>2
  <2> QED
    BY <2>0, <2>3, <2>5, <2>6 DEF RowsInv
<1>3. UpsInv
  BY NoUpIs DEF Init, UpsInv
<1> QED
  BY <1>1, <1>2, <1>3, WizardParts

\* every step keeps them so,
LEMMA WizardNext == ASSUME WizardInv, [Next]_vars PROVE WizardInv'
<1>1. CASE \E p \in Updates : \/ Receive(p) \/ Begin(p) \/ Load(p) \/ Open(p) \/ Save(p)
                              \/ checkSearchLimit(p) \/ CreateSearch(p) \/ UpdateSearch(p) \/ Reset(p)
  BY <1>1, ReceiveInv, BeginInv, LoadInv, OpenInv, SaveInv, CountInv, CreateInv, UpdateInv, ResetInv
<1>2. CASE HourPasses
  BY <1>2, HourInv
<1>3. CASE sweepStaleMaps \/ UNCHANGED vars
  BY <1>3 DEF sweepStaleMaps, vars, WizardInv
<1>4. CASE handlePause \/ handleResume \/ setSearchActive
  BY <1>4, ActiveInv DEF handlePause, handleResume, setSearchActive, Request
<1>5. CASE handleStop \/ onDeleteSearch \/ deleteSearch
  BY <1>5, DeleteInv DEF handleStop, onDeleteSearch, deleteSearch, Request
<1> QED
  BY <1>1, <1>2, <1>3, <1>4, <1>5 DEF Next, Quiet

\* and so they are in every behaviour.
LEMMA WizardAlways == Spec => []WizardInv
<1>1. Init => WizardInv
  BY WizardInit
<1>2. WizardInv /\ [Next]_vars => WizardInv'
  BY WizardNext
<1> QED
  BY <1>1, <1>2, PTL DEF Spec

\* Whatever buttons are pressed, two at a time and with commands that take no
\* lock in between, the wizard (wizard.go) is in no state without the answers
\* of the states before it, and writes no search without them.
THEOREM AnswersAreComplete == Spec => []AnswersComplete
<1>1. WizardInv => AnswersComplete
  BY DEF WizardInv, AnswersComplete, Good, Live
<1> QED
  BY <1>1, WizardAlways, PTL

-----------------------------------------------------------------------------
(* The chat's lock *)

\* What another goroutine's step leaves of q: all but the staleness of a count.
Same(q) == /\ up'[q].pc = up[q].pc /\ up'[q].h = up[q].h /\ up'[q].mu = up[q].mu
           /\ up'[q].st = up[q].st /\ up'[q].wd = up[q].wd /\ up'[q].out = up[q].out
           /\ (up[q].raced => up'[q].raced)

\* A goroutine past the lock goes on, or is done and has let the lock go.
GoesOn(p) == /\ up[p].pc \notin {"idle", "wait"}
             /\ \/ up'[p] = NoUp
                \/ /\ up'[p].pc \notin {"idle", "wait"}
                   /\ up'[p].h = up[p].h /\ up'[p].mu = up[p].mu

\* As long as no entry in use was swept, the handlers that take the lock hold
\* or wait for the mutex of the entry, and one at a time holds it.
LockInv == "orphan" \notin faults =>
    /\ \A p \in Updates : /\ up[p].mu \in {0, entry}
                          /\ up[p].mu # 0 <=> (up[p].pc # "idle" /\ up[p].h \notin Unlocked)
    /\ \A p, q \in Updates : Holds(p) /\ Holds(q) => p = q

\* A step that sets one goroutine leaves the others the same.
LEMMA SetSame ==
    ASSUME UpsInv, NEW p \in Updates, NEW x, up' = [up EXCEPT ![p] = x]
    PROVE  up'[p] = x /\ \A q \in Updates \ {p} : Same(q)
<1>1. up'[p] = x /\ \A q \in Updates \ {p} : up'[q] = up[q]
  BY DEF UpsInv
<1> QED
  BY <1>1 DEF Same

\* A count that is no longer true changes nothing else of a goroutine.
LEMMA RacedSame ==
    ASSUME NEW q, IsUp(up[q]), up'[q] \in {up[q], [up[q] EXCEPT !.raced = TRUE]}
    PROVE  Same(q) /\ IsUp(up'[q])
<1>1. CASE up'[q] = up[q]
  BY <1>1 DEF Same
<1>2. CASE up'[q] = [up[q] EXCEPT !.raced = TRUE]
  <2>1. PICK x : x = up[q]
    OBVIOUS
  <2>2. PICK y : y = [x EXCEPT !.raced = TRUE]
    OBVIOUS
  <2>3. /\ y.pc = x.pc /\ y.h = x.h /\ y.mu = x.mu
        /\ y.st = x.st /\ y.wd = x.wd /\ y.out = x.out /\ y.raced = TRUE
    BY <2>1, <2>2 DEF IsUp
  <2>4. up'[q] = y
    BY <1>2, <2>1, <2>2
  <2> QED
    BY <2>1, <2>2, <2>3, <2>4, RacedUp DEF Same
<1> QED
  BY <1>1, <1>2

\* A goroutine that is done, and one that goes on to k.
LEMMA DoneMoves ==
    ASSUME UpsInv, NEW p \in Updates, Done(p)
    PROVE  up'[p] = NoUp /\ \A q \in Updates \ {p} : Same(q)
  BY SetSame DEF Done

\* One that goes on keeps its handler, mutex and data.
LEMMA GoMoves ==
    ASSUME UpsInv, NEW p \in Updates, NEW k, Go(p, k)
    PROVE  /\ \A q \in Updates \ {p} : Same(q)
           /\ up'[p].pc = k /\ up'[p].h = up[p].h /\ up'[p].mu = up[p].mu
           /\ up'[p].wd = up[p].wd /\ up'[p].st = up[p].st /\ up'[p].raced = up[p].raced
<1> DEFINE x == [up[p] EXCEPT !.pc = k]
<1>1. up' = [up EXCEPT ![p] = x]
  BY DEF Go, UpsInv
<1>2. /\ x.pc = k /\ x.h = up[p].h /\ x.mu = up[p].mu
      /\ x.wd = up[p].wd /\ x.st = up[p].st /\ x.raced = up[p].raced
  BY DEF UpsInv, IsUp
<1> HIDE DEF x
<1> QED
  BY <1>1, <1>2, SetSame

\* What Load makes of its goroutine.
LEMMA LoadMoves ==
    ASSUME UpsInv, NEW p \in Updates, Load(p)
    PROVE  /\ \A q \in Updates \ {p} : Same(q)
           /\ \/ up'[p] = NoUp
              \/ /\ up[p].h = "confirm" /\ up'[p].h = "confirm" /\ up'[p].mu = up[p].mu
                 /\ up'[p].pc \in {"update", "count"} /\ up'[p].wd \in loadWizardData(p)
              \/ /\ up[p].h # "confirm" /\ up'[p].h = up[p].h /\ up'[p].mu = up[p].mu
                 /\ up'[p].pc = "save"
<1>1. PICK w \in loadWizardData(p) :
        IF up[p].h = "confirm"
        THEN up' = [up EXCEPT ![p].wd = w, ![p].st = "idle", ![p].pc = IF w.edit > 0 THEN "update" ELSE "count"]
        ELSE LET out == IF up[p].h = "text" THEN handleDefault(up[p].st, w, up[p].a)
                        ELSE dispatchCallbackData(up[p].h, w, up[p].a)
             IN IF out = Stay THEN Done(p)
                ELSE up' = [up EXCEPT ![p] = [NoUp EXCEPT !.pc = "save", !.h = up[p].h,
                                                          !.mu = up[p].mu, !.out = out]]
  BY DEF Load
<1>2. CASE up[p].h = "confirm"
  <2> DEFINE k == IF w.edit > 0 THEN "update" ELSE "count"
             x == [up[p] EXCEPT !.wd = w, !.st = "idle", !.pc = k]
  <2>1. /\ x.pc = k /\ x.h = "confirm" /\ x.mu = up[p].mu /\ x.wd = w /\ k \in {"update", "count"}
    BY <1>2 DEF UpsInv, IsUp
  <2>2. up' = [up EXCEPT ![p] = x]
    BY <1>1, <1>2 DEF UpsInv
  <2> HIDE DEF k, x
  <2> QED
    BY <1>2, <2>1, <2>2, SetSame
<1>3. CASE up[p].h # "confirm"
  <2> DEFINE out == IF up[p].h = "text" THEN handleDefault(up[p].st, w, up[p].a)
                    ELSE dispatchCallbackData(up[p].h, w, up[p].a)
             x == [NoUp EXCEPT !.pc = "save", !.h = up[p].h, !.mu = up[p].mu, !.out = out]
  <2>1. x.pc = "save" /\ x.h = up[p].h /\ x.mu = up[p].mu
    BY DEF NoUp
  <2>2. IF out = Stay THEN Done(p) ELSE up' = [up EXCEPT ![p] = x]
    BY <1>1, <1>3
  <2> HIDE DEF out, x
  <2> QED
    BY <1>3, <2>1, <2>2, SetSame, DoneMoves
<1> QED
  BY <1>2, <1>3

\* A goroutine that saves the session out.
LEMMA SavesMoves ==
    ASSUME UpsInv, NEW p \in Updates, NEW out, up' = [up EXCEPT ![p].pc = "save", ![p].out = out]
    PROVE  /\ \A q \in Updates \ {p} : Same(q)
           /\ up'[p].pc = "save" /\ up'[p].h = up[p].h /\ up'[p].mu = up[p].mu /\ up'[p].out = out
<1> DEFINE x == [up[p] EXCEPT !.pc = "save", !.out = out]
<1>1. x.pc = "save" /\ x.h = up[p].h /\ x.mu = up[p].mu /\ x.out = out
  BY DEF UpsInv, IsUp
<1>2. up' = [up EXCEPT ![p] = x]
  BY DEF UpsInv
<1> HIDE DEF x
<1> QED
  BY <1>1, <1>2, SetSame

\* What Open makes of its goroutine.
LEMMA OpenMoves ==
    ASSUME UpsInv, NEW p \in Updates, Open(p)
    PROVE  /\ \A q \in Updates \ {p} : Same(q)
           /\ \/ up'[p] = NoUp
              \/ /\ up'[p].h = up[p].h /\ up'[p].mu = up[p].mu
                 /\ \/ up'[p].pc = "count" /\ up[p].h \in {"watch", "apiCreate"}
                    \/ up'[p].pc = "save" /\ up'[p].out.st \in {"idle", "ask_source"}
<1>1. CASE up[p].h \in {"watch", "apiCreate"} /\ Go(p, "count")
  BY <1>1, GoMoves
<1>2. CASE up' = [up EXCEPT ![p].pc = "save", ![p].out = handleCancel]
  <2>1. handleCancel.st = "idle"
    BY DEF handleCancel, Cleared, Session
  <2> QED
    BY <1>2, <2>1, SavesMoves
<1>3. CASE up' = [up EXCEPT ![p].pc = "save", ![p].out = handleEdit(up[p].a)]
  <2>1. handleEdit(up[p].a).st = "ask_source"
    BY DEF handleEdit, saveWizardState, Session
  <2> QED
    BY <1>3, <2>1, SavesMoves
<1>4. CASE Done(p)
  BY <1>4, DoneMoves
<1> QED
  BY <1>1, <1>2, <1>3, <1>4 DEF Open

\* What the count of the searches makes of it.
LEMMA CountMoves ==
    ASSUME UpsInv, NEW p \in Updates, checkSearchLimit(p)
    PROVE  /\ \A q \in Updates \ {p} : Same(q)
           /\ \/ up'[p] = NoUp
              \/ /\ CountSearches < Limit /\ up'[p].h = up[p].h /\ up'[p].mu = up[p].mu
                 /\ \/ up'[p].pc = "create" /\ up'[p].wd = up[p].wd /\ up[p].h \notin {"watch", "watchCb"}
                    \/ /\ up'[p].pc = "save" /\ up'[p].out.st = "ask_source"
                       /\ up[p].h \in {"watch", "watchCb"}
<1>1. CASE Done(p)
  BY <1>1, DoneMoves
<1>2. CASE CountSearches < Limit /\ Go(p, "create") /\ up[p].h \notin {"watch", "watchCb"}
  BY <1>2, GoMoves
<1>3. CASE /\ CountSearches < Limit /\ up[p].h \in {"watch", "watchCb"}
           /\ up' = [up EXCEPT ![p].pc = "save",
                       ![p].out = IF up[p].h = "watch" THEN handleWatch ELSE onWatchFromCallback]
  <2>1. handleWatch.st = "ask_source" /\ onWatchFromCallback.st = "ask_source"
    BY DEF handleWatch, onWatchFromCallback, Cleared, Session
  <2>2. PICK out : out = IF up[p].h = "watch" THEN handleWatch ELSE onWatchFromCallback
    OBVIOUS
  <2>3. out.st = "ask_source" /\ up' = [up EXCEPT ![p].pc = "save", ![p].out = out]
    BY <1>3, <2>1, <2>2
  <2> QED
    BY <1>3, <2>3, SavesMoves
<1> QED
  BY <1>1, <1>2, <1>3 DEF checkSearchLimit

\* What the insert makes of it, and of the counts of the others.
LEMMA CreateMoves ==
    ASSUME UpsInv, NEW p \in Updates, CreateSearch(p)
    PROVE  /\ \A q \in Updates \ {p} : Same(q)
           /\ \/ up'[p] = NoUp
              \/ /\ up[p].h = "confirm" /\ up'[p].h = "confirm" /\ up'[p].mu = up[p].mu
                 /\ up'[p].pc = "reset"
           /\ \A q \in Updates \ {p} : rows' # rows /\ up[p].h = "apiCreate" /\ up[q].pc = "create"
                                         => up'[q].raced
<1>1. CASE Done(p) /\ UNCHANGED rows
  BY <1>1, DoneMoves
<1>2. CASE up[p].h = "confirm" /\ up' = [up EXCEPT ![p].pc = "reset"]
  BY <1>2, GoMoves DEF Go
<1>3. CASE up' = [IF lockChat(up[p].h) THEN up ELSE Race(p) EXCEPT ![p] = NoUp] /\ up[p].h # "confirm"
  <2>1. /\ DOMAIN Race(p) = Updates
        /\ \A q \in Updates \ {p} : Race(p)[q] \in {up[q], [up[q] EXCEPT !.raced = TRUE]}
        /\ \A q \in Updates \ {p} : up[q].pc = "create" => Race(p)[q] = [up[q] EXCEPT !.raced = TRUE]
    BY DEF Race
  <2>2. /\ up'[p] = NoUp
        /\ \A q \in Updates \ {p} : up'[q] = IF lockChat(up[p].h) THEN up[q] ELSE Race(p)[q]
    BY <1>3, <2>1 DEF UpsInv
  <2>3. \A q \in Updates \ {p} : Same(q)
    BY <2>1, <2>2, RacedSame DEF UpsInv
  <2>4. ASSUME NEW q \in Updates \ {p}, up[p].h = "apiCreate", up[q].pc = "create" PROVE up'[q].raced
    <3>1. up'[q] = [up[q] EXCEPT !.raced = TRUE]
      BY <2>1, <2>2, <2>4 DEF lockChat, Unlocked
    <3> QED
      BY <3>1 DEF UpsInv, IsUp
  <2> QED
    BY <2>2, <2>3, <2>4
<1> QED
  BY <1>1, <1>2, <1>3 DEF CreateSearch

\* What the update makes of it.
LEMMA UpdateMoves ==
    ASSUME UpsInv, NEW p \in Updates, UpdateSearch(p)
    PROVE  /\ \A q \in Updates \ {p} : Same(q)
           /\ \/ up'[p] = NoUp
              \/ up'[p].h = up[p].h /\ up'[p].mu = up[p].mu /\ up'[p].pc = "reset"
  BY DoneMoves, GoMoves DEF UpdateSearch

\* Every step past the lock is of one goroutine, which goes on or is done.
Works(p) == \/ Load(p) \/ Open(p) \/ Save(p) \/ checkSearchLimit(p)
            \/ CreateSearch(p) \/ UpdateSearch(p) \/ Reset(p)

\* Such a step leaves the entry and the other goroutines alone.
LEMMA WorksGoesOn ==
    ASSUME UpsInv, NEW p \in Updates, Works(p)
    PROVE  /\ GoesOn(p) /\ \A q \in Updates \ {p} : Same(q)
           /\ UNCHANGED entry /\ ("orphan" \in faults' <=> "orphan" \in faults)
<1>1. CASE Load(p)
  BY <1>1, LoadMoves DEF GoesOn, Load
<1>2. CASE Open(p)
  BY <1>2, OpenMoves DEF GoesOn, Open
<1>3. CASE Save(p)
  BY <1>3, DoneMoves DEF GoesOn, Save
<1>4. CASE checkSearchLimit(p)
  BY <1>4, CountMoves DEF GoesOn, checkSearchLimit
<1>5. CASE CreateSearch(p)
  <2>1. up[p].pc = "create" /\ UNCHANGED entry /\ ("orphan" \in faults' <=> "orphan" \in faults)
    BY <1>5 DEF CreateSearch
  <2> QED
    BY <1>5, <2>1, CreateMoves DEF GoesOn
<1>6. CASE UpdateSearch(p)
  BY <1>6, UpdateMoves DEF GoesOn, UpdateSearch
<1>7. CASE Reset(p)
  BY <1>7, DoneMoves DEF GoesOn, Reset
<1> QED
  BY <1>1, <1>2, <1>3, <1>4, <1>5, <1>6, <1>7 DEF Works

\* Pauses, resumes and deletions, of the bot and of the web API.
Requests == handlePause \/ handleResume \/ setSearchActive
            \/ handleStop \/ onDeleteSearch \/ deleteSearch

\* They touch neither the session nor the lock nor the histories.
LEMMA RequestsSame ==
    ASSUME UpsInv, Requests
    PROVE  /\ \A q \in Updates : Same(q)
           /\ UNCHANGED <<session, entry, shown, owed, faults>>
<1>1. PICK i \in Live : (\E b \in BOOLEAN : SetSearchActive(i, b)) \/ DeleteSearch(i)
  BY DEF Requests, handlePause, handleResume, setSearchActive, handleStop, onDeleteSearch, deleteSearch
<1>2. \A q \in Updates : up'[q] \in {up[q], [up[q] EXCEPT !.raced = TRUE]}
  BY <1>1 DEF SetSearchActive, DeleteSearch
<1>3. UNCHANGED <<session, entry, shown, owed, faults>>
  BY DEF Requests, Request, handlePause, handleResume, setSearchActive, handleStop, onDeleteSearch, deleteSearch
<1> QED
  BY <1>2, <1>3, RacedSame DEF UpsInv

\* A new mutex is not 0.
LEMMA NewMutexIs ==
    ASSUME \A p \in Updates : up[p].mu = 0
    PROVE  NewMutex # 0
<1>1. Cardinality(Updates) \in Nat
  BY WizardConstants, FS_CardinalityType
<1>2. Mutexes \subseteq Nat \ {0} /\ 1 \in Mutexes
  BY <1>1 DEF Mutexes
<1>3. PICK T : T = {m \in Mutexes : \A p \in Updates : up[p].mu # m}
  OBVIOUS
<1>4. T \subseteq Nat \ {0} /\ T # {}
  BY <1>2, <1>3
<1>5. Least(T) \in T
  BY <1>4, LeastIn
<1> QED
  BY <1>3, <1>4, <1>5 DEF NewMutex

\* An update that arrives waits for the entry's mutex, or needs none.
LEMMA LockReceive ==
    ASSUME UpsInv, LockInv, NEW p \in Updates, Receive(p)
    PROVE  LockInv'
<1>1. CASE "orphan" \in faults
  BY <1>1 DEF Receive, LockInv
<1>2. CASE "orphan" \notin faults
  <2>0. /\ up[p].pc = "idle" /\ UNCHANGED faults
        /\ \A q \in Updates : /\ up[q].mu \in {0, entry}
                              /\ up[q].mu # 0 <=> (up[q].pc # "idle" /\ up[q].h \notin Unlocked)
        /\ \A q, r \in Updates : Holds(q) /\ Holds(r) => q = r
    BY <1>2 DEF Receive, LockInv
  <2>1. PICK i \in Inputs :
          IF lockChat(i.h)
          THEN LET m == IF entry = 0 THEN NewMutex ELSE entry
               IN /\ entry' = m
                  /\ up' = [up EXCEPT ![p] = [NoUp EXCEPT !.pc = "wait", !.h = i.h,
                                                          !.a = i.a, !.mu = m]]
          ELSE /\ up' = [up EXCEPT ![p] = [NoUp EXCEPT !.pc = "open", !.h = i.h, !.a = i.a]]
               /\ UNCHANGED entry
    BY DEF Receive
  <2>2. CASE lockChat(i.h)
    <3>1. PICK m : m = IF entry = 0 THEN NewMutex ELSE entry
      OBVIOUS
    <3>2. m # 0 /\ (entry # 0 => m = entry)
      BY <2>0, <3>1, NewMutexIs
    <3>3. PICK x : x = [NoUp EXCEPT !.pc = "wait", !.h = i.h, !.a = i.a, !.mu = m]
      OBVIOUS
    <3>4. x.pc = "wait" /\ x.h = i.h /\ x.mu = m
      BY <3>3 DEF NoUp
    <3>5. entry' = m /\ up' = [up EXCEPT ![p] = x]
      BY <2>1, <2>2, <3>1, <3>3
    <3>6. /\ up'[p].pc = "wait" /\ up'[p].h \notin Unlocked /\ up'[p].mu = entry' /\ up'[p].mu # 0
          /\ \A q \in Updates \ {p} : Same(q)
      BY <2>2, <3>2, <3>4, <3>5, SetSame DEF lockChat
    <3>7. \A q \in Updates : up'[q].mu \in {0, entry'}
      BY <2>0, <3>2, <3>5, <3>6 DEF Same
    <3>8. \A q \in Updates : up'[q].mu # 0 <=> (up'[q].pc # "idle" /\ up'[q].h \notin Unlocked)
      BY <2>0, <3>6 DEF Same
    <3>9. \A q, r \in Updates : Holds(q)' /\ Holds(r)' => q = r
      BY <2>0, <3>6 DEF Holds, Same
    <3> QED
      BY <3>7, <3>8, <3>9 DEF LockInv
  <2>3. CASE ~lockChat(i.h)
    <3>1. PICK x : x = [NoUp EXCEPT !.pc = "open", !.h = i.h, !.a = i.a]
      OBVIOUS
    <3>2. x.pc = "open" /\ x.h = i.h /\ x.mu = 0
      BY <3>1 DEF NoUp
    <3>3. entry' = entry /\ up' = [up EXCEPT ![p] = x]
      BY <2>1, <2>3, <3>1
    <3>4. /\ up'[p].pc = "open" /\ up'[p].h \in Unlocked /\ up'[p].mu = 0
          /\ \A q \in Updates \ {p} : Same(q)
      BY <2>3, <3>2, <3>3, SetSame DEF lockChat
    <3>5. \A q \in Updates : up'[q].mu \in {0, entry'}
      BY <2>0, <3>3, <3>4 DEF Same
    <3>6. \A q \in Updates : up'[q].mu # 0 <=> (up'[q].pc # "idle" /\ up'[q].h \notin Unlocked)
      BY <2>0, <3>4 DEF Same
    <3>7. \A q, r \in Updates : Holds(q)' /\ Holds(r)' => q = r
      BY <2>0, <3>4 DEF Holds, Same
    <3> QED
      BY <3>5, <3>6, <3>7 DEF LockInv
  <2> QED
    BY <2>2, <2>3
<1> QED
  BY <1>1, <1>2

\* What Begin makes of its goroutine: the lock is held, or it is done.
LEMMA BeginMoves ==
    ASSUME UpsInv, NEW p \in Updates, Begin(p)
    PROVE  /\ \A q \in Updates \ {p} : Same(q)
           /\ \A q \in Updates : Holds(q) => up[q].mu # up[p].mu
           /\ \/ up'[p] = NoUp
              \/ /\ up'[p].pc \in {"count", "load"} /\ up'[p].h = up[p].h /\ up'[p].mu = up[p].mu
                 /\ up'[p].pc = "count" => up[p].h # "confirm"
                 /\ up'[p].pc = "load" => /\ session.st \in expectState(up[p].h)
                                          /\ up'[p].st = session.st
<1>1. CASE up[p].h \in Creators \cup {"watchCb"} /\ Go(p, "count")
  BY <1>1, GoMoves DEF Begin, Creators
<1>2. CASE /\ session.st \in expectState(up[p].h)
           /\ up' = [up EXCEPT ![p].pc = "load", ![p].st = session.st]
  <2> DEFINE x == [up[p] EXCEPT !.pc = "load", !.st = session.st]
  <2>1. x.pc = "load" /\ x.h = up[p].h /\ x.mu = up[p].mu /\ x.st = session.st
    BY DEF UpsInv, IsUp
  <2>2. up' = [up EXCEPT ![p] = x]
    BY <1>2 DEF UpsInv
  <2> HIDE DEF x
  <2> QED
    BY <1>2, <2>1, <2>2, SetSame DEF Begin
<1>3. CASE Done(p)
  BY <1>3, DoneMoves DEF Begin
<1> QED
  BY <1>1, <1>2, <1>3 DEF Begin

\* The lock is taken only when no one has it.
LEMMA LockBegin ==
    ASSUME UpsInv, LockInv, NEW p \in Updates, Begin(p)
    PROVE  LockInv'
<1>1. CASE "orphan" \in faults
  BY <1>1 DEF Begin, LockInv
<1>2. CASE "orphan" \notin faults
  <2>0. /\ up[p].pc = "wait" /\ UNCHANGED <<entry, faults>>
        /\ \A q \in Updates : /\ up[q].mu \in {0, entry}
                              /\ up[q].mu # 0 <=> (up[q].pc # "idle" /\ up[q].h \notin Unlocked)
        /\ \A q, r \in Updates : Holds(q) /\ Holds(r) => q = r
    BY <1>2 DEF Begin, LockInv
  <2>1. up[p].mu = entry /\ up[p].mu # 0 /\ up[p].h \notin Unlocked
    BY <2>0 DEF UpsInv, IsUp
  <2>2. \A q \in Updates : ~Holds(q)
    BY <2>0, <2>1, BeginMoves DEF Holds
  <2>3. \A q \in Updates : q # p => ~Holds(q)'
    BY <2>2, BeginMoves DEF Holds, Same
  <2>4. \A q, r \in Updates : Holds(q)' /\ Holds(r)' => q = r
    BY <2>3
  <2>5. NoUp.mu = 0 /\ NoUp.pc = "idle"
    BY DEF NoUp
  <2>6. \A q \in Updates : /\ up'[q].mu \in {0, entry'}
                           /\ up'[q].mu # 0 <=> (up'[q].pc # "idle" /\ up'[q].h \notin Unlocked)
    BY <2>0, <2>1, <2>5, BeginMoves DEF Same
  <2> QED
    BY <2>4, <2>6 DEF LockInv
<1> QED
  BY <1>1, <1>2

\* Past the lock it is held to the end.
LEMMA LockWorks ==
    ASSUME UpsInv, LockInv, NEW p \in Updates, Works(p)
    PROVE  LockInv'
<1>0. /\ GoesOn(p) /\ \A q \in Updates \ {p} : Same(q)
      /\ UNCHANGED entry /\ ("orphan" \in faults' <=> "orphan" \in faults)
  BY WorksGoesOn
<1>1. CASE "orphan" \in faults
  BY <1>0, <1>1 DEF LockInv
<1>2. CASE "orphan" \notin faults
  <2>0. /\ \A q \in Updates : /\ up[q].mu \in {0, entry}
                              /\ up[q].mu # 0 <=> (up[q].pc # "idle" /\ up[q].h \notin Unlocked)
        /\ \A q, r \in Updates : Holds(q) /\ Holds(r) => q = r
    BY <1>2 DEF LockInv
  <2>1. NoUp.mu = 0 /\ NoUp.pc = "idle"
    BY DEF NoUp
  <2>2. \A q \in Updates : Holds(q)' => Holds(q)
    BY <1>0, <2>1 DEF Holds, Same, GoesOn
  <2>3. \A q \in Updates : /\ up'[q].mu \in {0, entry'}
                           /\ up'[q].mu # 0 <=> (up'[q].pc # "idle" /\ up'[q].h \notin Unlocked)
    BY <1>0, <2>0, <2>1 DEF Same, GoesOn
  <2>4. \A q, r \in Updates : Holds(q)' /\ Holds(r)' => q = r
    BY <2>0, <2>2
  <2> QED
    BY <2>3, <2>4 DEF LockInv
<1> QED
  BY <1>1, <1>2

\* Where no goroutine moves.
LEMMA LockSame ==
    ASSUME LockInv, \A q \in Updates : Same(q), UNCHANGED <<entry, faults>>
    PROVE  LockInv'
<1>1. \A q \in Updates : Holds(q)' <=> Holds(q)
  BY DEF Holds, Same
<1> QED
  BY <1>1 DEF LockInv, Same

\* The sweep takes an entry no one uses, or makes an orphan.
LEMMA LockSweep == ASSUME LockInv, sweepStaleMaps PROVE LockInv'
  BY DEF LockInv, sweepStaleMaps, Holds

\* At the start no one has it.
LEMMA LockInit == ASSUME Init PROVE LockInv
<1>1. \A p \in Updates : up[p].mu = 0 /\ up[p].pc = "idle"
  BY DEF Init, NoUp
<1> QED
  BY <1>1 DEF LockInv, Holds

\* Every step keeps the lock's invariant.
LEMMA LockNext == ASSUME WizardInv, LockInv, [Next]_vars PROVE LockInv'
<1>0. UpsInv
  BY WizardParts
<1>1. CASE \E p \in Updates : Receive(p)
  BY <1>0, <1>1, LockReceive
<1>2. CASE \E p \in Updates : Begin(p)
  BY <1>0, <1>2, LockBegin
<1>3. CASE \E p \in Updates : Works(p)
  BY <1>0, <1>3, LockWorks
<1>4. CASE sweepStaleMaps
  BY <1>4, LockSweep
<1>5. CASE Requests
  BY <1>0, <1>5, LockSame, RequestsSame
<1>6. CASE HourPasses \/ UNCHANGED vars
  BY <1>6, LockSame DEF HourPasses, vars, Same
<1> QED
  BY <1>1, <1>2, <1>3, <1>4, <1>5, <1>6 DEF Next, Works, Requests, Quiet

-----------------------------------------------------------------------------
(* The summary and the search it becomes *)

\* An update that arrives waits or starts; the others stay as they are.
LEMMA ReceiveMoves ==
    ASSUME UpsInv, NEW p \in Updates, Receive(p)
    PROVE  /\ \A q \in Updates \ {p} : Same(q)
           /\ up'[p].pc \in {"wait", "open"}
<1>1. PICK x : up' = [up EXCEPT ![p] = x] /\ x.pc \in {"wait", "open"}
  <2>1. PICK i, m : \/ up' = [up EXCEPT ![p] = [NoUp EXCEPT !.pc = "wait", !.h = i.h, !.a = i.a, !.mu = m]]
                              \/ up' = [up EXCEPT ![p] = [NoUp EXCEPT !.pc = "open", !.h = i.h, !.a = i.a]]
    BY DEF Receive
  <2>2. PICK x : x = [NoUp EXCEPT !.pc = "wait", !.h = i.h, !.a = i.a, !.mu = m]
    OBVIOUS
  <2>3. PICK y : y = [NoUp EXCEPT !.pc = "open", !.h = i.h, !.a = i.a]
    OBVIOUS
  <2>4. x.pc = "wait" /\ y.pc = "open"
    BY <2>2, <2>3 DEF NoUp
  <2>5. up' = [up EXCEPT ![p] = x] \/ up' = [up EXCEPT ![p] = y]
    BY <2>1, <2>2, <2>3
  <2> QED
    BY <2>4, <2>5
<1> QED
  BY <1>1, SetSame

\* A search about to be written has the filters of the last summary shown.
Writes(q) == q.h = "confirm" /\ q.pc \in {"count", "create", "update"}
ShownInv ==
    /\ session.st = "confirm" => session.wd.f = shown
    /\ \A p \in Updates : up[p].pc = "save" /\ up[p].h \in Unlocked => up[p].out.st # "confirm"
    /\ "orphan" \notin faults =>
         \A p \in Updates : Writes(up[p]) => up[p].wd.torn \/ up[p].wd.f = shown

\* The part of it about a goroutine.
ShownUp(p) == /\ up[p].pc = "save" /\ up[p].h \in Unlocked => up[p].out.st # "confirm"
              /\ "orphan" \notin faults => (Writes(up[p]) => up[p].wd.torn \/ up[p].wd.f = shown)

\* A step that shows nothing new, for its own goroutine p.
LEMMA ShownStep ==
    ASSUME ShownInv, NEW p \in Updates, \A q \in Updates \ {p} : Same(q), ShownUp(p)',
           UNCHANGED shown, session'.st = "confirm" => session' = session,
           "orphan" \in faults => "orphan" \in faults'
    PROVE  ShownInv'
<1>1. \A q \in Updates \ {p} : ShownUp(q)'
  BY DEF ShownInv, ShownUp, Same, Writes
<1>2. \A q \in Updates : ShownUp(q)'
  BY <1>1
<1>3. (session.st = "confirm" => session.wd.f = shown)'
  BY DEF ShownInv
<1> QED
  BY <1>2, <1>3 DEF ShownInv, ShownUp

\* The data a confirmation loads is that of the last summary, or torn.
LEMMA ShownLoad ==
    ASSUME WizardInv, LockInv, ShownInv, NEW p \in Updates, Load(p)
    PROVE  ShownInv'
<1>0. /\ UpsInv /\ IsData(session.wd) /\ UNCHANGED <<session, shown, faults>> /\ up[p].pc = "load"
      /\ up[p].h \in Loading /\ up[p].st \in States /\ up[p].st \in expectState(up[p].h)
  BY WizardParts DEF Load, UpsInv, IsUp, SessionInv, IsSession
<1>1. CASE up'[p] = NoUp
  BY <1>0, <1>1, LoadMoves, ShownStep DEF ShownUp, Writes, NoUp
<1>2. CASE up[p].h # "confirm" /\ up'[p].h = up[p].h /\ up'[p].pc = "save"
  <2>1. up[p].h \notin Unlocked
    BY <1>0 DEF Loading, Unlocked, Binary
  <2>2. ShownUp(p)'
    BY <1>2, <2>1 DEF ShownUp, Writes
  <2> QED
    BY <1>0, <2>2, LoadMoves, ShownStep
<1>3. CASE /\ up[p].h = "confirm" /\ up'[p].h = "confirm" /\ up'[p].pc \in {"update", "count"}
           /\ up'[p].wd \in loadWizardData(p)
  <2>1. up[p].st = "confirm" /\ StateChecked("confirm")
    BY <1>0, <1>3 DEF expectState, StateChecked, States
  <2>2. PICK w : w = up'[p].wd
    OBVIOUS
  <2>3. w.torn \/ (session.st = "confirm" /\ w.f = session.wd.f)
    <3>1. CASE w = [WizardData EXCEPT !.torn = TRUE]
      BY <3>1 DEF WizardData
    <3>2. CASE w = [session.wd EXCEPT !.torn = @ \/ (StateChecked(up[p].h) /\ session.st # up[p].st)]
      <4>1. w.f = session.wd.f
        BY <1>0, <3>2 DEF IsData
      <4>2. w.torn = (session.wd.torn \/ (StateChecked(up[p].h) /\ session.st # up[p].st))
        BY <1>0, <3>2 DEF IsData
      <4> QED
        BY <1>3, <2>1, <4>1, <4>2
    <3> QED
      BY <1>3, <2>2, <3>1, <3>2 DEF loadWizardData
  <2>4. w.torn \/ w.f = shown
    BY <2>3 DEF ShownInv
  <2>5. ShownUp(p)'
    BY <1>0, <1>3, <2>2, <2>4 DEF ShownUp, Writes
  <2> QED
    BY <1>0, <2>5, LoadMoves, ShownStep
<1> QED
  BY <1>0, <1>1, <1>2, <1>3, LoadMoves

\* A save by a holder of the lock: no one else is about to write.
LEMMA ShownSave ==
    ASSUME WizardInv, LockInv, ShownInv, NEW p \in Updates, Save(p)
    PROVE  ShownInv'
<1>0. /\ UpsInv /\ up[p].pc = "save" /\ UNCHANGED faults
      /\ up'[p] = NoUp /\ \A q \in Updates \ {p} : Same(q)
  BY WizardParts, DoneMoves DEF Save
<1>1. ShownUp(p)'
  BY <1>0 DEF ShownUp, Writes, NoUp
<1>2. CASE UNCHANGED <<session, shown>>
  BY <1>0, <1>1, <1>2, ShownStep
<1>3. CASE session' = [up[p].out EXCEPT !.st = "ask_source"] /\ UNCHANGED shown
  <2>1. session'.st = "ask_source"
    BY <1>0, <1>3 DEF UpsInv, IsUp, IsSession
  <2> QED
    BY <1>0, <1>1, <1>3, <2>1, ShownStep
<1>4. CASE session' = up[p].out /\ session'.st # "confirm" /\ UNCHANGED shown
  BY <1>0, <1>1, <1>4, ShownStep
<1>5. CASE session' = up[p].out /\ session'.st = "confirm" /\ shown' = session'.wd.f
  <2>1. up[p].h \notin Unlocked
    BY <1>0, <1>5 DEF ShownInv
  <2>2. ASSUME "orphan" \notin faults, NEW q \in Updates, Writes(up[q]) PROVE FALSE
    <3>1. Holds(p) /\ Holds(q)
      BY <1>0, <2>1, <2>2 DEF LockInv, Holds, Writes, Unlocked
    <3>2. p = q
      BY <2>2, <3>1 DEF LockInv
    <3> QED
      BY <1>0, <2>2, <3>2 DEF Writes
  <2>3. \A q \in Updates \ {p} : "orphan" \notin faults => ~Writes(up'[q])
    BY <1>0, <2>2 DEF Same, Writes
  <2>4. \A q \in Updates \ {p} : up'[q].pc = "save" /\ up'[q].h \in Unlocked => up'[q].out.st # "confirm"
    BY <1>0 DEF ShownInv, Same
  <2>5. \A q \in Updates : ShownUp(q)'
    BY <1>0, <1>1, <2>3, <2>4 DEF ShownUp
  <2> QED
    BY <1>5, <2>5 DEF ShownInv, ShownUp
<1> QED
  BY <1>2, <1>3, <1>4, <1>5 DEF Save

\* Every step keeps what is to be written the same as what was shown.
LEMMA ShownNext ==
    ASSUME WizardInv, LockInv, ShownInv, [Next]_vars
    PROVE  ShownInv'
<1>0. UpsInv
  BY WizardParts
<1>1. ASSUME NEW p \in Updates, Receive(p) PROVE ShownInv'
  BY <1>0, <1>1, ReceiveMoves, ShownStep DEF Receive, ShownUp, Writes
<1>2. ASSUME NEW p \in Updates, Begin(p) PROVE ShownInv'
  <2>1. ShownUp(p)'
    BY <1>0, <1>2, BeginMoves DEF ShownUp, Writes, NoUp
  <2> QED
    BY <1>0, <1>2, <2>1, BeginMoves, ShownStep DEF Begin
<1>3. ASSUME NEW p \in Updates, Open(p) PROVE ShownInv'
  <2>1. ShownUp(p)'
    BY <1>0, <1>3, OpenMoves DEF ShownUp, Writes, NoUp
  <2> QED
    BY <1>0, <1>3, <2>1, OpenMoves, ShownStep DEF Open
<1>4. ASSUME NEW p \in Updates, checkSearchLimit(p) PROVE ShownInv'
  <2>1. up[p].pc = "count" /\ UNCHANGED <<session, shown, faults>>
    BY <1>4 DEF checkSearchLimit
  <2>2. ShownUp(p)'
    <3>1. CASE up'[p] = NoUp
      BY <3>1 DEF ShownUp, Writes, NoUp
    <3>2. CASE up'[p].pc = "save" /\ up'[p].out.st = "ask_source"
      BY <3>2 DEF ShownUp, Writes
    <3>3. CASE up'[p].pc = "create" /\ up'[p].h = up[p].h /\ up'[p].wd = up[p].wd
      BY <2>1, <3>3 DEF ShownUp, Writes, ShownInv
    <3> QED
      BY <1>0, <1>4, <3>1, <3>2, <3>3, CountMoves
  <2> QED
    BY <1>0, <1>4, <2>1, <2>2, CountMoves, ShownStep
<1>5. ASSUME NEW p \in Updates, CreateSearch(p) PROVE ShownInv'
  <2>1. UNCHANGED <<session, shown>> /\ ("orphan" \in faults => "orphan" \in faults')
    BY <1>5 DEF CreateSearch
  <2>2. ShownUp(p)'
    BY <1>0, <1>5, CreateMoves DEF ShownUp, Writes, NoUp
  <2> QED
    BY <1>0, <1>5, <2>1, <2>2, CreateMoves, ShownStep
<1>6. ASSUME NEW p \in Updates, UpdateSearch(p) PROVE ShownInv'
  <2>1. UNCHANGED <<session, shown, faults>>
    BY <1>6 DEF UpdateSearch
  <2>2. ShownUp(p)'
    BY <1>0, <1>6, UpdateMoves DEF ShownUp, Writes, NoUp
  <2> QED
    BY <1>0, <1>6, <2>1, <2>2, UpdateMoves, ShownStep
<1>7. ASSUME NEW p \in Updates, Reset(p) PROVE ShownInv'
  <2>1. /\ UNCHANGED shown /\ ("orphan" \in faults => "orphan" \in faults')
        /\ session'.st = "confirm" => session' = session
    BY <1>7 DEF Reset, Cleared, Session
  <2>2. up'[p] = NoUp /\ \A q \in Updates \ {p} : Same(q)
    BY <1>0, <1>7, DoneMoves DEF Reset
  <2>3. ShownUp(p)'
    BY <2>2 DEF ShownUp, Writes, NoUp
  <2> QED
    BY <2>1, <2>2, <2>3, ShownStep
<1>8. CASE HourPasses
  <2>1. PICK a : session' = [session EXCEPT !.wd.at = a]
    BY <1>8 DEF HourPasses
  <2>2. session'.st = session.st /\ session'.wd.f = session.wd.f
    BY <2>1 DEF WizardInv, IsSession, IsData
  <2> QED
    BY <1>8, <2>2 DEF HourPasses, ShownInv, Writes
<1>9. CASE Requests
  BY <1>0, <1>9, RequestsSame DEF ShownInv, Same, Writes
<1>10. CASE sweepStaleMaps \/ UNCHANGED vars
  BY <1>10 DEF sweepStaleMaps, vars, ShownInv, Writes
<1> QED
  BY <1>1, <1>2, <1>3, <1>4, <1>5, <1>6, <1>7, <1>8, <1>9, <1>10, ShownLoad, ShownSave
  DEF Next, Requests, Quiet

\* At the start the last summary is that of the session.
LEMMA ShownInit == ASSUME Init PROVE ShownInv
<1>1. \A p \in Updates : up[p].pc = "idle"
  BY DEF Init, NoUp
<1> QED
  BY <1>1 DEF Init, ShownInv, Writes

\* While no reset was lost and no mutex swept, a summary is confirmed once: who
\* is confirming owes it, and a session still at confirm does or is being reset.
Confirms(q) == q.h = "confirm" /\ q.pc \in {"load", "count", "create", "update"}
Resets(q) == q.h = "confirm" /\ q.pc = "reset"
OwedInv == faults \cap {"lost", "orphan"} = {} =>
    /\ "double" \notin faults
    /\ session.st = "confirm" => owed \/ \E p \in Updates : Resets(up[p])
    /\ \A p \in Updates : Confirms(up[p]) => owed

\* A step that settles nothing.
LEMMA OwedStep ==
    ASSUME OwedInv, NEW p \in Updates, \A q \in Updates \ {p} : Same(q), UNCHANGED faults,
           owed => owed', session'.st = "confirm" => owed' \/ session' = session,
           ~Resets(up[p]), Confirms(up'[p]) => Confirms(up[p]) \/ owed'
    PROVE  OwedInv'
<1>1. \A q \in Updates \ {p} : (Resets(up'[q]) <=> Resets(up[q])) /\ (Confirms(up'[q]) <=> Confirms(up[q]))
  BY DEF Same, Resets, Confirms
<1>2. CASE faults \cap {"lost", "orphan"} # {}
  BY <1>2 DEF OwedInv
<1>3. CASE faults \cap {"lost", "orphan"} = {}
  <2>1. "double" \notin faults'
    BY <1>3 DEF OwedInv
  <2>2. session'.st = "confirm" => owed' \/ \E q \in Updates : Resets(up'[q])
    BY <1>1, <1>3 DEF OwedInv
  <2>3. \A q \in Updates : Confirms(up'[q]) => owed'
    BY <1>1, <1>3 DEF OwedInv
  <2> QED
    BY <2>1, <2>2, <2>3 DEF OwedInv
<1> QED
  BY <1>2, <1>3

\* A confirmation that begins finds the summary not yet confirmed.
LEMMA OwedBegin ==
    ASSUME UpsInv, LockInv, OwedInv, NEW p \in Updates, Begin(p)
    PROVE  OwedInv'
<1>0. /\ up[p].pc = "wait" /\ UNCHANGED <<session, owed, faults>>
      /\ \A q \in Updates \ {p} : Same(q)
  BY BeginMoves DEF Begin
<1>1. CASE faults \cap {"lost", "orphan"} # {}
  BY <1>0, <1>1 DEF OwedInv
<1>2. CASE faults \cap {"lost", "orphan"} = {}
  <2>1. "orphan" \notin faults
    BY <1>2
  <2>2. up[p].mu = entry /\ \A q \in Updates : ~Holds(q)
    BY <1>0, <2>1, BeginMoves DEF LockInv, Holds, UpsInv, IsUp
  <2>3. \A q \in Updates : ~Resets(up[q])
    BY <2>1, <2>2 DEF Resets, Holds, LockInv, Unlocked
  <2>4. session.st = "confirm" => owed
    BY <1>2, <2>3 DEF OwedInv
  <2>5. Confirms(up'[p]) => session.st = "confirm"
    BY BeginMoves DEF Confirms, NoUp, expectState
  <2> QED
    BY <1>0, <2>3, <2>4, <2>5, OwedStep
<1> QED
  BY <1>1, <1>2

\* The search is written: the summary is no longer owed, and no one else is
\* confirming.
LEMMA OwedWritten ==
    ASSUME LockInv, OwedInv, NEW p \in Updates, \A q \in Updates \ {p} : Same(q),
           Confirms(up[p]), Resets(up'[p]), faults' = IF owed THEN faults ELSE faults \cup {"double"}
    PROVE  OwedInv'
<1>1. CASE faults' \cap {"lost", "orphan"} # {}
  BY <1>1 DEF OwedInv
<1>2. CASE faults' \cap {"lost", "orphan"} = {}
  <2>1. faults \cap {"lost", "orphan"} = {}
    BY <1>2
  <2>2. owed /\ "double" \notin faults'
    BY <2>1 DEF OwedInv
  <2>3. ASSUME NEW q \in Updates \ {p}, Confirms(up'[q]) PROVE FALSE
    <3>1. Confirms(up[q])
      BY <2>3 DEF Same, Confirms
    <3>2. Holds(p) /\ Holds(q)
      BY <2>1, <3>1 DEF LockInv, Holds, Confirms, Unlocked
    <3> QED
      BY <2>1, <3>2 DEF LockInv
  <2>4. ~Confirms(up'[p])
    BY DEF Confirms, Resets
  <2> QED
    BY <2>2, <2>3, <2>4 DEF OwedInv
<1> QED
  BY <1>1, <1>2

\* Every step keeps a summary from being confirmed twice.
LEMMA OwedNext ==
    ASSUME WizardInv, LockInv, OwedInv, [Next]_vars
    PROVE  OwedInv'
<1>0. UpsInv
  BY WizardParts
<1>1. ASSUME NEW p \in Updates, Receive(p) PROVE OwedInv'
  BY <1>0, <1>1, ReceiveMoves, OwedStep DEF Receive, Resets, Confirms
<1>2. ASSUME NEW p \in Updates, Load(p) PROVE OwedInv'
  <2>1. up[p].pc = "load" /\ UNCHANGED <<session, owed, faults>>
    BY <1>2 DEF Load
  <2>2. Confirms(up'[p]) => Confirms(up[p])
    BY <1>0, <1>2, <2>1, LoadMoves DEF Confirms, NoUp
  <2> QED
    BY <1>0, <1>2, <2>1, <2>2, LoadMoves, OwedStep DEF Resets
<1>3. ASSUME NEW p \in Updates, Open(p) PROVE OwedInv'
  <2>1. up[p].pc = "open" /\ UNCHANGED <<session, owed, faults>>
    BY <1>3 DEF Open
  <2>2. ~Confirms(up'[p])
    BY <1>0, <1>3, OpenMoves DEF Confirms, NoUp
  <2> QED
    BY <1>0, <1>3, <2>1, <2>2, OpenMoves, OwedStep DEF Resets
<1>4. ASSUME NEW p \in Updates, Save(p) PROVE OwedInv'
  <2>1. /\ up[p].pc = "save" /\ UNCHANGED faults
        /\ up'[p] = NoUp /\ \A q \in Updates \ {p} : Same(q)
    BY <1>0, <1>4, DoneMoves DEF Save
  <2>2. (owed => owed') /\ (session'.st = "confirm" => owed' \/ session' = session)
    <3>1. CASE session' = up[p].out /\ owed' = (owed \/ session'.st = "confirm")
      BY <3>1
    <3>2. CASE UNCHANGED <<session, owed>>
      BY <3>2
    <3>3. CASE session' = [up[p].out EXCEPT !.st = "ask_source"] /\ UNCHANGED owed
      BY <1>0, <2>1, <3>3 DEF UpsInv, IsUp, IsSession
    <3> QED
      BY <1>4, <3>1, <3>2, <3>3 DEF Save
  <2>3. ~Confirms(up'[p]) /\ ~Resets(up[p])
    BY <2>1 DEF Confirms, NoUp, Resets
  <2> QED
    BY <2>1, <2>2, <2>3, OwedStep
<1>5. ASSUME NEW p \in Updates, checkSearchLimit(p) PROVE OwedInv'
  <2>1. up[p].pc = "count" /\ UNCHANGED <<session, owed, faults>>
    BY <1>5 DEF checkSearchLimit
  <2>2. Confirms(up'[p]) => Confirms(up[p])
    BY <1>0, <1>5, <2>1, CountMoves DEF Confirms, NoUp
  <2> QED
    BY <1>0, <1>5, <2>1, <2>2, CountMoves, OwedStep DEF Resets
<1>6. ASSUME NEW p \in Updates, CreateSearch(p) PROVE OwedInv'
  <2>1. /\ up[p].pc = "create" /\ UNCHANGED session /\ \A q \in Updates \ {p} : Same(q)
    BY <1>0, <1>6, CreateMoves DEF CreateSearch
  <2>2. CASE /\ up[p].h = "confirm" /\ up' = [up EXCEPT ![p].pc = "reset"]
             /\ faults' = IF owed THEN faults ELSE faults \cup {"double"}
    <3>1. Go(p, "reset")
      BY <2>2 DEF Go
    <3>2. Confirms(up[p]) /\ Resets(up'[p])
      BY <1>0, <2>1, <2>2, <3>1, GoMoves DEF Confirms, Resets
    <3> QED
      BY <2>1, <2>2, <3>2, OwedWritten
  <2>3. CASE UNCHANGED <<owed, faults>> /\ up'[p] = NoUp
    <3>1. ~Confirms(up'[p]) /\ ~Resets(up[p])
      BY <2>1, <2>3 DEF Confirms, Resets, NoUp
    <3> QED
      BY <2>1, <2>3, <3>1, OwedStep
  <2>4. CASE up[p].h # "confirm" /\ up' = [IF lockChat(up[p].h) THEN up ELSE Race(p) EXCEPT ![p] = NoUp]
    <3>1. up'[p] = NoUp
      BY <1>0, <1>6, <2>4, CreateMoves
    <3>2. UNCHANGED <<owed, faults>>
      BY <1>6, <2>4 DEF CreateSearch
    <3> QED
      BY <2>3, <3>1, <3>2
  <2>5. CASE Done(p) /\ UNCHANGED <<faults, owed>>
    BY <1>0, <2>3, <2>5, DoneMoves
  <2> QED
    BY <1>6, <2>2, <2>4, <2>5 DEF CreateSearch
<1>7. ASSUME NEW p \in Updates, UpdateSearch(p) PROVE OwedInv'
  <2>1. /\ up[p].pc = "update" /\ up[p].h = "confirm" /\ UNCHANGED <<session, faults>>
        /\ \A q \in Updates \ {p} : Same(q)
    BY <1>0, <1>7, UpdateMoves DEF UpdateSearch, UpsInv, IsUp
  <2>2. CASE Go(p, "reset")
    <3>1. Confirms(up[p]) /\ Resets(up'[p])
      BY <1>0, <2>1, <2>2, GoMoves DEF Confirms, Resets
    <3>2. CASE faults \cap {"lost", "orphan"} = {}
      <4>1. owed
        BY <3>1, <3>2 DEF OwedInv
      <4> QED
        BY <2>1, <3>1, <4>1, OwedWritten
    <3>3. CASE faults \cap {"lost", "orphan"} # {}
      BY <2>1, <3>3 DEF OwedInv
    <3> QED
      BY <3>2, <3>3
  <2>3. CASE Done(p) /\ UNCHANGED owed
    <3>1. ~Confirms(up'[p]) /\ ~Resets(up[p])
      BY <1>0, <2>1, <2>3, DoneMoves DEF Confirms, Resets, NoUp
    <3> QED
      BY <2>1, <2>3, <3>1, OwedStep
  <2> QED
    BY <1>7, <2>2, <2>3 DEF UpdateSearch
<1>8. ASSUME NEW p \in Updates, Reset(p) PROVE OwedInv'
  <2>1. /\ up'[p] = NoUp /\ UNCHANGED owed
        /\ \A q \in Updates \ {p} : Same(q)
    BY <1>0, <1>8, DoneMoves DEF Reset
  <2>2. CASE faults' = faults \cup {"lost"}
    BY <2>2 DEF OwedInv
  <2>3. CASE session' = Cleared("idle") /\ UNCHANGED faults
    <3>1. session'.st # "confirm"
      BY <2>3 DEF Cleared, Session
    <3>2. \A q \in Updates : Confirms(up'[q]) => Confirms(up[q])
      BY <2>1 DEF Same, Confirms, NoUp
    <3> QED
      BY <2>1, <2>3, <3>1, <3>2 DEF OwedInv
  <2> QED
    BY <1>8, <2>2, <2>3 DEF Reset
<1>9. CASE HourPasses
  <2>1. PICK a : session' = [session EXCEPT !.wd.at = a]
    BY <1>9 DEF HourPasses
  <2>2. session'.st = session.st
    BY <2>1 DEF WizardInv, IsSession
  <2> QED
    BY <1>9, <2>2 DEF HourPasses, OwedInv, Confirms, Resets
<1>10. CASE Requests
  <2>1. /\ UNCHANGED <<session, owed, faults>>
        /\ \A q \in Updates : (Resets(up'[q]) <=> Resets(up[q])) /\ (Confirms(up'[q]) <=> Confirms(up[q]))
    BY <1>0, <1>10, RequestsSame DEF Same, Confirms, Resets
  <2> QED
    BY <2>1 DEF OwedInv
<1>11. CASE sweepStaleMaps \/ UNCHANGED vars
  <2>1. /\ UNCHANGED <<session, up, owed>>
        /\ faults' = faults \/ faults' = faults \cup {"orphan"}
    BY <1>11 DEF sweepStaleMaps, vars
  <2> QED
    BY <2>1 DEF OwedInv, Confirms, Resets
<1> QED
  BY <1>0, <1>1, <1>2, <1>3, <1>4, <1>5, <1>6, <1>7, <1>8, <1>9, <1>10, <1>11, OwedBegin
  DEF Next, Requests, Quiet

\* A session found at confirm owes its summary.
LEMMA OwedInit == ASSUME Init PROVE OwedInv
<1>1. \A p \in Updates : up[p].pc = "idle"
  BY DEF Init, NoUp
<1>2. faults = {} /\ owed = (session.st = "confirm")
  BY DEF Init
<1> QED
  BY <1>1, <1>2 DEF OwedInv, Confirms, Resets

-----------------------------------------------------------------------------
(* The limit *)

\* Who is about to insert has counted less than the limit, and the count is
\* true unless a resume or the web API came in between.
LimitInv == "orphan" \notin faults =>
    \A p \in Updates : up[p].pc = "create" /\ up[p].h # "apiCreate"
                         => up[p].raced \/ CountSearches < Limit

Active == {i \in Live : rows[i].active}

\* The searches counted are finitely many.
LEMMA ActiveFinite == IsFiniteSet(Active) /\ CountSearches \in Nat /\ CountSearches = Cardinality(Active)
<1>1. Active \subseteq Ids /\ IsFiniteSet(Ids)
  BY WizardConstants DEF Active, Live
<1>2. IsFiniteSet(Active)
  BY <1>1, FS_Subset
<1> QED
  BY <1>2, FS_CardinalityType DEF CountSearches, Active

\* Fewer active searches, a lower count; one more, a count of one more at most.
LEMMA CountLess == ASSUME Active' \subseteq Active PROVE CountSearches' <= CountSearches
<1>1. PICK S, T : S = Active /\ T = Active'
  OBVIOUS
<1>2. IsFiniteSet(S) /\ CountSearches = Cardinality(S) /\ CountSearches' = Cardinality(T) /\ T \subseteq S
  BY <1>1, ActiveFinite DEF CountSearches, Active
<1> QED
  BY <1>2, FS_Subset

\* One more search raises the count by one at most.
LEMMA CountMore ==
    ASSUME NEW j, Active' \subseteq Active \cup {j}
    PROVE  CountSearches' <= CountSearches + 1
<1>1. PICK S, T : S = Active /\ T = Active'
  OBVIOUS
<1>2. IsFiniteSet(S) /\ CountSearches = Cardinality(S) /\ CountSearches' = Cardinality(T)
  BY <1>1, ActiveFinite DEF CountSearches, Active
<1>3. T \subseteq S \cup {j}
  BY <1>1
<1>4. IsFiniteSet(S \cup {j}) /\ Cardinality(S \cup {j}) <= Cardinality(S) + 1 /\ Cardinality(S) \in Nat
  BY <1>2, FS_AddElement, FS_CardinalityType
<1>5. Cardinality(T) <= Cardinality(S \cup {j}) /\ Cardinality(T) \in Nat /\ Cardinality(S \cup {j}) \in Nat
  BY <1>3, <1>4, FS_Subset, FS_CardinalityType
<1> QED
  BY <1>2, <1>4, <1>5

\* No search written, the same count.
LEMMA CountSame == ASSUME UNCHANGED rows PROVE CountSearches' = CountSearches
  BY DEF CountSearches, Live

\* A step that writes no search.
LEMMA LimitStep ==
    ASSUME LimitInv, NEW p \in Updates, \A q \in Updates \ {p} : Same(q), UNCHANGED rows,
           "orphan" \in faults => "orphan" \in faults',
           up'[p].pc = "create" => CountSearches < Limit
    PROVE  LimitInv'
<1>1. \A q \in Updates : up'[q].pc = "create" /\ up'[q].h # "apiCreate" /\ "orphan" \notin faults'
                           => up'[q].raced \/ CountSearches < Limit
  BY DEF LimitInv, Same
<1>2. CountSearches' = CountSearches
  BY CountSame
<1> QED
  BY <1>1, <1>2 DEF LimitInv

\* A holder of the lock inserts alone.
LEMMA InsertsAlone ==
    ASSUME UpsInv, LockInv, "orphan" \notin faults,
           NEW p \in Updates, up[p].pc \in {"create", "update"}, up[p].h # "apiCreate",
           NEW q \in Updates, up[q].pc = "create", up[q].h # "apiCreate"
    PROVE  p = q
<1>1. up[p].h \in {"confirm", "quick", "copy"} /\ up[q].h \in {"confirm", "quick", "copy"}
  BY DEF UpsInv, IsUp, Inserting
<1>2. Holds(p) /\ Holds(q)
  BY <1>1 DEF LockInv, Holds, Unlocked
<1> QED
  BY <1>2 DEF LockInv

\* Who else is about to insert was made stale, or there is no one.
LEMMA LimitCreate ==
    ASSUME UpsInv, LockInv, LimitInv, NEW p \in Updates, CreateSearch(p)
    PROVE  LimitInv'
<1>0. /\ up[p].pc = "create" /\ \A q \in Updates \ {p} : Same(q)
      /\ "orphan" \in faults => "orphan" \in faults'
  BY CreateMoves DEF CreateSearch
<1>1. up'[p].pc # "create"
  BY CreateMoves DEF NoUp
<1>2. CASE UNCHANGED rows
  BY <1>0, <1>1, <1>2, LimitStep
<1>3. CASE rows' # rows /\ up[p].h = "apiCreate"
  <2>1. \A q \in Updates \ {p} : up'[q].pc = "create" => up'[q].raced
    BY <1>0, <1>3, CreateMoves DEF Same
  <2> QED
    BY <1>1, <2>1 DEF LimitInv
<1>4. CASE up[p].h # "apiCreate"
  <2>1. ASSUME "orphan" \notin faults', NEW q \in Updates \ {p}, up'[q].pc = "create"
        PROVE  up'[q].h = "apiCreate"
    BY <1>0, <1>4, <2>1, InsertsAlone DEF Same
  <2> QED
    BY <1>1, <2>1 DEF LimitInv
<1> QED
  BY <1>2, <1>3, <1>4

\* An edit is written while no one inserts.
LEMMA LimitUpdate ==
    ASSUME UpsInv, LockInv, LimitInv, NEW p \in Updates, UpdateSearch(p)
    PROVE  LimitInv'
<1>0. /\ up[p].pc = "update" /\ up[p].h = "confirm" /\ UNCHANGED faults
      /\ \A q \in Updates \ {p} : Same(q)
  BY UpdateMoves DEF UpdateSearch, UpsInv, IsUp
<1>1. up'[p].pc # "create"
  BY UpdateMoves DEF NoUp
<1>2. ASSUME "orphan" \notin faults', NEW q \in Updates \ {p}, up'[q].pc = "create"
      PROVE  up'[q].h = "apiCreate"
  BY <1>0, <1>2, InsertsAlone DEF Same
<1> QED
  BY <1>1, <1>2 DEF LimitInv

\* A resume makes the counts of the others stale; a pause or a deletion lowers
\* the count.
LEMMA LimitRequests ==
    ASSUME WizardInv, LimitInv, Requests
    PROVE  LimitInv'
<1>0. /\ UpsInv /\ RowsInv /\ UNCHANGED faults
      /\ \A q \in Updates : Same(q)
  BY WizardParts, RequestsSame
<1>1. PICK i \in Live : (\E b \in BOOLEAN : SetSearchActive(i, b)) \/ DeleteSearch(i)
  BY DEF Requests, handlePause, handleResume, setSearchActive, handleStop, onDeleteSearch, deleteSearch
<1>2. i \in Ids /\ rows[i] # NoRow /\ rows[i].live
  BY <1>1 DEF Live, NoRow
<1>3. ASSUME Active' \subseteq Active PROVE LimitInv'
  <2>1. CountSearches' <= CountSearches /\ CountSearches \in Nat /\ CountSearches' \in Nat
    <3>1. PICK T : T = Active'
      OBVIOUS
    <3>2. CountSearches' = Cardinality(T) /\ IsFiniteSet(T)
      BY <1>3, <3>1, ActiveFinite, FS_Subset DEF CountSearches, Active
    <3> QED
      BY <1>3, <3>2, CountLess, ActiveFinite, FS_CardinalityType
  <2>2. Limit \in Nat
    BY WizardConstants
  <2>3. \A q \in Updates : up'[q].pc = "create" /\ up'[q].h # "apiCreate" /\ "orphan" \notin faults'
                             => up'[q].raced \/ CountSearches < Limit
    BY <1>0 DEF LimitInv, Same
  <2> QED
    BY <2>1, <2>2, <2>3 DEF LimitInv
<1>4. ASSUME NEW b \in BOOLEAN, SetSearchActive(i, b), b /\ ~rows[i].active PROVE LimitInv'
  <2>1. \A q \in Updates : up[q].pc = "create" => up'[q] = [up[q] EXCEPT !.raced = TRUE]
    BY <1>4 DEF SetSearchActive
  <2>2. ASSUME NEW q \in Updates, up[q].pc = "create" PROVE up'[q].raced
    <3>1. PICK x : x = up[q]
      OBVIOUS
    <3>2. up'[q] = [x EXCEPT !.raced = TRUE] /\ "raced" \in DOMAIN x
      BY <1>0, <2>1, <2>2, <3>1 DEF UpsInv, IsUp
    <3> QED
      BY <3>2
  <2> QED
    BY <1>0, <2>2 DEF LimitInv, Same
<1>5. ASSUME NEW b \in BOOLEAN, SetSearchActive(i, b), ~(b /\ ~rows[i].active) PROVE LimitInv'
  <2>1. PICK x : x = [rows[i] EXCEPT !.active = b]
    OBVIOUS
  <2>2. x.active = b /\ rows[i].active \in BOOLEAN
    BY <1>0, <1>2, <2>1 DEF RowsInv, IsRow
  <2>3. rows' = [rows EXCEPT ![i] = x]
    BY <1>5, <2>1 DEF SetSearchActive
  <2>4. \A j \in Ids : rows'[j] = IF j = i THEN x ELSE rows[j]
    BY <1>0, <2>3 DEF RowsInv
  <2>5. Active' \subseteq Active
    BY <1>2, <1>5, <2>2, <2>4 DEF Active, Live
  <2> QED
    BY <1>3, <2>5
<1>6. ASSUME DeleteSearch(i) PROVE LimitInv'
  <2>1. \A j \in Ids : rows'[j] = IF j = i THEN NoRow ELSE rows[j]
    BY <1>0, <1>6 DEF DeleteSearch, RowsInv
  <2>2. Active' \subseteq Active
    BY <2>1 DEF Active, Live, NoRow
  <2> QED
    BY <1>3, <2>2
<1> QED
  BY <1>1, <1>4, <1>5, <1>6

\* Every step keeps the counts of who is about to insert.
LEMMA LimitNext ==
    ASSUME WizardInv, LockInv, LimitInv, [Next]_vars
    PROVE  LimitInv'
<1>0. UpsInv
  BY WizardParts
<1>1. ASSUME NEW p \in Updates, Receive(p) PROVE LimitInv'
  BY <1>0, <1>1, ReceiveMoves, LimitStep DEF Receive
<1>2. ASSUME NEW p \in Updates, Begin(p) PROVE LimitInv'
  <2>1. up'[p].pc # "create"
    BY <1>0, <1>2, BeginMoves DEF NoUp
  <2> QED
    BY <1>0, <1>2, <2>1, BeginMoves, LimitStep DEF Begin
<1>3. ASSUME NEW p \in Updates, Load(p) PROVE LimitInv'
  <2>1. up'[p].pc # "create"
    BY <1>0, <1>3, LoadMoves DEF NoUp
  <2>2. UNCHANGED <<rows, faults>>
    BY <1>3 DEF Load
  <2> QED
    BY <1>0, <1>3, <2>1, <2>2, LoadMoves, LimitStep
<1>4. ASSUME NEW p \in Updates, Open(p) PROVE LimitInv'
  <2>1. up'[p].pc # "create"
    BY <1>0, <1>4, OpenMoves DEF NoUp
  <2>2. UNCHANGED <<rows, faults>>
    BY <1>4 DEF Open
  <2> QED
    BY <1>0, <1>4, <2>1, <2>2, OpenMoves, LimitStep
<1>5. ASSUME NEW p \in Updates, Save(p) \/ Reset(p) PROVE LimitInv'
  <2>1. up'[p] = NoUp /\ \A q \in Updates \ {p} : Same(q)
    BY <1>0, <1>5, DoneMoves DEF Save, Reset
  <2>2. UNCHANGED rows /\ ("orphan" \in faults => "orphan" \in faults')
    BY <1>5 DEF Save, Reset
  <2>3. up'[p].pc # "create"
    BY <2>1 DEF NoUp
  <2> QED
    BY <2>1, <2>2, <2>3, LimitStep
<1>6. ASSUME NEW p \in Updates, checkSearchLimit(p) PROVE LimitInv'
  <2>1. up'[p].pc = "create" => CountSearches < Limit
    BY <1>0, <1>6, CountMoves DEF NoUp
  <2>2. UNCHANGED <<rows, faults>>
    BY <1>6 DEF checkSearchLimit
  <2> QED
    BY <1>0, <1>6, <2>1, <2>2, CountMoves, LimitStep
<1>7. CASE HourPasses \/ sweepStaleMaps \/ UNCHANGED vars
  <2>1. /\ UNCHANGED <<rows, up>>
        /\ "orphan" \in faults => "orphan" \in faults'
    BY <1>7 DEF HourPasses, sweepStaleMaps, vars
  <2>2. CountSearches' = CountSearches
    BY <2>1, CountSame
  <2> QED
    BY <2>1, <2>2 DEF LimitInv
<1> QED
  BY <1>0, <1>1, <1>2, <1>3, <1>4, <1>5, <1>6, <1>7, LimitCreate, LimitUpdate, LimitRequests
  DEF Next, Requests, Quiet

\* At the start no one inserts.
LEMMA LimitInit == ASSUME Init PROVE LimitInv
<1>1. \A p \in Updates : up[p].pc = "idle"
  BY DEF Init, NoUp
<1> QED
  BY <1>1 DEF LimitInv

-----------------------------------------------------------------------------
(* What a confirmation makes *)

ConfirmInv == WizardInv /\ LockInv /\ ShownInv /\ OwedInv /\ LimitInv

\* The whole invariant, in every behaviour.
LEMMA ConfirmAlways == Spec => []ConfirmInv
<1>1. Init => ConfirmInv
  BY WizardInit, LockInit, ShownInit, OwedInit, LimitInit DEF ConfirmInv
<1>2. ConfirmInv /\ [Next]_vars => ConfirmInv'
  BY WizardNext, LockNext, ShownNext, OwedNext, LimitNext DEF ConfirmInv
<1> QED
  BY <1>1, <1>2, PTL DEF Spec

\* A summary shown once makes at most one search however often Confirm is
\* pressed and whatever else the chat does (onConfirm), unless the reset was
\* lost or the mutex swept.
THEOREM OneSearchEach == Spec => []OneSearchPerSummary
<1>1. ConfirmInv => OneSearchPerSummary
  BY DEF ConfirmInv, OwedInv, OneSearchPerSummary
<1> QED
  BY <1>1, ConfirmAlways, PTL

\* Who writes: only its own step takes a goroutine out of create or update.
LEMMA WriteStep ==
    ASSUME UpsInv, [Next]_vars, NEW p \in Updates, up[p].pc \in {"create", "update"},
           up'[p].pc # up[p].pc
    PROVE  CreateSearch(p) \/ UpdateSearch(p)
<1>1. ASSUME NEW q \in Updates, Receive(q) \/ Begin(q) PROVE FALSE
  <2>1. p # q
    BY <1>1 DEF Receive, Begin
  <2>2. Same(p)
    BY <1>1, <2>1, ReceiveMoves, BeginMoves
  <2> QED
    BY <2>2 DEF Same
<1>2. ASSUME NEW q \in Updates, Works(q) PROVE q = p
  BY <1>2, WorksGoesOn DEF Same
<1>3. ~Requests
  BY RequestsSame DEF Same
<1>4. ~HourPasses /\ ~sweepStaleMaps /\ ~UNCHANGED vars
  BY DEF HourPasses, sweepStaleMaps, vars
<1>5. Works(p)
  BY <1>1, <1>2, <1>3, <1>4 DEF Next, Works, Requests, Quiet
<1> QED
  BY <1>5 DEF Works, Load, Open, Save, checkSearchLimit, Reset

SavesShown == \A p \in Updates :
    (up[p].h = "confirm" /\ up[p].pc \in {"create", "update"} /\ up'[p].pc = "reset")
       => \/ \E i \in Ids : rows'[i].live /\ rows'[i].by = "wizard" /\ rows'[i].f = shown
          \/ up[p].wd.torn \/ "orphan" \in faults
HoldsLimit == \A p \in Updates :
    (up[p].pc = "create" /\ up[p].h # "apiCreate" /\ up'[p].pc # "create" /\ rows' # rows)
       => CountSearches' <= Limit \/ up[p].raced \/ "orphan" \in faults

\* What is written is what was shown.
LEMMA WritesShown == ASSUME ConfirmInv, [Next]_vars PROVE SavesShown
<1> SUFFICES ASSUME NEW p \in Updates, up[p].h = "confirm", up[p].pc \in {"create", "update"},
                    up'[p].pc = "reset", ~up[p].wd.torn, "orphan" \notin faults
             PROVE  \E i \in Ids : rows'[i].live /\ rows'[i].by = "wizard" /\ rows'[i].f = shown
  BY DEF SavesShown
<1>0. UpsInv /\ RowsInv /\ WizardInv /\ IsUp(up[p])
  BY WizardParts DEF ConfirmInv, UpsInv
<1>1. up[p].wd.f = shown
  BY DEF ConfirmInv, ShownInv, Writes
<1>2. CASE CreateSearch(p)
  <2>1. up[p].pc = "create" /\ Ids \ Live # {} /\ rows' = [rows EXCEPT ![Least(Ids \ Live)] = NewRow(p)]
    <3>1. ~Done(p)
      BY <1>0, DoneMoves DEF NoUp
    <3> QED
      BY <1>2, <3>1 DEF CreateSearch
  <2>2. PICK i : i = Least(Ids \ Live)
    OBVIOUS
  <2>3. i \in Ids /\ rows'[i] = NewRow(p)
    BY <1>0, <2>1, <2>2, FreeId DEF RowsInv
  <2>4. NewRow(p) = Row(up[p].wd.f, "wizard", up[p].wd.torn)
    BY DEF NewRow
  <2>5. rows'[i].live /\ rows'[i].by = "wizard" /\ rows'[i].f = shown
    BY <1>1, <2>3, <2>4 DEF Row
  <2> QED
    BY <2>3, <2>5
<1>3. CASE UpdateSearch(p)
  <2>1. /\ up[p].wd.edit \in Live
        /\ rows' = [rows EXCEPT ![up[p].wd.edit] =
                      [Row(up[p].wd.f, "wizard", up[p].wd.torn)
                         EXCEPT !.active = rows[up[p].wd.edit].active]]
    <3>1. ~Done(p)
      BY <1>0, DoneMoves DEF NoUp
    <3> QED
      BY <1>3, <3>1 DEF UpdateSearch
  <2>2. PICK i : i = up[p].wd.edit
    OBVIOUS
  <2>3. PICK x : x = [Row(up[p].wd.f, "wizard", up[p].wd.torn) EXCEPT !.active = rows[up[p].wd.edit].active]
    OBVIOUS
  <2>4. x.live = TRUE /\ x.by = "wizard" /\ x.f = shown
    BY <1>1, <2>3 DEF Row
  <2>5. i \in Ids /\ rows'[i] = x
    BY <1>0, <2>1, <2>2, <2>3 DEF Live, RowsInv
  <2> QED
    BY <2>4, <2>5
<1> QED
  BY <1>0, <1>2, <1>3, WriteStep

\* What is inserted is within the limit.
LEMMA WritesWithin == ASSUME ConfirmInv, [Next]_vars PROVE HoldsLimit
<1> SUFFICES ASSUME NEW p \in Updates, up[p].pc = "create", up[p].h # "apiCreate",
                    up'[p].pc # "create", rows' # rows, ~up[p].raced, "orphan" \notin faults
             PROVE  CountSearches' <= Limit
  BY DEF HoldsLimit
<1>0. UpsInv /\ RowsInv /\ CountSearches < Limit /\ Limit \in Nat /\ CountSearches \in Nat
  BY WizardParts, WizardConstants, ActiveFinite DEF ConfirmInv, LimitInv
<1>1. CreateSearch(p)
  BY <1>0, WriteStep DEF UpdateSearch
<1>2. Ids \ Live # {} /\ rows' = [rows EXCEPT ![Least(Ids \ Live)] = NewRow(p)]
  BY <1>1 DEF CreateSearch
<1>3. PICK i : i = Least(Ids \ Live)
  OBVIOUS
<1>4. \A j \in Ids \ {i} : rows'[j] = rows[j]
  BY <1>0, <1>2, <1>3 DEF RowsInv
<1>5. Active' \subseteq Active \cup {i}
  BY <1>4 DEF Active, Live
<1>6. CountSearches' <= CountSearches + 1
  BY <1>5, CountMore
<1>7. CountSearches' \in Nat
  <2>1. PICK S, T : S = Active /\ T = Active'
    OBVIOUS
  <2>2. IsFiniteSet(S) /\ T \subseteq S \cup {i} /\ CountSearches' = Cardinality(T)
    BY <1>5, <2>1, ActiveFinite DEF CountSearches, Active
  <2>3. IsFiniteSet(T)
    BY <2>2, FS_AddElement, FS_Subset
  <2> QED
    BY <2>2, <2>3, FS_CardinalityType
<1> QED
  BY <1>0, <1>6, <1>7

\* A confirmation writes the search of the summary the user saw last, and a
\* search the bot creates keeps the chat within its limit, whatever the other
\* goroutines do, but for the causes named.
THEOREM ConfirmIsSound == Spec => ConfirmSound
<1>1. ConfirmInv /\ [Next]_vars => [SavesShown /\ HoldsLimit]_vars
  BY WritesShown, WritesWithin
<1>2. Spec => [][SavesShown]_vars /\ [][HoldsLimit]_vars
  BY <1>1, ConfirmAlways, PTL DEF Spec
<1> QED
  BY <1>2 DEF ConfirmSound, SavedAsShown, BotLimitHeld, SavesShown, HoldsLimit
=============================================================================
