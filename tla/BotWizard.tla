----------------------------- MODULE BotWizard -----------------------------
(***************************************************************************)
(* One chat of the Telegram bot: the search wizard, whose session (state   *)
(* and answers) is a row of the users table, and the searches it writes.   *)
(* Updates are handled in goroutines of their own.  Most handlers hold the *)
(* chat's mutex, a map entry that an hourly sweep may delete; /watch,      *)
(* /cancel, /edit and the web API's createSearch hold none.  Every button  *)
(* of an earlier message can still be pressed.                             *)
(***************************************************************************)
EXTENDS Naturals, FiniteSets

CONSTANTS Updates,      \* goroutines handling updates of the chat
          Ids,          \* search ids, a set of positive naturals
          Years,        \* texts that are valid years
          Prices,       \* texts that are valid prices
          Stored,       \* searches when the bot starts: their ids, and the paused ones
          Limit,        \* maxSearches
          MaxUpdates    \* updates received in a behaviour

ASSUME WizardConstants == /\ Ids \subseteq Nat \ {0} /\ IsFiniteSet(Ids)
                          /\ IsFiniteSet(Updates)
                          /\ Years \subseteq Nat \ {0} /\ Years # {}
                          /\ Prices \subseteq Nat \ {0} /\ Prices # {}
                          /\ Stored \subseteq [ids : SUBSET Ids, paused : SUBSET Ids]
                          /\ Limit \in Nat \ {0} /\ MaxUpdates \in Nat

VARIABLES session,   \* users row: state, state_data
          rows,      \* the chat's searches: id -> row, or NoRow
          up,        \* what each goroutine is doing
          entry,     \* chatMu's entry for the chat: a mutex, 0 for none
          fresh,     \* the entry's lastUsed is less than an hour ago
          left,      \* updates still to come
          shown,     \* history: the filters of the last summary shown
          owed,      \* history: a summary was shown and not yet confirmed
          faults     \* history: "lost" reset writes, "orphan" mutexes, "double" creations

vars == <<session, rows, up, entry, fresh, left, shown, owed, faults>>

States == {"idle", "ask_source", "ask_manufacturer", "search_manufacturer",
           "ask_model", "search_model", "ask_year_min", "ask_year_max",
           "ask_price_max", "ask_price_min", "ask_gear_box", "ask_engine",
           "ask_max_km", "ask_max_hand", "ask_keywords", "ask_exclude_keys", "confirm"}

\* Search filters.  opt: which of the optional filters are set; web: seller
\* filter, price-only and photo-only, which only the web UI can set.
NoFilters == [mfr |-> 0, mdl |-> 0, ymin |-> 0, ymax |-> 0,
              pmax |-> 0, pmin |-> 0, opt |-> {}, web |-> FALSE]

\* WizardData; at is UpdatedAt, torn is history: the data does not belong to
\* the state it was saved with.
WizardData == [src |-> FALSE, f |-> NoFilters, edit |-> 0, at |-> "never", torn |-> FALSE]

NoRow == [live |-> FALSE]
Row(f, by, torn) == [live |-> TRUE, active |-> TRUE, f |-> f, by |-> by, torn |-> torn]
Live == {i \in Ids : rows[i].live}
CountSearches == Cardinality({i \in Live : rows[i].active})

Session(st, w) == [st |-> st, wd |-> w]
saveWizardState(st, w) == Session(st, [w EXCEPT !.at = "now"])
Cleared(st) == Session(st, WizardData)
Stay == Session("stay", WizardData)

Set(w, k, v) == [w EXCEPT !.f = [@ EXCEPT ![k] = v]]
Choose(w, o, b) == Set(w, "opt", IF b THEN w.f.opt \cup {o} ELSE w.f.opt \ {o})

-----------------------------------------------------------------------------
(* The wizard's steps: the session a handler saves, from the data it loaded. *)

ToggleSource(src) == ~src
onSourceToggle(w) == saveWizardState("ask_source", [w EXCEPT !.src = ToggleSource(w.src)])
sourceDoneLocked(w) == IF w.src THEN saveWizardState("ask_manufacturer", w) ELSE Stay
onSourceDone(w) == sourceDoneLocked(w)
onLegacySourceSelected(w) == sourceDoneLocked([w EXCEPT !.src = TRUE])
onMfrSearch(w) == saveWizardState("search_manufacturer", w)
onMdlSearch(w) == saveWizardState("search_model", w)
handleManufacturerSearch(w) == saveWizardState("ask_manufacturer", w)
handleModelSearch(w) == saveWizardState("ask_model", w)

\* 0 is the "any" button.
onManufacturerSelected(w, id) ==
    IF id = 0 THEN saveWizardState("ask_year_min", Set(Set(w, "mfr", 0), "mdl", 0))
              ELSE saveWizardState("ask_model", Set(w, "mfr", id))
onModelSelected(w, id) == saveWizardState("ask_year_min", Set(w, "mdl", id))

handleYearMin(w, t) ==
    IF t \in Years THEN saveWizardState("ask_year_max", Set(w, "ymin", t)) ELSE Stay
handleYearMax(w, t) ==
    IF t \in Years /\ t >= w.f.ymin
      THEN saveWizardState("ask_price_max", Set(w, "ymax", t)) ELSE Stay
handlePriceMax(w, t) ==
    IF t \in Prices THEN saveWizardState("ask_price_min", Set(w, "pmax", t)) ELSE Stay
handlePriceMin(w, t) ==
    IF t = 0 \/ (t \in Prices /\ ~(w.f.pmax > 0 /\ t > w.f.pmax))
      THEN saveWizardState("ask_gear_box", Set(w, "pmin", t)) ELSE Stay
onSkipPriceMin(w) == saveWizardState("ask_gear_box", Set(w, "pmin", 0))
onGearBoxSelected(w, b) == saveWizardState("ask_engine", Choose(w, "gear", b))
onEngineSelected(w, b) == saveWizardState("ask_max_km", Choose(w, "cc", b))
onMaxKmSelected(w, b) == saveWizardState("ask_max_hand", Choose(w, "km", b))
onMaxHandSelected(w, b) == saveWizardState("ask_keywords", Choose(w, "hand", b))
onSkipKeywords(w) == saveWizardState("ask_exclude_keys", Choose(w, "kw", FALSE))
onSkipExcludeKeys(w) == saveWizardState("confirm", Choose(w, "ex", FALSE))
handleKeywordsInput(w, t) == saveWizardState("ask_exclude_keys", Choose(w, "kw", t # 0))
handleExcludeKeysInput(w, t) == saveWizardState("confirm", Choose(w, "ex", t # 0))
onEditRestart(w) == saveWizardState("ask_source", [WizardData EXCEPT !.edit = w.edit])
onCancelCallback == Cleared("idle")
handleCancel == Cleared("idle")

handleWatch == Cleared("ask_source")
onWatchFromCallback == Cleared("ask_source")

\* /edit copies the search into the wizard and starts at the source.
handleEdit(id) ==
    saveWizardState("ask_source", [WizardData EXCEPT !.src = TRUE, !.f = rows[id].f, !.edit = id])

\* Free text: the state read decides the handler; a session last saved more
\* than wizardTimeout ago is cancelled instead.
handleDefault(st, w, t) ==
    IF w.at = "old" THEN Cleared("idle") ELSE
    CASE st = "search_manufacturer" -> handleManufacturerSearch(w)
      [] st = "search_model"        -> handleModelSearch(w)
      [] st = "ask_year_min"        -> handleYearMin(w, t)
      [] st = "ask_year_max"        -> handleYearMax(w, t)
      [] st = "ask_price_max"       -> handlePriceMax(w, t)
      [] st = "ask_price_min"       -> handlePriceMin(w, t)
      [] st = "ask_keywords"        -> handleKeywordsInput(w, t)
      [] st = "ask_exclude_keys"    -> handleExcludeKeysInput(w, t)
      [] OTHER                      -> Stay

\* Mutant: the kilometre button no longer checks the state
ExpectAnyForKm(h) ==
    CASE h = "mfr" -> {"ask_manufacturer"}     [] h = "mdl" -> {"ask_model"}
      [] h = "skipPmin" -> {"ask_price_min"}   [] h = "gear" -> {"ask_gear_box"}
      [] h = "engine" -> {"ask_engine"}        [] h = "km" -> States
      [] h = "hand" -> {"ask_max_hand"}        [] h = "skipKw" -> {"ask_keywords"}
      [] h = "skipEx" -> {"ask_exclude_keys"}  [] h = "confirm" -> {"confirm"}
      [] h = "text" -> States \ {"idle"}       [] OTHER -> States

\* expectStateOrNotify: the state a button is valid in; the source and search
\* buttons, restart and cancel are valid in all.
expectState(h) ==
    CASE h = "mfr" -> {"ask_manufacturer"}     [] h = "mdl" -> {"ask_model"}
      [] h = "skipPmin" -> {"ask_price_min"}   [] h = "gear" -> {"ask_gear_box"}
      [] h = "engine" -> {"ask_engine"}        [] h = "km" -> {"ask_max_km"}
      [] h = "hand" -> {"ask_max_hand"}        [] h = "skipKw" -> {"ask_keywords"}
      [] h = "skipEx" -> {"ask_exclude_keys"}  [] h = "confirm" -> {"confirm"}
      [] h = "text" -> States \ {"idle"}       [] OTHER -> States
StateChecked(h) == expectState(h) # States

dispatchCallbackData(h, w, a) ==
    CASE h = "toggle" -> onSourceToggle(w)     [] h = "legacy" -> onLegacySourceSelected(w)
      [] h = "done" -> onSourceDone(w)         [] h = "mfrSearch" -> onMfrSearch(w)
      [] h = "mdlSearch" -> onMdlSearch(w)     [] h = "mfr" -> onManufacturerSelected(w, a)
      [] h = "mdl" -> onModelSelected(w, a)    [] h = "skipPmin" -> onSkipPriceMin(w)
      [] h = "gear" -> onGearBoxSelected(w, a = 1)
      [] h = "engine" -> onEngineSelected(w, a = 1)
      [] h = "km" -> onMaxKmSelected(w, a = 1) [] h = "hand" -> onMaxHandSelected(w, a = 1)
      [] h = "skipKw" -> onSkipKeywords(w)     [] h = "skipEx" -> onSkipExcludeKeys(w)
      [] h = "restart" -> onEditRestart(w)     [] h = "cancelCb" -> onCancelCallback

Plain == {"toggle", "legacy", "done", "mfrSearch", "mdlSearch", "skipPmin",
          "skipKw", "skipEx", "restart", "cancelCb", "confirm", "watchCb", "quick", "copy"}
Binary == {"mfr", "mdl", "gear", "engine", "km", "hand"}
Unlocked == {"watch", "cancel", "edit", "apiCreate"}
Inputs == [h : Plain \cup (Unlocked \ {"edit"}), a : {0}]
          \cup [h : Binary, a : {0, 1}]
          \cup [h : {"text"}, a : {0} \cup Years \cup Prices]
          \cup [h : {"edit"}, a : Ids]

\* Handlers that take the chat's lock.
lockChat(h) == h \notin Unlocked

-----------------------------------------------------------------------------
(* Searches other than the wizard's. *)

Least(S) == CHOOSE x \in S : \A y \in S : x <= y
Whole == [NoFilters EXCEPT !.mfr = 1, !.mdl = 1, !.ymin = Least(Years),
                           !.ymax = Least(Years), !.pmax = Least(Prices)]
onQuickStart == Row(Whole, "quick", FALSE)
onShareCopy == Row(Whole, "copy", FALSE)
createSearchRecord == Row([NoFilters EXCEPT !.web = TRUE], "web", FALSE)

-----------------------------------------------------------------------------
(* Sessions found in the users table when the bot starts: each state with  *)
(* the answers that lead to it, of a new search or of an edit of a row.    *)

Rank(st) == CASE st \in {"idle", "ask_source"} -> 0
              [] st \in {"ask_manufacturer", "search_manufacturer"} -> 1
              [] st \in {"ask_model", "search_model"} -> 2
              [] st = "ask_year_min" -> 3   [] st = "ask_year_max" -> 4
              [] st = "ask_price_max" -> 5  [] st = "ask_price_min" -> 6
              [] OTHER -> 7

Answers(st) == [NoFilters EXCEPT !.mfr = IF Rank(st) >= 2 THEN 1 ELSE 0,
                                 !.ymin = IF Rank(st) >= 4 THEN Whole.ymin ELSE 0,
                                 !.ymax = IF Rank(st) >= 5 THEN Whole.ymax ELSE 0,
                                 !.pmax = IF Rank(st) >= 6 THEN Whole.pmax ELSE 0,
                                 !.pmin = IF Rank(st) >= 7 THEN Whole.pmax ELSE 0]
Resumed(st, e) ==
    IF st = "idle" THEN Cleared("idle")
    ELSE saveWizardState(st, [WizardData EXCEPT !.src = TRUE, !.edit = e,
             !.f = IF e = 0 THEN Answers(st) ELSE [Whole EXCEPT !.web = TRUE]])

NoUp == [pc |-> "idle", h |-> "none", a |-> 0, mu |-> 0, st |-> "idle", wd |-> WizardData,
         out |-> Stay, raced |-> FALSE]

StoredRow(s, i) ==
    IF i \in s.ids
    THEN [Row([Whole EXCEPT !.web = TRUE], "web", FALSE) EXCEPT !.active = i \notin s.paused]
    ELSE NoRow

Init == /\ \E s \in Stored : rows = [i \in Ids |-> StoredRow(s, i)]
        /\ session \in {Resumed(st, e) : st \in States, e \in {0} \cup Live}
        /\ up = [p \in Updates |-> NoUp]
        /\ entry = 0 /\ fresh = FALSE
        /\ left = MaxUpdates
        /\ shown = session.wd.f
        /\ owed = (session.st = "confirm")
        /\ faults = {}

-----------------------------------------------------------------------------
(* Goroutines.  mu # 0 and a pc past "wait": the mutex is held.            *)

Holds(p) == up[p].mu # 0 /\ up[p].pc \notin {"idle", "wait"}
Mutexes == 1 .. Cardinality(Updates) + 1
NewMutex == Least({m \in Mutexes : \A p \in Updates : up[p].mu # m})

\* LoadOrStore of the chat's map entry.
Receive(p) ==
    /\ up[p].pc = "idle" /\ left > 0
    /\ \E i \in Inputs :
         /\ IF lockChat(i.h)
            THEN LET m == IF entry = 0 THEN NewMutex ELSE entry IN
                 /\ entry' = m
                 /\ up' = [up EXCEPT ![p] = [NoUp EXCEPT !.pc = "wait", !.h = i.h,
                                                         !.a = i.a, !.mu = m]]
            ELSE /\ up' = [up EXCEPT ![p] = [NoUp EXCEPT !.pc = "open", !.h = i.h, !.a = i.a]]
                 /\ UNCHANGED entry
    /\ left' = left - 1
    /\ UNCHANGED <<session, rows, fresh, shown, owed, faults>>

Done(p) == up' = [up EXCEPT ![p] = NoUp]
Go(p, pc) == up' = [up EXCEPT ![p].pc = pc]
Creators == {"quick", "copy", "apiCreate"}

\* Lock, then the state: a button of another state, or a read that fails,
\* ends the handler.
Begin(p) ==
    /\ up[p].pc = "wait"
    /\ \A q \in Updates : Holds(q) => up[q].mu # up[p].mu
    /\ fresh' = (fresh \/ entry = up[p].mu)
    /\ \/ /\ up[p].h \in Creators \cup {"watchCb"}
          /\ Go(p, "count")
       \/ /\ up[p].h \notin Creators \cup {"watchCb"}
          /\ session.st \in expectState(up[p].h)
          /\ up' = [up EXCEPT ![p].pc = "load", ![p].st = session.st]
       \/ Done(p)
    /\ UNCHANGED <<session, rows, entry, left, shown, owed, faults>>

\* loadWizardData: empty when the read fails.
loadWizardData(p) ==
    {[session.wd EXCEPT !.torn = @ \/ (StateChecked(up[p].h) /\ session.st # up[p].st)],
     [WizardData EXCEPT !.torn = TRUE]}

Load(p) ==
    /\ up[p].pc = "load"
    /\ \E w \in loadWizardData(p) :
         IF up[p].h = "confirm"
         THEN up' = [up EXCEPT ![p].wd = w, ![p].st = "idle", ![p].pc = IF w.edit > 0 THEN "update" ELSE "count"]
         ELSE LET out == IF up[p].h = "text" THEN handleDefault(up[p].st, w, up[p].a)
                         ELSE dispatchCallbackData(up[p].h, w, up[p].a)
              IN IF out = Stay THEN Done(p)
                 ELSE up' = [up EXCEPT ![p] = [NoUp EXCEPT !.pc = "save", !.h = up[p].h,
                                                           !.mu = up[p].mu, !.out = out]]
    /\ UNCHANGED <<session, rows, entry, fresh, left, shown, owed, faults>>

\* Handlers without the lock: /watch counts first, /edit reads the search.
Open(p) ==
    /\ up[p].pc = "open"
    /\ \/ up[p].h \in {"watch", "apiCreate"} /\ Go(p, "count")
       \/ up[p].h = "cancel" /\ up' = [up EXCEPT ![p].pc = "save", ![p].out = handleCancel]
       \/ /\ up[p].h = "edit" /\ up[p].a \in Live
          /\ up' = [up EXCEPT ![p].pc = "save", ![p].out = handleEdit(up[p].a)]
       \/ up[p].h = "edit" /\ Done(p)
    /\ UNCHANGED <<session, rows, entry, fresh, left, shown, owed, faults>>

\* UpdateUserState with the handler's result; a failed write changes nothing,
\* but the legacy source button writes twice and the second may fail alone.
Save(p) ==
    /\ up[p].pc = "save"
    /\ \/ /\ session' = up[p].out
          /\ shown' = IF session'.st = "confirm" THEN session'.wd.f ELSE shown
          /\ owed' = (owed \/ session'.st = "confirm")
       \/ UNCHANGED <<session, shown, owed>>
       \/ /\ up[p].h = "legacy"
          /\ session' = [up[p].out EXCEPT !.st = "ask_source"]
          /\ UNCHANGED <<shown, owed>>
    /\ Done(p)
    /\ UNCHANGED <<rows, entry, fresh, left, faults>>

checkSearchLimit(p) ==
    /\ up[p].pc = "count"
    /\ \/ /\ CountSearches < Limit
          /\ IF up[p].h \in {"watch", "watchCb"}
             THEN up' = [up EXCEPT ![p].pc = "save",
                           ![p].out = IF up[p].h = "watch" THEN handleWatch ELSE onWatchFromCallback]
             ELSE Go(p, "create")
       \/ Done(p)
    /\ UNCHANGED <<session, rows, entry, fresh, left, shown, owed, faults>>

\* Mutant: the insert leaves the minimum price out
NewRowNoPriceMin(p) ==
    CASE up[p].h = "confirm"   -> Row([up[p].wd.f EXCEPT !.pmin = 0], "wizard", up[p].wd.torn)
      [] up[p].h = "quick"     -> onQuickStart
      [] up[p].h = "copy"      -> onShareCopy
      [] up[p].h = "apiCreate" -> createSearchRecord

NewRow(p) == CASE up[p].h = "confirm"   -> Row(up[p].wd.f, "wizard", up[p].wd.torn)
               [] up[p].h = "quick"     -> onQuickStart
               [] up[p].h = "copy"      -> onShareCopy
               [] up[p].h = "apiCreate" -> createSearchRecord

\* The count some other handler in flight read is no longer true.
Race(p) == [q \in Updates |-> IF q # p /\ up[q].pc = "create" THEN [up[q] EXCEPT !.raced = TRUE]
                              ELSE up[q]]

CreateSearch(p) ==
    /\ up[p].pc = "create"
    /\ \/ /\ Ids \ Live # {}
          /\ rows' = [rows EXCEPT ![Least(Ids \ Live)] = NewRow(p)]
          /\ IF up[p].h = "confirm"
             THEN /\ up' = [up EXCEPT ![p].pc = "reset"]
                  /\ faults' = IF owed THEN faults ELSE faults \cup {"double"}
                  /\ owed' = FALSE
             ELSE /\ up' = [IF lockChat(up[p].h) THEN up ELSE Race(p) EXCEPT ![p] = NoUp]
                  /\ UNCHANGED <<faults, owed>>
       \/ Done(p) /\ UNCHANGED <<rows, faults, owed>>
    /\ UNCHANGED <<session, entry, fresh, left, shown>>

\* onConfirm of an edit: a search deleted meanwhile is an error, and the
\* session stays where it is.
UpdateSearch(p) ==
    /\ up[p].pc = "update"
    /\ \/ /\ up[p].wd.edit \in Live
          /\ rows' = [rows EXCEPT ![up[p].wd.edit] =
                        [Row(up[p].wd.f, "wizard", up[p].wd.torn)
                           EXCEPT !.active = rows[up[p].wd.edit].active]]
          /\ Go(p, "reset")
          /\ owed' = FALSE
       \/ Done(p) /\ UNCHANGED <<rows, owed>>
    /\ UNCHANGED <<session, entry, fresh, left, shown, faults>>

\* Mutant: the session is not cleared after the insert
ResetKeepingSession(p) ==
    /\ up[p].pc = "reset"
    /\ Done(p)
    /\ UNCHANGED <<session, rows, entry, fresh, left, shown, owed, faults>>

\* The session is cleared; onConfirm ignores a failure.
Reset(p) ==
    /\ up[p].pc = "reset"
    /\ \/ session' = Cleared("idle") /\ UNCHANGED faults
       \/ faults' = faults \cup {"lost"} /\ UNCHANGED session
    /\ Done(p)
    /\ UNCHANGED <<rows, entry, fresh, left, shown, owed>>

\* An hour with no update: the session and the mutex's lastUsed are old.
HourPasses ==
    /\ \A p \in Updates : up[p].pc = "idle"
    /\ fresh' = FALSE
    /\ session' = [session EXCEPT !.wd.at = IF @ = "now" THEN "old" ELSE @]
    /\ session' # session \/ fresh
    /\ UNCHANGED <<rows, up, entry, left, shown, owed, faults>>

\* sweepStaleMaps: TryLock succeeds, lastUsed is old, the entry is deleted;
\* a handler may already hold a pointer to it.
sweepStaleMaps ==
    /\ entry # 0 /\ ~fresh
    /\ \A p \in Updates : Holds(p) => up[p].mu # entry
    /\ entry' = 0
    /\ faults' = IF \E p \in Updates : up[p].mu = entry THEN faults \cup {"orphan"} ELSE faults
    /\ UNCHANGED <<session, rows, up, fresh, left, shown, owed>>

-----------------------------------------------------------------------------
(* Pausing, resuming and deleting a search: no lock, no limit check.       *)

SetSearchActive(i, b) ==
    /\ rows' = [rows EXCEPT ![i].active = b]
    /\ up' = IF b /\ ~rows[i].active
             THEN [q \in Updates |-> IF up[q].pc = "create" THEN [up[q] EXCEPT !.raced = TRUE]
                                     ELSE up[q]]
             ELSE up
DeleteSearch(i) == rows' = [rows EXCEPT ![i] = NoRow] /\ UNCHANGED up

Request == /\ left > 0 /\ left' = left - 1
           /\ UNCHANGED <<session, entry, fresh, shown, owed, faults>>
handlePause == Request /\ \E i \in Live : rows[i].active /\ SetSearchActive(i, FALSE)
handleResume == Request /\ \E i \in Live : ~rows[i].active /\ SetSearchActive(i, TRUE)
setSearchActive == Request /\ \E i \in Live, b \in BOOLEAN : SetSearchActive(i, b)
handleStop == Request /\ \E i \in Live : DeleteSearch(i)
onDeleteSearch == Request /\ \E i \in Live : DeleteSearch(i)
deleteSearch == Request /\ \E i \in Live : DeleteSearch(i)

Quiet == left = 0 /\ (\A p \in Updates : up[p].pc = "idle") /\ UNCHANGED vars

Next == \/ \E p \in Updates : \/ Receive(p) \/ Begin(p) \/ Load(p) \/ Open(p) \/ Save(p)
                              \/ checkSearchLimit(p) \/ CreateSearch(p) \/ UpdateSearch(p)
                              \/ Reset(p)
        \/ HourPasses \/ sweepStaleMaps
        \/ handlePause \/ handleResume \/ setSearchActive
        \/ handleStop \/ onDeleteSearch \/ deleteSearch
        \/ Quiet

Spec == Init /\ [][Next]_vars

-----------------------------------------------------------------------------
(* Properties. *)

\* Every search and session has its fields' types (users.go, searches.go rows).
TypeOK ==
    /\ session.st \in States /\ session.wd.edit \in {0} \cup Ids
    /\ \A p \in Updates : up[p].mu \in {0} \cup Mutexes /\ up[p].out.st \in States \cup {"stay"}
    /\ entry \in {0} \cup Mutexes
    /\ left \in 0 .. MaxUpdates

\* What a session in state st has been told: the bounds asked before st are
\* there and in order.
Told(st, f) ==
    /\ Rank(st) >= 4 => f.ymin \in Years
    /\ Rank(st) >= 5 => f.ymax \in Years /\ f.ymin <= f.ymax
    /\ Rank(st) >= 6 => f.pmax \in Prices
    /\ Rank(st) >= 7 => f.pmin <= f.pmax

\* Whatever old buttons are pressed, two at a time and with commands that do
\* not take the chat's lock in between, the wizard never reaches a state
\* without the answers of the states before it, and never writes a search
\* without a year range and a price range in order (wizard.go) -- unless
\* loadWizardData failed or read the data of another state than the one checked.
AnswersComplete ==
    /\ session.wd.torn \/ Told(session.st, session.wd.f)
    /\ \A i \in Live : rows[i].by = "wizard" => rows[i].torn \/ Told("confirm", rows[i].f)

\* Confirming writes the search of the summary the user saw last (onConfirm),
\* unless the data was torn or two handlers held different mutexes.
SavedAsShown ==
    [][\A p \in Updates :
         (up[p].h = "confirm" /\ up[p].pc \in {"create", "update"} /\ up'[p].pc = "reset")
            => \/ \E i \in Ids : rows'[i].live /\ rows'[i].by = "wizard" /\ rows'[i].f = shown
               \/ up[p].wd.torn \/ "orphan" \in faults]_vars

\* A summary shown once makes at most one search however often Confirm is
\* pressed: the chat lock covers the state check, the insert and the reset.
\* Only a reset write that failed, whose error onConfirm drops, or a mutex the
\* sweep took from under a waiting handler lets a second one through.
OneSearchPerSummary == "double" \in faults => faults \cap {"lost", "orphan"} # {}

\* checkSearchLimit and the insert are one critical section: a search the bot
\* creates takes the chat over the limit only when a resume or the web API,
\* which take no lock, came in between, or the mutex was swept.
BotLimitHeld ==
    [][\A p \in Updates :
         (up[p].pc = "create" /\ up[p].h # "apiCreate" /\ up'[p].pc # "create" /\ rows' # rows)
            => CountSearches' <= Limit \/ up[p].raced \/ "orphan" \in faults]_vars

\* What a confirmation writes: the search of the summary, within the limit.
ConfirmSound == SavedAsShown /\ BotLimitHeld
=============================================================================
