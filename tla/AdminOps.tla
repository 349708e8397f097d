------------------------------ MODULE AdminOps ------------------------------
(***************************************************************************)
(* The administrator's destructive endpoints: a purge or a reset needs a   *)
(* confirm token minted shortly before; deleting a row does not.           *)
(***************************************************************************)
EXTENDS UserLists

CONSTANT ConfirmTTL  \* confirmTokenTTL
ASSUME AdminConstants == ConfirmTTL \in Nat

VARIABLES confirm,   \* confirmTokenStore: the outstanding token of each user, 0 for none
          minted,    \* every token minted: for whom, until when, and whether it was ever stored
          vacuuming, \* vacuumMu
          ops        \* history: purges and resets that went through, with their token

confirms == <<confirm, minted, vacuuming, ops>>

ConfirmsInit ==
    /\ confirm = [u \in Users |-> 0]
    /\ minted = <<>>
    /\ vacuuming = FALSE
    /\ ops = <<>>

\* issue draws the token and its expiry before it takes the lock.
mintConfirmToken(r) ==
    /\ At(r, "handle", "confirmToken")
    /\ minted' = Append(minted, [to |-> req[r].who, until |-> now + ConfirmTTL, replaced |-> FALSE])
    /\ req' = [req EXCEPT ![r].pc = "store", ![r].n = Len(minted) + 1]
    /\ UNCHANGED <<confirm, vacuuming, ops>>

\* It replaces the user's outstanding one.
issue(r) ==
    /\ At(r, "store", "confirmToken") /\ End(r)
    /\ confirm' = [confirm EXCEPT ![req[r].who] = req[r].n]
    /\ minted' = [i \in DOMAIN minted |-> IF i = confirm[req[r].who] THEN [minted[i] EXCEPT !.replaced = TRUE] ELSE minted[i]]
    /\ UNCHANGED <<vacuuming, ops>>

\* mutant: the token stays after it was used
consumeAgain(u, tok, ok) ==
    /\ ok = (tok # 0 /\ confirm[u] # 0 /\ now <= minted[confirm[u]].until /\ tok = confirm[u])
    /\ UNCHANGED confirm

\* consume: a missing token leaves the store alone, any other burns the
\* outstanding one and passes if it is that one and has not expired.
consume(u, tok, ok) ==
    /\ ok = (tok # 0 /\ confirm[u] # 0 /\ now <= minted[confirm[u]].until /\ tok = confirm[u])
    /\ confirm' = IF tok = 0 THEN confirm ELSE [confirm EXCEPT ![u] = 0]

\* The client sends any token it has seen, a made-up one or none.
requireConfirmToken(r) ==
    /\ req[r].pc = "handle" /\ req[r].op \in {"purge", "resetAll"}
    /\ \E tok \in 0 .. Len(minted) + 1, ok \in BOOLEAN :
         /\ consume(req[r].who, tok, ok)
         /\ req' = [req EXCEPT ![r] = IF ok THEN [@ EXCEPT !.pc = "run", !.n = tok, !.at = now] ELSE NoRequest]
    /\ UNCHANGED <<minted, vacuuming, ops>>

Performed(r) == ops' = Append(ops, [by |-> req[r].who, token |-> req[r].n, at |-> req[r].at])

Purgeable == {"listing_history", "listing_user_seen", "saved_listings", "hidden_listings", "other"}

\* the rows of the tables are gone; last_seen_at stays
Emptied(tables) ==
    /\ saved' = IF "saved_listings" \in tables THEN <<>> ELSE saved
    /\ hidden' = IF "hidden_listings" \in tables THEN <<>> ELSE hidden
    /\ seen' = IF "listing_user_seen" \in tables THEN {} ELSE seen
    /\ rows' = IF "listing_history" \in tables
               THEN [t \in Tokens |-> IF rows[t].in THEN NoRow ELSE rows[t]] ELSE rows

PurgeTable(table) == Emptied({table} \cap Purgeable)

adminPurgeTable(r) ==
    /\ At(r, "run", "purge") /\ End(r)
    /\ \E table \in Purgeable : PurgeTable(table)
    /\ Performed(r)
    /\ UNCHANGED <<stamps, wanted, since, view, told, confirm, minted, vacuuming>>

resetTables == Purgeable

\* ResetAllData counts and truncates them in one transaction.
ResetAllData == Emptied(resetTables)

adminResetAll(r) ==
    /\ At(r, "run", "resetAll") /\ End(r)
    /\ ResetAllData
    /\ Performed(r)
    /\ UNCHANGED <<stamps, wanted, since, view, told, confirm, minted, vacuuming>>

\* No token asked for: one row of the account.
adminDeleteListing(r) ==
    /\ At(r, "handle", "deleteListing") /\ End(r)
    /\ \E t \in Tokens : rows' = IF rows[t].in THEN [rows EXCEPT ![t] = NoRow] ELSE rows
    /\ UNCHANGED <<saved, hidden, stamps, wanted, seen, since, view, told, confirms>>

\* TryLock, or 409
adminVacuum(r) ==
    /\ \/ /\ At(r, "handle", "vacuum")
          /\ IF vacuuming THEN End(r) /\ UNCHANGED vacuuming ELSE Goto(r, "vacuum") /\ vacuuming' = TRUE
       \/ At(r, "vacuum", "vacuum") /\ End(r) /\ vacuuming' = FALSE
    /\ UNCHANGED <<lists, confirm, minted, ops>>

AdminListsStep(r) == adminPurgeTable(r) \/ adminResetAll(r) \/ adminDeleteListing(r)
AdminTokenStep(r) == mintConfirmToken(r) \/ issue(r) \/ requireConfirmToken(r)

(***************************************************************************)
(* Properties                                                              *)
(***************************************************************************)

\* Every purge and reset was confirmed by a token minted for the admin who ran it,
\* not older than its lifetime and not replaced by a newer one when it was used,
\* and no token confirmed two of them.
ConfirmedOnce ==
    \A i \in DOMAIN ops :
      /\ minted[ops[i].token].to = ops[i].by
      /\ ops[i].at <= minted[ops[i].token].until
      /\ ~minted[ops[i].token].replaced
      /\ \A j \in DOMAIN ops : ops[j].token = ops[i].token => j = i
=============================================================================
