---------------------------- MODULE DedupClaims ----------------------------
(***************************************************************************)
(* The dedup store (table seen_listings): one claim per (listing, chat,    *)
(* search).  A claim is what keeps a listing from being alerted again, so  *)
(* a claim that nobody acts on is an alert the user never gets, and a      *)
(* claim given back too early is an alert the user gets twice.             *)
(*                                                                         *)
(* The two history variables record, per key, that the code met a          *)
(* situation in which it gives up the guarantee: `forfeited` holds keys    *)
(* whose claim stands although nothing will deliver them, `repeatable`     *)
(* keys that may be shown more than once.  No action reads them.           *)
(***************************************************************************)
EXTENDS AlertKeys

VARIABLES seen,             \* rows of seen_listings
          forfeited,        \* history: claims nothing will act on
          repeatable        \* history: keys that may be shown again

dedupVars == <<seen, forfeited, repeatable>>

DedupType ==
    /\ seen \subseteq Keys
    /\ forfeited \subseteq seen
    /\ repeatable \subseteq Keys

DedupInit ==
    /\ seen = {}
    /\ forfeited = {}
    /\ repeatable = {}

\* INSERT ... ON CONFLICT DO UPDATE RETURNING (xmax = 0): the caller owns the
\* claim only when the row was not there.
IsNewAlways(k) == k \in Keys
IsNew(k) == k \notin seen
ClaimNew(k) == seen' = seen \cup {k}

\* DELETE of the row, whoever inserted it.  The key can be claimed again, so
\* whatever was given up for the old claim is over.
ReleaseClaim(k) ==
    /\ seen' = seen \ {k}
    /\ forfeited' = forfeited \ {k}

\* Nothing will act on the claims among K that stand.
Forfeit(K) == forfeited' = forfeited \cup (K \cap seen)
=============================================================================
