--------------------------- MODULE MCEnrichQueue ---------------------------
(***************************************************************************)
(* A small instance of EnrichQueue: a stream with room for one request and *)
(* two listings.  The first meets everything that may happen to a request. *)
(* The second only stands before or behind the first one in the backlog:   *)
(* nothing but a backfill asks for it, its page comes whole, and while it  *)
(* is there no call fails.                                                 *)
(***************************************************************************)
EXTENDS EnrichQueue

CONSTANTS t1, t2, w1

ItemPages == {{"place"}, {"km", "place"}, {"km", "place", "body"}}

\* The second listing is neither stored nor asked for.
Alone == t2 \notin rows /\ \A e \in Entries : token[e] # t2

\* Bounds on the second listing.  Each leaves another way to go on to every
\* action that Fairness is about.
FaultsAlone == (faults > 0 => Alone) /\ (faults' > 0 => Alone')
OnlyBackfilled == step = "idle" /\ step' = "check" /\ t2 \in todo' => Backfill
PageWhole == have'[t2] \in {{}, Fields} /\ attempts'[t2] = 0 /\ t2 \notin resting'

MCNext == Next /\ FaultsAlone /\ OnlyBackfilled /\ PageWhole
MCSpec == Init /\ [][MCNext]_vars /\ Fairness
=============================================================================
