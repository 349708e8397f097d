--------------------------- MODULE MCListingStore ---------------------------
(***************************************************************************)
(* A user with two overlapping searches that are fetched separately, and a *)
(* listing both accept.                                                    *)
(***************************************************************************)
EXTENDS ListingStore, TLC

CONSTANTS c1, s1, s2, k1, k2, t1

ChatOfSearch == [s \in Searches |-> c1]
KeyOfSearch == (s1 :> k1) @@ (s2 :> k2)
AllWanted == [s \in Searches |-> Tokens]
AllServed == [k \in FeedKeys |-> Tokens]
CreationOrder == (s1 :> 1) @@ (s2 :> 2)
=============================================================================
