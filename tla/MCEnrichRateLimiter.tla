------------------------ MODULE MCEnrichRateLimiter ------------------------
(***************************************************************************)
(* EnrichRateLimiter with the proportions of the default configuration     *)
(* (cooldown 15 min, window 10 min) and a coarse clock.                    *)
(***************************************************************************)
EXTENDS EnrichRateLimiter

Signs == {-1, 0, 1}
=============================================================================
