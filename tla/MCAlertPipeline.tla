-------------------------- MODULE MCAlertPipeline --------------------------
(***************************************************************************)
(* Small instances of AlertPipeline for TLC: one or two of everything.     *)
(***************************************************************************)
EXTENDS AlertPipeline, TLC

CONSTANTS c1, c2,           \* notifier workers
          t1, t2,           \* listings
          p1, p2,           \* ingest requests
          chat1, search1

OneRoute == {<<chat1, search1>>}

\* Requests and listings are interchangeable.
RequestSymmetry == Permutations({p1, p2}) \cup Permutations({t1, t2})
=============================================================================
