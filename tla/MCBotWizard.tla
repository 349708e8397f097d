---------------------------- MODULE MCBotWizard ----------------------------
(* Two goroutines, three search ids, two years and two prices; every stored  *)
(* session is an initial state.                                            *)
EXTENDS BotWizard, TLC

\* no search, or one and a paused one
StoredRows == {[ids |-> {}, paused |-> {}], [ids |-> {1, 2}, paused |-> {2}]}
Symmetric == Permutations(Updates)
=============================================================================
