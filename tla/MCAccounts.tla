----------------------------- MODULE MCAccounts -----------------------------
(* Two Firebase users, two web ids, one chat, two searches with filters of *)
(* one model that differ in a field the link compares.                     *)
EXTENDS Accounts, TLC

CONSTANTS a, b, r1, r2, f1, f2

KeyOf(f) == f
ModelOf(f) == IF f = NoFilter THEN NoFilter ELSE f1

Nobody == [owner |-> [w \in WebIds |-> NoOne], link |-> [c \in Chats |-> 0],
           rows |-> [i \in SearchIds |-> NoRow], ext |-> <<>>, token |-> {}]
Row(own, seq, f) == [own |-> own, seq |-> seq, f |-> f]

\* nobody; a web user with a search, a browser and a link token, whose chat has
\* an equal search; the same user linked
StoredAccounts ==
    LET user == [Nobody EXCEPT !.owner[1] = a, !.ext = <<[own |-> 1, live |-> TRUE]>>]
    IN {Nobody,
        [user EXCEPT !.token = {1}, !.rows[1] = Row(1, 2, f1), !.rows[2] = Row(11, 1, f1)],
        [user EXCEPT !.token = {1}, !.rows[1] = Row(1, 2, f2)],
        [user EXCEPT !.link[11] = 1, !.rows[1] = Row(11, 1, f1)]}
Symmetric == Permutations(Requests)
=============================================================================
