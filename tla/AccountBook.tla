---------------------------- MODULE AccountBook ----------------------------
(***************************************************************************)
(* What accounts promise about searches, however they are linked, moved    *)
(* and merged: a search stays with its filters until its deletion is asked *)
(* for, or a merge that looked at the searches found an equal one, which   *)
(* only its user takes away.  A search that was made between a merge's     *)
(* look and its end has no such promise.                                   *)
(***************************************************************************)
EXTENDS Naturals

CONSTANTS SearchIds, Filters, NoFilter, Chats, LinkKey(_), Model(_)

VARIABLES book,     \* filters of each search, or NoFilter
          asked,    \* searches whose user or an admin asked for deletion
          merged,   \* searches dropped by a merge
          looks,    \* merges under way, by chat: the book when they looked
          booting   \* the bot is starting

vars == <<book, asked, merged, looks, booting>>

Standing == {i \in SearchIds : book[i] # NoFilter}
Without(S) == [i \in SearchIds |-> IF i \in S THEN NoFilter ELSE book[i]]
Ended(c) == [d \in DOMAIN looks \ {c} |-> looks[d]]

Init == /\ book \in [SearchIds -> Filters \cup {NoFilter}]
        /\ asked = {} /\ merged = {}
        /\ looks = [c \in {} |-> book]
        /\ booting = FALSE

Create == /\ \E i \in SearchIds \ (Standing \cup asked \cup merged), f \in Filters :
                 book' = [book EXCEPT ![i] = f]
          /\ UNCHANGED <<asked, merged, looks, booting>>

Delete == \E S \in SUBSET Standing : /\ S # {}
                                     /\ book' = Without(S)
                                     /\ asked' = asked \cup S
                                     /\ UNCHANGED <<merged, looks, booting>>

Look(c) == /\ c \notin DOMAIN looks
           /\ looks' = [d \in DOMAIN looks \cup {c} |-> IF d = c THEN book ELSE looks[d]]
           /\ UNCHANGED <<book, asked, merged, booting>>

\* Linking takes searches for equal that agree in every field compared; the
\* bot's start is coarser, the same model is enough.
Equal(f, g) == IF booting THEN Model(f) = Model(g) ELSE LinkKey(f) = LinkKey(g)

\* Search i has an equal one in the look that stays, or went at somebody's wish.
Kept(saw, i, S) == \E j \in SearchIds \ S : /\ saw[j] # NoFilter /\ Equal(saw[j], saw[i])
                                            /\ j \in Standing \cup asked

Merge(c) == /\ c \in DOMAIN looks
            /\ \E S \in SUBSET Standing :
                  /\ \A i \in S : looks[c][i] # NoFilter => Kept(looks[c], i, S)
                  /\ book' = Without(S)
                  /\ merged' = merged \cup S
            /\ looks' = Ended(c)
            /\ booting' \in {FALSE, booting}
            /\ UNCHANGED asked

\* A merge is rolled back, or the bot starts and all are.
Fail(c) == /\ looks' = Ended(c)
           /\ booting' \in {FALSE, booting}
           /\ UNCHANGED <<book, asked, merged>>
Start == /\ looks' = [c \in {} |-> book]
         /\ booting' \in BOOLEAN
         /\ UNCHANGED <<book, asked, merged>>

Next == \/ Create \/ Delete \/ Start
        \/ \E c \in Chats : Look(c) \/ Merge(c) \/ Fail(c)

Spec == Init /\ [][Next]_vars
=============================================================================
