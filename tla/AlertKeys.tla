----------------------------- MODULE AlertKeys -----------------------------
(***************************************************************************)
(* What alerts are about.  A route is a <<chat, search>> pair (Alert.ChatID*)
(* and Alert.SearchID); a key is a listing on a route, the primary key of  *)
(* seen_listings.                                                          *)
(***************************************************************************)
CONSTANTS Routes,           \* <<chat, search>> pairs an alert can be for
          Tokens            \* listing tokens

Keys == Routes \X Tokens
KeysOf(r, T) == {r} \X T
Chat(r) == r[1]

\* broker.Alert: its route and the listings it shows.  A price-drop message
\* carries no token.  The text is left out: nothing below reads it.
Alert == [route : Routes, tokens : SUBSET Tokens]
=============================================================================
