--------------------------- MODULE AccountsProofs ---------------------------
(***************************************************************************)
(* Theorems about Accounts, for any number of users, ids, chats, searches, *)
(* requests and events: linking, moving and merging lose no search (the    *)
(* refinement of AccountBook), what a linked user owns is in one place but *)
(* for late writes, whoever is served is who asked, and nobody holds more  *)
(* browser tokens than the cap and those who store one at once explain.    *)
(***************************************************************************)
EXTENDS Accounts, FiniteSetTheorems, SequenceTheorems, WellFoundedInduction, TLAPS

Rows == [own : All, seq : Nat, f : Filters] \cup {NoRow}

\* A row is one of a search, or none.
IsRow(x) == /\ DOMAIN x = {"own", "seq", "f"}
            /\ x = [f \in DOMAIN x |-> x[f]]
            /\ (x.own \in All /\ x.f \in Filters) \/ x = NoRow

\* The fields of a request.
IsRequest(q) ==
    /\ DOMAIN q = {"pc", "uid", "op", "web", "new", "tries", "id"}
    /\ q = [f \in DOMAIN q |-> q[f]]
    /\ q.pc # "idle" /\ q.op # "push" => q.uid \in Uids
    /\ q.pc \in {"select", "insert", "put"} => q.op # "push"
    /\ q.pc = "insert" => q.new \in WebIds
    /\ q.pc \in {"put", "canon", "serve", "store"} =>
          q.web \in All /\ (q.op # "push" => q.web \in WebIds)
    /\ q.pc \in {"serve", "store"} => q.id \in {q.web} \cup Chats
    /\ q.pc = "serve" /\ q.op = "link" => q.id = q.web

\* The types the arguments need.
RequestShape == /\ req = [r \in Requests |-> req[r]]
                /\ \A r \in Requests : IsRequest(req[r])
                /\ cache \in [Uids -> WebIds \cup {0}]
RowShape == /\ rows = [i \in SearchIds |-> rows[i]]
            /\ \A i \in SearchIds : IsRow(rows[i])
            /\ asked \cup merged \subseteq SearchIds
            /\ \A i \in asked \cup merged : rows[i] = NoRow
LinkShape == /\ link \in [Chats -> WebIds \cup {0}]
             /\ bot \in [Chats -> WebIds \cup {0}]
             /\ token \subseteq WebIds
             /\ active \in [Chats -> BOOLEAN]
             /\ boot \subseteq {c \in Chats : link[c] \in WebIds}

\* A move under way.  The rows it has changed are at its web id still; of the
\* others there, those it saw have one alike at the chat, or had one whose
\* deletion was asked for; and once the DELETE is done what is left is late.
MoveFields == {"web", "step", "moved", "dropped", "listings", "saw"}
Replaced(c, i) == \E j \in SearchIds : /\ move[c].saw[j] # NoFilter
                                       /\ <<move[c].saw[j], move[c].saw[i]>> \in Alike
                                       /\ rows[j].own = c \/ j \in asked
MoveOk(c) ==
    /\ c \in Chats /\ DOMAIN move[c] = MoveFields /\ move[c].web \in WebIds
    /\ move[c].moved \cap move[c].dropped = {}
    /\ IF boot = {} THEN bot[c] = move[c].web ELSE DOMAIN move = {c}
    /\ \A i \in move[c].moved \cup move[c].dropped : i \in SearchIds /\ rows[i].own = move[c].web
    /\ \A i \in SearchIds : move[c].saw[i] # NoFilter => rows[i] # NoRow \/ i \in asked \cup merged
    /\ \A i \in SearchIds \ move[c].moved :
          rows[i].own = move[c].web /\ move[c].saw[i] # NoFilter => Replaced(c, i)
    /\ move[c].step = "commit" => \A i \in SearchIds \ (move[c].moved \cup move[c].dropped) :
          rows[i].own = move[c].web => <<0, i>> \in late
MoveShape == /\ \A c \in DOMAIN move : MoveOk(c)
             /\ \A c, d \in DOMAIN move : move[c].web = move[d].web => c = d
Shape == RequestShape /\ RowShape /\ LinkShape /\ MoveShape

\* Chats, web ids and no id are apart.
LEMMA IdsApart == 0 \notin WebIds /\ 0 \notin Chats /\ WebIds \cap Chats = {} /\ 0 \notin All
<1>1. WebIds = 1 .. Cardinality(WebIds) /\ Cardinality(WebIds) \in Nat
  BY IdentityConstants, FS_CardinalityType
<1>2. 0 \notin WebIds
  BY <1>1
<1> QED
  BY <1>2, AccountConstants DEF All

-----------------------------------------------------------------------------
(* Types *)

\* The start.
LEMMA ShapeInit == Init => Shape
<1> SUFFICES ASSUME Init PROVE Shape
  OBVIOUS
<1>1. PICK s \in Stored :
        /\ link = s.link /\ rows = s.rows /\ ext = s.ext /\ token = s.token
        /\ IdentityInit(s.owner, {w \in WebIds : s.owner[w] = NoOne /\ Linked(w) # {}})
  BY DEF Init
<1>2. /\ s.link \in [Chats -> WebIds \cup {0}] /\ s.rows \in [SearchIds -> Rows]
      /\ s.token \subseteq WebIds
  BY StoredConstants DEF Rows, NoRow, All
<1>3. RequestShape
  BY <1>1 DEF IdentityInit, RequestShape, IsRequest, NoRequest
<1>4. RowShape
  <2>1. \A x \in Rows : IsRow(x)
    BY DEF Rows, IsRow, NoRow
  <2> QED
    BY <1>1, <1>2, <2>1 DEF RowShape, Init
<1>5. LinkShape
  BY <1>1, <1>2 DEF LinkShape, Init
<1>6. MoveShape
  BY DEF MoveShape, Init, NoMoves
<1> QED
  BY <1>3, <1>4, <1>5, <1>6 DEF Shape

\* Beginning, going on with or giving up a move changes nothing others see.
LEMMA MovesUnseen ==
    ASSUME NEW c, LinkTelegramToWeb(c) \/ LinkFails(c) \/ migrateUserData(c) \/ DropSearches(c) \/ BackfillFails
    PROVE  UNCHANGED <<owner, cache, req, admin, spent, gone, active, token, asked, ext, faults,
                       link, rows, kept, by, merged, late>>
BY DEF LinkTelegramToWeb, LinkFails, migrateUserData, DropSearches, BackfillFails, MoveSearches,
   unmoved, identity

\* A request that ends, arrives or goes on is a request still.
LEMMA RequestStep ==
    ASSUME RequestShape, [Next]_vars
    PROVE  RequestShape'
<1>0. \A r \in Requests : IsRequest(req[r])
  BY DEF RequestShape
<1>n. IsRequest(NoRequest)
  BY DEF IsRequest, NoRequest
<1>e. ASSUME NEW r \in Requests, NEW q, IsRequest(q), req' = [req EXCEPT ![r] = q]
      PROVE  /\ req' = [s \in Requests |-> req'[s]]
             /\ \A s \in Requests : IsRequest(req'[s])
  BY <1>e, <1>0 DEF RequestShape
<1>w. WebIds \subseteq Nat /\ 0 \notin WebIds /\ NoOne \notin Uids
  <2>1. WebIds = 1 .. Cardinality(WebIds) /\ Cardinality(WebIds) \in Nat
    BY IdentityConstants, FS_CardinalityType
  <2> QED
    BY <2>1, IdentityConstants
<1>1. ASSUME UNCHANGED <<req, cache>> PROVE RequestShape'
  BY <1>1 DEF RequestShape, IsRequest
<1>2. ASSUME NEW r \in Requests, End(r), UNCHANGED cache PROVE RequestShape'
  <2>1. /\ req' = [s \in Requests |-> req'[s]]
        /\ \A s \in Requests : IsRequest(req'[s])
    BY <1>2, <1>n, <1>e DEF End
  <2> QED
    BY <1>2, <2>1 DEF RequestShape, IsRequest
<1>3. ASSUME NEW r \in Requests, Arrive(r) PROVE RequestShape'
  <2>1. PICK u \in Uids, op \in Ops : 
          req' = [req EXCEPT ![r] = [NoRequest EXCEPT !.uid = u, !.op = op, !.web = cache[u],
                                      !.pc = IF cache[u] # 0 THEN "canon" ELSE "select"]]
    BY <1>3 DEF Arrive
  <2>2. cache[u] \in WebIds \cup {0}
    BY DEF RequestShape
  <2>3. IsRequest([NoRequest EXCEPT !.uid = u, !.op = op, !.web = cache[u],
                                    !.pc = IF cache[u] # 0 THEN "canon" ELSE "select"])
    BY <2>2, <1>w, AccountConstants DEF IsRequest, NoRequest, All
  <2>4. /\ req' = [s \in Requests |-> req'[s]]
        /\ \A s \in Requests : IsRequest(req'[s])
    BY <2>1, <2>3, <1>e
  <2> QED
    BY <1>3, <2>4 DEF Arrive, RequestShape, IsRequest
<1>4. ASSUME NEW r \in Requests, Select(r) PROVE RequestShape'
  <2>1. CASE End(r)
    BY <2>1, <1>2, <1>4 DEF Select
  <2>2. ASSUME NEW w \in IdOf(req[r].uid), req' = [req EXCEPT ![r].web = w, ![r].pc = "put"]
        PROVE RequestShape'
    <3>1. IsRequest([req[r] EXCEPT !.web = w, !.pc = "put"])
      BY <2>2, <1>0, <1>4 DEF IsRequest, IdOf, Select, All
    <3>2. req' = [req EXCEPT ![r] = [req[r] EXCEPT !.web = w, !.pc = "put"]]
      BY <2>2 DEF RequestShape
    <3> QED
      BY <3>1, <3>2, <1>e, <1>4 DEF Select, RequestShape, IsRequest
  <2>3. ASSUME NextId \in WebIds, req' = [req EXCEPT ![r].new = NextId, ![r].pc = "insert"]
        PROVE RequestShape'
    <3>1. IsRequest([req[r] EXCEPT !.new = NextId, !.pc = "insert"])
      BY <2>3, <1>0, <1>4 DEF IsRequest, Select
    <3>2. req' = [req EXCEPT ![r] = [req[r] EXCEPT !.new = NextId, !.pc = "insert"]]
      BY <2>3 DEF RequestShape
    <3> QED
      BY <3>1, <3>2, <1>e, <1>4 DEF Select, RequestShape, IsRequest
  <2> QED
    BY <1>4, <2>1, <2>2, <2>3 DEF Select
<1>5. ASSUME NEW r \in Requests, Insert(r) PROVE RequestShape'
  <2>1. CASE End(r)
    BY <2>1, <1>2, <1>5 DEF Insert
  <2>2. CASE req' = [req EXCEPT ![r].web = req[r].new, ![r].pc = "put"]
    <3>1. IsRequest([req[r] EXCEPT !.web = req[r].new, !.pc = "put"])
      BY <1>0, <1>5 DEF IsRequest, Insert, All
    <3>2. req' = [req EXCEPT ![r] = [req[r] EXCEPT !.web = req[r].new, !.pc = "put"]]
      BY <2>2 DEF RequestShape
    <3> QED
      BY <3>1, <3>2, <1>e, <1>5 DEF Insert, RequestShape, IsRequest
  <2>3. CASE req' = [req EXCEPT ![r].tries = @ + 1, ![r].pc = "select"]
    <3>1. IsRequest([req[r] EXCEPT !.tries = @ + 1, !.pc = "select"])
      BY <1>0, <1>5 DEF IsRequest, Insert
    <3>2. req' = [req EXCEPT ![r] = [req[r] EXCEPT !.tries = @ + 1, !.pc = "select"]]
      BY <2>3 DEF RequestShape
    <3> QED
      BY <3>1, <3>2, <1>e, <1>5 DEF Insert, RequestShape, IsRequest
  <2> QED
    BY <1>5, <2>1, <2>2, <2>3 DEF Insert
<1>6. ASSUME NEW r \in Requests, Put(r) PROVE RequestShape'
  <2>1. IsRequest([req[r] EXCEPT !.web = req[r].web, !.pc = "canon"])
    BY <1>0, <1>6 DEF IsRequest, Put
  <2>2. req' = [req EXCEPT ![r] = [req[r] EXCEPT !.web = req[r].web, !.pc = "canon"]]
    BY <1>6 DEF Put, Resolved, RequestShape
  <2>3. cache' \in [Uids -> WebIds \cup {0}]
    <3>1. req[r].web \in WebIds
      BY <1>0, <1>6 DEF IsRequest, Put
    <3>2. \A u \in Uids : cache[u] \in WebIds \cup {0}
      BY DEF RequestShape
    <3> QED
      BY <1>6, <3>1, <3>2 DEF Put
  <2> QED
    BY <2>1, <2>2, <2>3, <1>e DEF RequestShape, IsRequest
<1>7. CASE Expire \/ clear
  BY <1>7, <1>0 DEF Expire, clear, RequestShape, IsRequest
<1>8. CASE RestartServer
  BY <1>8, <1>n DEF RestartServer, RequestShape, IsRequest
<1>9. ASSUME NEW r \in Requests, resolveCanonicalChatID(r) PROVE RequestShape'
  <2>1. PICK a \in {req[r].web} \cup Chats :
          /\ req' = [req EXCEPT ![r].id = a, ![r].pc = "serve"]
          /\ req[r].op = "link" => a = req[r].web
    BY <1>9 DEF resolveCanonicalChatID, GetLinkedTelegramUser, Linked
  <2>2. IsRequest([req[r] EXCEPT !.id = a, !.pc = "serve"])
    BY <1>0, <1>9, <2>1 DEF IsRequest, resolveCanonicalChatID
  <2>3. req' = [req EXCEPT ![r] = [req[r] EXCEPT !.id = a, !.pc = "serve"]]
    BY <2>1 DEF RequestShape
  <2>4. /\ req' = [s \in Requests |-> req'[s]]
        /\ \A s \in Requests : IsRequest(req'[s])
    BY <1>e, <2>2, <2>3
  <2>5. UNCHANGED cache
    BY <1>9 DEF resolveCanonicalChatID
  <2> QED
    BY <2>4, <2>5 DEF RequestShape, IsRequest
<1>10. ASSUME NEW r \in Requests, CapExtTokens(r) PROVE RequestShape'
  <2>2. IsRequest([req[r] EXCEPT !.pc = "store"])
    BY <1>0, <1>10 DEF IsRequest, CapExtTokens, Serve
  <2>3. req' = [req EXCEPT ![r] = [req[r] EXCEPT !.pc = "store"]]
    BY <1>10 DEF CapExtTokens, RequestShape
  <2>4. /\ req' = [s \in Requests |-> req'[s]]
        /\ \A s \in Requests : IsRequest(req'[s])
    BY <1>e, <2>2, <2>3
  <2>5. UNCHANGED cache
    BY <1>10 DEF CapExtTokens
  <2> QED
    BY <2>4, <2>5 DEF RequestShape, IsRequest
<1>11. ASSUME NEW r \in Requests,
              createSearch(r) \/ deleteSearch(r) \/ saveListing(r) \/ ingestListings(r)
                \/ postTelegramLink(r) \/ CreateExtToken(r) \/ revokeExtTokens(r)
       PROVE  RequestShape'
  BY <1>11, <1>2 DEF createSearch, deleteSearch, saveListing, ingestListings, postTelegramLink,
     CreateExtToken, revokeExtTokens, others
<1>12. ASSUME NEW r \in Requests, ResolveExtToken(r) PROVE RequestShape'
  <2>1. PICK a, u : /\ Exists(a)
                    /\ req' = [req EXCEPT ![r] = [NoRequest EXCEPT !.op = "push", !.web = a,
                                                    !.pc = "canon", !.uid = u]]
    BY <1>12 DEF ResolveExtToken
  <2>2. IsRequest([NoRequest EXCEPT !.op = "push", !.web = a, !.pc = "canon", !.uid = u])
    BY <2>1 DEF IsRequest, NoRequest, Exists, All
  <2>3. /\ req' = [s \in Requests |-> req'[s]]
        /\ \A s \in Requests : IsRequest(req'[s])
    BY <2>1, <2>2, <1>e
  <2>4. UNCHANGED cache
    BY <1>12 DEF ResolveExtToken
  <2> QED
    BY <2>3, <2>4 DEF RequestShape, IsRequest
<1>13. ASSUME NEW c \in Chats, LinkTelegramToWeb(c) \/ LinkFails(c) \/ migrateUserData(c)
                                 \/ DropSearches(c) \/ BackfillFails
       PROVE  RequestShape'
  BY <1>1, <1>13, MovesUnseen
<1>14. CASE \/ \E n \in 1 .. MaxExt : ExpireExt(n)
            \/ \E c \in Chats : ConsumeLinkToken(c) \/ CommitMove(c) \/ botCreates(c)
            \/ BackfillLinkedData \/ deactivateBlocked \/ adminSetUserActive
            \/ ReactivateUsersWithSearches \/ SyncUserActiveStatus
            \/ \E w \in WebIds : adminDeleteUser(w)
            \/ UNCHANGED vars
  BY <1>1, <1>14 DEF ExpireExt, ConsumeLinkToken, CommitMove, unmoved, botCreates,
     BackfillLinkedData, deactivateBlocked, adminSetUserActive, SetUserActive,
     ReactivateUsersWithSearches, SyncUserActiveStatus, adminDeleteUser, DeleteIdentity, vars, identity
<1>15. CASE BackfillFails
  <2>1. UNCHANGED <<req, cache>>
    BY <1>15 DEF BackfillFails, unmoved, identity
  <2> QED
    BY <1>1, <2>1
<1> QED
  BY <1>3, <1>4, <1>5, <1>6, <1>7, <1>8, <1>9, <1>10, <1>11, <1>12, <1>13, <1>14, <1>15 DEF Next, ResolveStep

-----------------------------------------------------------------------------
(* Searches *)

\* A move under way goes on, or none of it changes.
Same == UNCHANGED <<move, boot>> /\ \A c \in DOMAIN move : boot = {} => bot'[c] = bot[c]
\* A search is added at account a; searches nobody holds are deleted.
Added(i, a, f, n) ==
    /\ i \in SearchIds \ (asked \cup merged) /\ a \in All /\ f \in Filters /\ rows[i] = NoRow
    /\ rows' = [rows EXCEPT ![i] = [own |-> a, f |-> f, seq |-> n]]
    /\ late' = IF Linking(a) THEN late \cup {<<0, i>>} ELSE late
    /\ UNCHANGED <<asked, merged, link>>
Deleted(S) ==
    /\ S \subseteq SearchIds \ Held /\ \A i \in S : rows[i].own \in All
    /\ rows' = [i \in SearchIds |-> IF i \in S THEN NoRow ELSE rows[i]]
    /\ asked' = asked \cup S
    /\ UNCHANGED <<late, merged, link>>
\* A move of the searches of w to c begins; one fails; all are rolled back.
NewMove(c, w) == [web |-> w, step |-> "delete", moved |-> Moving(c, w), dropped |-> {}, listings |-> {},
                  saw |-> [i \in SearchIds |-> rows[i].f]]
Began(c, w) ==
    /\ c \in Chats \ DOMAIN move /\ w \in WebIds /\ \A d \in DOMAIN move : move[d].web # w
    /\ IF boot = {} THEN bot[c] = w ELSE DOMAIN move = {}
    /\ With(c, NewMove(c, w))
    /\ UNCHANGED <<rows, asked, merged, link, late, bot, boot>>
Failed(c) ==
    /\ c \in Chats /\ Without(c) /\ boot = {}
    /\ \A d \in DOMAIN move \ {c} : bot'[d] = bot[d]
    /\ UNCHANGED <<rows, asked, merged, link, late, boot>>
Stopped == move' = NoMoves /\ UNCHANGED <<rows, asked, merged, link, late>>

\* What a step may do to the searches.
RowsMove ==
    \/ Same /\ UNCHANGED <<rows, asked, merged, link>> /\ late \subseteq late'
    \/ Same /\ \E i, a, f, n : Added(i, a, f, n)
    \/ Same /\ \E S : Deleted(S)
    \/ \E c, w : Began(c, w)
    \/ \E c \in Chats : DropSearches(c) \/ CommitMove(c) \/ Failed(c)
    \/ Stopped

\* Every step does one of these.
LEMMA EveryMove ==
    ASSUME Shape, [Next]_vars
    PROVE  RowsMove
<1>0. /\ \A r \in Requests : IsRequest(req[r])
      /\ 0 \notin All /\ 0 \notin WebIds /\ Chats \subseteq All /\ WebIds \subseteq All
      /\ \A c \in Chats : link[c] \in WebIds \cup {0} /\ bot[c] \in WebIds \cup {0}
  BY IdsApart DEF Shape, RequestShape, LinkShape, All
<1>s. UNCHANGED <<move, boot, bot>> => Same
  BY DEF Same
<1>1. ASSUME Same, UNCHANGED <<rows, asked, merged, link>>, late \subseteq late' PROVE RowsMove
  BY <1>1 DEF RowsMove
<1>2. ASSUME NEW a \in All, NEW f \in Filters, NewSearch(a, f), UNCHANGED <<asked, merged, link, move, boot, bot>>
      PROVE RowsMove
  <2>1. PICK i \in SearchIds \ (asked \cup merged) :
          /\ rows[i] = NoRow
          /\ rows' = [rows EXCEPT ![i] = [own |-> a, f |-> f, seq |-> NextSeq(a)]]
          /\ Late(a, <<0, i>>)
    BY <1>2 DEF NewSearch
  <2>2. Added(i, a, f, NextSeq(a))
    BY <1>2, <2>1 DEF Added, Late
  <2> QED
    BY <1>2, <1>s, <2>2 DEF RowsMove
<1>3. ASSUME NEW r \in Requests, createSearch(r) PROVE RowsMove
  <2>0. UNCHANGED <<asked, merged, link, move, boot, bot>>
    BY <1>3 DEF createSearch, others, moves
  <2>1. CASE UNCHANGED <<rows, late, active>>
    BY <1>1, <1>s, <2>0, <2>1
  <2>2. CASE Exists(req[r].id) /\ \E f \in Filters : NewSearch(req[r].id, f)
    <3>1. req[r].id \in All
      BY <2>2 DEF Exists, All
    <3> QED
      BY <1>2, <2>0, <2>2, <3>1
  <2> QED
    BY <1>3, <2>1, <2>2 DEF createSearch
<1>4. ASSUME NEW r \in Requests, deleteSearch(r) PROVE RowsMove
  <2>0. UNCHANGED <<late, merged, link, move, boot, bot>>
    BY <1>4 DEF deleteSearch, others, moves
  <2>1. CASE UNCHANGED <<rows, asked>>
    BY <1>1, <1>s, <2>0, <2>1
  <2>2. ASSUME NEW i \in Of(req[r].id) \ Held, rows' = [rows EXCEPT ![i] = NoRow], asked' = asked \cup {i}
        PROVE RowsMove
    <3>1. req[r].id \in All
      BY <1>0, <1>4 DEF IsRequest, deleteSearch, Serve
    <3>2. i \in SearchIds \ Held /\ rows[i].own \in All
      BY <2>2, <3>1 DEF Of
    <3>3. rows' = [j \in SearchIds |-> IF j \in {i} THEN NoRow ELSE rows[j]]
      BY <2>2 DEF Shape, RowShape
    <3>4. Deleted({i})
      BY <2>0, <2>2, <3>2, <3>3 DEF Deleted
    <3> QED
      BY <1>s, <2>0, <3>4 DEF RowsMove
  <2> QED
    BY <1>4, <2>1, <2>2 DEF deleteSearch
<1>5. ASSUME NEW r \in Requests, saveListing(r) \/ ingestListings(r) PROVE RowsMove
  <2>1. UNCHANGED <<rows, asked, merged, link, move, boot, bot>>
    BY <1>5 DEF saveListing, ingestListings, others, moves
  <2>2. late \subseteq late'
    BY <1>5 DEF saveListing, ingestListings, Keep, Late
  <2> QED
    BY <1>1, <1>s, <2>1, <2>2
<1>6. CASE \E r \in Requests : postTelegramLink(r) \/ CapExtTokens(r) \/ CreateExtToken(r)
             \/ revokeExtTokens(r) \/ resolveCanonicalChatID(r) \/ ResolveExtToken(r)
  <2>1. UNCHANGED <<rows, asked, merged, link, move, boot, bot, late>>
    BY <1>6 DEF postTelegramLink, CapExtTokens, CreateExtToken, revokeExtTokens, others,
     resolveCanonicalChatID, ResolveExtToken, telegram, moves
  <2> QED
    BY <1>1, <1>s, <2>1
<1>7. CASE \/ \E n \in 1 .. MaxExt : ExpireExt(n)
           \/ (ResolveStep \/ RestartServer) /\ UNCHANGED <<telegram, rows, kept, ext, late, asked, faults>>
           \/ deactivateBlocked \/ adminSetUserActive
           \/ ReactivateUsersWithSearches \/ SyncUserActiveStatus
           \/ UNCHANGED vars
  <2>1. UNCHANGED <<rows, asked, merged, link, move, boot, bot, late>>
    BY <1>7 DEF ExpireExt, telegram, moves, deactivateBlocked, adminSetUserActive, SetUserActive,
       ReactivateUsersWithSearches, SyncUserActiveStatus, vars
  <2> QED
    BY <1>1, <1>s, <2>1
<1>8. ASSUME NEW c \in Chats, ConsumeLinkToken(c) PROVE RowsMove
  <2>1. boot = {} /\ bot[c] = 0 /\ \A d \in Chats : d # c => bot'[d] = bot[d]
    BY <1>8 DEF ConsumeLinkToken, Shape, LinkShape
  <2>2. \A d \in DOMAIN move : d \in Chats /\ bot[d] \in WebIds
    BY <2>1 DEF Shape, MoveShape, MoveOk
  <2>3. UNCHANGED <<rows, asked, merged, link, move, boot, late>>
    BY <1>8 DEF ConsumeLinkToken
  <2>4. Same
    BY <1>0, <2>1, <2>2, <2>3 DEF Same
  <2> QED
    BY <1>1, <2>3, <2>4
<1>9. ASSUME NEW c \in Chats, NEW w \in WebIds, MoveSearches(c, w),
             IF boot = {} THEN bot[c] = w ELSE DOMAIN move = {}
      PROVE  RowsMove
  <2>1. Began(c, w)
    BY <1>9 DEF MoveSearches, Began, NewMove, unmoved
  <2> QED
    BY <2>1 DEF RowsMove
<1>10. ASSUME NEW c \in Chats, LinkTelegramToWeb(c) PROVE RowsMove
  BY <1>0, <1>9, <1>10 DEF LinkTelegramToWeb
<1>11. ASSUME NEW c \in Chats, migrateUserData(c) PROVE RowsMove
  <2>1. CASE link[c] \in WebIds
    BY <1>9, <1>11, <2>1 DEF migrateUserData
  <2>2. CASE link[c] = 0
    BY <1>0, <1>11, <2>2 DEF migrateUserData, Shape, LinkShape
  <2> QED
    BY <1>0, <2>1, <2>2
<1>12. ASSUME NEW c \in Chats, LinkFails(c) PROVE RowsMove
  <2>1. Failed(c)
    BY <1>12 DEF LinkFails, Failed, unmoved, Shape, LinkShape, MoveShape, MoveOk
  <2> QED
    BY <2>1 DEF RowsMove
<1>13. ASSUME NEW c \in Chats, DropSearches(c) \/ CommitMove(c) PROVE RowsMove
  BY <1>13 DEF RowsMove
<1>14. ASSUME NEW c \in Chats, botCreates(c) PROVE RowsMove
  <2>1. UNCHANGED <<asked, merged, link, move, boot, bot>>
    BY <1>14 DEF botCreates, telegram, moves
  <2> QED
    BY <1>0, <1>2, <1>14, <2>1 DEF botCreates
<1>15. CASE BackfillLinkedData \/ BackfillFails
  BY <1>15 DEF BackfillLinkedData, BackfillFails, unmoved, Stopped, RowsMove
<1>16. ASSUME NEW w \in WebIds, adminDeleteUser(w) PROVE RowsMove
  <2>1. /\ UNCHANGED <<late, merged, link, move, boot, bot>>
        /\ Of(w) \subseteq SearchIds \ Held /\ \A i \in Of(w) : rows[i].own \in All
        /\ asked' = asked \cup Of(w)
    BY <1>0, <1>16 DEF adminDeleteUser, Of
  <2>2. rows' = [i \in SearchIds |-> IF i \in Of(w) THEN NoRow ELSE rows[i]]
    BY <1>16 DEF adminDeleteUser, Of
  <2>3. Deleted(Of(w))
    BY <2>1, <2>2 DEF Deleted
  <2> QED
    BY <1>s, <2>1, <2>3 DEF RowsMove
<1> QED
  BY <1>3, <1>4, <1>5, <1>6, <1>7, <1>8, <1>10, <1>11, <1>12, <1>13, <1>14, <1>15, <1>16 DEF Next

\* The rows stay rows.
LEMMA RowStep ==
    ASSUME Shape, RowsMove
    PROVE  RowShape'
<1>0. /\ IsRow(NoRow) /\ \A i \in SearchIds : IsRow(rows[i])
      /\ Chats \subseteq All /\ RowShape
  BY DEF IsRow, NoRow, Shape, RowShape, All
<1>1. CASE UNCHANGED <<rows, asked, merged>>
  BY <1>0, <1>1 DEF RowShape
<1>2. ASSUME NEW i, NEW a, NEW f, NEW n, Added(i, a, f, n) PROVE RowShape'
  <2>1. IsRow([own |-> a, f |-> f, seq |-> n])
    BY <1>2 DEF Added, IsRow
  <2> QED
    BY <1>0, <1>2, <2>1 DEF Added, RowShape
<1>3. ASSUME NEW S, Deleted(S) PROVE RowShape'
  BY <1>0, <1>3 DEF Deleted, RowShape
<1>4. ASSUME NEW c \in Chats, CommitMove(c) PROVE RowShape'
  <2>m. PICK m : m = move[c]
    OBVIOUS
  <2>0. /\ c \in DOMAIN move /\ MoveOk(c)
        /\ rows' = [i \in SearchIds |-> IF i \in m.moved THEN [rows[i] EXCEPT !.own = c]
                                        ELSE IF i \in m.dropped THEN NoRow ELSE rows[i]]
        /\ merged' = merged \cup m.dropped /\ asked' = asked
    BY <1>4, <2>m DEF CommitMove, unmoved, Shape, MoveShape
  <2>1. \A i \in m.moved \cup m.dropped : i \in SearchIds /\ rows[i].own \in WebIds
    BY <2>m, <2>0 DEF MoveOk
  <2>2. \A i \in m.moved \cup m.dropped : rows[i] # NoRow
    BY <2>1, IdsApart DEF NoRow
  <2>3. ASSUME NEW i \in m.moved PROVE IsRow([rows[i] EXCEPT !.own = c])
    BY <1>0, <2>1, <2>2 DEF IsRow
  <2>4. \A i \in SearchIds : IsRow(rows'[i])
    BY <1>0, <2>0, <2>3
  <2>5. \A i \in asked' \cup merged' : i \in SearchIds /\ rows'[i] = NoRow
    <3>1. \A i \in asked \cup merged : i \in SearchIds /\ rows[i] = NoRow /\ i \notin m.moved \cup m.dropped
      BY <1>0, <2>2 DEF RowShape
    <3>2. \A i \in asked \cup merged : rows'[i] = NoRow
      BY <2>0, <3>1
    <3>3. \A i \in m.dropped : i \in SearchIds /\ (i \notin m.moved => rows'[i] = NoRow)
      BY <2>0, <2>1
    <3>4. \A i \in m.dropped : i \notin m.moved
      BY <2>m, <2>0 DEF MoveOk
    <3> QED
      BY <2>0, <3>1, <3>2, <3>3, <3>4
  <2> QED
    BY <2>0, <2>4, <2>5 DEF RowShape
<1>5. ASSUME NEW c \in Chats, DropSearches(c) \/ Failed(c) PROVE UNCHANGED <<rows, asked, merged>>
  BY <1>5 DEF DropSearches, Failed, unmoved
<1>6. ASSUME NEW c, NEW w, Began(c, w) PROVE UNCHANGED <<rows, asked, merged>>
  BY <1>6 DEF Began
<1> QED
  BY <1>1, <1>2, <1>3, <1>4, <1>5, <1>6 DEF RowsMove, Stopped

\* The links stay links.
LEMMA LinkStep ==
    ASSUME Shape, [Next]_vars
    PROVE  LinkShape'
<1>0. /\ \A r \in Requests : IsRequest(req[r])
      /\ \A c \in Chats : link[c] \in WebIds \cup {0} /\ bot[c] \in WebIds \cup {0}
      /\ LinkShape /\ 0 \notin WebIds
  BY IdsApart DEF Shape, RequestShape, LinkShape
<1>1. ASSUME active' \in [Chats -> BOOLEAN], UNCHANGED moves PROVE LinkShape'
  BY <1>0, <1>1 DEF moves, LinkShape
<1>2. ASSUME NEW r \in Requests, createSearch(r) \/ deleteSearch(r) \/ saveListing(r) \/ ingestListings(r)
               \/ CapExtTokens(r) \/ CreateExtToken(r) \/ revokeExtTokens(r) \/ resolveCanonicalChatID(r)
               \/ ResolveExtToken(r)
      PROVE LinkShape'
  <2>1. UNCHANGED moves
    BY <1>2 DEF createSearch, deleteSearch, saveListing, ingestListings, CapExtTokens, CreateExtToken,
     revokeExtTokens, resolveCanonicalChatID, ResolveExtToken, telegram, others
  <2>2. active' \in [Chats -> BOOLEAN]
    BY <1>0, <1>2 DEF createSearch, deleteSearch, saveListing, ingestListings, CapExtTokens, CreateExtToken,
     revokeExtTokens, resolveCanonicalChatID, ResolveExtToken, telegram, ensureUserActive, LinkShape
  <2> QED
    BY <1>1, <2>1, <2>2
<1>3. ASSUME NEW r \in Requests, postTelegramLink(r) PROVE LinkShape'
  <2>1. req[r].id \in WebIds
    BY <1>0, AccountConstants, <1>3 DEF postTelegramLink, Serve, IsRequest
  <2> QED
    BY <1>0, <1>3, <2>1 DEF postTelegramLink, LinkShape
<1>4. ASSUME NEW c \in Chats, ConsumeLinkToken(c) PROVE LinkShape'
  BY <1>0, <1>4 DEF ConsumeLinkToken, LinkShape
<1>5. ASSUME NEW c \in Chats, CommitMove(c) PROVE LinkShape'
  <2>1. UNCHANGED <<token, active>>
    BY <1>5 DEF CommitMove, unmoved
  <2>2. CASE boot = {}
    BY <1>0, <1>5, <2>1, <2>2 DEF CommitMove, LinkShape
  <2>3. CASE boot # {}
    BY <1>0, <1>5, <2>1, <2>3 DEF CommitMove, LinkShape
  <2> QED
    BY <2>2, <2>3
<1>6. ASSUME NEW c \in Chats, LinkTelegramToWeb(c) \/ migrateUserData(c) \/ DropSearches(c) PROVE LinkShape'
  <2>1. UNCHANGED <<link, bot, boot, token, active>>
    BY <1>6 DEF LinkTelegramToWeb, migrateUserData, DropSearches, MoveSearches, unmoved
  <2> QED
    BY <1>0, <2>1 DEF LinkShape
<1>7. ASSUME NEW c \in Chats, LinkFails(c) PROVE LinkShape'
  BY <1>0, <1>7 DEF LinkFails, unmoved, LinkShape
<1>8. CASE BackfillLinkedData \/ BackfillFails \/ \E w \in WebIds : adminDeleteUser(w)
  BY <1>0, <1>8 DEF BackfillLinkedData, BackfillFails, unmoved, adminDeleteUser, LinkShape
<1>9. CASE deactivateBlocked \/ adminSetUserActive
  BY <1>0, <1>1, <1>9 DEF deactivateBlocked, adminSetUserActive, SetUserActive, LinkShape
<1>10. CASE ReactivateUsersWithSearches \/ SyncUserActiveStatus
  BY <1>0, <1>1, <1>10 DEF ReactivateUsersWithSearches, SyncUserActiveStatus, LinkShape
<1>11. CASE \/ (ResolveStep \/ RestartServer) /\ UNCHANGED <<telegram, rows, kept, ext, late, asked, faults>>
            \/ \E n \in 1 .. MaxExt : ExpireExt(n)
            \/ \E c \in Chats : botCreates(c)
            \/ UNCHANGED vars
  <2>1. UNCHANGED <<moves, active>>
    BY <1>11 DEF telegram, ExpireExt, botCreates, vars, moves
  <2> QED
    BY <1>0, <1>1, <2>1 DEF LinkShape
<1> QED
  BY <1>2, <1>3, <1>4, <1>5, <1>6, <1>7, <1>8, <1>9, <1>10, <1>11 DEF Next

\* A move stays in order whatever is created, deleted or moved beside it.
LEMMA MoveStep ==
    ASSUME Shape, RowsMove
    PROVE  MoveShape'
<1>0. /\ RowShape /\ MoveShape /\ 0 \notin All /\ WebIds \subseteq All
      /\ WebIds \cap Chats = {} /\ 0 \notin WebIds /\ 0 \notin Chats
      /\ NoRow.own = 0 /\ NoRow.f = NoFilter
      /\ \A c \in DOMAIN move : MoveOk(c)
  BY IdsApart DEF Shape, MoveShape, All, NoRow
<1>1. ASSUME Same, UNCHANGED <<rows, asked, merged, link>>, late \subseteq late' PROVE MoveShape'
  <2>1. ASSUME NEW c \in DOMAIN move PROVE MoveOk(c)'
    <3>1. MoveOk(c)
      BY <1>0, <2>1
    <3>2. \A i \in SearchIds : Replaced(c, i) => Replaced(c, i)'
      BY <1>1 DEF Same, Replaced, Alike
    <3> QED
      BY <1>1, <3>1, <3>2 DEF Same, MoveOk
  <2> QED
    BY <1>0, <1>1, <2>1 DEF Same, MoveShape
<1>2. ASSUME Same, NEW i, NEW a, NEW f, NEW n, Added(i, a, f, n) PROVE MoveShape'
  <2>1. ASSUME NEW c \in DOMAIN move PROVE MoveOk(c)'
    <3>1. MoveOk(c)
      BY <1>0, <2>1
    <3>2. /\ \A j \in SearchIds : rows'[j] = IF j = i THEN [own |-> a, f |-> f, seq |-> n] ELSE rows[j]
          /\ i \in SearchIds /\ a \in All /\ rows[i] = NoRow /\ i \notin asked \cup merged
          /\ UNCHANGED <<asked, merged>> /\ late \subseteq late'
          /\ a = move[c].web => <<0, i>> \in late'
      BY <1>0, <1>2, <2>1 DEF Added, RowShape, Linking
    <3>3. move[c].saw[i] = NoFilter
      BY <3>1, <3>2 DEF MoveOk
    <3>4. \A k \in SearchIds : k # i /\ Replaced(c, k) => Replaced(c, k)'
      <4>1. \A j \in SearchIds : rows[j].own = c => j # i
        BY <1>0, <3>1, <3>2 DEF MoveOk
      <4> QED
        BY <1>2, <3>2, <4>1 DEF Same, Replaced, Alike
    <3>5. /\ c \in Chats /\ DOMAIN move'[c] = MoveFields /\ move'[c].web \in WebIds
          /\ move'[c].moved \cap move'[c].dropped = {}
          /\ IF boot' = {} THEN bot'[c] = move'[c].web ELSE DOMAIN move' = {c}
      BY <1>2, <2>1, <3>1 DEF Same, MoveOk
    <3>6. \A k \in move'[c].moved \cup move'[c].dropped : k \in SearchIds /\ rows'[k].own = move'[c].web
      BY <1>0, <1>2, <3>1, <3>2 DEF Same, MoveOk
    <3>7. \A k \in SearchIds : move'[c].saw[k] # NoFilter => rows'[k] # NoRow \/ k \in asked' \cup merged'
      BY <1>2, <3>1, <3>2, <3>3 DEF Same, MoveOk
    <3>8. \A k \in SearchIds \ move'[c].moved :
             rows'[k].own = move'[c].web /\ move'[c].saw[k] # NoFilter => Replaced(c, k)'
      BY <1>2, <3>1, <3>2, <3>3, <3>4 DEF Same, MoveOk
    <3>9. move'[c].step = "commit" => \A k \in SearchIds \ (move'[c].moved \cup move'[c].dropped) :
             rows'[k].own = move'[c].web => <<0, k>> \in late'
      BY <1>2, <3>1, <3>2 DEF Same, MoveOk
    <3> QED
      BY <3>5, <3>6, <3>7, <3>8, <3>9 DEF MoveOk
  <2> QED
    BY <1>0, <1>2, <2>1 DEF Same, MoveShape
<1>3. ASSUME Same, NEW S, Deleted(S) PROVE MoveShape'
  <2>1. ASSUME NEW c \in DOMAIN move PROVE MoveOk(c)'
    <3>1. MoveOk(c)
      BY <1>0, <2>1
    <3>2. /\ \A j \in SearchIds : rows'[j] = IF j \in S THEN NoRow ELSE rows[j]
          /\ asked' = asked \cup S /\ UNCHANGED <<merged, late>>
          /\ \A k \in move[c].moved \cup move[c].dropped : k \notin S
      BY <1>3, <2>1 DEF Deleted, Held
    <3>4. \A k \in SearchIds : Replaced(c, k) => Replaced(c, k)'
      BY <1>3, <3>2 DEF Same, Replaced, Alike
    <3>5. /\ c \in Chats /\ DOMAIN move'[c] = MoveFields /\ move'[c].web \in WebIds
          /\ move'[c].moved \cap move'[c].dropped = {}
          /\ IF boot' = {} THEN bot'[c] = move'[c].web ELSE DOMAIN move' = {c}
      BY <1>3, <2>1, <3>1 DEF Same, MoveOk
    <3>6. \A k \in move'[c].moved \cup move'[c].dropped : k \in SearchIds /\ rows'[k].own = move'[c].web
      BY <1>3, <3>1, <3>2 DEF Same, MoveOk
    <3>7. \A k \in SearchIds : move'[c].saw[k] # NoFilter => rows'[k] # NoRow \/ k \in asked' \cup merged'
      BY <1>3, <3>1, <3>2 DEF Same, MoveOk
    <3>8. \A k \in SearchIds \ move'[c].moved :
             rows'[k].own = move'[c].web /\ move'[c].saw[k] # NoFilter => Replaced(c, k)'
      <4>1. \A k \in SearchIds : rows'[k].own = move[c].web => rows[k].own = move[c].web
        BY <1>0, <3>1, <3>2 DEF MoveOk
      <4> QED
        BY <1>3, <3>1, <3>4, <4>1 DEF Same, MoveOk
    <3>9. move'[c].step = "commit" => \A k \in SearchIds \ (move'[c].moved \cup move'[c].dropped) :
             rows'[k].own = move'[c].web => <<0, k>> \in late'
      <4>1. \A k \in SearchIds : rows'[k].own = move[c].web => rows[k].own = move[c].web
        BY <1>0, <3>1, <3>2 DEF MoveOk
      <4> QED
        BY <1>3, <3>1, <3>2, <4>1 DEF Same, MoveOk
    <3> QED
      BY <3>5, <3>6, <3>7, <3>8, <3>9 DEF MoveOk
  <2> QED
    BY <1>0, <1>3, <2>1 DEF Same, MoveShape
<1>4. ASSUME NEW c, NEW w, Began(c, w) PROVE MoveShape'
  <2>m. PICK m : m = NewMove(c, w)
    OBVIOUS
  <2>0. /\ c \in Chats \ DOMAIN move /\ w \in WebIds /\ \A d \in DOMAIN move : move[d].web # w
        /\ move' = [d \in DOMAIN move \cup {c} |-> IF d = c THEN m ELSE move[d]]
        /\ IF boot = {} THEN bot[c] = w ELSE DOMAIN move = {}
        /\ UNCHANGED <<rows, asked, merged, link, late, bot, boot>>
    BY <1>4, <2>m DEF Began, With
  <2>1. /\ m.web = w /\ m.step = "delete" /\ m.moved = Moving(c, w) /\ m.dropped = {}
        /\ m.saw = [i \in SearchIds |-> rows[i].f] /\ DOMAIN m = MoveFields
    BY <2>m DEF NewMove, MoveFields
  <2>2. DOMAIN move' = DOMAIN move \cup {c} /\ move'[c] = m /\ \A d \in DOMAIN move : move'[d] = move[d]
    BY <2>0
  <2>3. ASSUME NEW d \in DOMAIN move PROVE MoveOk(d)'
    <3>1. MoveOk(d) /\ boot = {} /\ move'[d] = move[d]
      BY <1>0, <2>0, <2>2, <2>3
    <3>2. \A i \in SearchIds : Replaced(d, i) => Replaced(d, i)'
      BY <2>0, <3>1 DEF Replaced, Alike
    <3> QED
      BY <2>0, <3>1, <3>2 DEF MoveOk
  <2>4. MoveOk(c)'
    <3>1. /\ \A i \in Moving(c, w) : i \in SearchIds /\ rows[i].own = w
          /\ \A i \in SearchIds \ Moving(c, w) : rows[i].own = w =>
                \E j \in SearchIds : rows[j].own = c /\ <<rows[j].f, rows[i].f>> \in Alike
      BY DEF Moving, Of
    <3>2. \A j \in SearchIds : rows[j].own = c => rows[j].f # NoFilter
      BY <1>0, <2>0, AccountConstants DEF RowShape, IsRow
    <3>3. \A i \in SearchIds : rows[i].f # NoFilter => rows[i] # NoRow
      BY <1>0
    <3>4. Alike' = Alike
      BY <2>0 DEF Alike
    <3>5. ASSUME NEW i \in SearchIds \ Moving(c, w), rows[i].own = w PROVE Replaced(c, i)'
      <4>1. PICK j \in SearchIds : rows[j].own = c /\ <<rows[j].f, rows[i].f>> \in Alike
        BY <3>1, <3>5
      <4>2. /\ move'[c].saw[j] = rows[j].f /\ move'[c].saw[i] = rows[i].f
            /\ rows'[j].own = c
        BY <2>0, <2>1, <2>2, <4>1
      <4> QED
        BY <3>2, <3>4, <4>1, <4>2 DEF Replaced
    <3>6. IF boot' = {} THEN bot'[c] = move'[c].web ELSE DOMAIN move' = {c}
      BY <2>0, <2>1, <2>2
    <3> QED
      BY <2>0, <2>1, <2>2, <3>1, <3>3, <3>5, <3>6 DEF MoveOk
  <2>5. \A d, e \in DOMAIN move' : move'[d].web = move'[e].web => d = e
    BY <1>0, <2>0, <2>1, <2>2 DEF MoveShape
  <2> QED
    BY <2>2, <2>3, <2>4, <2>5 DEF MoveShape
<1>5. ASSUME NEW c \in Chats, DropSearches(c) PROVE MoveShape'
  <2>w. PICK m : m = move[c]
    OBVIOUS
  <2>m. PICK m2 : m2 = [m EXCEPT !.step = "commit", !.dropped = Of(m.web) \ m.moved,
                            !.listings = {x \in Items : <<m.web, x>> \in kept}]
    OBVIOUS
  <2>0. /\ c \in DOMAIN move /\ MoveOk(c)
        /\ move' = [d \in DOMAIN move \cup {c} |-> IF d = c THEN m2 ELSE move[d]]
        /\ UNCHANGED <<rows, asked, merged, link, late, bot, boot>>
    BY <1>0, <1>5, <2>w, <2>m DEF DropSearches, With, unmoved
  <2>1. /\ m2.web = m.web /\ m2.step = "commit" /\ m2.moved = m.moved
        /\ m2.dropped = Of(m.web) \ m.moved /\ m2.saw = m.saw /\ DOMAIN m2 = MoveFields
    BY <2>m, <2>w, <2>0 DEF MoveOk, MoveFields
  <2>2. DOMAIN move' = DOMAIN move /\ move'[c] = m2 /\ \A d \in DOMAIN move \ {c} : move'[d] = move[d]
    BY <2>0
  <2>a. Alike' = Alike
    BY <2>0 DEF Alike
  <2>3. ASSUME NEW d \in DOMAIN move \ {c} PROVE MoveOk(d)'
    <3>1. MoveOk(d) /\ move'[d] = move[d]
      BY <1>0, <2>2, <2>3
    <3>2. \A i \in SearchIds : Replaced(d, i) => Replaced(d, i)'
      BY <2>0, <2>a, <3>1 DEF Replaced
    <3> QED
      BY <2>0, <2>2, <3>1, <3>2 DEF MoveOk
  <2>4. MoveOk(c)'
    <3>1. \A i \in Of(m.web) \ m.moved : i \in SearchIds /\ rows[i].own = m.web
      BY DEF Of
    <3>2. \A i \in SearchIds : Replaced(c, i) => Replaced(c, i)'
      BY <2>w, <2>0, <2>1, <2>2, <2>a DEF Replaced
    <3>3. \A i \in SearchIds \ (m2.moved \cup m2.dropped) : rows[i].own # m2.web
      BY <2>1 DEF Of
    <3> QED
      BY <2>w, <2>0, <2>1, <2>2, <3>1, <3>2, <3>3 DEF MoveOk
  <2>5. \A d, e \in DOMAIN move' : move'[d].web = move'[e].web => d = e
    BY <1>0, <2>w, <2>1, <2>2 DEF MoveShape
  <2> QED
    BY <2>2, <2>3, <2>4, <2>5 DEF MoveShape
<1>6. ASSUME NEW c \in Chats, CommitMove(c) PROVE MoveShape'
  <2>m. PICK m : m = move[c]
    OBVIOUS
  <2>0. /\ c \in DOMAIN move /\ MoveOk(c)
        /\ move' = [d \in DOMAIN move \ {c} |-> move[d]]
        /\ \A i \in SearchIds : rows'[i] = IF i \in m.moved THEN [rows[i] EXCEPT !.own = c]
                                           ELSE IF i \in m.dropped THEN NoRow ELSE rows[i]
        /\ merged' = merged \cup m.dropped /\ asked' = asked
        /\ late' = {e \in late : e[1] # m.web /\ (e[1] = 0 => e[2] \notin m.moved \cup m.dropped)}
    BY <1>0, <1>6, <2>m DEF CommitMove, Without, unmoved
  <2>1. DOMAIN move' = DOMAIN move \ {c} /\ \A d \in DOMAIN move \ {c} : move'[d] = move[d]
    BY <2>0
  <2>2. CASE boot # {}
    <3>1. DOMAIN move = {c}
      BY <2>0, <2>2 DEF MoveOk
    <3> QED
      BY <2>1, <3>1 DEF MoveShape
  <2>3. CASE boot = {}
    <3>0. boot' = boot /\ \A d \in Chats \ {c} : bot'[d] = bot[d]
      BY <1>6, <2>3 DEF CommitMove, Shape, LinkShape
    <3>a. Alike' = Alike
      BY <3>0 DEF Alike
    <3>1. ASSUME NEW d \in DOMAIN move \ {c} PROVE MoveOk(d)'
      <4>1. MoveOk(d) /\ move'[d] = move[d] /\ move[d].web # m.web
        BY <1>0, <2>m, <2>0, <2>1, <3>1 DEF MoveShape
      <4>2. \A i \in m.moved \cup m.dropped :
               i \in SearchIds /\ rows[i].own = m.web /\ rows[i].own # move[d].web /\ rows[i].own # d
        BY <1>0, <2>m, <2>0, <4>1 DEF MoveOk
      <4>3. \A i \in m.moved : rows'[i].own = c
        <5>1. \A i \in m.moved : i \in SearchIds /\ IsRow(rows[i])
          BY <1>0, <4>2 DEF RowShape
        <5> QED
          BY <2>0, <5>1 DEF IsRow
      <4>4. \A i \in SearchIds : i \notin m.moved \cup m.dropped => rows'[i] = rows[i]
        BY <2>0
      <4>5. \A i \in SearchIds : rows'[i].own = move[d].web =>
               i \notin m.moved \cup m.dropped /\ rows[i].own = move[d].web
        <5>1. move[d].web # c /\ move[d].web # 0
          BY <1>0, <2>0, <4>1 DEF MoveOk
        <5>2. \A i \in m.dropped : i \in m.moved \/ rows'[i].own = 0
          BY <1>0, <2>0, <4>2
        <5> QED
          BY <4>3, <4>4, <5>1, <5>2
      <4>6. \A i \in SearchIds : rows[i].own = d => rows'[i].own = d
        BY <4>2, <4>4
      <4>7. \A i \in SearchIds : Replaced(d, i) => Replaced(d, i)'
        BY <2>0, <3>a, <4>1, <4>6 DEF Replaced
      <4>8. \A i \in move[d].moved \cup move[d].dropped : i \in SearchIds /\ rows'[i].own = move[d].web
        BY <4>1, <4>2, <4>4 DEF MoveOk
      <4>9. \A i \in SearchIds : move[d].saw[i] # NoFilter => rows'[i] # NoRow \/ i \in asked' \cup merged'
        BY <1>0, <2>0, <4>1, <4>3, <4>4 DEF MoveOk
      <4>10. move[d].step = "commit" => \A i \in SearchIds \ (move[d].moved \cup move[d].dropped) :
               rows'[i].own = move[d].web => <<0, i>> \in late'
        <5> SUFFICES ASSUME move[d].step = "commit",
                            NEW i \in SearchIds \ (move[d].moved \cup move[d].dropped),
                            rows'[i].own = move[d].web
                     PROVE  <<0, i>> \in late'
          OBVIOUS
        <5>1. i \notin m.moved \cup m.dropped /\ <<0, i>> \in late
          BY <4>1, <4>5 DEF MoveOk
        <5>2. m.web # 0
          BY <1>0, <2>m, <2>0 DEF MoveOk
        <5> QED
          BY <2>0, <5>1, <5>2
      <4> QED
        BY <2>3, <3>0, <4>1, <4>5, <4>7, <4>8, <4>9, <4>10 DEF MoveOk
    <3> QED
      BY <1>0, <2>1, <3>1 DEF MoveShape
  <2> QED
    BY <2>2, <2>3
<1>7. ASSUME NEW c \in Chats, Failed(c) PROVE MoveShape'
  <2>0. /\ DOMAIN move' = DOMAIN move \ {c} /\ \A d \in DOMAIN move \ {c} : move'[d] = move[d]
        /\ boot = {} /\ UNCHANGED <<rows, asked, merged, late, boot>>
        /\ \A d \in DOMAIN move \ {c} : bot'[d] = bot[d]
    BY <1>7 DEF Failed, Without
  <2>1. ASSUME NEW d \in DOMAIN move \ {c} PROVE MoveOk(d)'
    <3>1. MoveOk(d) /\ move'[d] = move[d]
      BY <1>0, <2>0, <2>1
    <3>2. \A i \in SearchIds : Replaced(d, i) => Replaced(d, i)'
      BY <2>0, <3>1 DEF Replaced, Alike
    <3> QED
      BY <2>0, <3>1, <3>2 DEF MoveOk
  <2> QED
    BY <1>0, <2>0, <2>1 DEF MoveShape
<1>8. CASE Stopped
  BY <1>8 DEF Stopped, NoMoves, MoveShape
<1> QED
  BY <1>1, <1>2, <1>3, <1>4, <1>5, <1>6, <1>7, <1>8 DEF RowsMove

\* The types always hold.
LEMMA ShapeStep == Shape /\ [Next]_vars => Shape'
  BY RequestStep, EveryMove, RowStep, LinkStep, MoveStep DEF Shape
\* The shape holds throughout.
LEMMA ShapeAlways == Spec => []Shape
<1> QED
  BY ShapeInit, ShapeStep, PTL DEF Spec

-----------------------------------------------------------------------------
(* No search is lost *)

\* The book and the looks of AccountBook.
BookOf(R) == [i \in SearchIds |-> R[i].f]
LooksOf(M) == [c \in DOMAIN M |-> M[c].saw]
bookVars == <<BookOf(rows), asked, merged, LooksOf(move), boot # {}>>

\* The rows AccountBook calls standing.
LEMMA StandingRows ==
    ASSUME RowShape
    PROVE  /\ Book!Standing = {i \in SearchIds : rows[i] # NoRow}
           /\ \A i \in SearchIds : rows[i].own \in All => rows[i] # NoRow
           /\ \A i \in SearchIds : rows[i] # NoRow => rows[i].f \in Filters
  BY AccountConstants, IdsApart DEF Book!Standing, RowShape, IsRow, NoRow

\* The start, and every step, is one of the book.
LEMMA BookInit == Init => Book!Init
<1> SUFFICES ASSUME Init PROVE Book!Init
  OBVIOUS
<1>1. RowShape
  BY ShapeInit DEF Shape
<1>2. \A i \in SearchIds : rows[i].f \in Filters \cup {NoFilter}
  BY <1>1 DEF RowShape, IsRow, NoRow
<1>3. /\ move = NoMoves /\ boot = {} /\ asked = {} /\ merged = {}
  BY DEF Init
<1>4. DOMAIN move = {}
  BY <1>3 DEF NoMoves
<1> QED
  BY <1>2, <1>3, <1>4 DEF Book!Init

\* What a committed move drops it had compared, and one alike stayed.
LEMMA CommitKeeps ==
    ASSUME Shape, NEW c \in Chats, CommitMove(c)
    PROVE  Book!Merge(c)
<1>m. PICK m : m = move[c]
  OBVIOUS
<1>0. /\ RowShape /\ c \in DOMAIN move /\ MoveOk(c)
      /\ \A i \in SearchIds : rows'[i] = IF i \in m.moved THEN [rows[i] EXCEPT !.own = c]
                                         ELSE IF i \in m.dropped THEN NoRow ELSE rows[i]
      /\ merged' = merged \cup m.dropped /\ asked' = asked
      /\ move' = [d \in DOMAIN move \ {c} |-> move[d]]
      /\ boot' = {} \/ boot # {}
  BY <1>m DEF Shape, MoveShape, CommitMove, Without, unmoved
<1>1. /\ m.web \in All /\ m.web # c /\ m.web # 0 /\ c # 0 /\ NoRow.own = 0 /\ NoRow.f = NoFilter
      /\ m.moved \cap m.dropped = {}
      /\ \A i \in m.moved \cup m.dropped : i \in SearchIds /\ rows[i].own = m.web
      /\ \A i \in SearchIds \ m.moved : rows[i].own = m.web /\ m.saw[i] # NoFilter => Replaced(c, i)
  BY <1>0, <1>m, IdsApart DEF MoveOk, All, NoRow
<1> DEFINE S == m.dropped
<1>2. S \in SUBSET Book!Standing
  BY <1>0, <1>1, StandingRows
<1>3. ASSUME NEW i \in S, m.saw[i] # NoFilter PROVE Book!Kept(m.saw, i, S)
  <2>1. i \in SearchIds \ m.moved /\ rows[i].own = m.web
    BY <1>1, <1>3
  <2>2. PICK j \in SearchIds : /\ m.saw[j] # NoFilter
                               /\ <<m.saw[j], m.saw[i]>> \in Alike
                               /\ rows[j].own = c \/ j \in asked
    BY <1>1, <1>3, <1>m, <2>1 DEF Replaced
  <2>3. Book!Equal(m.saw[j], m.saw[i])
    BY <2>2 DEF Alike, Book!Equal
  <2>4. j \notin S
    BY <1>0, <1>1, <2>2 DEF RowShape
  <2>5. j \in Book!Standing \cup asked
    BY <1>0, <2>2, StandingRows DEF All
  <2> QED
    BY <2>2, <2>3, <2>4, <2>5 DEF Book!Kept
<1>4. BookOf(rows') = Book!Without(S)
  <2>1. ASSUME NEW i \in SearchIds PROVE rows'[i].f = IF i \in S THEN NoFilter ELSE rows[i].f
    <3>1. CASE i \in m.moved
      <4>1. rows'[i] = [rows[i] EXCEPT !.own = c] /\ DOMAIN rows[i] = {"own", "seq", "f"}
        BY <1>0, <3>1 DEF RowShape, IsRow
      <4>2. rows'[i].f = rows[i].f
        BY <4>1
      <4> QED
        BY <1>1, <3>1, <4>2
    <3>2. CASE i \notin m.moved
      BY <1>0, <1>1, <3>2
    <3> QED
      BY <3>1, <3>2
  <2> QED
    BY <2>1 DEF BookOf, Book!Without
<1>5. LooksOf(move') = [d \in DOMAIN LooksOf(move) \ {c} |-> LooksOf(move)[d]]
  <2>1. DOMAIN move' = DOMAIN move \ {c} /\ \A d \in DOMAIN move \ {c} : move'[d] = move[d]
    BY <1>0
  <2> QED
    BY <2>1 DEF LooksOf
<1>6. LooksOf(move)[c] = m.saw
  BY <1>0, <1>m DEF LooksOf
<1>7. \A i \in S : LooksOf(move)[c][i] # NoFilter => Book!Kept(LooksOf(move)[c], i, S)
  BY <1>3, <1>6
<1>8. (boot' # {}) \in {FALSE, boot # {}}
  BY <1>0
<1> HIDE DEF S
<1> QED
  BY <1>0, <1>2, <1>4, <1>5, <1>7, <1>8 DEF Book!Merge, Book!Ended, BookOf, LooksOf, S

\* What a step does to the searches is a step of AccountBook, or none.
LEMMA BookStep ==
    ASSUME Shape, RowsMove
    PROVE  [Book!Next]_bookVars
<1>0. RowShape
  BY DEF Shape
<1>s. Same => LooksOf(move') = LooksOf(move) /\ boot' = boot
  BY DEF Same
<1>1. ASSUME Same, UNCHANGED <<rows, asked, merged>> PROVE UNCHANGED bookVars
  BY <1>1, <1>s DEF bookVars, BookOf
<1>2. ASSUME Same, NEW i, NEW a, NEW f, NEW n, Added(i, a, f, n) PROVE Book!Create
  <2>1. i \in SearchIds \ (Book!Standing \cup asked \cup merged)
    BY <1>0, <1>2, StandingRows DEF Added
  <2>2. BookOf(rows') = [BookOf(rows) EXCEPT ![i] = f]
    <3>1. rows' = [rows EXCEPT ![i] = [own |-> a, f |-> f, seq |-> n]] /\ rows = [j \in SearchIds |-> rows[j]]
      BY <1>0, <1>2 DEF Added, RowShape
    <3> QED
      BY <3>1, <2>1 DEF BookOf
  <2> QED
    BY <1>2, <1>s, <2>1, <2>2 DEF Added, Book!Create, BookOf, LooksOf
<1>3. ASSUME Same, NEW S, Deleted(S) PROVE Book!Delete \/ UNCHANGED <<rows, asked, merged>>
  <2>1. CASE S = {}
    BY <1>0, <1>3, <2>1 DEF Deleted, RowShape
  <2>2. CASE S # {}
    <3>1. S \subseteq Book!Standing
      BY <1>0, <1>3, StandingRows DEF Deleted
    <3>2. BookOf(rows') = Book!Without(S)
      BY <1>3 DEF Deleted, BookOf, Book!Without, NoRow
    <3> QED
      BY <1>3, <1>s, <2>2, <3>1, <3>2 DEF Deleted, Book!Delete, BookOf, LooksOf
  <2> QED
    BY <2>1, <2>2
<1>4. ASSUME NEW c, NEW w, Began(c, w) PROVE Book!Look(c) /\ c \in Chats
  <2>m. PICK m : m = NewMove(c, w)
    OBVIOUS
  <2>0. /\ c \in Chats \ DOMAIN move
        /\ move' = [d \in DOMAIN move \cup {c} |-> IF d = c THEN m ELSE move[d]]
        /\ UNCHANGED <<rows, asked, merged, boot>> /\ m.saw = BookOf(rows)
    BY <1>4, <2>m DEF Began, With, NewMove, BookOf
  <2>1. LooksOf(move') = [d \in DOMAIN LooksOf(move) \cup {c} |->
                              IF d = c THEN BookOf(rows) ELSE LooksOf(move)[d]]
    BY <2>0 DEF LooksOf
  <2> QED
    BY <2>0, <2>1 DEF Book!Look, BookOf, LooksOf
<1>5. ASSUME NEW c \in Chats, DropSearches(c) PROVE UNCHANGED bookVars
  <2>w. PICK m : m = move[c]
    OBVIOUS
  <2>m. PICK m2 : m2 = [m EXCEPT !.step = "commit", !.dropped = Of(m.web) \ m.moved,
                            !.listings = {x \in Items : <<m.web, x>> \in kept}]
    OBVIOUS
  <2>0. /\ c \in DOMAIN move /\ MoveOk(c)
        /\ move' = [d \in DOMAIN move \cup {c} |-> IF d = c THEN m2 ELSE move[d]]
        /\ UNCHANGED <<rows, asked, merged, boot>>
    BY <1>5, <2>w, <2>m DEF DropSearches, With, unmoved, Shape, MoveShape
  <2>1. m2.saw = move[c].saw
    BY <2>m, <2>w, <2>0 DEF MoveOk, MoveFields
  <2>2. LooksOf(move') = LooksOf(move)
    BY <2>0, <2>1 DEF LooksOf
  <2> QED
    BY <2>0, <2>2 DEF bookVars, BookOf
<1>6. ASSUME NEW c \in Chats, Failed(c) PROVE Book!Fail(c)
  <2>1. LooksOf(move') = [d \in DOMAIN LooksOf(move) \ {c} |-> LooksOf(move)[d]]
    BY <1>6 DEF Failed, Without, LooksOf
  <2>2. UNCHANGED <<rows, asked, merged, boot>>
    BY <1>6 DEF Failed
  <2> QED
    BY <2>1, <2>2 DEF Book!Fail, Book!Ended, BookOf, LooksOf
<1>7. ASSUME Stopped PROVE Book!Start
  <2>1. DOMAIN move' = {} /\ UNCHANGED <<rows, asked, merged>>
    BY <1>7 DEF Stopped, NoMoves
  <2> QED
    BY <2>1 DEF Book!Start
<1> QED
  BY <1>1, <1>2, <1>3, <1>4, <1>5, <1>6, <1>7, CommitKeeps DEF RowsMove, Book!Next

\* However accounts are linked, moved, merged and deleted, and whatever requests
\* and the bot do between the statements of a move, a search that the move had
\* seen stays with its filters until its deletion is asked for, or one alike is
\* kept in its place: Accounts implements AccountBook (users.go,
\* LinkTelegramToWeb and migrateUserData).
THEOREM AccountsLoseNoSearch == Spec => NoSearchLost
<1>1. Shape /\ [Next]_vars => [Book!Next]_bookVars
  BY EveryMove, BookStep
<1> QED
  BY <1>1, BookInit, ShapeAlways, PTL DEF Spec, NoSearchLost, Book!Spec, Book!vars, bookVars, BookOf, LooksOf

-----------------------------------------------------------------------------
(* What a user owns is in one place *)

\* The two halves: searches, and rows of saved, hidden and seen listings.
RowsTogether == \A w \in WebIds : Linked(w) # {} => \A i \in Of(w) : <<0, i>> \in late
KeptTogether == \A w \in WebIds : Linked(w) # {} => \A x \in Items : <<w, x>> \in kept => <<w, x>> \in late

\* What a link to w leaves of the links to others.
LEMMA LinkMoves ==
    ASSUME LinkShape, NEW c \in Chats, NEW w \in WebIds, NEW v \in WebIds,
           link' = [d \in Chats |-> IF d = c THEN w ELSE IF link[d] = w THEN 0 ELSE link[d]],
           Linked(v)' # {}, v # w
    PROVE  Linked(v) # {}
<1>1. PICK d \in Chats : link'[d] = v
  BY DEF Linked
<1>2. link[d] = v
  BY <1>1, IdsApart
<1> QED
  BY <1>2 DEF Linked

\* A link that is left after a move, but to another id, was there before it.
LEMMA StillLinked ==
    ASSUME LinkShape, NEW c \in Chats, c \in DOMAIN move, MoveOk(c), CommitMove(c),
           NEW w \in WebIds, Linked(w)' # {}, w # move[c].web
    PROVE  Linked(w) # {}
<1>1. CASE boot = {}
  <2>1. bot[c] = move[c].web /\ move[c].web \in WebIds
    BY <1>1 DEF MoveOk
  <2>2. link' = [d \in Chats |-> IF d = c THEN bot[c] ELSE IF link[d] = bot[c] THEN 0 ELSE link[d]]
    BY <1>1 DEF CommitMove
  <2> QED
    BY <2>1, <2>2, LinkMoves
<1>2. CASE boot # {}
  BY <1>2 DEF CommitMove, Linked
<1> QED
  BY <1>1, <1>2

\* No move of searches leaves one at a linked web id that is not late.
LEMMA RowsTogetherStep ==
    ASSUME Shape, RowsMove, RowsTogether
    PROVE  RowsTogether'
<1> SUFFICES ASSUME NEW w \in WebIds, Linked(w)' # {}, NEW i \in SearchIds, rows'[i].own = w
             PROVE  <<0, i>> \in late'
  BY DEF RowsTogether, Of
<1>0. RowShape /\ w \notin Chats /\ w # 0
  BY IdsApart DEF Shape
<1>1. CASE Linked(w) # {} /\ rows[i].own = w /\ late \subseteq late'
  BY <1>1 DEF RowsTogether, Of
<1>2. CASE UNCHANGED <<rows, link>> /\ late \subseteq late'
  BY <1>1, <1>2 DEF Linked
<1>3. ASSUME NEW j, NEW a, NEW f, NEW n, Added(j, a, f, n) PROVE <<0, i>> \in late'
  <2>1. Linked(w) # {} /\ late \subseteq late'
    BY <1>3 DEF Added, Linked
  <2>2. CASE i = j
    <3>1. rows'[i] = [own |-> a, f |-> f, seq |-> n]
      BY <1>0, <1>3, <2>2 DEF Added, RowShape
    <3>2. a = w
      BY <3>1
    <3>3. Linking(a)
      BY <2>1, <3>2 DEF Linking
    <3> QED
      BY <1>3, <2>2, <3>3 DEF Added
  <2>3. CASE i # j
    BY <1>0, <1>1, <1>3, <2>1, <2>3 DEF Added, RowShape
  <2> QED
    BY <2>2, <2>3
<1>4. ASSUME NEW S, Deleted(S) PROVE <<0, i>> \in late'
  <2>1. Linked(w) # {} /\ late' = late
    BY <1>4 DEF Deleted, Linked
  <2>2. rows[i].own = w
    BY <1>0, <1>4 DEF Deleted, NoRow
  <2> QED
    BY <1>1, <2>1, <2>2
<1>5. ASSUME NEW c \in Chats, CommitMove(c) PROVE <<0, i>> \in late'
  <2>m. PICK m : m = move[c]
    OBVIOUS
  <2>0. /\ c \in DOMAIN move /\ MoveOk(c) /\ m.step = "commit" /\ LinkShape
        /\ rows'[i] = IF i \in m.moved THEN [rows[i] EXCEPT !.own = c]
                      ELSE IF i \in m.dropped THEN NoRow ELSE rows[i]
        /\ late' = {e \in late : e[1] # m.web /\ (e[1] = 0 => e[2] \notin m.moved \cup m.dropped)}
    BY <1>5, <2>m DEF CommitMove, Shape, MoveShape
  <2>1. /\ m.web \in WebIds /\ m.web # 0
        /\ \A k \in SearchIds \ (m.moved \cup m.dropped) : rows[k].own = m.web => <<0, k>> \in late
    BY <2>0, <2>m, IdsApart DEF MoveOk
  <2>2. i \notin m.moved
    <3>1. CASE i \in m.moved
      <4>1. rows'[i] = [rows[i] EXCEPT !.own = c] /\ DOMAIN rows[i] = {"own", "seq", "f"}
        BY <1>0, <2>0, <3>1 DEF RowShape, IsRow
      <4>2. rows'[i].own = c
        BY <4>1
      <4> QED
        BY <1>0, <4>2
    <3> QED
      BY <3>1
  <2>3. i \notin m.dropped /\ rows[i].own = w
    BY <1>0, <2>0, <2>2 DEF NoRow
  <2>4. <<0, i>> \in late
    <3>1. CASE w = m.web
      BY <2>1, <2>2, <2>3, <3>1
    <3>2. CASE w # m.web
      <4>1. Linked(w) # {}
        BY <1>5, <2>0, <2>m, <3>2, StillLinked
      <4> QED
        BY <2>3, <4>1 DEF RowsTogether, Of
    <3> QED
      BY <3>1, <3>2
  <2> QED
    BY <2>0, <2>1, <2>2, <2>3, <2>4
<1>6. ASSUME NEW c, NEW v, Began(c, v) PROVE <<0, i>> \in late'
  BY <1>2, <1>6 DEF Began
<1>7. ASSUME NEW c, DropSearches(c) \/ Failed(c) PROVE <<0, i>> \in late'
  BY <1>2, <1>7 DEF DropSearches, Failed
<1>8. CASE Stopped
  BY <1>2, <1>8 DEF Stopped
<1>9. CASE Same /\ UNCHANGED <<rows, asked, merged, link>> /\ late \subseteq late'
  BY <1>2, <1>9
<1> QED
  BY <1>3, <1>4, <1>5, <1>6, <1>7, <1>8, <1>9 DEF RowsMove

\* Nor does a step leave a listing there.
LEMMA KeptTogetherStep ==
    ASSUME Shape, [Next]_vars, KeptTogether
    PROVE  KeptTogether'
<1> SUFFICES ASSUME NEW w \in WebIds, Linked(w)' # {}, NEW x \in Items, <<w, x>> \in kept'
             PROVE  <<w, x>> \in late'
  BY DEF KeptTogether
<1>0. LinkShape /\ w \notin Chats /\ w # 0
  BY IdsApart DEF Shape
<1>1. CASE Linked(w) # {} /\ <<w, x>> \in kept /\ late \subseteq late'
  BY <1>1 DEF KeptTogether
<1>2. CASE UNCHANGED <<kept, link>> /\ late \subseteq late'
  BY <1>1, <1>2 DEF Linked
<1>3. ASSUME NEW a, Keep(a), UNCHANGED link PROVE <<w, x>> \in late'
  <2>0. CASE UNCHANGED <<kept, late>>
    BY <1>2, <1>3, <2>0
  <2> SUFFICES ASSUME ~UNCHANGED <<kept, late>> PROVE <<w, x>> \in late'
    BY <2>0
  <2>1. PICK y : kept' = kept \cup {<<a, y>>} /\ Late(a, <<a, y>>)
    BY <1>3 DEF Keep
  <2>2. Linked(w) # {} /\ late \subseteq late'
    BY <1>3, <2>1 DEF Linked, Late
  <2>3. CASE w = a /\ x = y
    BY <2>1, <2>2, <2>3 DEF Late, Linking
  <2>4. CASE <<w, x>> \in kept
    BY <1>1, <2>2, <2>4
  <2> QED
    BY <2>1, <2>3, <2>4
<1>4. ASSUME NEW c \in Chats, CommitMove(c) PROVE <<w, x>> \in late'
  <2>m. PICK m : m = move[c]
    OBVIOUS
  <2>0. /\ c \in DOMAIN move /\ MoveOk(c)
        /\ kept' = {e \in kept : e[1] # m.web} \cup {<<c, y>> : y \in m.listings}
        /\ late' = {e \in late : e[1] # m.web /\ (e[1] = 0 => e[2] \notin m.moved \cup m.dropped)}
    BY <1>4, <2>m DEF CommitMove, Shape, MoveShape
  <2>1. <<w, x>> \in kept /\ w # m.web
    BY <1>0, <2>0
  <2>2. Linked(w) # {}
    BY <1>0, <1>4, <2>0, <2>1, <2>m, StillLinked
  <2>3. <<w, x>> \in late
    BY <2>1, <2>2 DEF KeptTogether
  <2> QED
    BY <1>0, <2>0, <2>1, <2>3
<1>5. ASSUME NEW c \in Chats, LinkTelegramToWeb(c) \/ LinkFails(c) \/ migrateUserData(c) \/ DropSearches(c)
      PROVE  <<w, x>> \in late'
  BY <1>2, <1>5, MovesUnseen
<1>6. ASSUME NEW v \in WebIds, adminDeleteUser(v) PROVE <<w, x>> \in late'
  BY <1>1, <1>6 DEF adminDeleteUser, Linked
<1>7. ASSUME NEW r \in Requests, createSearch(r) \/ deleteSearch(r) PROVE <<w, x>> \in late'
  <2>1. UNCHANGED <<kept, link>>
    BY <1>7 DEF createSearch, deleteSearch, others, moves
  <2>2. late \subseteq late'
    BY <1>7 DEF createSearch, deleteSearch, NewSearch, Late
  <2> QED
    BY <1>2, <2>1, <2>2
<1>8. ASSUME NEW r \in Requests, saveListing(r) \/ ingestListings(r) PROVE <<w, x>> \in late'
  BY <1>3, <1>8 DEF saveListing, ingestListings, others, moves
<1>9. ASSUME NEW r \in Requests, postTelegramLink(r) \/ CapExtTokens(r) \/ CreateExtToken(r)
             \/ revokeExtTokens(r) \/ resolveCanonicalChatID(r) \/ ResolveExtToken(r)
      PROVE  <<w, x>> \in late'
  BY <1>2, <1>9 DEF postTelegramLink, CapExtTokens, CreateExtToken, revokeExtTokens, others, moves,
     resolveCanonicalChatID, ResolveExtToken, telegram
<1>10. ASSUME NEW n \in 1 .. MaxExt, ExpireExt(n) PROVE <<w, x>> \in late'
  BY <1>2, <1>10 DEF ExpireExt, telegram, moves
<1>11. ASSUME NEW c \in Chats, botCreates(c) PROVE <<w, x>> \in late'
  <2>1. late \subseteq late'
    BY <1>11 DEF botCreates, NewSearch, Late
  <2> QED
    BY <1>2, <1>11, <2>1 DEF botCreates, telegram, moves
<1>12. CASE \/ (ResolveStep \/ RestartServer) /\ UNCHANGED <<telegram, rows, kept, ext, late, asked, faults>>
            \/ \E c \in Chats : ConsumeLinkToken(c)
            \/ BackfillLinkedData \/ BackfillFails
            \/ deactivateBlocked \/ adminSetUserActive
            \/ ReactivateUsersWithSearches \/ SyncUserActiveStatus
            \/ UNCHANGED vars
  BY <1>2, <1>12 DEF telegram, moves, ConsumeLinkToken, deactivateBlocked, adminSetUserActive, SetUserActive,
     ReactivateUsersWithSearches, SyncUserActiveStatus, BackfillLinkedData, BackfillFails, vars
<1> QED
  BY <1>3, <1>4, <1>5, <1>6, <1>7, <1>8, <1>9, <1>10, <1>11, <1>12 DEF Next

\* Only what was written to the web id while it was being linked or later is not
\* where the bot and the site look, whatever links, statements of a move,
\* deletes, pushes of a browser and requests overlap (users.go,
\* LinkTelegramToWeb and migrateUserData).
THEOREM OwnedTogether == Spec => []SeenTogether
<1>1. Init => RowsTogether /\ KeptTogether
  <2> SUFFICES ASSUME Init PROVE RowsTogether /\ KeptTogether
    OBVIOUS
  <2>1. kept = {} /\ late = {<<0, i>> : i \in {j \in SearchIds : \E c \in Chats : link[c] # 0 /\ link[c] = rows[j].own}}
    BY DEF Init
  <2>2. RowsTogether
    BY <2>1, IdsApart DEF RowsTogether, Of, Linked
  <2> QED
    BY <2>1, <2>2 DEF KeptTogether
<1>2. Shape /\ RowsTogether /\ KeptTogether /\ [Next]_vars => (RowsTogether /\ KeptTogether)'
  BY EveryMove, RowsTogetherStep, KeptTogetherStep
<1>3. RowsTogether /\ KeptTogether => SeenTogether
  BY DEF RowsTogether, KeptTogether, SeenTogether
<1> QED
  BY <1>1, <1>2, <1>3, ShapeAlways, PTL DEF Spec

-----------------------------------------------------------------------------
(* Who is served *)

\* Web id w is u's, or was deleted.  An id that a token, a bot's chat or a link
\* names has an account, or was deleted.
Belongs(w, u) == w \in gone \/ owner[w] = u
Known(w) == w \in gone \/ owner[w] # NoOne
BelongsThen(w, u) == w \in gone' \/ owner'[w] = u
KnownThen(w) == w \in gone' \/ owner'[w] # NoOne

\* A cached id is of its uid, a request is for its own id or for a chat its uid
\* linked, a browser's may be for the chat its token is of; and a link was made
\* by the account it names.
WhoInv ==
    /\ owner \in [WebIds -> Uids \cup {NoOne}]
    /\ \A u \in Uids : cache[u] # 0 => Belongs(cache[u], u)
    /\ \A r \in Requests :
          /\ req[r].pc \in {"put", "canon", "serve", "store"} /\ req[r].web \in WebIds =>
                Belongs(req[r].web, req[r].uid) /\ req[r].uid \in Uids
          /\ req[r].pc \in {"serve", "store"} =>
                IF req[r].web \in Chats THEN req[r].id = req[r].web
                ELSE req[r].id \in Chats => \/ req[r].web \in gone
                                            \/ <<req[r].id, req[r].web, req[r].uid>> \in by
    /\ \A w \in token : Known(w)
    /\ \A c \in Chats : bot[c] # 0 => Known(bot[c])
    /\ \A c \in Chats : link[c] # 0 => /\ Known(link[c])
                                       /\ link[c] \in gone \/ <<c, link[c], owner[link[c]]>> \in by

\* What a step may do to accounts: an id is taken when nobody has it, and
\* marked when it is deleted.
OwnerKept == /\ owner' \in [WebIds -> Uids \cup {NoOne}]
             /\ gone \subseteq gone' /\ by \subseteq by'
             /\ \A w \in WebIds : owner[w] # NoOne => owner'[w] = owner[w] \/ w \in gone'

\* What belongs to a user, or is known, stays so.
LEMMA BelongsKept ==
    ASSUME OwnerKept, NEW w \in WebIds
    PROVE  /\ \A u \in Uids : Belongs(w, u) => BelongsThen(w, u)
           /\ Known(w) => KnownThen(w)
           /\ Known(w) => w \in gone' \/ owner'[w] = owner[w]
  BY IdentityConstants DEF OwnerKept, Belongs, Known, BelongsThen, KnownThen

\* Every step does no more to accounts than that.
LEMMA OwnerStep ==
    ASSUME Shape, WhoInv, [Next]_vars
    PROVE  OwnerKept
<1>1. CASE UNCHANGED <<owner, gone, by>>
  BY <1>1 DEF OwnerKept, WhoInv
<1>2. ASSUME NEW r \in Requests, Insert(r), UNCHANGED telegram PROVE OwnerKept
  <2>1. req[r].uid \in Uids
    BY <1>2 DEF Insert, Shape, RequestShape, IsRequest
  <2> QED
    BY <1>2, <2>1 DEF Insert, OwnerKept, WhoInv, telegram, moves
<1>3. ASSUME NEW w \in WebIds, adminDeleteUser(w) PROVE OwnerKept
  BY <1>3 DEF adminDeleteUser, DeleteIdentity, OwnerKept, WhoInv
<1>4. ASSUME NEW c \in Chats, CommitMove(c) PROVE OwnerKept
  <2>1. UNCHANGED <<owner, gone>> /\ by \subseteq by'
    BY <1>4 DEF CommitMove, unmoved, identity
  <2> QED
    BY <2>1 DEF OwnerKept, WhoInv
<1>6. ASSUME NEW c \in Chats, LinkTelegramToWeb(c) \/ LinkFails(c) \/ migrateUserData(c) \/ DropSearches(c)
      PROVE  OwnerKept
  BY <1>1, <1>6, MovesUnseen
<1>5. CASE \/ /\ \/ \E r \in Requests : Arrive(r) \/ Select(r) \/ Put(r)
                 \/ Expire \/ clear \/ RestartServer
              /\ UNCHANGED telegram
           \/ \E r \in Requests :
                 \/ resolveCanonicalChatID(r) \/ createSearch(r) \/ deleteSearch(r) \/ saveListing(r)
                 \/ ResolveExtToken(r) \/ ingestListings(r)
                 \/ postTelegramLink(r) \/ CapExtTokens(r) \/ CreateExtToken(r) \/ revokeExtTokens(r)
           \/ \E n \in 1 .. MaxExt : ExpireExt(n)
           \/ \E c \in Chats : ConsumeLinkToken(c) \/ botCreates(c)
           \/ BackfillLinkedData \/ BackfillFails \/ deactivateBlocked \/ adminSetUserActive
           \/ ReactivateUsersWithSearches \/ SyncUserActiveStatus
           \/ UNCHANGED vars
  <2>1. UNCHANGED <<owner, gone, by>>
    BY <1>5 DEF Arrive, Select, Put, Expire, clear, RestartServer, telegram, moves, resolveCanonicalChatID,
       createSearch, deleteSearch, saveListing, ingestListings, postTelegramLink, CapExtTokens, CreateExtToken,
       revokeExtTokens, others, ResolveExtToken, ExpireExt, ConsumeLinkToken, botCreates,
       BackfillLinkedData, BackfillFails, unmoved, deactivateBlocked, adminSetUserActive, SetUserActive,
       ReactivateUsersWithSearches, SyncUserActiveStatus, vars, identity
  <2> QED
    BY <1>1, <2>1
<1> QED
  BY <1>2, <1>3, <1>4, <1>5, <1>6 DEF Next, ResolveStep

\* The parts of WhoInv: the cache, the requests, the links.
CacheInv == \A u \in Uids : cache[u] # 0 => Belongs(cache[u], u)
Rightful(q) ==
    /\ q.pc \in {"put", "canon", "serve", "store"} /\ q.web \in WebIds =>
          Belongs(q.web, q.uid) /\ q.uid \in Uids
    /\ q.pc \in {"serve", "store"} =>
          IF q.web \in Chats THEN q.id = q.web
          ELSE q.id \in Chats => q.web \in gone \/ <<q.id, q.web, q.uid>> \in by
LinkInv ==
    /\ \A w \in token : Known(w)
    /\ \A c \in Chats : bot[c] # 0 => Known(bot[c])
    /\ \A c \in Chats : link[c] # 0 => /\ Known(link[c])
                                       /\ link[c] \in gone \/ <<c, link[c], owner[link[c]]>> \in by

\* WhoInv is its parts.
LEMMA WhoParts ==
    WhoInv <=> /\ owner \in [WebIds -> Uids \cup {NoOne}]
               /\ CacheInv /\ LinkInv /\ \A r \in Requests : Rightful(req[r])
  BY DEF WhoInv, CacheInv, LinkInv, Rightful

\* Steps keep the cache, the links and the requests right.
LEMMA CacheWho ==
    ASSUME Shape, WhoInv, OwnerKept, [Next]_vars
    PROVE  CacheInv'
<1>0. \A u \in Uids : cache[u] \in WebIds \cup {0}
  BY DEF Shape, RequestShape
<1>1. ASSUME \A u \in Uids : cache'[u] \in {0, cache[u]} PROVE CacheInv'
  <2> SUFFICES ASSUME NEW u \in Uids, cache'[u] # 0 PROVE BelongsThen(cache'[u], u)
    BY DEF CacheInv, Belongs, BelongsThen
  <2>1. cache'[u] = cache[u] /\ cache[u] \in WebIds
    BY <1>0, <1>1
  <2>2. Belongs(cache[u], u)
    BY <2>1 DEF WhoInv
  <2> QED
    BY <2>1, <2>2, BelongsKept DEF BelongsThen
<1>2. ASSUME NEW r \in Requests, Put(r) PROVE CacheInv'
  <2> SUFFICES ASSUME NEW u \in Uids, cache'[u] # 0 PROVE BelongsThen(cache'[u], u)
    BY DEF CacheInv, Belongs, BelongsThen
  <2>1. CASE u = req[r].uid
    <3>1. cache'[u] = req[r].web /\ req[r].web \in WebIds /\ Belongs(req[r].web, u)
      BY <1>2, <2>1 DEF Put, Shape, RequestShape, IsRequest, WhoInv
    <3> QED
      BY <3>1, BelongsKept DEF BelongsThen
  <2>2. CASE u # req[r].uid
    <3>1. cache'[u] = cache[u] /\ cache[u] \in WebIds
      BY <1>0, <1>2, <2>2 DEF Put
    <3>2. Belongs(cache[u], u)
      BY <3>1 DEF WhoInv
    <3> QED
      BY <3>1, <3>2, BelongsKept DEF BelongsThen
  <2> QED
    BY <2>1, <2>2
<1>3. CASE Expire \/ clear \/ RestartServer
  <2>1. \A u \in Uids : cache'[u] \in {0, cache[u]}
    BY <1>3 DEF Expire, clear, RestartServer, Shape, RequestShape
  <2> QED
    BY <1>1, <2>1
<1>4. CASE UNCHANGED cache
  BY <1>1, <1>4
<1>5. CASE \/ \E r \in Requests :
                 \/ Arrive(r) \/ Select(r) \/ Insert(r)
                 \/ resolveCanonicalChatID(r) \/ createSearch(r) \/ deleteSearch(r) \/ saveListing(r)
                 \/ ResolveExtToken(r) \/ ingestListings(r)
                 \/ postTelegramLink(r) \/ CapExtTokens(r) \/ CreateExtToken(r) \/ revokeExtTokens(r)
           \/ \E n \in 1 .. MaxExt : ExpireExt(n)
           \/ \E c \in Chats : ConsumeLinkToken(c) \/ botCreates(c) \/ CommitMove(c)
           \/ BackfillLinkedData \/ BackfillFails \/ deactivateBlocked \/ adminSetUserActive
           \/ ReactivateUsersWithSearches \/ SyncUserActiveStatus
           \/ \E w \in WebIds : adminDeleteUser(w)
           \/ UNCHANGED vars
  <2>1. UNCHANGED cache
    BY <1>5 DEF Arrive, Select, Insert, resolveCanonicalChatID, CommitMove, unmoved,
       createSearch, deleteSearch, saveListing, ingestListings, postTelegramLink, CapExtTokens, CreateExtToken,
       revokeExtTokens, others, ResolveExtToken, ExpireExt, ConsumeLinkToken, botCreates,
       BackfillLinkedData, BackfillFails, deactivateBlocked, adminSetUserActive, SetUserActive, adminDeleteUser,
       DeleteIdentity, ReactivateUsersWithSearches, SyncUserActiveStatus, vars, identity
  <2> QED
    BY <1>4, <2>1
<1>6. ASSUME NEW c \in Chats, LinkTelegramToWeb(c) \/ LinkFails(c) \/ migrateUserData(c) \/ DropSearches(c)
      PROVE  CacheInv'
  BY <1>4, <1>6, MovesUnseen
<1> QED
  BY <1>2, <1>3, <1>5, <1>6 DEF Next, ResolveStep

\* A link, a bot's chat and a token name an account, or a deleted one.
LEMMA LinkWho ==
    ASSUME Shape, WhoInv, OwnerKept, [Next]_vars
    PROVE  LinkInv'
<1>0. /\ LinkShape /\ LinkInv
      /\ \A c \in Chats : link[c] \in WebIds \cup {0} /\ bot[c] \in WebIds \cup {0}
  BY WhoParts DEF Shape, LinkShape
<1>k. /\ \A w \in WebIds : Known(w) => KnownThen(w)
      /\ \A c \in Chats : link[c] # 0 => /\ KnownThen(link[c])
                                         /\ link[c] \in gone' \/ <<c, link[c], owner'[link[c]]>> \in by'
  <2>1. \A w \in WebIds : Known(w) => KnownThen(w) /\ (w \in gone' \/ owner'[w] = owner[w])
    BY BelongsKept
  <2>2. ASSUME NEW c \in Chats, link[c] # 0
        PROVE  /\ KnownThen(link[c])
               /\ link[c] \in gone' \/ <<c, link[c], owner'[link[c]]>> \in by'
    <3>1. link[c] \in WebIds /\ Known(link[c]) /\ (link[c] \in gone \/ <<c, link[c], owner[link[c]]>> \in by)
      BY <1>0, <2>2 DEF LinkInv
    <3> QED
      BY <2>1, <3>1 DEF OwnerKept
  <2> QED
    BY <2>1, <2>2
<1>1. ASSUME token' \subseteq token, \A c \in Chats : bot'[c] \in {0, bot[c]}, UNCHANGED link
      PROVE  LinkInv'
  <2>1. \A w \in token' : KnownThen(w)
    BY <1>0, <1>1, <1>k DEF LinkShape, LinkInv
  <2>2. \A c \in Chats : bot'[c] # 0 => KnownThen(bot'[c])
    <3> SUFFICES ASSUME NEW c \in Chats, bot'[c] # 0 PROVE KnownThen(bot'[c])
      OBVIOUS
    <3>1. bot'[c] = bot[c] /\ bot[c] \in WebIds /\ Known(bot[c])
      BY <1>0, <1>1 DEF LinkInv
    <3>2. KnownThen(bot[c])
      BY <3>1, <1>k
    <3> QED
      BY <3>1, <3>2
  <2>3. \A c \in Chats : link'[c] # 0 => /\ KnownThen(link'[c])
                                         /\ link'[c] \in gone' \/ <<c, link'[c], owner'[link'[c]]>> \in by'
    BY <1>1, <1>k
  <2> QED
    BY <2>1, <2>2, <2>3 DEF LinkInv, Known, KnownThen
<1>2. ASSUME NEW r \in Requests, postTelegramLink(r) PROVE LinkInv'
  <2>1. req[r].id \in WebIds /\ Known(req[r].id)
    <3>1. req[r].id = req[r].web /\ req[r].web \in WebIds /\ Belongs(req[r].web, req[r].uid) /\ req[r].uid \in Uids
      BY <1>2 DEF postTelegramLink, Serve, Shape, RequestShape, IsRequest, WhoInv
    <3> QED
      BY <3>1, IdentityConstants DEF Belongs, Known
  <2>2. UNCHANGED <<owner, gone, by, link, bot>> /\ token' = token \cup {req[r].id}
    BY <1>2 DEF postTelegramLink
  <2> QED
    BY <1>0, <2>1, <2>2 DEF LinkInv, Known, KnownThen
<1>3. ASSUME NEW c \in Chats, ConsumeLinkToken(c) PROVE LinkInv'
  <2>1. UNCHANGED <<owner, gone, by, link>>
    BY <1>3 DEF ConsumeLinkToken, identity
  <2> QED
    BY <1>0, <1>3, <2>1 DEF ConsumeLinkToken, LinkInv, Known, KnownThen, LinkShape
<1>4. ASSUME NEW c \in Chats, CommitMove(c) PROVE LinkInv'
  <2>0. UNCHANGED <<owner, gone, token>>
    BY <1>4 DEF CommitMove, unmoved, identity
  <2>1. CASE boot # {}
    BY <1>0, <1>1, <1>4, <2>0, <2>1 DEF CommitMove
  <2>2. CASE boot = {}
    <3>0. /\ link' = [d \in Chats |-> IF d = c THEN bot[c] ELSE IF link[d] = bot[c] THEN 0 ELSE link[d]]
          /\ by' = by \cup {<<c, bot[c], owner[bot[c]]>>}
          /\ bot' = [bot EXCEPT ![c] = 0]
      BY <1>4, <2>2 DEF CommitMove
    <3>1. Known(bot[c])
      <4>1. c \in DOMAIN move /\ MoveOk(c)
        BY <1>4 DEF CommitMove, Shape, MoveShape
      <4>2. bot[c] \in WebIds
        BY <2>2, <4>1 DEF MoveOk
      <4> QED
        BY <1>0, <4>2, IdsApart DEF LinkInv
    <3>2. ASSUME NEW d \in Chats, link'[d] # 0
          PROVE  KnownThen(link'[d]) /\ (link'[d] \in gone' \/ <<d, link'[d], owner'[link'[d]]>> \in by')
      <4>1. CASE d = c
        <5>1. link'[d] = bot[c]
          BY <3>0, <4>1
        <5> QED
          BY <2>0, <3>0, <3>1, <4>1, <5>1 DEF Known, KnownThen
      <4>2. CASE d # c
        <5>1. link'[d] = link[d]
          BY <3>0, <3>2, <4>2
        <5> QED
          BY <1>k, <3>2, <5>1
      <4> QED
        BY <4>1, <4>2
    <3>3. \A d \in Chats : bot'[d] # 0 => KnownThen(bot'[d])
      BY <1>0, <2>0, <3>0 DEF LinkInv, LinkShape, Known, KnownThen
    <3> QED
      BY <1>0, <2>0, <3>2, <3>3 DEF LinkInv, Known, KnownThen
  <2> QED
    BY <2>1, <2>2
<1>5. CASE \/ BackfillLinkedData \/ \E w \in WebIds : adminDeleteUser(w)
           \/ \E c \in Chats : LinkFails(c)
  <2>1. token' \subseteq token /\ (\A c \in Chats : bot'[c] \in {0, bot[c]}) /\ UNCHANGED link
    BY <1>0, <1>5 DEF BackfillLinkedData, adminDeleteUser, LinkFails, unmoved, LinkShape
  <2> QED
    BY <1>1, <2>1
<1>6. CASE UNCHANGED <<token, bot, link>>
  BY <1>1, <1>6
<1>7. CASE \/ (ResolveStep \/ RestartServer) /\ UNCHANGED telegram
           \/ \E r \in Requests :
                 \/ resolveCanonicalChatID(r) \/ createSearch(r) \/ deleteSearch(r) \/ saveListing(r)
                 \/ ResolveExtToken(r) \/ ingestListings(r)
                 \/ CapExtTokens(r) \/ CreateExtToken(r) \/ revokeExtTokens(r)
           \/ \E n \in 1 .. MaxExt : ExpireExt(n)
           \/ \E c \in Chats : botCreates(c) \/ LinkTelegramToWeb(c) \/ migrateUserData(c) \/ DropSearches(c)
           \/ BackfillFails \/ deactivateBlocked \/ adminSetUserActive
           \/ ReactivateUsersWithSearches \/ SyncUserActiveStatus
           \/ UNCHANGED vars
  <2>1. UNCHANGED <<token, bot, link>>
    BY <1>7 DEF telegram, moves, resolveCanonicalChatID, createSearch, deleteSearch, saveListing, ingestListings,
       LinkTelegramToWeb, migrateUserData, DropSearches, MoveSearches, BackfillFails, unmoved, CapExtTokens, CreateExtToken, revokeExtTokens, others, ResolveExtToken, ExpireExt, botCreates,
       deactivateBlocked, adminSetUserActive, SetUserActive, ReactivateUsersWithSearches,
       SyncUserActiveStatus, vars
  <2> QED
    BY <1>6, <2>1
<1> QED
  BY <1>2, <1>3, <1>4, <1>5, <1>7 DEF Next

\* The requests.
RightfulThen(q) ==
    /\ q.pc \in {"put", "canon", "serve", "store"} /\ q.web \in WebIds =>
          BelongsThen(q.web, q.uid) /\ q.uid \in Uids
    /\ q.pc \in {"serve", "store"} =>
          IF q.web \in Chats THEN q.id = q.web
          ELSE q.id \in Chats => q.web \in gone' \/ <<q.id, q.web, q.uid>> \in by'

\* A request goes on for the id it had, or resolves to one of its own.
LEMMA RequestsWho ==
    ASSUME Shape, WhoInv, OwnerKept, [Next]_vars
    PROVE  \A r \in Requests : RightfulThen(req'[r])
<1>0. /\ \A r \in Requests : IsRequest(req[r]) /\ Rightful(req[r])
      /\ req = [r \in Requests |-> req[r]]
  BY WhoParts DEF Shape, RequestShape
<1>k. \A r \in Requests : RightfulThen(req[r])
  <2> SUFFICES ASSUME NEW r \in Requests PROVE RightfulThen(req[r])
    OBVIOUS
  <2>1. req[r].pc \in {"put", "canon", "serve", "store"} /\ req[r].web \in WebIds =>
          req[r].uid \in Uids /\ Belongs(req[r].web, req[r].uid)
    BY <1>0 DEF Rightful
  <2>2. req[r].pc \in {"serve", "store"} =>
          IF req[r].web \in Chats THEN req[r].id = req[r].web
          ELSE req[r].id \in Chats => req[r].web \in gone \/ <<req[r].id, req[r].web, req[r].uid>> \in by
    BY <1>0 DEF Rightful
  <2>3. gone \subseteq gone' /\ by \subseteq by'
    BY DEF OwnerKept
  <2>4. req[r].pc \in {"put", "canon", "serve", "store"} /\ req[r].web \in WebIds =>
          BelongsThen(req[r].web, req[r].uid) /\ req[r].uid \in Uids
    BY <2>1, BelongsKept
  <2> QED
    BY <2>2, <2>3, <2>4 DEF RightfulThen
<1>n. RightfulThen(NoRequest)
  BY DEF RightfulThen, NoRequest
<1>e. ASSUME NEW r \in Requests, NEW q, RightfulThen(q), req' = [req EXCEPT ![r] = q]
      PROVE  \A s \in Requests : RightfulThen(req'[s])
  BY <1>0, <1>k, <1>e
<1>1. ASSUME UNCHANGED req PROVE \A r \in Requests : RightfulThen(req'[r])
  BY <1>k, <1>1
<1>2. ASSUME NEW r \in Requests, End(r) PROVE \A s \in Requests : RightfulThen(req'[s])
  BY <1>2, <1>n, <1>e DEF End
<1>3. ASSUME NEW r \in Requests, Arrive(r) PROVE \A s \in Requests : RightfulThen(req'[s])
  <2>1. PICK u \in Uids, op \in Ops : 
          req' = [req EXCEPT ![r] = [NoRequest EXCEPT !.uid = u, !.op = op, !.web = cache[u],
                                      !.pc = IF cache[u] # 0 THEN "canon" ELSE "select"]]
    BY <1>3 DEF Arrive
  <2>2. UNCHANGED <<owner, gone>>
    BY <1>3 DEF Arrive
  <2>3. cache[u] # 0 => BelongsThen(cache[u], u)
    BY <2>2 DEF WhoInv, Belongs, BelongsThen
  <2>4. RightfulThen([NoRequest EXCEPT !.uid = u, !.op = op, !.web = cache[u],
                                       !.pc = IF cache[u] # 0 THEN "canon" ELSE "select"])
    BY <2>3 DEF RightfulThen, NoRequest
  <2> QED
    BY <2>1, <2>4, <1>e
<1>4. ASSUME NEW r \in Requests, Select(r) PROVE \A s \in Requests : RightfulThen(req'[s])
  <2>1. ASSUME NEW w \in IdOf(req[r].uid), req' = [req EXCEPT ![r].web = w, ![r].pc = "put"]
        PROVE \A s \in Requests : RightfulThen(req'[s])
    <3>1. owner'[w] = req[r].uid /\ req[r].uid \in Uids
      BY <1>0, <1>4 DEF IdOf, Select, IsRequest
    <3>2. RightfulThen([req[r] EXCEPT !.web = w, !.pc = "put"])
      BY <1>0, <3>1 DEF RightfulThen, BelongsThen, IsRequest
    <3>3. req' = [req EXCEPT ![r] = [req[r] EXCEPT !.web = w, !.pc = "put"]]
      BY <1>0, <2>1
    <3> QED
      BY <3>2, <3>3, <1>e
  <2>2. ASSUME req' = [req EXCEPT ![r].new = NextId, ![r].pc = "insert"]
        PROVE \A s \in Requests : RightfulThen(req'[s])
    <3>1. RightfulThen([req[r] EXCEPT !.new = NextId, !.pc = "insert"])
      BY <1>0 DEF RightfulThen, IsRequest
    <3>2. req' = [req EXCEPT ![r] = [req[r] EXCEPT !.new = NextId, !.pc = "insert"]]
      BY <1>0, <2>2
    <3> QED
      BY <3>1, <3>2, <1>e
  <2> QED
    BY <1>2, <1>4, <2>1, <2>2 DEF Select
<1>5. ASSUME NEW r \in Requests, Insert(r) PROVE \A s \in Requests : RightfulThen(req'[s])
  <2>1. CASE /\ owner' = [owner EXCEPT ![req[r].new] = req[r].uid]
             /\ req' = [req EXCEPT ![r].web = req[r].new, ![r].pc = "put"]
    <3>1. req[r].new \in WebIds /\ owner \in [WebIds -> Uids \cup {NoOne}]
      BY <1>0, <1>5 DEF IsRequest, Insert, WhoInv
    <3>2. owner'[req[r].new] = req[r].uid /\ req[r].uid \in Uids
      BY <1>0, <1>5, <2>1, <3>1 DEF Insert, IsRequest
    <3>3. RightfulThen([req[r] EXCEPT !.web = req[r].new, !.pc = "put"])
      BY <1>0, <3>2 DEF RightfulThen, BelongsThen, IsRequest
    <3>4. req' = [req EXCEPT ![r] = [req[r] EXCEPT !.web = req[r].new, !.pc = "put"]]
      BY <1>0, <2>1
    <3> QED
      BY <3>3, <3>4, <1>e
  <2>2. CASE req' = [req EXCEPT ![r].tries = @ + 1, ![r].pc = "select"]
    <3>1. RightfulThen([req[r] EXCEPT !.tries = @ + 1, !.pc = "select"])
      BY <1>0 DEF RightfulThen, IsRequest
    <3>2. req' = [req EXCEPT ![r] = [req[r] EXCEPT !.tries = @ + 1, !.pc = "select"]]
      BY <1>0, <2>2
    <3> QED
      BY <3>1, <3>2, <1>e
  <2> QED
    BY <1>2, <1>5, <2>1, <2>2 DEF Insert
<1>6. ASSUME NEW r \in Requests, Put(r) PROVE \A s \in Requests : RightfulThen(req'[s])
  <2>1. BelongsThen(req[r].web, req[r].uid) /\ req[r].uid \in Uids
    BY <1>0, <1>k, <1>6 DEF Put, RightfulThen, IsRequest
  <2>2. RightfulThen([req[r] EXCEPT !.web = req[r].web, !.pc = "canon"])
    BY <1>0, <2>1 DEF RightfulThen, IsRequest
  <2>3. req' = [req EXCEPT ![r] = [req[r] EXCEPT !.web = req[r].web, !.pc = "canon"]]
    BY <1>0, <1>6 DEF Put, Resolved
  <2> QED
    BY <2>2, <2>3, <1>e
<1>7. ASSUME NEW r \in Requests, resolveCanonicalChatID(r)
      PROVE \A s \in Requests : RightfulThen(req'[s])
  <2>1. PICK a \in {req[r].web} \cup Linked(req[r].web) :
          req' = [req EXCEPT ![r].id = a, ![r].pc = "serve"]
    BY <1>7 DEF resolveCanonicalChatID, GetLinkedTelegramUser
  <2>2. /\ req[r].web \in All
        /\ req[r].web \in WebIds => /\ BelongsThen(req[r].web, req[r].uid)
                                    /\ Belongs(req[r].web, req[r].uid)
                                    /\ req[r].uid \in Uids
    BY <1>0, <1>k, <1>7 DEF resolveCanonicalChatID, IsRequest, RightfulThen, Rightful
  <2>3. req[r].web \in Chats => a = req[r].web
    BY <2>1, IdsApart DEF Linked, Shape, LinkShape
  <2>4. req[r].web \notin Chats /\ a \in Chats => req[r].web \in gone' \/ <<a, req[r].web, req[r].uid>> \in by'
    <3> SUFFICES ASSUME a \in Chats, req[r].web \notin Chats, req[r].web \notin gone
                 PROVE  <<a, req[r].web, req[r].uid>> \in by
      BY DEF OwnerKept
    <3>1. link[a] = req[r].web /\ link[a] # 0 /\ req[r].web \in WebIds
      BY <2>1, <2>2, IdsApart DEF Linked, All
    <3>2. <<a, link[a], owner[link[a]]>> \in by
      BY <3>1 DEF WhoInv
    <3> QED
      BY <2>2, <3>1, <3>2 DEF Belongs
  <2>6. RightfulThen([req[r] EXCEPT !.id = a, !.pc = "serve"])
    BY <1>0, <2>2, <2>3, <2>4 DEF RightfulThen, IsRequest
  <2>5. req' = [req EXCEPT ![r] = [req[r] EXCEPT !.id = a, !.pc = "serve"]]
    BY <1>0, <2>1
  <2> QED
    BY <2>6, <2>5, <1>e
<1>8. ASSUME NEW r \in Requests, CapExtTokens(r) PROVE \A s \in Requests : RightfulThen(req'[s])
  <2>1. RightfulThen([req[r] EXCEPT !.pc = "store"])
    <3>1. RightfulThen(req[r]) /\ req[r].pc = "serve"
      BY <1>k, <1>8 DEF CapExtTokens, Serve
    <3> QED
      BY <1>0, <3>1 DEF RightfulThen, IsRequest
  <2>2. req' = [req EXCEPT ![r] = [req[r] EXCEPT !.pc = "store"]]
    BY <1>0, <1>8 DEF CapExtTokens
  <2> QED
    BY <2>1, <2>2, <1>e
<1>9. ASSUME NEW r \in Requests, createSearch(r) \/ deleteSearch(r) \/ saveListing(r) \/ ingestListings(r)
               \/ postTelegramLink(r) \/ CreateExtToken(r) \/ revokeExtTokens(r)
      PROVE \A s \in Requests : RightfulThen(req'[s])
  BY <1>2, <1>9 DEF createSearch, deleteSearch, saveListing, ingestListings, postTelegramLink, CreateExtToken, revokeExtTokens
<1>10. CASE RestartServer
  BY <1>n, <1>10 DEF RestartServer
<1>11. CASE \/ Expire \/ clear
            \/ \E n \in 1 .. MaxExt : ExpireExt(n)
            \/ \E c \in Chats : ConsumeLinkToken(c) \/ CommitMove(c) \/ botCreates(c)
            \/ BackfillLinkedData \/ BackfillFails \/ deactivateBlocked \/ adminSetUserActive
            \/ ReactivateUsersWithSearches \/ SyncUserActiveStatus
            \/ \E w \in WebIds : adminDeleteUser(w)
            \/ UNCHANGED vars
  <2>1. UNCHANGED req
    BY <1>11 DEF Expire, clear, ExpireExt, ConsumeLinkToken, CommitMove, unmoved, botCreates,
     BackfillLinkedData, BackfillFails, deactivateBlocked, adminSetUserActive, SetUserActive,
     ReactivateUsersWithSearches, SyncUserActiveStatus, adminDeleteUser, DeleteIdentity, vars, identity
  <2> QED
    BY <1>1, <2>1
<1>12. ASSUME NEW c \in Chats, LinkTelegramToWeb(c) \/ LinkFails(c) \/ migrateUserData(c) \/ DropSearches(c)
       PROVE  \A s \in Requests : RightfulThen(req'[s])
  BY <1>1, <1>12, MovesUnseen
<1>13. ASSUME NEW r \in Requests, ResolveExtToken(r) PROVE \A s \in Requests : RightfulThen(req'[s])
  <2>0. UNCHANGED <<owner, gone>>
    BY <1>13 DEF ResolveExtToken
  <2>1. PICK a, u : /\ Exists(a) /\ u = IF a \in WebIds THEN owner[a] ELSE NoOne
                    /\ req' = [req EXCEPT ![r] = [NoRequest EXCEPT !.op = "push", !.web = a,
                                                    !.pc = "canon", !.uid = u]]
    BY <1>13 DEF ResolveExtToken
  <2>2. a \in WebIds => u \in Uids /\ owner[a] = u
    BY <2>1, IdsApart DEF Exists, WhoInv
  <2>3. RightfulThen([NoRequest EXCEPT !.op = "push", !.web = a, !.pc = "canon", !.uid = u])
    BY <2>0, <2>2 DEF RightfulThen, BelongsThen, NoRequest
  <2> QED
    BY <2>1, <2>3, <1>e
<1> QED
  BY <1>3, <1>4, <1>5, <1>6, <1>7, <1>8, <1>9, <1>10, <1>11, <1>12, <1>13 DEF Next, ResolveStep

\* At the start only links to deleted accounts are without one.
LEMMA WhoInit == Init => WhoInv
<1> SUFFICES ASSUME Init PROVE WhoInv
  OBVIOUS
<1>1. PICK s \in Stored :
        /\ link = s.link /\ token = s.token
        /\ IdentityInit(s.owner, {w \in WebIds : s.owner[w] = NoOne /\ Linked(w) # {}})
        /\ by = {<<c, link[c], owner[link[c]]>> : c \in {d \in Chats : link[d] # 0}}
  BY DEF Init
<1>2. /\ owner = s.owner /\ s.owner \in [WebIds -> Uids \cup {NoOne}]
      /\ s.link \in [Chats -> WebIds \cup {0}]
      /\ s.token \subseteq {w \in WebIds : s.owner[w] # NoOne}
  BY <1>1, StoredConstants DEF IdentityInit
<1>3. \A u \in Uids : cache[u] = 0
  BY <1>1 DEF IdentityInit
<1>4. \A r \in Requests : req[r].pc = "idle"
  BY <1>1 DEF IdentityInit, NoRequest
<1>5. \A c \in Chats : bot[c] = 0
  BY DEF Init
<1>6. \A w \in token : Known(w)
  BY <1>1, <1>2 DEF Known
<1>7. ASSUME NEW c \in Chats, link[c] # 0
      PROVE  Known(link[c]) /\ (link[c] \in gone \/ <<c, link[c], owner[link[c]]>> \in by)
  <2>1. link[c] \in WebIds /\ c \in Linked(link[c])
    BY <1>1, <1>2, <1>7 DEF Linked
  <2>2. owner[link[c]] = NoOne => link[c] \in gone
    BY <1>1, <1>2, <2>1 DEF IdentityInit
  <2> QED
    BY <1>1, <1>7, <2>2 DEF Known
<1> QED
  BY <1>2, <1>3, <1>4, <1>5, <1>6, <1>7 DEF WhoInv

\* Together.
LEMMA WhoStep == Shape /\ WhoInv /\ [Next]_vars => WhoInv'
<1> SUFFICES ASSUME Shape, WhoInv, [Next]_vars PROVE WhoInv'
  OBVIOUS
<1>1. OwnerKept
  BY OwnerStep
<1>2. CacheInv' /\ LinkInv'
  BY <1>1, CacheWho, LinkWho
<1>3. \A r \in Requests : RightfulThen(req'[r])
  BY <1>1, RequestsWho
<1>4. owner' \in [WebIds -> Uids \cup {NoOne}]
  BY <1>1 DEF OwnerKept
<1> QED
  BY <1>2, <1>3, <1>4 DEF WhoInv, CacheInv, LinkInv, RightfulThen, BelongsThen, Belongs, Known

-----------------------------------------------------------------------------
(* Browser tokens *)

Tokens == [own : All, live : BOOLEAN]
\* Requests between the cap and the insert of createExtToken.
Storing(a) == {r \in Requests : req[r].pc = "store" /\ req[r].id = a}
\* A stored token takes the place that its request held.
Room == ExtCap + Cardinality(Requests) - 1 + faults
ExtShape == ext \in Seq(Tokens) /\ faults \in Nat
RoomInv == \A a \in All : Cardinality(LiveExt(a)) + Cardinality(Storing(a)) <= Room

\* What a step does to the tokens of account a and the requests that store one.
NoMoreTokens(a) == LiveExt(a)' \subseteq LiveExt(a)
NoMoreStoring(a) == Storing(a)' \subseteq Storing(a)
ExtMove(a) ==
    \/ NoMoreTokens(a) /\ NoMoreStoring(a) /\ faults' >= faults
    \/ \E r \in Requests : /\ Storing(a)' \subseteq Storing(a) \cup {r}
                           /\ NoMoreTokens(a) /\ faults' = faults + 1
    \/ Cardinality(LiveExt(a)') <= ExtCap - 1 /\ UNCHANGED faults
    \/ \E r \in Storing(a) : /\ Storing(a)' \subseteq Storing(a) \ {r}
                             /\ \E n : LiveExt(a)' \subseteq LiveExt(a) \cup {n}
                             /\ UNCHANGED faults

\* The sets counted are finite.
LEMMA TokensFinite ==
    ASSUME ExtShape, NEW a
    PROVE  /\ IsFiniteSet(LiveExt(a)) /\ Cardinality(LiveExt(a)) \in Nat
           /\ IsFiniteSet(Storing(a)) /\ Cardinality(Storing(a)) \in Nat
           /\ Cardinality(Storing(a)) <= Cardinality(Requests)
           /\ Cardinality(Requests) \in Nat \ {0} /\ ExtCap \in Nat \ {0}
<1>1. LiveExt(a) \subseteq 1 .. Len(ext) /\ Len(ext) \in Nat
  BY DEF LiveExt, ExtShape
<1>2. IsFiniteSet(1 .. Len(ext))
  BY <1>1, FS_Interval
<1>3. Storing(a) \subseteq Requests
  BY DEF Storing
<1> QED
  BY <1>1, <1>2, <1>3, FS_Subset, FS_CardinalityType, FS_EmptySet, IdentityConstants, AccountConstants

\* One element more.
LEMMA OneMore ==
    ASSUME NEW S, IsFiniteSet(S), NEW x
    PROVE  /\ IsFiniteSet(S \cup {x}) /\ Cardinality(S \cup {x}) \in Nat
           /\ Cardinality(S \cup {x}) <= Cardinality(S) + 1
<1>1. IsFiniteSet(S \cup {x}) /\ Cardinality(S) \in Nat
  BY FS_AddElement, FS_CardinalityType
<1>2. Cardinality(S \cup {x}) = IF x \in S THEN Cardinality(S) ELSE Cardinality(S) + 1
  BY FS_AddElement
<1> QED
  BY <1>1, <1>2, FS_CardinalityType

\* Each of these leaves room.
LEMMA MoveLeavesRoom ==
    ASSUME ExtShape, ExtShape', NEW a, ExtMove(a),
           Cardinality(LiveExt(a)) + Cardinality(Storing(a)) <= Room
    PROVE  Cardinality(LiveExt(a)') + Cardinality(Storing(a)') <= Room'
<1> DEFINE L == LiveExt(a)
           S == Storing(a)
           L2 == LiveExt(a)'
           S2 == Storing(a)'
           R == Cardinality(Requests)
<1>1. /\ IsFiniteSet(L) /\ Cardinality(L) \in Nat
      /\ IsFiniteSet(S) /\ Cardinality(S) \in Nat
  BY TokensFinite
<1>2. /\ IsFiniteSet(L2) /\ Cardinality(L2) \in Nat
      /\ IsFiniteSet(S2) /\ Cardinality(S2) \in Nat
      /\ Cardinality(S2) <= R
  <2>1. LiveExt(a)' \subseteq 1 .. Len(ext') /\ Len(ext') \in Nat
    BY DEF LiveExt, ExtShape
  <2>2. IsFiniteSet(1 .. Len(ext'))
    BY <2>1, FS_Interval
  <2>3. Storing(a)' \subseteq Requests
    BY DEF Storing
  <2> QED
    BY <2>1, <2>2, <2>3, FS_Subset, FS_CardinalityType, IdentityConstants
<1>3. /\ R \in Nat \ {0} /\ ExtCap \in Nat \ {0}
      /\ faults \in Nat /\ faults' \in Nat
  BY TokensFinite DEF ExtShape
<1>4. /\ Cardinality(L) + Cardinality(S) <= ExtCap + R - 1 + faults
      /\ Room' = ExtCap + R - 1 + faults'
  BY DEF Room
<1>5. \/ L2 \subseteq L /\ S2 \subseteq S /\ faults' >= faults
      \/ \E r \in Requests : S2 \subseteq S \cup {r} /\ L2 \subseteq L /\ faults' = faults + 1
      \/ Cardinality(L2) <= ExtCap - 1 /\ faults' = faults
      \/ \E r \in S : S2 \subseteq S \ {r} /\ (\E n : L2 \subseteq L \cup {n}) /\ faults' = faults
  BY DEF ExtMove, NoMoreTokens, NoMoreStoring
<1> HIDE DEF L, S, L2, S2, R
<1>6. L2 \subseteq L => Cardinality(L2) <= Cardinality(L)
  BY <1>1, FS_Subset
<1>7. \A r : S2 \subseteq S \cup {r} => Cardinality(S2) <= Cardinality(S) + 1
  <2> SUFFICES ASSUME NEW r, S2 \subseteq S \cup {r} PROVE Cardinality(S2) <= Cardinality(S) + 1
    OBVIOUS
  <2>1. /\ IsFiniteSet(S \cup {r}) /\ Cardinality(S \cup {r}) \in Nat
        /\ Cardinality(S \cup {r}) <= Cardinality(S) + 1
    BY <1>1, OneMore
  <2>2. Cardinality(S2) <= Cardinality(S \cup {r})
    BY <2>1, FS_Subset
  <2> QED
    BY <1>1, <1>2, <2>1, <2>2
<1>8. \A n : L2 \subseteq L \cup {n} => Cardinality(L2) <= Cardinality(L) + 1
  <2> SUFFICES ASSUME NEW n, L2 \subseteq L \cup {n} PROVE Cardinality(L2) <= Cardinality(L) + 1
    OBVIOUS
  <2>1. /\ IsFiniteSet(L \cup {n}) /\ Cardinality(L \cup {n}) \in Nat
        /\ Cardinality(L \cup {n}) <= Cardinality(L) + 1
    BY <1>1, OneMore
  <2>2. Cardinality(L2) <= Cardinality(L \cup {n})
    BY <2>1, FS_Subset
  <2> QED
    BY <1>1, <1>2, <2>1, <2>2
<1>9. \A r \in S : S2 \subseteq S \ {r} => Cardinality(S2) <= Cardinality(S) - 1
  <2> SUFFICES ASSUME NEW r \in S, S2 \subseteq S \ {r} PROVE Cardinality(S2) <= Cardinality(S) - 1
    OBVIOUS
  <2>1. IsFiniteSet(S \ {r}) /\ Cardinality(S \ {r}) = Cardinality(S) - 1
    BY <1>1, FS_RemoveElement
  <2> QED
    BY <2>1, FS_Subset
<1>10. S2 \subseteq S => Cardinality(S2) <= Cardinality(S)
  BY <1>1, FS_Subset
<1>11. Cardinality(L2) + Cardinality(S2) <= ExtCap + R - 1 + faults'
  <2>1. CASE L2 \subseteq L /\ S2 \subseteq S /\ faults' >= faults
    BY <1>1, <1>2, <1>3, <1>4, <1>6, <1>10, <2>1
  <2>2. CASE \E r \in Requests : S2 \subseteq S \cup {r} /\ L2 \subseteq L /\ faults' = faults + 1
    BY <1>1, <1>2, <1>3, <1>4, <1>6, <1>7, <2>2
  <2>3. CASE Cardinality(L2) <= ExtCap - 1 /\ faults' = faults
    BY <1>1, <1>2, <1>3, <1>4, <2>3
  <2>4. CASE \E r \in S : S2 \subseteq S \ {r} /\ (\E n : L2 \subseteq L \cup {n}) /\ faults' = faults
    <3>1. Cardinality(S2) <= Cardinality(S) - 1 /\ Cardinality(L2) <= Cardinality(L) + 1 /\ faults' = faults
      BY <1>8, <1>9, <2>4
    <3> QED
      BY <1>1, <1>2, <1>3, <1>4, <3>1
  <2> QED
    BY <1>5, <2>1, <2>2, <2>3, <2>4
<1> QED
  BY <1>4, <1>11 DEF L2, S2

\* Of a finite set of numbers, fewer than keep + 1 have fewer than keep above them.
LEMMA NewestFew ==
    ASSUME NEW L \in SUBSET Nat, IsFiniteSet(L), NEW keep \in Nat
    PROVE  LET K == {n \in L : Cardinality({m \in L : m > n}) < keep}
           IN  IsFiniteSet(K) /\ Cardinality(K) <= keep
<1> DEFINE K == {n \in L : Cardinality({m \in L : m > n}) < keep}
<1>1. IsFiniteSet(K) /\ Cardinality(K) \in Nat
  BY FS_Subset, FS_CardinalityType
<1>2. CASE K = {}
  <2> HIDE DEF K
  <2>1. Cardinality(K) = 0
    BY <1>2, FS_EmptySet
  <2> QED
    BY <1>1, <2>1 DEF K
<1>3. CASE K # {}
  <2>1. PICK k \in K : \A x \in K : k <= x
    <3> DEFINE R == OpToRel(<, Nat)
    <3>1. IsWellFoundedOn(R, Nat)
      BY NatLessThanWellFounded
    <3>2. \A x, y \in Nat : y < x => <<y, x>> \in R
      BY DEF OpToRel
    <3>3. K \in SUBSET Nat
      OBVIOUS
    <3> HIDE DEF R, K
    <3>4. PICK x \in K : \A y \in K : ~ (<<y, x>> \in R)
      BY <1>3, <3>1, <3>3, WFMin
    <3>5. \A y \in K : ~(y < x)
      BY <3>2, <3>3, <3>4
    <3> QED
      BY <3>3, <3>5
  <2> DEFINE A == {m \in L : m > k}
  <2>2. k \in L /\ Cardinality(A) < keep /\ IsFiniteSet(A) /\ Cardinality(A) \in Nat
    BY <2>1, FS_Subset, FS_CardinalityType
  <2>k. K \in SUBSET L
    OBVIOUS
  <2> HIDE DEF K
  <2>3. K \ {k} \subseteq A
    BY <2>1, <2>k
  <2> HIDE DEF A
  <2>4. Cardinality(K \ {k}) = Cardinality(K) - 1
    BY <1>1, <2>1, FS_RemoveElement
  <2>5. Cardinality(K \ {k}) <= Cardinality(A)
    BY <2>2, <2>3, FS_Subset
  <2>6. Cardinality(K) <= keep
    BY <1>1, <2>2, <2>4, <2>5
  <2> QED
    BY <1>1, <2>6 DEF K
<1> QED
  BY <1>2, <1>3

\* Tokens stay who they are of, and none comes to life.
ExtFewer == /\ ext' \in Seq(Tokens) /\ Len(ext') = Len(ext)
            /\ \A n \in 1 .. Len(ext) : ext'[n].own = ext[n].own /\ (ext'[n].live => ext[n].live)

\* Revoking and expiring do that.
LEMMA FewerTokens ==
    ASSUME ExtShape, ext' = [n \in 1 .. Len(ext) |-> ext'[n]],
           \A n \in 1 .. Len(ext) : \/ ext'[n] = ext[n]
                                    \/ \E b \in BOOLEAN : /\ ext'[n] = [ext[n] EXCEPT !.live = b]
                                                          /\ b => ext[n].live
    PROVE  ExtFewer
<1>1. Len(ext) \in Nat /\ \A n \in 1 .. Len(ext) : ext[n] \in Tokens
  BY DEF ExtShape
<1>2. \A n \in 1 .. Len(ext) : /\ ext'[n] \in Tokens /\ ext'[n].own = ext[n].own
                               /\ ext'[n].live => ext[n].live
  BY <1>1 DEF Tokens
<1>3. ext' \in Seq(Tokens) /\ Len(ext') = Len(ext)
  BY <1>1, <1>2
<1> QED
  BY <1>2, <1>3 DEF ExtFewer

\* Then nobody has more of them.
LEMMA FewerLive ==
    ASSUME ExtFewer
    PROVE  \A a : NoMoreTokens(a)
BY DEF ExtFewer, NoMoreTokens, LiveExt

\* The oldest revoked, keep are left.
LEMMA RevokeStep ==
    ASSUME ExtShape, NEW a, NEW keep \in Nat, ext' = RevokeOldestExtTokens(a, keep)
    PROVE  ExtFewer /\ Cardinality(LiveExt(a)') <= keep
<1> DEFINE b(n) == ext[n].live /\ (ext[n].own = a => Cardinality({m \in LiveExt(a) : m > n}) < keep)
           L == LiveExt(a)
           K == {n \in L : Cardinality({m \in L : m > n}) < keep}
<1>1. Len(ext) \in Nat /\ \A n \in 1 .. Len(ext) : ext[n] \in Tokens
  BY DEF ExtShape
<1>2. ext' = [n \in 1 .. Len(ext) |-> [ext[n] EXCEPT !.live = b(n)]]
  BY DEF RevokeOldestExtTokens
<1>3. \A n \in 1 .. Len(ext) : b(n) \in BOOLEAN /\ (b(n) => ext[n].live)
  BY <1>1 DEF Tokens
<1>4. L \in SUBSET Nat /\ IsFiniteSet(L)
  <2>1. LiveExt(a) \subseteq 1 .. Len(ext)
    BY DEF LiveExt
  <2> QED
    BY <1>1, <2>1, TokensFinite
<1>5. \A n \in 1 .. Len(ext) : b(n) /\ ext[n].own = a => n \in K
  BY <1>1 DEF LiveExt
<1> HIDE DEF b
<1>6. ExtFewer
  BY <1>2, <1>3, FewerTokens
<1>7. \A n \in 1 .. Len(ext) : ext'[n].live = b(n)
  BY <1>1, <1>2 DEF Tokens
<1>8. LiveExt(a)' \subseteq K
  BY <1>5, <1>6, <1>7 DEF LiveExt, ExtFewer
<1>9. IsFiniteSet(K) /\ Cardinality(K) <= keep
  BY <1>4, NewestFew
<1>10. Cardinality(LiveExt(a)') \in Nat /\ Cardinality(K) \in Nat /\ Cardinality(LiveExt(a)') <= Cardinality(K)
  <2> HIDE DEF K
  <2> QED
    BY <1>8, <1>9, FS_Subset, FS_CardinalityType
<1> QED
  BY <1>6, <1>9, <1>10

\* A request that does not come to store a token for a.
LEMMA StoringStep ==
    ASSUME RequestShape, NEW r \in Requests, NEW q, req' = [req EXCEPT ![r] = q], NEW a
    PROVE  /\ Storing(a)' \subseteq Storing(a) \cup {r}
           /\ q.pc # "store" \/ q.id # a => Storing(a)' \subseteq Storing(a) \ {r}
<1>1. \A s \in Requests : req'[s] = IF s = r THEN q ELSE req[s]
  BY DEF RequestShape
<1> QED
  BY <1>1 DEF Storing

\* Only CapExtTokens brings a request there.
LEMMA StoringKept ==
    ASSUME Shape, [Next]_vars, \A r \in Requests : ~CapExtTokens(r)
    PROVE  \A a : NoMoreStoring(a)
<1>0. RequestShape /\ req = [r \in Requests |-> req[r]] /\ \A r \in Requests : IsRequest(req[r])
  BY DEF Shape, RequestShape
<1>1. ASSUME UNCHANGED req PROVE \A a : NoMoreStoring(a)
  BY <1>1 DEF NoMoreStoring, Storing
<1>2. ASSUME NEW r \in Requests, NEW q, req' = [req EXCEPT ![r] = q], q.pc # "store"
      PROVE  \A a : NoMoreStoring(a)
  BY <1>0, <1>2, StoringStep DEF NoMoreStoring
<1>3. ASSUME NEW r \in Requests, End(r) PROVE \A a : NoMoreStoring(a)
  <2>1. NoRequest.pc # "store"
    BY DEF NoRequest
  <2> QED
    BY <1>2, <1>3, <2>1 DEF End
<1>4. ASSUME NEW r \in Requests, Arrive(r) PROVE \A a : NoMoreStoring(a)
  <2>1. PICK u \in Uids, op \in Ops :
          req' = [req EXCEPT ![r] = [NoRequest EXCEPT !.uid = u, !.op = op, !.web = cache[u],
                                      !.pc = IF cache[u] # 0 THEN "canon" ELSE "select"]]
    BY <1>4 DEF Arrive
  <2>2. [NoRequest EXCEPT !.uid = u, !.op = op, !.web = cache[u],
                          !.pc = IF cache[u] # 0 THEN "canon" ELSE "select"].pc # "store"
    BY DEF NoRequest
  <2> QED
    BY <1>2, <2>1, <2>2
<1>5. ASSUME NEW r \in Requests, Select(r) PROVE \A a : NoMoreStoring(a)
  <2>1. ASSUME NEW w, req' = [req EXCEPT ![r].web = w, ![r].pc = "put"]
        PROVE \A a : NoMoreStoring(a)
    <3>1. [req[r] EXCEPT !.web = w, !.pc = "put"].pc # "store"
      BY <1>0 DEF IsRequest
    <3>2. req' = [req EXCEPT ![r] = [req[r] EXCEPT !.web = w, !.pc = "put"]]
      BY <1>0, <2>1
    <3> QED
      BY <1>2, <3>1, <3>2
  <2>2. ASSUME req' = [req EXCEPT ![r].new = NextId, ![r].pc = "insert"]
        PROVE \A a : NoMoreStoring(a)
    <3>1. [req[r] EXCEPT !.new = NextId, !.pc = "insert"].pc # "store"
      BY <1>0 DEF IsRequest
    <3>2. req' = [req EXCEPT ![r] = [req[r] EXCEPT !.new = NextId, !.pc = "insert"]]
      BY <1>0, <2>2
    <3> QED
      BY <1>2, <3>1, <3>2
  <2> QED
    BY <1>3, <1>5, <2>1, <2>2 DEF Select
<1>6. ASSUME NEW r \in Requests, Insert(r) PROVE \A a : NoMoreStoring(a)
  <2>1. ASSUME req' = [req EXCEPT ![r].web = req[r].new, ![r].pc = "put"]
        PROVE \A a : NoMoreStoring(a)
    <3>1. [req[r] EXCEPT !.web = req[r].new, !.pc = "put"].pc # "store"
      BY <1>0 DEF IsRequest
    <3>2. req' = [req EXCEPT ![r] = [req[r] EXCEPT !.web = req[r].new, !.pc = "put"]]
      BY <1>0, <2>1
    <3> QED
      BY <1>2, <3>1, <3>2
  <2>2. ASSUME req' = [req EXCEPT ![r].tries = @ + 1, ![r].pc = "select"]
        PROVE \A a : NoMoreStoring(a)
    <3>1. [req[r] EXCEPT !.tries = @ + 1, !.pc = "select"].pc # "store"
      BY <1>0 DEF IsRequest
    <3>2. req' = [req EXCEPT ![r] = [req[r] EXCEPT !.tries = @ + 1, !.pc = "select"]]
      BY <1>0, <2>2
    <3> QED
      BY <1>2, <3>1, <3>2
  <2> QED
    BY <1>3, <1>6, <2>1, <2>2 DEF Insert
<1>7. ASSUME NEW r \in Requests, Put(r) PROVE \A a : NoMoreStoring(a)
  <2>1. [req[r] EXCEPT !.web = req[r].web, !.pc = "canon"].pc # "store"
    BY <1>0 DEF IsRequest
  <2>2. req' = [req EXCEPT ![r] = [req[r] EXCEPT !.web = req[r].web, !.pc = "canon"]]
    BY <1>0, <1>7 DEF Put, Resolved
  <2> QED
    BY <1>2, <2>1, <2>2
<1>8. ASSUME NEW r \in Requests, resolveCanonicalChatID(r) PROVE \A a : NoMoreStoring(a)
  <2>1. PICK i : req' = [req EXCEPT ![r].id = i, ![r].pc = "serve"]
    BY <1>8 DEF resolveCanonicalChatID
  <2>2. [req[r] EXCEPT !.id = i, !.pc = "serve"].pc # "store"
    BY <1>0 DEF IsRequest
  <2>3. req' = [req EXCEPT ![r] = [req[r] EXCEPT !.id = i, !.pc = "serve"]]
    BY <1>0, <2>1
  <2> QED
    BY <1>2, <2>2, <2>3
<1>9. ASSUME NEW r \in Requests, createSearch(r) \/ deleteSearch(r) \/ saveListing(r) \/ ingestListings(r)
               \/ postTelegramLink(r) \/ CreateExtToken(r) \/ revokeExtTokens(r)
      PROVE  \A a : NoMoreStoring(a)
  BY <1>3, <1>9 DEF createSearch, deleteSearch, saveListing, ingestListings, postTelegramLink, CreateExtToken, revokeExtTokens
<1>10. CASE RestartServer
  BY <1>10 DEF RestartServer, NoMoreStoring, Storing, NoRequest
<1>11. CASE \/ Expire \/ clear
            \/ \E n \in 1 .. MaxExt : ExpireExt(n)
            \/ \E c \in Chats : ConsumeLinkToken(c) \/ CommitMove(c) \/ botCreates(c)
            \/ BackfillLinkedData \/ BackfillFails \/ deactivateBlocked \/ adminSetUserActive
            \/ ReactivateUsersWithSearches \/ SyncUserActiveStatus
            \/ \E w \in WebIds : adminDeleteUser(w)
            \/ UNCHANGED vars
  <2>1. UNCHANGED req
    BY <1>11 DEF Expire, clear, ExpireExt, ConsumeLinkToken, CommitMove, unmoved, botCreates,
     BackfillLinkedData, BackfillFails, deactivateBlocked, adminSetUserActive, SetUserActive,
     ReactivateUsersWithSearches, SyncUserActiveStatus, adminDeleteUser, DeleteIdentity, vars, identity
  <2> QED
    BY <1>1, <2>1
<1>12. ASSUME NEW c \in Chats, LinkTelegramToWeb(c) \/ LinkFails(c) \/ migrateUserData(c) \/ DropSearches(c)
       PROVE  \A a : NoMoreStoring(a)
  BY <1>1, <1>12, MovesUnseen
<1>13. ASSUME NEW r \in Requests, ResolveExtToken(r) PROVE \A a : NoMoreStoring(a)
  <2>1. PICK w, u : req' = [req EXCEPT ![r] = [NoRequest EXCEPT !.op = "push", !.web = w,
                                                 !.pc = "canon", !.uid = u]]
    BY <1>13 DEF ResolveExtToken
  <2>2. [NoRequest EXCEPT !.op = "push", !.web = w, !.pc = "canon", !.uid = u].pc # "store"
    BY DEF NoRequest
  <2> QED
    BY <1>2, <2>1, <2>2
<1> QED
  BY <1>4, <1>5, <1>6, <1>7, <1>8, <1>9, <1>10, <1>11, <1>12, <1>13 DEF Next, ResolveStep

\* Every step keeps the tokens typed and is one of the moves.
LEMMA ExtStep ==
    ASSUME Shape, ExtShape, [Next]_vars
    PROVE  ExtShape' /\ \A a : ExtMove(a)
<1>0. /\ RequestShape /\ req = [r \in Requests |-> req[r]] /\ \A r \in Requests : IsRequest(req[r])
      /\ ext \in Seq(Tokens) /\ faults \in Nat
      /\ 0 \notin All /\ Chats \subseteq All /\ WebIds \subseteq All
  BY IdsApart DEF Shape, RequestShape, ExtShape, All
<1>f. Fail => faults' \in Nat /\ faults' = faults + 1 /\ faults' >= faults
  BY <1>0 DEF Fail
<1>1. ASSUME \A r \in Requests : ~CapExtTokens(r), ext' = ext \/ ExtFewer, faults' = faults \/ Fail
      PROVE  ExtShape' /\ \A a : ExtMove(a)
  <2>1. \A a : NoMoreStoring(a)
    BY <1>1, StoringKept
  <2>2. ext' = ext => \A a : NoMoreTokens(a)
    BY DEF NoMoreTokens, LiveExt
  <2>3. \A a : NoMoreTokens(a)
    BY <1>1, <2>2, FewerLive
  <2>4. ExtShape' /\ faults' >= faults
    BY <1>0, <1>1, <1>f DEF ExtShape, ExtFewer
  <2> QED
    BY <2>1, <2>3, <2>4 DEF ExtMove
<1>2. ASSUME NEW r \in Requests, CapExtTokens(r) PROVE ExtShape' /\ \A a : ExtMove(a)
  <2>i. PICK i : i = req[r].id
    OBVIOUS
  <2>q. PICK q : q = [req[r] EXCEPT !.pc = "store"]
    OBVIOUS
  <2>1. req' = [req EXCEPT ![r] = q] /\ q.id = i
    BY <1>0, <1>2, <2>i, <2>q DEF CapExtTokens, IsRequest
  <2>2. /\ \A a : Storing(a)' \subseteq Storing(a) \cup {r}
        /\ \A a : a # i => NoMoreStoring(a)
    BY <1>0, <2>1, StoringStep DEF NoMoreStoring
  <2>3. CASE Fail /\ UNCHANGED ext
    <3>1. \A a : NoMoreTokens(a)
      BY <2>3 DEF NoMoreTokens, LiveExt
    <3>2. ExtShape'
      BY <1>0, <1>f, <2>3 DEF ExtShape
    <3> QED
      BY <1>f, <2>2, <2>3, <3>1, <3>2 DEF ExtMove
  <2>4. CASE Cardinality(LiveExt(i)) >= ExtCap /\ ext' = RevokeOldestExtTokens(i, ExtCap - 1) /\ UNCHANGED faults
    <3>1. ExtCap - 1 \in Nat
      BY AccountConstants
    <3>2. ExtFewer /\ Cardinality(LiveExt(i)') <= ExtCap - 1
      BY <2>4, <3>1, RevokeStep
    <3>3. \A a : NoMoreTokens(a)
      BY <3>2, FewerLive
    <3>4. ExtShape' /\ faults' >= faults
      BY <1>0, <2>4, <3>2 DEF ExtShape, ExtFewer
    <3>5. ExtMove(i)
      BY <2>4, <3>2 DEF ExtMove
    <3>6. \A a : a # i => ExtMove(a)
      BY <2>2, <3>3, <3>4 DEF ExtMove
    <3> QED
      BY <3>4, <3>5, <3>6
  <2>5. CASE ~(Cardinality(LiveExt(i)) >= ExtCap) /\ UNCHANGED <<ext, faults>>
    <3>1. \A a : NoMoreTokens(a)
      BY <2>5 DEF NoMoreTokens, LiveExt
    <3>2. ExtShape' /\ faults' >= faults
      BY <1>0, <2>5 DEF ExtShape
    <3>3. LiveExt(i)' = LiveExt(i)
      BY <2>5 DEF LiveExt
    <3>4. Cardinality(LiveExt(i)) <= ExtCap - 1
      BY <2>5, TokensFinite
    <3>5. ExtMove(i)
      BY <2>5, <3>3, <3>4 DEF ExtMove
    <3>6. \A a : a # i => ExtMove(a)
      BY <2>2, <3>1, <3>2 DEF ExtMove
    <3> QED
      BY <3>2, <3>5, <3>6
  <2> QED
    BY <1>2, <2>i, <2>3, <2>4, <2>5 DEF CapExtTokens
<1>3. ASSUME NEW r \in Requests, CreateExtToken(r) PROVE ExtShape' /\ \A a : ExtMove(a)
  <2>i. PICK i : i = req[r].id
    OBVIOUS
  <2>1. UNCHANGED faults /\ req' = [req EXCEPT ![r] = NoRequest]
    BY <1>3 DEF CreateExtToken, others, End
  <2>2. \A a : Storing(a)' \subseteq Storing(a) \ {r}
    <3>1. NoRequest.pc # "store"
      BY DEF NoRequest
    <3> QED
      BY <1>0, <2>1, <3>1, StoringStep
  <2>3. CASE UNCHANGED ext
    <3>1. \A a : NoMoreTokens(a)
      BY <2>3 DEF NoMoreTokens, LiveExt
    <3> QED
      BY <1>0, <2>1, <2>2, <2>3, <3>1 DEF ExtMove, ExtShape, NoMoreStoring
  <2>4. CASE Exists(i) /\ ext' = Append(ext, [own |-> i, live |-> TRUE])
    <3>1. i \in All
      BY <1>0, <2>4 DEF Exists, All
    <3>2. /\ ext' \in Seq(Tokens) /\ Len(ext') = Len(ext) + 1 /\ Len(ext) \in Nat
          /\ \A n \in 1 .. Len(ext) : ext'[n] = ext[n]
          /\ ext'[Len(ext) + 1] = [own |-> i, live |-> TRUE]
      BY <1>0, <2>4, <3>1 DEF Tokens
    <3>3. \A a : a # i => NoMoreTokens(a)
      BY <3>2 DEF NoMoreTokens, LiveExt
    <3>4. LiveExt(i)' \subseteq LiveExt(i) \cup {Len(ext) + 1}
      BY <3>2 DEF LiveExt
    <3>5. r \in Storing(i)
      BY <1>3, <2>i DEF CreateExtToken, Storing
    <3>6. ExtMove(i)
      BY <2>1, <2>2, <3>4, <3>5 DEF ExtMove
    <3>7. \A a : a # i => ExtMove(a)
      BY <1>0, <2>1, <2>2, <3>3 DEF ExtMove, NoMoreStoring
    <3> QED
      BY <1>0, <2>1, <3>2, <3>6, <3>7 DEF ExtShape
  <2> QED
    BY <1>3, <2>i, <2>3, <2>4 DEF CreateExtToken
<1>4. ASSUME NEW r \in Requests, revokeExtTokens(r) PROVE ExtFewer /\ faults' = faults
  <2>1. \A n \in 1 .. Len(ext) : ext[n].live \in BOOLEAN
    <3>1. \A n \in 1 .. Len(ext) : ext[n] \in Tokens
      BY <1>0
    <3> QED
      BY <3>1 DEF Tokens
  <2>2. ext' = [n \in 1 .. Len(ext) |-> [ext[n] EXCEPT !.live = ext[n].live /\ ext[n].own # req[r].id]]
    BY <1>4 DEF revokeExtTokens
  <2>3. ExtFewer
    BY <2>1, <2>2, FewerTokens
  <2> QED
    BY <1>4, <2>3 DEF revokeExtTokens, others
<1>5. ASSUME NEW n \in 1 .. MaxExt, ExpireExt(n) PROVE ExtFewer /\ faults' = faults
  <2>1. n \in 1 .. Len(ext) /\ ext' = [ext EXCEPT ![n] = [ext[n] EXCEPT !.live = FALSE]] /\ faults' = faults
    BY <1>0, <1>5 DEF ExpireExt
  <2>2. ext = [m \in 1 .. Len(ext) |-> ext[m]]
    BY <1>0
  <2>3. /\ ext' = [m \in 1 .. Len(ext) |-> ext'[m]]
        /\ \A m \in 1 .. Len(ext) : ext'[m] = IF m = n THEN [ext[m] EXCEPT !.live = FALSE] ELSE ext[m]
    BY <2>1, <2>2
  <2> QED
    BY <2>1, <2>3, FewerTokens
<1>6. ASSUME NEW w \in WebIds, adminDeleteUser(w) PROVE ExtFewer /\ faults' = faults
  <2>1. \A n \in 1 .. Len(ext) : ext[n].live \in BOOLEAN
    <3>1. \A n \in 1 .. Len(ext) : ext[n] \in Tokens
      BY <1>0
    <3> QED
      BY <3>1 DEF Tokens
  <2>2. ext' = [n \in 1 .. Len(ext) |-> [ext[n] EXCEPT !.live = ext[n].live /\ ext[n].own # w]]
    BY <1>6 DEF adminDeleteUser
  <2>3. ExtFewer
    BY <2>1, <2>2, FewerTokens
  <2> QED
    BY <1>6, <2>3 DEF adminDeleteUser
<1>7. ASSUME \/ (ResolveStep \/ RestartServer) /\ UNCHANGED <<telegram, rows, kept, ext, late, asked, faults>>
             \/ \E r \in Requests : \/ resolveCanonicalChatID(r) \/ createSearch(r) \/ deleteSearch(r)
                                    \/ saveListing(r) \/ postTelegramLink(r)
                                    \/ ResolveExtToken(r) \/ ingestListings(r)
             \/ \E c \in Chats : \/ ConsumeLinkToken(c) \/ botCreates(c) \/ CommitMove(c) \/ DropSearches(c)
                                 \/ LinkTelegramToWeb(c) \/ LinkFails(c) \/ migrateUserData(c)
             \/ BackfillLinkedData \/ BackfillFails \/ deactivateBlocked \/ adminSetUserActive
             \/ ReactivateUsersWithSearches \/ SyncUserActiveStatus
             \/ UNCHANGED vars
      PROVE  ext' = ext /\ (faults' = faults \/ Fail)
  BY <1>7 DEF resolveCanonicalChatID, createSearch, deleteSearch, saveListing, postTelegramLink, others,
     ResolveExtToken, ingestListings, ConsumeLinkToken, CommitMove, DropSearches, LinkTelegramToWeb,
     LinkFails, migrateUserData, MoveSearches, unmoved, botCreates, BackfillLinkedData, BackfillFails,
     deactivateBlocked, adminSetUserActive, SetUserActive, ReactivateUsersWithSearches,
     SyncUserActiveStatus, vars
<1>8. CASE \E r \in Requests : CapExtTokens(r)
  BY <1>2, <1>8
<1>9. CASE \A r \in Requests : ~CapExtTokens(r)
  <2>1. CASE \E r \in Requests : CreateExtToken(r)
    BY <1>3, <2>1
  <2>2. CASE (ext' = ext \/ ExtFewer) /\ (faults' = faults \/ Fail)
    BY <1>1, <1>9, <2>2
  <2> QED
    BY <1>4, <1>5, <1>6, <1>9, <2>1, <2>2, <1>7 DEF Next
<1> QED
  BY <1>8, <1>9

\* Nobody was found with more than the cap.
LEMMA RoomInit == Init => ExtShape /\ RoomInv
<1> SUFFICES ASSUME Init PROVE ExtShape /\ RoomInv
  OBVIOUS
<1>1. PICK s \in Stored :
        /\ ext = s.ext
        /\ IdentityInit(s.owner, {w \in WebIds : s.owner[w] = NoOne /\ Linked(w) # {}})
  BY DEF Init
<1>2. /\ ext \in Seq(Tokens)
      /\ \A a \in All : Cardinality({n \in DOMAIN ext : ext[n].live /\ ext[n].own = a}) <= ExtCap
  BY <1>1, StoredConstants DEF Tokens, All
<1>3. faults = 0
  BY DEF Init
<1>4. ExtShape
  BY <1>2, <1>3 DEF ExtShape
<1>5. ASSUME NEW a \in All PROVE Cardinality(LiveExt(a)) + Cardinality(Storing(a)) <= Room
  <2>1. LiveExt(a) = {n \in DOMAIN ext : ext[n].live /\ ext[n].own = a}
    BY <1>2 DEF LiveExt
  <2>2. Storing(a) = {}
    BY <1>1 DEF IdentityInit, NoRequest, Storing
  <2>3. Cardinality(Storing(a)) = 0
    BY <2>2, FS_EmptySet
  <2>4. /\ Cardinality(LiveExt(a)) \in Nat /\ Cardinality(LiveExt(a)) <= ExtCap
        /\ Cardinality(Requests) \in Nat \ {0} /\ ExtCap \in Nat
    BY <1>2, <1>4, <2>1, TokensFinite
  <2> HIDE DEF Storing, LiveExt
  <2> QED
    BY <1>3, <2>3, <2>4 DEF Room
<1> QED
  BY <1>4, <1>5 DEF RoomInv

\* A request being carried out is for its own id, or a chat its user linked.
LEMMA ServedRightly == Shape /\ WhoInv => ServedAsOneself
<1> SUFFICES ASSUME Shape, WhoInv, NEW r \in Requests, req[r].pc \in {"serve", "store"}, req[r].web \notin gone
             PROVE  \/ req[r].web \in Chats /\ req[r].id = req[r].web
                    \/ /\ owner[req[r].web] = req[r].uid
                       /\ req[r].id \in Chats => <<req[r].id, req[r].web, req[r].uid>> \in by
  BY DEF ServedAsOneself
<1>1. CASE req[r].web \in Chats
  <2>1. req[r].id = req[r].web
    BY <1>1 DEF WhoInv
  <2> QED
    BY <1>1, <2>1
<1>2. CASE req[r].web \notin Chats
  <2>1. req[r].web \in WebIds
    BY <1>2 DEF Shape, RequestShape, IsRequest, All
  <2>2. Belongs(req[r].web, req[r].uid)
    BY <2>1 DEF WhoInv
  <2>3. req[r].id \in Chats => <<req[r].id, req[r].web, req[r].uid>> \in by
    BY <1>2 DEF WhoInv
  <2> QED
    BY <2>2, <2>3 DEF Belongs
<1> QED
  BY <1>1, <1>2

\* A web request, or a browser's push, is carried out for whoever made it,
\* through caches, redirects to the linked chat, deleted ids, links under way
\* and restarts (resolveCanonicalChatID, extAuthMiddleware), and
\* nobody ends up with more browser tokens than the cap, the requests that
\* counted at once and the failed calls explain (createExtToken).
THEOREM IdentityIsHeld == Spec => []IdentityHeld
<1>1. Init => WhoInv /\ ExtShape /\ RoomInv
  BY WhoInit, RoomInit
<1>2. Shape /\ WhoInv /\ ExtShape /\ RoomInv /\ [Next]_vars => (WhoInv /\ ExtShape /\ RoomInv)'
  <2> SUFFICES ASSUME Shape, WhoInv, ExtShape, RoomInv, [Next]_vars
               PROVE  WhoInv' /\ ExtShape' /\ RoomInv'
    OBVIOUS
  <2>1. ExtShape' /\ \A a : ExtMove(a)
    BY ExtStep
  <2>2. ASSUME NEW a \in All PROVE Cardinality(LiveExt(a)') + Cardinality(Storing(a)') <= Room'
    <3>1. ExtMove(a) /\ Cardinality(LiveExt(a)) + Cardinality(Storing(a)) <= Room
      BY <2>1 DEF RoomInv
    <3> QED
      BY <2>1, <3>1, MoveLeavesRoom
  <2> QED
    BY <2>1, <2>2, WhoStep DEF RoomInv
<1>3. Shape /\ WhoInv /\ ExtShape /\ RoomInv => IdentityHeld
  <2> SUFFICES ASSUME Shape, WhoInv, ExtShape, RoomInv PROVE IdentityHeld
    OBVIOUS
  <2>1. ASSUME NEW a \in All
        PROVE  Cardinality(LiveExt(a)) <= ExtCap + Cardinality(Requests) - 1 + faults
    <3>1. /\ Cardinality(LiveExt(a)) \in Nat /\ Cardinality(Storing(a)) \in Nat
          /\ Cardinality(Requests) \in Nat /\ ExtCap \in Nat /\ faults \in Nat
      BY TokensFinite DEF ExtShape
    <3>2. Cardinality(LiveExt(a)) + Cardinality(Storing(a)) <= ExtCap + Cardinality(Requests) - 1 + faults
      BY DEF RoomInv, Room
    <3> QED
      BY <3>1, <3>2
  <2> QED
    BY <2>1, ServedRightly DEF IdentityHeld, ExtTokensBounded
<1> QED
  BY <1>1, <1>2, <1>3, ShapeAlways, PTL DEF Spec
=============================================================================
