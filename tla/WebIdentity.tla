---------------------------- MODULE WebIdentity ----------------------------
(***************************************************************************)
(* Who a web request is: the API server maps the Firebase uid of a request *)
(* to a chat id, through a cache, creating the users row at first sight.   *)
(* Ids are MAX(chat_id) + 1, so deleting the newest account frees its id.  *)
(***************************************************************************)
EXTENDS Naturals, FiniteSets

CONSTANTS Uids,         \* Firebase users
          NoOne,        \* no user
          WebIds,       \* chat ids of web users, 1 .. n
          Requests,     \* slots for requests at work
          Ops,          \* what a request is for
          MaxTries,     \* maxRetries of upsertChannelUser
          CacheMax,     \* uidCacheMaxSize
          MaxRequests,  \* requests in a behaviour
          MaxEvents     \* expiries, restarts, admin and bot events in a behaviour

ASSUME IdentityConstants ==
    /\ NoOne \notin Uids
    /\ IsFiniteSet(WebIds) /\ WebIds = 1 .. Cardinality(WebIds)
    /\ IsFiniteSet(Requests) /\ Requests # {}
    /\ {MaxTries, CacheMax} \subseteq Nat \ {0} /\ {MaxRequests, MaxEvents} \subseteq Nat

VARIABLES owner,    \* users table: the uid (channel_id) of each web id, or NoOne
          cache,    \* uidCache: the chat id of each uid, 0 for none
          req,      \* requests at work
          admin,    \* adminDeleteUser between the delete and uidCache.clear
          spent,    \* requests and events so far
          gone      \* history: ids that were deleted at some time

identity == <<owner, cache, req, admin, spent, gone>>

NoRequest == [pc |-> "idle", uid |-> NoOne, op |-> "", web |-> 0, new |-> 0, tries |-> 0, id |-> 0]

IdentityInit(o, deleted) ==
    /\ owner = o
    /\ cache = [u \in Uids |-> 0]
    /\ req = [r \in Requests |-> NoRequest]
    /\ admin = FALSE
    /\ spent = [requests |-> 0, events |-> 0]
    /\ gone = deleted

IdOf(u) == {w \in WebIds : owner[w] = u}
\* COALESCE(MAX(chat_id), offset - 1) + 1
NextId == 1 + Cardinality({w \in WebIds : \E x \in WebIds : x >= w /\ owner[x] # NoOne})
Event == spent.events < MaxEvents /\ spent' = [spent EXCEPT !.events = @ + 1]
End(r) == req' = [req EXCEPT ![r] = NoRequest]
Resolved(r, w) == req' = [req EXCEPT ![r].web = w, ![r].pc = "canon"]

\* authMiddleware: a verified token; uidCache.get hits or the store is asked.
Arrive(r) ==
    /\ req[r].pc = "idle" /\ spent.requests < MaxRequests
    /\ \E u \in Uids, op \in Ops :
         req' = [req EXCEPT ![r] = [NoRequest EXCEPT !.uid = u, !.op = op, !.web = cache[u],
                                      !.pc = IF cache[u] # 0 THEN "canon" ELSE "select"]]
    /\ spent' = [spent EXCEPT !.requests = @ + 1]
    /\ UNCHANGED <<owner, cache, admin, gone>>

\* tryUpsertChannelUser: the row of the uid, or the id to create it with.
Select(r) ==
    /\ req[r].pc = "select"
    /\ \/ \E w \in IdOf(req[r].uid) : req' = [req EXCEPT ![r].web = w, ![r].pc = "put"]
       \/ /\ IdOf(req[r].uid) = {} /\ NextId \in WebIds
          /\ req' = [req EXCEPT ![r].new = NextId, ![r].pc = "insert"]
       \/ End(r)
    /\ UNCHANGED <<owner, cache, admin, spent, gone>>

\* Mutant: an insert that takes over an existing id
InsertUnchecked(r) ==
    /\ req[r].pc = "insert"
    /\ owner' = [owner EXCEPT ![req[r].new] = req[r].uid]
    /\ req' = [req EXCEPT ![r].web = req[r].new, ![r].pc = "put"]
    /\ UNCHANGED <<cache, admin, spent, gone>>

\* The insert: the id or the uid taken meanwhile is a unique violation, and
\* upsertChannelUser tries again.
Insert(r) ==
    /\ req[r].pc = "insert"
    /\ IF owner[req[r].new] = NoOne /\ IdOf(req[r].uid) = {}
       THEN /\ owner' = [owner EXCEPT ![req[r].new] = req[r].uid]
            /\ req' = [req EXCEPT ![r].web = req[r].new, ![r].pc = "put"]
       ELSE /\ UNCHANGED owner
            /\ IF req[r].tries + 1 < MaxTries
               THEN req' = [req EXCEPT ![r].tries = @ + 1, ![r].pc = "select"]
               ELSE End(r)
    /\ UNCHANGED <<cache, admin, spent, gone>>

\* uidCache.put: a full cache is emptied first.
Put(r) ==
    /\ req[r].pc = "put"
    /\ LET full == Cardinality({u \in Uids : cache[u] # 0}) >= CacheMax
       IN cache' = [u \in Uids |-> IF u = req[r].uid THEN req[r].web
                                   ELSE IF full THEN 0 ELSE cache[u]]
    /\ Resolved(r, req[r].web)
    /\ UNCHANGED <<owner, admin, spent, gone>>

\* uidCacheTTL
Expire == \E u \in Uids : /\ Event /\ cache[u] # 0
                          /\ cache' = [cache EXCEPT ![u] = 0]
                          /\ UNCHANGED <<owner, req, admin, gone>>

\* AdminDeleteUser of a web user, then uidCache.clear.
DeleteIdentity(w) ==
    /\ Event /\ ~admin /\ owner[w] # NoOne
    /\ owner' = [owner EXCEPT ![w] = NoOne]
    /\ gone' = gone \cup {w}
    /\ admin' = TRUE
    /\ UNCHANGED <<cache, req>>

clear == /\ admin /\ admin' = FALSE
         /\ cache' = [u \in Uids |-> 0]
         /\ UNCHANGED <<owner, req, spent, gone>>

\* The API server is restarted: cache and requests at work are lost.
RestartServer == /\ Event
                 /\ cache' = [u \in Uids |-> 0]
                 /\ req' = [r \in Requests |-> NoRequest]
                 /\ admin' = FALSE
                 /\ req # req'
                 /\ UNCHANGED <<owner, gone>>

ResolveStep == \/ \E r \in Requests : Arrive(r) \/ Select(r) \/ Insert(r) \/ Put(r)
               \/ Expire \/ clear
=============================================================================
