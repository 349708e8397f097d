---------------------------- MODULE ApiRequests ----------------------------
(***************************************************************************)
(* What a request meets before its handler: the middleware chain of the    *)
(* API server's Routes, and the bot's rateLimited wrapper for an update.   *)
(* A behaviour serves one of the workloads it is given.                    *)
(***************************************************************************)
EXTENDS RateLimits

CONSTANTS Requests,     \* goroutines that serve a request or an update
          Clients,      \* connections: [remote, forwarded]
          Users,        \* web users with a valid token
          Owner,        \* the one whose account is modelled
          NoOne,        \* no credential, or one that does not verify
          AdminChatID,  \* the user with that chat id
          AdminEmail,   \* the user with that address
          Chat,         \* the Telegram chat linked to the account
          Workloads     \* what the clients of a behaviour ask for, and how much

OptionalRoutes == {"notificationCount"}
UserRoutes == {"saveListing", "unsaveListing", "hideListing", "unhideListing", "listNotifications",
            "markNotificationsSeen", "markListingSeen", "unmarkListingSeen", "refreshListings"}
AdminRoutes == {"confirmToken", "purge", "resetAll", "deleteListing", "vacuum"}
GuestRoutes == {"instantSearch"}
BotButtons == {"onSaveListing", "onHideListing", "onClearHiddenConfirm"}

ASSUME RequestConstants ==
    /\ IsFiniteSet(Requests) /\ Requests # {}
    /\ NoOne \notin Users /\ Owner \in Users /\ Users \cup {Chat} \subseteq Keys
    /\ \A c \in Clients : c.remote \in Keys /\ c.forwarded \in Seq(Keys)
    /\ \A w \in Workloads :
         /\ w.ops \subseteq UNION {OptionalRoutes, UserRoutes, AdminRoutes, GuestRoutes, BotButtons}
         /\ w.clients \subseteq Clients /\ w.users \subseteq Users \cup {NoOne}
         /\ w.requests \in Nat /\ w.events \in Nat /\ w.time \in 0 .. MaxTime

VARIABLES req,   \* requests at work
          load,  \* the workload of this behaviour
          spent  \* requests and events so far

requests == <<req, load, spent>>

NoRequest == [pc |-> "idle", op |-> "", who |-> NoOne, from |-> "", n |-> 0, at |-> 0]

RequestsInit ==
    /\ req = [r \in Requests |-> NoRequest]
    /\ load \in Workloads
    /\ spent = [requests |-> 0, events |-> 0]

At(r, pc, op) == req[r].pc = pc /\ req[r].op = op
Goto(r, pc) == req' = [req EXCEPT ![r].pc = pc]
End(r) == req' = [req EXCEPT ![r] = NoRequest]
Event == spent.events < load.events /\ spent' = [spent EXCEPT !.events = @ + 1]

Free(r) ==
    /\ req[r].pc = "idle" /\ spent.requests < load.requests
    /\ spent' = [spent EXCEPT !.requests = @ + 1]

\* the outermost limiter, for every HTTP request
withIPRateLimit(r) ==
    /\ Free(r)
    /\ \E c \in load.clients, op \in load.ops \ BotButtons, u \in load.users, ok \in BOOLEAN :
         /\ op \in GuestRoutes => u = NoOne
         /\ op \in UserRoutes \cup OptionalRoutes => u \in {Owner, NoOne}
         /\ ipAllow("ip", extractIP(c), ok)
         /\ IF ok
            THEN req' = [req EXCEPT ![r] = [NoRequest EXCEPT !.pc = "chain", !.op = op, !.who = u, !.from = extractIP(c)]]
            ELSE UNCHANGED req
    /\ UNCHANGED load

isAdmin(u) == u \in {AdminChatID, AdminEmail}

\* requireAdmin: 403 for anyone else
requireAdmin(r) == IF req[r].op \in AdminRoutes => isAdmin(req[r].who) THEN Goto(r, "handle") ELSE End(r)

\* authMiddleware and optionalAuthMiddleware, then withRateLimit: guests have no
\* bucket of their own.
withRateLimit(r) ==
    /\ req[r].pc = "chain" /\ req[r].op \notin GuestRoutes
    /\ IF req[r].who = NoOne
       THEN /\ IF req[r].op \in OptionalRoutes THEN Goto(r, "handle") ELSE End(r)
            /\ UNCHANGED limits
       ELSE \E ok \in BOOLEAN :
              /\ rateLimiterAllow(req[r].who, ok)
              /\ IF ok THEN requireAdmin(r) ELSE End(r)
    /\ UNCHANGED <<load, spent>>

withGuestRateLimit(r) ==
    /\ req[r].pc = "chain" /\ req[r].op \in GuestRoutes
    /\ \E ok \in BOOLEAN :
         /\ ipAllow("guest", req[r].from, ok)
         /\ IF ok THEN Goto(r, "handle") ELSE End(r)
    /\ UNCHANGED <<load, spent>>

\* An update for the bot passes its chat's bucket alone.
rateLimited(r) ==
    /\ Free(r)
    /\ \E op \in load.ops \cap BotButtons, limited \in BOOLEAN :
         /\ isRateLimited(Chat, limited)
         /\ IF limited THEN UNCHANGED req
            ELSE req' = [req EXCEPT ![r] = [NoRequest EXCEPT !.pc = "handle", !.op = op]]
    /\ UNCHANGED load

Chain(r) == withIPRateLimit(r) \/ withRateLimit(r) \/ withGuestRateLimit(r) \/ rateLimited(r)
=============================================================================
