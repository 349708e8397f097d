---------------------------- MODULE MCApiServer ----------------------------
(* Each workload asks for the routes that meet one another, with the         *)
(* requests, events and time its cases need.                                 *)
EXTENDS ApiServer, TLC

Least(l) == CASE l = "user" -> 2 [] l = "ip" -> 2 [] l = "guest" -> 2 [] l = "global" -> 3 [] l = "chat" -> 2
Bursts == [l \in Limiters |-> Least(l)]
Intervals == [l \in Limiters |-> IF l \in {"guest", "global"} THEN 2 ELSE 1]
IdleTimes == [l \in Limiters |-> IF l = "guest" THEN 1 ELSE 2]

Load(routes, from, who, n, e, t) == [ops |-> routes, clients |-> from, users |-> who, requests |-> n, events |-> e, time |-> t]
Proxied == [remote |-> "proxy", forwarded |-> <<"a", "b", "proxy">>]
Direct == [remote |-> "a", forwarded |-> <<"b">>]
Addresses == {Proxied, Direct}
Loads == {
    Load({"instantSearch"}, Addresses, {"none"}, 4, 0, 3),
    Load({"notificationCount", "onClearHiddenConfirm"}, {Proxied}, {"owner"}, 4, 0, 4),
    Load({"notificationCount", "saveListing", "vacuum"}, {Proxied}, {"owner", "none"}, 2, 0, 2),
    Load({"saveListing", "unsaveListing", "onSaveListing"}, {Proxied}, {"owner"}, 4, 2, 0),
    Load({"hideListing", "unhideListing", "onHideListing", "onClearHiddenConfirm"}, {Proxied}, {"owner"}, 4, 0, 0),
    Load({"listNotifications", "markNotificationsSeen", "markListingSeen", "unmarkListingSeen"}, {Proxied}, {"owner"}, 2, 3, 0),
    Load({"listNotifications", "markNotificationsSeen"}, {Proxied}, {"owner"}, 3, 2, 1),
    Load({"confirmToken", "purge", "resetAll"}, {Proxied}, {"owner", "admin"}, 4, 0, 2),
    Load({"confirmToken", "purge", "deleteListing", "saveListing"}, {Proxied}, {"owner", "admin"}, 3, 1, 1),
    Load({"refreshListings"}, {Proxied}, {"owner"}, 4, 0, 3),
    Load({"vacuum"}, {Proxied}, {"admin"}, 2, 0, 0)}

Symmetric == Permutations(Requests)
=============================================================================
