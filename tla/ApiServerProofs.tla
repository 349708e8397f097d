-------------------------- MODULE ApiServerProofs --------------------------
(***************************************************************************)
(* The API server for any number of requests, users, addresses, listings,  *)
(* workloads and time: every purge and reset is confirmed once, the bell   *)
(* swallows nothing, refreshes and requests keep their limits, and lists   *)
(* keep their caps and are reached in full by their pages.                 *)
(***************************************************************************)
EXTENDS ApiServer, SequenceTheorems, FiniteSetTheorems, WellFoundedInduction, TLAPS

Minted == [to : Users, until : Nat, replaced : BOOLEAN]
Op == [by : Users, token : Nat, at : Nat]

\* A request at work has all its fields; past the chain, an administrator's
\* route is served for a user with a token.
RequestShape(x) ==
    /\ DOMAIN x = {"pc", "op", "who", "from", "n", "at"} /\ x = [f \in DOMAIN x |-> x[f]]
    /\ x.who \in Users \cup {NoOne}
    /\ x.pc \in {"handle", "store", "run"} /\ x.op \in AdminRoutes => x.who \in Users
    /\ x.pc \in {"store", "run"} => x.op \in AdminRoutes /\ x.n \in Nat
    /\ x.pc = "run" => x.at \in Nat

Shape ==
    /\ now \in Nat /\ load \in Workloads
    /\ req = [r \in Requests |-> req[r]]
    /\ \A r \in Requests : RequestShape(req[r])
    /\ minted \in Seq(Minted) /\ confirm \in [Users -> Nat] /\ ops \in Seq(Op)

\* A token is on its way into the store (minted, not yet issued) or out of it
\* (consumed, the operation not yet performed).
Holds(r) == req[r].pc \in {"store", "run"}
Fresh(n, u) == n \in 1 .. Len(minted) /\ minted[n].to = u /\ ~minted[n].replaced

Genuine ==
    /\ \A u \in Users : confirm[u] # 0 => Fresh(confirm[u], u)
    /\ \A r \in Requests : Holds(r) => Fresh(req[r].n, req[r].who)
    /\ \A r \in Requests : req[r].pc = "run" => req[r].at <= minted[req[r].n].until
    /\ \A i \in DOMAIN ops : /\ Fresh(ops[i].token, ops[i].by)
                             /\ ops[i].at <= minted[ops[i].token].until

\* A token is in one place: in the store, with a request, or used up.
OnePlace ==
    /\ \A r, q \in Requests : Holds(r) /\ Holds(q) /\ req[r].n = req[q].n => r = q
    /\ \A r \in Requests, u \in Users : Holds(r) => confirm[u] # req[r].n
    /\ \A r \in Requests, i \in DOMAIN ops : Holds(r) => ops[i].token # req[r].n
    /\ \A u \in Users, i \in DOMAIN ops : ops[i].token # confirm[u]
    /\ \A i, j \in DOMAIN ops : ops[i].token = ops[j].token => i = j

TokenInv == Shape /\ Genuine /\ OnePlace

\* Handlers that do not touch the tokens: at most one request moves on, and
\* not to where a token is held.
QuietRequests ==
    \/ req' = req
    \/ \E r \in Requests : \E x : /\ req' = [req EXCEPT ![r] = x]
                                  /\ RequestShape(x)
                                  /\ x.pc \notin {"store", "run"}
Quiet == /\ now' \in Nat /\ load' = load
         /\ UNCHANGED <<confirm, minted, ops>>
         /\ QuietRequests

-----------------------------------------------------------------------------
\* A quiet step leaves every token where it is, but for those of a request that
\* ends (StoreFails of a purge: its token is gone).
LEMMA QuietKeepsTokens == TokenInv /\ Quiet => TokenInv'
<1> SUFFICES ASSUME TokenInv, Quiet PROVE TokenInv'
  OBVIOUS
<1>1. CASE req' = req
  BY <1>1 DEF TokenInv, Shape, Genuine, OnePlace, Quiet, Holds, Fresh
<1>2. CASE req' # req
  <2>0. PICK s \in Requests : \E x : /\ req' = [req EXCEPT ![s] = x]
                                     /\ RequestShape(x)
                                     /\ x.pc \notin {"store", "run"}
    BY <1>2 DEF Quiet, QuietRequests
  <2>1. PICK x : /\ req' = [req EXCEPT ![s] = x]
                 /\ RequestShape(x)
                 /\ x.pc \notin {"store", "run"}
    BY <2>0
  <2>2. /\ req'[s] = x
        /\ \A r \in Requests : r # s => req'[r] = req[r]
        /\ req' = [r \in Requests |-> req'[r]]
    BY <2>1 DEF TokenInv, Shape
  <2>3. \A r \in Requests : Holds(r)' => Holds(r) /\ req'[r] = req[r]
    BY <2>1, <2>2 DEF Holds
  <2>4. Shape'
    BY <2>1, <2>2 DEF TokenInv, Shape, Quiet
  <2>5. Genuine'
    BY <2>1, <2>2, <2>3 DEF TokenInv, Genuine, Quiet, Fresh, Holds
  <2>6. OnePlace'
    BY <2>3 DEF TokenInv, OnePlace, Quiet
  <2> QED BY <2>4, <2>5, <2>6 DEF TokenInv
<1> QED BY <1>1, <1>2

\* issue: a fresh token enters the minting request.
LEMMA MintKeepsTokens ==
    ASSUME TokenInv, NEW r \in Requests, mintConfirmToken(r), UNCHANGED <<limits, load>>
    PROVE  TokenInv'
<1>1. /\ req[r].who \in Users
      /\ now + ConfirmTTL \in Nat
  BY AdminConstants DEF mintConfirmToken, At, TokenInv, Shape, RequestShape, AdminRoutes
<1>0. PICK k, v : k = Len(minted) + 1 /\ v = req[r].who
  OBVIOUS
<1> DEFINE m == [to |-> v, until |-> now + ConfirmTTL, replaced |-> FALSE]
<1>2. /\ minted' = Append(minted, m) /\ m \in Minted
      /\ minted \in Seq(Minted) /\ minted' \in Seq(Minted)
      /\ Len(minted) \in Nat /\ Len(minted') = k
      /\ minted'[k] = m
      /\ \A i \in 1 .. Len(minted) : minted'[i] = minted[i]
  BY <1>0, <1>1 DEF mintConfirmToken, TokenInv, Shape, Minted
<1>3. req' = [req EXCEPT ![r] = [req[r] EXCEPT !.pc = "store", !.n = k]]
  BY <1>0 DEF mintConfirmToken
<1> DEFINE x == [req[r] EXCEPT !.pc = "store", !.n = k]
<1>4. /\ DOMAIN x = {"pc", "op", "who", "from", "n", "at"} /\ x = [f \in DOMAIN x |-> x[f]]
      /\ x.pc = "store" /\ x.n = k /\ x.op = req[r].op /\ x.who = v /\ x.at = req[r].at
  BY <1>0 DEF TokenInv, Shape, RequestShape
<1> HIDE DEF x
<1>5. /\ req'[r] = x
      /\ \A q \in Requests : q # r => req'[q] = req[q]
      /\ req' = [q \in Requests |-> req'[q]]
  BY <1>3 DEF TokenInv, Shape, x
<1>6. RequestShape(x)
  BY <1>0, <1>1, <1>2, <1>4 DEF RequestShape, TokenInv, Shape, mintConfirmToken, At, AdminRoutes
<1>7. Shape'
  BY <1>2, <1>5, <1>6 DEF TokenInv, Shape, mintConfirmToken, limits
<1>8. ~Holds(r) /\ \A q \in Requests : q # r => (Holds(q)' <=> Holds(q))
  BY <1>5 DEF Holds, mintConfirmToken, At
<1>9. \A u, n : Fresh(n, u) => Fresh(n, u)' /\ n # k /\ minted'[n].until = minted[n].until
  BY <1>2 DEF Fresh
<1>10. Fresh(k, v)'
  BY <1>1, <1>2 DEF Fresh
<1>11. Genuine'
  <2>1. \A u \in Users : confirm'[u] # 0 => Fresh(confirm[u], u)'
    BY <1>9 DEF TokenInv, Genuine, mintConfirmToken
  <2>2. \A q \in Requests : Holds(q)' => Fresh(req[q].n, req[q].who)'
    BY <1>4, <1>5, <1>8, <1>9, <1>10 DEF TokenInv, Genuine, Fresh
  <2>3. \A q \in Requests : req'[q].pc = "run" => req'[q].at <= minted'[req'[q].n].until
    BY <1>4, <1>5, <1>8, <1>9 DEF TokenInv, Genuine, Holds
  <2>4. \A i \in DOMAIN ops' : Fresh(ops[i].token, ops[i].by)' /\ ops'[i].at <= minted'[ops'[i].token].until
    BY <1>9 DEF TokenInv, Genuine, Fresh, mintConfirmToken
  <2> QED
    BY <2>1, <2>2, <2>3, <2>4 DEF Genuine, Fresh, mintConfirmToken
<1>12. OnePlace'
  <2>1. /\ \A u \in Users : confirm[u] # k
        /\ \A i \in DOMAIN ops : ops[i].token # k
        /\ \A q \in Requests : Holds(q) => req[q].n # k
    BY <1>0, <1>2, <1>9 DEF TokenInv, Genuine, Shape, Fresh
  <2>2. \A q \in Requests : Holds(q)' => \/ q = r /\ req'[q].n = k
                                         \/ q # r /\ Holds(q) /\ req'[q].n = req[q].n
    BY <1>4, <1>5, <1>8
  <2>3. confirm' = confirm /\ ops' = ops
    BY DEF mintConfirmToken
  <2> QED
    BY <2>1, <2>2, <2>3 DEF TokenInv, OnePlace
<1> QED BY <1>7, <1>11, <1>12 DEF TokenInv

\* issue: the minted token leaves the request for the store; the one it
\* replaces is nowhere any more.
LEMMA IssueKeepsTokens ==
    ASSUME TokenInv, NEW r \in Requests, issue(r), UNCHANGED <<limits, load>>
    PROVE  TokenInv'
<1>0. PICK u, n, o : u = req[r].who /\ n = req[r].n /\ o = confirm[u]
  OBVIOUS
<1>1. u \in Users /\ Holds(r) /\ Fresh(n, u) /\ n \in Nat \ {0} /\ o \in Nat
  BY <1>0 DEF issue, At, Holds, TokenInv, Shape, Genuine, RequestShape, AdminRoutes, Fresh
<1>2. /\ minted \in Seq(Minted) /\ minted' \in Seq(Minted) /\ Len(minted') = Len(minted)
      /\ \A i \in 1 .. Len(minted) : /\ minted'[i].to = minted[i].to
                                     /\ minted'[i].until = minted[i].until
                                     /\ i # o => minted'[i] = minted[i]
  <2>1. minted \in Seq(Minted) /\ Len(minted) \in Nat /\ DOMAIN minted = 1 .. Len(minted)
    BY DEF TokenInv, Shape
  <2>2. minted' = [i \in 1 .. Len(minted) |-> IF i = o THEN [minted[i] EXCEPT !.replaced = TRUE] ELSE minted[i]]
    BY <1>0, <2>1 DEF issue
  <2>3. \A i \in 1 .. Len(minted) : minted[i] \in Minted
    BY <2>1
  <2>4. \A i \in 1 .. Len(minted) : /\ minted'[i] \in Minted
                                    /\ minted'[i].to = minted[i].to
                                    /\ minted'[i].until = minted[i].until
                                    /\ i # o => minted'[i] = minted[i]
    BY <2>2, <2>3 DEF Minted
  <2>5. minted' = [i \in 1 .. Len(minted) |-> minted'[i]]
    BY <2>2
  <2>6. minted' \in Seq(Minted) /\ Len(minted') = Len(minted)
    BY <2>1, <2>4, <2>5
  <2> QED BY <2>1, <2>4, <2>6
<1>3. \A i, w : Fresh(i, w) /\ i # o => Fresh(i, w)' /\ minted'[i].until = minted[i].until
  BY <1>2 DEF Fresh
<1>4. /\ confirm'[u] = n /\ confirm' \in [Users -> Nat]
      /\ \A w \in Users : w # u => confirm'[w] = confirm[w]
      /\ ops' = ops
  BY <1>0, <1>1 DEF issue, TokenInv, Shape
<1>5. /\ req' = [q \in Requests |-> req'[q]]
      /\ RequestShape(req'[r]) /\ ~Holds(r)'
      /\ \A q \in Requests : q # r => req'[q] = req[q]
  BY DEF issue, End, NoRequest, TokenInv, Shape, RequestShape, Holds, AdminRoutes
<1>6. \A q \in Requests : Holds(q)' => Holds(q) /\ q # r /\ req'[q] = req[q]
  BY <1>5 DEF Holds
<1>7. Shape'
  BY <1>2, <1>4, <1>5 DEF TokenInv, Shape, limits
\* the replaced token was in the store for u alone
<1>8. /\ n # o
      /\ \A w \in Users : w # u /\ confirm[w] # 0 => confirm[w] # o
      /\ \A q \in Requests : Holds(q) => req[q].n # o
      /\ \A i \in DOMAIN ops : ops[i].token # o
  BY <1>0, <1>1 DEF TokenInv, OnePlace, Genuine, Fresh
<1>9. Genuine'
  <2>1. \A w \in Users : confirm'[w] # 0 => Fresh(confirm[w], w)'
    BY <1>1, <1>3, <1>4, <1>8 DEF TokenInv, Genuine, Fresh
  <2>2. \A q \in Requests : Holds(q)' => Fresh(req[q].n, req[q].who)'
    BY <1>3, <1>6, <1>8 DEF TokenInv, Genuine, Fresh
  <2>3. \A q \in Requests : req'[q].pc = "run" => req'[q].at <= minted'[req'[q].n].until
    BY <1>3, <1>6, <1>8 DEF TokenInv, Genuine, Holds
  <2>4. \A i \in DOMAIN ops' : Fresh(ops[i].token, ops[i].by)' /\ ops'[i].at <= minted'[ops'[i].token].until
    BY <1>3, <1>4, <1>8 DEF TokenInv, Genuine, Fresh
  <2> QED
    BY <2>1, <2>2, <2>3, <2>4 DEF Genuine, Fresh
<1>10. OnePlace'
  <2>1. \A q \in Requests : q # r /\ Holds(q) => req[q].n # n
    BY <1>0, <1>1 DEF TokenInv, OnePlace
  <2>2. \A i \in DOMAIN ops : ops[i].token # n
    BY <1>0, <1>1 DEF TokenInv, OnePlace
  <2> QED
    BY <1>4, <1>6, <2>1, <2>2 DEF TokenInv, OnePlace
<1> QED BY <1>7, <1>9, <1>10 DEF TokenInv

\* consume: the outstanding token goes to the request, or nowhere.
LEMMA ConsumeKeepsTokens ==
    ASSUME TokenInv, NEW r \in Requests, requireConfirmToken(r), UNCHANGED <<limits, load>>
    PROVE  TokenInv'
<1>0. PICK u : u = req[r].who
  OBVIOUS
<1>1. u \in Users /\ ~Holds(r)
  BY <1>0 DEF requireConfirmToken, TokenInv, Shape, RequestShape, AdminRoutes, Holds
<1>2. /\ minted' = minted /\ ops' = ops
      /\ confirm' \in [Users -> Nat] /\ confirm'[u] \in {confirm[u], 0}
      /\ \A w \in Users : w # u => confirm'[w] = confirm[w]
  BY <1>0, <1>1 DEF requireConfirmToken, consume, TokenInv, Shape
<1>3. PICK x : /\ req' = [req EXCEPT ![r] = x] /\ RequestShape(x)
               /\ \/ x.pc = "idle"
                  \/ /\ x.pc = "run" /\ x.who = u /\ x.n = confirm[u] /\ x.at = now
                     /\ confirm[u] # 0 /\ now <= minted[confirm[u]].until
                     /\ confirm'[u] = 0
  <2>1. PICK tok \in 0 .. Len(minted) + 1, ok \in BOOLEAN :
          /\ consume(u, tok, ok)
          /\ req' = [req EXCEPT ![r] = IF ok THEN [@ EXCEPT !.pc = "run", !.n = tok, !.at = now] ELSE NoRequest]
    BY <1>0 DEF requireConfirmToken
  <2>2. CASE ~ok
    <3>1. req' = [req EXCEPT ![r] = NoRequest]
      BY <2>1, <2>2
    <3>2. RequestShape(NoRequest) /\ NoRequest.pc = "idle"
      BY DEF NoRequest, RequestShape
    <3> QED BY <3>1, <3>2
  <2>3. CASE ok
    <3> DEFINE x == [req[r] EXCEPT !.pc = "run", !.n = tok, !.at = now]
    <3>1. req' = [req EXCEPT ![r] = x]
      BY <2>1, <2>3
    <3>2. /\ DOMAIN x = {"pc", "op", "who", "from", "n", "at"} /\ x = [f \in DOMAIN x |-> x[f]]
          /\ x.pc = "run" /\ x.n = tok /\ x.op = req[r].op /\ x.who = u /\ x.at = now
      BY <1>0 DEF TokenInv, Shape, RequestShape
    <3>3. /\ tok \in Nat /\ tok # 0 /\ now \in Nat /\ tok = confirm[u]
          /\ now <= minted[confirm[u]].until /\ confirm'[u] = 0
          /\ req[r].op \in AdminRoutes
      <4>1. Len(minted) \in Nat /\ confirm \in [Users -> Nat] /\ now \in Nat
        BY DEF TokenInv, Shape
      <4>2. /\ tok # 0 /\ tok = confirm[u] /\ now <= minted[confirm[u]].until
            /\ confirm' = [confirm EXCEPT ![u] = 0]
        BY <2>1, <2>3 DEF consume
      <4> QED
        BY <4>1, <4>2, <1>1 DEF requireConfirmToken, AdminRoutes
    <3>4. RequestShape(x)
      BY <3>2, <3>3, <1>1 DEF RequestShape
    <3> QED BY <3>1, <3>2, <3>3, <3>4
  <2> QED BY <2>2, <2>3
<1>4. /\ req'[r] = x
      /\ \A q \in Requests : q # r => req'[q] = req[q]
      /\ req' = [q \in Requests |-> req'[q]]
  BY <1>3 DEF TokenInv, Shape
<1>5. Shape'
  BY <1>2, <1>3, <1>4 DEF TokenInv, Shape, limits
<1>6. \A q \in Requests : Holds(q)' =>
        \/ q # r /\ Holds(q) /\ req'[q] = req[q]
        \/ /\ q = r /\ req'[q] = x /\ x.pc = "run" /\ x.who = u /\ x.n = confirm[u] /\ x.at = now
           /\ confirm[u] # 0 /\ now <= minted[confirm[u]].until /\ confirm'[u] = 0
  BY <1>3, <1>4 DEF Holds
<1>7. Genuine'
  <2>1. \A w \in Users : confirm'[w] # 0 => Fresh(confirm[w], w)'
    BY <1>2 DEF TokenInv, Genuine, Fresh
  <2>2. \A q \in Requests : Holds(q)' => Fresh(req[q].n, req[q].who)'
    BY <1>1, <1>2, <1>6 DEF TokenInv, Genuine, Fresh
  <2>3. \A q \in Requests : req'[q].pc = "run" => req'[q].at <= minted'[req'[q].n].until
    BY <1>2, <1>6 DEF TokenInv, Genuine, Holds
  <2>4. \A i \in DOMAIN ops' : Fresh(ops[i].token, ops[i].by)' /\ ops'[i].at <= minted'[ops'[i].token].until
    BY <1>2 DEF TokenInv, Genuine, Fresh
  <2> QED
    BY <2>1, <2>2, <2>3, <2>4 DEF Genuine, Fresh
<1>8. OnePlace'
  \* no other user's outstanding token is u's
  <2>1. \A w \in Users : w # u /\ confirm[u] # 0 => confirm[w] # confirm[u]
    BY <1>1 DEF TokenInv, Genuine, Fresh
  \* and 0 is no token at all
  <2>2. /\ \A q \in Requests : Holds(q) => req[q].n # 0
        /\ \A i \in DOMAIN ops : ops[i].token # 0
    BY DEF TokenInv, Genuine, Fresh
  <2>3. \A q, p \in Requests : Holds(q)' /\ Holds(p)' /\ req'[q].n = req'[p].n => q = p
    BY <1>1, <1>6 DEF TokenInv, OnePlace
  <2>4. \A q \in Requests, w \in Users : Holds(q)' => confirm'[w] # req'[q].n
    BY <1>1, <1>2, <1>6, <2>1, <2>2 DEF TokenInv, OnePlace
  <2>5. \A q \in Requests, i \in DOMAIN ops' : Holds(q)' => ops'[i].token # req'[q].n
    BY <1>1, <1>2, <1>6 DEF TokenInv, OnePlace
  <2>6. \A w \in Users, i \in DOMAIN ops' : ops'[i].token # confirm'[w]
    BY <1>1, <1>2, <2>2 DEF TokenInv, OnePlace
  <2> QED
    BY <1>2, <2>3, <2>4, <2>5, <2>6 DEF TokenInv, OnePlace
<1> QED BY <1>5, <1>7, <1>8 DEF TokenInv

\* The operation itself: the token is used up with the request.
LEMMA PerformKeepsTokens ==
    ASSUME TokenInv, NEW r \in Requests, req[r].pc = "run", End(r), Performed(r),
           UNCHANGED <<limits, load, confirm, minted>>
    PROVE  TokenInv'
<1>0. PICK u, n, at : u = req[r].who /\ n = req[r].n /\ at = req[r].at
  OBVIOUS
<1> DEFINE o == [by |-> u, token |-> n, at |-> at]
           k == Len(ops) + 1
<1>1. /\ Holds(r) /\ Fresh(n, u) /\ at <= minted[n].until
      /\ u \in Users /\ n \in Nat /\ at \in Nat
  BY <1>0 DEF TokenInv, Shape, Genuine, RequestShape, Holds
<1>2. /\ ops' \in Seq(Op) /\ DOMAIN ops' = DOMAIN ops \cup {k}
      /\ ops'[k] = o /\ k \notin DOMAIN ops
      /\ \A i \in DOMAIN ops : ops'[i] = ops[i]
  <2>1. ops \in Seq(Op) /\ o \in Op /\ ops' = Append(ops, o)
    BY <1>0, <1>1 DEF Performed, Op, TokenInv, Shape
  <2>2. /\ Len(ops) \in Nat /\ DOMAIN ops = 1 .. Len(ops)
        /\ ops' \in Seq(Op) /\ Len(ops') = k /\ DOMAIN ops' = 1 .. k
        /\ ops'[k] = o /\ \A i \in 1 .. Len(ops) : ops'[i] = ops[i]
    BY <2>1
  <2> QED BY <2>2
<1>3. /\ req' = [q \in Requests |-> req'[q]]
      /\ RequestShape(req'[r]) /\ ~Holds(r)'
      /\ \A q \in Requests : q # r => req'[q] = req[q]
  BY DEF End, NoRequest, TokenInv, Shape, RequestShape, Holds, AdminRoutes
<1>4. \A q \in Requests : Holds(q)' => Holds(q) /\ q # r /\ req'[q] = req[q]
  BY <1>3 DEF Holds
<1>5. Shape'
  BY <1>2, <1>3 DEF TokenInv, Shape, limits
<1>6. \A i \in DOMAIN ops' : \/ i \in DOMAIN ops /\ ops'[i] = ops[i]
                             \/ i = k /\ ops'[i].token = n /\ ops'[i].by = u /\ ops'[i].at = at
  BY <1>2
<1> HIDE DEF k, o
<1>7. Genuine'
  <2>1. \A q \in Requests : Holds(q)' => Fresh(req[q].n, req[q].who)'
    BY <1>4 DEF TokenInv, Genuine, Fresh
  <2>2. \A q \in Requests : req'[q].pc = "run" => req'[q].at <= minted'[req'[q].n].until
    BY <1>4 DEF TokenInv, Genuine, Holds
  <2>3. \A i \in DOMAIN ops' : Fresh(ops[i].token, ops[i].by)' /\ ops'[i].at <= minted'[ops'[i].token].until
    BY <1>1, <1>6 DEF TokenInv, Genuine, Fresh
  <2>4. \A w \in Users : confirm'[w] # 0 => Fresh(confirm[w], w)'
    BY DEF TokenInv, Genuine, Fresh
  <2> QED
    BY <2>1, <2>2, <2>3, <2>4 DEF Genuine, Fresh
<1>8. OnePlace'
  <2>1. /\ \A q \in Requests : q # r /\ Holds(q) => req[q].n # n
        /\ \A w \in Users : confirm[w] # n
        /\ \A i \in DOMAIN ops : ops[i].token # n
    BY <1>0, <1>1 DEF TokenInv, OnePlace
  <2> QED
    BY <1>4, <1>6, <2>1 DEF TokenInv, OnePlace
<1> QED BY <1>5, <1>7, <1>8 DEF TokenInv

-----------------------------------------------------------------------------
\* A request that ends.
LEMMA EndIsQuiet ==
    ASSUME NEW r \in Requests, End(r) PROVE QuietRequests
<1>1. RequestShape(NoRequest) /\ NoRequest.pc = "idle"
  BY DEF RequestShape, NoRequest
<1> QED BY <1>1 DEF End, QuietRequests

\* A request that goes on, to a place where no token is held; an administrator's
\* gets to its handler only with a user.
LEMMA MoveIsQuiet ==
    ASSUME Shape, NEW r \in Requests, NEW x, req' = [req EXCEPT ![r] = x],
           DOMAIN x = DOMAIN req[r], x = [f \in DOMAIN x |-> x[f]],
           x.who = req[r].who, x.op = req[r].op, x.pc \notin {"store", "run"},
           x.pc = "handle" /\ req[r].op \in AdminRoutes => req[r].who \in Users
    PROVE  QuietRequests
<1>1. RequestShape(x)
  BY DEF Shape, RequestShape
<1> QED BY <1>1 DEF QuietRequests

\* A request that goes on to its handler, or within it.
LEMMA GotoIsQuiet ==
    ASSUME Shape, NEW r \in Requests, NEW pc, Goto(r, pc), pc \notin {"store", "run"},
           pc = "handle" /\ req[r].op \in AdminRoutes => req[r].who \in Users
    PROVE  QuietRequests
<1> DEFINE x == [req[r] EXCEPT !.pc = pc]
<1>1. /\ DOMAIN x = DOMAIN req[r] /\ x = [f \in DOMAIN x |-> x[f]]
      /\ x.who = req[r].who /\ x.op = req[r].op /\ x.pc = pc
  BY DEF Shape, RequestShape
<1>2. req' = [req EXCEPT ![r] = x]
  BY DEF Goto
<1> HIDE DEF x
<1> QED BY <1>1, <1>2, MoveIsQuiet

\* The limiters never change the clock.
LEMMA LimitersKeepClock ==
    /\ \A l, k, ok : Take(l, k, ok) => now' = now
    /\ \A l, ip, ok : ipAllow(l, ip, ok) => now' = now
BY DEF Take, ipAllow, limits

\* A request that arrives: no token yet.
LEMMA ArrivalIsQuiet ==
    ASSUME Shape, NEW r \in Requests, NEW pc \in {"chain", "handle"}, NEW op, NEW who \in Users \cup {NoOne}, NEW from,
           pc = "handle" => op \notin AdminRoutes,
           req' = [req EXCEPT ![r] = [NoRequest EXCEPT !.pc = pc, !.op = op, !.who = who, !.from = from]]
    PROVE  QuietRequests
<1> DEFINE x == [NoRequest EXCEPT !.pc = pc, !.op = op, !.who = who, !.from = from]
<1>1. /\ DOMAIN x = {"pc", "op", "who", "from", "n", "at"} /\ x = [f \in DOMAIN x |-> x[f]]
      /\ x.who = who /\ x.op = op /\ x.pc = pc
  BY DEF NoRequest
<1> HIDE DEF x
<1>2. RequestShape(x)
  BY <1>1 DEF RequestShape
<1> QED BY <1>1, <1>2 DEF QuietRequests, x

\* The middleware chain: an administrator's route is only reached by a user.
LEMMA ChainIsQuiet ==
    ASSUME Shape, NEW r \in Requests, Chain(r) PROVE QuietRequests /\ now' = now /\ load' = load
<1>1. CASE withIPRateLimit(r)
  <2>1. PICK c \in load.clients, op \in load.ops \ BotButtons, u \in load.users, ok \in BOOLEAN :
          /\ ipAllow("ip", extractIP(c), ok)
          /\ IF ok
             THEN req' = [req EXCEPT ![r] = [NoRequest EXCEPT !.pc = "chain", !.op = op, !.who = u, !.from = extractIP(c)]]
             ELSE UNCHANGED req
    BY <1>1 DEF withIPRateLimit
  <2>2. u \in Users \cup {NoOne}
    BY RequestConstants DEF Shape
  <2>3. QuietRequests
    BY <2>1, <2>2, ArrivalIsQuiet DEF QuietRequests
  <2> QED BY <1>1, <2>1, <2>3, LimitersKeepClock DEF withIPRateLimit
<1>2. CASE withRateLimit(r)
  <2>1. CASE req[r].who = NoOne
    <3>1. CASE req[r].op \in OptionalRoutes
      <4>1. Goto(r, "handle") /\ req[r].op \notin AdminRoutes
        BY <1>2, <2>1, <3>1 DEF withRateLimit, OptionalRoutes, AdminRoutes
      <4>2. QuietRequests
        BY <4>1, GotoIsQuiet
      <4> QED BY <1>2, <2>1, <4>2 DEF withRateLimit, limits
    <3>2. CASE req[r].op \notin OptionalRoutes
      BY <1>2, <2>1, <3>2, EndIsQuiet DEF withRateLimit, limits
    <3> QED BY <3>1, <3>2
  <2>2. CASE req[r].who # NoOne
    <3>1. PICK ok \in BOOLEAN : /\ rateLimiterAllow(req[r].who, ok)
                                /\ IF ok THEN requireAdmin(r) ELSE End(r)
      BY <1>2, <2>2 DEF withRateLimit
    <3>2. req[r].who \in Users
      BY <2>2 DEF Shape, RequestShape
    <3>3. End(r) \/ Goto(r, "handle")
      BY <3>1 DEF requireAdmin
    <3>4. QuietRequests
      BY <3>2, <3>3, EndIsQuiet, GotoIsQuiet
    <3> QED BY <1>2, <3>1, <3>4, LimitersKeepClock DEF withRateLimit, rateLimiterAllow
  <2> QED BY <2>1, <2>2
<1>3. CASE withGuestRateLimit(r)
  <2>1. PICK ok \in BOOLEAN : /\ ipAllow("guest", req[r].from, ok)
                              /\ IF ok THEN Goto(r, "handle") ELSE End(r)
    BY <1>3 DEF withGuestRateLimit
  <2>2. req[r].op \notin AdminRoutes
    BY <1>3 DEF withGuestRateLimit, GuestRoutes, AdminRoutes
  <2>3. QuietRequests
    BY <2>1, <2>2, EndIsQuiet, GotoIsQuiet
  <2> QED BY <1>3, <2>1, <2>3, LimitersKeepClock DEF withGuestRateLimit
<1>4. CASE rateLimited(r)
  <2>1. PICK op \in load.ops \cap BotButtons, limited \in BOOLEAN :
          /\ isRateLimited(Chat, limited)
          /\ IF limited THEN UNCHANGED req
             ELSE req' = [req EXCEPT ![r] = [NoRequest EXCEPT !.pc = "handle", !.op = op]]
    BY <1>4 DEF rateLimited
  <2> DEFINE x == [NoRequest EXCEPT !.pc = "handle", !.op = op]
  <2>2. /\ DOMAIN x = {"pc", "op", "who", "from", "n", "at"} /\ x = [f \in DOMAIN x |-> x[f]]
        /\ x.who = NoOne /\ x.op = op /\ x.pc = "handle"
    BY DEF NoRequest
  <2>3. op \notin AdminRoutes
    BY DEF BotButtons, AdminRoutes
  <2>4. limited \/ req' = [req EXCEPT ![r] = x]
    BY <2>1
  <2> HIDE DEF x
  <2>5. RequestShape(x)
    BY <2>2, <2>3 DEF RequestShape
  <2>6. QuietRequests
    BY <2>1, <2>2, <2>4, <2>5 DEF QuietRequests
  <2> QED BY <1>4, <2>1, <2>6, LimitersKeepClock DEF rateLimited, isRateLimited
<1> QED BY <1>1, <1>2, <1>3, <1>4 DEF Chain

\* The handlers of the user's lists, and those that reach the source.
LEMMA UserListsIsQuiet ==
    ASSUME Shape, NEW r \in Requests, UserListsStep(r) PROVE QuietRequests
<1>1. CASE End(r)
  BY <1>1, EndIsQuiet
<1>2. CASE Goto(r, "insert")
  BY <1>2, GotoIsQuiet
<1>3. CASE req' = [req EXCEPT ![r].pc = "page", ![r].n = since]
  <2> DEFINE x == [req[r] EXCEPT !.pc = "page", !.n = since]
  <2>1. /\ DOMAIN x = DOMAIN req[r] /\ x = [f \in DOMAIN x |-> x[f]]
        /\ x.who = req[r].who /\ x.op = req[r].op /\ x.pc = "page"
    BY DEF Shape, RequestShape
  <2>2. req' = [req EXCEPT ![r] = x]
    BY <1>3
  <2> HIDE DEF x
  <2> QED BY <2>1, <2>2, MoveIsQuiet
<1>4. \/ End(r) \/ Goto(r, "insert")
      \/ req' = [req EXCEPT ![r].pc = "page", ![r].n = since]
  BY DEF UserListsStep, saveListing, unsaveListing, hideListing, unhideListing, Counted,
         onSaveListing, onHideListing, onClearHiddenConfirm, listNotifications,
         notificationCount, markNotificationsSeen, markListingSeen, unmarkListingSeen
<1> QED BY <1>1, <1>2, <1>3, <1>4

\* The handlers that reach the source.
LEMMA UpstreamIsQuiet ==
    ASSUME Shape, NEW r \in Requests, Upstream(r) \/ StoreFails(r) PROVE QuietRequests /\ now' = now
<1>1. now' = now
  BY LimitersKeepClock DEF Upstream, StoreFails, instantSearch, globalAllow, AcquireSlot,
     FetchInstant, refreshListings, FetchRefresh, limits,
     Sweeping, sweepRefreshCooldowns, JudgeEntry, EvictEntry
<1>2. CASE End(r)
  BY <1>1, <1>2, EndIsQuiet
<1>3. CASE Goto(r, "slot") \/ Goto(r, "fetch") \/ Goto(r, "check")
  BY <1>1, <1>3, GotoIsQuiet
<1>4. ASSUME NEW pc \in {"judge", "evict", "fetch"}, NEW at, req' = [req EXCEPT ![r].pc = pc, ![r].at = at]
      PROVE  QuietRequests /\ now' = now
  <2> DEFINE x == [req[r] EXCEPT !.pc = pc, !.at = at]
  <2>1. /\ DOMAIN x = DOMAIN req[r] /\ x = [f \in DOMAIN x |-> x[f]]
        /\ x.who = req[r].who /\ x.op = req[r].op /\ x.pc = pc
    BY DEF Shape, RequestShape
  <2>2. req' = [req EXCEPT ![r] = x]
    BY <1>4
  <2> HIDE DEF x
  <2> QED BY <1>1, <2>1, <2>2, MoveIsQuiet
<1>5. CASE Retried(r) /\ req[r].pc = "fetch"
  <2> DEFINE x == [req[r] EXCEPT !.n = @ + 1]
  <2>1. /\ DOMAIN x = DOMAIN req[r] /\ x = [f \in DOMAIN x |-> x[f]]
        /\ x.who = req[r].who /\ x.op = req[r].op /\ x.pc = "fetch"
    BY <1>5 DEF Shape, RequestShape
  <2>2. req' = [req EXCEPT ![r] = x]
    BY <1>5 DEF Retried
  <2> HIDE DEF x
  <2> QED BY <1>1, <2>1, <2>2, MoveIsQuiet
<1>6. \/ End(r) \/ Goto(r, "slot") \/ Goto(r, "fetch") \/ Goto(r, "check")
      \/ req' = [req EXCEPT ![r].pc = "judge", ![r].at = now]
      \/ req' = [req EXCEPT ![r].pc = "evict", ![r].at = refreshed]
      \/ req' = [req EXCEPT ![r].pc = "fetch", ![r].at = Len(refreshes)]
      \/ Retried(r) /\ req[r].pc = "fetch"
  BY DEF Upstream, StoreFails, instantSearch, AcquireSlot, FetchInstant, refreshListings,
         FetchRefresh, Sweeping, sweepRefreshCooldowns, JudgeEntry, EvictEntry, At
<1> QED BY <1>2, <1>3, <1>4, <1>5, <1>6

-----------------------------------------------------------------------------
\* At the start no token exists.
LEMMA TokenInvInit == Init => TokenInv
<1> SUFFICES ASSUME Init PROVE TokenInv
  OBVIOUS
<1>1. \A r \in Requests : req[r] = NoRequest
  BY DEF Init, RequestsInit
<1>2. RequestShape(NoRequest) /\ NoRequest.pc = "idle"
  BY DEF RequestShape, NoRequest
<1>3. \A r \in Requests : ~Holds(r) /\ req[r].pc # "run"
  BY <1>1, <1>2 DEF Holds
<1>4. ops = <<>> /\ minted = <<>> /\ confirm = [u \in Users |-> 0]
  BY DEF Init, ConfirmsInit
<1>5. Shape
  <2>1. now \in Nat /\ load \in Workloads
    BY DEF Init, LimitsInit, RequestsInit
  <2>2. req = [r \in Requests |-> req[r]] /\ \A r \in Requests : RequestShape(req[r])
    BY <1>1, <1>2 DEF Init, RequestsInit
  <2>3. minted \in Seq(Minted) /\ ops \in Seq(Op) /\ confirm \in [Users -> Nat]
    BY <1>4
  <2> QED BY <2>1, <2>2, <2>3 DEF Shape
<1>6. Genuine /\ OnePlace
  BY <1>3, <1>4 DEF Genuine, OnePlace
<1> QED BY <1>5, <1>6 DEF TokenInv

\* Every step keeps the tokens in order.
LEMMA TokenInvNext == TokenInv /\ [Next]_vars => TokenInv'
<1> SUFFICES ASSUME TokenInv, [Next]_vars PROVE TokenInv'
  OBVIOUS
<1>0. Shape /\ now \in Nat
  BY DEF TokenInv, Shape
<1>1. ASSUME NEW r \in Requests, Chain(r), UNCHANGED <<lists, confirms, upstream>> PROVE TokenInv'
  BY <1>0, <1>1, ChainIsQuiet, QuietKeepsTokens DEF Quiet, confirms
<1>2. ASSUME NEW r \in Requests, UserListsStep(r), UNCHANGED <<limits, load, spent, confirms, upstream>> PROVE TokenInv'
  BY <1>0, <1>2, UserListsIsQuiet, QuietKeepsTokens DEF Quiet, confirms, limits
<1>3. ASSUME NEW r \in Requests, AdminListsStep(r), UNCHANGED <<limits, load, spent, upstream>> PROVE TokenInv'
  <2>1. CASE adminPurgeTable(r) \/ adminResetAll(r)
    BY <1>3, <2>1, PerformKeepsTokens DEF adminPurgeTable, adminResetAll, At
  <2>2. CASE adminDeleteListing(r)
    <3>1. QuietRequests
      BY <2>2, EndIsQuiet DEF adminDeleteListing
    <3> QED BY <1>0, <1>3, <2>2, <3>1, QuietKeepsTokens DEF adminDeleteListing, Quiet, confirms, limits
  <2> QED BY <1>3, <2>1, <2>2 DEF AdminListsStep
<1>4. ASSUME NEW r \in Requests, AdminTokenStep(r), UNCHANGED <<limits, load, spent, lists, upstream>> PROVE TokenInv'
  BY <1>4, MintKeepsTokens, IssueKeepsTokens, ConsumeKeepsTokens DEF AdminTokenStep
<1>5. ASSUME NEW r \in Requests, adminVacuum(r), UNCHANGED <<limits, load, spent, upstream>> PROVE TokenInv'
  <2>1. End(r) \/ Goto(r, "vacuum")
    BY <1>5 DEF adminVacuum
  <2>2. QuietRequests
    BY <1>0, <2>1, EndIsQuiet, GotoIsQuiet
  <2> QED BY <1>0, <1>5, <2>2, QuietKeepsTokens DEF adminVacuum, Quiet, limits
<1>6. ASSUME NEW r \in Requests, Upstream(r) \/ StoreFails(r), UNCHANGED <<load, spent, lists, confirms>> PROVE TokenInv'
  BY <1>0, <1>6, UpstreamIsQuiet, QuietKeepsTokens DEF Quiet, confirms
<1>7. CASE UNCHANGED <<limits, req, load, confirms, upstream>>
  BY <1>0, <1>7, QuietKeepsTokens DEF Quiet, QuietRequests, confirms, limits
<1>8. CASE Tick /\ UNCHANGED <<requests, lists, confirms, upstream>>
  BY <1>0, <1>8, QuietKeepsTokens DEF Quiet, QuietRequests, Tick, requests, confirms
<1>9. CASE Sweep /\ UNCHANGED <<requests, lists, confirms, upstream>>
  BY <1>0, <1>9, QuietKeepsTokens DEF Quiet, QuietRequests, requests, confirms,
     Sweep, cleanup, ipCleanup, sweepStaleMaps, CompareAndDelete
<1>10. CASE UNCHANGED vars
  BY <1>0, <1>10, QuietKeepsTokens DEF Quiet, QuietRequests, vars, requests, confirms, limits
<1>11. \/ \E r \in Requests :
            \/ Chain(r) /\ UNCHANGED <<lists, confirms, upstream>>
            \/ UserListsStep(r) /\ UNCHANGED <<limits, load, spent, confirms, upstream>>
            \/ AdminListsStep(r) /\ UNCHANGED <<limits, load, spent, upstream>>
            \/ AdminTokenStep(r) /\ UNCHANGED <<limits, load, spent, lists, upstream>>
            \/ adminVacuum(r) /\ UNCHANGED <<limits, load, spent, upstream>>
            \/ (Upstream(r) \/ StoreFails(r)) /\ UNCHANGED <<load, spent, lists, confirms>>
       \/ UNCHANGED <<limits, req, load, confirms, upstream>>
       \/ Tick /\ UNCHANGED <<requests, lists, confirms, upstream>>
       \/ Sweep /\ UNCHANGED <<requests, lists, confirms, upstream>>
       \/ UNCHANGED vars
  BY DEF Next
<1> QED BY <1>1, <1>2, <1>3, <1>4, <1>5, <1>6, <1>7, <1>8, <1>9, <1>10, <1>11

\* Every purge and every reset the API server carries out was confirmed by a
\* token minted for that administrator, in time, not replaced by a newer one,
\* and no token confirmed two (admin_confirm.go, admin.go): whatever requests
\* run beside, however often tokens are drawn, and at any lifetime.
THEOREM OperationsConfirmedOnce == Spec => []ConfirmedOnce
<1>1. Init => TokenInv
  BY TokenInvInit
<1>2. TokenInv /\ [Next]_vars => TokenInv'
  BY TokenInvNext
<1>3. TokenInv => ConfirmedOnce
  BY DEF TokenInv, Genuine, OnePlace, Fresh, ConfirmedOnce
<1> QED
  BY <1>1, <1>2, <1>3, PTL DEF Spec

-----------------------------------------------------------------------------
(* The bell *)

\* ORDER BY first_seen_at DESC, token DESC lists every row once: a row's place
\* is the number of rows that are newer.
LEMMA NewestFirstLists ==
    ASSUME NEW ts \in SUBSET Tokens, \A t \in Tokens : rows[t].at \in Nat
    PROVE  /\ Cardinality(ts) \in Nat
           /\ NewestFirst(ts) \in Seq(ts) /\ Len(NewestFirst(ts)) = Cardinality(ts)
           /\ Listed(NewestFirst(ts)) = ts
           /\ \A i, j \in 1 .. Cardinality(ts) : NewestFirst(ts)[i] = NewestFirst(ts)[j] => i = j
<1> DEFINE Newer(t) == {x \in ts : \/ rows[x].at > rows[t].at
                                   \/ rows[x].at = rows[t].at /\ x > t}
<1> DEFINE n == Cardinality(ts)
<1> DEFINE rank == [t \in ts |-> Cardinality(Newer(t))]
<1>1. IsFiniteSet(ts) /\ n \in Nat /\ ts \subseteq Nat
  BY ListConstants, FS_Subset, FS_CardinalityType
<1>2. \A t \in ts : /\ IsFiniteSet(Newer(t)) /\ Cardinality(Newer(t)) \in 0 .. n - 1
  <2> TAKE t \in ts
  <2>1. Newer(t) \in SUBSET (ts \ {t})
    BY <1>1
  <2>2. IsFiniteSet(ts \ {t}) /\ Cardinality(ts \ {t}) = n - 1
    BY <1>1, FS_RemoveElement
  <2> QED
    BY <1>1, <2>1, <2>2, FS_Subset, FS_CardinalityType
<1>3. \A t, u \in ts : u \in Newer(t) => Cardinality(Newer(u)) < Cardinality(Newer(t))
  <2> SUFFICES ASSUME NEW t \in ts, NEW u \in ts, u \in Newer(t)
               PROVE  Cardinality(Newer(u)) < Cardinality(Newer(t))
    OBVIOUS
  <2>1. Newer(u) \in SUBSET Newer(t) /\ u \notin Newer(u)
    <3>0. \A x \in ts : rows[x].at \in Nat /\ x \in Nat
      BY <1>1
    <3>1. /\ t \in ts /\ u \in ts
          /\ rows[u].at > rows[t].at \/ (rows[u].at = rows[t].at /\ u > t)
      OBVIOUS
    <3>2. ASSUME NEW x \in Newer(u) PROVE x \in Newer(t)
      <4>1. x \in ts /\ (rows[x].at > rows[u].at \/ (rows[x].at = rows[u].at /\ x > u))
        OBVIOUS
      <4>2. /\ rows[x].at \in Nat /\ rows[u].at \in Nat /\ rows[t].at \in Nat
            /\ x \in Nat /\ u \in Nat /\ t \in Nat
        BY <3>0, <3>1, <4>1
      <4>3. rows[x].at > rows[t].at \/ (rows[x].at = rows[t].at /\ x > t)
        BY <3>1, <4>1, <4>2
      <4> QED
        BY <4>1, <4>3
    <3>3. u \notin Newer(u)
      BY <3>0, <3>1
    <3> QED
      BY <3>2, <3>3
  <2> HIDE DEF Newer
  <2>2. Newer(u) # Newer(t)
    BY <2>1
  <2>3. Cardinality(Newer(u)) <= Cardinality(Newer(t)) /\ Cardinality(Newer(u)) # Cardinality(Newer(t))
    BY <1>2, <2>1, <2>2, FS_Subset
  <2> QED
    BY <1>1, <1>2, <2>3
<1>4. \A t, u \in ts : t # u => u \in Newer(t) \/ t \in Newer(u)
  <2> SUFFICES ASSUME NEW t \in ts, NEW u \in ts, t # u
               PROVE  u \in Newer(t) \/ t \in Newer(u)
    OBVIOUS
  <2>1. t \in Nat /\ u \in Nat /\ rows[t].at \in Nat /\ rows[u].at \in Nat
    BY <1>1
  <2>2. \/ rows[u].at > rows[t].at
        \/ rows[t].at > rows[u].at
        \/ rows[u].at = rows[t].at /\ (u > t \/ t > u)
    BY <2>1
  <2> QED
    BY <2>2
<1> HIDE DEF Newer
<1>5. rank \in Injection(ts, 0 .. n - 1)
  BY <1>2, <1>3, <1>4 DEF Injection, IsInjective
<1>6. rank \in Surjection(ts, 0 .. n - 1)
  BY <1>1, <1>5, FS_Injection, FS_Interval
<1>7. \A i \in 1 .. n : \E t \in ts : Cardinality(Newer(t)) = i - 1
  <2> TAKE i \in 1 .. n
  <2>1. i - 1 \in 0 .. n - 1
    BY <1>1
  <2>2. \E t \in ts : rank[t] = i - 1
    BY <1>6, <2>1 DEF Surjection
  <2> QED
    BY <2>2
<1>8. NewestFirst(ts) = [i \in 1 .. n |-> CHOOSE t \in ts : Cardinality(Newer(t)) = i - 1]
  BY DEF NewestFirst, Newer
<1>9. \A i \in 1 .. n : NewestFirst(ts)[i] \in ts /\ Cardinality(Newer(NewestFirst(ts)[i])) = i - 1
  BY <1>7, <1>8
<1>10. \A t \in ts : \E i \in 1 .. n : NewestFirst(ts)[i] = t
  <2> TAKE t \in ts
  <2>1. PICK i \in 1 .. n : i = Cardinality(Newer(t)) + 1
    BY <1>1, <1>2
  <2> QED
    BY <1>3, <1>4, <1>9, <2>1, <1>2
<1>11. NewestFirst(ts) \in Seq(ts) /\ Len(NewestFirst(ts)) = n
  BY <1>1, <1>8, <1>9
<1>12. Listed(NewestFirst(ts)) = ts
  BY <1>8, <1>9, <1>10 DEF Listed
<1>13. \A i, j \in 1 .. n : NewestFirst(ts)[i] = NewestFirst(ts)[j] => i = j
  BY <1>1, <1>9
<1> QED
  BY <1>1, <1>11, <1>12, <1>13

\* The first page shows rows of the bell; it is full, or shows them all.
LEMMA FirstPage ==
    ASSUME NEW ts \in SUBSET Tokens, \A t \in Tokens : rows[t].at \in Nat
    PROVE  LET page == Listed(Page(NewestFirst(ts), 0)) IN
           page \subseteq ts /\ (Cardinality(page) # PageSize => ts \subseteq page)
<1>1. PICK l : l = NewestFirst(ts)
  OBVIOUS
<1>2. /\ l \in Seq(ts) /\ Len(l) \in Nat /\ Len(l) = Cardinality(ts) /\ DOMAIN l = 1 .. Len(l)
      /\ Listed(l) = ts
      /\ \A i, j \in 1 .. Len(l) : l[i] = l[j] => i = j
  BY <1>1, NewestFirstLists
<1>3. PageSize \in Nat \ {0}
  BY ListConstants
<1> DEFINE page == Listed(Page(l, 0))
<1>4. CASE PageSize < Len(l)
  <2>1. Page(l, 0) = SubSeq(l, 1, PageSize)
    BY <1>2, <1>3, <1>4 DEF Page
  <2>2. /\ DOMAIN SubSeq(l, 1, PageSize) = 1 .. PageSize
        /\ \A i \in 1 .. PageSize : SubSeq(l, 1, PageSize)[i] = l[i]
    BY <1>2, <1>3, <1>4
  <2>3. page = {l[i] : i \in 1 .. PageSize}
    BY <2>1, <2>2 DEF Listed
  <2> DEFINE f == [i \in 1 .. PageSize |-> l[i]]
  <2>4. f \in [1 .. PageSize -> page] /\ \A p \in page : \E i \in 1 .. PageSize : f[i] = p
    BY <2>3
  <2>5. \A i, j \in 1 .. PageSize : f[i] = f[j] => i = j
    BY <1>2, <1>3, <1>4
  <2>6. f \in Bijection(1 .. PageSize, page)
    BY <2>4, <2>5 DEF Bijection, Injection, Surjection, IsInjective
  <2>7. Cardinality(page) = PageSize
    BY <1>3, <2>6, FS_Bijection, FS_Interval DEF ExistsBijection
  <2>8. page \subseteq ts
    BY <1>2, <1>3, <1>4, <2>3
  <2> QED
    BY <1>1, <2>7, <2>8
<1>5. CASE ~(PageSize < Len(l))
  <2>1. Page(l, 0) = SubSeq(l, 1, Len(l))
    BY <1>2, <1>3, <1>5 DEF Page
  <2>2. SubSeq(l, 1, Len(l)) = l
    BY <1>2
  <2> QED
    BY <1>1, <1>2, <2>1, <2>2
<1> QED
  BY <1>4, <1>5

\* What the bell remembers.  Every row that the mark has passed, committed or
\* not, was shown or passed over for a known cause; what the client shows of
\* the bell was shown, or its page was full; a listing marked as seen was shown.
BellShape ==
    /\ rows \in [Tokens -> [at : Nat, in : BOOLEAN]]
    /\ stamps \in Nat /\ since \in Nat /\ since <= stamps
    /\ told \in [shown : SUBSET Tokens, passed : SUBSET Tokens]
    /\ view.bell \subseteq Tokens

BellInv ==
    /\ BellShape
    /\ \A t \in Tokens : rows[t].at <= stamps /\ (rows[t].in => rows[t].at # 0)
    /\ view.page \subseteq told.shown
    /\ Cardinality(view.page) # PageSize => view.bell \subseteq view.page
    /\ seen \subseteq told.shown
    /\ \A t \in Tokens : rows[t].at # 0 /\ rows[t].at <= since
                            => t \in told.shown \cup told.passed

\* The variables of the bell.
bell == <<rows, stamps, seen, since, view, told>>

\* At the start nobody has been shown anything.
LEMMA BellInit == Init => BellInv
<1> SUFFICES ASSUME Init PROVE BellInv
  OBVIOUS
<1>1. /\ rows = [t \in Tokens |-> NoRow] /\ stamps = 0 /\ since = 0 /\ seen = {}
      /\ view = NoView /\ told = [shown |-> {}, passed |-> {}]
  BY DEF Init, ListsInit
<1> QED
  BY <1>1 DEF BellInv, BellShape, NoRow, NoView

\* The requests of the bell.
LEMMA BellRequests ==
    ASSUME BellInv, NEW r \in Requests,
           \/ listNotifications(r) \/ markNotificationsSeen(r)
           \/ markListingSeen(r) \/ unmarkListingSeen(r)
    PROVE  BellInv'
<1> USE DEF BellInv, BellShape
<1>1. CASE listNotifications(r)
  <2>1. CASE UNCHANGED bell
    BY <2>1 DEF bell
  <2>2. ASSUME NEW n,
               view' = [bell |-> NewSince(n), page |-> Listed(NewListingsSince(n, 0))],
               told' = [told EXCEPT !.shown = @ \cup Listed(NewListingsSince(n, 0))],
               UNCHANGED <<rows, stamps, seen, since>>
        PROVE  BellInv'
    <3>1. NewSince(n) \in SUBSET Tokens
      BY DEF NewSince, Stored
    <3>2. \A t \in Tokens : rows[t].at \in Nat
      OBVIOUS
    <3>3. PICK page : page = Listed(NewListingsSince(n, 0))
      OBVIOUS
    <3>4. page \subseteq NewSince(n) /\ (Cardinality(page) # PageSize => NewSince(n) \subseteq page)
      BY <3>1, <3>2, <3>3, FirstPage DEF NewListingsSince
    <3>5. /\ view'.bell = NewSince(n) /\ view'.page = page
          /\ told' = [shown |-> told.shown \cup page, passed |-> told.passed]
      BY <2>2, <3>3
    <3> QED
      BY <2>2, <3>1, <3>4, <3>5
  <2> QED
    BY <1>1, <2>1, <2>2 DEF listNotifications, bell
<1>2. CASE markNotificationsSeen(r)
  <2>1. /\ since' = stamps /\ UNCHANGED <<rows, stamps, seen, view>>
        /\ told' = [told EXCEPT !.passed = @ \cup ({t \in Tokens : rows[t].at # 0} \ view.bell)
                      \cup IF Cardinality(view.page) = PageSize THEN view.bell ELSE {}]
    BY <1>2 DEF markNotificationsSeen, UpdateLastSeenAt
  <2>2. /\ told'.shown = told.shown
        /\ told'.passed = told.passed \cup ({t \in Tokens : rows[t].at # 0} \ view.bell)
                      \cup (IF Cardinality(view.page) = PageSize THEN view.bell ELSE {})
        /\ told' \in [shown : SUBSET Tokens, passed : SUBSET Tokens]
    BY <2>1
  <2>3. \A t \in Tokens : rows[t].at # 0 => t \in told'.shown \cup told'.passed
    BY <2>2
  <2> QED
    BY <2>1, <2>2, <2>3
<1>3. CASE markListingSeen(r)
  BY <1>3 DEF markListingSeen
<1>4. CASE unmarkListingSeen(r)
  BY <1>4 DEF unmarkListingSeen
<1> QED
  BY <1>1, <1>2, <1>3, <1>4

\* A purge and a reset take committed rows and marks; a row that is gone gets
\* a later time when it comes back.
LEMMA BellEmptied ==
    ASSUME BellInv, NEW tables, Emptied(tables), UNCHANGED <<stamps, since, view, told>>
    PROVE  BellInv'
<1>1. rows' \in [Tokens -> [at : Nat, in : BOOLEAN]]
  BY DEF Emptied, NoRow, BellInv, BellShape
<1>2. \A t \in Tokens : rows'[t] \in {rows[t], NoRow}
  BY DEF Emptied, BellInv, BellShape
<1>3. \A t \in Tokens : rows'[t].at \in {rows[t].at, 0} /\ (rows'[t].in => rows'[t] = rows[t])
  BY <1>2 DEF NoRow
<1>4. seen' \subseteq seen
  BY DEF Emptied
<1> QED
  BY <1>1, <1>3, <1>4 DEF BellInv, BellShape

\* The rows that cycles and pushes stamp and save.
LEMMA BellRecords ==
    ASSUME BellInv, NEW t \in Tokens, StampRecord(t) \/ SaveRecord(t)
    PROVE  BellInv'
<1>1. CASE StampRecord(t)
  <2>1. /\ stamps' = stamps + 1 /\ UNCHANGED <<seen, since, view, told>>
        /\ rows' = [rows EXCEPT ![t] = [rows[t] EXCEPT !.at = stamps + 1]]
    BY <1>1 DEF StampRecord
  <2>2. rows[t] \in [at : Nat, in : BOOLEAN] /\ stamps + 1 \in Nat
    BY DEF BellInv, BellShape
  <2>3. /\ rows' \in [Tokens -> [at : Nat, in : BOOLEAN]]
        /\ rows'[t].at = stamps + 1
        /\ \A u \in Tokens : u # t => rows'[u] = rows[u]
    BY <2>1, <2>2 DEF BellInv, BellShape
  <2> QED
    BY <2>1, <2>2, <2>3 DEF BellInv, BellShape
<1>2. CASE SaveRecord(t)
  <2>1. /\ UNCHANGED <<stamps, seen, since, view, told>> /\ rows[t].at # 0
        /\ rows' = [rows EXCEPT ![t] = [rows[t] EXCEPT !.in = TRUE]]
    BY <1>2 DEF SaveRecord
  <2>2. rows[t] \in [at : Nat, in : BOOLEAN]
    BY DEF BellInv, BellShape
  <2>3. /\ rows' \in [Tokens -> [at : Nat, in : BOOLEAN]]
        /\ \A u \in Tokens : rows'[u].at = rows[u].at /\ (u # t => rows'[u] = rows[u])
    BY <2>1, <2>2 DEF BellInv, BellShape
  <2> QED
    BY <2>1, <2>2, <2>3 DEF BellInv, BellShape
<1> QED
  BY <1>1, <1>2

\* Every step keeps the bell.
LEMMA BellStep == BellInv /\ [Next]_vars => BellInv'
<1> SUFFICES ASSUME BellInv, [Next]_vars PROVE BellInv'
  OBVIOUS
<1>1. CASE UNCHANGED bell
  BY <1>1 DEF BellInv, BellShape, bell
<1>2. ASSUME NEW r \in Requests, UserListsStep(r) PROVE BellInv'
  <2>1. CASE \/ saveListing(r) \/ unsaveListing(r) \/ hideListing(r) \/ unhideListing(r)
             \/ onSaveListing(r) \/ onHideListing(r) \/ onClearHiddenConfirm(r)
             \/ notificationCount(r)
    BY <1>1, <2>1 DEF saveListing, unsaveListing, hideListing, unhideListing, onSaveListing,
       onHideListing, onClearHiddenConfirm, notificationCount, bell, lists
  <2> QED
    BY <1>2, <2>1, BellRequests DEF UserListsStep
<1>3. ASSUME NEW r \in Requests, AdminListsStep(r) PROVE BellInv'
  <2>1. CASE adminPurgeTable(r) \/ adminResetAll(r)
    BY <2>1, BellEmptied DEF adminPurgeTable, adminResetAll, PurgeTable, ResetAllData
  <2>2. CASE adminDeleteListing(r)
    <3>1. PICK t \in Tokens : rows' = IF rows[t].in THEN [rows EXCEPT ![t] = NoRow] ELSE rows
      BY <2>2 DEF adminDeleteListing
    <3>2. UNCHANGED <<stamps, seen, since, view, told>>
      BY <2>2 DEF adminDeleteListing
    <3>3. /\ rows' \in [Tokens -> [at : Nat, in : BOOLEAN]]
          /\ \A u \in Tokens : rows'[u] \in {rows[u], NoRow}
      BY <3>1 DEF BellInv, BellShape, NoRow
    <3>4. \A u \in Tokens : rows'[u].at \in {rows[u].at, 0} /\ (rows'[u].in => rows'[u] = rows[u])
      BY <3>3 DEF NoRow
    <3> QED
      BY <3>2, <3>3, <3>4 DEF BellInv, BellShape
  <2> QED
    BY <1>3, <2>1, <2>2 DEF AdminListsStep
<1>4. ASSUME UNCHANGED lists PROVE BellInv'
  BY <1>1, <1>4 DEF lists, bell
<1>5. CASE EditSearch
  BY <1>1, <1>5 DEF EditSearch, bell
<1>6. \/ UNCHANGED lists
      \/ \E r \in Requests : UserListsStep(r) \/ AdminListsStep(r)
      \/ \E t \in Tokens : StampRecord(t) \/ SaveRecord(t)
      \/ EditSearch
  BY DEF Next, vars, adminVacuum
<1> QED
  BY <1>2, <1>3, <1>4, <1>5, <1>6, BellRecords

\* A row leaves the bell unseen only for a cause the user's client cannot tell
\* (notifications.go: the mark is the time of the call, not of the page shown):
\* for any number of requests, rows, searches, purges and resets beside.
THEOREM BellSwallowsNothing == Spec => []NoticeNotSwallowed
<1>1. Spec => []BellInv
  BY BellInit, BellStep, PTL DEF Spec
<1>2. BellInv => NoticeNotSwallowed
  BY DEF BellInv, NoticeNotSwallowed, Stored
<1> QED
  BY <1>1, <1>2, PTL

-----------------------------------------------------------------------------
(* Refreshes *)

Stages == {"judge", "evict", "fetch"}
Refreshing(r) == req[r].pc \in Stages /\ req[r].op = "refreshListings"

RefreshShape ==
    /\ now \in 0 .. MaxTime
    /\ refreshed \in 0 .. now \cup {Never}
    /\ refreshes \in Seq([at : Nat, knew : Nat, erased : BOOLEAN])
    /\ refreshed # Never => Len(refreshes) > 0

Past(i) == refreshes[i].at + Cooldown <= now
Erased(i, n) == \E k \in i .. n : refreshes[k].erased

\* What a sweep is about to judge or to delete, and a request let in: it came a
\* cooldown after the refreshes it knew of, or their entries were erased.
Ages(r) ==
    /\ req[r].pc = "judge" => req[r].at \in 0 .. now
    /\ req[r].pc = "evict" => req[r].at \in Nat /\ req[r].at + EvictAge < now
    /\ req[r].pc = "fetch" => /\ req[r].at \in 0 .. Len(refreshes)
                             /\ \A i \in 1 .. req[r].at : Past(i) \/ Erased(i, req[r].at)

\* refreshMu knows a time no earlier than any refresh, or every refresh is
\* older than the cooldown or followed by one whose entry a sweep erased.
Known ==
    \A i \in 1 .. Len(refreshes) :
      /\ refreshes[i].at <= now /\ refreshes[i].knew < i
      /\ refreshed # Never => refreshes[i].at <= refreshed
      /\ refreshed = Never => Past(i) \/ Erased(i, Len(refreshes))

RefreshInv == RefreshShape /\ Known /\ RefreshSpaced /\ \A r \in Requests : Refreshing(r) => Ages(r)

\* A refresh has a time and what it knew.
LEMMA RefreshTypes ==
    ASSUME RefreshShape
    PROVE  /\ Len(refreshes) \in Nat /\ DOMAIN refreshes = 1 .. Len(refreshes)
           /\ \A i \in 1 .. Len(refreshes) : /\ refreshes[i].at \in Nat /\ refreshes[i].knew \in Nat
                                             /\ refreshes[i].erased \in BOOLEAN
                                             /\ refreshes[i] = [at |-> refreshes[i].at, knew |-> refreshes[i].knew, erased |-> refreshes[i].erased]
           /\ now \in Nat /\ MaxTime \in Nat
<1>1. /\ refreshes \in Seq([at : Nat, knew : Nat, erased : BOOLEAN])
      /\ now \in 0 .. MaxTime /\ MaxTime \in Nat
  BY LimitConstants DEF RefreshShape
<1>2. /\ Len(refreshes) \in Nat /\ DOMAIN refreshes = 1 .. Len(refreshes)
      /\ \A i \in 1 .. Len(refreshes) : refreshes[i] \in [at : Nat, knew : Nat, erased : BOOLEAN]
  BY <1>1, ElementOfSeq, LenProperties
<1> QED
  BY <1>1, <1>2

\* Steps after which only requests refresh that did so before.
NoneStarts ==
    \A r \in Requests : Refreshing(r)' => Refreshing(r) /\ req'[r].pc = req[r].pc /\ req'[r].at = req[r].at

\* A request that ends or goes elsewhere.
LEMMA ElsewhereStartsNone ==
    ASSUME Shape, NEW r \in Requests, NEW x, req' = [req EXCEPT ![r] = x],
           \/ x.pc \notin Stages
           \/ x.op # "refreshListings"
           \/ x.pc = req[r].pc /\ x.op = req[r].op /\ x.at = req[r].at
    PROVE  NoneStarts
<1>1. req'[r] = x /\ \A q \in Requests : q # r => req'[q] = req[q]
  BY DEF Shape
<1> QED
  BY <1>1 DEF NoneStarts, Refreshing

\* A request that ends.
LEMMA EndStartsNone ==
    ASSUME Shape, NEW r \in Requests, End(r)
    PROVE  NoneStarts
<1>1. NoRequest.pc \notin Stages
  BY DEF NoRequest, Stages
<1> QED
  BY <1>1, ElsewhereStartsNone DEF End

\* A request that goes on, but not to judge, to evict or to fetch for a refresh.
LEMMA GotoStartsNone ==
    ASSUME Shape, NEW r \in Requests, NEW pc, Goto(r, pc),
           pc \notin Stages \/ req[r].op # "refreshListings"
    PROVE  NoneStarts
<1> DEFINE x == [req[r] EXCEPT !.pc = pc]
<1>1. x.pc = pc /\ x.op = req[r].op
  BY DEF Shape, RequestShape, Stages
<1>2. req' = [req EXCEPT ![r] = x]
  BY DEF Goto
<1> HIDE DEF x
<1> QED
  BY <1>1, <1>2, ElsewhereStartsNone

\* The chain lets requests in to their handlers.
LEMMA ChainStartsNone ==
    ASSUME Shape, NEW r \in Requests, Chain(r)
    PROVE  NoneStarts
<1>1. ASSUME req' = req PROVE NoneStarts
  BY <1>1 DEF NoneStarts, Refreshing
<1>2. ASSUME NEW op, NEW u, NEW c,
             req' = [req EXCEPT ![r] = [NoRequest EXCEPT !.pc = "chain", !.op = op, !.who = u, !.from = extractIP(c)]]
      PROVE  NoneStarts
  <2>1. [NoRequest EXCEPT !.pc = "chain", !.op = op, !.who = u, !.from = extractIP(c)].pc \notin Stages
    BY DEF NoRequest, Stages
  <2> QED
    BY <1>2, <2>1, ElsewhereStartsNone
<1>3. ASSUME NEW op, req' = [req EXCEPT ![r] = [NoRequest EXCEPT !.pc = "handle", !.op = op]]
      PROVE  NoneStarts
  <2>1. [NoRequest EXCEPT !.pc = "handle", !.op = op].pc \notin Stages
    BY DEF NoRequest, Stages
  <2> QED
    BY <1>3, <2>1, ElsewhereStartsNone
<1>4. CASE withIPRateLimit(r)
  BY <1>1, <1>2, <1>4 DEF withIPRateLimit
<1>5. CASE withRateLimit(r) \/ withGuestRateLimit(r)
  <2>1. End(r) \/ Goto(r, "handle")
    BY <1>5 DEF withRateLimit, withGuestRateLimit, requireAdmin
  <2> QED
    BY <2>1, EndStartsNone, GotoStartsNone DEF Stages
<1>6. CASE rateLimited(r)
  BY <1>1, <1>3, <1>6 DEF rateLimited
<1> QED
  BY <1>4, <1>5, <1>6 DEF Chain

\* The handlers of the lists and of the administrator.
LEMMA HandlersStartNone ==
    ASSUME Shape, NEW r \in Requests,
           \/ UserListsStep(r) \/ AdminListsStep(r) \/ AdminTokenStep(r)
           \/ adminVacuum(r) \/ StoreFails(r)
    PROVE  NoneStarts
<1>1. CASE UserListsStep(r)
  <2>1. \/ End(r) \/ Goto(r, "insert")
        \/ req' = [req EXCEPT ![r] = [req[r] EXCEPT !.pc = "page", !.n = since]]
    BY <1>1 DEF UserListsStep, saveListing, unsaveListing, hideListing, unhideListing, Counted,
         onSaveListing, onHideListing, onClearHiddenConfirm, listNotifications,
         notificationCount, markNotificationsSeen, markListingSeen, unmarkListingSeen
  <2>2. [req[r] EXCEPT !.pc = "page", !.n = since].pc \notin Stages
    BY DEF Shape, RequestShape, Stages
  <2> QED
    BY <2>1, <2>2, EndStartsNone, GotoStartsNone, ElsewhereStartsNone DEF Stages
<1>2. CASE AdminListsStep(r) \/ StoreFails(r)
  <2>1. End(r)
    BY <1>2 DEF AdminListsStep, adminPurgeTable, adminResetAll, adminDeleteListing, StoreFails
  <2> QED
    BY <2>1, EndStartsNone
<1>3. CASE adminVacuum(r)
  <2>1. End(r) \/ Goto(r, "vacuum")
    BY <1>3 DEF adminVacuum
  <2> QED
    BY <2>1, EndStartsNone, GotoStartsNone DEF Stages
<1>4. CASE mintConfirmToken(r)
  <2>1. req' = [req EXCEPT ![r] = [req[r] EXCEPT !.pc = "store", !.n = Len(minted) + 1]]
    BY <1>4 DEF mintConfirmToken
  <2>2. [req[r] EXCEPT !.pc = "store", !.n = Len(minted) + 1].pc \notin Stages
    BY DEF Shape, RequestShape, Stages
  <2> QED
    BY <2>1, <2>2, ElsewhereStartsNone
<1>5. CASE issue(r)
  BY <1>5, EndStartsNone DEF issue
<1>6. CASE requireConfirmToken(r)
  <2>1. PICK tok, ok : req' = [req EXCEPT ![r] = IF ok THEN [req[r] EXCEPT !.pc = "run", !.n = tok, !.at = now] ELSE NoRequest]
    BY <1>6 DEF requireConfirmToken
  <2>2. [req[r] EXCEPT !.pc = "run", !.n = tok, !.at = now].pc \notin Stages
    BY DEF Shape, RequestShape, Stages
  <2>3. NoRequest.pc \notin Stages
    BY DEF NoRequest, Stages
  <2> QED
    BY <2>1, <2>2, <2>3, ElsewhereStartsNone
<1> QED
  BY <1>1, <1>2, <1>3, <1>4, <1>5, <1>6 DEF AdminTokenStep

\* Time passes or marks are set: what was past or erased stays so.
LEMMA PastStays ==
    ASSUME RefreshShape, RefreshShape', now' \in now .. MaxTime, Len(refreshes') = Len(refreshes),
           \A i \in 1 .. Len(refreshes) : /\ refreshes'[i].at = refreshes[i].at
                                          /\ refreshes[i].erased => refreshes'[i].erased,
           NEW n \in 0 .. Len(refreshes), NEW i \in 1 .. n, Past(i) \/ Erased(i, n)
    PROVE  Past(i)' \/ Erased(i, n)'
<1>0. Len(refreshes) \in Nat /\ now \in Nat /\ MaxTime \in Nat /\ Cooldown \in Nat
  BY RefreshTypes, ServerConstants
<1>1. i \in 1 .. Len(refreshes) /\ refreshes[i].at \in Nat
  <2>1. i \in 1 .. Len(refreshes)
    BY <1>0
  <2> QED
    BY <2>1, RefreshTypes
<1>2. Past(i) => Past(i)'
  BY <1>0, <1>1 DEF Past
<1>3. ASSUME Erased(i, n) PROVE Erased(i, n)'
  <2>1. PICK k \in i .. n : refreshes[k].erased
    BY <1>3 DEF Erased
  <2>2. k \in 1 .. Len(refreshes)
    BY <1>0, <2>1
  <2> QED
    BY <2>1, <2>2 DEF Erased
<1> QED
  BY <1>2, <1>3

\* A request that goes on with its refresh keeps its ages.
LEMMA AgesStay ==
    ASSUME RefreshShape, RefreshShape', now' \in now .. MaxTime, Len(refreshes') = Len(refreshes),
           \A i \in 1 .. Len(refreshes) : /\ refreshes'[i].at = refreshes[i].at
                                          /\ refreshes[i].erased => refreshes'[i].erased,
           NEW r \in Requests, Ages(r), req'[r].pc = req[r].pc, req'[r].at = req[r].at
    PROVE  Ages(r)'
<1>1. now \in Nat /\ MaxTime \in Nat /\ EvictAge \in Nat /\ Len(refreshes) \in Nat
  BY RefreshTypes, ServerConstants
<1>2. req[r].pc = "judge" => req'[r].at \in 0 .. now'
  BY <1>1 DEF Ages
<1>3. req[r].pc = "evict" => req'[r].at \in Nat /\ req'[r].at + EvictAge < now'
  BY <1>1 DEF Ages
<1>4. ASSUME req[r].pc = "fetch"
      PROVE  /\ req'[r].at \in 0 .. Len(refreshes')
             /\ \A i \in 1 .. req'[r].at : Past(i)' \/ Erased(i, req[r].at)'
  <2>1. PICK n \in 0 .. Len(refreshes) : n = req[r].at /\ n = req'[r].at
    BY <1>4 DEF Ages
  <2>2. \A i \in 1 .. n : Past(i) \/ Erased(i, n)
    BY <1>4, <2>1 DEF Ages
  <2>3. \A i \in 1 .. n : Past(i)' \/ Erased(i, n)'
    BY <2>2, PastStays
  <2>4. \A i \in 1 .. n : Erased(i, n)' => Erased(i, req[r].at)'
    BY <2>1 DEF Erased
  <2> QED
    BY <2>1, <2>3, <2>4
<1> QED
  BY <1>2, <1>3, <1>4 DEF Ages

\* Two refreshes stay apart when entries of others are erased.
LEMMA SpacedStays ==
    ASSUME RefreshShape, RefreshShape', RefreshSpaced, Len(refreshes') = Len(refreshes),
           \A i \in 1 .. Len(refreshes) : /\ refreshes'[i].at = refreshes[i].at
                                          /\ refreshes'[i].knew = refreshes[i].knew
                                          /\ refreshes[i].erased => refreshes'[i].erased,
           \A i \in 1 .. Len(refreshes) : refreshes[i].knew < i
    PROVE  RefreshSpaced'
<1> SUFFICES ASSUME NEW i \in DOMAIN refreshes', NEW j \in DOMAIN refreshes', i < j,
                    refreshes'[j].at - refreshes'[i].at < Cooldown
             PROVE  \/ refreshes'[j].knew < i
                    \/ \E k \in i .. refreshes'[j].knew : refreshes'[k].erased
  BY DEF RefreshSpaced
<1>1. /\ DOMAIN refreshes = 1 .. Len(refreshes) /\ DOMAIN refreshes' = 1 .. Len(refreshes)
      /\ Len(refreshes) \in Nat /\ i \in 1 .. Len(refreshes) /\ j \in 1 .. Len(refreshes)
  <2>1. DOMAIN refreshes = 1 .. Len(refreshes) /\ Len(refreshes) \in Nat
    BY RefreshTypes
  <2>2. DOMAIN refreshes' = 1 .. Len(refreshes')
    BY LenProperties DEF RefreshShape
  <2> QED
    BY <2>1, <2>2
<1>2. PICK m \in Nat : m = refreshes[j].knew /\ m = refreshes'[j].knew /\ m < j
  BY <1>1, RefreshTypes
<1>3. refreshes[j].knew < i \/ \E k \in i .. refreshes[j].knew : refreshes[k].erased
  BY <1>1 DEF RefreshSpaced
<1>4. CASE m < i
  BY <1>2, <1>4
<1>5. ASSUME NEW k \in i .. m, refreshes[k].erased PROVE refreshes'[k].erased
  <2>1. k \in 1 .. Len(refreshes)
    BY <1>1, <1>2
  <2> QED
    BY <1>5, <2>1
<1> QED
  BY <1>2, <1>3, <1>4, <1>5

\* A step that starts no refresh and completes none; time may pass.
LEMMA RefreshesKept ==
    ASSUME RefreshInv, NoneStarts, UNCHANGED <<refreshed, refreshes>>,
           now' \in now .. MaxTime
    PROVE  RefreshInv'
<1>1. Cooldown \in Nat /\ MaxTime \in Nat /\ now \in Nat /\ Len(refreshes) \in Nat
  BY ServerConstants, LimitConstants, RefreshTypes DEF RefreshInv
<1>2. RefreshShape /\ RefreshShape' /\ now <= now' /\ now' \in Nat
  BY <1>1 DEF RefreshInv, RefreshShape, Never
<1>3. Known'
  <2> SUFFICES ASSUME NEW i \in 1 .. Len(refreshes)
               PROVE  /\ refreshes[i].at <= now' /\ refreshes[i].knew < i
                      /\ refreshed # Never => refreshes[i].at <= refreshed
                      /\ refreshed = Never => Past(i)' \/ Erased(i, Len(refreshes))'
    BY DEF Known, Erased, Never
  <2>1. /\ refreshes[i].at \in Nat /\ refreshes[i].at <= now /\ refreshes[i].knew < i
        /\ refreshed # Never => refreshes[i].at <= refreshed
        /\ refreshed = Never => Past(i) \/ Erased(i, Len(refreshes))
    BY <1>2, RefreshTypes DEF RefreshInv, Known
  <2>2. Len(refreshes) \in 0 .. Len(refreshes)
    BY <1>1
  <2>3. refreshed = Never => Past(i)' \/ Erased(i, Len(refreshes))'
    BY <1>2, <2>1, <2>2, PastStays
  <2> QED
    BY <1>1, <1>2, <2>1, <2>3
<1>4. RefreshSpaced'
  BY DEF RefreshInv, RefreshSpaced
<1>5. ASSUME NEW r \in Requests, Refreshing(r)' PROVE Ages(r)'
  BY <1>2, <1>5, AgesStay DEF RefreshInv, NoneStarts
<1> QED
  BY <1>2, <1>3, <1>4, <1>5 DEF RefreshInv

\* One request goes on with its refresh and the others stay where they are.
LEMMA RefreshGoesOn ==
    ASSUME Shape, RefreshInv, NEW r \in Requests, NEW x, req' = [req EXCEPT ![r] = x],
           UNCHANGED <<now, refreshed, refreshes>>, Ages(r)'
    PROVE  RefreshInv'
<1>1. req'[r] = x /\ \A q \in Requests : q # r => req'[q] = req[q]
  BY DEF Shape
<1>2. RefreshShape' /\ Known' /\ RefreshSpaced'
  BY DEF RefreshInv, RefreshShape, Known, RefreshSpaced, Past, Erased, Never
<1>3. ASSUME NEW q \in Requests, Refreshing(q)' PROVE Ages(q)'
  <2>1. CASE q = r
    BY <2>1
  <2>2. CASE q # r
    BY <1>1, <1>3, <2>2 DEF RefreshInv, Refreshing, Ages, Past, Erased
  <2> QED
    BY <2>1, <2>2
<1> QED
  BY <1>2, <1>3 DEF RefreshInv

\* A sweep starts, or judges the entry.
LEMMA SweepJudges ==
    ASSUME Shape, RefreshInv, NEW r \in Requests, sweepRefreshCooldowns(r) \/ JudgeEntry(r)
    PROVE  RefreshInv'
<1>1. /\ now \in Nat /\ MaxTime \in Nat /\ EvictAge \in Nat /\ RefreshShape
      /\ UNCHANGED <<now, refreshed, refreshes>> /\ now' \in now .. MaxTime
  BY ServerConstants, RefreshTypes DEF RefreshInv, RefreshShape, sweepRefreshCooldowns, JudgeEntry, limits, upstream
<1>2. CASE Goto(r, "check")
  <2>1. NoneStarts
    BY <1>2, GotoStartsNone DEF Stages
  <2> QED
    BY <1>1, <2>1, RefreshesKept
<1>3. ASSUME NEW pc, NEW at, req' = [req EXCEPT ![r].pc = pc, ![r].at = at],
             \/ pc = "judge" /\ at \in 0 .. now
             \/ pc = "evict" /\ at \in Nat /\ at + EvictAge < now
      PROVE  RefreshInv'
  <2> DEFINE x == [req[r] EXCEPT !.pc = pc, !.at = at]
  <2>1. req' = [req EXCEPT ![r] = x]
    BY <1>3
  <2>2. x.pc = pc /\ x.at = at
    BY DEF Shape, RequestShape
  <2>3. req'[r].pc = pc /\ req'[r].at = at
    BY <2>1, <2>2 DEF Shape
  <2>4. Ages(r)'
    BY <1>1, <1>3, <2>3 DEF Ages
  <2> HIDE DEF x
  <2> QED
    BY <1>1, <2>1, <2>4, RefreshGoesOn
<1>4. CASE sweepRefreshCooldowns(r)
  <2>1. now \in 0 .. now
    BY <1>1
  <2> QED
    BY <1>2, <1>3, <1>4, <2>1 DEF sweepRefreshCooldowns
<1>5. CASE JudgeEntry(r)
  <2>1. CASE OutOfDate(r) /\ req' = [req EXCEPT ![r].pc = "evict", ![r].at = refreshed]
    <3>1. PICK y \in Nat : y = refreshed
      BY <1>1, <2>1 DEF OutOfDate, RefreshShape
    <3>2. req[r].at \in 0 .. now
      BY <1>5 DEF JudgeEntry, At, RefreshInv, Refreshing, Stages, Ages
    <3>3. y + EvictAge < now
      BY <1>1, <2>1, <3>1, <3>2 DEF OutOfDate
    <3> QED
      BY <1>3, <2>1, <3>1, <3>3
  <2> QED
    BY <1>2, <1>5, <2>1 DEF JudgeEntry
<1> QED
  BY <1>4, <1>5

\* The sweep deletes the key: what it judged was past every cooldown, and a
\* fresh time in its place is marked erased.
LEMMA SweepEvicts ==
    ASSUME Shape, RefreshInv, NEW r \in Requests, EvictEntry(r)
    PROVE  RefreshInv'
<1> DEFINE n == Len(refreshes)
<1>1. /\ now \in Nat /\ MaxTime \in Nat /\ Cooldown \in Nat /\ EvictAge \in Nat /\ Cooldown <= EvictAge
      /\ RefreshShape /\ Known /\ n \in Nat /\ DOMAIN refreshes = 1 .. n
      /\ \A i \in 1 .. n : /\ refreshes[i].at \in Nat /\ refreshes[i].knew \in Nat
                           /\ refreshes[i].erased \in BOOLEAN
  BY ServerConstants, RefreshTypes DEF RefreshInv
<1>2. /\ now' = now /\ now' \in now .. MaxTime /\ refreshed' = Never /\ Goto(r, "check")
      /\ req[r].at \in Nat /\ req[r].at + EvictAge < now
  BY <1>1 DEF EvictEntry, limits, At, RefreshInv, RefreshShape, Refreshing, Stages, Ages
<1>3. CASE refreshed \in {Never, req[r].at}
  <2>1. refreshes' = refreshes
    BY <1>3 DEF EvictEntry
  <2>2. RefreshShape' /\ RefreshSpaced'
    BY <1>1, <1>2, <2>1 DEF RefreshInv, RefreshShape, RefreshSpaced, Never
  <2>3. ASSUME NEW i \in 1 .. n
        PROVE  refreshes[i].at <= now /\ refreshes[i].knew < i /\ (Past(i)' \/ Erased(i, n)')
    <3>1. /\ refreshes[i].at <= now /\ refreshes[i].knew < i /\ refreshes[i].at \in Nat
          /\ refreshed # Never => refreshes[i].at <= refreshed
          /\ refreshed = Never => Past(i) \/ Erased(i, n)
      BY <1>1 DEF Known
    <3>2. CASE refreshed = Never
      BY <1>2, <2>1, <3>1, <3>2 DEF Past, Erased
    <3>3. CASE refreshed # Never
      <4>1. refreshes[i].at <= req[r].at
        BY <1>3, <3>1, <3>3
      <4>2. refreshes[i].at + Cooldown <= now
        BY <1>1, <1>2, <3>1, <4>1
      <4> QED
        BY <1>2, <2>1, <3>1, <4>2 DEF Past
    <3> QED
      BY <3>2, <3>3
  <2>4. Known'
    BY <1>2, <2>1, <2>3 DEF Known, Never
  <2>5. ASSUME NEW q \in Requests, Refreshing(q)' PROVE Ages(q)'
    <3>1. NoneStarts
      BY <1>2, GotoStartsNone DEF Stages
    <3> QED
      BY <1>1, <1>2, <2>1, <2>2, <2>5, <3>1, AgesStay DEF RefreshInv, NoneStarts
  <2> QED
    BY <2>2, <2>4, <2>5 DEF RefreshInv
<1>4. CASE refreshed \notin {Never, req[r].at}
  <2>1. n \in 1 .. n /\ refreshes' = [refreshes EXCEPT ![n].erased = TRUE]
    BY <1>1, <1>4 DEF EvictEntry, RefreshShape
  <2>2. /\ \A i \in 1 .. n : /\ refreshes'[i].at = refreshes[i].at /\ refreshes'[i].knew = refreshes[i].knew
                             /\ refreshes[i].erased => refreshes'[i].erased
        /\ refreshes'[n].erased
    BY <1>1, <2>1, RefreshTypes
  <2>3. refreshes' \in Seq([at : Nat, knew : Nat, erased : BOOLEAN]) /\ Len(refreshes') = n
    <3>1. [refreshes[n] EXCEPT !.erased = TRUE] \in [at : Nat, knew : Nat, erased : BOOLEAN]
      <4>1. refreshes[n] \in [at : Nat, knew : Nat, erased : BOOLEAN]
        BY <1>1, <2>1, ElementOfSeq DEF RefreshShape
      <4>2. PICK x \in [at : Nat, knew : Nat, erased : BOOLEAN] : x = refreshes[n]
        BY <4>1
      <4>3. [x EXCEPT !.erased = TRUE] \in [at : Nat, knew : Nat, erased : BOOLEAN]
        OBVIOUS
      <4> QED
        BY <4>2, <4>3
    <3>2. refreshes' = [refreshes EXCEPT ![n] = [refreshes[n] EXCEPT !.erased = TRUE]]
      BY <2>1
    <3>3. refreshes \in Seq([at : Nat, knew : Nat, erased : BOOLEAN])
      BY <1>1 DEF RefreshShape
    <3> HIDE DEF n
    <3>4. n = Len(refreshes)
      BY DEF n
    <3> QED
      BY <2>1, <3>1, <3>2, <3>3, <3>4, ExceptSeq
  <2>4. RefreshShape'
    BY <1>1, <1>2, <2>3 DEF RefreshShape, Never
  <2>5. RefreshSpaced'
    BY <1>1, <2>2, <2>3, <2>4, SpacedStays DEF RefreshInv, Known
  <2>6. Known'
    <3>1. ASSUME NEW i \in 1 .. n
          PROVE  /\ refreshes'[i].at <= now /\ refreshes'[i].knew < i
                 /\ \E k \in i .. n : refreshes'[k].erased
      <4>1. n \in i .. n
        BY <1>1
      <4> QED
        BY <1>1, <2>2, <4>1 DEF Known
    <3> QED
      BY <1>2, <2>3, <3>1 DEF Known, Erased, Never
  <2>7. ASSUME NEW q \in Requests, Refreshing(q)' PROVE Ages(q)'
    <3>1. NoneStarts
      BY <1>2, GotoStartsNone DEF Stages
    <3> QED
      BY <1>1, <1>2, <2>2, <2>3, <2>4, <2>7, <3>1, AgesStay DEF RefreshInv, NoneStarts
  <2> QED
    BY <2>4, <2>5, <2>6, <2>7 DEF RefreshInv
<1> QED
  BY <1>3, <1>4

\* refreshListings: past the cooldown of all refreshes it knows of.
LEMMA RefreshStarts ==
    ASSUME Shape, RefreshInv, NEW r \in Requests, refreshListings(r)
    PROVE  RefreshInv'
<1>1. /\ MaxTime \in Nat /\ now \in Nat /\ Cooldown \in Nat /\ Len(refreshes) \in Nat
      /\ UNCHANGED <<now, refreshed, refreshes>> /\ now' \in now .. MaxTime
      /\ \A i \in 1 .. Len(refreshes) : refreshes[i].at \in Nat
  <2>1. /\ RefreshShape /\ Cooldown \in Nat
        /\ UNCHANGED <<now, refreshed, refreshes>>
    BY ServerConstants DEF refreshListings, limits, upstream, RefreshInv
  <2>2. /\ MaxTime \in Nat /\ now \in Nat /\ Len(refreshes) \in Nat /\ now \in 0 .. MaxTime
        /\ \A i \in 1 .. Len(refreshes) : refreshes[i].at \in Nat
    BY <2>1, RefreshTypes DEF RefreshShape
  <2> QED
    BY <2>1, <2>2
<1>2. CASE End(r)
  BY <1>1, <1>2, EndStartsNone, RefreshesKept
<1>3. CASE /\ ~CoolingDown
           /\ req' = [req EXCEPT ![r] = [req[r] EXCEPT !.pc = "fetch", !.at = Len(refreshes)]]
  <2>1. ASSUME NEW i \in 1 .. Len(refreshes) PROVE Past(i) \/ Erased(i, Len(refreshes))
    <3>1. CASE refreshed = Never
      BY <3>1 DEF RefreshInv, Known
    <3>2. CASE refreshed # Never
      <4>1. PICK y \in Nat : y = refreshed
        BY <1>1, <3>2 DEF RefreshInv, RefreshShape
      <4>2. refreshes[i].at <= y /\ ~(now - y < Cooldown)
        BY <1>3, <3>2, <4>1 DEF RefreshInv, Known, CoolingDown
      <4> QED
        BY <1>1, <4>2 DEF Past
    <3> QED
      BY <3>1, <3>2
  <2> DEFINE x == [req[r] EXCEPT !.pc = "fetch", !.at = Len(refreshes)]
  <2>2. x.pc = "fetch" /\ x.at = Len(refreshes) /\ req' = [req EXCEPT ![r] = x]
    BY <1>3 DEF Shape, RequestShape
  <2>3. req'[r].pc = "fetch" /\ req'[r].at = Len(refreshes)
    BY <2>2 DEF Shape
  <2>4. Ages(r)'
    BY <1>1, <2>1, <2>3 DEF Ages, Past, Erased
  <2> HIDE DEF x
  <2> QED
    BY <1>1, <2>2, <2>4, RefreshGoesOn
<1> QED
  BY <1>2, <1>3 DEF refreshListings

\* The fetch of a refresh succeeds: a cooldown after all it knew of, but for
\* those whose entry was erased.
LEMMA RefreshCompletes ==
    ASSUME Shape, RefreshInv, NEW r \in Requests, Refreshing(r), req[r].pc = "fetch", End(r),
           refreshed' = now, UNCHANGED now,
           refreshes' = Append(refreshes, [at |-> now, knew |-> req[r].at, erased |-> FALSE])
    PROVE  RefreshInv'
<1> DEFINE n == Len(refreshes)
<1> DEFINE e == [at |-> now, knew |-> req[r].at, erased |-> FALSE]
<1>1. /\ Cooldown \in Nat /\ now \in Nat /\ RefreshShape /\ Known /\ RefreshSpaced
      /\ e \in [at : Nat, knew : Nat, erased : BOOLEAN]
      /\ refreshes \in Seq([at : Nat, knew : Nat, erased : BOOLEAN]) /\ n \in Nat
      /\ e.at = now /\ e.knew \in 0 .. n
      /\ \A i \in 1 .. e.knew : Past(i) \/ Erased(i, e.knew)
  <2>1. RefreshShape /\ Known /\ RefreshSpaced /\ Cooldown \in Nat /\ Ages(r)
    BY ServerConstants DEF RefreshInv
  <2>2. /\ now \in Nat /\ n \in Nat /\ req[r].at \in 0 .. n
        /\ \A i \in 1 .. req[r].at : Past(i) \/ Erased(i, req[r].at)
    BY <2>1, RefreshTypes DEF Ages
  <2>3. e.at = now /\ e.knew = req[r].at /\ e \in [at : Nat, knew : Nat, erased : BOOLEAN]
    BY <2>2
  <2> QED
    BY <2>1, <2>2, <2>3 DEF RefreshShape
<1>2. /\ refreshes' \in Seq([at : Nat, knew : Nat, erased : BOOLEAN]) /\ DOMAIN refreshes' = 1 .. n + 1
      /\ refreshes'[n + 1] = e /\ \A i \in 1 .. n : refreshes'[i] = refreshes[i]
      /\ DOMAIN refreshes = 1 .. n /\ Len(refreshes') = n + 1
  BY <1>1
<1>3. NoneStarts
  BY EndStartsNone
<1>4. \A i \in 1 .. n : /\ refreshes[i].at \in Nat /\ refreshes[i].knew \in Nat
                        /\ refreshes[i].at <= now /\ refreshes[i].knew < i
  BY <1>1, RefreshTypes DEF Known
<1>5. refreshed' # Never
  BY LimitConstants DEF RefreshInv, RefreshShape, Never
<1> HIDE DEF e
<1>6. RefreshSpaced'
  <2> SUFFICES ASSUME NEW i \in 1 .. n + 1, NEW j \in 1 .. n + 1, i < j,
                      refreshes'[j].at - refreshes'[i].at < Cooldown
               PROVE  \/ refreshes'[j].knew < i
                      \/ \E k \in i .. refreshes'[j].knew : refreshes'[k].erased
    BY <1>2 DEF RefreshSpaced
  <2>1. i \in 1 .. n /\ refreshes'[i] = refreshes[i] /\ refreshes[i].at \in Nat
    BY <1>1, <1>2, <1>4
  <2>2. ASSUME NEW m \in 0 .. n, NEW k \in i .. m, refreshes[k].erased PROVE refreshes'[k].erased
    BY <1>1, <1>2, <2>1, <2>2
  <2>3. CASE j = n + 1
    <3>1. PICK m \in 0 .. n : m = e.knew /\ m = refreshes'[j].knew
      BY <1>1, <1>2, <2>3
    <3>2. now - refreshes[i].at < Cooldown
      BY <1>1, <1>2, <2>1, <2>3
    <3>3. ~Past(i)
      <4>1. PICK a \in Nat : a = refreshes[i].at
        BY <2>1
      <4>2. now \in Nat /\ Cooldown \in Nat /\ now - a < Cooldown
        BY <1>1, <3>2, <4>1
      <4>3. ~(a + Cooldown <= now)
        BY <4>2
      <4> QED
        BY <4>1, <4>3 DEF Past
    <3>4. CASE m < i
      BY <3>1, <3>4
    <3>5. CASE i <= m
      <4>1. Erased(i, m)
        <5>1. i \in 1 .. m
          BY <1>1, <2>1, <3>5
        <5> QED
          BY <1>1, <3>1, <3>3, <5>1
      <4> QED
        BY <2>2, <3>1, <4>1 DEF Erased
    <3> QED
      BY <2>1, <3>1, <3>4, <3>5
  <2>4. CASE j # n + 1
    <3>1. j \in 1 .. n /\ refreshes'[j] = refreshes[j]
      BY <1>1, <1>2, <2>4
    <3>2. PICK m \in 0 .. n : m = refreshes[j].knew
      <4>1. PICK m \in Nat : m = refreshes[j].knew /\ m < j
        BY <1>4, <3>1
      <4> QED
        BY <1>1, <3>1, <4>1
    <3>3. m < i \/ \E k \in i .. m : refreshes[k].erased
      BY <1>1, <1>2, <2>1, <3>1, <3>2 DEF RefreshSpaced
    <3> QED
      BY <2>2, <3>1, <3>2, <3>3
  <2> QED
    BY <2>3, <2>4
<1>7. RefreshShape'
  BY <1>1, <1>2 DEF RefreshShape, Never
<1>8. Known'
  <2> SUFFICES ASSUME NEW i \in 1 .. n + 1
               PROVE  refreshes'[i].at <= now /\ refreshes'[i].knew < i
    BY <1>2, <1>5 DEF Known, Never
  <2>1. CASE i = n + 1
    BY <1>1, <1>2, <2>1
  <2>2. CASE i # n + 1
    BY <1>1, <1>2, <1>4, <2>2
  <2> QED
    BY <2>1, <2>2
<1>9. ASSUME NEW q \in Requests, Refreshing(q)' PROVE Ages(q)'
  <2>1. Refreshing(q) /\ req'[q].at = req[q].at /\ req'[q].pc = req[q].pc /\ Ages(q)
    BY <1>3, <1>9 DEF NoneStarts, RefreshInv
  <2>2. ASSUME req[q].pc = "fetch"
        PROVE  /\ req'[q].at \in 0 .. n + 1
               /\ \A i \in 1 .. req'[q].at : Past(i)' \/ Erased(i, req[q].at)'
    <3>1. PICK m \in 0 .. n : m = req[q].at /\ \A i \in 1 .. m : Past(i) \/ Erased(i, m)
      BY <2>1, <2>2 DEF Ages
    <3>2. ASSUME NEW i \in 1 .. m PROVE Past(i)' \/ Erased(i, m)'
      <4>1. \A k \in i .. m : k \in 1 .. n
        BY <1>1
      <4>2. i \in 1 .. n
        BY <1>1
      <4>3. Past(i) => Past(i)'
        BY <1>2, <4>2 DEF Past
      <4> QED
        BY <1>2, <3>1, <4>1, <4>3 DEF Erased
    <3>3. req'[q].at = m /\ m \in 0 .. n + 1
      BY <1>1, <2>1, <3>1
    <3> QED
      BY <3>2, <3>3 DEF Erased
  <2> QED
    BY <1>2, <2>1, <2>2 DEF Ages
<1> QED
  BY <1>6, <1>7, <1>8, <1>9 DEF RefreshInv

\* Requests that reach the source.
LEMMA UpstreamRefreshes ==
    ASSUME Shape, RefreshInv, NEW r \in Requests, Upstream(r)
    PROVE  RefreshInv'
<1>1. now' = now /\ now \in Nat /\ now' \in now .. MaxTime
  BY UpstreamIsQuiet, RefreshTypes DEF RefreshInv, RefreshShape
<1>2. ASSUME Retried(r) PROVE NoneStarts
  <2> DEFINE x == [req[r] EXCEPT !.n = @ + 1]
  <2>1. x.pc = req[r].pc /\ x.op = req[r].op /\ x.at = req[r].at
    BY DEF Shape, RequestShape
  <2>2. req' = [req EXCEPT ![r] = x]
    BY <1>2 DEF Retried
  <2> HIDE DEF x
  <2> QED
    BY <2>1, <2>2, ElsewhereStartsNone
<1>3. CASE instantSearch(r) \/ AcquireSlot(r) \/ FetchInstant(r)
  <2>1. UNCHANGED <<refreshed, refreshes>> /\ req[r].op = "instantSearch"
    BY <1>3 DEF instantSearch, AcquireSlot, FetchInstant, At, upstream
  <2>2. End(r) \/ Goto(r, "slot") \/ Goto(r, "fetch") \/ Retried(r)
    BY <1>3 DEF instantSearch, AcquireSlot, FetchInstant
  <2>3. NoneStarts
    BY <1>2, <2>1, <2>2, EndStartsNone, GotoStartsNone
  <2> QED
    BY <1>1, <2>1, <2>3, RefreshesKept
<1>4. CASE FetchRefresh(r)
  <2>1. CASE UNCHANGED <<refreshed, refreshes>> /\ (Retried(r) \/ End(r))
    BY <1>1, <1>2, <2>1, EndStartsNone, RefreshesKept
  <2>2. CASE /\ refreshed' = now /\ End(r)
             /\ refreshes' = Append(refreshes, [at |-> now, knew |-> req[r].at, erased |-> FALSE])
    BY <1>1, <1>4, <2>2, RefreshCompletes DEF FetchRefresh, Refreshing, Stages, At
  <2> QED
    BY <1>4, <2>1, <2>2 DEF FetchRefresh
<1> QED
  BY <1>3, <1>4, RefreshStarts, SweepJudges, SweepEvicts DEF Upstream, Sweeping

\* At the start nothing was refreshed.
LEMMA RefreshInit == Init => RefreshInv
<1> SUFFICES ASSUME Init PROVE RefreshInv
  OBVIOUS
<1>1. now = 0 /\ refreshed = Never /\ refreshes = <<>> /\ MaxTime \in Nat
  BY LimitConstants DEF Init, LimitsInit
<1>2. \A r \in Requests : ~Refreshing(r)
  BY DEF Init, RequestsInit, Refreshing, Stages, NoRequest
<1>3. Len(refreshes) = 0 /\ DOMAIN refreshes = {}
  BY <1>1
<1> QED
  BY <1>1, <1>2, <1>3 DEF RefreshInv, RefreshShape, RefreshSpaced, Known

\* Every step keeps the refreshes apart.
LEMMA RefreshStep == Shape /\ RefreshInv /\ [Next]_vars => RefreshInv'
<1> SUFFICES ASSUME Shape, RefreshInv, [Next]_vars PROVE RefreshInv'
  OBVIOUS
<1>0. now \in Nat /\ MaxTime \in Nat /\ now \in now .. MaxTime
  BY RefreshTypes DEF RefreshInv, RefreshShape
<1>1. ASSUME UNCHANGED <<refreshed, refreshes>>, now' = now, NoneStarts PROVE RefreshInv'
  BY <1>0, <1>1, RefreshesKept
<1>2. ASSUME req' = req PROVE NoneStarts
  BY <1>2 DEF NoneStarts, Refreshing
<1>3. ASSUME NEW r \in Requests, Chain(r), UNCHANGED <<lists, confirms, upstream>> PROVE RefreshInv'
  BY <1>1, <1>3, ChainIsQuiet, ChainStartsNone DEF upstream
<1>4. ASSUME NEW r \in Requests,
             \/ UserListsStep(r) \/ AdminListsStep(r) \/ AdminTokenStep(r) \/ adminVacuum(r),
             UNCHANGED <<limits, upstream>>
      PROVE  RefreshInv'
  BY <1>1, <1>4, HandlersStartNone DEF upstream, limits
<1>5. ASSUME NEW r \in Requests, StoreFails(r) PROVE RefreshInv'
  BY <1>1, <1>5, HandlersStartNone DEF StoreFails, upstream, limits
<1>6. CASE UNCHANGED <<limits, req, load, confirms, upstream>> \/ UNCHANGED vars
  BY <1>1, <1>2, <1>6 DEF vars, requests, upstream, limits
<1>7. CASE Tick /\ UNCHANGED <<requests, lists, confirms, upstream>>
  <2>1. now' \in now .. MaxTime
    BY <1>0, <1>7 DEF Tick
  <2> QED
    BY <1>2, <1>7, <2>1, RefreshesKept DEF requests, upstream
<1>8. CASE Sweep /\ UNCHANGED <<requests, lists, confirms, upstream>>
  BY <1>1, <1>2, <1>8 DEF requests, upstream, Sweep, cleanup, ipCleanup, sweepStaleMaps, CompareAndDelete
<1>9. ASSUME NEW r \in Requests, Upstream(r) PROVE RefreshInv'
  BY <1>9, UpstreamRefreshes
<1>10. \/ \E r \in Requests :
            \/ Chain(r) /\ UNCHANGED <<lists, confirms, upstream>>
            \/ /\ UserListsStep(r) \/ AdminListsStep(r) \/ AdminTokenStep(r) \/ adminVacuum(r)
               /\ UNCHANGED <<limits, upstream>>
            \/ Upstream(r) \/ StoreFails(r)
       \/ UNCHANGED <<limits, req, load, confirms, upstream>>
       \/ Tick /\ UNCHANGED <<requests, lists, confirms, upstream>>
       \/ Sweep /\ UNCHANGED <<requests, lists, confirms, upstream>>
       \/ UNCHANGED vars
  BY DEF Next
<1> QED
  BY <1>3, <1>4, <1>5, <1>6, <1>7, <1>8, <1>9, <1>10

\* Two refreshes of a search complete within its cooldown only if the later was
\* let in before the earlier was complete, or after a sweep had erased the entry
\* that would have held it back: listings.go checks the cooldown on entry and
\* sets it after the fetch, and the sweep deletes a key it judged before.
THEOREM RefreshesSpaced == Spec => []RefreshSpaced
<1>1. Init => TokenInv /\ RefreshInv
  BY TokenInvInit, RefreshInit
<1>2. TokenInv /\ RefreshInv /\ [Next]_vars => (TokenInv /\ RefreshInv)'
  BY TokenInvNext, RefreshStep DEF TokenInv
<1>3. RefreshInv => RefreshSpaced
  BY DEF RefreshInv
<1> QED
  BY <1>1, <1>2, <1>3, PTL DEF Spec
-----------------------------------------------------------------------------
(* Rates *)

Bucket == [tokens : Nat, tick : Nat, used : Nat, kept : BOOLEAN]
RateShape ==
    /\ now \in Nat
    /\ bucket \in [Limiters -> [Keys -> Bucket]]
    /\ admitted \in [Limiters -> [Keys -> Seq(Nat)]]
    /\ \A l \in Limiters, k \in Keys : bucket[l][k].tokens <= Burst[l] /\ bucket[l][k].tick <= now

\* the tokens of d ticks of the clock, the interval that has begun included
Refills(l, d) == (d + Every[l] - 1) \div Every[l]
\* the time of m whole intervals
TimeOf(l, m) == m * Every[l]

\* What a bucket still gives and what its key was given since any admission
\* are within the burst and the refills up to its tick.
Covers(l, b, a) ==
    /\ b.tokens <= Burst[l] /\ b.tick <= now
    /\ \A i \in DOMAIN a : /\ a[i] < b.tick + Every[l]
                           /\ Len(a) - i + 1 + b.tokens <= Burst[l] + Refills(l, b.tick - a[i])

\* A bucket in use was ticked, and its key let through, no later than it was used.
Current(l, b, a) ==
    /\ Covers(l, b, a) /\ b.tick <= b.used /\ b.used <= now
    /\ \A i \in DOMAIN a : a[i] <= b.used

\* Every admission since any other was paid for by refills: a full bucket is due.
Earned(l, a) == \A i \in DOMAIN a : Len(a) - i + 1 <= Refills(l, now - a[i])

Within(l, a) ==
    \A i, j \in DOMAIN a : i <= j => j - i + 1 <= Burst[l] + Refills(l, a[j] - a[i])

\* A bucket that is gone, or that the sweep is about to remove, owes nothing.
Accounted(l, k) ==
    /\ \A i \in DOMAIN admitted[l][k] : admitted[l][k][i] <= now
    /\ bucket[l][k].kept => Current(l, bucket[l][k], admitted[l][k])
    /\ ~bucket[l][k].kept \/ (l = "chat" /\ k \in doomed) => Earned(l, admitted[l][k])
    /\ Within(l, admitted[l][k])

RateInv == RateShape /\ \A l \in Limiters \ {"guest"}, k \in Keys : Accounted(l, k)

\* Division by an interval: its range, that it is monotone, and that whole
\* intervals come out of it.
LEMMA Division ==
    ASSUME NEW e \in Nat \ {0}
    PROVE  /\ \A x \in Nat : x \div e \in Nat /\ (x \div e) * e <= x /\ x < (x \div e) * e + e
           /\ \A x, y \in Nat : x <= y => x \div e <= y \div e
           /\ \A x, m \in Nat : (x + m * e) \div e = x \div e + m
           /\ \A m \in Nat : m * e \in Nat
<1>1. \A x \in Nat : x \div e \in Nat /\ (x \div e) * e <= x /\ x < (x \div e) * e + e
  OBVIOUS
<1>2. \A x, y \in Nat : x <= y => x \div e <= y \div e
  OBVIOUS
<1>3. \A x, m \in Nat : (x + m * e) \div e = x \div e + m
  OBVIOUS
<1>4. \A m \in Nat : m * e \in Nat
  OBVIOUS
<1> QED
  BY <1>1, <1>2, <1>3, <1>4

\* The times of admissions are times.
LEMMA AdmissionTypes ==
    ASSUME NEW a \in Seq(Nat)
    PROVE  Len(a) \in Nat /\ DOMAIN a = 1 .. Len(a) /\ \A i \in DOMAIN a : a[i] \in Nat
BY ElementOfSeq, LenProperties

\* Refills grow with time, and grow by whole tokens at whole intervals.
LEMMA RefillsGrow ==
    ASSUME NEW l \in Limiters
    PROVE  /\ Every[l] \in Nat \ {0} /\ Burst[l] \in Nat \ {0}
           /\ \A s \in Nat, t \in Nat, c \in Nat :
                s <= t /\ c < s + Every[l] =>
                  Refills(l, s - c) \in Nat /\ Refills(l, t - c) \in Nat
                  /\ Refills(l, s - c) <= Refills(l, t - c)
           /\ \A s \in Nat, m \in Nat, c \in Nat :
                c < s + Every[l] => Refills(l, s + TimeOf(l, m) - c) = Refills(l, s - c) + m
<1>1. Every[l] \in Nat \ {0} /\ Burst[l] \in Nat \ {0}
  BY LimitConstants
<1> DEFINE e == Every[l]
<1> HIDE DEF e
<1>2. e \in Nat \ {0}
  BY <1>1 DEF e
<1>3. ASSUME NEW s \in Nat, NEW t \in Nat, NEW c \in Nat, s <= t, c < s + e
      PROVE  /\ (s - c + e - 1) \div e \in Nat /\ (t - c + e - 1) \div e \in Nat
             /\ (s - c + e - 1) \div e <= (t - c + e - 1) \div e
  <2>1. s - c + e - 1 \in Nat /\ t - c + e - 1 \in Nat /\ s - c + e - 1 <= t - c + e - 1
    BY <1>2, <1>3
  <2> QED
    BY <1>2, <2>1, Division
<1>4. ASSUME NEW s \in Nat, NEW m \in Nat, NEW c \in Nat, c < s + e
      PROVE  (s + m * e - c + e - 1) \div e = (s - c + e - 1) \div e + m
  <2>1. s - c + e - 1 \in Nat /\ m * e \in Nat
    BY <1>2, <1>4, Division
  <2>2. PICK x \in Nat : x = s - c + e - 1
    BY <2>1
  <2>3. s + m * e - c + e - 1 = x + m * e
    BY <1>2, <2>1, <2>2
  <2>4. (x + m * e) \div e = x \div e + m
    BY <1>2, Division
  <2> QED
    BY <2>2, <2>3, <2>4
<1> QED
  BY <1>1, <1>3, <1>4 DEF Refills, TimeOf, e

\* A refill keeps a bucket's account, and leaves its tick within an interval
\* of the clock; an empty bucket was not refilled.
LEMMA RefilledCovers ==
    ASSUME now \in Nat, NEW l \in Limiters, NEW b \in Bucket, NEW a \in Seq(Nat), Covers(l, b, a)
    PROVE  LET c == Refilled(l, b) IN
           /\ c \in Bucket /\ c.used = b.used /\ c.kept = b.kept
           /\ Covers(l, c, a) /\ now < c.tick + Every[l]
           /\ c.tokens = 0 => c.tick = b.tick
<1> DEFINE c == Refilled(l, b)
<1>1. PICK e \in Nat \ {0}, B \in Nat \ {0} : e = Every[l] /\ B = Burst[l]
  BY RefillsGrow
<1>2. PICK t \in Nat, k \in Nat : t = b.tick /\ k = b.tokens /\ t <= now /\ k <= B
  BY <1>1 DEF Bucket, Covers
<1>3. PICK m \in Nat, d \in Nat : m = (now - t) \div e /\ d = m * e /\ d <= now - t /\ now - t < d + e
  <2>1. PICK x \in Nat : x = now - t
    BY <1>2
  <2> QED
    BY <1>1, <2>1, Division
<1>4. /\ d <= now - t /\ now - t < d + e
      /\ m = 0 => d = 0
  BY <1>1, <1>3
<1>5. /\ c.tokens = (IF k + m < B THEN k + m ELSE B)
      /\ c.tick = t + d /\ c.used = b.used /\ c.kept = b.kept
      /\ c = [tokens |-> c.tokens, tick |-> c.tick, used |-> c.used, kept |-> c.kept]
  <2>1. c = [b EXCEPT !.tokens = IF k + m < B THEN k + m ELSE B, !.tick = t + d]
    BY <1>1, <1>2, <1>3 DEF Refilled
  <2> QED
    BY <2>1 DEF Bucket
<1> HIDE DEF c
<1>6. PICK h \in Nat : h = c.tokens /\ h <= B /\ h <= k + m /\ (h = 0 => m = 0)
  BY <1>1, <1>2, <1>5
<1>7. PICK v \in Nat : v = c.tick /\ v = t + d /\ t <= v /\ v <= now /\ now < v + e
  <2>1. t + d \in Nat /\ t <= t + d
    OBVIOUS
  <2>2. t + d <= now /\ now < t + d + e
    BY <1>4
  <2> QED
    BY <1>5, <2>1, <2>2
<1>8. c \in Bucket
  <2>1. c.used \in Nat /\ c.kept \in BOOLEAN
    BY <1>5 DEF Bucket
  <2> QED
    BY <1>5, <1>6, <1>7, <2>1 DEF Bucket
<1>9. c.tokens = 0 => c.tick = b.tick
  BY <1>2, <1>4, <1>6, <1>7
<1>10. ASSUME NEW i \in DOMAIN a
       PROVE  /\ a[i] < c.tick + e
              /\ Len(a) - i + 1 + c.tokens <= B + Refills(l, c.tick - a[i])
  <2>1. PICK x \in Nat, n \in Nat : x = a[i] /\ n = Len(a) - i + 1
    BY <1>10, AdmissionTypes
  <2>2. x < t + e /\ n + k <= B + Refills(l, t - x)
    BY <1>1, <1>2, <1>10, <2>1 DEF Covers
  <2>3. PICK f \in Nat : f = Refills(l, t - x)
    BY <1>1, <1>2, <2>1, <2>2, RefillsGrow
  <2>4. Refills(l, v - x) = f + m
    <3>1. x < t + Every[l] /\ d = TimeOf(l, m)
      BY <1>1, <1>3, <2>2 DEF TimeOf
    <3>2. Refills(l, t + d - x) = Refills(l, t - x) + m
      BY <3>1, RefillsGrow
    <3> QED
      BY <1>7, <2>3, <3>2
  <2>5. n + h <= B + (f + m)
    <3>1. n + k <= B + f
      BY <2>2, <2>3
    <3>2. h <= k + m
      BY <1>6
    <3> QED
      BY <3>1, <3>2
  <2>6. x < v + e
    BY <1>7, <2>2
  <2> QED
    BY <1>6, <1>7, <2>1, <2>4, <2>5, <2>6
<1>11. Covers(l, c, a)
  BY <1>1, <1>6, <1>7, <1>10 DEF Covers
<1> QED
  BY <1>1, <1>5, <1>7, <1>8, <1>9, <1>11 DEF c

\* A new bucket, once all was earned.
LEMMA FullCovers ==
    ASSUME now \in Nat, NEW l \in Limiters, NEW a \in Seq(Nat), Earned(l, a),
           \A i \in DOMAIN a : a[i] <= now
    PROVE  Full(l) \in Bucket /\ Full(l).kept /\ Current(l, Full(l), a)
<1>1. /\ Burst[l] \in Nat \ {0} /\ Every[l] \in Nat \ {0}
      /\ Full(l).tokens = Burst[l] /\ Full(l).tick = now /\ Full(l).used = now
      /\ Full(l).kept /\ Full(l) \in Bucket
  BY RefillsGrow DEF Full, Bucket
<1>2. ASSUME NEW i \in DOMAIN a
      PROVE  /\ a[i] < now + Every[l]
             /\ Len(a) - i + 1 + Burst[l] <= Burst[l] + Refills(l, now - a[i])
  <2>1. PICK x \in Nat, n \in Nat : x = a[i] /\ n = Len(a) - i + 1
    BY <1>2, AdmissionTypes
  <2>2. x <= now /\ n <= Refills(l, now - x) /\ x < now + Every[l]
    <3>1. x <= now /\ n <= Refills(l, now - x)
      BY <1>2, <2>1 DEF Earned
    <3>2. PICK e \in Nat \ {0} : e = Every[l]
      BY <1>1
    <3>3. x < now + e
      BY <3>1
    <3> QED
      BY <3>1, <3>2, <3>3
  <2>3. Refills(l, now - x) \in Nat
    <3>1. now <= now
      OBVIOUS
    <3> QED
      BY <2>2, <3>1, RefillsGrow
  <2>4. PICK f \in Nat, B \in Nat : f = Refills(l, now - x) /\ B = Burst[l]
    BY <1>1, <2>3
  <2>5. n + B <= B + f
    BY <2>2, <2>4
  <2> QED
    BY <2>1, <2>2, <2>4, <2>5
<1> QED
  BY <1>1, <1>2 DEF Current, Covers

\* A bucket that has been idle long enough to be swept would be full again.
LEMMA StaleEarned ==
    ASSUME now \in Nat, NEW l \in {"user", "ip", "chat"}, NEW b \in Bucket, NEW a \in Seq(Nat),
           Current(l, b, a), b.used + Idle[l] < now
    PROVE  Earned(l, a)
<1>1. /\ l \in Limiters /\ Every[l] \in Nat \ {0} /\ Burst[l] \in Nat \ {0}
      /\ Idle[l] \in Nat /\ Burst[l] * Every[l] <= Idle[l]
  BY LimitConstants, RefillsGrow DEF Limiters
<1>2. PICK e \in Nat \ {0}, B \in Nat \ {0}, z \in Nat :
        e = Every[l] /\ B = Burst[l] /\ z = Idle[l]
  BY <1>1
<1>3. PICK d \in Nat : d = B * e
  BY <1>2
<1>4. d <= z
  BY <1>1, <1>2, <1>3
<1>5. PICK t \in Nat, k \in Nat, u \in Nat :
        t = b.tick /\ k = b.tokens /\ u = b.used /\ t <= u /\ u + z < now
  BY <1>2 DEF Bucket, Current
<1>6. PICK v \in Nat : v = t + d /\ t <= v /\ v <= now
  <2>1. t + d \in Nat /\ t <= t + d
    OBVIOUS
  <2>2. t + d <= now
    BY <1>4, <1>5
  <2> QED
    BY <2>1, <2>2
<1>7. ASSUME NEW i \in DOMAIN a
      PROVE  Len(a) - i + 1 <= Refills(l, now - a[i])
  <2>1. PICK x \in Nat, n \in Nat : x = a[i] /\ n = Len(a) - i + 1
    BY <1>7, AdmissionTypes
  <2>2. x < t + e /\ n + k <= B + Refills(l, t - x)
    BY <1>2, <1>5, <1>7, <2>1 DEF Current, Covers
  <2>3. PICK f \in Nat : f = Refills(l, t - x)
    <3>1. l \in Limiters /\ x < t + Every[l] /\ t <= t
      BY <1>1, <1>2, <2>2
    <3> QED
      BY <3>1, RefillsGrow
  <2>4. Refills(l, v - x) = f + B
    <3>1. l \in Limiters /\ x < t + Every[l] /\ d = TimeOf(l, B)
      BY <1>1, <1>2, <1>3, <2>2 DEF TimeOf
    <3>2. Refills(l, t + d - x) = Refills(l, t - x) + B
      BY <3>1, RefillsGrow
    <3> QED
      BY <1>6, <2>3, <3>2
  <2>5. x < v + e
    BY <1>6, <2>2
  <2>6. PICK g \in Nat : g = Refills(l, now - x) /\ f + B <= g
    <3>1. x < v + Every[l]
      BY <1>2, <2>5
    <3>2. /\ Refills(l, v - x) \in Nat /\ Refills(l, now - x) \in Nat
          /\ Refills(l, v - x) <= Refills(l, now - x)
      BY <1>1, <1>6, <3>1, RefillsGrow
    <3> QED
      BY <2>4, <3>2
  <2>7. n <= g
    BY <2>2, <2>3, <2>6
  <2> QED
    BY <2>1, <2>6, <2>7
<1> QED
  BY <1>7 DEF Earned

\* The bucket that a request finds, refilled: its account, and when its key
\* was let through.
LEMMA FoundCovers ==
    ASSUME RateInv, NEW l \in Limiters \ {"guest"}, NEW k \in Keys
    PROVE  LET c == Refilled(l, Found(l, k)) IN
           /\ c \in Bucket /\ c.kept /\ now < c.tick + Every[l]
           /\ Covers(l, c, admitted[l][k]) /\ c.used <= now
           /\ c.tokens = 0 => c.tick <= c.used
           /\ \A i \in DOMAIN admitted[l][k] : admitted[l][k][i] <= c.used
<1> DEFINE a == admitted[l][k]
           b == Found(l, k)
           c == Refilled(l, b)
<1>1. /\ now \in Nat /\ l \in Limiters /\ a \in Seq(Nat) /\ bucket[l][k] \in Bucket
      /\ Accounted(l, k)
  BY DEF RateInv, RateShape
<1>2. b \in Bucket /\ b.kept /\ Current(l, b, a)
  <2>1. CASE bucket[l][k].kept
    BY <1>1, <2>1 DEF Found, Accounted
  <2>2. CASE ~bucket[l][k].kept
    <3>1. Earned(l, a) /\ \A i \in DOMAIN a : a[i] <= now
      BY <1>1, <2>2 DEF Accounted
    <3> QED
      BY <1>1, <2>2, <3>1, FullCovers DEF Found
  <2> QED
    BY <2>1, <2>2
<1> HIDE DEF a, b
<1>3. Covers(l, b, a) /\ b.tick <= b.used /\ b.used <= now /\ \A i \in DOMAIN a : a[i] <= b.used
  BY <1>2 DEF Current
<1>4. /\ c \in Bucket /\ c.used = b.used /\ c.kept = b.kept
      /\ Covers(l, c, a) /\ now < c.tick + Every[l]
      /\ c.tokens = 0 => c.tick = b.tick
  BY <1>1, <1>2, <1>3, RefilledCovers
<1> QED
  BY <1>2, <1>3, <1>4 DEF a, b

\* A key that is let through, and its bucket that gave a token.
LEMMA AdmissionCovers ==
    ASSUME now \in Nat, NEW l \in Limiters, NEW c \in Bucket, NEW a \in Seq(Nat),
           Covers(l, c, a), c.tokens > 0, now < c.tick + Every[l],
           \A i \in DOMAIN a : a[i] <= now, Within(l, a)
    PROVE  LET d == [c EXCEPT !.tokens = @ - 1, !.used = now] IN
           /\ d \in Bucket /\ Current(l, d, Append(a, now)) /\ d.kept = c.kept
           /\ Within(l, Append(a, now))
           /\ Append(a, now) \in Seq(Nat) /\ \A i \in DOMAIN Append(a, now) : Append(a, now)[i] <= now
<1> DEFINE d == [c EXCEPT !.tokens = @ - 1, !.used = now]
           s == Append(a, now)
<1>1. PICK e \in Nat \ {0}, B \in Nat \ {0} : e = Every[l] /\ B = Burst[l]
  BY RefillsGrow
<1>2. PICK t \in Nat, h \in Nat : t = c.tick /\ h = c.tokens /\ t <= now /\ h <= B /\ h > 0 /\ now < t + e
  BY <1>1 DEF Bucket, Covers
<1>3. /\ d.tokens = h - 1 /\ d.tick = t /\ d.used = now /\ d.kept = c.kept
      /\ d \in Bucket
  <2>1. h - 1 \in Nat /\ c.kept \in BOOLEAN
    BY <1>2 DEF Bucket
  <2>2. d = [tokens |-> h - 1, tick |-> t, used |-> now, kept |-> c.kept]
    <3>1. c = [tokens |-> h, tick |-> t, used |-> c.used, kept |-> c.kept]
      BY <1>2 DEF Bucket
    <3>2. d = [[tokens |-> h, tick |-> t, used |-> c.used, kept |-> c.kept]
                  EXCEPT !.tokens = h - 1, !.used = now]
      BY <1>2, <3>1, Zenon
    <3> HIDE DEF d
    <3> QED
      BY <3>2
  <2> HIDE DEF d
  <2> QED
    BY <2>1, <2>2 DEF Bucket
<1>4. PICK n \in Nat : n = Len(a) /\ DOMAIN a = 1 .. n
  BY AdmissionTypes
<1>5. /\ s \in Seq(Nat) /\ Len(s) = n + 1 /\ DOMAIN s = 1 .. n + 1
      /\ s[n + 1] = now /\ \A i \in 1 .. n : s[i] = a[i]
  BY <1>4
<1> HIDE DEF d, s
<1>6. \A i \in 1 .. n + 1 : s[i] \in Nat /\ s[i] <= now
  <2>1. \A i \in 1 .. n : a[i] \in Nat /\ a[i] <= now
    BY <1>4, AdmissionTypes
  <2>2. \A i \in 1 .. n + 1 : i \in 1 .. n \/ i = n + 1
    OBVIOUS
  <2> QED
    BY <1>5, <2>1, <2>2
<1>7. ASSUME NEW i \in 1 .. n
      PROVE  \E x \in Nat, f \in Nat, g \in Nat :
               /\ x = s[i] /\ x = a[i] /\ x <= now /\ x < t + e
               /\ f = Refills(l, t - x) /\ g = Refills(l, now - x) /\ f <= g
               /\ n - i + 1 + h <= B + f
  <2>1. PICK x \in Nat : x = s[i] /\ x = a[i] /\ x <= now
    <3>1. i \in 1 .. n + 1
      OBVIOUS
    <3>2. s[i] \in Nat /\ s[i] <= now /\ s[i] = a[i]
      BY <1>5, <1>6, <3>1
    <3> QED
      BY <3>2
  <2>2. x < t + e /\ n - i + 1 + h <= B + Refills(l, t - x)
    BY <1>1, <1>2, <1>4, <1>7, <2>1 DEF Covers
  <2>3. /\ Refills(l, t - x) \in Nat /\ Refills(l, now - x) \in Nat
        /\ Refills(l, t - x) <= Refills(l, now - x)
    <3>1. x < t + Every[l]
      BY <1>1, <2>2
    <3> QED
      BY <1>2, <3>1, RefillsGrow
  <2> QED
    BY <2>1, <2>2, <2>3
<1>8. /\ Refills(l, t - now) \in Nat /\ Refills(l, now - now) \in Nat
  <2>1. now < t + Every[l]
    BY <1>1, <1>2
  <2> QED
    BY <1>2, <2>1, RefillsGrow
<1>9. Covers(l, d, s)
  <2>1. ASSUME NEW i \in 1 .. n + 1
        PROVE  s[i] < t + e /\ (n + 1) - i + 1 + (h - 1) <= B + Refills(l, t - s[i])
    <3>1. CASE i \in 1 .. n
      <4>1. PICK x \in Nat, f \in Nat : x = s[i] /\ x < t + e /\ f = Refills(l, t - x) /\ n - i + 1 + h <= B + f
        BY <1>7, <3>1
      <4>2. (n + 1) - i + 1 + (h - 1) <= B + f
        BY <3>1, <4>1
      <4> QED
        BY <4>1, <4>2
    <3>2. CASE i = n + 1
      <4>1. PICK f \in Nat : f = Refills(l, t - now)
        BY <1>8
      <4>2. (n + 1) - i + 1 + (h - 1) <= B + f
        BY <1>2, <3>2
      <4> QED
        BY <1>2, <1>5, <3>2, <4>1, <4>2
    <3> QED
      BY <2>1, <3>1, <3>2
  <2>2. d.tokens <= B /\ d.tick <= now
    BY <1>2, <1>3
  <2> QED
    BY <1>1, <1>3, <1>5, <2>1, <2>2 DEF Covers
<1>10. Current(l, d, s)
  BY <1>2, <1>3, <1>5, <1>6, <1>9 DEF Current
<1>11. Within(l, s)
  <2> SUFFICES ASSUME NEW i \in 1 .. n + 1, NEW j \in 1 .. n + 1, i <= j
               PROVE  j - i + 1 <= Burst[l] + Refills(l, s[j] - s[i])
    BY <1>5 DEF Within
  <2>1. CASE j \in 1 .. n
    <3>1. i \in 1 .. n
      BY <2>1
    <3> QED
      BY <1>4, <1>5, <2>1, <3>1 DEF Within
  <2>2. CASE j = n + 1 /\ i \in 1 .. n
    <3>1. PICK x \in Nat, f \in Nat, g \in Nat :
            x = s[i] /\ g = Refills(l, now - x) /\ f <= g /\ n - i + 1 + h <= B + f
      BY <1>7, <2>2
    <3>2. j - i + 1 <= B + g
      <4>1. h > 0 /\ j = n + 1 /\ i \in Nat
        BY <1>2, <2>2
      <4>2. n - i + 1 + h <= B + f /\ f <= g
        BY <3>1
      <4> QED
        BY <4>1, <4>2
    <3> QED
      BY <1>1, <1>5, <2>2, <3>1, <3>2
  <2>3. CASE j = n + 1 /\ i = n + 1
    <3>1. PICK g \in Nat : g = Refills(l, now - now)
      BY <1>8
    <3>2. j - i + 1 <= B + g
      BY <2>3
    <3> QED
      BY <1>1, <1>5, <2>3, <3>1, <3>2
  <2> QED
    BY <2>1, <2>2, <2>3
<1> QED
  BY <1>3, <1>5, <1>6, <1>10, <1>11 DEF d, s

\* A bucket that gave a token to no one the history knows, or refused.
LEMMA SpentCovers ==
    ASSUME now \in Nat, NEW l \in Limiters, NEW c \in Bucket, NEW d \in Bucket, NEW a \in Seq(Nat),
           Covers(l, c, a), d.tokens <= c.tokens, d.tick = c.tick,
           d.tick <= d.used, d.used <= now, \A i \in DOMAIN a : a[i] <= d.used
    PROVE  Current(l, d, a)
<1>1. PICK t \in Nat, h \in Nat, m \in Nat, e \in Nat, B \in Nat :
        /\ t = c.tick /\ h = c.tokens /\ m = d.tokens /\ m <= h /\ h <= B /\ t <= now
        /\ e = Every[l] /\ B = Burst[l]
  BY RefillsGrow DEF Bucket, Covers
<1>2. ASSUME NEW i \in DOMAIN a
      PROVE  a[i] < d.tick + e /\ Len(a) - i + 1 + d.tokens <= B + Refills(l, d.tick - a[i])
  <2>1. PICK x \in Nat, n \in Nat : x = a[i] /\ n = Len(a) - i + 1
    BY <1>2, AdmissionTypes
  <2>2. x < t + e /\ n + h <= B + Refills(l, t - x)
    BY <1>1, <1>2, <2>1 DEF Covers
  <2>3. PICK f \in Nat : f = Refills(l, t - x)
    <3>1. x < t + Every[l] /\ t <= t
      BY <1>1, <2>2
    <3> QED
      BY <3>1, RefillsGrow
  <2>4. n + m <= B + f
    <3>1. n + h <= B + f
      BY <2>2, <2>3
    <3>2. m <= h
      BY <1>1
    <3> QED
      BY <3>1, <3>2
  <2> QED
    BY <1>1, <2>1, <2>2, <2>3, <2>4
<1>3. d.tokens <= B
  BY <1>1
<1> QED
  BY <1>1, <1>2, <1>3 DEF Current, Covers

\* One call of allow.
LEMMA TakeKeepsRates ==
    ASSUME RateInv, NEW l \in Limiters, NEW k, NEW ok \in BOOLEAN, Take(l, k, ok)
    PROVE  RateInv'
<1> DEFINE c == Refilled(l, Found(l, k))
           d == [c EXCEPT !.tokens = IF ok THEN @ - 1 ELSE @,
                          !.used = IF ok \/ l # "chat" THEN now ELSE @]
           a == admitted[l][k]
           s == IF ok /\ ~(l = "chat" /\ k \in doomed) THEN Append(a, now) ELSE a
<1>1. /\ ok = (c.tokens > 0) /\ now' = now /\ doomed' = doomed
      /\ bucket' = [bucket EXCEPT ![l][k] = d]
      /\ admitted' = [admitted EXCEPT ![l][k] = s]
  BY DEF Take
<1>2. RateShape
  BY DEF RateInv
<1>3. CASE k \notin Keys
  <2>1. bucket' = bucket /\ admitted' = admitted
    BY <1>1, <1>2, <1>3 DEF RateShape
  <2>2. RateShape'
    BY <1>1, <1>2, <2>1 DEF RateShape
  <2>3. ASSUME NEW m \in Limiters \ {"guest"}, NEW j \in Keys
        PROVE  Accounted(m, j)'
    <3>1. Accounted(m, j)
      BY <2>3 DEF RateInv
    <3> QED
      BY <1>1, <2>1, <3>1 DEF Accounted, Current, Covers, Within, Earned
  <2> QED
    BY <2>2, <2>3 DEF RateInv
<1>4. CASE k \in Keys
  <2> HIDE DEF c, d, s
  <2>1. /\ now \in Nat /\ a \in Seq(Nat) /\ bucket[l][k] \in Bucket
        /\ bucket'[l][k] = d /\ admitted'[l][k] = s
        /\ bucket' \in [Limiters -> [Keys -> {bucket[m][j] : m \in Limiters, j \in Keys} \cup {d}]]
        /\ admitted' \in [Limiters -> [Keys -> {admitted[m][j] : m \in Limiters, j \in Keys} \cup {s}]]
        /\ \A m \in Limiters, j \in Keys :
             \/ m = l /\ j = k
             \/ bucket'[m][j] = bucket[m][j] /\ admitted'[m][j] = admitted[m][j]
    BY <1>1, <1>2, <1>4 DEF RateShape
  <2>2. c \in Bucket /\ c.tokens <= Burst[l] /\ c.tick <= now
    <3> DEFINE b == Found(l, k)
    <3>1. b \in Bucket /\ b.tokens <= Burst[l] /\ b.tick <= now
      <4>1. CASE bucket[l][k].kept
        BY <1>2, <1>4, <2>1, <4>1 DEF Found, RateShape
      <4>2. CASE ~bucket[l][k].kept
        <5>1. Burst[l] \in Nat
          BY RefillsGrow
        <5> QED
          BY <2>1, <4>2, <5>1 DEF Found, Full, Bucket
      <4> QED
        BY <4>1, <4>2
    <3>2. Covers(l, b, <<>>) /\ <<>> \in Seq(Nat)
      BY <3>1 DEF Covers
    <3> HIDE DEF b
    <3>3. Refilled(l, b) \in Bucket /\ Covers(l, Refilled(l, b), <<>>)
      <4>1. now \in Nat
        BY <2>1
      <4> QED
        BY <3>1, <3>2, <4>1, RefilledCovers
    <3>4. c = Refilled(l, b)
      BY DEF b, c
    <3> QED
      BY <3>3, <3>4 DEF Covers
  <2>3. /\ d \in Bucket /\ d.tick = c.tick /\ d.tokens <= c.tokens /\ d.kept = c.kept
        /\ d.used = IF ok \/ l # "chat" THEN now ELSE c.used
        /\ d.tokens <= Burst[l]
    <3>1. PICK h \in Nat : h = c.tokens /\ h <= Burst[l] /\ (ok => h > 0)
      BY <1>1, <2>2 DEF Bucket
    <3>2. Burst[l] \in Nat
      BY RefillsGrow
    <3>3. PICK m \in Nat : m = (IF ok THEN h - 1 ELSE h) /\ m <= h /\ m <= Burst[l]
      BY <3>1, <3>2
    <3>4. PICK u \in Nat : u = (IF ok \/ l # "chat" THEN now ELSE c.used)
      BY <2>1, <2>2 DEF Bucket
    <3>5. d = [c EXCEPT !.tokens = m, !.used = u]
      BY <3>1, <3>3, <3>4 DEF d
    <3> QED
      BY <2>2, <3>1, <3>3, <3>4, <3>5 DEF Bucket
  <2>4. s \in Seq(Nat)
    BY <2>1 DEF s
  <2>5. RateShape'
    BY <1>1, <1>2, <2>1, <2>2, <2>3, <2>4 DEF RateShape
  <2>6. ASSUME l # "guest"
        PROVE  Accounted(l, k)'
    <3>1. /\ c.kept /\ now < c.tick + Every[l] /\ Covers(l, c, a) /\ c.used <= now
          /\ c.tokens = 0 => c.tick <= c.used
          /\ \A i \in DOMAIN a : a[i] <= c.used
      BY <1>4, <2>6, FoundCovers DEF RateInv, c
    <3>2. Within(l, a) /\ \A i \in DOMAIN a : a[i] <= now
      BY <1>4, <2>6 DEF RateInv, Accounted
    <3>3. CASE ok /\ ~(l = "chat" /\ k \in doomed)
      <4>1. d = [c EXCEPT !.tokens = @ - 1, !.used = now] /\ s = Append(a, now) /\ c.tokens > 0
        BY <1>1, <3>3 DEF d, s
      <4>2. /\ Current(l, d, s) /\ Within(l, s) /\ d.kept
            /\ \A i \in DOMAIN s : s[i] <= now
        <5> DEFINE g == [c EXCEPT !.tokens = @ - 1, !.used = now]
                   p == Append(a, now)
        <5>1. /\ Current(l, g, p) /\ Within(l, p) /\ g.kept = c.kept
              /\ \A i \in DOMAIN p : p[i] <= now
          <6>1. now \in Nat /\ a \in Seq(Nat) /\ c \in Bucket /\ c.tokens > 0
            BY <2>1, <2>2, <4>1
          <6> HIDE DEF a
          <6> QED
            BY <3>1, <3>2, <6>1, AdmissionCovers
        <5>2. d = g /\ s = p
          BY <4>1
        <5> HIDE DEF g, p
        <5> QED
          BY <3>1, <5>1, <5>2
      <4> QED
        BY <1>1, <2>1, <3>3, <4>2 DEF Accounted, Current, Covers, Within
    <3>4. CASE ~ok \/ (l = "chat" /\ k \in doomed)
      <4>1. s = a /\ d.kept
        BY <2>3, <3>1, <3>4 DEF s
      <4>2. d.tick <= d.used /\ d.used <= now /\ \A i \in DOMAIN a : a[i] <= d.used
        <5>1. CASE ok \/ l # "chat"
          BY <2>1, <2>2, <2>3, <3>2, <5>1
        <5>2. CASE ~(ok \/ l # "chat")
          <6>1. c.tokens = 0
            <7>1. PICK h \in Nat : h = c.tokens
              BY <2>2 DEF Bucket
            <7>2. ~(h > 0)
              BY <1>1, <5>2, <7>1
            <7> QED
              BY <7>1, <7>2
          <6> QED
            BY <2>3, <3>1, <5>2, <6>1
        <5> QED
          BY <5>1, <5>2
      <4>3. Current(l, d, a)
        BY <2>1, <2>2, <2>3, <3>1, <4>2, SpentCovers
      <4>4. l = "chat" /\ k \in doomed => Earned(l, a)
        BY <1>4, <2>6 DEF RateInv, Accounted
      <4> QED
        BY <1>1, <2>1, <3>2, <4>1, <4>3, <4>4 DEF Accounted, Current, Covers, Within, Earned
    <3> QED
      BY <3>3, <3>4
  <2>7. ASSUME NEW m \in Limiters \ {"guest"}, NEW j \in Keys, ~(m = l /\ j = k)
        PROVE  Accounted(m, j)'
    <3>1. bucket'[m][j] = bucket[m][j] /\ admitted'[m][j] = admitted[m][j] /\ Accounted(m, j)
      BY <2>1, <2>7 DEF RateInv
    <3> QED
      BY <1>1, <3>1 DEF Accounted, Current, Covers, Within, Earned
  <2> QED
    BY <2>5, <2>6, <2>7 DEF RateInv
<1> QED
  BY <1>3, <1>4

\* A step that leaves the limiters alone.
LEMMA RatesUnchanged ==
    ASSUME RateInv, UNCHANGED limits
    PROVE  RateInv'
<1>1. now' = now /\ bucket' = bucket /\ doomed' = doomed /\ admitted' = admitted
  BY DEF limits
<1>2. RateShape'
  BY <1>1 DEF RateInv, RateShape
<1>3. ASSUME NEW l \in Limiters \ {"guest"}, NEW k \in Keys
      PROVE  Accounted(l, k)'
  <2>1. Accounted(l, k)
    BY <1>3 DEF RateInv
  <2> QED
    BY <1>1, <2>1 DEF Accounted, Current, Covers, Within, Earned
<1> QED
  BY <1>2, <1>3 DEF RateInv

\* Time passes: what was earned stays earned.
LEMMA TickKeepsRates ==
    ASSUME RateInv, Tick
    PROVE  RateInv'
<1>1. /\ bucket' = bucket /\ doomed' = doomed /\ admitted' = admitted
      /\ now \in Nat /\ now' \in Nat /\ now <= now'
  BY DEF Tick, RateInv, RateShape
<1>2. RateShape'
  <2>1. ASSUME NEW l \in Limiters, NEW k \in Keys
        PROVE  bucket[l][k].tokens <= Burst[l] /\ bucket[l][k].tick <= now'
    <3>1. bucket[l][k] \in Bucket /\ bucket[l][k].tokens <= Burst[l] /\ bucket[l][k].tick <= now
      BY <2>1 DEF RateInv, RateShape
    <3>2. PICK t \in Nat : t = bucket[l][k].tick
      BY <3>1 DEF Bucket
    <3> QED
      BY <1>1, <3>1, <3>2
  <2> QED
    BY <1>1, <2>1 DEF RateInv, RateShape
<1>3. ASSUME NEW l \in Limiters \ {"guest"}, NEW k \in Keys
      PROVE  Accounted(l, k)'
  <2> DEFINE a == admitted[l][k]
             b == bucket[l][k]
  <2>1. /\ Accounted(l, k) /\ a \in Seq(Nat) /\ b \in Bucket
        /\ \A i \in DOMAIN a : a[i] \in Nat
    BY <1>3, AdmissionTypes DEF RateInv, RateShape
  <2>2. \A i \in DOMAIN a : a[i] <= now'
    <3>1. \A i \in DOMAIN a : a[i] \in Nat /\ a[i] <= now
      BY <2>1 DEF Accounted
    <3> QED
      BY <1>1, <3>1
  <2>3. b.kept => Current(l, b, a)'
    <3> SUFFICES ASSUME b.kept PROVE Current(l, b, a)'
      OBVIOUS
    <3>1. Current(l, b, a)
      BY <2>1 DEF Accounted
    <3>2. PICK t \in Nat, u \in Nat : t = b.tick /\ u = b.used /\ t <= now /\ u <= now
      BY <2>1, <3>1 DEF Bucket, Current, Covers
    <3>3. t <= now' /\ u <= now'
      BY <1>1, <3>2
    <3> QED
      BY <1>1, <3>1, <3>2, <3>3 DEF Current, Covers
  <2>4. ASSUME Earned(l, a) PROVE Earned(l, a)'
    <3>1. ASSUME NEW i \in DOMAIN a
          PROVE  Len(a) - i + 1 <= Refills(l, now' - a[i])
      <4>1. PICK x \in Nat, n \in Nat : x = a[i] /\ n = Len(a) - i + 1 /\ x <= now
        BY <2>1, <3>1, AdmissionTypes DEF Accounted
      <4>2. n <= Refills(l, now - x)
        BY <2>4, <3>1, <4>1 DEF Earned
      <4>3. x < now + Every[l]
        <5>1. Every[l] \in Nat \ {0}
          BY RefillsGrow
        <5> QED
          BY <1>1, <4>1, <5>1
      <4>4. /\ Refills(l, now - x) \in Nat /\ Refills(l, now' - x) \in Nat
            /\ Refills(l, now - x) <= Refills(l, now' - x)
        BY <1>1, <4>3, RefillsGrow
      <4> QED
        BY <4>1, <4>2, <4>4
    <3> QED
      BY <1>1, <3>1 DEF Earned
  <2>5. Within(l, a)'
    BY <1>1, <2>1 DEF Accounted, Within
  <2>6. ~b.kept \/ (l = "chat" /\ k \in doomed) => Earned(l, a)
    BY <2>1 DEF Accounted
  <2> QED
    BY <1>1, <2>2, <2>3, <2>4, <2>5, <2>6 DEF Accounted
<1> QED
  BY <1>2, <1>3 DEF RateInv

\* Buckets whose tokens are all back are removed.
LEMMA EvictKeepsRates ==
    ASSUME RateInv, NEW l \in Limiters, NEW ks, Evict(l, ks), UNCHANGED <<now, admitted>>,
           doomed' = doomed \/ doomed' = {},
           l # "guest" => \A k \in Keys \cap ks : Earned(l, admitted[l][k])
    PROVE  RateInv'
<1>1. /\ now' = now /\ admitted' = admitted
      /\ bucket' = [bucket EXCEPT ![l] = [k \in Keys |-> IF k \in ks THEN NoBucket ELSE bucket[l][k]]]
  BY DEF Evict
<1>2. /\ NoBucket \in Bucket /\ NoBucket.tokens = 0 /\ NoBucket.tick = 0 /\ ~NoBucket.kept
      /\ \A m \in Limiters : Burst[m] \in Nat
  BY RefillsGrow DEF NoBucket, Bucket
<1>3. \A m \in Limiters, j \in Keys :
        \/ m = l /\ j \in ks /\ bucket'[m][j] = NoBucket
        \/ bucket'[m][j] = bucket[m][j]
  BY <1>1 DEF RateInv, RateShape
<1>4. RateShape'
  <2>1. bucket' \in [Limiters -> [Keys -> Bucket]]
    BY <1>1, <1>2 DEF RateInv, RateShape
  <2>2. 0 <= now
    BY DEF RateInv, RateShape
  <2>3. \A m \in Limiters : 0 <= Burst[m]
    BY <1>2
  <2>4. \A m \in Limiters, j \in Keys : bucket'[m][j].tokens <= Burst[m] /\ bucket'[m][j].tick <= now
    BY <1>2, <1>3, <2>2, <2>3 DEF RateInv, RateShape
  <2> QED
    BY <1>1, <2>1, <2>4 DEF RateInv, RateShape
<1>5. ASSUME NEW m \in Limiters \ {"guest"}, NEW j \in Keys
      PROVE  Accounted(m, j)'
  <2>1. Accounted(m, j)
    BY <1>5 DEF RateInv
  <2>2. CASE bucket'[m][j] = bucket[m][j]
    BY <1>1, <2>1, <2>2 DEF Accounted, Current, Covers, Within, Earned
  <2>3. CASE m = l /\ j \in ks /\ bucket'[m][j] = NoBucket
    BY <1>1, <1>2, <2>1, <2>3 DEF Accounted, Within, Earned
  <2> QED
    BY <1>3, <1>5, <2>2, <2>3
<1> QED
  BY <1>4, <1>5 DEF RateInv

\* The tickers of the limiters and the bot's sweep.
LEMMA SweepKeepsRates ==
    ASSUME RateInv, Sweep
    PROVE  RateInv'
<1>1. ASSUME NEW l \in {"user", "ip", "chat"}, NEW k \in Keys, k \in Stale(l)
      PROVE  Earned(l, admitted[l][k])
  <2>1. /\ l \in Limiters \ {"guest"} /\ now \in Nat /\ bucket[l][k] \in Bucket
        /\ admitted[l][k] \in Seq(Nat) /\ Accounted(l, k)
        /\ bucket[l][k].kept /\ bucket[l][k].used + Idle[l] < now
    BY <1>1 DEF RateInv, RateShape, Limiters, Stale
  <2> QED
    BY <2>1, StaleEarned DEF Accounted
<1>2. {"user", "ip", "guest", "chat"} \subseteq Limiters
  BY DEF Limiters
<1>3. CASE cleanup
  BY <1>1, <1>2, <1>3, EvictKeepsRates DEF cleanup
<1>4. ASSUME NEW l \in {"ip", "guest"}, ipCleanup(l) PROVE RateInv'
  BY <1>1, <1>2, <1>4, EvictKeepsRates DEF ipCleanup
<1>5. CASE sweepStaleMaps
  <2>1. /\ doomed' = Stale("chat") /\ now' = now /\ bucket' = bucket /\ admitted' = admitted
    BY <1>5 DEF sweepStaleMaps
  <2>2. RateShape'
    BY <2>1 DEF RateInv, RateShape
  <2>3. ASSUME NEW l \in Limiters \ {"guest"}, NEW k \in Keys
        PROVE  Accounted(l, k)'
    <3>1. Accounted(l, k)
      BY <2>3 DEF RateInv
    <3>2. l = "chat" /\ k \in doomed' => Earned(l, admitted[l][k])
      BY <1>1, <2>1
    <3> QED
      BY <2>1, <3>1, <3>2 DEF Accounted, Current, Covers, Within, Earned
  <2> QED
    BY <2>2, <2>3 DEF RateInv
<1>6. CASE CompareAndDelete
  <2>1. \A k \in Keys \cap doomed : Earned("chat", admitted["chat"][k])
    BY <1>2 DEF RateInv, Accounted
  <2> QED
    BY <1>2, <1>6, <2>1, EvictKeepsRates DEF CompareAndDelete
<1> QED
  BY <1>3, <1>4, <1>5, <1>6 DEF Sweep

\* Every limiter a request passes is one call of allow, or none.
LEMMA RequestsKeepRates ==
    ASSUME RateInv, NEW r \in Requests, Chain(r) \/ Upstream(r)
    PROVE  RateInv'
<1>1. {"user", "ip", "guest", "global", "chat"} = Limiters
  BY DEF Limiters
<1>2. ASSUME NEW l \in {"ip", "guest"}, NEW k, NEW ok \in BOOLEAN, ipAllow(l, k, ok) PROVE RateInv'
  <2>1. UNCHANGED limits \/ Take(l, k, ok)
    BY <1>2 DEF ipAllow
  <2> QED
    BY <1>1, <2>1, RatesUnchanged, TakeKeepsRates
<1>3. CASE withIPRateLimit(r) \/ withGuestRateLimit(r)
  BY <1>2, <1>3 DEF withIPRateLimit, withGuestRateLimit
<1>4. CASE withRateLimit(r)
  <2>1. UNCHANGED limits \/ \E ok \in BOOLEAN : Take("user", req[r].who, ok)
    BY <1>4 DEF withRateLimit, rateLimiterAllow
  <2> QED
    BY <1>1, <2>1, RatesUnchanged, TakeKeepsRates
<1>5. CASE rateLimited(r)
  <2>1. PICK limited \in BOOLEAN : Take("chat", Chat, ~limited)
    BY <1>5 DEF rateLimited, isRateLimited
  <2>2. Take("chat", Chat, TRUE) \/ Take("chat", Chat, FALSE)
    <3>1. CASE limited = TRUE
      BY <2>1, <3>1
    <3>2. CASE limited = FALSE
      BY <2>1, <3>2
    <3> QED
      BY <3>1, <3>2
  <2> QED
    BY <1>1, <2>2, TakeKeepsRates
<1>6. CASE instantSearch(r)
  <2>1. PICK ok \in BOOLEAN : Take("global", TheBucket, ok)
    BY <1>6 DEF instantSearch, globalAllow
  <2> QED
    BY <1>1, <2>1, TakeKeepsRates
<1>7. CASE AcquireSlot(r) \/ FetchInstant(r) \/ Sweeping(r) \/ refreshListings(r) \/ FetchRefresh(r)
  BY <1>7, RatesUnchanged DEF AcquireSlot, FetchInstant, refreshListings, FetchRefresh,
     Sweeping, sweepRefreshCooldowns, JudgeEntry, EvictEntry
<1> QED
  BY <1>3, <1>4, <1>5, <1>6, <1>7 DEF Chain, Upstream

\* At the start only the guests' shared bucket exists, and it is full.
LEMMA RateInit == Init => RateInv
<1> SUFFICES ASSUME Init PROVE RateInv
  OBVIOUS
<1>0. now = 0
  BY DEF Init, LimitsInit
<1>1. /\ now = 0 /\ \A l \in Limiters : Burst[l] \in Nat /\ Every[l] \in Nat \ {0}
      /\ bucket = [l \in Limiters |-> [k \in Keys |->
                     IF <<l, k>> = <<"global", TheBucket>>
                     THEN [NoBucket EXCEPT !.tokens = Burst[l], !.kept = TRUE] ELSE NoBucket]]
      /\ admitted = [l \in Limiters |-> [k \in Keys |-> <<>>]]
  BY RefillsGrow DEF Init, LimitsInit
<1>2. ASSUME NEW l \in Limiters, NEW k \in Keys
      PROVE  /\ \E h \in Nat, f \in BOOLEAN :
                  h <= Burst[l] /\ bucket[l][k] = [tokens |-> h, tick |-> 0, used |-> 0, kept |-> f]
             /\ admitted[l][k] = <<>>
  <2>1. PICK h \in Nat : h = Burst[l]
    BY <1>1
  <2>2. \/ bucket[l][k] = [NoBucket EXCEPT !.tokens = Burst[l], !.kept = TRUE]
        \/ bucket[l][k] = NoBucket
    BY <1>1
  <2>3. \/ bucket[l][k] = [tokens |-> h, tick |-> 0, used |-> 0, kept |-> TRUE]
        \/ bucket[l][k] = [tokens |-> 0, tick |-> 0, used |-> 0, kept |-> FALSE]
    BY <2>1, <2>2 DEF NoBucket
  <2>4. 0 <= h /\ h <= h /\ 0 \in Nat
    BY <2>1
  <2> QED
    BY <1>1, <2>1, <2>3, <2>4
<1>3. ASSUME NEW l \in Limiters, NEW k \in Keys
      PROVE  /\ bucket[l][k] \in Bucket /\ bucket[l][k].tokens <= Burst[l]
             /\ bucket[l][k].tick = 0 /\ bucket[l][k].used = 0
             /\ admitted[l][k] \in Seq(Nat) /\ DOMAIN admitted[l][k] = {}
  <2>1. PICK h \in Nat, f \in BOOLEAN :
          h <= Burst[l] /\ bucket[l][k] = [tokens |-> h, tick |-> 0, used |-> 0, kept |-> f]
    BY <1>2, <1>3
  <2>2. bucket[l][k] \in Bucket
    BY <2>1 DEF Bucket
  <2>3. /\ bucket[l][k].tokens = h /\ bucket[l][k].tick = 0 /\ bucket[l][k].used = 0
    BY <2>1
  <2>4. bucket[l][k].tokens <= Burst[l]
    BY <2>1, <2>3
  <2>5. admitted[l][k] = <<>>
    BY <1>2, <1>3
  <2>6. admitted[l][k] \in Seq(Nat) /\ DOMAIN admitted[l][k] = {}
    BY <2>5
  <2> QED
    BY <2>2, <2>3, <2>4, <2>6
<1>4. RateShape
  <2>1. bucket = [l \in Limiters |-> [k \in Keys |-> bucket[l][k]]]
    BY <1>1
  <2>2. admitted = [l \in Limiters |-> [k \in Keys |-> admitted[l][k]]]
    BY <1>1
  <2>3. bucket \in [Limiters -> [Keys -> Bucket]]
    BY <1>3, <2>1
  <2>4. admitted \in [Limiters -> [Keys -> Seq(Nat)]]
    BY <1>3, <2>2
  <2>5. ASSUME NEW l \in Limiters, NEW k \in Keys
        PROVE  bucket[l][k].tokens <= Burst[l] /\ bucket[l][k].tick <= now
    <3>1. bucket[l][k].tokens <= Burst[l] /\ bucket[l][k].tick = 0
      BY <1>3, <2>5
    <3>2. 0 <= now
      BY <1>0
    <3> QED
      BY <3>1, <3>2
  <2> QED
    BY <1>1, <2>3, <2>4, <2>5 DEF RateShape
<1>5. ASSUME NEW l \in Limiters \ {"guest"}, NEW k \in Keys
      PROVE  Accounted(l, k)
  <2> DEFINE a == admitted[l][k]
             b == bucket[l][k]
  <2>1. /\ DOMAIN a = {} /\ b.tokens <= Burst[l]
        /\ b.tick <= now /\ b.tick <= b.used /\ b.used <= now
    <3>1. DOMAIN a = {} /\ b.tokens <= Burst[l] /\ b.tick = 0 /\ b.used = 0
      BY <1>3, <1>5
    <3>2. 0 <= now /\ 0 <= 0
      BY <1>0
    <3> QED
      BY <3>1, <3>2
  <2> HIDE DEF a, b
  <2>2. Earned(l, a) /\ Within(l, a) /\ Current(l, b, a)
    BY <2>1 DEF Earned, Within, Current, Covers
  <2> QED
    BY <2>1, <2>2 DEF Accounted, a, b
<1> QED
  BY <1>4, <1>5 DEF RateInv

\* Every step keeps the accounts of the buckets.
LEMMA RateStep == RateInv /\ [Next]_vars => RateInv'
<1> SUFFICES ASSUME RateInv, [Next]_vars PROVE RateInv'
  OBVIOUS
<1>1. \/ \E r \in Requests : Chain(r) \/ Upstream(r)
      \/ UNCHANGED limits
      \/ Tick
      \/ Sweep
  BY DEF Next, vars, StoreFails
<1> QED
  BY <1>1, RequestsKeepRates, RatesUnchanged, TickKeepsRates, SweepKeepsRates

\* In any window a user, an address, a chat and the guests together are let
\* through at most their burst and the window's refills (ratelimit.go), and
\* two refreshes of a search are a cooldown apart unless they overlap or a sweep
\* erased the entry between them (listings.go): no other order of requests,
\* refills and sweeps gets around either.
THEOREM LimitsAreHeld == Spec => []LimitsHeld
<1>1. Init => RateInv
  BY RateInit
<1>2. RateInv /\ [Next]_vars => RateInv'
  BY RateStep
<1>3. RateInv => RateHeld
  BY DEF RateInv, Accounted, Within, Refills, RateHeld
<1>4. Spec => []RefreshSpaced
  BY RefreshesSpaced
<1>5. RateHeld /\ RefreshSpaced => LimitsHeld
  BY DEF LimitsHeld
<1> QED
  BY <1>1, <1>2, <1>3, <1>4, <1>5, PTL DEF Spec

-----------------------------------------------------------------------------
(* Induction *)

\* A set of naturals has a least element.
LEMMA LeastExists ==
    ASSUME NEW T \in SUBSET Nat, T # {}
    PROVE  \E x \in T : \A y \in T : x <= y
<1> DEFINE R == OpToRel(<, Nat)
<1>1. IsWellFoundedOn(R, Nat)
  BY NatLessThanWellFounded
<1>2. \A x, y \in Nat : y < x => <<y, x>> \in R
  BY DEF OpToRel
<1> HIDE DEF R
<1>3. PICK x \in T : \A y \in T : ~ (<<y, x>> \in R)
  BY <1>1, WFMin
<1>4. \A y \in T : ~(y < x)
  BY <1>2, <1>3
<1> QED
  BY <1>4

\* A set that holds 0, and with every number its successor, holds them all.
LEMMA SetInduction ==
    ASSUME NEW S, 0 \in S, \A n \in Nat : n \in S => n + 1 \in S
    PROVE  Nat \subseteq S
<1> SUFFICES ASSUME Nat \ S # {} PROVE FALSE
  OBVIOUS
<1>1. PICK x \in Nat \ S : \A y \in Nat \ S : x <= y
  BY LeastExists
<1>2. x # 0 /\ x - 1 \in Nat /\ x - 1 + 1 = x
  OBVIOUS
<1>3. x - 1 \in S
  BY <1>1, <1>2
<1> QED
  BY <1>2, <1>3

-----------------------------------------------------------------------------
(* Kept *)

\* f holds what is kept of each of the first m prefixes of s.
KeptTo(s, T, f, m) ==
    f = [n \in 0 .. m |-> IF n = 0 THEN << >>
                          ELSE IF s[n] \in T THEN Append(f[n - 1], s[n]) ELSE f[n - 1]]

\* The recursion of Kept has a solution.
LEMMA KeptExists ==
    ASSUME NEW X, NEW s \in Seq(X), NEW T
    PROVE  \E f : KeptTo(s, T, f, Len(s)) /\ Kept(s, T) = f[Len(s)]
<1> DEFINE S == {m \in Nat : \E f : KeptTo(s, T, f, m)}
<1>1. 0 \in S
  <2>1. KeptTo(s, T, [n \in 0 .. 0 |-> << >>], 0)
    BY DEF KeptTo
  <2> QED
    BY <2>1
<1>2. ASSUME NEW m \in Nat, m \in S PROVE m + 1 \in S
  <2>1. PICK f : KeptTo(s, T, f, m)
    BY <1>2
  <2> DEFINE step(n, before) == IF s[n] \in T THEN Append(before, s[n]) ELSE before
             g == [n \in 0 .. m + 1 |-> IF n <= m THEN f[n] ELSE step(n, f[n - 1])]
  <2>2. \A n \in 0 .. m : f[n] = IF n = 0 THEN << >> ELSE step(n, f[n - 1])
    BY <2>1 DEF KeptTo
  <2>3. \A n \in 0 .. m : g[n] = f[n]
    OBVIOUS
  <2>4. g[m + 1] = step(m + 1, f[m])
    OBVIOUS
  <2>5. g = [n \in 0 .. m + 1 |-> g[n]]
    OBVIOUS
  <2> HIDE DEF g
  <2>6. \A n \in 0 .. m + 1 : g[n] = IF n = 0 THEN << >> ELSE step(n, g[n - 1])
    <3> TAKE n \in 0 .. m + 1
    <3>1. CASE n = m + 1
      <4>1. n # 0 /\ n - 1 = m /\ m \in 0 .. m
        BY <3>1
      <4> QED
        BY <2>3, <2>4, <3>1, <4>1
    <3>2. CASE n # m + 1
      <4>1. n \in 0 .. m /\ (n # 0 => n - 1 \in 0 .. m)
        BY <3>2
      <4> HIDE DEF step
      <4> QED
        BY <2>2, <2>3, <4>1
    <3> QED
      BY <3>1, <3>2
  <2>7. KeptTo(s, T, g, m + 1)
    BY <2>5, <2>6 DEF KeptTo
  <2> QED
    BY <2>7
<1>3. Len(s) \in S
  <2> HIDE DEF S
  <2> QED
    BY <1>1, <1>2, SetInduction, LenProperties
<1> DEFINE h == CHOOSE f : KeptTo(s, T, f, Len(s))
<1>4. KeptTo(s, T, h, Len(s))
  BY <1>3
<1>5. Kept(s, T) = h[Len(s)]
  BY DEF Kept, KeptTo
<1> QED
  BY <1>4, <1>5

\* Kept holds the entries of s that are in T.
LEMMA KeptEntries ==
    ASSUME NEW X, NEW s \in Seq(X), NEW T
    PROVE  /\ Kept(s, T) \in Seq(X) /\ Len(Kept(s, T)) <= Len(s)
           /\ Listed(Kept(s, T)) = Listed(s) \cap T
<1> DEFINE l == Len(s)
<1>0. l \in Nat /\ DOMAIN s = 1 .. l /\ \A n \in 1 .. l : s[n] \in X
  BY LenProperties, ElementOfSeq
<1>1. PICK f : KeptTo(s, T, f, l) /\ Kept(s, T) = f[l]
  BY KeptExists
<1> HIDE DEF l
<1> DEFINE Good(n) == /\ f[n] \in Seq(X) /\ Len(f[n]) <= n
                      /\ Listed(f[n]) = {s[i] : i \in 1 .. n} \cap T
           S == {n \in Nat : n <= l => Good(n)}
<1>2. f[0] = << >> /\ \A n \in 1 .. l : f[n] = IF s[n] \in T THEN Append(f[n - 1], s[n]) ELSE f[n - 1]
  <2>1. /\ \A n \in 1 .. l : n \in 0 .. l /\ n # 0
        /\ 0 \in 0 .. l
    BY <1>0
  <2> QED
    BY <1>1, <2>1 DEF KeptTo
<1>3. 0 \in S
  <2>1. Len(<< >>) = 0 /\ << >> \in Seq(X) /\ 1 .. 0 = {} /\ 0 \in Nat /\ DOMAIN << >> = {}
    OBVIOUS
  <2>2. Listed(<< >>) = {} /\ {s[i] : i \in 1 .. 0} = {}
    BY <2>1 DEF Listed
  <2>3. f[0] = << >> /\ 0 <= 0
    BY <1>2
  <2>4. Good(0)
    BY <2>1, <2>2, <2>3
  <2> HIDE DEF Good
  <2> QED
    BY <2>4
<1>4. ASSUME NEW n \in Nat, n \in S PROVE n + 1 \in S
  <2> SUFFICES ASSUME n + 1 <= l PROVE Good(n + 1)
    OBVIOUS
  <2>1. n + 1 \in 1 .. l /\ (n + 1) - 1 = n /\ n <= l
    BY <1>0
  <2>2. Good(n)
    BY <1>4, <2>1
  <2>3. PICK k \in Nat : k = Len(f[n]) /\ k <= n /\ DOMAIN f[n] = 1 .. k
    BY <2>2, LenProperties
  <2> DEFINE p == f[n]
             q == f[n + 1]
             x == s[n + 1]
  <2>4. q = (IF x \in T THEN Append(p, x) ELSE p) /\ x \in X /\ p \in Seq(X)
    BY <1>0, <1>2, <2>1, <2>2
  <2>5. {s[i] : i \in 1 .. n + 1} = {s[i] : i \in 1 .. n} \cup {x}
    BY <2>1
  <2> HIDE DEF p, q
  <2>6. CASE x \notin T
    <3>1. q = p
      BY <2>4, <2>6
    <3> QED
      BY <2>2, <2>3, <2>5, <2>6, <3>1 DEF p, q
  <2>7. CASE x \in T
    <3>1. /\ q \in Seq(X) /\ Len(q) = k + 1 /\ q[k + 1] = x
          /\ \A i \in 1 .. k : q[i] = p[i]
      BY <2>3, <2>4, <2>7 DEF p
    <3>2. Listed(q) = Listed(p) \cup {x}
      <4>0. DOMAIN q = 1 .. k + 1
        BY <3>1, LenProperties
      <4>1. Listed(p) = {p[i] : i \in 1 .. k} /\ Listed(q) = {q[i] : i \in 1 .. k + 1}
        BY <2>3, <4>0 DEF Listed, p
      <4>2. \A i \in 1 .. k + 1 : i \in 1 .. k \/ i = k + 1
        OBVIOUS
      <4>3. \A i \in 1 .. k : i \in 1 .. k + 1
        OBVIOUS
      <4>4. k + 1 \in 1 .. k + 1
        OBVIOUS
      <4> QED
        BY <3>1, <4>1, <4>2, <4>3, <4>4
    <3> QED
      BY <2>2, <2>3, <2>5, <2>7, <3>1, <3>2 DEF p, q
  <2> QED
    BY <2>6, <2>7
<1>5. l \in S
  <2> HIDE DEF S
  <2> QED
    BY <1>0, <1>3, <1>4, SetInduction
<1>6. Good(l)
  BY <1>0, <1>5
<1>7. Listed(s) = {s[i] : i \in 1 .. l}
  BY <1>0 DEF Listed
<1> QED
  BY <1>1, <1>6, <1>7 DEF l

-----------------------------------------------------------------------------
(* Pages *)

\* A page holds the entries after its offset, PageSize of them at most.
LEMMA PageEntries ==
    ASSUME NEW X, NEW l \in Seq(X), NEW o \in Nat
    PROVE  /\ Page(l, o) \in Seq(X)
           /\ Listed(Page(l, o)) = {l[i] : i \in {j \in 1 .. Len(l) : o < j /\ j <= o + PageSize}}
<1>1. PageSize \in Nat \ {0}
  BY ListConstants
<1>2. PICK n \in Nat : n = Len(l) /\ \A i \in 1 .. n : l[i] \in X
  BY LenProperties, ElementOfSeq
<1>3. PICK last \in Nat : /\ Page(l, o) = SubSeq(l, o + 1, last)
                          /\ last <= n /\ last <= o + PageSize
                          /\ last = n \/ last = o + PageSize
  BY <1>1, <1>2 DEF Page
<1>4. PICK q : q = SubSeq(l, o + 1, last)
  OBVIOUS
<1>5. /\ q \in Seq(X) /\ Len(q) = (IF o + 1 <= last THEN last - (o + 1) + 1 ELSE 0)
      /\ \A i \in 1 .. last - (o + 1) + 1 : q[i] = l[o + 1 + i - 1]
  <2>1. \A i \in o + 1 .. last : l[i] \in X
    BY <1>2, <1>3
  <2> QED
    BY <1>4, <2>1, SubSeqProperties
<1>6. DOMAIN q = 1 .. last - o /\ \A i \in 1 .. last - o : q[i] = l[o + i]
  <2>1. DOMAIN q = 1 .. Len(q)
    BY <1>5, LenProperties
  <2>2. 1 .. Len(q) = 1 .. last - o
    BY <1>5
  <2>3. last - (o + 1) + 1 = last - o /\ \A i \in 1 .. last - o : o + 1 + i - 1 = o + i
    OBVIOUS
  <2> QED
    BY <1>5, <2>1, <2>2, <2>3
<1> DEFINE I == {j \in 1 .. n : o < j /\ j <= o + PageSize}
<1>7. \A i \in 1 .. last - o : o + i \in I
  BY <1>1, <1>3
<1>8. \A j \in I : j - o \in 1 .. last - o /\ o + (j - o) = j
  BY <1>1, <1>3
<1> HIDE DEF I
<1>9. Listed(q) = {l[i] : i \in I}
  <2> DEFINE K == 1 .. last - o
  <2>1. Listed(q) = {q[i] : i \in K}
    BY <1>6 DEF Listed
  <2>2. \A i \in K : q[i] = l[o + i] /\ o + i \in I
    BY <1>6, <1>7
  <2>3. \A j \in I : \E i \in K : q[i] = l[j]
    <3> TAKE j \in I
    <3>1. j - o \in K /\ o + (j - o) = j
      BY <1>8
    <3> QED
      BY <2>2, <3>1
  <2> HIDE DEF K
  <2> QED
    BY <2>1, <2>2, <2>3
<1> QED
  BY <1>2, <1>3, <1>4, <1>5, <1>9 DEF I

\* Entry i is on page (i - 1) \div PageSize, which the total promises.
LEMMA PageOf ==
    ASSUME NEW n \in Nat, NEW i \in 1 .. n
    PROVE  \E p \in 0 .. TotalPages(n) - 1 : p * PageSize < i /\ i <= p * PageSize + PageSize
<1>1. PICK e \in Nat \ {0} : e = PageSize
  BY ListConstants
<1>2. PICK p \in Nat : p = (i - 1) \div e /\ p * e <= i - 1 /\ i - 1 < p * e + e /\ p * e \in Nat
  <2>1. i - 1 \in Nat
    OBVIOUS
  <2> QED
    BY <2>1, Division
<1>3. p <= (n - 1) \div e /\ (n - 1) \div e \in Nat
  <2>1. i - 1 \in Nat /\ n - 1 \in Nat /\ i - 1 <= n - 1
    OBVIOUS
  <2> QED
    BY <1>2, <2>1, Division
<1>4. (n + e - 1) \div e = (n - 1) \div e + 1
  <2>1. \A m \in Nat : (m + 1 * e) \div e = m \div e + 1
    BY Division
  <2>2. n - 1 \in Nat /\ n + e - 1 = (n - 1) + 1 * e
    OBVIOUS
  <2> QED
    BY <2>1, <2>2
<1>5. TotalPages(n) - 1 = (n - 1) \div e
  BY <1>1, <1>3, <1>4 DEF TotalPages
<1>6. p \in 0 .. TotalPages(n) - 1
  BY <1>3, <1>5
<1>7. p * e < i /\ i <= p * e + e
  <2>1. PICK m \in Nat : m = p * e
    BY <1>2
  <2> QED
    BY <1>2, <2>1
<1> QED
  BY <1>1, <1>6, <1>7

\* A page the total promises has an offset.
LEMMA PageOffset ==
    ASSUME NEW n \in Nat, NEW p \in 0 .. TotalPages(n) - 1
    PROVE  p \in Nat /\ p * PageSize \in Nat /\ InPages(p, n) /\ parsePagination(p * PageSize) = p * PageSize
<1>1. PageSize \in Nat \ {0} /\ n + PageSize - 1 \in Nat
  BY ListConstants
<1>2. TotalPages(n) \in Nat /\ \A m \in Nat : m * PageSize \in Nat
  BY <1>1, Division DEF TotalPages
<1>3. p \in Nat /\ 0 <= p /\ p < TotalPages(n)
  BY <1>2
<1>4. PICK o \in Nat : o = p * PageSize
  BY <1>2, <1>3
<1>5. parsePagination(o) = o
  BY DEF parsePagination
<1> QED
  BY <1>3, <1>4, <1>5 DEF InPages

\* The pages a total promises hold the whole of a list that is no longer.
LEMMA PagesCover ==
    ASSUME NEW X, NEW l \in Seq(X), NEW n \in Nat, Len(l) <= n
    PROVE  UNION {Listed(Page(l, p * PageSize)) : p \in 0 .. TotalPages(n) - 1} = Listed(l)
<1> DEFINE P == 0 .. TotalPages(n) - 1
           On(p) == {j \in 1 .. Len(l) : p * PageSize < j /\ j <= p * PageSize + PageSize}
<1>1. \A p \in P : Listed(Page(l, p * PageSize)) = {l[i] : i \in On(p)}
  <2> TAKE p \in P
  <2>1. p * PageSize \in Nat
    BY PageOffset
  <2> QED
    BY <2>1, PageEntries
<1>2. \A i \in 1 .. Len(l) : \E p \in P : i \in On(p)
  <2> TAKE i \in 1 .. Len(l)
  <2>1. i \in 1 .. n
    BY LenProperties
  <2> QED
    BY <2>1, PageOf
<1>3. DOMAIN l = 1 .. Len(l)
  BY LenProperties
<1>4. \A p \in P : On(p) \subseteq 1 .. Len(l)
  OBVIOUS
<1> HIDE DEF P, On
<1>5. UNION {{l[i] : i \in On(p)} : p \in P} = {l[i] : i \in 1 .. Len(l)}
  BY <1>2, <1>4
<1>6. UNION {Listed(Page(l, p * PageSize)) : p \in P} = UNION {{l[i] : i \in On(p)} : p \in P}
  BY <1>1
<1> QED
  BY <1>3, <1>5, <1>6 DEF Listed, P

\* A list read backwards has the same entries.
LEMMA ReversedEntries ==
    ASSUME NEW X, NEW l \in Seq(X)
    PROVE  Reversed(l) \in Seq(X) /\ Len(Reversed(l)) = Len(l) /\ Listed(Reversed(l)) = Listed(l)
<1>1. PICK n \in Nat : n = Len(l) /\ DOMAIN l = 1 .. n /\ \A i \in 1 .. n : l[i] \in X
  BY LenProperties, ElementOfSeq
<1>2. Reversed(l) = [i \in 1 .. n |-> l[n + 1 - i]] /\ \A i \in 1 .. n : n + 1 - i \in 1 .. n
  BY <1>1 DEF Reversed
<1>3. PICK q : q = Reversed(l)
  OBVIOUS
<1>4. DOMAIN q = 1 .. n /\ q = [i \in 1 .. n |-> q[i]] /\ \A i \in 1 .. n : q[i] = l[n + 1 - i] /\ q[i] \in X
  BY <1>1, <1>2, <1>3
<1>5. q \in Seq(X)
  BY <1>4, IsASeq
<1>6. Len(q) = n
  BY <1>4, <1>5, LenProperties
<1>7. \A i \in 1 .. n : \E j \in 1 .. n : q[j] = l[i]
  <2> TAKE i \in 1 .. n
  <2>1. n + 1 - i \in 1 .. n /\ n + 1 - (n + 1 - i) = i
    OBVIOUS
  <2> QED
    BY <1>4, <2>1
<1>8. Listed(q) = Listed(l)
  <2> DEFINE K == 1 .. n
  <2>1. Listed(q) = {q[i] : i \in K} /\ Listed(l) = {l[i] : i \in K}
    BY <1>1, <1>4 DEF Listed
  <2>2. \A i \in K : \E j \in K : q[i] = l[j]
    BY <1>2, <1>4
  <2>3. \A i \in K : \E j \in K : q[j] = l[i]
    BY <1>7
  <2> HIDE DEF K
  <2> QED
    BY <2>1, <2>2, <2>3
<1> QED
  BY <1>1, <1>3, <1>5, <1>6, <1>8

\* SetToSeq lists every element of a finite set.
LEMMA SetToSeqLists ==
    ASSUME NEW S, IsFiniteSet(S)
    PROVE  SetToSeq(S) \in Seq(S) /\ Listed(SetToSeq(S)) = S
<1>1. PICK n \in Nat : n = Cardinality(S) /\ IsFiniteSet(1 .. n) /\ Cardinality(1 .. n) = n
  <2>1. Cardinality(S) \in Nat
    BY FS_CardinalityType
  <2> QED
    BY <2>1, FS_Interval
<1>2. \E f \in [1 .. n -> S] : IsInjective(f)
  <2>1. ExistsBijection(1 .. n, S)
    BY <1>1, FS_SameCardinalityBij
  <2> QED
    BY <2>1 DEF ExistsBijection, Bijection, Injection
<1>3. PICK f \in [1 .. n -> S] : f = SetToSeq(S) /\ IsInjective(f)
  BY <1>1, <1>2 DEF SetToSeq
<1>4. f \in Injection(1 .. n, S)
  BY <1>3 DEF Injection
<1>5. f \in Surjection(1 .. n, S)
  BY <1>1, <1>4, FS_Injection
<1>6. Listed(f) = S
  BY <1>5 DEF Listed, Surjection
<1> QED
  BY <1>3, <1>6

\* The batches of a page's tokens together ask for all of them: what is
\* flagged on a page is what is marked of it.
LEMMA AmongPage ==
    ASSUME NEW page, NEW marked, IsFiniteSet(Listed(page))
    PROVE  Among(page, marked) = Listed(page) \cap marked
<1> DEFINE S == Listed(page)
<1>1. PICK l \in Seq(S) : l = SetToSeq(S) /\ Listed(l) = S
  BY SetToSeqLists
<1>2. PICK n \in Nat : n = Len(l) /\ DOMAIN l = 1 .. n /\ \A i \in 1 .. n : l[i] \in S
  BY <1>1, LenProperties, ElementOfSeq
<1>3. PICK e \in Nat \ {0} : e = BatchSize
  BY ListConstants
<1> DEFINE starts == {i \in 1 .. n : (i - 1) % e = 0}
           last(i) == IF i + e - 1 < n THEN i + e - 1 ELSE n
           Batch(i) == Listed(SubSeq(l, i, last(i)))
<1>4. Among(page, marked) = UNION {Batch(i) \cap marked : i \in starts}
  BY <1>1, <1>2, <1>3 DEF Among
<1>5. \A i \in 1 .. n : Batch(i) = {l[j] : j \in i .. last(i)}
  <2> TAKE i \in 1 .. n
  <2>1. last(i) \in i .. n
    BY <1>3
  <2>2. PICK m \in i .. n : m = last(i)
    BY <2>1
  <2> HIDE DEF last
  <2>3. PICK q : q = SubSeq(l, i, m)
    OBVIOUS
  <2>4. /\ q \in Seq(S) /\ Len(q) = (IF i <= m THEN m - i + 1 ELSE 0)
        /\ \A k \in 1 .. m - i + 1 : q[k] = l[i + k - 1]
    <3>1. i \in Int /\ m \in Int /\ \A k \in i .. m : l[k] \in S
      BY <1>2, <2>2
    <3> HIDE DEF S
    <3> QED
      BY <2>3, <3>1, SubSeqProperties
  <2>5. DOMAIN q = 1 .. m - i + 1 /\ \A k \in 1 .. m - i + 1 : q[k] = l[i + k - 1]
    <3>1. i <= m
      BY <2>2
    <3> QED
      BY <2>4, <3>1, LenProperties
  <2>6. /\ \A k \in 1 .. m - i + 1 : i + k - 1 \in i .. m
        /\ \A j \in i .. m : j - i + 1 \in 1 .. m - i + 1 /\ i + (j - i + 1) - 1 = j
    BY <2>2
  <2>7. Listed(q) = {l[j] : j \in i .. m}
    <3> DEFINE K == 1 .. m - i + 1
               J == i .. m
    <3>1. Listed(q) = {q[k] : k \in K}
      BY <2>5 DEF Listed
    <3>2. \A k \in K : q[k] = l[i + k - 1] /\ i + k - 1 \in J
      BY <2>5, <2>6
    <3>3. \A j \in J : \E k \in K : q[k] = l[j]
      <4> TAKE j \in J
      <4>1. j - i + 1 \in K /\ i + (j - i + 1) - 1 = j
        BY <2>6
      <4> QED
        BY <3>2, <4>1
    <3>4. \A k \in K : \E j \in J : q[k] = l[j]
      BY <3>2
    <3> HIDE DEF K, J
    <3>5. Listed(q) = {l[j] : j \in J}
      BY <3>1, <3>3, <3>4
    <3> QED
      BY <3>5 DEF J
  <2> QED
    BY <2>2, <2>3, <2>7
<1>6. \A j \in 1 .. n : \E i \in starts : j \in i .. last(i)
  <2> TAKE j \in 1 .. n
  <2>1. PICK p \in Nat : p = (j - 1) \div e /\ p * e <= j - 1 /\ j - 1 < p * e + e
    <3>1. j - 1 \in Nat
      OBVIOUS
    <3> QED
      BY <3>1, Division
  <2>2. PICK m \in Nat : m = p * e /\ m <= j - 1 /\ j - 1 < m + e /\ m % e = 0
    <3>1. p * e \in Nat
      BY Division
    <3>2. (p * e) % e = 0
      OBVIOUS
    <3> QED
      BY <2>1, <3>1, <3>2
  <2>3. m + 1 \in starts
    <3>1. m + 1 \in 1 .. n /\ (m + 1) - 1 = m
      BY <2>2
    <3> QED
      BY <2>2, <3>1
  <2>4. j \in m + 1 .. last(m + 1)
    BY <2>2
  <2> QED
    BY <2>3, <2>4
<1>7. \A i \in starts : i \in 1 .. n /\ i .. last(i) \subseteq 1 .. n
  BY <1>3
<1>8. S = {l[j] : j \in 1 .. n}
  BY <1>1, <1>2 DEF Listed
<1> HIDE DEF starts, last, Batch, S
<1>9. UNION {Batch(i) \cap marked : i \in starts} = {l[j] : j \in 1 .. n} \cap marked
  BY <1>5, <1>6, <1>7
<1> QED
  BY <1>4, <1>8, <1>9 DEF S

-----------------------------------------------------------------------------
(* Caps *)

ToSave == {"saveListing", "onSaveListing"}
ToHide == {"hideListing", "onHideListing"}

\* Requests that counted a list below its cap and have yet to insert.
Inserting(names) == {r \in Requests : req[r].pc = "insert" /\ req[r].op \in names}

\* A list of n entries has room for those who counted it: one of them at least
\* counted it below its cap.
Fits(n, names, max) == n + Cardinality(Inserting(names)) <= max + Cardinality(Requests) - 1

ListInv ==
    /\ saved \in Seq(Tokens) /\ Fits(Len(saved), ToSave, MaxSaved)
    /\ hidden \in Seq(Tokens) /\ Fits(Len(hidden), ToHide, MaxHidden)

\* Steps after which nobody inserts who did not count the list before.
NoneMore(names) == Inserting(names)' \subseteq Inserting(names)

\* No step takes more room than there is: it does not lengthen the list, or
\* counted it below its cap, or inserts and is done.
LEMMA FitsStill ==
    ASSUME NEW names, NEW n \in Nat, NEW k \in Nat, NEW max \in Nat, Fits(n, names, max),
           \/ NoneMore(names) /\ k <= n
           \/ k < max
           \/ NoneMore(names) /\ k <= n + 1 /\ Inserting(names)' # Inserting(names)
    PROVE  Fits(k, names, max)'
<1>1. IsFiniteSet(Requests) /\ Inserting(names) \in SUBSET Requests /\ Inserting(names)' \in SUBSET Requests
  BY RequestConstants DEF Inserting
<1>2. PICK c \in Nat : c = Cardinality(Requests)
  BY <1>1, FS_CardinalityType
<1>3. PICK b \in Nat : b = Cardinality(Inserting(names)) /\ IsFiniteSet(Inserting(names))
  BY <1>1, FS_Subset, FS_CardinalityType
<1>4. PICK a \in Nat : a = Cardinality(Inserting(names)') /\ a <= c
  BY <1>1, <1>2, FS_Subset, FS_CardinalityType
<1>5. NoneMore(names) => a <= b /\ (Inserting(names)' # Inserting(names) => a # b)
  <2> SUFFICES ASSUME NoneMore(names)
               PROVE  a <= b /\ (Inserting(names)' # Inserting(names) => a # b)
    OBVIOUS
  <2>1. Inserting(names)' \in SUBSET Inserting(names)
    BY DEF NoneMore
  <2> QED
    BY <1>3, <1>4, <2>1, FS_Subset
<1>6. n + b <= max + c - 1
  BY <1>2, <1>3 DEF Fits
<1>7. k + a <= max + c - 1
  BY <1>4, <1>5, <1>6
<1> QED
  BY <1>2, <1>4, <1>7 DEF Fits

\* A request that goes anywhere but to an insert of that list, or ends.
LEMMA NoneMoreGoOn ==
    ASSUME Shape, NEW names,
           \/ req' = req
           \/ \E r \in Requests : \E x : /\ req' = [req EXCEPT ![r] = x]
                                         /\ x.pc # "insert" \/ x.op \notin names
    PROVE  NoneMore(names)
<1>1. CASE req' = req
  BY <1>1 DEF NoneMore, Inserting
<1>2. ASSUME NEW r \in Requests, NEW x, req' = [req EXCEPT ![r] = x], x.pc # "insert" \/ x.op \notin names
      PROVE  NoneMore(names)
  <2>1. req'[r] = x /\ \A q \in Requests : q # r => req'[q] = req[q]
    BY <1>2 DEF Shape
  <2> QED
    BY <1>2, <2>1 DEF NoneMore, Inserting
<1> QED
  BY <1>1, <1>2

\* A request that ends inserts no more.
LEMMA NoneMoreEnd ==
    ASSUME Shape, NEW r \in Requests, End(r), NEW names
    PROVE  NoneMore(names) /\ r \notin Inserting(names)'
<1>1. NoRequest.pc # "insert"
  BY DEF NoRequest
<1>2. req'[r] = NoRequest
  BY DEF End, Shape
<1> QED
  BY <1>1, <1>2, NoneMoreGoOn DEF End, Inserting

\* Requests on their way to a handler, and handlers that count no list.
LEMMA NoneMoreCount ==
    ASSUME Shape, NEW r \in Requests, NEW names,
           \/ Chain(r) \/ AdminListsStep(r) \/ AdminTokenStep(r) \/ adminVacuum(r)
           \/ Upstream(r) \/ StoreFails(r)
           \/ unsaveListing(r) \/ unhideListing(r) \/ onClearHiddenConfirm(r)
           \/ listNotifications(r) \/ notificationCount(r) \/ markNotificationsSeen(r)
           \/ markListingSeen(r) \/ unmarkListingSeen(r)
    PROVE  NoneMore(names)
<1> DEFINE Elsewhere == \E x : req' = [req EXCEPT ![r] = x] /\ x.pc # "insert"
<1>1. req' = req \/ Elsewhere => NoneMore(names)
  BY NoneMoreGoOn
<1>2. End(r) => Elsewhere
  <2>1. NoRequest.pc # "insert"
    BY DEF NoRequest
  <2> QED
    BY <2>1 DEF End
<1>3. ASSUME NEW pc, NEW n, NEW at, pc # "insert",
             \/ Goto(r, pc)
             \/ req' = [req EXCEPT ![r] = [req[r] EXCEPT !.pc = pc, !.n = n]]
             \/ req' = [req EXCEPT ![r] = [req[r] EXCEPT !.pc = pc, !.at = at]]
             \/ req' = [req EXCEPT ![r] = [req[r] EXCEPT !.pc = pc, !.n = n, !.at = at]]
      PROVE  Elsewhere
  <2>1. /\ [req[r] EXCEPT !.pc = pc].pc = pc
        /\ [req[r] EXCEPT !.pc = pc, !.n = n].pc = pc
        /\ [req[r] EXCEPT !.pc = pc, !.at = at].pc = pc
        /\ [req[r] EXCEPT !.pc = pc, !.n = n, !.at = at].pc = pc
    BY DEF Shape, RequestShape
  <2>2. Goto(r, pc) => req' = [req EXCEPT ![r] = [req[r] EXCEPT !.pc = pc]]
    BY DEF Goto
  <2> QED
    BY <1>3, <2>1, <2>2
<1>4. ASSUME NEW pc, NEW op, NEW u, NEW c, pc # "insert",
             \/ req' = [req EXCEPT ![r] = [NoRequest EXCEPT !.pc = pc, !.op = op, !.who = u, !.from = c]]
             \/ req' = [req EXCEPT ![r] = [NoRequest EXCEPT !.pc = pc, !.op = op]]
      PROVE  Elsewhere
  <2>1. /\ [NoRequest EXCEPT !.pc = pc, !.op = op, !.who = u, !.from = c].pc = pc
        /\ [NoRequest EXCEPT !.pc = pc, !.op = op].pc = pc
    BY DEF NoRequest
  <2> QED
    BY <1>4, <2>1
<1> HIDE DEF Elsewhere
<1>5. CASE Chain(r)
  <2>1. CASE withIPRateLimit(r)
    BY <1>1, <1>4, <2>1 DEF withIPRateLimit
  <2>2. CASE withRateLimit(r) \/ withGuestRateLimit(r)
    <3>1. End(r) \/ Goto(r, "handle")
      BY <2>2 DEF withRateLimit, withGuestRateLimit, requireAdmin
    <3> QED
      BY <1>1, <1>2, <1>3, <3>1
  <2>3. CASE rateLimited(r)
    BY <1>1, <1>4, <2>3 DEF rateLimited
  <2> QED
    BY <1>5, <2>1, <2>2, <2>3 DEF Chain
<1>6. CASE \/ AdminListsStep(r) \/ StoreFails(r) \/ adminVacuum(r)
           \/ unsaveListing(r) \/ unhideListing(r) \/ onClearHiddenConfirm(r)
           \/ notificationCount(r) \/ markNotificationsSeen(r)
           \/ markListingSeen(r) \/ unmarkListingSeen(r)
  <2>1. End(r) \/ Goto(r, "vacuum")
    BY <1>6 DEF AdminListsStep, adminPurgeTable, adminResetAll, adminDeleteListing, StoreFails,
         adminVacuum, unsaveListing, unhideListing, onClearHiddenConfirm, notificationCount,
         markNotificationsSeen, markListingSeen, unmarkListingSeen
  <2> QED
    BY <1>1, <1>2, <1>3, <2>1
<1>7. CASE listNotifications(r)
  <2>1. End(r) \/ req' = [req EXCEPT ![r] = [req[r] EXCEPT !.pc = "page", !.n = since]]
    BY <1>7 DEF listNotifications
  <2> QED
    BY <1>1, <1>2, <1>3, <2>1
<1>8. CASE AdminTokenStep(r)
  <2>1. CASE mintConfirmToken(r)
    <3>1. req' = [req EXCEPT ![r] = [req[r] EXCEPT !.pc = "store", !.n = Len(minted) + 1]]
      BY <2>1 DEF mintConfirmToken
    <3> QED
      BY <1>1, <1>3, <3>1
  <2>2. CASE issue(r)
    BY <1>1, <1>2, <2>2 DEF issue
  <2>3. CASE requireConfirmToken(r)
    <3>1. PICK tok, ok : req' = [req EXCEPT ![r] = IF ok THEN [req[r] EXCEPT !.pc = "run", !.n = tok, !.at = now] ELSE NoRequest]
      BY <2>3 DEF requireConfirmToken
    <3>2. CASE ok
      BY <1>1, <1>3, <3>1, <3>2
    <3>3. CASE ~ok
      BY <1>1, <1>2, <3>1, <3>3 DEF End
    <3> QED
      BY <3>2, <3>3
  <2> QED
    BY <1>8, <2>1, <2>2, <2>3 DEF AdminTokenStep
<1>9. CASE Upstream(r)
  <2>1. CASE instantSearch(r) \/ AcquireSlot(r)
    <3>1. End(r) \/ Goto(r, "slot") \/ Goto(r, "fetch")
      BY <2>1 DEF instantSearch, AcquireSlot
    <3> QED
      BY <1>1, <1>2, <1>3, <3>1
  <2>2. CASE FetchInstant(r) \/ FetchRefresh(r)
    <3>1. (req[r].pc = "fetch" /\ Retried(r)) \/ End(r)
      BY <2>2 DEF FetchInstant, FetchRefresh, At
    <3>2. ASSUME req[r].pc = "fetch", Retried(r) PROVE NoneMore(names)
      <4>1. PICK x : x = [req[r] EXCEPT !.n = req[r].n + 1]
        OBVIOUS
      <4>2. x.pc = "fetch"
        BY <3>2, <4>1 DEF Shape, RequestShape
      <4> QED
        BY <3>2, <4>1, <4>2, NoneMoreGoOn DEF Retried
    <3> QED
      BY <1>1, <1>2, <3>1, <3>2
  <2>3. CASE refreshListings(r)
    <3>1. End(r) \/ req' = [req EXCEPT ![r] = [req[r] EXCEPT !.pc = "fetch", !.at = Len(refreshes)]]
      BY <2>3 DEF refreshListings
    <3> QED
      BY <1>1, <1>2, <1>3, <3>1
  <2>4. CASE Sweeping(r)
    <3>1. \/ Goto(r, "check")
          \/ req' = [req EXCEPT ![r] = [req[r] EXCEPT !.pc = "judge", !.at = now]]
          \/ req' = [req EXCEPT ![r] = [req[r] EXCEPT !.pc = "evict", !.at = refreshed]]
      BY <2>4 DEF Sweeping, sweepRefreshCooldowns, JudgeEntry, EvictEntry
    <3> QED
      BY <1>1, <1>3, <3>1
  <2> QED
    BY <1>9, <2>1, <2>2, <2>3, <2>4 DEF Upstream
<1> QED
  BY <1>5, <1>6, <1>7, <1>8, <1>9

\* A step that lengthens no list and counts none.
LEMMA ListsShrink ==
    ASSUME ListInv, NoneMore(ToSave), NoneMore(ToHide),
           saved' \in Seq(Tokens), Len(saved') <= Len(saved),
           hidden' \in Seq(Tokens), Len(hidden') <= Len(hidden)
    PROVE  ListInv'
<1>1. /\ Len(saved) \in Nat /\ Len(saved') \in Nat /\ Len(hidden) \in Nat /\ Len(hidden') \in Nat
      /\ MaxSaved \in Nat /\ MaxHidden \in Nat
  BY ListConstants, LenProperties DEF ListInv
<1>2. PICK n \in Nat, k \in Nat, m \in Nat, j \in Nat : n = Len(saved) /\ k = Len(saved') /\ m = Len(hidden) /\ j = Len(hidden')
  BY <1>1
<1>3. Fits(k, ToSave, MaxSaved)'
  BY <1>1, <1>2, FitsStill DEF ListInv
<1>4. Fits(j, ToHide, MaxHidden)'
  BY <1>1, <1>2, FitsStill DEF ListInv
<1> QED
  BY <1>2, <1>3, <1>4 DEF ListInv

\* A list without an entry, and an empty list.
LEMMA Shorter ==
    ASSUME NEW l \in Seq(Tokens), NEW t
    PROVE  /\ Without(l, t) \in Seq(Tokens) /\ Len(Without(l, t)) <= Len(l)
           /\ << >> \in Seq(Tokens) /\ Len(<< >>) <= Len(l) /\ Len(l) <= Len(l)
<1>1. Len(l) \in Nat /\ << >> \in Seq(Tokens) /\ Len(<< >>) = 0
  BY LenProperties
<1> QED
  BY <1>1, KeptEntries DEF Without

\* The two statements of a handler that adds to a list: one counts it below its
\* cap, or ends; the other inserts.
LEMMA OneAdds ==
    ASSUME Shape, NEW r \in Requests, NEW names, NEW op \in names, NEW n \in Nat, NEW k \in Nat,
           NEW max \in Nat, Fits(n, names, max),
           \/ Counted(r, op, n, max) /\ k = n
           \/ At(r, "insert", op) /\ End(r) /\ k <= n + 1
    PROVE  Fits(k, names, max)' /\ \A others : op \notin others => NoneMore(others)
<1>1. CASE Counted(r, op, n, max) /\ k = n
  <2>1. CASE End(r)
    BY <1>1, <2>1, NoneMoreEnd, FitsStill
  <2>2. CASE n < max /\ Goto(r, "insert")
    <3>1. PICK x : x = [req[r] EXCEPT !.pc = "insert"]
      OBVIOUS
    <3>2. x.op = op /\ req' = [req EXCEPT ![r] = x]
      BY <1>1, <2>2, <3>1 DEF Counted, At, Goto, Shape, RequestShape
    <3>3. \A others : op \notin others => NoneMore(others)
      BY <3>2, NoneMoreGoOn
    <3>4. Fits(k, names, max)'
      BY <1>1, <2>2, FitsStill
    <3> QED
      BY <3>3, <3>4
  <2>3. End(r) \/ (n < max /\ Goto(r, "insert"))
    BY <1>1 DEF Counted
  <2> QED
    BY <2>1, <2>2, <2>3
<1>2. CASE At(r, "insert", op) /\ End(r) /\ k <= n + 1
  <2>1. r \in Inserting(names)
    BY <1>2 DEF Inserting, At
  <2>2. NoneMore(names) /\ r \notin Inserting(names)' /\ \A others : NoneMore(others)
    BY <1>2, NoneMoreEnd
  <2>3. Inserting(names)' # Inserting(names)
    BY <2>1, <2>2
  <2>4. Fits(k, names, max)'
    BY <1>2, <2>2, <2>3, FitsStill
  <2> QED
    BY <2>2, <2>4
<1> QED
  BY <1>1, <1>2

\* A bookmark or a hidden listing more.
LEMMA OneMore ==
    ASSUME NEW l \in Seq(Tokens), NEW t \in Tokens, NEW k, k = IF t \in Listed(l) THEN l ELSE Append(l, t)
    PROVE  k \in Seq(Tokens) /\ Len(k) \in Nat /\ Len(k) <= Len(l) + 1 /\ Len(l) \in Nat
<1>1. Len(l) \in Nat
  BY LenProperties
<1>2. Append(l, t) \in Seq(Tokens) /\ Len(Append(l, t)) = Len(l) + 1
  BY AppendProperties
<1> QED
  BY <1>1, <1>2

\* Saving and hiding, from the web and from the bot.
LEMMA AdditionsKeepLists ==
    ASSUME Shape, ListInv, NEW r \in Requests,
           saveListing(r) \/ onSaveListing(r) \/ hideListing(r) \/ onHideListing(r)
    PROVE  ListInv'
<1>1. /\ Len(saved) \in Nat /\ Len(hidden) \in Nat /\ MaxSaved \in Nat /\ MaxHidden \in Nat
      /\ saved \in Seq(Tokens) /\ hidden \in Seq(Tokens)
  BY ListConstants, LenProperties DEF ListInv
<1>2. CASE saveListing(r) \/ onSaveListing(r)
  <2>1. PICK op \in ToSave : /\ \/ Counted(r, op, Len(saved), MaxSaved) /\ saved' = saved
                                \/ At(r, "insert", op) /\ (\E t \in Tokens : SaveBookmark(t)) /\ End(r)
                             /\ hidden' = hidden
    <3>1. saveListing(r) => \E op \in ToSave : op = "saveListing"
      BY DEF ToSave
    <3>2. onSaveListing(r) => \E op \in ToSave : op = "onSaveListing"
      BY DEF ToSave
    <3> QED
      BY <1>2, <3>1, <3>2 DEF saveListing, onSaveListing, CountSaved
  <2>2. /\ saved' \in Seq(Tokens) /\ Len(saved') \in Nat
        /\ \/ Counted(r, op, Len(saved), MaxSaved) /\ saved' = saved
           \/ At(r, "insert", op) /\ End(r) /\ Len(saved') <= Len(saved) + 1
    BY <1>1, <2>1, OneMore DEF SaveBookmark
  <2>3. PICK n \in Nat, k \in Nat, m \in Nat : n = Len(saved) /\ k = Len(saved') /\ m = Len(hidden)
    BY <1>1, <2>2
  <2>4. op \notin ToHide
    BY <2>1 DEF ToSave, ToHide
  <2>5. Fits(k, ToSave, MaxSaved)' /\ NoneMore(ToHide)
    BY <1>1, <2>2, <2>3, <2>4, OneAdds DEF ListInv
  <2>6. Fits(m, ToHide, MaxHidden)'
    BY <1>1, <2>3, <2>5, FitsStill DEF ListInv
  <2> QED
    BY <1>1, <2>1, <2>2, <2>3, <2>5, <2>6 DEF ListInv
<1>3. CASE hideListing(r) \/ onHideListing(r)
  <2>1. PICK op \in ToHide : /\ \/ Counted(r, op, Len(hidden), MaxHidden) /\ hidden' = hidden
                                \/ At(r, "insert", op) /\ (\E t \in Tokens : HideListing(t)) /\ End(r)
                             /\ saved' = saved
    <3>1. hideListing(r) => \E op \in ToHide : op = "hideListing"
      BY DEF ToHide
    <3>2. onHideListing(r) => \E op \in ToHide : op = "onHideListing"
      BY DEF ToHide
    <3> QED
      BY <1>3, <3>1, <3>2 DEF hideListing, onHideListing, CountHidden
  <2>2. /\ hidden' \in Seq(Tokens) /\ Len(hidden') \in Nat
        /\ \/ Counted(r, op, Len(hidden), MaxHidden) /\ hidden' = hidden
           \/ At(r, "insert", op) /\ End(r) /\ Len(hidden') <= Len(hidden) + 1
    BY <1>1, <2>1, OneMore DEF HideListing
  <2>3. PICK n \in Nat, k \in Nat, m \in Nat : n = Len(hidden) /\ k = Len(hidden') /\ m = Len(saved)
    BY <1>1, <2>2
  <2>4. op \notin ToSave
    BY <2>1 DEF ToSave, ToHide
  <2>5. Fits(k, ToHide, MaxHidden)' /\ NoneMore(ToSave)
    BY <1>1, <2>2, <2>3, <2>4, OneAdds DEF ListInv
  <2>6. Fits(m, ToSave, MaxSaved)'
    BY <1>1, <2>3, <2>5, FitsStill DEF ListInv
  <2> QED
    BY <1>1, <2>1, <2>2, <2>3, <2>5, <2>6 DEF ListInv
<1> QED
  BY <1>2, <1>3

\* Empty lists and nobody at work.
LEMMA ListInit == Init => ListInv
<1> SUFFICES ASSUME Init PROVE ListInv
  OBVIOUS
<1>1. saved = <<>> /\ hidden = <<>> /\ \A names : Inserting(names) = {}
  BY DEF Init, ListsInit, RequestsInit, NoRequest, Inserting
<1>2. Cardinality(Requests) \in Nat /\ Cardinality(Requests) # 0 /\ Cardinality({}) = 0
  BY RequestConstants, FS_CardinalityType, FS_EmptySet
<1>3. << >> \in Seq(Tokens) /\ Len(<< >>) = 0 /\ MaxSaved \in Nat /\ MaxHidden \in Nat
  BY ListConstants
<1>4. ASSUME NEW names, NEW max \in Nat PROVE Fits(0, names, max)
  <2>1. Cardinality(Inserting(names)) = 0
    BY <1>1, <1>2
  <2>2. PICK c \in Nat \ {0} : c = Cardinality(Requests)
    BY <1>2
  <2>3. 0 + 0 <= max + c - 1
    OBVIOUS
  <2> QED
    BY <2>1, <2>2, <2>3 DEF Fits
<1> QED
  BY <1>1, <1>3, <1>4 DEF ListInv

\* Every step leaves the lists room.
LEMMA ListStep == Shape /\ ListInv /\ [Next]_vars => ListInv'
<1> SUFFICES ASSUME Shape, ListInv, [Next]_vars PROVE ListInv'
  OBVIOUS
<1>0. saved \in Seq(Tokens) /\ hidden \in Seq(Tokens)
  BY DEF ListInv
<1> DEFINE Kept2 == /\ saved' \in Seq(Tokens) /\ Len(saved') <= Len(saved)
                    /\ hidden' \in Seq(Tokens) /\ Len(hidden') <= Len(hidden)
<1>1. saved' = saved /\ hidden' = hidden => Kept2
  BY <1>0, Shorter
<1>2. ASSUME NEW r \in Requests,
             \/ Chain(r) /\ UNCHANGED lists
             \/ AdminTokenStep(r) /\ UNCHANGED lists
             \/ Upstream(r) /\ UNCHANGED lists
             \/ StoreFails(r) /\ UNCHANGED lists
             \/ AdminListsStep(r) \/ adminVacuum(r)
             \/ unsaveListing(r) \/ unhideListing(r) \/ onClearHiddenConfirm(r)
             \/ listNotifications(r) \/ notificationCount(r) \/ markNotificationsSeen(r)
             \/ markListingSeen(r) \/ unmarkListingSeen(r)
      PROVE  ListInv'
  <2>1. NoneMore(ToSave) /\ NoneMore(ToHide)
    BY <1>2, NoneMoreCount
  <2>2. CASE \/ UNCHANGED lists
             \/ listNotifications(r) \/ notificationCount(r) \/ markNotificationsSeen(r)
             \/ markListingSeen(r) \/ unmarkListingSeen(r) \/ adminVacuum(r)
    BY <1>1, <2>1, <2>2, ListsShrink DEF lists, adminVacuum, listNotifications, notificationCount,
       markNotificationsSeen, markListingSeen, unmarkListingSeen
  <2>3. CASE AdminListsStep(r) \/ unsaveListing(r) \/ unhideListing(r) \/ onClearHiddenConfirm(r)
    <3>1. /\ saved' \in {saved, <<>>} \/ \E t \in Tokens : saved' = Without(saved, t)
          /\ hidden' \in {hidden, <<>>} \/ \E t \in Tokens : hidden' = Without(hidden, t)
      BY <2>3 DEF AdminListsStep, adminPurgeTable, adminResetAll, adminDeleteListing, PurgeTable,
         ResetAllData, Emptied, unsaveListing, unhideListing, onClearHiddenConfirm
    <3>2. Kept2
      BY <1>0, <3>1, Shorter
    <3> QED
      BY <2>1, <3>2, ListsShrink
  <2> QED
    BY <1>2, <2>2, <2>3
<1>3. ASSUME NEW r \in Requests, UserListsStep(r) PROVE ListInv'
  BY <1>2, <1>3, AdditionsKeepLists DEF UserListsStep
<1>4. CASE UNCHANGED <<req, saved, hidden>>
  BY <1>1, <1>4, NoneMoreGoOn, ListsShrink
<1>5. \/ \E r \in Requests :
           \/ UserListsStep(r) \/ AdminListsStep(r) \/ adminVacuum(r)
           \/ /\ Chain(r) \/ AdminTokenStep(r) \/ Upstream(r) \/ StoreFails(r)
              /\ UNCHANGED lists
      \/ UNCHANGED <<req, saved, hidden>>
  BY DEF Next, vars, lists, requests, StampRecord, SaveRecord, EditSearch
<1> QED
  BY <1>2, <1>3, <1>4, <1>5

\* What the pages reach, and what they flag, of lists and rows of any length.
LEMMA PagesReach == BellInv /\ ListInv => PagesReachAll
<1> SUFFICES ASSUME BellInv, ListInv PROVE PagesReachAll
  OBVIOUS
<1>1. /\ Stored \in SUBSET Tokens /\ \A t \in Tokens : rows[t].at \in Nat
      /\ IsFiniteSet(Stored)
  BY ListConstants, FS_Subset DEF Stored, BellInv, BellShape
<1> DEFINE Reached(l, n) == UNION {Listed(Page(l, p * PageSize)) : p \in 0 .. TotalPages(n) - 1}
           h == NewestFirst(Stored)
           s == Kept(Reversed(saved), Stored)
<1>2. /\ Len(hidden) \in Nat /\ Reversed(hidden) \in Seq(Tokens) /\ Len(Reversed(hidden)) = Len(hidden)
      /\ Listed(Reversed(hidden)) = Listed(hidden)
  BY ReversedEntries, LenProperties DEF ListInv
<1>3. /\ Len(saved) \in Nat /\ s \in Seq(Tokens) /\ Len(s) <= Len(saved)
      /\ Listed(s) = Listed(saved) \cap Stored
  BY ReversedEntries, KeptEntries, LenProperties DEF ListInv
<1>4. /\ Cardinality(Stored) \in Nat /\ h \in Seq(Stored) /\ Len(h) = Cardinality(Stored)
      /\ Listed(h) = Stored
  BY <1>1, NewestFirstLists
<1> HIDE DEF h, s
<1>5. Reached(Reversed(hidden), CountHidden) = Listed(hidden)
  BY <1>2, PagesCover DEF CountHidden
<1>6. Reached(s, CountSaved) = Listed(saved) \cap Stored
  BY <1>3, PagesCover DEF CountSaved
<1>7. Reached(h, CountUserListings) = Stored
  BY <1>4, PagesCover DEF CountUserListings
<1>8. \A p \in 0 .. TotalPages(CountHidden) - 1 : sendHiddenPage(p) = Page(Reversed(hidden), p * PageSize)
  BY <1>2, PageOffset DEF sendHiddenPage, ListHidden, CountHidden
<1>9. \A p \in 0 .. TotalPages(CountSaved) - 1 :
        /\ sendSavedPage(p) = Page(s, p * PageSize)
        /\ listSaved(p * PageSize).items = Page(s, p * PageSize)
  BY <1>3, PageOffset DEF sendSavedPage, listSaved, ListSaved, CountSaved, s
<1>10. \A p \in 0 .. TotalPages(CountUserListings) - 1 :
        /\ sendHistoryPage(p) = Page(h, p * PageSize)
        /\ listHistory(p * PageSize).items = Page(h, p * PageSize)
  BY <1>4, PageOffset DEF sendHistoryPage, listHistory, ListUserListings, CountUserListings, h
<1>11. /\ listHistory(0).saved = Listed(listHistory(0).items) \cap Listed(saved)
       /\ listHistory(0).seen = Listed(listHistory(0).items) \cap seen
  <2>1. /\ listHistory(0).items = Page(h, 0)
        /\ listHistory(0).saved = Among(Page(h, 0), Listed(saved))
        /\ listHistory(0).seen = Among(Page(h, 0), seen)
    BY DEF listHistory, ListUserListings, SavedAmong, ListingUserSeenAmong, parsePagination, h
  <2>2. Listed(Page(h, 0)) \in SUBSET Stored
    <3>1. PICK page \in Seq(Stored) : page = Page(h, 0)
      BY <1>4, PageEntries
    <3>2. \A i \in DOMAIN page : page[i] \in Stored
      BY LenProperties, ElementOfSeq
    <3> QED
      BY <3>1, <3>2 DEF Listed
  <2>3. IsFiniteSet(Listed(Page(h, 0)))
    BY <1>1, <2>2, FS_Subset
  <2> QED
    BY <2>1, <2>3, AmongPage
<1>12. /\ UNION {Listed(sendHiddenPage(p)) : p \in 0 .. TotalPages(CountHidden) - 1} = Listed(hidden)
       /\ UNION {Listed(sendHistoryPage(p)) : p \in 0 .. TotalPages(CountUserListings) - 1} = Stored
       /\ UNION {Listed(listHistory(p * PageSize).items) : p \in 0 .. TotalPages(CountUserListings) - 1} = Stored
       /\ UNION {Listed(sendSavedPage(p)) : p \in 0 .. TotalPages(CountSaved) - 1} = Listed(saved) \cap Stored
       /\ UNION {Listed(listSaved(p * PageSize).items) : p \in 0 .. TotalPages(CountSaved) - 1} = Listed(saved) \cap Stored
  BY <1>5, <1>6, <1>7, <1>8, <1>9, <1>10
<1> QED
  BY <1>11, <1>12 DEF PagesReachAll

\* A list grows past its cap by one listing per further handler at work at
\* most, and whatever a list holds can be paged through in full, as the bot and
\* the web client do, with the flags of the page right (bookmarks.go, history.go).
THEOREM ListsStayWhole == Spec => []ListsHeld
<1>1. Init => TokenInv /\ BellInv /\ ListInv
  BY TokenInvInit, BellInit, ListInit
<1>2. TokenInv /\ BellInv /\ ListInv /\ [Next]_vars => (TokenInv /\ BellInv /\ ListInv)'
  BY TokenInvNext, BellStep, ListStep DEF TokenInv
<1>3. BellInv /\ ListInv => ListsHeld
  <2> SUFFICES ASSUME BellInv, ListInv PROVE ListsHeld
    OBVIOUS
  <2>1. /\ Cardinality(Inserting(ToSave)) \in Nat /\ Cardinality(Inserting(ToHide)) \in Nat
        /\ Cardinality(Requests) \in Nat
    <3>1. \A names : Inserting(names) \in SUBSET Requests
      BY DEF Inserting
    <3> QED
      BY <3>1, RequestConstants, FS_Subset, FS_CardinalityType
  <2>2. Len(saved) \in Nat /\ Len(hidden) \in Nat /\ MaxSaved \in Nat /\ MaxHidden \in Nat
    BY ListConstants, LenProperties DEF ListInv
  <2>3. ListsCapped
    BY <2>1, <2>2 DEF ListInv, Fits, ListsCapped
  <2> QED
    BY <2>3, PagesReach DEF ListsHeld
<1> QED
  BY <1>1, <1>2, <1>3, PTL DEF Spec
=============================================================================
