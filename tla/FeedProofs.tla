----------------------------- MODULE FeedProofs -----------------------------
(***************************************************************************)
(* From a fetch to the rows a user sees, for any number of callers, keys,  *)
(* chats, searches and listings.  The circuit breaker trips only after     *)
(* enough failures and lets two probes through only if a late caller       *)
(* cleared the flag; the cache stays consistent.  A listing on the market  *)
(* that is claimed has its row, or lost it for a known cause; bookmarked   *)
(* rows are kept, and what is served is not pruned.                        *)
(***************************************************************************)
EXTENDS FetchChain, ListingStore, SequenceTheorems, FiniteSetTheorems,
        WellFoundedInduction, TLAPS

\* What a step can do to the breaker, to the set of probes and to overtaken.
Enter(c) ==
    /\ Admit
    /\ probe' = IF state' = "halfOpen" THEN probe \cup {c} ELSE probe
    /\ overtaken' = overtaken
Leave(c) ==
    /\ Succeed \/ Fail \/ Ignore
    /\ overtaken' = (overtaken \/ (probing /\ c \notin probe))
    /\ probe' = probe \ {c}
Stay ==
    /\ UNCHANGED <<state, failures, probing, probe, overtaken>>
    /\ cooling' \in BOOLEAN

\* Every step of the chain enters, leaves or does not touch the breaker.
LEMMA StepShape ==
    ASSUME cooling \in BOOLEAN, [Next]_vars
    PROVE  Stay \/ \E c \in Callers : Enter(c) \/ Leave(c)
<1>1. CASE Time
  BY <1>1 DEF Time, Cool, Stay, breakerVars, chainVars
<1>2. ASSUME NEW c \in Callers, Caller(c)
      PROVE  Stay \/ \E d \in Callers : Enter(d) \/ Leave(d)
  <2>1. CASE \E k \in Keys : Call(c, k)
    BY <2>1 DEF Call, Enter
  <2>2. CASE Return(c)
    BY <2>2 DEF Return, Leave
  <2>3. CASE LookUp(c)
    BY <2>3 DEF LookUp, Stay, breakerVars
  <2>4. CASE AnswerOk(c)
    BY <2>4 DEF AnswerOk, Stay, breakerVars
  <2>5. CASE \E a \in Answers : AnswerError(c, a)
    BY <2>5 DEF AnswerError, Stay, breakerVars
  <2>6. CASE TouchEntry(c)
    BY <2>6 DEF TouchEntry, Stay, breakerVars
  <2>7. CASE StoreEntry(c)
    BY <2>7 DEF StoreEntry, Stay, breakerVars
  <2> QED
    BY <1>2, <2>1, <2>2, <2>3, <2>4, <2>5, <2>6, <2>7 DEF Caller
<1>3. CASE UNCHANGED vars
  BY <1>3 DEF vars, breakerVars, chainVars, Stay
<1> QED
  BY <1>1, <1>2, <1>3 DEF Next

-----------------------------------------------------------------------------
\* The breaker's own variables keep their types, and it has counted
\* Threshold failures whenever it is not closed.
TripInv == BreakerType /\ TripsOnlyAfterThreshold

\* TripInv holds at the start.
LEMMA TripInit == Init => TripInv
<1> SUFFICES ASSUME Init PROVE TripInv
  OBVIOUS
<1>1. state = "closed" /\ failures = 0 /\ ~probing /\ ~cooling
  BY DEF Init, BreakerInit
<1>2. probing \in BOOLEAN /\ cooling \in BOOLEAN
  BY Zenon DEF Init, BreakerInit
<1> QED
  BY <1>1, <1>2 DEF TripInv, BreakerType, TripsOnlyAfterThreshold

\* Every step keeps TripInv: only Fail opens the breaker, half-open is
\* reached from open, and only Succeed resets the count.
LEMMA TripStep == TripInv /\ [Next]_vars => TripInv'
<1> SUFFICES ASSUME TripInv, [Next]_vars PROVE TripInv'
  OBVIOUS
<1> USE BreakerConstants DEF TripInv, BreakerType, TripsOnlyAfterThreshold
<1>1. CASE Stay
  BY <1>1 DEF Stay
<1>2. ASSUME NEW c \in Callers, Enter(c) PROVE TripInv'
  BY <1>2 DEF Enter, Admit
<1>3. ASSUME NEW c \in Callers, Leave(c) PROVE TripInv'
  <2>1. CASE Succeed
    BY <2>1 DEF Succeed
  <2>2. CASE Fail
    <3>1. probing' \in BOOLEAN /\ cooling' \in BOOLEAN
      BY <2>2, Zenon DEF Fail
    <3>2. CASE Trips
      BY <2>2, <3>1, <3>2 DEF Fail, Trips
    <3>3. CASE ~Trips
      BY <2>2, <3>1, <3>3 DEF Fail, Trips
    <3> QED
      BY <3>2, <3>3
  <2>3. CASE Ignore
    BY <2>3 DEF Ignore
  <2> QED
    BY <1>3, <2>1, <2>2, <2>3 DEF Leave
<1> QED
  BY <1>1, <1>2, <1>3, StepShape

\* Fetch opens the breaker only after failureThreshold failures since the
\* last success, for every number of callers and every order of returns.
THEOREM BreakerTripsOnlyAfterThreshold == Spec => []TripsOnlyAfterThreshold
<1>1. Init => TripInv
  BY TripInit
<1>2. TripInv /\ [Next]_vars => TripInv'
  BY TripStep
<1>3. TripInv => TripsOnlyAfterThreshold
  BY DEF TripInv
<1> QED
  BY <1>1, <1>2, <1>3, PTL DEF Spec

-----------------------------------------------------------------------------
\* As long as no late caller has returned during a probe, the probing flag
\* says exactly whether the one probe is in flight.
ProbeInv ==
    /\ BreakerType
    /\ probe \subseteq Callers
    /\ overtaken \in BOOLEAN
    /\ ~overtaken =>
          /\ \A c, d \in probe : c = d
          /\ probing <=> probe # {}
          /\ probing => state = "halfOpen"

\* ProbeInv holds at the start.
LEMMA ProbeInit == Init => ProbeInv
<1> SUFFICES ASSUME Init PROVE ProbeInv
  OBVIOUS
<1>1. BreakerType
  BY TripInit DEF TripInv
<1>2. probe = {} /\ overtaken \in BOOLEAN /\ ~probing
  BY Zenon DEF Init, BreakerInit
<1> QED
  BY <1>1, <1>2 DEF ProbeInv

\* Every step keeps ProbeInv: Admit lets a probe in only when the flag is
\* down, hence when none is in flight, and a return takes the flag down
\* only together with its probe, or else is recorded as overtaking.
LEMMA ProbeStep == ProbeInv /\ [Next]_vars => ProbeInv'
<1> SUFFICES ASSUME ProbeInv, [Next]_vars PROVE ProbeInv'
  OBVIOUS
<1>1. CASE Stay
  BY <1>1 DEF Stay, ProbeInv, BreakerType
<1>2. ASSUME NEW c \in Callers, Enter(c) PROVE ProbeInv'
  <2>1. BreakerType' /\ probe' \subseteq Callers /\ overtaken' \in BOOLEAN
    BY <1>2 DEF Enter, Admit, ProbeInv, BreakerType
  <2>2. ASSUME ~overtaken'
        PROVE  /\ \A a, b \in probe' : a = b
               /\ probing' <=> probe' # {}
               /\ probing' => state' = "halfOpen"
    <3>1. ~probing /\ probe = {}
      BY <1>2, <2>2 DEF Enter, Admit, ProbeInv, BreakerType
    <3> QED
      BY <1>2, <3>1 DEF Enter, Admit
  <2> QED
    BY <2>1, <2>2 DEF ProbeInv
<1>3. ASSUME NEW c \in Callers, Leave(c) PROVE ProbeInv'
  <2>0. Succeed \/ Fail \/ Ignore
    BY <1>3 DEF Leave
  <2>1. ~probing' /\ probing' \in BOOLEAN /\ cooling' \in BOOLEAN
    BY <2>0, Zenon DEF Succeed, Fail, Ignore, ProbeInv, BreakerType
  <2>4. state' \in {"closed", "open", "halfOpen"} /\ failures' \in Nat
    <3>1. CASE Succeed
      BY <3>1 DEF Succeed
    <3>2. CASE Fail
      BY <3>2 DEF Fail, ProbeInv, BreakerType
    <3>3. CASE Ignore
      BY <3>3 DEF Ignore, ProbeInv, BreakerType
    <3> QED
      BY <2>0, <3>1, <3>2, <3>3
  <2>2. probe' \subseteq Callers /\ overtaken' \in BOOLEAN
    BY <1>3 DEF Leave, ProbeInv, BreakerType
  <2>3. ASSUME ~overtaken' PROVE probe' = {}
    BY <1>3, <2>3 DEF Leave, ProbeInv, BreakerType
  <2> QED
    BY <2>1, <2>2, <2>3, <2>4 DEF ProbeInv, BreakerType
<1>4. cooling \in BOOLEAN
  BY DEF ProbeInv, BreakerType
<1> QED
  BY <1>1, <1>2, <1>3, <1>4, StepShape

\* A half-open breaker has one probe in flight, unless a caller admitted
\* earlier returned during a probe and cleared the probing flag.
THEOREM OneProbeAtATime == Spec => []OneProbe
<1>1. Init => ProbeInv
  BY ProbeInit
<1>2. ProbeInv /\ [Next]_vars => ProbeInv'
  BY ProbeStep
<1>3. ProbeInv => OneProbe
  <2> SUFFICES ASSUME ProbeInv, ~overtaken PROVE ~(Cardinality(probe) > 1)
    BY DEF ProbeInv, OneProbe
  <2>1. CASE probe = {}
    BY <2>1, FS_EmptySet
  <2>2. ASSUME NEW c \in probe PROVE ~(Cardinality(probe) > 1)
    <3>1. probe = {c}
      BY DEF ProbeInv
    <3> QED
      BY <3>1, FS_Singleton
  <2> QED
    BY <2>1, <2>2
<1> QED
  BY <1>1, <1>2, <1>3, PTL DEF Spec
-----------------------------------------------------------------------------
(* Induction *)

\* A set of naturals has a least element.
LEMMA LeastExists ==
    ASSUME NEW T \in SUBSET Nat, T # {}
    PROVE  \E x \in T : \A y \in T : x <= y
<1> DEFINE R == OpToRel(<, Nat)
<1>1. IsWellFoundedOn(R, Nat)
  BY NatLessThanWellFounded
<1>2. \A x, y \in Nat : y < x => <<y, x>> \in R
  BY DEF OpToRel
<1> HIDE DEF R
<1>3. PICK x \in T : \A y \in T : ~ (<<y, x>> \in R)
  BY <1>1, WFMin
<1>4. \A y \in T : ~(y < x)
  BY <1>2, <1>3
<1> QED
  BY <1>4

\* A set that holds 0, and with every number its successor, holds them all.
LEMMA SetInduction ==
    ASSUME NEW S, 0 \in S, \A n \in Nat : n \in S => n + 1 \in S
    PROVE  Nat \subseteq S
<1> SUFFICES ASSUME Nat \ S # {} PROVE FALSE
  OBVIOUS
<1>1. PICK x \in Nat \ S : \A y \in Nat \ S : x <= y
  BY LeastExists
<1>2. x # 0 /\ x - 1 \in Nat /\ x - 1 + 1 = x
  OBVIOUS
<1>3. x - 1 \in S
  BY <1>1, <1>2
<1> QED
  BY <1>2, <1>3

-----------------------------------------------------------------------------
(* Kept *)

\* f holds what is kept of each of the first m prefixes of s.
KeptTo(s, T, f, m) ==
    f = [n \in 0 .. m |-> IF n = 0 THEN << >>
                          ELSE IF s[n] \in T THEN Append(f[n - 1], s[n]) ELSE f[n - 1]]

\* The recursion of Kept has a solution.
LEMMA KeptExists ==
    ASSUME NEW X, NEW s \in Seq(X), NEW T
    PROVE  \E f : KeptTo(s, T, f, Len(s)) /\ Kept(s, T) = f[Len(s)]
<1> DEFINE S == {m \in Nat : \E f : KeptTo(s, T, f, m)}
<1>1. 0 \in S
  <2>1. KeptTo(s, T, [n \in 0 .. 0 |-> << >>], 0)
    BY DEF KeptTo
  <2> QED
    BY <2>1
<1>2. ASSUME NEW m \in Nat, m \in S PROVE m + 1 \in S
  <2>1. PICK f : KeptTo(s, T, f, m)
    BY <1>2
  <2> DEFINE step(n, before) == IF s[n] \in T THEN Append(before, s[n]) ELSE before
             g == [n \in 0 .. m + 1 |-> IF n <= m THEN f[n] ELSE step(n, f[n - 1])]
  <2>2. \A n \in 0 .. m : f[n] = IF n = 0 THEN << >> ELSE step(n, f[n - 1])
    BY <2>1 DEF KeptTo
  <2>3. \A n \in 0 .. m : g[n] = f[n]
    OBVIOUS
  <2>4. g[m + 1] = step(m + 1, f[m])
    OBVIOUS
  <2>5. g = [n \in 0 .. m + 1 |-> g[n]]
    OBVIOUS
  <2> HIDE DEF g
  <2>6. \A n \in 0 .. m + 1 : g[n] = IF n = 0 THEN << >> ELSE step(n, g[n - 1])
    <3> TAKE n \in 0 .. m + 1
    <3>1. CASE n = m + 1
      <4>1. n # 0 /\ n - 1 = m /\ m \in 0 .. m
        BY <3>1
      <4> QED
        BY <2>3, <2>4, <3>1, <4>1
    <3>2. CASE n # m + 1
      <4>1. n \in 0 .. m /\ (n # 0 => n - 1 \in 0 .. m)
        BY <3>2
      <4> HIDE DEF step
      <4> QED
        BY <2>2, <2>3, <4>1
    <3> QED
      BY <3>1, <3>2
  <2>7. KeptTo(s, T, g, m + 1)
    BY <2>5, <2>6 DEF KeptTo
  <2> QED
    BY <2>7
<1>3. Len(s) \in S
  <2> HIDE DEF S
  <2> QED
    BY <1>1, <1>2, SetInduction, LenProperties
<1> DEFINE h == CHOOSE f : KeptTo(s, T, f, Len(s))
<1>4. KeptTo(s, T, h, Len(s))
  BY <1>3
<1>5. Kept(s, T) = h[Len(s)]
  BY DEF Kept, KeptTo
<1> QED
  BY <1>4, <1>5

\* No entry of s occurs twice.
Distinct(s) == \A i, j \in 1 .. Len(s) : s[i] = s[j] => i = j
Entries(s) == {s[i] : i \in 1 .. Len(s)}

\* Kept holds the entries of s that are in T, and none twice that s has once.
LEMMA KeptEntries ==
    ASSUME NEW X, NEW s \in Seq(X), NEW T
    PROVE  /\ Kept(s, T) \in Seq(X) /\ Len(Kept(s, T)) <= Len(s)
           /\ Entries(Kept(s, T)) = Entries(s) \cap T
           /\ Distinct(s) => Distinct(Kept(s, T))
<1> DEFINE l == Len(s)
<1>0. l \in Nat /\ \A n \in 1 .. l : s[n] \in X
  BY LenProperties, ElementOfSeq
<1>1. PICK f : KeptTo(s, T, f, l) /\ Kept(s, T) = f[l]
  BY KeptExists
<1> HIDE DEF l
<1> DEFINE Good(n) == /\ f[n] \in Seq(X) /\ Len(f[n]) <= n
                      /\ Entries(f[n]) = {s[i] : i \in 1 .. n} \cap T
                      /\ Distinct(s) => Distinct(f[n])
           S == {n \in Nat : n <= l => Good(n)}
<1>2. f[0] = << >> /\ \A n \in 1 .. l : f[n] = IF s[n] \in T THEN Append(f[n - 1], s[n]) ELSE f[n - 1]
  <2>1. /\ \A n \in 1 .. l : n \in 0 .. l /\ n # 0
        /\ 0 \in 0 .. l
    BY <1>0
  <2> QED
    BY <1>1, <2>1 DEF KeptTo
<1>3. 0 \in S
  <2>1. Len(<< >>) = 0 /\ << >> \in Seq(X) /\ 1 .. 0 = {} /\ 0 \in Nat
    OBVIOUS
  <2>2. Entries(<< >>) = {} /\ Distinct(<< >>) /\ {s[i] : i \in 1 .. 0} = {}
    BY <2>1 DEF Entries, Distinct
  <2>3. f[0] = << >> /\ 0 <= 0
    BY <1>2
  <2>4. Good(0)
    BY <2>1, <2>2, <2>3
  <2> HIDE DEF Good
  <2> QED
    BY <2>4
<1>4. ASSUME NEW n \in Nat, n \in S PROVE n + 1 \in S
  <2> SUFFICES ASSUME n + 1 <= l PROVE Good(n + 1)
    OBVIOUS
  <2>1. n + 1 \in 1 .. l /\ (n + 1) - 1 = n /\ n <= l
    BY <1>0
  <2>2. Good(n)
    BY <1>4, <2>1
  <2>3. PICK k \in Nat : k = Len(f[n]) /\ k <= n
    BY <2>2, LenProperties
  <2> DEFINE p == f[n]
             q == f[n + 1]
             x == s[n + 1]
  <2>4. q = (IF x \in T THEN Append(p, x) ELSE p) /\ x \in X /\ p \in Seq(X)
    BY <1>0, <1>2, <2>1, <2>2
  <2>5. {s[i] : i \in 1 .. n + 1} = {s[i] : i \in 1 .. n} \cup {x}
    BY <2>1
  <2> HIDE DEF p, q
  <2>6. CASE x \notin T
    <3>1. q = p
      BY <2>4, <2>6
    <3> QED
      BY <2>2, <2>3, <2>5, <2>6, <3>1 DEF p, q
  <2>7. CASE x \in T
    <3>1. /\ q \in Seq(X) /\ Len(q) = k + 1 /\ q[k + 1] = x
          /\ \A i \in 1 .. k : q[i] = p[i]
      BY <2>3, <2>4, <2>7 DEF p
    <3>2. Entries(q) = Entries(p) \cup {x}
      <4>1. Entries(p) = {p[i] : i \in 1 .. k} /\ Entries(q) = {q[i] : i \in 1 .. k + 1}
        BY <2>3, <3>1 DEF Entries, p
      <4>2. \A i \in 1 .. k + 1 : i \in 1 .. k \/ i = k + 1
        OBVIOUS
      <4>3. \A i \in 1 .. k : i \in 1 .. k + 1
        OBVIOUS
      <4>4. k + 1 \in 1 .. k + 1
        OBVIOUS
      <4> QED
        BY <3>1, <4>1, <4>2, <4>3, <4>4
    <3>3. ASSUME Distinct(s) PROVE Distinct(q)
      <4>1. x \notin Entries(p)
        <5>1. \A i \in 1 .. n : s[i] # x
          BY <1>0, <2>1, <3>3 DEF Distinct, l
        <5> QED
          BY <2>2, <5>1 DEF p
      <4>2. \A i \in 1 .. k : q[i] # x
        BY <2>3, <3>1, <4>1 DEF Entries, p
      <4>3. \A i, j \in 1 .. k : q[i] = q[j] => i = j
        BY <2>2, <2>3, <3>1, <3>3 DEF Distinct, p
      <4>4. \A i \in 1 .. k + 1 : i \in 1 .. k \/ i = k + 1
        OBVIOUS
      <4> QED
        BY <3>1, <4>2, <4>3, <4>4 DEF Distinct
    <3> QED
      BY <2>2, <2>3, <2>5, <2>7, <3>1, <3>2, <3>3 DEF p, q
  <2> QED
    BY <2>6, <2>7
<1>5. l \in S
  <2> HIDE DEF S
  <2> QED
    BY <1>0, <1>3, <1>4, SetInduction
<1>6. Good(l)
  BY <1>0, <1>5
<1> QED
  BY <1>1, <1>6 DEF Entries, l

-----------------------------------------------------------------------------
(* The cache *)

\* order lists the cached keys, each once, and no more than fit.
CacheInv ==
    /\ age \in [Keys -> Ages \cup {"none"}]
    /\ order \in Seq(Keys) /\ Len(order) <= MaxEntries
    /\ Entries(order) = Cached /\ Distinct(order)
    /\ key \in [Callers -> Keys]

\* A list of keys, each once, has as many keys as entries.
LEMMA DistinctCount ==
    ASSUME NEW s \in Seq(Keys), Distinct(s)
    PROVE  Cardinality(Entries(s)) = Len(s)
<1>1. PICK n \in Nat : n = Len(s) /\ DOMAIN s = 1 .. n
  BY LenProperties
<1>2. \A i \in 1 .. n : s[i] \in Entries(s)
  BY <1>1 DEF Entries
<1>3. s \in [1 .. n -> Entries(s)]
  BY <1>1, <1>2, LenProperties
<1>4. s \in Bijection(1 .. n, Entries(s))
  BY <1>1, <1>3 DEF Entries, Distinct, Bijection, Injection, Surjection, IsInjective
<1>5. ExistsBijection(1 .. n, Entries(s))
  BY <1>4 DEF ExistsBijection
<1> QED
  BY <1>1, <1>5, FS_CountingElements

\* A key that is (again) the last used.
LEMMA MovedLast ==
    ASSUME NEW s \in Seq(Keys), Distinct(s), NEW k \in Keys
    PROVE  LET t == Append(Without(k, s), k) IN
           /\ t \in Seq(Keys) /\ Distinct(t)
           /\ Entries(t) = Entries(s) \cup {k}
<1> DEFINE w == Without(k, s)
           t == Append(w, k)
<1>1. /\ w \in Seq(Keys) /\ Distinct(w) /\ Entries(w) = Entries(s) \cap (Keys \ {k})
  BY KeptEntries DEF Without
<1>2. Entries(s) \subseteq Keys
  BY ElementOfSeq, LenProperties DEF Entries
<1> HIDE DEF w
<1>3. PICK n \in Nat : n = Len(w)
  BY <1>1, LenProperties
<1>4. t \in Seq(Keys) /\ Len(t) = n + 1 /\ t[n + 1] = k /\ \A i \in 1 .. n : t[i] = w[i]
  BY <1>1, <1>3
<1> HIDE DEF t
<1>5. \A i \in 1 .. n + 1 : i \in 1 .. n \/ i = n + 1
  OBVIOUS
<1>6. Entries(w) = {w[i] : i \in 1 .. n} /\ Entries(t) = {t[i] : i \in 1 .. n + 1}
  BY <1>3, <1>4 DEF Entries
<1>7. Entries(t) = Entries(w) \cup {k}
  <2>1. n + 1 \in 1 .. n + 1 /\ \A i \in 1 .. n : i \in 1 .. n + 1
    OBVIOUS
  <2> QED
    BY <1>4, <1>5, <1>6, <2>1
<1>8. Distinct(t)
  <2>1. k \notin Entries(w)
    BY <1>1
  <2>2. \A i \in 1 .. n : t[i] # k
    BY <1>4, <1>6, <2>1
  <2> QED
    BY <1>1, <1>3, <1>4, <1>5, <2>2 DEF Distinct
<1> QED
  BY <1>1, <1>2, <1>4, <1>7, <1>8 DEF t, w

\* evictExpired and evictOldest drop entries, down to what fits.
LEMMA EvictedFits ==
    ASSUME NEW s \in Seq(Keys), Distinct(s), NEW a
    PROVE  LET t == EvictOldest(EvictExpired(a, s)) IN
           /\ t \in Seq(Keys) /\ Distinct(t) /\ Len(t) <= MaxEntries
           /\ Entries(t) \subseteq Entries(s)
<1> DEFINE e == EvictExpired(a, s)
           t == EvictOldest(e)
<1>0. PICK m \in Nat : m = MaxEntries
  BY CacheConstants
<1>1. e \in Seq(Keys) /\ Distinct(e) /\ Entries(e) \subseteq Entries(s)
  <2>1. CASE e = s
    BY <2>1
  <2>2. CASE e = Kept(s, {j \in Keys : a[j] # "expired"})
    BY <2>2, KeptEntries
  <2> QED
    BY <2>1, <2>2 DEF EvictExpired
<1> HIDE DEF e
<1>2. PICK n \in Nat : n = Len(e)
  BY <1>1, LenProperties
<1>3. CASE ~(n > m)
  <2>1. t = e
    BY <1>0, <1>2, <1>3 DEF EvictOldest
  <2> QED
    BY <1>0, <1>1, <1>2, <1>3, <2>1 DEF e
<1>4. CASE n > m
  <2>1. t = SubSeq(e, n - m + 1, n)
    BY <1>0, <1>2, <1>4 DEF EvictOldest
  <2>2. n - m + 1 \in 1 .. n + 1 /\ n \in 0 .. n
    BY <1>4
  <2>3. /\ t \in Seq(Keys) /\ Len(t) = m
        /\ \A i \in 1 .. m : t[i] = e[n - m + i] /\ n - m + i \in 1 .. n
    <3>1. \A i \in 1 .. n : e[i] \in Keys
      BY <1>1, <1>2, ElementOfSeq
    <3>2. PICK z \in Nat : z = n - m /\ z + m = n
      BY <1>4
    <3>3. t = [i \in 1 .. m |-> e[i + (z + 1) - 1]]
      BY <1>2, <2>1, <3>2
    <3>4. \A i \in 1 .. m : i + (z + 1) - 1 = z + i /\ n - m + i = z + i /\ z + i \in 1 .. n
      BY <3>2
    <3>5. t = [i \in 1 .. m |-> e[z + i]]
      BY <3>3, <3>4
    <3> HIDE DEF t
    <3>6. t \in [1 .. m -> Keys]
      BY <3>1, <3>4, <3>5
    <3>7. t \in Seq(Keys) /\ Len(t) = m
      BY <3>6, IsASeq, LenProperties
    <3> QED
      BY <3>4, <3>5, <3>7
  <2> HIDE DEF t
  <2>4. Distinct(t)
    <3> SUFFICES ASSUME NEW i \in 1 .. m, NEW j \in 1 .. m, t[i] = t[j] PROVE i = j
      BY <2>3 DEF Distinct
    <3>1. e[n - m + i] = e[n - m + j] /\ n - m + i \in 1 .. n /\ n - m + j \in 1 .. n
      BY <2>3
    <3>2. n - m + i = n - m + j
      BY <1>1, <1>2, <3>1 DEF Distinct
    <3> QED
      BY <3>2
  <2>5. Entries(t) \subseteq Entries(e)
    BY <1>2, <2>3 DEF Entries
  <2>6. Len(t) <= MaxEntries
    BY <1>0, <2>3
  <2> QED
    BY <1>1, <2>3, <2>4, <2>5, <2>6 DEF t, e
<1> QED
  BY <1>0, <1>2, <1>3, <1>4

\* The cache starts empty.
LEMMA CacheStarts == Init => CacheInv
<1> SUFFICES ASSUME Init PROVE CacheInv
  OBVIOUS
<1>1. /\ age = [k \in Keys |-> "none"] /\ order = << >> /\ key \in [Callers -> Keys]
      /\ 0 <= MaxEntries
  BY CacheConstants DEF Init, CacheInit
<1>2. Len(order) = 0 /\ order \in Seq(Keys) /\ 1 .. 0 = {}
  BY <1>1
<1>3. Entries(order) = {} /\ Distinct(order) /\ Cached = {}
  BY <1>1, <1>2 DEF Entries, Distinct, Cached
<1> QED
  BY <1>1, <1>2, <1>3 DEF CacheInv

\* A touch moves an entry that is still there.
LEMMA TouchKeepsCache ==
    ASSUME CacheInv, NEW k \in Keys, Touch(k), key' = key
    PROVE  CacheInv'
<1>1. age' = age /\ Cached' = Cached
  BY DEF Touch, Cached
<1>2. CASE k \notin Cached
  BY <1>1, <1>2 DEF Touch, CacheInv
<1>3. CASE k \in Cached
  <2> DEFINE t == Append(Without(k, order), k)
  <2>1. order' = t
    BY <1>3 DEF Touch
  <2>2. t \in Seq(Keys) /\ Distinct(t) /\ Entries(t) = Entries(order) \cup {k}
    BY MovedLast DEF CacheInv
  <2> HIDE DEF t
  <2>3. Entries(t) = Cached
    BY <1>3, <2>2 DEF CacheInv
  <2>4. Len(t) = Len(order)
    BY <2>2, <2>3, DistinctCount DEF CacheInv
  <2> QED
    BY <1>1, <2>1, <2>2, <2>3, <2>4 DEF CacheInv
<1> QED
  BY <1>2, <1>3

\* A stored result evicts what does not fit.
LEMMA StoreKeepsCache ==
    ASSUME CacheInv, NEW k \in Keys, Store(k), key' = key
    PROVE  CacheInv'
<1> DEFINE stored == [age EXCEPT ![k] = "fresh"]
           s == Append(Without(k, order), k)
           t == EvictOldest(EvictExpired(stored, s))
<1>1. /\ order' = t
      /\ age' = [j \in Keys |-> IF \E i \in 1 .. Len(t) : t[i] = j THEN stored[j] ELSE "none"]
  BY DEF Store
<1>2. s \in Seq(Keys) /\ Distinct(s) /\ Entries(s) = Cached \cup {k}
  BY MovedLast DEF CacheInv
<1>3. t \in Seq(Keys) /\ Distinct(t) /\ Len(t) <= MaxEntries /\ Entries(t) \subseteq Cached \cup {k}
  <2> HIDE DEF s, stored
  <2> QED
    BY <1>2, EvictedFits
<1>4. stored \in [Keys -> Ages \cup {"none"}] /\ \A j \in Cached \cup {k} : stored[j] # "none"
  BY DEF CacheInv, Cached, Ages
<1> HIDE DEF stored, s, t
<1>5. \A j \in Keys : j \in Entries(t) <=> \E i \in 1 .. Len(t) : t[i] = j
  BY DEF Entries
<1>6. age' \in [Keys -> Ages \cup {"none"}]
  BY <1>1, <1>4
<1>7. Entries(t) = Cached'
  <2>1. Entries(t) \subseteq Keys
    BY <1>3 DEF Cached
  <2>2. \A j \in Keys : age'[j] # "none" <=> j \in Entries(t)
    BY <1>1, <1>3, <1>4, <1>5
  <2> QED
    BY <2>1, <2>2 DEF Cached
<1> QED
  BY <1>1, <1>3, <1>6, <1>7 DEF CacheInv

\* Every step of the chain keeps the cache.
LEMMA CacheStep == CacheInv /\ [Next]_vars => CacheInv'
<1> SUFFICES ASSUME CacheInv, [Next]_vars PROVE CacheInv'
  OBVIOUS
<1>1. ASSUME UNCHANGED cacheVars, key' \in [Callers -> Keys] PROVE CacheInv'
  BY <1>1 DEF cacheVars, CacheInv, Cached
<1>2. key \in [Callers -> Keys]
  BY DEF CacheInv
<1>3. ASSUME NEW c \in Callers, Caller(c) PROVE CacheInv'
  <2>1. key[c] \in Keys
    BY <1>2
  <2>2. CASE \E k \in Keys : Call(c, k)
    BY <1>1, <1>2, <2>2 DEF Call
  <2>3. CASE LookUp(c) \/ AnswerOk(c) \/ (\E a \in Answers : AnswerError(c, a)) \/ Return(c)
    BY <1>1, <1>2, <2>3 DEF LookUp, AnswerOk, AnswerError, Return
  <2>4. CASE TouchEntry(c)
    BY <2>1, <2>4, TouchKeepsCache DEF TouchEntry
  <2>5. CASE StoreEntry(c)
    BY <2>1, <2>5, StoreKeepsCache DEF StoreEntry
  <2> QED
    BY <1>3, <2>2, <2>3, <2>4, <2>5 DEF Caller
<1>4. ASSUME NEW k \in Keys, GrowOld(k), UNCHANGED chainVars PROVE CacheInv'
  <2>1. age' \in [Keys -> Ages \cup {"none"}] /\ Cached' = Cached
    BY <1>4 DEF GrowOld, CacheInv, Cached, Ages
  <2> QED
    BY <1>4, <2>1 DEF GrowOld, CacheInv, chainVars
<1>5. CASE UNCHANGED vars \/ (Cool /\ UNCHANGED <<cacheVars, chainVars>>)
  BY <1>1, <1>2, <1>5 DEF vars, chainVars
<1> QED
  BY <1>3, <1>4, <1>5 DEF Next, Time

\* Whatever callers look up, touch and store at once, the cache holds at most
\* maxCacheEntries results, and lastUsed orders exactly those
\* (caching_fetcher.go), for every number of callers, keys and entries.
THEOREM CacheStaysConsistent == Spec => []CacheConsistent
<1>1. Init => CacheInv
  BY CacheStarts
<1>2. CacheInv /\ [Next]_vars => CacheInv'
  BY CacheStep
<1>3. CacheInv => CacheConsistent
  <2> SUFFICES ASSUME CacheInv PROVE CacheConsistent
    OBVIOUS
  <2>1. Cardinality(Entries(order)) = Len(order)
    BY DistinctCount DEF CacheInv
  <2> QED
    BY <2>1 DEF CacheInv, CacheConsistent, Entries
<1> QED
  BY <1>1, <1>2, <1>3, PTL DEF Spec
-----------------------------------------------------------------------------
(* The listing store: types *)

\* What a row may hold, and that a refresh waiting to save knows its search.
StoreTyped == StoreTypeOK /\ (rpc = "save" => rsearch \in Searches)

\* Retiring changes no row but those of gone that are not bookmarked; these
\* are deleted, and the clocks of the others go on.
LEMMA RetireRows ==
    ASSUME StoreTyped, NEW gone, Retire(gone)
    PROVE  /\ row' \in [Pairs -> Searches \cup {NoSearch}]
           /\ removed' \subseteq Pairs /\ rowOld' \subseteq rowOld
           /\ \A p \in Pairs : p \in gone \ saved =>
                 row'[p] = NoSearch /\ p \notin rowOld'
           /\ \A p \in Pairs : p \notin gone \ saved => row'[p] = row[p]
<1>1. row \in [Pairs -> Searches \cup {NoSearch}] /\ removed \subseteq Pairs
      /\ saved \subseteq Pairs
  BY DEF StoreTyped, StoreTypeOK
<1>2. row' = [p \in Pairs |-> IF p \in gone \ saved THEN NoSearch ELSE row[p]]
  BY DEF Retire
<1>3. row' \in [Pairs -> Searches \cup {NoSearch}]
  BY <1>1, <1>2
<1>4. removed' \subseteq Pairs /\ rowOld' = rowOld \ (gone \ saved)
  BY <1>1 DEF Retire
<1> QED
  BY <1>2, <1>3, <1>4

\* Saving gives the saved pairs their rows, with the clock restarted, and
\* changes no other row.
LEMMA SavedRows ==
    ASSUME StoreTyped, NEW new, SaveListings(new),
           \A p \in DOMAIN new : new[p] \in Searches
    PROVE  /\ row' \in [Pairs -> Searches \cup {NoSearch}]
           /\ removed' \subseteq removed /\ rowOld' = rowOld \ DOMAIN new
           /\ \A p \in Pairs : p \in DOMAIN new => row'[p] \in Searches
           /\ \A p \in Pairs : p \notin DOMAIN new => row'[p] = row[p]
<1>1. row \in [Pairs -> Searches \cup {NoSearch}]
  BY DEF StoreTyped, StoreTypeOK
<1>2. row' = [p \in Pairs |-> IF p \in DOMAIN new THEN new[p] ELSE row[p]]
  BY DEF SaveListings
<1>3. row' \in [Pairs -> Searches \cup {NoSearch}]
  BY <1>1, <1>2
<1> QED
  BY <1>2, <1>3 DEF SaveListings

\* Of a finite set of searches that holds one, the order knows a last one.
LEMMA LastSearch ==
    ASSUME NEW S \in SUBSET Searches, S # {}
    PROVE  \E s \in S : \A z \in S : Order[z] <= Order[s]
<1> DEFINE Has(U) == U # {} => \E s \in U : \A z \in U : Order[z] <= Order[s]
<1> DEFINE Good == {n \in Nat : \A U \in SUBSET Searches : Cardinality(U) = n => Has(U)}
<1>1. Order \in [Searches -> Nat] /\ IsFiniteSet(Searches)
  BY ListingConstants
<1>2. \A U \in SUBSET Searches : IsFiniteSet(U)
  BY <1>1, FS_Subset
<1>3. 0 \in Good
  BY <1>2, FS_EmptySet
<1>4. ASSUME NEW n \in Nat, n \in Good
      PROVE  n + 1 \in Good
  <2> SUFFICES ASSUME NEW U \in SUBSET Searches, Cardinality(U) = n + 1, U # {}
               PROVE  \E s \in U : \A z \in U : Order[z] <= Order[s]
    OBVIOUS
  <2>1. PICK x \in U : TRUE
    OBVIOUS
  <2>2. Cardinality(U \ {x}) = n
    <3>1. IsFiniteSet(U)
      BY <1>2
    <3>2. Cardinality(U \ {x}) = Cardinality(U) - 1
      BY <2>1, <3>1, FS_RemoveElement
    <3> QED
      BY <3>2
  <2>3. Has(U \ {x})
    BY <1>4, <2>2
  <2>4. CASE U \ {x} = {}
    BY <1>1, <2>1, <2>4
  <2>5. CASE U \ {x} # {}
    <3>1. PICK y \in U \ {x} : \A z \in U \ {x} : Order[z] <= Order[y]
      BY <2>3, <2>5
    <3>2. CASE Order[x] <= Order[y]
      BY <3>1, <3>2
    <3>3. CASE Order[y] <= Order[x]
      BY <1>1, <3>1, <3>3
    <3> QED
      BY <1>1, <3>1, <3>2, <3>3
  <2> QED
    BY <2>4, <2>5
<1>5. Nat \subseteq Good
  <2> HIDE DEF Good
  <2> QED
    BY <1>3, <1>4, SetInduction
<1>6. Cardinality(S) \in Nat
  BY <1>2, FS_CardinalityType
<1>7. Cardinality(S) \in Good
  BY <1>5, <1>6
<1> QED
  BY <1>7

\* What a push does: for the chat's listings that some search accepts, in got,
\* it saves rows, and it claims them for the searches that accept them.
PushEffect(c, got, K) ==
    /\ row' \in [Pairs -> Searches \cup {NoSearch}]
    /\ removed' \subseteq removed /\ rowOld' = rowOld \ ({c} \X got)
    /\ \A p \in Pairs : p \in {c} \X got => row'[p] \in Searches
    /\ \A p \in Pairs : p \notin {c} \X got => row'[p] = row[p]
    /\ claims' = claims \cup K /\ claimOld' = claimOld \ K
    /\ renewed' = renewed \cup K /\ shown' = shown \cup ({c} \X got)
    /\ excused' = excused \ ({c} \X got)
    /\ got \subseteq Tokens /\ K \subseteq SearchPairs
    /\ \A s \in Searches, t \in Tokens : <<s, t>> \in K => ChatOf[s] = c /\ t \in got

\* Every push has such an effect: a listing that is saved is saved for the
\* last of the searches that accept it, so for a search.
LEMMA PushRows ==
    ASSUME StoreTyped, NEW c \in Chats, NEW pushed \in SUBSET Tokens, NEW failed,
           Ingest(c, pushed, failed)
    PROVE  \E got, K : PushEffect(c, got, K)
<1> DEFINE hit == {s \in Of(c) \ failed : pushed \cap Wants[s] # {}}
<1> DEFINE got == {t \in pushed : \E s \in hit : t \in Wants[s]}
<1> DEFINE last(t) == CHOOSE s \in hit :
                         /\ t \in Wants[s]
                         /\ \A z \in hit : t \in Wants[z] => Order[z] <= Order[s]
<1> DEFINE K == {m \in hit \X pushed : m[2] \in Wants[m[1]]}
<1> DEFINE new == [p \in {c} \X got |-> last(p[2])]
<1>1. /\ SaveListings(new) /\ ClaimNew(K)
      /\ shown' = shown \cup ({c} \X got) /\ renewed' = renewed \cup K
      /\ excused' = excused \ ({c} \X got)
  BY DEF Ingest
<1>2. hit \subseteq Searches /\ \A s \in hit : ChatOf[s] = c
  BY DEF Of
<1>3. ASSUME NEW t \in got
      PROVE  last(t) \in Searches
  <2> DEFINE S == {s \in hit : t \in Wants[s]}
  <2>1. S # {} /\ S \in SUBSET Searches
    BY <1>2
  <2>2. \E s \in S : \A z \in S : Order[z] <= Order[s]
    <3> HIDE DEF S
    <3> QED
      BY <2>1, LastSearch
  <2>3. \E s \in hit : /\ t \in Wants[s]
                       /\ \A z \in hit : t \in Wants[z] => Order[z] <= Order[s]
    BY <2>2
  <2>4. last(t) \in hit
    BY <2>3
  <2> QED
    BY <1>2, <2>4
<1>4. DOMAIN new = {c} \X got /\ \A p \in DOMAIN new : new[p] \in Searches
  <2> HIDE DEF last, got, hit
  <2> QED
    BY <1>3
<1>5. /\ got \subseteq Tokens /\ K \subseteq SearchPairs
      /\ \A s \in Searches, t \in Tokens : <<s, t>> \in K => ChatOf[s] = c /\ t \in got
  BY <1>2 DEF SearchPairs
<1> HIDE DEF hit, got, last, K, new
<1>6. /\ row' \in [Pairs -> Searches \cup {NoSearch}]
      /\ removed' \subseteq removed /\ rowOld' = rowOld \ DOMAIN new
      /\ \A p \in Pairs : p \in DOMAIN new => row'[p] \in Searches
      /\ \A p \in Pairs : p \notin DOMAIN new => row'[p] = row[p]
  BY <1>1, <1>4, SavedRows
<1>7. PushEffect(c, got, K)
  BY <1>1, <1>4, <1>5, <1>6 DEF PushEffect, ClaimNew
<1> QED
  BY <1>7

\* While a cycle claims and saves, rows change only by being saved for a search.
LEMMA MatchRows ==
    ASSUME StoreTyped, Match
    PROVE  /\ UNCHANGED <<serverFetch, market, shown>>
           /\ \/ UNCHANGED rowVars
              \/ \E new : SaveListings(new) /\ \A p \in DOMAIN new : new[p] \in Searches
<1> DEFINE Saves == \E new : SaveListings(new) /\ \A p \in DOMAIN new : new[p] \in Searches
<1> DEFINE Rows == UNCHANGED <<serverFetch, market, shown>> /\ (UNCHANGED rowVars \/ Saves)
<1>1. /\ pick \in [Pairs -> Searches \cup {NoSearch}] /\ cur \in Searches \cup {NoSearch}
  BY DEF StoreTyped, StoreTypeOK
<1>2. ASSUME NEW f, NEW D, CycleStart(f, D) PROVE Rows
  BY <1>2 DEF CycleStart, histVars
<1>3. ASSUME NEW m, ClaimMatch(m) \/ ClaimFails(m) PROVE Rows
  BY <1>3 DEF ClaimMatch, ClaimFails
<1>4. ASSUME NEW m, Release(m) \/ ReleaseFails(m) PROVE Rows
  BY <1>4 DEF Release, ReleaseFails
<1>5. ASSUME NEW p \in Pairs, SaveDrop(p) PROVE Rows
  <2> DEFINE new == [q \in {p} |-> pick[p]]
  <2>1. SaveListings(new) /\ pick[p] # NoSearch /\ UNCHANGED <<serverFetch, market, shown>>
    BY <1>5 DEF SaveDrop
  <2>2. \A q \in DOMAIN new : new[q] \in Searches
    BY <1>1, <2>1
  <2> HIDE DEF new
  <2> QED
    BY <2>1, <2>2
<1>6. ASSUME NEW p \in Pairs, DropFails(p) PROVE Rows
  BY <1>6 DEF DropFails
<1>7. ASSUME NEW s, NEW T, Process(s, T) PROVE Rows
  BY <1>7 DEF Process, histVars
<1>8. ASSUME NEW T, SaveSearch(T) PROVE Rows
  <2> DEFINE new == [p \in Picks(cur) |-> cur]
  <2>1. SaveListings(new) /\ cur # NoSearch /\ UNCHANGED <<serverFetch, market, shown>>
    BY <1>8 DEF SaveSearch, BatchDone
  <2>2. \A p \in DOMAIN new : new[p] \in Searches
    BY <1>1, <2>1
  <2> HIDE DEF new
  <2> QED
    BY <2>1, <2>2
<1>9. ASSUME SaveFails PROVE Rows
  BY <1>9 DEF SaveFails, histVars
<1>10. Rows
  <2> HIDE DEF Rows
  <2> QED
    BY <1>2, <1>3, <1>4, <1>5, <1>6, <1>7, <1>8, <1>9 DEF Match
<1> QED
  BY <1>10

\* What a push retires is charged to the budget, and is no more than that.
StoreInv == StoreTyped /\ \A c \in Chats : retired[c] <= used[c]

\* The store starts empty.
LEMMA StoreStarts == StoreInit => StoreInv
<1> SUFFICES ASSUME StoreInit PROVE StoreInv
  OBVIOUS
<1>1. RemovalBudget \in Nat
  BY ListingConstants
<1>2. row \in [Pairs -> Searches \cup {NoSearch}] /\ \A c \in Chats : retired[c] <= used[c]
  BY DEF StoreInit
<1>3. used \in [Chats -> 0 .. RemovalBudget] /\ retired \in [Chats -> Nat]
  BY <1>1 DEF StoreInit
<1> QED
  BY <1>2, <1>3 DEF StoreInit, StoreInv, StoreTyped, StoreTypeOK, NoFeeds, NoPicks

\* A removal is charged what it may take, which is never more than is left,
\* and retires no more rows than that.
LEMMA RemovalCharged ==
    ASSUME StoreInv, NEW c \in Chats, NEW tokens \in SUBSET Tokens,
           IngestRemoved(c, tokens)
    PROVE  /\ used' \in [Chats -> 0 .. RemovalBudget] /\ retired' \in [Chats -> Nat]
           /\ \A d \in Chats : retired'[d] <= used'[d]
<1> DEFINE allowed == Take(c, Cardinality(tokens))
<1>1. RemovalBudget \in Nat /\ IsFiniteSet(Tokens)
  BY ListingConstants
<1>2. used \in [Chats -> 0 .. RemovalBudget] /\ retired \in [Chats -> Nat]
  BY DEF StoreInv, StoreTyped, StoreTypeOK
<1>3. Cardinality(tokens) \in Nat
  BY <1>1, FS_Subset, FS_CardinalityType
<1>4. allowed \in Nat /\ used[c] + allowed <= RemovalBudget
  BY <1>1, <1>2, <1>3 DEF Take
<1>5. PICK part \in SUBSET tokens :
         /\ Cardinality(part) = allowed
         /\ used' = [used EXCEPT ![c] = @ + allowed]
         /\ retired' = [retired EXCEPT ![c] =
                          @ + Cardinality({t \in part : HasRow(<<c, t>>)})]
  BY DEF IngestRemoved
<1> DEFINE gone == {t \in part : HasRow(<<c, t>>)}
<1>6. Cardinality(gone) \in Nat /\ Cardinality(gone) <= allowed
  <2>1. IsFiniteSet(part)
    BY <1>1, FS_Subset
  <2>2. gone \subseteq part
    OBVIOUS
  <2> HIDE DEF gone
  <2> QED
    BY <1>5, <2>1, <2>2, FS_Subset, FS_CardinalityType
<1> HIDE DEF allowed, gone
<1>7. /\ used' = [used EXCEPT ![c] = @ + allowed]
      /\ retired' = [retired EXCEPT ![c] = @ + Cardinality(gone)]
  BY <1>5 DEF gone, allowed
<1>8. retired[c] <= used[c] /\ \A d \in Chats : retired[d] <= used[d]
  BY DEF StoreInv
<1> QED
  BY <1>1, <1>2, <1>4, <1>6, <1>7, <1>8

\* Claiming, choosing, saving and releasing keep the types of the tables, and
\* of what the cycle carries along.
LEMMA MatchKeeps ==
    ASSUME StoreInv, Match
    PROVE  StoreInv'
<1> DEFINE Tables == /\ row' \in [Pairs -> Searches \cup {NoSearch}]
                     /\ removed' \subseteq Pairs /\ rowOld' \subseteq Pairs
<1>1. Tables /\ UNCHANGED <<serverFetch, market, shown>>
  <2>1. /\ UNCHANGED <<serverFetch, market, shown>>
        /\ \/ UNCHANGED rowVars
           \/ \E new : SaveListings(new) /\ \A p \in DOMAIN new : new[p] \in Searches
    BY MatchRows DEF StoreInv
  <2>2. ASSUME UNCHANGED rowVars PROVE Tables
    BY <2>2 DEF rowVars, StoreInv, StoreTyped, StoreTypeOK
  <2>3. ASSUME NEW new, SaveListings(new), \A p \in DOMAIN new : new[p] \in Searches
        PROVE  Tables
    <3>1. /\ row' \in [Pairs -> Searches \cup {NoSearch}]
          /\ removed' \subseteq removed /\ rowOld' = rowOld \ DOMAIN new
      BY <2>3, SavedRows DEF StoreInv
    <3> QED
      BY <3>1 DEF StoreInv, StoreTyped, StoreTypeOK
  <2> HIDE DEF Tables
  <2> QED
    BY <2>1, <2>2, <2>3
<1> USE DEF StoreInv, StoreTyped, StoreTypeOK
<1>2. \A m \in SearchPairs : Pair(m) \in Pairs /\ m[1] \in Searches
  BY ListingConstants DEF Pair, Pairs, SearchPairs
<1>3. ASSUME NEW f \in Feeds, NEW D \in SUBSET {m[2] : m \in Matches(f)}, CycleStart(f, D)
      PROVE  StoreInv'
  <2>1. DOMAIN f \subseteq FeedKeys
    BY DEF Feeds
  <2>2. Matches(f) \subseteq SearchPairs /\ \A m \in SearchPairs : m[2] \in Tokens
    BY DEF Matches, SearchPairs
  <2>3. Matches(f) \subseteq SearchPairs /\ D \subseteq Tokens
    BY <2>2
  <2>4. /\ phase' = "match" /\ feed' = f /\ exact' \subseteq DOMAIN f
        /\ left' = Matches(f) /\ drops' = D
    BY <1>3 DEF CycleStart
  <2> QED
    BY <1>1, <1>3, <2>1, <2>3, <2>4 DEF CycleStart, claimVars, userVars, refreshVars,
       budgetVars, histVars
<1>4. ASSUME NEW m \in SearchPairs, ClaimMatch(m)
      PROVE  StoreInv'
  <2>1. pick' \in [Pairs -> Searches \cup {NoSearch}]
    BY <1>2, <1>4 DEF ClaimMatch
  <2>2. /\ claims' \subseteq SearchPairs /\ claimOld' \subseteq claims'
        /\ renewed' \subseteq SearchPairs
    BY <1>4 DEF ClaimMatch, ClaimNew
  <2> QED
    BY <1>1, <1>4, <2>1, <2>2 DEF ClaimMatch, userVars, refreshVars, budgetVars
<1>5. ASSUME NEW m \in SearchPairs, ClaimFails(m)
      PROVE  StoreInv'
  <2>1. /\ claims' \subseteq SearchPairs /\ claimOld' \subseteq claims'
        /\ renewed' \subseteq SearchPairs /\ excused' \subseteq Pairs
    BY <1>2, <1>5 DEF ClaimFails, ClaimNew, claimVars
  <2> QED
    BY <1>1, <1>5, <2>1 DEF ClaimFails, userVars, refreshVars, budgetVars
<1>6. ASSUME NEW m \in SearchPairs, Release(m)
      PROVE  StoreInv'
  BY <1>1, <1>6 DEF Release, userVars, refreshVars, budgetVars
<1>7. ASSUME NEW m \in SearchPairs, ReleaseFails(m)
      PROVE  StoreInv'
  <2>1. excused' \subseteq Pairs
    BY <1>2, <1>7 DEF ReleaseFails
  <2> QED
    BY <1>1, <1>7, <2>1 DEF ReleaseFails, claimVars, userVars, refreshVars, budgetVars
<1>8. ASSUME NEW p \in Pairs, SaveDrop(p)
      PROVE  StoreInv'
  <2>1. pick' \in [Pairs -> Searches \cup {NoSearch}] /\ excused' \subseteq Pairs
    BY <1>8 DEF SaveDrop
  <2> QED
    BY <1>1, <1>8, <2>1 DEF SaveDrop, claimVars, userVars, refreshVars, budgetVars
<1>9. ASSUME NEW p \in Pairs, DropFails(p)
      PROVE  StoreInv'
  <2>1. pick' \in [Pairs -> Searches \cup {NoSearch}] /\ excused' \subseteq Pairs
    BY <1>9 DEF DropFails
  <2> QED
    BY <1>1, <1>9, <2>1 DEF DropFails, claimVars, userVars, refreshVars, budgetVars
<1>10. ASSUME NEW s \in Searches, NEW T \in SUBSET Tokens, Process(s, T)
       PROVE  StoreInv'
  <2>1. {p[2] : p \in Picks(s)} \subseteq Tokens
    BY DEF Picks, Pairs
  <2>2. give' \subseteq SearchPairs
    BY <1>10, <2>1 DEF Process, ClaimsOf, SearchPairs
  <2> QED
    BY <1>1, <1>10, <2>2 DEF Process, claimVars, userVars, refreshVars, budgetVars, histVars
<1>11. ASSUME NEW T \in SUBSET Tokens, BatchDone(T)
       PROVE  /\ give' \subseteq SearchPairs /\ cur' = NoSearch /\ ready' = {}
              /\ pick' \in [Pairs -> Searches \cup {NoSearch}]
  BY <1>11 DEF BatchDone, ClaimsOf, SearchPairs
<1>12. ASSUME NEW T \in SUBSET Tokens, SaveSearch(T)
       PROVE  StoreInv'
  BY <1>1, <1>11, <1>12 DEF SaveSearch, claimVars, userVars, refreshVars, budgetVars
<1>13. ASSUME SaveFails
       PROVE  StoreInv'
  <2>1. {p[2] : p \in Picks(cur)} \in SUBSET Tokens
    BY DEF Picks, Pairs
  <2> HIDE DEF StoreInv, StoreTyped, StoreTypeOK, Tables
  <2>2. /\ give' \subseteq SearchPairs /\ cur' = NoSearch /\ ready' = {}
        /\ pick' \in [Pairs -> Searches \cup {NoSearch}]
    BY <1>11, <1>13, <2>1 DEF SaveFails
  <2> QED
    BY <1>1, <1>13, <2>2 DEF SaveFails, claimVars, userVars, refreshVars, budgetVars,
       histVars, StoreInv, StoreTyped, StoreTypeOK, Tables
<1> HIDE DEF StoreInv
<1> QED
  BY <1>3, <1>4, <1>5, <1>6, <1>7, <1>8, <1>9, <1>10, <1>12, <1>13 DEF Match

\* Every step keeps the types and the charge.
LEMMA StoreKeeps == StoreInv /\ [StoreNext]_storeVars => StoreInv'
<1> SUFFICES ASSUME StoreInv, [StoreNext]_storeVars
             PROVE  StoreInv'
  OBVIOUS
<1> USE DEF StoreInv, StoreTyped, StoreTypeOK
<1>1. CASE CycleDone
  BY <1>1 DEF CycleDone, rowVars, claimVars, userVars, saveVars, refreshVars, budgetVars,
              histVars
<1>2. CASE Match \/ SweepStart
  BY <1>2, MatchKeeps DEF SweepStart, rowVars, claimVars, userVars, refreshVars, budgetVars,
     histVars
<1>3. ASSUME NEW s \in Searches, Sweep(s)
      PROVE  StoreInv'
  <2>1. row' \in [Pairs -> Searches \cup {NoSearch}]
        /\ removed' \subseteq Pairs /\ rowOld' \subseteq Pairs /\ excused' \subseteq Pairs
    <3>1. CASE KeyOf[s] \notin DOMAIN feed
      BY <1>3, <3>1 DEF Sweep, rowVars
    <3>2. CASE KeyOf[s] \in DOMAIN feed
      <4>1. Retire(Stale(s, feed[KeyOf[s]]))
            /\ excused' \subseteq excused \cup Stale(s, feed[KeyOf[s]])
        BY <1>3, <3>2 DEF Sweep, Deleted
      <4>2. Stale(s, feed[KeyOf[s]]) \subseteq Pairs
        BY DEF Stale
      <4> QED
        BY <4>1, <4>2, RetireRows
    <3> QED
      BY <3>1, <3>2
  <2>2. DOMAIN feed' \subseteq FeedKeys /\ todo' \subseteq Searches /\ exact' \subseteq FeedKeys
    BY <1>3 DEF Sweep, Swept
  <2> QED
    BY <1>3, <2>1, <2>2 DEF Sweep, claimVars, userVars, saveVars, refreshVars, budgetVars
<1>4. CASE CycleCrash
  <2>1. excused' \subseteq Pairs /\ DOMAIN feed' = {} /\ pick' \in [Pairs -> {NoSearch}]
    BY <1>4 DEF CycleCrash, NoFeeds, NoPicks
  <2> QED
    BY <1>4, <2>1 DEF CycleCrash, rowVars, claimVars, userVars, refreshVars, budgetVars
<1>5. CASE BudgetReset
  <2>1. used' = [c \in Chats |-> 0] /\ retired' = [c \in Chats |-> 0]
    BY <1>5 DEF BudgetReset
  <2>2. /\ used' \in [Chats -> 0 .. RemovalBudget] /\ retired' \in [Chats -> Nat]
        /\ \A d \in Chats : retired'[d] <= used'[d]
    BY <2>1, ListingConstants
  <2> QED
    BY <1>5, <2>2 DEF BudgetReset, rowVars, claimVars, userVars, cycleVars, saveVars, refreshVars,
                      histVars
<1>6. CASE RefreshSave
  <2> DEFINE new == [p \in {ChatOf[rsearch]} \X fresh |-> rsearch]
  <2>1. SaveListings(new) /\ \A p \in DOMAIN new : new[p] \in Searches
    BY <1>6 DEF RefreshSave
  <2>2. row' \in [Pairs -> Searches \cup {NoSearch}]
        /\ removed' \subseteq removed /\ rowOld' \subseteq rowOld
    <3> HIDE DEF new
    <3> QED
      BY <2>1, SavedRows
  <2> QED
    BY <1>6, <2>2 DEF RefreshSave, claimVars, userVars, cycleVars, saveVars, budgetVars
<1>7. CASE RefreshFails
  BY <1>7 DEF RefreshFails, rowVars, claimVars, userVars, cycleVars, saveVars, budgetVars, histVars
<1>8. CASE RowsAge
  BY <1>8 DEF RowsAge, claimVars, userVars, cycleVars, saveVars, refreshVars, budgetVars
<1>9. CASE ClaimsAge
  BY <1>9 DEF ClaimsAge, rowVars, userVars, cycleVars, saveVars, refreshVars, budgetVars
<1>10. CASE PruneClaims
  BY <1>10 DEF PruneClaims, rowVars, userVars, cycleVars, saveVars, refreshVars, budgetVars,
               histVars
<1>11. CASE PruneListings
  <2>1. row' = [p \in Pairs |-> IF p \in rowOld \ saved THEN NoSearch ELSE row[p]]
    BY <1>11 DEF PruneListings
  <2>2. row' \in [Pairs -> Searches \cup {NoSearch}]
    BY <2>1
  <2>3. excused' \subseteq Pairs
    BY <1>11 DEF PruneListings, Deleted
  <2> QED
    BY <1>11, <2>2, <2>3 DEF PruneListings, claimVars, userVars, cycleVars, saveVars,
                      refreshVars, budgetVars
<1>12. ASSUME NEW s \in Searches, SweepFails(s)
       PROVE  StoreInv'
  <2>1. DOMAIN feed' \subseteq FeedKeys /\ todo' \subseteq Searches /\ exact' \subseteq FeedKeys
    BY <1>12 DEF SweepFails, Swept
  <2> QED
    BY <1>12, <2>1 DEF SweepFails, rowVars, claimVars, userVars, saveVars, refreshVars,
                       budgetVars, histVars
<1>13. ASSUME NEW t \in Tokens, Post(t)
       PROVE  StoreInv'
  BY <1>13 DEF Post, rowVars, claimVars, userVars, cycleVars, saveVars, refreshVars, budgetVars
<1>14. ASSUME NEW t \in Tokens, Withdraw(t)
       PROVE  StoreInv'
  BY <1>14 DEF Withdraw, rowVars, claimVars, userVars, cycleVars, saveVars, refreshVars, budgetVars,
               histVars
<1>15. ASSUME NEW t \in Tokens, DropListing(t)
       PROVE  StoreInv'
  <2>1. Retire(Chats \X {t}) /\ excused' \subseteq Pairs
    BY <1>15 DEF DropListing, Deleted, Pairs
  <2>2. row' \in [Pairs -> Searches \cup {NoSearch}]
        /\ removed' \subseteq Pairs /\ rowOld' \subseteq rowOld
    BY <2>1, RetireRows
  <2> QED
    BY <1>15, <2>1, <2>2 DEF DropListing, claimVars, userVars, cycleVars, saveVars, refreshVars,
                             budgetVars
<1>16. ASSUME NEW s \in Searches, NEW T \in SUBSET Tokens, RefreshDelete(s, T)
       PROVE  StoreInv'
  <2>1. Retire(Stale(s, T)) /\ excused' \subseteq excused \cup Stale(s, T)
    BY <1>16 DEF RefreshDelete, Deleted
  <2>2. Stale(s, T) \subseteq Pairs
    BY DEF Stale
  <2>3. row' \in [Pairs -> Searches \cup {NoSearch}]
        /\ removed' \subseteq Pairs /\ rowOld' \subseteq rowOld
    BY <2>1, RetireRows
  <2> QED
    BY <1>16, <2>1, <2>2, <2>3 DEF RefreshDelete, claimVars, userVars, cycleVars,
                                  saveVars, budgetVars
<1>17. ASSUME NEW p \in Pairs, User(p)
       PROVE  StoreInv'
  BY <1>17 DEF User, SaveBookmark, RemoveBookmark, HideListing, UnhideListing, rowVars,
               claimVars, cycleVars, saveVars, refreshVars, budgetVars, histVars
<1>18. ASSUME NEW c \in Chats, NEW T \in SUBSET Tokens, NEW failed, Ingest(c, T, failed)
       PROVE  StoreInv'
  <2>1. PICK got, K : PushEffect(c, got, K)
    BY <1>18, PushRows
  <2>2. row' \in [Pairs -> Searches \cup {NoSearch}]
        /\ removed' \subseteq Pairs /\ rowOld' \subseteq Pairs
    BY <2>1 DEF PushEffect
  <2>3. claims' \subseteq SearchPairs /\ claimOld' \subseteq claims'
        /\ renewed' \subseteq SearchPairs /\ excused' \subseteq Pairs
    BY <2>1 DEF PushEffect
  <2>4. shown' \subseteq Pairs
    BY <2>1 DEF PushEffect, Pairs
  <2>5. UNCHANGED <<serverFetch, market, userVars, cycleVars, refreshVars, budgetVars>>
    BY <1>18 DEF Ingest
  <2> QED
    BY <2>2, <2>3, <2>4, <2>5 DEF userVars, cycleVars, saveVars, refreshVars, budgetVars
<1>19. ASSUME NEW c \in Chats, NEW T \in SUBSET Tokens, IngestRemoved(c, T)
       PROVE  StoreInv'
  <2>1. PICK part \in SUBSET T : /\ Retire({c} \X part)
                                  /\ excused' \subseteq excused \cup ({c} \X part)
    BY <1>19 DEF IngestRemoved, Deleted
  <2>2. row' \in [Pairs -> Searches \cup {NoSearch}]
        /\ removed' \subseteq Pairs /\ rowOld' \subseteq rowOld
    BY <2>1, RetireRows
  <2>3. excused' \subseteq Pairs
    BY <2>1 DEF Pairs
  <2>4. /\ used' \in [Chats -> 0 .. RemovalBudget] /\ retired' \in [Chats -> Nat]
        /\ \A d \in Chats : retired'[d] <= used'[d]
    BY <1>19, RemovalCharged
  <2>5. UNCHANGED <<serverFetch, market, claimVars, userVars, cycleVars, refreshVars,
                    shown, renewed>>
    BY <1>19 DEF IngestRemoved
  <2> QED
    BY <2>2, <2>3, <2>4, <2>5 DEF claimVars, userVars, cycleVars, saveVars, refreshVars
<1>20. CASE UNCHANGED storeVars
  BY <1>20 DEF storeVars, rowVars, claimVars, userVars, cycleVars, saveVars, refreshVars,
               budgetVars, histVars
<1> HIDE DEF StoreInv
<1> QED
  BY <1>1, <1>2, <1>3, <1>4, <1>5, <1>6, <1>7, <1>8, <1>9, <1>10, <1>11, <1>12, <1>13,
     <1>14, <1>15, <1>16, <1>17, <1>18, <1>19, <1>20 DEF StoreNext, Cycle

\* The tables of the store stay what they are declared as, under whatever
\* interleaving of cycles, pushes, refreshes and retention, and no push
\* retires rows that the chat's budget was not charged for.
THEOREM StoreStaysTyped == StoreSpec => []StoreInv
<1>1. StoreInit => StoreInv
  BY StoreStarts
<1>2. StoreInv /\ [StoreNext]_storeVars => StoreInv'
  BY StoreKeeps
<1> QED
  BY <1>1, <1>2, PTL DEF StoreSpec

-----------------------------------------------------------------------------
(* The listing store: live listings *)

\* What a cycle has chosen, and what it still has to claim or to release, the
\* searches concerned want.
Wanted ==
    /\ \A p \in Pairs : pick[p] # NoSearch => pick[p] \in Of(p[1]) /\ p[2] \in Wants[pick[p]]
    /\ \A m \in left \cup give : m[2] \in Wants[m[1]]
    /\ cur # NoSearch => \A t \in ready : t \in Wants[cur]

\* Whatever a cycle matches, chooses and releases, searches want.
LEMMA WantedStep ==
    StoreInv /\ Wanted /\ [StoreNext]_storeVars => Wanted'
<1> SUFFICES ASSUME StoreInv, Wanted, [StoreNext]_storeVars
             PROVE  Wanted'
  OBVIOUS
<1>1. /\ pick \in [Pairs -> Searches \cup {NoSearch}] /\ give \subseteq SearchPairs
      /\ left \subseteq SearchPairs /\ cur \in Searches \cup {NoSearch}
  BY DEF StoreInv, StoreTyped, StoreTypeOK
<1>2. ASSUME UNCHANGED saveVars PROVE Wanted'
  BY <1>2 DEF saveVars, Wanted, Of
<1>3. ASSUME NEW f, NEW D, CycleStart(f, D) PROVE Wanted'
  <2>1. \A m \in Matches(f) : m[2] \in Wants[m[1]]
    BY DEF Matches
  <2> QED
    BY <1>3, <2>1 DEF CycleStart, Wanted, Of
<1>4. ASSUME NEW m \in SearchPairs, ClaimMatch(m) PROVE Wanted'
  <2>1. Pair(m) = <<ChatOf[m[1]], m[2]>> /\ Pair(m) \in Pairs /\ m[1] \in Of(ChatOf[m[1]])
    BY ListingConstants DEF Pair, Pairs, SearchPairs, Of
  <2>2. m[2] \in Wants[m[1]] /\ left' \subseteq left
    BY <1>4 DEF ClaimMatch, Wanted
  <2>3. pick' = pick \/ pick' = [pick EXCEPT ![Pair(m)] = m[1]]
    BY <1>4 DEF ClaimMatch
  <2>4. \A p \in Pairs : pick'[p] # NoSearch => pick'[p] \in Of(p[1]) /\ p[2] \in Wants[pick'[p]]
    <3>1. CASE pick' = pick
      BY <3>1 DEF Wanted
    <3>2. CASE pick' = [pick EXCEPT ![Pair(m)] = m[1]]
      <4>1. \A p \in Pairs : pick'[p] = IF p = Pair(m) THEN m[1] ELSE pick[p]
        BY <1>1, <3>2
      <4>2. Pair(m)[1] = ChatOf[m[1]] /\ Pair(m)[2] = m[2]
        BY <2>1
      <4> QED
        BY <2>1, <2>2, <4>1, <4>2 DEF Wanted
    <3> QED
      BY <2>3, <3>1, <3>2
  <2> QED
    BY <1>4, <2>2, <2>4 DEF ClaimMatch, Wanted, Of
<1>5. ASSUME NEW m, ClaimFails(m) \/ Release(m) \/ ReleaseFails(m) PROVE Wanted'
  BY <1>5 DEF ClaimFails, Release, ReleaseFails, Wanted, Of
<1>6. ASSUME NEW p \in Pairs, SaveDrop(p) \/ DropFails(p) PROVE Wanted'
  <2>1. pick' = [pick EXCEPT ![p] = NoSearch] /\ UNCHANGED <<left, give, cur, ready>>
    BY <1>6 DEF SaveDrop, DropFails
  <2>2. \A q \in Pairs : pick'[q] # NoSearch => pick'[q] = pick[q]
    BY <1>1, <2>1
  <2> QED
    BY <2>1, <2>2 DEF Wanted, Of
<1>7. ASSUME NEW s \in Searches, NEW T, Process(s, T) PROVE Wanted'
  <2>1. \A p \in Picks(s) : p[2] \in Wants[s]
    BY ListingConstants DEF Picks, Wanted
  <2>2. /\ T \subseteq {p[2] : p \in Picks(s)} /\ cur' = s /\ ready' = T
        /\ give' = ClaimsOf(s, {p[2] : p \in Picks(s)} \ T) /\ UNCHANGED <<left, pick>>
    BY <1>7 DEF Process
  <2>3. \A m \in give' : m[2] \in Wants[m[1]]
    BY <2>1, <2>2 DEF ClaimsOf
  <2>4. \A t \in ready' : t \in Wants[cur']
    BY <2>1, <2>2
  <2> QED
    BY <2>2, <2>3, <2>4 DEF Wanted, Of
<1>8. ASSUME NEW T, BatchDone(T), left' = left, \A t \in T : t \in Wants[cur]
      PROVE  Wanted'
  <2>1. /\ give' = ClaimsOf(cur, T) /\ cur' = NoSearch
        /\ pick' = [p \in Pairs |-> IF pick[p] = cur THEN NoSearch ELSE pick[p]]
    BY <1>8 DEF BatchDone
  <2>2. \A p \in Pairs : pick'[p] # NoSearch => pick'[p] = pick[p]
    BY <2>1
  <2>3. \A m \in give' : m[2] \in Wants[m[1]]
    BY <1>8, <2>1 DEF ClaimsOf
  <2> QED
    BY <1>8, <2>1, <2>2, <2>3 DEF Wanted, Of
<1>9. ASSUME NEW T, SaveSearch(T) PROVE Wanted'
  BY <1>8, <1>9 DEF SaveSearch, BatchDone, Wanted
<1>10. CASE SaveFails
  <2>1. \A p \in Picks(cur) : cur # NoSearch => p[2] \in Wants[cur]
    BY DEF Picks, Wanted
  <2> QED
    BY <1>8, <1>10, <2>1 DEF SaveFails, BatchDone
<1>11. ASSUME Match PROVE Wanted'
  BY <1>3, <1>4, <1>5, <1>6, <1>7, <1>9, <1>10, <1>11 DEF Match
<1>12. CASE CycleCrash
  <2>1. \A p \in Pairs : pick'[p] = NoSearch
    BY <1>12 DEF CycleCrash, NoPicks
  <2> QED
    BY <1>12, <2>1 DEF CycleCrash, Wanted
<1>13. CASE SweepStart
  BY <1>13 DEF SweepStart, Wanted, Of
<1>14. ASSUME CycleDone \/ \E s : Sweep(s) \/ SweepFails(s)
       PROVE  UNCHANGED saveVars
  BY <1>14 DEF CycleDone, Sweep, SweepFails
<1>15. ASSUME \/ BudgetReset \/ RefreshSave \/ RefreshFails \/ RowsAge \/ ClaimsAge
              \/ PruneClaims \/ PruneListings
       PROVE  UNCHANGED saveVars
  BY <1>15 DEF BudgetReset, RefreshSave, RefreshFails, RowsAge, ClaimsAge, PruneClaims,
     PruneListings, cycleVars
<1>16. ASSUME NEW t, Post(t) \/ Withdraw(t) \/ DropListing(t)
       PROVE  UNCHANGED saveVars
  BY <1>16 DEF Post, Withdraw, DropListing, cycleVars
<1>17. ASSUME \/ \E s, T : RefreshDelete(s, T)
              \/ \E p : User(p)
              \/ \E c, T, F : Ingest(c, T, F)
              \/ \E c, T : IngestRemoved(c, T)
       PROVE  UNCHANGED saveVars
  BY <1>17 DEF RefreshDelete, User, Ingest, IngestRemoved, cycleVars
<1>18. CASE UNCHANGED storeVars
  BY <1>2, <1>18 DEF storeVars, cycleVars
<1> HIDE DEF Wanted
<1> QED
  BY <1>2, <1>11, <1>12, <1>13, <1>14, <1>15, <1>16, <1>17, <1>18 DEF StoreNext, Cycle

\* VisibleOrExcused survives a step that puts nothing on the market, if each
\* live pair it leaves without a row and without excuse was so before, and is
\* under way, is wanted by a search without a claim, or was not under way and
\* is claimed for no further search.
LEMMA VisibleChanged ==
    ASSUME VisibleOrExcused, market' \subseteq market,
           \A p \in Pairs : p[2] \in market' /\ row'[p] = NoSearch /\ p \notin excused' =>
              /\ row[p] = NoSearch /\ p \notin excused
              /\ \/ (UnderWay(p))'
                 \/ \E s \in Of(p[1]) : p[2] \in Wants[s] /\ <<s, p[2]>> \notin claims'
                 \/ /\ ~UnderWay(p)
                    /\ \A s \in Of(p[1]) : <<s, p[2]>> \in claims' => <<s, p[2]>> \in claims
    PROVE  VisibleOrExcused'
<1> SUFFICES ASSUME NEW p \in Pairs, p[2] \in market', row'[p] = NoSearch,
                    p \notin excused', \E s \in Of(p[1]) : p[2] \in Wants[s]
             PROVE  \/ \E s \in Of(p[1]) : p[2] \in Wants[s] /\ <<s, p[2]>> \notin claims'
                    \/ (UnderWay(p))'
  BY DEF VisibleOrExcused, HasRow, ClaimedByAll, Of
<1>1. p[2] \in market /\ row[p] = NoSearch /\ p \notin excused
  OBVIOUS
<1>2. CASE ~UnderWay(p) /\ \A s \in Of(p[1]) : <<s, p[2]>> \in claims' => <<s, p[2]>> \in claims
  <2>1. PICK s \in Of(p[1]) : p[2] \in Wants[s] /\ <<s, p[2]>> \notin claims
    BY <1>1, <1>2 DEF VisibleOrExcused, HasRow, ClaimedByAll
  <2> QED
    BY <1>2, <2>1
<1> QED
  BY <1>1, <1>2

\* In particular a step that leaves the cycle's choices alone.
LEMMA VisibleKept ==
    ASSUME VisibleOrExcused, market' \subseteq market, UNCHANGED <<pick, give>>,
           \A p \in Pairs : p[2] \in market' /\ row'[p] = NoSearch /\ p \notin excused' =>
              /\ row[p] = NoSearch /\ p \notin excused
              /\ \A s \in Of(p[1]) : <<s, p[2]>> \in claims' => <<s, p[2]>> \in claims
    PROVE  VisibleOrExcused'
<1>1. \A p \in Pairs : UnderWay(p) => (UnderWay(p))'
  BY DEF UnderWay, Of
<1> QED
  BY <1>1, VisibleChanged

\* Rows that are retired with an excuse, or are off the market, cost nothing.
LEMMA VisibleRetired ==
    ASSUME StoreInv, VisibleOrExcused, NEW gone, Retire(gone),
           UNCHANGED <<market, claims, pick, give>>, excused \subseteq excused',
           \A p \in Deleted(gone) \cap Pairs : p \in excused' \/ p[2] \notin market
    PROVE  VisibleOrExcused'
<1>1. \A p \in Pairs : p \notin gone \ saved => row'[p] = row[p]
  BY RetireRows DEF StoreInv
<1>2. \A p \in Pairs : p[2] \in market' /\ row'[p] = NoSearch /\ p \notin excused' =>
         /\ row[p] = NoSearch /\ p \notin excused
         /\ \A s \in Of(p[1]) : <<s, p[2]>> \in claims' => <<s, p[2]>> \in claims
  BY <1>1 DEF Deleted, HasRow
<1> QED
  BY <1>2, VisibleKept

\* A posted listing that lost its row while it was away is excused; if its
\* row or a claim is missing the cycle or the row is there to show it.
LEMMA VisiblePosted ==
    ASSUME VisibleOrExcused, NEW t, Post(t)
    PROVE  VisibleOrExcused'
<1>1. /\ market' = market \cup {t} /\ row' = row /\ claims' = claims
      /\ excused' = excused \cup {p \in Pairs : p[2] = t /\ ~HasRow(p) /\ ClaimedByAll(p)}
      /\ UNCHANGED <<pick, give>>
  BY DEF Post, rowVars, claimVars, cycleVars, saveVars
<1> SUFFICES ASSUME NEW p \in Pairs, p[2] \in market', row'[p] = NoSearch,
                    p \notin excused', \E s \in Of(p[1]) : p[2] \in Wants[s]
             PROVE  \/ \E s \in Of(p[1]) : p[2] \in Wants[s] /\ <<s, p[2]>> \notin claims'
                    \/ (UnderWay(p))'
  BY DEF VisibleOrExcused, HasRow, ClaimedByAll, Of
<1>2. CASE p[2] = t
  BY <1>1, <1>2 DEF HasRow, ClaimedByAll
<1>3. CASE p[2] # t
  <2>1. UnderWay(p) => (UnderWay(p))'
    BY <1>1 DEF UnderWay, Of
  <2>2. p[2] \in market /\ p \notin excused /\ row[p] = NoSearch
    BY <1>1, <1>3
  <2> QED
    BY <1>1, <2>1, <2>2 DEF VisibleOrExcused, HasRow, ClaimedByAll
<1> QED
  BY <1>2, <1>3

\* What a cycle claims and does not choose was claimed before, or its answer
\* was lost; what it has chosen it saves, excuses or gives back.
LEMMA VisibleMatched ==
    ASSUME StoreInv, Wanted, VisibleOrExcused, Match
    PROVE  VisibleOrExcused'
<1>1. /\ pick \in [Pairs -> Searches \cup {NoSearch}] /\ give \subseteq SearchPairs
      /\ left \subseteq SearchPairs /\ cur \in Searches \cup {NoSearch}
      /\ NoSearch \notin Searches
  BY ListingConstants DEF StoreInv, StoreTyped, StoreTypeOK
<1>2. \A m \in SearchPairs : /\ Pair(m) = <<ChatOf[m[1]], m[2]>> /\ Pair(m) \in Pairs
                             /\ m = <<m[1], m[2]>> /\ m[1] \in Searches
  BY ListingConstants DEF Pair, Pairs, SearchPairs
<1>3. ASSUME NEW f, NEW D, CycleStart(f, D) PROVE VisibleOrExcused'
  <2>1. UNCHANGED <<market, row, claims, pick, give, excused>>
    BY <1>3 DEF CycleStart, rowVars, claimVars, histVars
  <2> QED
    BY <2>1, VisibleKept
<1>4. ASSUME NEW m \in SearchPairs, ClaimMatch(m) PROVE VisibleOrExcused'
  <2>1. /\ UNCHANGED <<market, row, excused, give>> /\ claims' = claims \cup {m}
        /\ pick' = IF pick[Pair(m)] = NoSearch /\ (m[2] \in drops \/ m \notin claims)
                   THEN [pick EXCEPT ![Pair(m)] = m[1]] ELSE pick
    BY <1>4 DEF ClaimMatch, ClaimNew, rowVars
  <2>2. \A p \in Pairs : pick[p] # NoSearch => pick'[p] # NoSearch
    BY <1>1, <1>2, <2>1
  <2>3. m \notin claims => pick'[Pair(m)] # NoSearch
    BY <1>1, <1>2, <2>1
  <2>4. ASSUME NEW p \in Pairs
        PROVE  \/ (UnderWay(p))'
               \/ /\ ~UnderWay(p)
                  /\ \A s \in Of(p[1]) : <<s, p[2]>> \in claims' => <<s, p[2]>> \in claims
    <3>1. UnderWay(p) => (UnderWay(p))'
      BY <2>1, <2>2 DEF UnderWay, Of
    <3>2. ASSUME NEW s \in Of(p[1]), <<s, p[2]>> = m, m \notin claims
          PROVE  (UnderWay(p))'
      <4>1. p = Pair(m)
        <5>1. p = <<p[1], p[2]>> /\ ChatOf[s] = p[1]
          BY DEF Pairs, Of
        <5>2. m[1] = s /\ m[2] = p[2]
          BY <3>2
        <5> QED
          BY <1>2, <5>1, <5>2
      <4> QED
        BY <2>3, <3>2, <4>1 DEF UnderWay
    <3> QED
      BY <2>1, <3>1, <3>2
  <2> QED
    BY <2>1, <2>4, VisibleChanged
<1>5. ASSUME NEW m \in SearchPairs, ClaimFails(m) PROVE VisibleOrExcused'
  <2>1. UNCHANGED <<market, row, pick, give>>
    BY <1>5 DEF ClaimFails, rowVars
  <2>2. CASE UNCHANGED <<claimVars, excused>>
    BY <2>1, <2>2, VisibleKept DEF claimVars
  <2>3. CASE /\ ClaimNew({m})
             /\ excused' = excused \cup
                   {p \in {Pair(m)} : m \notin claims /\ ~HasRow(p) /\ pick[p] = NoSearch}
    <3>1. claims' = claims \cup {m} /\ excused \subseteq excused'
      BY <2>3 DEF ClaimNew
    <3>2. ASSUME NEW p \in Pairs, row'[p] = NoSearch, p \notin excused'
          PROVE  \/ (UnderWay(p))'
                 \/ /\ ~UnderWay(p)
                    /\ \A s \in Of(p[1]) : <<s, p[2]>> \in claims' => <<s, p[2]>> \in claims
      <4>1. UnderWay(p) => (UnderWay(p))'
        BY <2>1 DEF UnderWay, Of
      <4>2. ASSUME NEW s \in Of(p[1]), <<s, p[2]>> = m, m \notin claims
            PROVE  (UnderWay(p))'
        <5>1. p = <<p[1], p[2]>> /\ ChatOf[s] = p[1]
          BY DEF Pairs, Of
        <5>2. m[1] = s /\ m[2] = p[2]
          BY <4>2
        <5>3. p = Pair(m)
          BY <1>2, <5>1, <5>2
        <5>4. pick[p] # NoSearch
          BY <2>1, <2>3, <3>2, <4>2, <5>3 DEF HasRow
        <5> QED
          BY <2>1, <5>4 DEF UnderWay
      <4> QED
        BY <3>1, <4>1, <4>2
    <3> QED
      BY <2>1, <3>1, <3>2, VisibleChanged
  <2> QED
    BY <1>5, <2>2, <2>3 DEF ClaimFails
<1>6. ASSUME NEW m \in SearchPairs, Release(m) PROVE VisibleOrExcused'
  <2>1. /\ m \in give /\ give' = give \ {m} /\ claims' = claims \ {m}
        /\ UNCHANGED <<market, row, excused, pick>>
    BY <1>6 DEF Release, rowVars
  <2>2. m[2] \in Wants[m[1]]
    BY <2>1 DEF Wanted
  <2>3. ASSUME NEW p \in Pairs, UnderWay(p)
        PROVE  \/ (UnderWay(p))'
               \/ \E s \in Of(p[1]) : p[2] \in Wants[s] /\ <<s, p[2]>> \notin claims'
    <3>1. CASE pick[p] # NoSearch
      BY <2>1, <3>1 DEF UnderWay
    <3>2. ASSUME NEW s \in Of(p[1]), <<s, p[2]>> \in give
          PROVE  \/ (UnderWay(p))'
                 \/ \E z \in Of(p[1]) : p[2] \in Wants[z] /\ <<z, p[2]>> \notin claims'
      <4>1. CASE <<s, p[2]>> = m
        BY <2>1, <2>2, <4>1
      <4>2. CASE <<s, p[2]>> # m
        BY <2>1, <3>2, <4>2 DEF UnderWay, Of
      <4> QED
        BY <4>1, <4>2
    <3> QED
      BY <2>3, <3>1, <3>2 DEF UnderWay
  <2> QED
    BY <2>1, <2>3, VisibleChanged
<1>7. ASSUME NEW m \in SearchPairs, ReleaseFails(m) PROVE VisibleOrExcused'
  <2>1. /\ give' = give \ {m} /\ UNCHANGED <<market, row, claims, pick>>
        /\ excused' = excused \cup {p \in {Pair(m)} : ~HasRow(p) /\ pick[p] = NoSearch}
    BY <1>7 DEF ReleaseFails, rowVars, claimVars
  <2>2. ASSUME NEW p \in Pairs, UnderWay(p), row[p] = NoSearch, p \notin excused'
        PROVE  (UnderWay(p))'
    <3>1. CASE pick[p] # NoSearch
      BY <2>1, <3>1 DEF UnderWay
    <3>2. ASSUME pick[p] = NoSearch, NEW s \in Of(p[1]), <<s, p[2]>> \in give
          PROVE  (UnderWay(p))'
      <4>1. p \in Pairs /\ p = <<p[1], p[2]>> /\ ChatOf[s] = p[1]
        BY DEF Pairs, Of
      <4>2. <<s, p[2]>> # m
        <5>1. SUFFICES ASSUME <<s, p[2]>> = m PROVE FALSE
          OBVIOUS
        <5>2. m[1] = s /\ m[2] = p[2]
          BY <5>1
        <5>3. p = Pair(m)
          BY <1>2, <4>1, <5>2
        <5> QED
          BY <2>1, <2>2, <3>2, <5>3 DEF HasRow
      <4> QED
        BY <2>1, <3>2, <4>2 DEF UnderWay, Of
    <3> QED
      BY <2>2, <3>1, <3>2 DEF UnderWay
  <2> QED
    BY <2>1, <2>2, VisibleChanged
<1>8. ASSUME NEW p \in Pairs, SaveDrop(p) PROVE VisibleOrExcused'
  <2> DEFINE new == [q \in {p} |-> pick[p]]
  <2>1. /\ SaveListings(new) /\ pick[p] # NoSearch /\ pick' = [pick EXCEPT ![p] = NoSearch]
        /\ excused' = excused \ {p} /\ UNCHANGED <<market, claims, give>>
    BY <1>8 DEF SaveDrop, claimVars
  <2>2. DOMAIN new = {p} /\ \A q \in DOMAIN new : new[q] \in Searches
    BY <1>1, <2>1
  <2> HIDE DEF new
  <2>3. /\ row'[p] \in Searches /\ \A q \in Pairs : q # p => row'[q] = row[q]
    BY <2>1, <2>2, SavedRows DEF StoreInv
  <2>4. \A q \in Pairs : q # p => (UnderWay(q) => (UnderWay(q))')
    BY <1>1, <2>1 DEF UnderWay, Of
  <2> QED
    BY <1>1, <2>1, <2>3, <2>4, VisibleChanged
<1>9. ASSUME NEW p \in Pairs, DropFails(p) PROVE VisibleOrExcused'
  <2>1. /\ pick' = [pick EXCEPT ![p] = NoSearch]
        /\ excused' = excused \cup {q \in {p} : ~HasRow(q)}
        /\ UNCHANGED <<market, row, claims, give>>
    BY <1>9 DEF DropFails, rowVars, claimVars
  <2>2. \A q \in Pairs : q # p => (UnderWay(q) => (UnderWay(q))')
    BY <1>1, <2>1 DEF UnderWay, Of
  <2>3. row[p] = NoSearch => p \in excused'
    BY <2>1 DEF HasRow
  <2> QED
    BY <2>1, <2>2, <2>3, VisibleChanged
<1>10. ASSUME NEW s, NEW T, Process(s, T) PROVE VisibleOrExcused'
  <2>1. UNCHANGED <<market, row, claims, pick, excused>> /\ give = {}
    BY <1>10 DEF Process, rowVars, claimVars, histVars
  <2>2. \A p \in Pairs : UnderWay(p) => (UnderWay(p))'
    BY <2>1 DEF UnderWay
  <2> QED
    BY <2>1, <2>2, VisibleChanged
<1>11. ASSUME NEW T, BatchDone(T)
       PROVE  \A p \in Pairs \ Picks(cur) : UnderWay(p) => (UnderWay(p))'
  <2>1. /\ give = {} /\ cur # NoSearch
        /\ pick' = [p \in Pairs |-> IF pick[p] = cur THEN NoSearch ELSE pick[p]]
    BY <1>11 DEF BatchDone
  <2> QED
    BY <2>1 DEF UnderWay, Picks
<1>12. ASSUME NEW T, SaveSearch(T) PROVE VisibleOrExcused'
  <2> DEFINE new == [p \in Picks(cur) |-> cur]
  <2>1. /\ SaveListings(new) /\ cur # NoSearch /\ UNCHANGED <<market, claims>>
        /\ excused' = excused \ Picks(cur) /\ BatchDone(T)
    BY <1>12 DEF SaveSearch, BatchDone, claimVars
  <2>2. DOMAIN new = Picks(cur) /\ \A p \in DOMAIN new : new[p] \in Searches
    BY <1>1, <2>1
  <2> HIDE DEF new
  <2>3. /\ \A p \in Pairs : p \in Picks(cur) => row'[p] \in Searches
        /\ \A p \in Pairs : p \notin Picks(cur) => row'[p] = row[p]
    BY <2>1, <2>2, SavedRows DEF StoreInv
  <2> QED
    BY <1>1, <1>11, <2>1, <2>3, VisibleChanged
<1>13. CASE SaveFails
  <2>1. /\ UNCHANGED <<market, row, claims, excused>>
        /\ BatchDone({p[2] : p \in Picks(cur)}) /\ cur # NoSearch
    BY <1>13 DEF SaveFails, BatchDone, rowVars, claimVars, histVars
  <2>2. give' = {cur} \X {p[2] : p \in Picks(cur)}
    BY <2>1 DEF BatchDone, ClaimsOf
  <2>3. ASSUME NEW p \in Picks(cur) PROVE (UnderWay(p))'
    <3>1. cur \in Of(p[1])
      BY <2>1, <2>3 DEF Picks, Wanted
    <3>2. <<cur, p[2]>> \in give'
      BY <2>2, <2>3
    <3> QED
      BY <3>1, <3>2 DEF UnderWay, Of
  <2> QED
    BY <1>11, <2>1, <2>3, VisibleChanged
<1> HIDE DEF VisibleOrExcused
<1> QED
  BY <1>3, <1>4, <1>5, <1>6, <1>7, <1>8, <1>9, <1>10, <1>12, <1>13 DEF Match

\* A push claims for a search only listings it has saved for that chat.
LEMMA VisiblePushed ==
    ASSUME VisibleOrExcused, market' = market, UNCHANGED <<pick, give>>,
           NEW c, NEW got, NEW K, PushEffect(c, got, K)
    PROVE  VisibleOrExcused'
<1>1. /\ \A p \in Pairs : p \in {c} \X got => row'[p] \in Searches
      /\ \A p \in Pairs : p \notin {c} \X got => row'[p] = row[p]
      /\ claims' = claims \cup K /\ excused' = excused \ ({c} \X got)
      /\ \A s \in Searches, t \in Tokens : <<s, t>> \in K => ChatOf[s] = c /\ t \in got
  BY DEF PushEffect
<1>2. ASSUME NEW p \in Pairs, row'[p] = NoSearch, p \notin excused'
      PROVE  /\ row[p] = NoSearch /\ p \notin excused
             /\ \A s \in Of(p[1]) : <<s, p[2]>> \in claims' => <<s, p[2]>> \in claims
  <2>1. p \notin {c} \X got
    BY <1>1, <1>2, ListingConstants
  <2>2. p = <<p[1], p[2]>> /\ p[1] \in Chats /\ p[2] \in Tokens
    BY DEF Pairs
  <2>3. \A s \in Of(p[1]) : s \in Searches /\ ChatOf[s] = p[1]
    BY DEF Of
  <2>4. ~(p[1] = c /\ p[2] \in got)
    BY <2>1, <2>2
  <2>5. \A s \in Of(p[1]) : <<s, p[2]>> \notin K
    BY <1>1, <2>2, <2>3, <2>4
  <2> QED
    BY <1>1, <1>2, <2>1, <2>5
<1> QED
  BY <1>2, VisibleKept

\* Every step keeps live listings visible or excused.
LEMMA VisibleStep ==
    StoreInv /\ Wanted /\ VisibleOrExcused /\ [StoreNext]_storeVars => VisibleOrExcused'
<1> SUFFICES ASSUME StoreInv, Wanted, VisibleOrExcused, [StoreNext]_storeVars
             PROVE  VisibleOrExcused'
  OBVIOUS
<1> DEFINE Untouched == /\ market' \subseteq market /\ row' = row
                        /\ claims' \subseteq claims /\ excused' = excused
                        /\ UNCHANGED <<pick, give>>
<1>1. ASSUME Untouched PROVE VisibleOrExcused'
  BY <1>1, VisibleKept
<1>2. CASE Match
  BY <1>2, VisibleMatched
<1>3. ASSUME NEW s \in Searches, Sweep(s)
      PROVE  VisibleOrExcused'
  <2> DEFINE gone == Stale(s, feed[KeyOf[s]])
  <2>1. UNCHANGED <<market, claims, pick, give>>
    BY <1>3 DEF Sweep, claimVars, saveVars
  <2>2. CASE KeyOf[s] \notin DOMAIN feed
    BY <1>1, <1>3, <2>1, <2>2 DEF Sweep, rowVars
  <2>3. CASE KeyOf[s] \in DOMAIN feed
    <3>1. /\ Retire(gone)
          /\ excused' = excused \cup {p \in Deleted(gone) : \/ KeyOf[s] \notin exact
                                                            \/ p[2] \notin Serves[KeyOf[s]]
                                                            \/ p[2] \in market \ feed[KeyOf[s]]}
      BY <1>3, <2>3 DEF Sweep
    <3>2. \A p \in Deleted(gone) : p[2] \notin feed[KeyOf[s]]
      BY DEF Stale, Deleted
    <3>3. \A p \in Deleted(gone) \cap Pairs : p \in excused' \/ p[2] \notin market
      BY <3>1, <3>2
    <3> HIDE DEF gone
    <3> QED
      BY <2>1, <3>1, <3>3, VisibleRetired
  <2> QED
    BY <2>2, <2>3
<1>4. CASE RefreshSave
  <2> DEFINE new == [p \in {ChatOf[rsearch]} \X fresh |-> rsearch]
  <2>1. /\ SaveListings(new) /\ \A p \in DOMAIN new : new[p] \in Searches
        /\ market' = market /\ claims' = claims /\ excused' = excused \ DOMAIN new
        /\ UNCHANGED <<pick, give>>
    BY <1>4 DEF RefreshSave, claimVars, cycleVars, saveVars, StoreInv, StoreTyped
  <2> HIDE DEF new
  <2>2. /\ \A p \in Pairs : p \in DOMAIN new => row'[p] \in Searches
        /\ \A p \in Pairs : p \notin DOMAIN new => row'[p] = row[p]
    BY <2>1, SavedRows DEF StoreInv
  <2>3. \A p \in Pairs : row'[p] = NoSearch /\ p \notin excused' =>
           row[p] = NoSearch /\ p \notin excused
    BY <2>1, <2>2, ListingConstants
  <2> QED
    BY <2>1, <2>3, VisibleKept
<1>5. CASE PruneListings
  <2>1. /\ UNCHANGED <<market, claims, pick, give>>
        /\ excused' = excused \cup Deleted(rowOld)
        /\ row' = [p \in Pairs |-> IF p \in rowOld \ saved THEN NoSearch ELSE row[p]]
    BY <1>5 DEF PruneListings, claimVars, cycleVars, saveVars
  <2>2. \A p \in Pairs : row'[p] = NoSearch /\ p \notin excused' =>
           row[p] = NoSearch /\ p \notin excused
    BY <2>1 DEF Deleted, HasRow
  <2> QED
    BY <2>1, <2>2, VisibleKept
<1>6. ASSUME NEW t \in Tokens, DropListing(t)
      PROVE  VisibleOrExcused'
  <2>1. /\ Retire(Chats \X {t}) /\ excused' = excused \cup Deleted(Chats \X {t})
        /\ UNCHANGED <<market, claims, pick, give>>
    BY <1>6 DEF DropListing, claimVars, cycleVars, saveVars
  <2> QED
    BY <2>1, VisibleRetired
<1>7. ASSUME NEW s \in Searches, NEW T, RefreshDelete(s, T)
      PROVE  VisibleOrExcused'
  <2>1. /\ Retire(Stale(s, T)) /\ excused' = excused \cup Deleted(Stale(s, T))
        /\ UNCHANGED <<market, claims, pick, give>>
    BY <1>7 DEF RefreshDelete, claimVars, cycleVars, saveVars
  <2> QED
    BY <2>1, VisibleRetired
<1>8. ASSUME NEW c \in Chats, NEW T \in SUBSET Tokens, NEW failed, Ingest(c, T, failed)
      PROVE  VisibleOrExcused'
  <2>1. PICK got, K : PushEffect(c, got, K)
    BY <1>8, PushRows DEF StoreInv
  <2>2. market' = market /\ UNCHANGED <<pick, give>>
    BY <1>8 DEF Ingest, cycleVars, saveVars
  <2> QED
    BY <2>1, <2>2, VisiblePushed
<1>9. ASSUME NEW c, NEW T, IngestRemoved(c, T)
      PROVE  VisibleOrExcused'
  <2>1. PICK part : Retire({c} \X part) /\ excused' = excused \cup Deleted({c} \X part)
    BY <1>9 DEF IngestRemoved
  <2>2. UNCHANGED <<market, claims, pick, give>>
    BY <1>9 DEF IngestRemoved, claimVars, cycleVars, saveVars
  <2> QED
    BY <2>1, <2>2, VisibleRetired
<1>10. ASSUME NEW t, Withdraw(t) PROVE Untouched
  BY <1>10 DEF Withdraw, rowVars, claimVars, cycleVars, saveVars, histVars
<1>11. ASSUME NEW s, SweepFails(s) PROVE Untouched
  BY <1>11 DEF SweepFails, rowVars, claimVars, saveVars, histVars
<1>12. ASSUME NEW p, User(p) PROVE Untouched
  BY <1>12 DEF User, rowVars, claimVars, cycleVars, saveVars, histVars
<1>13. ASSUME CycleDone \/ SweepStart \/ BudgetReset \/ RefreshFails
       PROVE  Untouched
  BY <1>13 DEF CycleDone, SweepStart, BudgetReset, RefreshFails, rowVars, claimVars,
     cycleVars, saveVars, histVars
<1>14. ASSUME RowsAge \/ ClaimsAge \/ PruneClaims
       PROVE  Untouched
  BY <1>14 DEF RowsAge, ClaimsAge, PruneClaims, rowVars, claimVars, cycleVars, saveVars,
     histVars
<1>15. ASSUME UNCHANGED storeVars PROVE Untouched
  BY <1>15 DEF storeVars, rowVars, claimVars, cycleVars, saveVars, histVars
<1>16. CASE CycleCrash
  <2>1. /\ UNCHANGED <<market, row, claims>>
        /\ excused' = excused \cup {p \in Pairs : /\ UnderWay(p) /\ ~HasRow(p)
                                                  /\ ClaimedByAll(p)}
    BY <1>16 DEF CycleCrash, rowVars, claimVars
  <2>2. ASSUME NEW p \in Pairs, row'[p] = NoSearch, p \notin excused', UnderWay(p)
        PROVE  \E s \in Of(p[1]) : p[2] \in Wants[s] /\ <<s, p[2]>> \notin claims'
    BY <2>1, <2>2 DEF HasRow, ClaimedByAll
  <2> QED
    BY <2>1, <2>2, VisibleChanged
<1>17. ASSUME NEW t, Post(t) PROVE VisibleOrExcused'
  BY <1>17, VisiblePosted
<1> HIDE DEF Untouched
<1> QED
  BY <1>1, <1>2, <1>3, <1>4, <1>5, <1>6, <1>7, <1>8, <1>9, <1>10, <1>11, <1>12, <1>13,
     <1>14, <1>15, <1>16, <1>17 DEF StoreNext, Cycle

\* However cycles, sweeps, pushes, refreshes and retention overlap, fail and
\* die: a listing on the market that all interested searches of a chat have
\* claimed, so that no cycle will save it again (match.go:142), has its row, or
\* the cycle at work is about to save it or to release a claim of it, or it
\* has no row for one of the known causes, a failed release and a crash
\* between claim and save among them (match.go:134, processing.go:104).
THEOREM LiveListingsVisibleOrExcused == StoreSpec => []VisibleOrExcused
<1>1. StoreInit => VisibleOrExcused
  BY DEF StoreInit, VisibleOrExcused
<1>2. StoreInit => Wanted
  BY DEF StoreInit, NoPicks, Wanted
<1>3. StoreInv /\ Wanted /\ [StoreNext]_storeVars => Wanted'
  BY WantedStep
<1>4. StoreInv /\ Wanted /\ VisibleOrExcused /\ [StoreNext]_storeVars => VisibleOrExcused'
  BY VisibleStep
<1> QED
  BY <1>1, <1>2, <1>3, <1>4, StoreStaysTyped, PTL DEF StoreSpec

-----------------------------------------------------------------------------
(* The listing store: what is kept *)

\* No step of the store takes a bookmarked row away.
LEMMA BookmarksKept ==
    ASSUME StoreInv, StoreNext
    PROVE  \A p \in saved : HasRow(p) => row'[p] # NoSearch
<1> USE DEF HasRow
<1>1. saved \subseteq Pairs /\ NoSearch \notin Searches
  BY ListingConstants DEF StoreInv, StoreTyped, StoreTypeOK
<1>2. ASSUME NEW gone, Retire(gone)
      PROVE  \A p \in saved : HasRow(p) => row'[p] # NoSearch
  BY <1>1, <1>2, RetireRows DEF StoreInv
<1>3. ASSUME row' = row PROVE \A p \in saved : HasRow(p) => row'[p] # NoSearch
  BY <1>3
<1>4. CASE Match
  <2>1. UNCHANGED rowVars
        \/ \E new : SaveListings(new) /\ \A p \in DOMAIN new : new[p] \in Searches
    BY <1>4, MatchRows DEF StoreInv
  <2>2. ASSUME NEW new, SaveListings(new), \A p \in DOMAIN new : new[p] \in Searches
        PROVE  \A p \in saved : HasRow(p) => row'[p] # NoSearch
    <3>1. /\ \A p \in Pairs : p \in DOMAIN new => row'[p] \in Searches
          /\ \A p \in Pairs : p \notin DOMAIN new => row'[p] = row[p]
      BY <2>2, SavedRows DEF StoreInv
    <3> QED
      BY <1>1, <3>1
  <2> QED
    BY <2>1, <2>2 DEF rowVars
<1>5. ASSUME NEW s \in Searches, Sweep(s)
      PROVE  row' = row \/ \E gone : Retire(gone)
  BY <1>5 DEF Sweep, rowVars
<1>6. CASE RefreshSave
  <2> DEFINE new == [p \in {ChatOf[rsearch]} \X fresh |-> rsearch]
  <2>1. SaveListings(new) /\ \A p \in DOMAIN new : new[p] \in Searches
    BY <1>6 DEF RefreshSave, StoreInv, StoreTyped
  <2> HIDE DEF new
  <2>2. /\ \A p \in Pairs : p \in DOMAIN new => row'[p] \in Searches
        /\ \A p \in Pairs : p \notin DOMAIN new => row'[p] = row[p]
    BY <2>1, SavedRows DEF StoreInv
  <2> QED
    BY <1>1, <2>2
<1>7. CASE PruneListings
  BY <1>1, <1>7 DEF PruneListings
<1>8. ASSUME NEW t, DropListing(t) PROVE \E gone : Retire(gone)
  BY <1>8 DEF DropListing
<1>9. ASSUME NEW s, NEW T, RefreshDelete(s, T) PROVE \E gone : Retire(gone)
  BY <1>9 DEF RefreshDelete
<1>10. ASSUME NEW c \in Chats, NEW T \in SUBSET Tokens, NEW failed, Ingest(c, T, failed)
       PROVE  \A p \in saved : HasRow(p) => row'[p] # NoSearch
  <2>1. PICK got, K : PushEffect(c, got, K)
    BY <1>10, PushRows DEF StoreInv
  <2> QED
    BY <1>1, <2>1 DEF PushEffect
<1>11. ASSUME NEW c, NEW T, IngestRemoved(c, T) PROVE \E gone : Retire(gone)
  BY <1>11 DEF IngestRemoved
<1>12. ASSUME NEW t, Post(t) \/ Withdraw(t) PROVE row' = row
  BY <1>12 DEF Post, Withdraw, rowVars
<1>13. ASSUME NEW s, SweepFails(s) PROVE row' = row
  BY <1>13 DEF SweepFails, rowVars
<1>14. ASSUME NEW p, User(p) PROVE row' = row
  BY <1>14 DEF User, rowVars
<1>15. ASSUME \/ CycleDone \/ CycleCrash \/ SweepStart \/ BudgetReset \/ RefreshFails
              \/ RowsAge \/ ClaimsAge \/ PruneClaims
       PROVE  row' = row
  BY <1>15 DEF CycleDone, CycleCrash, SweepStart, BudgetReset, RefreshFails, RowsAge, ClaimsAge,
               PruneClaims, rowVars
<1> HIDE DEF HasRow
<1> QED
  BY <1>2, <1>3, <1>4, <1>5, <1>6, <1>7, <1>8, <1>9, <1>10, <1>11, <1>12, <1>13, <1>14,
     <1>15 DEF StoreNext, Cycle

\* Whoever retires, sweeps, refreshes or prunes, a bookmarked row is kept, and
\* pushes retire at most the daily budget of a chat's rows
\* (listings.go:551, 599, 881; removal_budget.go:33).
THEOREM BookmarksAndBudgetHeld == StoreSpec => RemovalsHeld
<1> DEFINE Held == /\ \A p \in saved : HasRow(p) => row'[p] # NoSearch
                   /\ \A c \in Chats : retired'[c] <= RemovalBudget
<1>1. ASSUME StoreInv, StoreInv', [StoreNext]_storeVars
      PROVE  [Held]_storeVars
  <2>1. CASE UNCHANGED storeVars
    BY <2>1
  <2>2. CASE StoreNext
    <3>1. \A p \in saved : HasRow(p) => row'[p] # NoSearch
      BY <1>1, <2>2, BookmarksKept
    <3>2. \A c \in Chats : retired'[c] <= RemovalBudget
      <4>1. /\ used' \in [Chats -> 0 .. RemovalBudget] /\ retired' \in [Chats -> Nat]
            /\ \A c \in Chats : retired'[c] <= used'[c]
        BY <1>1 DEF StoreInv, StoreTyped, StoreTypeOK
      <4> QED
        BY <4>1, ListingConstants
    <3> QED
      BY <3>1, <3>2
  <2> QED
    BY <1>1, <2>1, <2>2
<1> QED
  BY <1>1, StoreStaysTyped, PTL DEF StoreSpec, RemovalsHeld

\* A claim served since claims last aged is not old; neither is the row of a
\* listing pushed since rows did.
ServedFresh ==
    /\ claimOld \cap renewed = {}
    /\ \A p \in shown : HasRow(p) => p \notin rowOld

\* Every step keeps what was served fresh.
LEMMA FreshStep ==
    StoreInv /\ ServedFresh /\ [StoreNext]_storeVars => ServedFresh'
<1> SUFFICES ASSUME StoreInv, ServedFresh, [StoreNext]_storeVars
             PROVE  ServedFresh'
  OBVIOUS
<1> USE DEF HasRow
<1>1. shown \subseteq Pairs /\ NoSearch \notin Searches
  BY ListingConstants DEF StoreInv, StoreTyped, StoreTypeOK
<1>2. ASSUME NEW gone, Retire(gone),
             UNCHANGED <<serverFetch, claimOld, renewed, shown>>
      PROVE  ServedFresh'
  <2>1. /\ rowOld' \subseteq rowOld
        /\ \A p \in Pairs : p \in gone \ saved => row'[p] = NoSearch
        /\ \A p \in Pairs : p \notin gone \ saved => row'[p] = row[p]
    BY <1>2, RetireRows DEF StoreInv
  <2> QED
    BY <1>1, <1>2, <2>1 DEF ServedFresh
<1>3. ASSUME UNCHANGED <<serverFetch, claimOld, renewed, shown, row, rowOld>>
      PROVE  ServedFresh'
  BY <1>3 DEF ServedFresh
<1>4. CASE Match
  <2>1. /\ UNCHANGED shown
        /\ \/ UNCHANGED rowVars
           \/ \E new : SaveListings(new) /\ \A p \in DOMAIN new : new[p] \in Searches
    BY <1>4, MatchRows DEF StoreInv
  <2>2. claimOld' \cap renewed' = {}
    <3>1. ASSUME NEW m, ClaimMatch(m) \/ ClaimFails(m) \/ Release(m) \/ ReleaseFails(m)
          PROVE  claimOld' \cap renewed' = {}
      BY <3>1 DEF ClaimMatch, ClaimFails, Release, ReleaseFails, ClaimNew, claimVars, ServedFresh
    <3>2. ASSUME \/ \E f, D : CycleStart(f, D)
                 \/ \E p : SaveDrop(p) \/ DropFails(p)
                 \/ \E s, T : Process(s, T)
                 \/ \E T : SaveSearch(T)
                 \/ SaveFails
          PROVE  UNCHANGED <<claimOld, renewed>>
      BY <3>2 DEF CycleStart, SaveDrop, DropFails, Process, SaveSearch, SaveFails, claimVars,
         histVars
    <3> QED
      BY <1>4, <3>1, <3>2 DEF Match, ServedFresh
  <2>3. ASSUME NEW new, SaveListings(new), \A p \in DOMAIN new : new[p] \in Searches
        PROVE  \A p \in shown : row'[p] # NoSearch => p \notin rowOld'
    <3>1. /\ rowOld' = rowOld \ DOMAIN new
          /\ \A p \in Pairs : p \notin DOMAIN new => row'[p] = row[p]
      BY <2>3, SavedRows DEF StoreInv
    <3> QED
      BY <1>1, <3>1 DEF ServedFresh
  <2>4. \A p \in shown : row'[p] # NoSearch => p \notin rowOld'
    BY <2>1, <2>3 DEF ServedFresh, rowVars
  <2> QED
    BY <2>1, <2>2, <2>4 DEF ServedFresh
<1>5. ASSUME NEW s \in Searches, Sweep(s)
      PROVE  ServedFresh'
  <2>1. UNCHANGED <<serverFetch, claimOld, renewed, shown>>
    BY <1>5 DEF Sweep, claimVars
  <2>2. UNCHANGED <<row, rowOld>> \/ \E gone : Retire(gone)
    BY <1>5 DEF Sweep, rowVars
  <2> QED
    BY <1>2, <1>3, <2>1, <2>2
<1>6. CASE RefreshSave
  <2> DEFINE new == [p \in {ChatOf[rsearch]} \X fresh |-> rsearch]
  <2>1. SaveListings(new) /\ \A p \in DOMAIN new : new[p] \in Searches
    BY <1>6 DEF RefreshSave, StoreInv, StoreTyped
  <2> HIDE DEF new
  <2>2. /\ rowOld' = rowOld \ DOMAIN new
        /\ \A p \in Pairs : p \notin DOMAIN new => row'[p] = row[p]
    BY <2>1, SavedRows DEF StoreInv
  <2>3. UNCHANGED <<serverFetch, claimOld, renewed, shown>>
    BY <1>6 DEF RefreshSave, claimVars
  <2> QED
    BY <1>1, <2>2, <2>3 DEF ServedFresh
<1>7. CASE PruneListings
  <2>1. /\ row' = [p \in Pairs |-> IF p \in rowOld \ saved THEN NoSearch ELSE row[p]]
        /\ rowOld' = rowOld \cap saved
        /\ UNCHANGED <<serverFetch, claimOld, renewed, shown>>
    BY <1>7 DEF PruneListings, claimVars
  <2> QED
    BY <1>1, <2>1 DEF ServedFresh
<1>8. CASE RowsAge
  BY <1>8 DEF RowsAge, claimVars, ServedFresh
<1>9. CASE ClaimsAge
  BY <1>9 DEF ClaimsAge, rowVars, ServedFresh
<1>10. CASE PruneClaims
  BY <1>10 DEF PruneClaims, rowVars, histVars, ServedFresh
<1>11. ASSUME NEW c \in Chats, NEW T \in SUBSET Tokens, NEW failed, Ingest(c, T, failed)
       PROVE  ServedFresh'
  <2>1. PICK got, K : PushEffect(c, got, K)
    BY <1>11, PushRows DEF StoreInv
  <2>2. serverFetch' = serverFetch
    BY <1>11 DEF Ingest
  <2>3. /\ rowOld' = rowOld \ ({c} \X got) /\ shown' = shown \cup ({c} \X got)
        /\ \A p \in Pairs : p \notin {c} \X got => row'[p] = row[p]
        /\ claimOld' = claimOld \ K /\ renewed' = renewed \cup K
    BY <2>1 DEF PushEffect
  <2> QED
    BY <1>1, <2>2, <2>3 DEF ServedFresh
<1>12. ASSUME NEW t, DropListing(t) PROVE ServedFresh'
  BY <1>2, <1>12 DEF DropListing, claimVars
<1>13. ASSUME NEW s, NEW T, RefreshDelete(s, T) PROVE ServedFresh'
  BY <1>2, <1>13 DEF RefreshDelete, claimVars
<1>14. ASSUME NEW c, NEW T, IngestRemoved(c, T) PROVE ServedFresh'
  BY <1>2, <1>14 DEF IngestRemoved, claimVars
<1>15. ASSUME NEW t, Post(t) \/ Withdraw(t) PROVE ServedFresh'
  BY <1>3, <1>15 DEF Post, Withdraw, rowVars, claimVars, histVars
<1>16. ASSUME NEW s, SweepFails(s) PROVE ServedFresh'
  BY <1>3, <1>16 DEF SweepFails, rowVars, claimVars, histVars
<1>17. ASSUME NEW p, User(p) PROVE ServedFresh'
  BY <1>3, <1>17 DEF User, rowVars, claimVars, histVars
<1>18. ASSUME CycleDone \/ CycleCrash \/ SweepStart \/ BudgetReset \/ RefreshFails
       PROVE  ServedFresh'
  BY <1>3, <1>18 DEF CycleDone, CycleCrash, SweepStart, BudgetReset, RefreshFails, rowVars,
                     claimVars, histVars
<1>19. ASSUME UNCHANGED storeVars PROVE ServedFresh'
  BY <1>3, <1>19 DEF storeVars, rowVars, claimVars, histVars
<1> HIDE DEF HasRow
<1> QED
  BY <1>4, <1>5, <1>6, <1>7, <1>8, <1>9, <1>10, <1>11, <1>12, <1>13, <1>14, <1>15, <1>16,
     <1>17, <1>18, <1>19 DEF StoreNext, Cycle

\* What is served stays fresh for ever.
LEMMA ServedStaysFresh == StoreSpec => []ServedFresh
<1>1. StoreInit => ServedFresh
  BY DEF StoreInit, ServedFresh
<1>2. StoreInv /\ ServedFresh /\ [StoreNext]_storeVars => ServedFresh'
  BY FreshStep
<1> QED
  BY <1>1, <1>2, StoreStaysTyped, PTL DEF StoreSpec

\* Retention never forgets a claim whose listing was served to its search
\* within the retention time, by a cycle or a push (dedup.go:49), so that
\* retention alone never lets a user be alerted twice.
THEOREM ClaimsKeptWhileServed == StoreSpec => ClaimsOutliveFeed
<1>1. ASSUME ServedFresh, [StoreNext]_storeVars
      PROVE  [PruneClaims => (claims \ claims') \cap renewed = {}]_storeVars
  BY <1>1 DEF PruneClaims, ServedFresh
<1> QED
  BY <1>1, ServedStaysFresh, PTL DEF StoreSpec, ClaimsOutliveFeed

\* Retention never deletes the row of a listing the extension pushed within
\* the retention time (listings.go:874).
THEOREM RowsKeptWhilePushed == StoreSpec => PushedRowsOutliveFeed
<1>1. ASSUME StoreInv, ServedFresh, [StoreNext]_storeVars
      PROVE  [PruneListings =>
                \A p \in shown : HasRow(p) => row'[p] # NoSearch]_storeVars
  <2>1. shown \subseteq Pairs
    BY <1>1 DEF StoreInv, StoreTyped, StoreTypeOK
  <2>2. ASSUME PruneListings, NEW p \in shown, HasRow(p)
        PROVE  row'[p] # NoSearch
    <3>1. p \notin rowOld
      BY <1>1, <2>2 DEF ServedFresh
    <3>2. row' = [q \in Pairs |-> IF q \in rowOld \ saved THEN NoSearch ELSE row[q]]
      BY <2>2 DEF PruneListings
    <3> QED
      BY <2>1, <2>2, <3>1, <3>2 DEF HasRow
  <2> QED
    BY <2>2
<1> QED
  BY <1>1, StoreStaysTyped, ServedStaysFresh, PTL DEF StoreSpec, PushedRowsOutliveFeed
=============================================================================
