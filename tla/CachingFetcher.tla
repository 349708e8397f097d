-------------------------- MODULE CachingFetcher --------------------------
(***************************************************************************)
(* fetcher.CachingFetcher: the map of cached results.  Looking an entry    *)
(* up, touching it and storing a result are separate critical sections;    *)
(* FetchChain puts them in order.                                          *)
(***************************************************************************)
EXTENDS Naturals, Sequences, FiniteSets

CONSTANTS Keys,             \* cache keys (search parameters)
          MaxEntries        \* maxCacheEntries (100)

ASSUME CacheConstants ==
    /\ IsFiniteSet(Keys)
    /\ MaxEntries \in Nat \ {0}

\* fetchedAt less than ttl ago, at most 2*ttl ago, longer ago.
Ages == {"fresh", "stale", "expired"}

VARIABLES age,              \* key -> age of its entry, or "none"
          order             \* the cached keys by lastUsed, oldest first

cacheVars == <<age, order>>

CacheType ==
    /\ age \in [Keys -> Ages \cup {"none"}]
    /\ order \in Seq(Keys)

CacheInit ==
    /\ age = [k \in Keys |-> "none"]
    /\ order = << >>

Cached == {k \in Keys : age[k] # "none"}

\* the entries of s that are in T, in their order
Kept(s, T) ==
    LET kept[n \in 0 .. Len(s)] ==
          IF n = 0 THEN << >>
          ELSE IF s[n] \in T THEN Append(kept[n - 1], s[n]) ELSE kept[n - 1]
    IN  kept[Len(s)]
Without(k, s) == Kept(s, Keys \ {k})

\* touch: the entry may have been evicted since it was looked up.
Touch(k) ==
    /\ order' = IF k \in Cached THEN Append(Without(k, order), k) ELSE order
    /\ UNCHANGED age

\* evictExpired and evictOldest, over the cache with the new entry in it.
EvictExpired(a, s) ==
    IF Len(s) > MaxEntries
    THEN Kept(s, {j \in Keys : a[j] # "expired"})
    ELSE s
EvictNothing(s) == s
EvictOldest(s) ==
    IF Len(s) > MaxEntries
    THEN SubSeq(s, Len(s) - MaxEntries + 1, Len(s))
    ELSE s
Store(k) ==
    LET stored == [age EXCEPT ![k] = "fresh"]
        kept == EvictOldest(EvictExpired(stored,
                                         Append(Without(k, order), k)))
    IN  /\ order' = kept
        /\ age' = [j \in Keys |->
                      IF \E i \in 1..Len(kept) : kept[i] = j
                      THEN stored[j] ELSE "none"]

\* Time passes for an entry.
GrowOld(k) ==
    /\ age[k] \in {"fresh", "stale"}
    /\ age' = [age EXCEPT ![k] = IF @ = "fresh" THEN "stale" ELSE "expired"]
    /\ UNCHANGED order
=============================================================================
