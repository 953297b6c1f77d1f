-------------------------- MODULE TimedCacheProofs ---------------------------
(***************************************************************************)
(* Proofs about TimedCache, for every set of keys and every finite set of  *)
(* threads, and for every value of the durations and the bounds.           *)
(***************************************************************************)
EXTENDS TimedCache, FiniteSetTheorems, TLAPS

(***************************************************************************)
(* The inductive invariant.  InvalidateEffective needs to know that an     *)
(* invalidate in progress will not raise the fence above the stores made   *)
(* so far.                                                                 *)
(***************************************************************************)
FenceBelowPuts ==
  /\ \A k \in Keys : fence[k] <= puts[k]
  /\ \A t \in Threads : pc[t] = "erase" => mark[t] <= puts[key[t]]

CacheInv == TypeOK /\ SweptAtScan /\ FenceBelowPuts /\ InvalidateEffective

LEMMA CacheInvInit == Init => CacheInv
  BY DurationsAssumption, BoundsAssumption
  DEF Init, CacheInv, TypeOK, SweptAtScan, FenceBelowPuts, InvalidateEffective, EmptyMap

LEMMA CacheInvNext == CacheInv /\ [Next]_vars => CacheInv'
<1> SUFFICES ASSUME CacheInv, [Next]_vars PROVE CacheInv'
  OBVIOUS
<1> USE DurationsAssumption, BoundsAssumption
        DEF CacheInv, TypeOK, SweptAtScan, FenceBelowPuts, InvalidateEffective
<1>1. CASE Tick
  BY <1>1 DEF Tick, counters, history
<1>2. ASSUME NEW t \in Threads, NEW k \in Keys, get_cached(t, k) PROVE CacheInv'
  BY <1>2 DEF get_cached, history
<1>3. ASSUME NEW t \in Threads, get_cached_returns(t) PROVE CacheInv'
  BY <1>3 DEF get_cached_returns, history
<1>4. ASSUME NEW t \in Threads, NEW k \in Keys, cache(t, k) PROVE CacheInv'
  <2> DEFINE e == [data |-> puts[k] + 1, fetched_at |-> now]
  <2>1. /\ puts' = [puts EXCEPT ![k] = puts[k] + 1]
        /\ puts[k] < MaxPuts
        /\ UNCHANGED <<total_data_fetched, total_cache_hits, hits_read, pc, key, fence, mark>>
    BY <1>4 DEF cache, counters
  <2>2. /\ Stored(k) = With(cached_data, k, e)
        /\ DOMAIN Stored(k) = DOMAIN cached_data \cup {k}
        /\ Stored(k)[k] = e
        /\ \A x \in DOMAIN cached_data : x # k => Stored(k)[x] = cached_data[x]
    BY DEF Stored, With
  <2>3. \A x \in DOMAIN Stored(k) :
          /\ Stored(k)[x] \in [data : 1..puts'[x], fetched_at : 0..now]
          /\ Stored(k)[x].data > fence'[x]
          /\ last_cache_scan - Stored(k)[x].fetched_at <= ValidFor
    BY <2>1, <2>2
  <2>4. CASE ~ScanDue
    BY <1>4, <2>1, <2>2, <2>3, <2>4 DEF cache
  <2>5. CASE ScanDue
    <3>1. /\ now' \in now..MaxTime
          /\ cached_data' = clean_cache(Stored(k), now')
          /\ last_cache_scan' = now
      BY <1>4, <2>5 DEF cache
    <3>2. /\ DOMAIN cached_data' \subseteq DOMAIN Stored(k)
          /\ \A x \in DOMAIN cached_data' : cached_data'[x] = Stored(k)[x]
          /\ \A x \in DOMAIN cached_data' : ~Outdated(Stored(k)[x], now')
      BY <3>1 DEF clean_cache, Restrict
    <3>3. \A x \in DOMAIN cached_data' : now - cached_data'[x].fetched_at <= ValidFor
      BY <2>3, <3>1, <3>2 DEF Outdated
    <3>4. \A x \in DOMAIN cached_data' :
            /\ cached_data'[x] \in [data : 1..puts'[x], fetched_at : 0..now']
            /\ cached_data'[x].data > fence'[x]
      BY <2>3, <3>1, <3>2
    <3>5. TypeOK'
      BY <2>1, <2>2, <3>1, <3>2, <3>4
    <3> QED
      BY <2>1, <3>1, <3>3, <3>4, <3>5
  <2> QED
    BY <2>4, <2>5
<1>5. ASSUME NEW t \in Threads, NEW k \in Keys, invalidate(t, k) PROVE CacheInv'
  BY <1>5 DEF invalidate, Contains, Raised, counters
<1>6. ASSUME NEW t \in Threads, invalidate_erases(t) PROVE CacheInv'
  <2>1. /\ DOMAIN cached_data' = DOMAIN cached_data \ {key[t]}
        /\ \A x \in DOMAIN cached_data' : cached_data'[x] = cached_data[x]
    BY <1>6 DEF invalidate_erases, Without, Restrict
  <2> QED
    BY <1>6, <2>1 DEF invalidate_erases, Raised, counters
<1>7. ASSUME NEW t \in Threads, get_cache_statistics(t) PROVE CacheInv'
  BY <1>7 DEF get_cache_statistics, history
<1>8. ASSUME NEW t \in Threads, get_cache_statistics_returns(t) PROVE CacheInv'
  BY <1>8 DEF get_cache_statistics_returns, counters, history
<1>9. CASE UNCHANGED vars
  BY <1>9 DEF vars
<1> QED
  BY <1>1, <1>2, <1>3, <1>4, <1>5, <1>6, <1>7, <1>8, <1>9 DEF Next

(***************************************************************************)
(* The cache is well-typed, its scans sweep, and invalidate works.         *)
(***************************************************************************)

\* TimedCache's state always has its type.
THEOREM TypeCorrect == Spec => []TypeOK
<1>1. CacheInv => TypeOK
  BY DEF CacheInv
<1> QED
  BY CacheInvInit, CacheInvNext, <1>1, PTL DEF Spec

\* After cache() has scanned the map, no entry that was outdated at the time
\* recorded as the last scan is left, now or later.
THEOREM ScansSweep == Spec => []SweptAtScan
<1>1. CacheInv => SweptAtScan
  BY DEF CacheInv
<1> QED
  BY CacheInvInit, CacheInvNext, <1>1, PTL DEF Spec

\* Once invalidate(k) has returned, no datum stored under k before the call
\* is in the map, whatever other threads did between its two phases.
THEOREM InvalidateWorks == Spec => []InvalidateEffective
<1>1. CacheInv => InvalidateEffective
  BY DEF CacheInv
<1> QED
  BY CacheInvInit, CacheInvNext, <1>1, PTL DEF Spec

(***************************************************************************)
(* Growth: between two scans less than ScanInterval passes before a store  *)
(* scans again, and a scan leaves nothing older than ValidFor.             *)
(***************************************************************************)

LEMMA StoreBoundsAge ==
  CacheInv /\ [Next]_vars => ((\E k \in Keys : StoresRefresh(k)) => BoundedAge)
<1> SUFFICES ASSUME CacheInv, [Next]_vars,
                    NEW r \in Keys, StoresRefresh(r)
             PROVE  BoundedAge
  OBVIOUS
<1> USE DurationsAssumption, BoundsAssumption DEF CacheInv, TypeOK
<1>1. ASSUME UNCHANGED cached_data PROVE FALSE
  BY <1>1 DEF StoresRefresh
<1>2. ASSUME NEW t \in Threads, NEW k \in Keys, cache(t, k) PROVE BoundedAge
  <2> DEFINE e == [data |-> puts[k] + 1, fetched_at |-> now]
  <2>1. /\ DOMAIN Stored(k) = DOMAIN cached_data \cup {k}
        /\ Stored(k)[k] = e
        /\ \A x \in DOMAIN cached_data : x # k => Stored(k)[x] = cached_data[x]
    BY DEF Stored, With
  <2>2. \A x \in DOMAIN Stored(k) :
          /\ Stored(k)[x].fetched_at \in 0..now
          /\ last_cache_scan - Stored(k)[x].fetched_at <= ValidFor
    BY <2>1 DEF SweptAtScan
  <2>3. CASE ~ScanDue
    BY <1>2, <2>2, <2>3 DEF cache, ScanDue, BoundedAge
  <2>4. CASE ScanDue
    <3>1. now' \in now..MaxTime /\ cached_data' = clean_cache(Stored(k), now')
      BY <1>2, <2>4 DEF cache
    <3>2. \A x \in DOMAIN cached_data' :
            /\ x \in DOMAIN Stored(k)
            /\ cached_data'[x] = Stored(k)[x]
            /\ ~Outdated(Stored(k)[x], now')
      BY <3>1 DEF clean_cache, Restrict
    <3> QED
      BY <2>2, <3>1, <3>2 DEF BoundedAge, Outdated
  <2> QED
    BY <2>3, <2>4
<1>3. ASSUME NEW t \in Threads, invalidate_erases(t) PROVE FALSE
  BY <1>3 DEF invalidate_erases, StoresRefresh, Without, Restrict
<1> QED
  BY <1>1, <1>2, <1>3
  DEF Next, vars, Tick, get_cached, get_cached_returns, invalidate,
      get_cache_statistics, get_cache_statistics_returns

\* A store never leaves an entry in the map that is older than the scan
\* interval and the validity period together: the map does not grow for ever
\* with entries nobody asks for.
THEOREM GrowthBounded == Spec => NoOldEntries
<1>1. CacheInv /\ [Next]_vars => [(\E k \in Keys : StoresRefresh(k)) => BoundedAge]_vars
  BY StoreBoundsAge
<1> QED
  BY CacheInvInit, CacheInvNext, <1>1, PTL DEF Spec, NoOldEntries

(***************************************************************************)
(* Statistics: a lookup in progress has been counted as a request and may  *)
(* still be counted as a hit.                                              *)
(***************************************************************************)

Looking == {t \in Threads : pc[t] = "get"}

HitsInv ==
  /\ total_cache_hits + Cardinality(Looking) <= total_data_fetched
  /\ \A t \in Threads : pc[t] = "stats" => hits_read[t] <= total_cache_hits

LEMMA LookingFinite == IsFiniteSet(Looking) /\ Cardinality(Looking) \in Nat
  BY ThreadsAssumption, FS_Subset, FS_CardinalityType DEF Looking

LEMMA HitsInvNext == TypeOK /\ HitsInv /\ [Next]_vars => HitsInv'
<1> SUFFICES ASSUME TypeOK, HitsInv, [Next]_vars PROVE HitsInv'
  OBVIOUS
<1> USE LookingFinite, BoundsAssumption DEF TypeOK, HitsInv
<1>1. ASSUME Looking' = Looking, total_cache_hits' = total_cache_hits,
             total_data_fetched' = total_data_fetched,
             \A t \in Threads : pc'[t] = "stats" =>
               hits_read'[t] = total_cache_hits \/ (pc[t] = "stats" /\ hits_read'[t] = hits_read[t])
      PROVE  HitsInv'
  BY <1>1
<1>2. ASSUME NEW t \in Threads, NEW k \in Keys, get_cached(t, k) PROVE HitsInv'
  <2>1. Looking' = Looking \cup {t} /\ t \notin Looking
    BY <1>2 DEF get_cached, Looking
  <2>2. Cardinality(Looking') = Cardinality(Looking) + 1
    BY <2>1, FS_AddElement
  <2> QED
    BY <1>2, <2>2 DEF get_cached
<1>3. ASSUME NEW t \in Threads, get_cached_returns(t) PROVE HitsInv'
  <2>1. Looking' = Looking \ {t} /\ t \in Looking
    BY <1>3 DEF get_cached_returns, Looking
  <2>2. Cardinality(Looking') = Cardinality(Looking) - 1
    BY <2>1, FS_RemoveElement
  <2> QED
    BY <1>3, <2>2 DEF get_cached_returns
<1>4. ASSUME NEW t \in Threads, NEW k \in Keys, cache(t, k) PROVE HitsInv'
  BY <1>1, <1>4 DEF cache, counters, Looking
<1>5. ASSUME NEW t \in Threads, NEW k \in Keys, invalidate(t, k) PROVE HitsInv'
  BY <1>1, <1>5 DEF invalidate, counters, Looking
<1>6. ASSUME NEW t \in Threads, invalidate_erases(t) PROVE HitsInv'
  BY <1>1, <1>6 DEF invalidate_erases, counters, Looking
<1>7. ASSUME NEW t \in Threads, get_cache_statistics(t) PROVE HitsInv'
  BY <1>1, <1>7 DEF get_cache_statistics, Looking
<1>8. ASSUME NEW t \in Threads, get_cache_statistics_returns(t) PROVE HitsInv'
  BY <1>1, <1>8 DEF get_cache_statistics_returns, counters, Looking
<1>9. CASE Tick \/ UNCHANGED vars
  BY <1>1, <1>9 DEF Tick, counters, vars, Looking
<1> QED
  BY <1>2, <1>3, <1>4, <1>5, <1>6, <1>7, <1>8, <1>9 DEF Next

\* get_cache_statistics never reports more hits than requests.
THEOREM StatisticsConsistent == Spec => []HitsAtMostRequests
<1>1. Init => HitsInv
  <2>1. Init => Looking = {}
    BY DEF Init, Looking
  <2> QED
    BY <2>1, FS_EmptySet DEF Init, HitsInv
<1>2. TypeOK /\ HitsInv => HitsAtMostRequests
  BY LookingFinite DEF TypeOK, HitsInv, HitsAtMostRequests
<1> QED
  BY TypeCorrect, HitsInvNext, <1>1, <1>2, PTL DEF Spec

(***************************************************************************)
(* The refinement: Visible is the abstract map.  In every step the visible *)
(* keys that are left keep their datum, and only cache(k) makes one visible. *)
(***************************************************************************)

LEMMA DropStep ==
  ASSUME TypeOK, UNCHANGED puts,
         DOMAIN Visible' \subseteq DOMAIN Visible,
         \A x \in DOMAIN Visible' : Visible'[x] = Visible[x]
  PROVE  Map!Drop
<1> DEFINE S == {k \in Keys : k \notin DOMAIN Visible'}
<1>1. DOMAIN Visible \subseteq Keys
  BY DEF Visible, TypeOK
<1>2. Visible' = [x \in DOMAIN Visible' |-> Visible'[x]]
  BY DEF Visible
<1>3. DOMAIN Visible \ S = DOMAIN Visible'
  BY <1>1
<1>4. Visible' = [x \in DOMAIN Visible \ S |-> Visible[x]]
  BY <1>2, <1>3
<1>5. S \in SUBSET Keys
  OBVIOUS
<1> QED
  BY <1>4, <1>5 DEF Map!Drop, Map!Without, Map!Restrict

LEMMA PutStep ==
  ASSUME TypeOK, NEW k \in Keys,
         puts' = [puts EXCEPT ![k] = puts[k] + 1],
         DOMAIN Visible' \subseteq DOMAIN Visible \cup {k},
         \A x \in DOMAIN Visible' : Visible'[x] = IF x = k THEN puts[k] + 1 ELSE Visible[x]
  PROVE  Map!Put(k)
<1> DEFINE S == {x \in Keys : x \notin DOMAIN Visible'}
           W == [x \in DOMAIN Visible \cup {k} |-> IF x = k THEN puts[k] + 1 ELSE Visible[x]]
<1>1. DOMAIN Visible \subseteq Keys
  BY DEF Visible, TypeOK
<1>2. Visible' = [x \in DOMAIN Visible' |-> Visible'[x]]
  BY DEF Visible
<1>3. DOMAIN W \ S = DOMAIN Visible'
  BY <1>1
<1>4. Visible' = [x \in DOMAIN W \ S |-> W[x]]
  BY <1>2, <1>3
<1>5. S \in SUBSET Keys
  OBVIOUS
<1> HIDE DEF S
<1> QED
  BY <1>4, <1>5 DEF Map!Put, Map!With, Map!Without, Map!Restrict

LEMMA RefinementStep ==
  CacheInv /\ [Next]_vars => [Map!Next]_<<Visible, puts>>
<1> SUFFICES ASSUME CacheInv, [Next]_vars PROVE [Map!Next]_<<Visible, puts>>
  OBVIOUS
<1> USE DurationsAssumption, BoundsAssumption
<1>1. TypeOK
  BY DEF CacheInv
<1>2. CASE UNCHANGED <<now, cached_data, puts>>
  <2>1. UNCHANGED <<Visible, puts>>
    BY <1>2 DEF Visible, Outdated
  <2> QED
    BY <2>1
<1>3. CASE Tick
  <2>1. UNCHANGED <<cached_data, puts>> /\ now' = now + 1
    BY <1>3 DEF Tick, history
  <2>2. DOMAIN Visible' \subseteq DOMAIN Visible
    BY <1>1, <2>1 DEF Visible, Outdated, TypeOK
  <2>3. \A x \in DOMAIN Visible' : Visible'[x] = Visible[x]
    BY <2>1, <2>2 DEF Visible
  <2>4. Map!Drop
    BY <1>1, <2>1, <2>2, <2>3, DropStep
  <2> QED
    BY <2>4 DEF Map!Next
<1>4. ASSUME NEW t \in Threads, NEW k \in Keys, cache(t, k) PROVE Map!Next
  <2>1. puts' = [puts EXCEPT ![k] = puts[k] + 1]
    BY <1>4 DEF cache
  <2>2. /\ DOMAIN Stored(k) = DOMAIN cached_data \cup {k}
        /\ Stored(k)[k].data = puts[k] + 1
        /\ \A x \in DOMAIN cached_data : x # k => Stored(k)[x] = cached_data[x]
    BY DEF Stored, With
  <2>3. /\ DOMAIN cached_data' \subseteq DOMAIN Stored(k)
        /\ \A x \in DOMAIN cached_data' : cached_data'[x] = Stored(k)[x]
    BY <1>4 DEF cache, clean_cache, Restrict
  <2>4. now \in Nat /\ now' \in Nat /\ now' >= now
    BY <1>1, <1>4 DEF cache, TypeOK
  <2>5. DOMAIN Visible' \subseteq DOMAIN Visible \cup {k}
    BY <1>1, <2>2, <2>3, <2>4 DEF Visible, Outdated, TypeOK
  <2>6. \A x \in DOMAIN Visible' : Visible'[x] = cached_data'[x].data
    BY DEF Visible
  <2>7. \A x \in DOMAIN Visible' : x \in DOMAIN cached_data'
    BY DEF Visible
  <2>8. \A x \in DOMAIN Visible : Visible[x] = cached_data[x].data
    BY DEF Visible
  <2>9. \A x \in DOMAIN Visible' : Visible'[x] = IF x = k THEN puts[k] + 1 ELSE Visible[x]
    BY <2>2, <2>3, <2>5, <2>6, <2>7, <2>8
  <2>10. Map!Put(k)
    BY <1>1, <2>1, <2>5, <2>9, PutStep
  <2> QED
    BY <2>10 DEF Map!Next
<1>5. ASSUME NEW t \in Threads, invalidate_erases(t) PROVE Map!Next
  <2>1. /\ UNCHANGED <<now, puts>>
        /\ DOMAIN cached_data' \subseteq DOMAIN cached_data
        /\ \A x \in DOMAIN cached_data' : cached_data'[x] = cached_data[x]
    BY <1>5 DEF invalidate_erases, Without, Restrict
  <2>2. DOMAIN Visible' \subseteq DOMAIN Visible
    BY <2>1 DEF Visible, Outdated
  <2>3. \A x \in DOMAIN Visible' : Visible'[x] = Visible[x]
    BY <2>1, <2>2 DEF Visible
  <2>4. Map!Drop
    BY <1>1, <2>1, <2>2, <2>3, DropStep
  <2> QED
    BY <2>4 DEF Map!Next
<1> QED
  BY <1>2, <1>3, <1>4, <1>5
  DEF Next, vars, history, get_cached, get_cached_returns, invalidate,
      get_cache_statistics, get_cache_statistics_returns

\* TimedCache implements ExpiringMap: whatever a lookup serves is the last
\* datum stored under the key, and an expired or erased entry stays away
\* until the next store.
THEOREM Refinement == Spec => ImplementsExpiringMap
<1>1. Init => Map!Init
  BY DEF Init, Map!Init, Visible, EmptyMap, Map!EmptyMap
<1> QED
  BY CacheInvInit, CacheInvNext, RefinementStep, <1>1, PTL
  DEF Spec, ImplementsExpiringMap, Map!Spec
=============================================================================
