----------------------------- MODULE TimedCache ------------------------------
(***************************************************************************)
(* The cache of stats and directory listings (TimedCache.hpp): a map of    *)
(* timestamped data guarded by a shared_mutex.  Threads look keys up under *)
(* the shared lock, store under the unique lock, and invalidate in two     *)
(* phases: a look under the shared lock, then, with the lock released in   *)
(* between, an erase under the unique lock.  A store that finds the last   *)
(* scan too long ago scans the whole map for outdated entries.             *)
(*                                                                         *)
(* A datum is modelled by its number: the n-th datum stored under a key is *)
(* n.  puts, fence and mark are history variables, they guide no step.     *)
(***************************************************************************)
EXTENDS Integers, FiniteSets, PartialMaps

CONSTANTS
  Keys,          \* paths
  Threads,       \* users of the cache
  ValidFor,      \* cached_item_valid_for, in ticks
  ScanInterval,  \* cache_scan_interval, in ticks
  MaxTime,       \* bound on the clock
  MaxPuts,       \* bound on the stores under one key
  MaxFetches     \* bound on total_data_fetched

ASSUME DurationsAssumption == ValidFor \in Nat /\ ScanInterval \in Nat
ASSUME ThreadsAssumption == IsFiniteSet(Threads)
ASSUME BoundsAssumption == MaxTime \in Nat /\ MaxPuts \in Nat /\ MaxFetches \in Nat

VARIABLES
  now,                 \* steady_clock::now()
  cached_data,         \* the unordered_map: a function on the cached keys
  last_cache_scan,
  total_data_fetched, total_cache_hits,
  pc, key,             \* what each thread is doing, and to which key
  hits_read,           \* the first of the two loads of get_cache_statistics
  puts, fence, mark    \* stores so far; see invalidate

vars == <<now, cached_data, last_cache_scan, total_data_fetched, total_cache_hits,
          pc, key, hits_read, puts, fence, mark>>

counters == <<total_data_fetched, total_cache_hits, hits_read>>
history == <<puts, fence, mark>>

\* The two tests of an entry's age agree: get_cached serves it when it is not
\* outdated, clean_cache erases it when it is.
Outdated(e, t) == t - e.fetched_at > ValidFor

\* Faulty variant of clean_cache: it compares with the wrong duration.
clean_cache_by_interval(m, t) ==
  Restrict(m, {k \in DOMAIN m : t - m[k].fetched_at <= ScanInterval})

\* The map after a scan that reads the clock at t.
clean_cache(m, t) == Restrict(m, {k \in DOMAIN m : ~Outdated(m[k], t)})

\* cache_mutex: a thread inside get_cached holds it shared.
NoReaders == \A t \in Threads : pc[t] # "get"

TypeOK ==
  /\ now \in 0..MaxTime
  /\ DOMAIN cached_data \subseteq Keys
  /\ \A k \in DOMAIN cached_data : cached_data[k] \in [data : 1..puts[k], fetched_at : 0..now]
  /\ last_cache_scan \in 0..now
  /\ total_data_fetched \in 0..MaxFetches
  /\ total_cache_hits \in Nat
  /\ pc \in [Threads -> {"idle", "get", "erase", "stats"}]
  /\ key \in [Threads -> Keys]
  /\ hits_read \in [Threads -> Nat]
  /\ puts \in [Keys -> 0..MaxPuts]
  /\ fence \in [Keys -> 0..MaxPuts]
  /\ mark \in [Threads -> 0..MaxPuts]

Init ==
  /\ now = 0
  /\ cached_data = EmptyMap
  /\ last_cache_scan = 0
  /\ total_data_fetched = 0 /\ total_cache_hits = 0
  /\ pc = [t \in Threads |-> "idle"]
  /\ key \in [Threads -> Keys]
  /\ hits_read = [t \in Threads |-> 0]
  /\ puts = [k \in Keys |-> 0]
  /\ fence = [k \in Keys |-> 0]
  /\ mark = [t \in Threads |-> 0]

-----------------------------------------------------------------------------
(* get_cached: the shared lock is taken and the request counted, then the  *)
(* entry is looked up and, when it is served, the hit counted.             *)

\* Faulty variant of get_cached: a request is counted only when it misses.
get_cached_counts_misses(t, k) ==
  /\ pc[t] = "idle" /\ total_data_fetched < MaxFetches
  /\ total_data_fetched' = IF k \in DOMAIN cached_data THEN total_data_fetched
                                                     ELSE total_data_fetched + 1
  /\ pc' = [pc EXCEPT ![t] = "get"]
  /\ key' = [key EXCEPT ![t] = k]
  /\ UNCHANGED <<now, cached_data, last_cache_scan, total_cache_hits, hits_read, history>>

get_cached(t, k) ==
  /\ pc[t] = "idle" /\ total_data_fetched < MaxFetches
  /\ total_data_fetched' = total_data_fetched + 1
  /\ pc' = [pc EXCEPT ![t] = "get"]
  /\ key' = [key EXCEPT ![t] = k]
  /\ UNCHANGED <<now, cached_data, last_cache_scan, total_cache_hits, hits_read, history>>

Hit(t) == key[t] \in DOMAIN cached_data /\ ~Outdated(cached_data[key[t]], now)

get_cached_returns(t) ==
  /\ pc[t] = "get"
  /\ total_cache_hits' = IF Hit(t) THEN total_cache_hits + 1 ELSE total_cache_hits
  /\ pc' = [pc EXCEPT ![t] = "idle"]
  /\ UNCHANGED <<now, cached_data, last_cache_scan, total_data_fetched, key, hits_read, history>>

-----------------------------------------------------------------------------
(* cache: one critical section.  The scan reads the clock again, so it may *)
(* run at a time later than the one the entry was stamped with.            *)

\* Faulty variant of Stored: the datum of an entry that exists is kept, and
\* only its time is renewed.
Stored_keeps_datum(k) ==
  With(cached_data, k, [data |-> IF k \in DOMAIN cached_data THEN cached_data[k].data
                                                            ELSE puts[k] + 1,
                        fetched_at |-> now])

\* Faulty variant of Stored: the entry is stamped with its end of life.
Stored_with_expiry(k) ==
  With(cached_data, k, [data |-> puts[k] + 1, fetched_at |-> now + ValidFor])

Stored(k) == With(cached_data, k, [data |-> puts[k] + 1, fetched_at |-> now])

\* Faulty variant of ScanDue: the operands are swapped, so no scan is ever due.
ScanDue_swapped == last_cache_scan - now > ScanInterval

ScanDue == now - last_cache_scan > ScanInterval

cache(t, k) ==
  /\ pc[t] = "idle" /\ NoReaders /\ puts[k] < MaxPuts
  /\ puts' = [puts EXCEPT ![k] = @ + 1]
  /\ \/ /\ ~ScanDue
        /\ cached_data' = Stored(k)
        /\ UNCHANGED <<now, last_cache_scan>>
     \/ /\ ScanDue
        /\ now' \in now..MaxTime
        /\ cached_data' = clean_cache(Stored(k), now')
        /\ last_cache_scan' = now
  /\ UNCHANGED <<counters, pc, key, fence, mark>>

-----------------------------------------------------------------------------
(* invalidate: mark[t] is the number of data stored under the key when the *)
(* call began; once the call has returned, fence[k] says that none of      *)
(* those may be in the map any more.                                       *)

Raised(k, n) == [fence EXCEPT ![k] = IF n > @ THEN n ELSE @]

\* Faulty variant of Contains: an outdated entry counts as none, as it does
\* for get_cached.
Contains_served(k) == k \in DOMAIN cached_data /\ ~Outdated(cached_data[k], now)

Contains(k) == k \in DOMAIN cached_data

invalidate(t, k) ==
  /\ pc[t] = "idle"
  /\ \/ /\ ~Contains(k)
        /\ fence' = Raised(k, puts[k])
        /\ UNCHANGED <<pc, key, mark>>
     \/ /\ Contains(k)
        /\ pc' = [pc EXCEPT ![t] = "erase"]
        /\ key' = [key EXCEPT ![t] = k]
        /\ mark' = [mark EXCEPT ![t] = puts[k]]
        /\ UNCHANGED fence
  /\ UNCHANGED <<now, cached_data, last_cache_scan, counters, puts>>

invalidate_erases(t) ==
  /\ pc[t] = "erase" /\ NoReaders
  /\ cached_data' = Without(cached_data, {key[t]})
  /\ fence' = Raised(key[t], mark[t])
  /\ pc' = [pc EXCEPT ![t] = "idle"]
  /\ UNCHANGED <<now, last_cache_scan, counters, key, puts, mark>>

-----------------------------------------------------------------------------
(* get_cache_statistics loads the two counters one after the other, without *)
(* the lock.                                                               *)

get_cache_statistics(t) ==
  /\ pc[t] = "idle"
  /\ hits_read' = [hits_read EXCEPT ![t] = total_cache_hits]
  /\ pc' = [pc EXCEPT ![t] = "stats"]
  /\ UNCHANGED <<now, cached_data, last_cache_scan, total_data_fetched, total_cache_hits,
                 key, history>>

get_cache_statistics_returns(t) ==
  /\ pc[t] = "stats"
  /\ pc' = [pc EXCEPT ![t] = "idle"]
  /\ UNCHANGED <<now, cached_data, last_cache_scan, counters, key, history>>

Tick ==
  /\ now < MaxTime
  /\ now' = now + 1
  /\ UNCHANGED <<cached_data, last_cache_scan, counters, pc, key, history>>

Next ==
  \/ Tick
  \/ \E t \in Threads :
       \/ \E k \in Keys : get_cached(t, k) \/ cache(t, k) \/ invalidate(t, k)
       \/ get_cached_returns(t)
       \/ invalidate_erases(t)
       \/ get_cache_statistics(t)
       \/ get_cache_statistics_returns(t)

Spec == Init /\ [][Next]_vars

-----------------------------------------------------------------------------
(* Properties.                                                             *)

\* The last scan really swept the map: no entry was already outdated at the
\* moment recorded in last_cache_scan.
SweptAtScan ==
  \A k \in DOMAIN cached_data : last_cache_scan - cached_data[k].fetched_at <= ValidFor

\* The cache does not grow for ever (TimedCache.hpp:37): a step that stores
\* an entry leaves none in the map that is older than the scan interval and
\* the validity period together.
StoresRefresh(k) ==
  k \in DOMAIN cached_data' /\ (k \in DOMAIN cached_data => cached_data'[k] # cached_data[k])

BoundedAge ==
  \A k \in DOMAIN cached_data' :
    now - cached_data'[k].fetched_at <= ScanInterval + ValidFor

NoOldEntries == [][(\E k \in Keys : StoresRefresh(k)) => BoundedAge]_vars

\* The two-phase invalidate does its work whatever runs between its phases:
\* when it has returned, every datum stored before the call began is gone.
InvalidateEffective ==
  \A k \in DOMAIN cached_data : cached_data[k].data > fence[k]

\* The statistics never report more hits than requests, although the two
\* counters are loaded without the lock: the hits are loaded first.
HitsAtMostRequests ==
  \A t \in Threads : pc[t] = "stats" => hits_read[t] <= total_data_fetched

\* TimedCache.hpp:36: "Outdated entries are removed if they are fetched".
\* A lookup that finds an outdated entry leaves it out of the map.
FetchRemovesOutdated ==
  [][\A t \in Threads :
       /\ pc[t] = "get" /\ pc'[t] = "idle"
       /\ key[t] \in DOMAIN cached_data
       /\ Outdated(cached_data[key[t]], now)
       => key[t] \notin DOMAIN cached_data']_vars

-----------------------------------------------------------------------------
(* The entries a lookup would serve form a map that only a store adds to.  *)

Visible == [k \in {x \in DOMAIN cached_data : ~Outdated(cached_data[x], now)} |->
              cached_data[k].data]

Map == INSTANCE ExpiringMap WITH map <- Visible, stored <- puts

\* The cache keeps the promise of ExpiringMap: what a lookup serves is always
\* the last datum stored, and an entry that vanished does not come back.
ImplementsExpiringMap == Map!Spec
=============================================================================
