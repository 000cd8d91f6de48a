---------------------------- MODULE CaptureCache ----------------------------
(* The driver's bounded cache of captured programs: an LRU with a time to live, *)
(* partitioned by job.                                                          *)
EXTENDS Naturals, Sequences, FiniteSets, Collections

CONSTANTS CacheKeys, Jobs, JobOf, CacheLimit, CacheTTL, CacheTime

VARIABLES entries,    \* keys held, least recently used first
          until,      \* key -> end of its time to live
          clock,
          served      \* key the last get returned, or NoKey

vars == <<entries, until, clock, served>>

NoKey == "no key"
CaptureAssumption ==
  NoKey \notin CacheKeys /\ CacheLimit \in Nat /\ CacheTTL \in Nat /\ CacheTime \in Nat

Held == {entries[i] : i \in 1..Len(entries)}
Init == entries = <<>> /\ until = [k \in CacheKeys |-> 0] /\ clock = 0 /\ served = NoKey

Expired == {k \in Held : until[k] <= clock}
Newest(s) == IF Len(s) > CacheLimit THEN SubSeq(s, Len(s) - CacheLimit + 1, Len(s)) ELSE s

GetWithoutPurge(k) ==      (* Faulty: the expired are not purged first. *)
  /\ served' = IF k \in Held THEN k ELSE NoKey
  /\ entries' = IF k \in Held THEN Append(Without(entries, {k}), k) ELSE entries
  /\ UNCHANGED <<until, clock>>
(* get: purge, then the entry, verified again, becomes the most recent.         *)
Get(k) ==
  /\ LET kept == Without(entries, Expired)
         hit == k \in Held \ Expired
     IN /\ entries' = IF hit THEN Append(Without(kept, {k}), k) ELSE kept
        /\ served' = IF hit THEN k ELSE NoKey
  /\ UNCHANGED <<until, clock>>

(* put of a program whose identities are the key's: purge, enter, and drop the  *)
(* least recently used beyond the limit.                                        *)
Put(k) ==
  /\ entries' = Newest(Append(Without(entries, Expired \cup {k}), k))
  /\ until' = [until EXCEPT ![k] = clock + CacheTTL]
  /\ served' = NoKey /\ UNCHANGED clock

ClearJob(j) ==
  /\ entries' = Without(entries, {k \in CacheKeys : JobOf[k] = j})
  /\ served' = NoKey /\ UNCHANGED <<until, clock>>

PurgeExpired == entries' = Without(entries, Expired) /\ served' = NoKey /\ UNCHANGED <<until, clock>>

Tick == clock < CacheTime /\ clock' = clock + 1 /\ served' = NoKey /\ UNCHANGED <<entries, until>>

Next == PurgeExpired \/ Tick \/ (\E j \in Jobs : ClearJob(j)) \/ \E k \in CacheKeys : Get(k) \/ Put(k)

Spec == Init /\ [][Next]_vars

TypeOK ==
  /\ Held \subseteq CacheKeys /\ Cardinality(Held) = Len(entries) /\ Len(entries) <= CacheLimit
  /\ until \in [CacheKeys -> 0..(CacheTime + CacheTTL)] /\ clock \in 0..CacheTime
  /\ served \in CacheKeys \cup {NoKey}

(* No expired program is served, and a program that is neither expired nor the  *)
(* least recently used of a full cache stays until its job is cleared           *)
(* (capture_cache.py:83-138).                                                   *)
FreshStay ==
  /\ served' # NoKey => until[served'] > clock
  /\ \A k \in Held \ Expired : k \notin {entries'[i] : i \in 1..Len(entries')} =>
       \/ \E j \in Jobs : JobOf[k] = j /\ ClearJob(j)
       \/ Cardinality(Held \ Expired) = CacheLimit /\ Head(Without(entries, Expired)) = k
KeptWhileFresh == [][FreshStay]_vars
=============================================================================
