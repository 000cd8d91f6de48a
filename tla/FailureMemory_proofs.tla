------------------------- MODULE FailureMemory_proofs -------------------------
(***************************************************************************)
(* The breaker's window, the table of rejections and the clock-free gate   *)
(* they implement, for any number of keys, callers and entries.            *)
(***************************************************************************)
EXTENDS FailureMemory, Collections_proofs

(* At the threshold the window starts at the last failure.                 *)
Windows ==
    /\ now \in Nat
    /\ failures \in [Keys -> Nat]
    /\ opened \in [Keys -> Nat \cup {Never}]
    /\ lastFailure \in [Keys -> Nat \cup {Never}]
    /\ \A k \in Keys : ThresholdReached(k) =>
            opened[k] = lastFailure[k] /\ opened[k] \in Nat

LEMMA InitWindows == Init => Windows
  BY MemoryAssumption DEF Init, Windows, ThresholdReached, Never

LEMMA NextWindows == Windows /\ [Next]_vars => Windows'
<1> SUFFICES ASSUME Windows, [Next]_vars PROVE Windows'
  OBVIOUS
<1> USE MemoryAssumption DEF Windows, ThresholdReached, Never
<1>1. CASE Tick
  BY <1>1 DEF Tick
<1>2. ASSUME NEW c \in Callers, NEW k, NEW step, Enter(c, step, k) PROVE Windows'
  BY <1>2 DEF Enter
<1>3. ASSUME NEW c \in Callers, RecordInternalFailure(c) PROVE Windows'
  <2> DEFINE k == caller[c].key
  <2>1. /\ failures' = [failures EXCEPT ![k] = @ + 1]
        /\ lastFailure' = [lastFailure EXCEPT ![k] = now] /\ now' = now
        /\ opened' = IF failures'[k] >= Threshold
                     THEN [opened EXCEPT ![k] = now] ELSE opened
    BY <1>3 DEF RecordInternalFailure
  <2> HIDE DEF k
  <2>2. CASE k \in Keys
    <3>1. /\ failures'[k] = failures[k] + 1 /\ lastFailure'[k] = now
          /\ \A j \in Keys \ {k} : /\ failures'[j] = failures[j] /\ opened'[j] = opened[j]
                                  /\ lastFailure'[j] = lastFailure[j]
      BY <2>1, <2>2
    <3>2. failures'[k] >= Threshold => opened'[k] = now
      BY <2>1, <2>2
    <3>3. /\ failures' \in [Keys -> Nat] /\ opened' \in [Keys -> Nat \cup {-1}]
          /\ lastFailure' \in [Keys -> Nat \cup {-1}]
      BY <2>1, <2>2
    <3> QED
      BY <2>1, <2>2, <3>1, <3>2, <3>3
  <2>3. CASE k \notin Keys
    <3>1. failures' = failures /\ lastFailure' = lastFailure /\ opened' = opened
      BY <2>1, <2>3
    <3> QED
      BY <2>1, <3>1
  <2> QED
    BY <2>2, <2>3
<1>4. ASSUME NEW c \in Callers, RecordSuccess(c) PROVE Windows'
  <2> DEFINE k == caller[c].key
  <2>1. /\ failures' = [failures EXCEPT ![k] = 0] /\ opened' = [opened EXCEPT ![k] = -1]
        /\ lastFailure' = lastFailure /\ now' = now
    BY <1>4 DEF RecordSuccess
  <2> HIDE DEF k
  <2>2. \A j \in Keys : /\ j = k => failures'[j] = 0
                        /\ j # k => failures'[j] = failures[j] /\ opened'[j] = opened[j]
    BY <2>1
  <2>3. failures' \in [Keys -> Nat] /\ opened' \in [Keys -> Nat \cup {-1}]
    BY <2>1
  <2>4. Threshold \in Nat \ {0}
    OBVIOUS
  <2>5. ASSUME NEW j \in Keys, failures'[j] >= Threshold
        PROVE  opened'[j] = lastFailure'[j] /\ opened'[j] \in Nat
    <3>1. CASE j = k
      <4>1. failures'[j] = 0
        BY <2>2, <3>1
      <4> QED
        BY <2>4, <2>5, <4>1
    <3>2. CASE j # k
      <4>1. failures'[j] = failures[j] /\ opened'[j] = opened[j]
        BY <2>2, <3>2
      <4> QED
        BY <2>1, <2>5, <4>1
    <3> QED
      BY <3>1, <3>2
  <2> QED
    BY <2>1, <2>3, <2>5
<1>5. ASSUME NEW c \in Callers,
             \/ Get(c) \/ State(c) \/ Admitted(c) \/ Record(c) \/ Clear(c) \/ EntryCount(c)
      PROVE  Windows'
  BY <1>5 DEF Get, State, Admitted, Record, Clear, EntryCount
<1>6. CASE UNCHANGED vars
  BY <1>6 DEF vars
<1> QED
  BY <1>1, <1>2, <1>3, <1>4, <1>5, <1>6 DEF Next, Resolve, Complete

(* A breaker that has reached its threshold is open for the whole reset    *)
(* time after the last failure it heard of, however the threads that ask   *)
(* and record are interleaved (circuit_breaker.py).                        *)
THEOREM WindowIsWhole == Spec => []OpenThroughoutWindow
<1>1. Windows => OpenThroughoutWindow
  BY MemoryAssumption DEF Windows, OpenThroughoutWindow, Open, ResetElapsed,
     ThresholdReached, Never
<1> QED
  BY <1>1, InitWindows, NextWindows, PTL DEF Spec

-----------------------------------------------------------------------------
(* The table: what the operators on it preserve.                           *)
Entry == [key : Keys, expires : 0..(MaxClock + TTL)]

EntriesOK(s) ==
    /\ s \in Seq(Entry)
    /\ Distinct(s)
    /\ \A d, e \in Range(s) : d.key = e.key => d = e

LEMMA RangeItems ==
  ASSUME NEW S, NEW s \in Seq(S)
  PROVE  Range(s) \in SUBSET S
BY DEF Range

LEMMA LengthCounts ==
  ASSUME NEW s, NEW t, EntriesOK(s), EntriesOK(t), Range(t) \subseteq Range(s)
  PROVE  /\ Len(s) \in Nat /\ Len(t) \in Nat
         /\ Len(t) <= Len(s)
         /\ Len(t) = Len(s) => Range(t) = Range(s)
<1>1. /\ Len(s) = Cardinality(Range(s)) /\ IsFiniteSet(Range(s))
      /\ Len(t) = Cardinality(Range(t)) /\ IsFiniteSet(Range(t))
  BY DistinctLength DEF EntriesOK
<1>2. Cardinality(Range(s)) \in Nat /\ Cardinality(Range(t)) \in Nat
  BY <1>1, FS_CardinalityType
<1> QED
  BY <1>1, <1>2, FS_Subset

LEMMA WithoutEntries ==
  ASSUME NEW s, EntriesOK(s), NEW K
  PROVE  /\ EntriesOK(Without(s, K))
         /\ Range(Without(s, K)) = Range(s) \ K
         /\ Len(Without(s, K)) \in Nat /\ Len(s) \in Nat
         /\ Len(Without(s, K)) <= Len(s)
         /\ Len(Without(s, K)) = Len(s) => Without(s, K) = s
<1>1. /\ Without(s, K) \in Seq(Entry)
      /\ Range(Without(s, K)) = Range(s) \ K
      /\ Distinct(Without(s, K))
  BY WithoutFacts DEF EntriesOK
<1>2. EntriesOK(Without(s, K))
  BY <1>1 DEF EntriesOK
<1>3. /\ Len(Without(s, K)) \in Nat /\ Len(s) \in Nat
      /\ Len(Without(s, K)) <= Len(s)
      /\ Len(Without(s, K)) = Len(s) => Range(Without(s, K)) = Range(s)
  BY <1>1, <1>2, LengthCounts
<1>4. Len(Without(s, K)) = Len(s) => Without(s, K) = s
  <2>1. Range(Without(s, K)) = Range(s) => K \cap Range(s) = {}
    BY <1>1
  <2> QED
    BY <1>3, <2>1, WithoutNothing DEF EntriesOK
<1> QED
  BY <1>1, <1>2, <1>3, <1>4

LEMMA AppendEntry ==
  ASSUME NEW s, EntriesOK(s), NEW e \in Entry, \A d \in Range(s) : d.key # e.key
  PROVE  /\ EntriesOK(Append(s, e))
         /\ Range(Append(s, e)) = Range(s) \cup {e}
         /\ Len(Append(s, e)) = Len(s) + 1
<1>1. s \in Seq(Entry) /\ e \notin Range(s)
  BY DEF EntriesOK
<1>2. Append(s, e) \in Seq(Entry) /\ Range(Append(s, e)) = Range(s) \cup {e}
  BY <1>1, AppendRange
<1>3. Distinct(Append(s, e))
  BY <1>1, AppendDistinct DEF EntriesOK
<1>4. Len(Append(s, e)) = Len(s) + 1
  BY <1>1
<1> QED
  BY <1>2, <1>3, <1>4 DEF EntriesOK

(* Newest drops from the front, and only what is too many. *)
LEMMA NewestEntries ==
  ASSUME NEW s, EntriesOK(s), NEW n \in Nat \ {0}
  PROVE  /\ EntriesOK(Newest(s, n)) /\ Len(Newest(s, n)) <= n
         /\ Range(Newest(s, n)) \subseteq Range(s)
         /\ Len(s) <= n => Newest(s, n) = s
         /\ Len(s) > n => /\ Len(Newest(s, n)) = n
                          /\ \A i \in 1..n : Newest(s, n)[i] = s[i + (Len(s) - n)]
<1>1. s \in Seq(Entry) /\ Len(s) \in Nat
  BY DEF EntriesOK
<1>2. CASE Len(s) <= n
  BY <1>1, <1>2 DEF Newest
<1>3. CASE Len(s) > n
  <2> DEFINE t == SubSeq(s, Len(s) - n + 1, Len(s))
  <2>1. Newest(s, n) = t
    BY <1>1, <1>3 DEF Newest
  <2>2. t \in Seq(Entry) /\ Len(t) = n /\ \A i \in 1..n : t[i] = s[i + (Len(s) - n)]
    BY <1>1, <1>3
  <2> HIDE DEF t
  <2>3. DOMAIN t = 1..n /\ DOMAIN s = 1..Len(s)
    BY <1>1, <2>2
  <2>4. \A i \in 1..n : i + (Len(s) - n) \in DOMAIN s
    BY <1>1, <1>3, <2>3
  <2>5. Range(t) \subseteq Range(s)
    BY <2>2, <2>3, <2>4 DEF Range
  <2>6. Distinct(t)
    <3>1. Distinct(s)
      BY DEF EntriesOK
    <3>2. SUFFICES ASSUME NEW i \in 1..n, NEW j \in 1..n, t[i] = t[j] PROVE i = j
      BY <2>3 DEF Distinct
    <3>3. s[i + (Len(s) - n)] = s[j + (Len(s) - n)]
      BY <2>2, <3>2
    <3>4. i + (Len(s) - n) = j + (Len(s) - n)
      BY <2>4, <3>1, <3>3 DEF Distinct
    <3> QED
      BY <1>1, <3>4
  <2>7. EntriesOK(t)
    BY <2>2, <2>5, <2>6 DEF EntriesOK
  <2> QED
    BY <1>3, <2>1, <2>2, <2>5, <2>7
<1> QED
  BY <1>1, <1>2, <1>3

-----------------------------------------------------------------------------
(* The three critical sections that rewrite the table. *)
LEMMA PurgedEntries ==
  ASSUME EntriesOK(entries), NEW clock \in Nat
  PROVE  /\ EntriesOK(Purged(clock))
         /\ Range(Purged(clock)) = {e \in Range(entries) : e.expires > clock}
         /\ Len(Purged(clock)) \in Nat /\ Len(entries) \in Nat
         /\ Len(Purged(clock)) <= Len(entries)
         /\ Len(Purged(clock)) = Len(entries) => Purged(clock) = entries
<1> DEFINE K == {e \in Range(entries) : e.expires <= clock}
<1>1. Purged(clock) = Without(entries, K)
  BY DEF Purged
<1>2. \A e \in Range(entries) : e.expires \in Nat
  <2>1. Range(entries) \in SUBSET Entry
    BY RangeItems DEF EntriesOK
  <2> QED
    BY <2>1, MemoryAssumption DEF Entry
<1>3. Range(entries) \ K = {e \in Range(entries) : e.expires > clock}
  BY <1>2
<1> HIDE DEF K
<1> QED
  BY <1>1, <1>3, WithoutEntries

LEMMA WithoutKeyEntries ==
  ASSUME NEW s, EntriesOK(s), NEW k
  PROVE  /\ EntriesOK(WithoutKey(s, k))
         /\ Range(WithoutKey(s, k)) = {e \in Range(s) : e.key # k}
         /\ Len(WithoutKey(s, k)) \in Nat /\ Len(s) \in Nat
         /\ Len(WithoutKey(s, k)) <= Len(s)
         /\ Len(WithoutKey(s, k)) = Len(s) => WithoutKey(s, k) = s
<1>1. WithoutKey(s, k) = Without(s, EntryOf(k, s))
  BY DEF WithoutKey
<1>2. Range(s) \ EntryOf(k, s) = {e \in Range(s) : e.key # k}
  BY DEF EntryOf
<1> QED
  BY <1>1, <1>2, WithoutEntries

(* A lookup reorders the entries that are still alive. *)
LEMMA GotEntries ==
  ASSUME EntriesOK(entries), NEW clock \in Nat, NEW k
  PROVE  /\ EntriesOK(Got(k, clock))
         /\ Range(Got(k, clock)) = {e \in Range(entries) : e.expires > clock}
         /\ Len(Got(k, clock)) <= Len(entries)
<1> DEFINE live == Purged(clock)
           found == EntryOf(k, live)
           e == CHOOSE d \in found : TRUE
<1>1. /\ EntriesOK(live) /\ Len(live) \in Nat /\ Len(live) <= Len(entries)
      /\ Range(live) = {d \in Range(entries) : d.expires > clock}
      /\ Len(entries) \in Nat
  BY PurgedEntries
<1>2. Got(k, clock) = IF found = {} THEN live ELSE Append(WithoutKey(live, k), e)
  BY DEF Got
<1> HIDE DEF live
<1>3. CASE found = {}
  BY <1>1, <1>2, <1>3
<1>4. CASE found # {}
  <2>1. e \in found
    BY <1>4
  <2> HIDE DEF e
  <2>2. e \in Range(live) /\ e.key = k /\ e \in Entry
    BY <1>1, <2>1, RangeItems DEF EntryOf, EntriesOK
  <2>3. /\ EntriesOK(WithoutKey(live, k))
        /\ Range(WithoutKey(live, k)) = {d \in Range(live) : d.key # k}
    BY <1>1, WithoutKeyEntries
  <2>4. /\ EntriesOK(Append(WithoutKey(live, k), e))
        /\ Range(Append(WithoutKey(live, k), e)) = Range(WithoutKey(live, k)) \cup {e}
    BY <2>2, <2>3, AppendEntry
  <2>5. Range(Append(WithoutKey(live, k), e)) = Range(live)
    <3>1. \A d \in Range(live) : d.key = k => d = e
      BY <1>1, <2>2 DEF EntriesOK
    <3> QED
      BY <2>2, <2>3, <2>4, <3>1
  <2>6. Len(Append(WithoutKey(live, k), e)) <= Len(live)
    BY <1>1, <2>4, <2>5, LengthCounts
  <2>7. Len(Append(WithoutKey(live, k), e)) \in Nat
    BY <2>4 DEF EntriesOK
  <2> QED
    BY <1>1, <1>2, <1>4, <2>4, <2>5, <2>6, <2>7
<1> QED
  BY <1>3, <1>4

(* A recorded rejection is in the table; what it displaces from a full     *)
(* table is the first entry, of a key that was not being recorded again.   *)
LEMMA RecordedEntries ==
  ASSUME EntriesOK(entries), Len(entries) <= MaxEntries, NEW clock \in Clock, NEW k \in Keys
  PROVE  /\ EntriesOK(Recorded(k, clock))
         /\ Len(Recorded(k, clock)) <= MaxEntries
         /\ \E e \in Range(Recorded(k, clock)) : e.key = k
         /\ \A e \in Range(Recorded(k, clock)) : e.key = k \/ e \in Range(entries)
         /\ \/ \A e \in Range(entries) :
                 e \in Range(Recorded(k, clock)) \/ e.key = k \/ e.expires <= clock
            \/ /\ Len(Recorded(k, clock)) = MaxEntries /\ Len(entries) = MaxEntries
               /\ Recorded(k, clock)[MaxEntries].key = k
               /\ \A e \in Range(entries) : e.key # k
               /\ \A i \in 2..MaxEntries : Recorded(k, clock)[i - 1] = entries[i]
<1> DEFINE live == Purged(clock)
           rest == WithoutKey(live, k)
           new == [key |-> k, expires |-> clock + TTL]
           all == Append(rest, new)
           result == Newest(all, MaxEntries)
<1>0. MaxEntries \in Nat \ {0} /\ clock \in Nat
  BY MemoryAssumption DEF Clock
<1>1. /\ EntriesOK(live) /\ Len(live) \in Nat /\ Len(live) <= Len(entries)
      /\ Range(live) = {d \in Range(entries) : d.expires > clock}
      /\ Len(entries) \in Nat
      /\ Len(live) = Len(entries) => live = entries
  BY <1>0, PurgedEntries
<1>2. Recorded(k, clock) = result
  BY DEF Recorded
<1> HIDE DEF live
<1>3. /\ EntriesOK(rest) /\ Len(rest) \in Nat /\ Len(rest) <= Len(live)
      /\ Range(rest) = {d \in Range(live) : d.key # k}
      /\ Len(rest) = Len(live) => rest = live
  BY <1>1, WithoutKeyEntries
<1> HIDE DEF rest
<1>4. new \in Entry /\ new.key = k
  BY MemoryAssumption DEF Entry, Clock
<1> HIDE DEF new
<1>5. /\ EntriesOK(all) /\ Range(all) = Range(rest) \cup {new} /\ Len(all) = Len(rest) + 1
      /\ all[Len(rest) + 1] = new /\ \A i \in 1..Len(rest) : all[i] = rest[i]
  <2>1. EntriesOK(all) /\ Range(all) = Range(rest) \cup {new} /\ Len(all) = Len(rest) + 1
    BY <1>3, <1>4, AppendEntry
  <2>2. rest \in Seq(Entry)
    BY <1>3 DEF EntriesOK
  <2> QED
    BY <2>1, <2>2
<1> HIDE DEF all
<1>6. /\ EntriesOK(result) /\ Len(result) <= MaxEntries
      /\ Range(result) \subseteq Range(all)
      /\ Len(all) <= MaxEntries => result = all
      /\ Len(all) > MaxEntries =>
           /\ Len(result) = MaxEntries
           /\ \A i \in 1..MaxEntries : result[i] = all[i + (Len(all) - MaxEntries)]
  BY <1>0, <1>5, NewestEntries
<1> HIDE DEF result
<1>7. \A e \in Range(result) : e.key = k \/ e \in Range(entries)
  BY <1>1, <1>3, <1>4, <1>5, <1>6
<1>8. CASE Len(all) <= MaxEntries
  <2>1. result = all /\ new \in Range(result)
    BY <1>5, <1>6, <1>8
  <2>2. \A e \in Range(entries) :
          e \in Range(result) \/ e.key = k \/ e.expires <= clock
    <3>1. SUFFICES ASSUME NEW e \in Range(entries), e.key # k, ~(e.expires <= clock)
                   PROVE  e \in Range(result)
      OBVIOUS
    <3>2. e.expires \in Nat
      <4>1. e \in Entry
        BY <3>1, RangeItems DEF EntriesOK
      <4> QED
        BY <4>1, MemoryAssumption DEF Entry
    <3>3. e \in Range(live)
      BY <1>0, <1>1, <3>1, <3>2
    <3> QED
      BY <1>3, <1>5, <2>1, <3>1, <3>3
  <2> QED
    BY <1>2, <1>4, <1>6, <1>7, <2>1, <2>2
<1>9. CASE Len(all) > MaxEntries
  <2>1. Len(rest) = MaxEntries /\ Len(entries) = MaxEntries /\ Len(all) - MaxEntries = 1
    BY <1>0, <1>1, <1>3, <1>5, <1>9
  <2>2. rest = entries /\ live = entries
    BY <1>1, <1>3, <2>1
  <2>3. \A e \in Range(entries) : e.key # k
    BY <1>3, <2>2
  <2>4. /\ Len(result) = MaxEntries
        /\ \A i \in 1..MaxEntries : result[i] = all[i + 1]
    BY <1>6, <1>9, <2>1
  <2>5. result[MaxEntries] = new
    BY <1>0, <1>5, <2>1, <2>4
  <2>6. \A i \in 2..MaxEntries : result[i - 1] = entries[i]
    BY <1>0, <1>5, <2>1, <2>2, <2>4
  <2>7. new \in Range(result)
    <3>1. result \in Seq(Entry)
      BY <1>6 DEF EntriesOK
    <3>2. MaxEntries \in DOMAIN result
      BY <1>0, <2>4, <3>1
    <3> QED
      BY <2>5, <3>2 DEF Range
  <2> QED
    BY <1>2, <1>4, <1>6, <1>7, <2>1, <2>3, <2>4, <2>5, <2>6, <2>7
<1> QED
  BY <1>3, <1>5, <1>8, <1>9, <1>0

-----------------------------------------------------------------------------
(* The same facts as TypeOK states them: no more than max_entries entries, *)
(* each of another key.                                                    *)
LEMMA TableHolds ==
  ASSUME NEW s, EntriesOK(s), Len(s) <= MaxEntries
  PROVE  /\ s \in BoundedSeq(Entry, MaxEntries)
         /\ Cardinality({e.key : e \in Range(s)}) = Len(s)
<1>1. s \in Seq(Entry) /\ Len(s) \in Nat
  BY DEF EntriesOK
<1>2. s \in BoundedSeq(Entry, MaxEntries)
  <2>1. Len(s) \in 0..MaxEntries /\ s \in [1..Len(s) -> Entry]
    BY <1>1, MemoryAssumption
  <2> QED
    BY <2>1 DEF BoundedSeq, SeqOf
<1> DEFINE ks == [i \in 1..Len(s) |-> s[i].key]
<1>3. ks \in Seq(Keys) /\ Len(ks) = Len(s) /\ DOMAIN ks = 1..Len(s)
  <2>1. \A i \in 1..Len(s) : s[i].key \in Keys
    <3>1. \A i \in 1..Len(s) : s[i] \in Entry
      BY <1>1
    <3> QED
      BY <3>1 DEF Entry
  <2>2. ks \in [1..Len(s) -> Keys]
    BY <2>1
  <2> HIDE DEF ks
  <2> QED
    BY <1>1, <2>2
<1>4. Distinct(ks)
  <2>1. SUFFICES ASSUME NEW i \in 1..Len(s), NEW j \in 1..Len(s), s[i].key = s[j].key
                 PROVE  i = j
    BY <1>3 DEF Distinct
  <2>2. s[i] \in Range(s) /\ s[j] \in Range(s) /\ i \in DOMAIN s /\ j \in DOMAIN s
    BY <1>1 DEF Range
  <2>3. s[i] = s[j]
    BY <2>1, <2>2 DEF EntriesOK
  <2> QED
    BY <2>2, <2>3 DEF EntriesOK, Distinct
<1>5. Range(ks) = {e.key : e \in Range(s)}
  BY <1>1 DEF Range
<1> HIDE DEF ks
<1>6. Cardinality(Range(ks)) = Len(ks)
  BY <1>3, <1>4, DistinctLength
<1> QED
  BY <1>2, <1>3, <1>5, <1>6

MemoryInv == TypeOK /\ Remembers /\ Windows

LEMMA TableKnown ==
  ASSUME TypeOK, KeysDistinct
  PROVE  EntriesOK(entries) /\ Len(entries) <= MaxEntries
<1>1. entries \in BoundedSeq(Entry, MaxEntries)
  BY DEF TypeOK, Entry
<1>2. PICK m \in 0..MaxEntries : entries \in [1..m -> Entry]
  BY <1>1 DEF BoundedSeq, SeqOf
<1>3. entries \in Seq(Entry) /\ Len(entries) = m
  BY <1>2, MemoryAssumption
<1> QED
  BY <1>2, <1>3, MemoryAssumption DEF KeysDistinct, EntriesOK

(* The calls that take a clock took it when they began.                    *)
LEMMA ClockRead ==
  ASSUME TypeOK, CallersReady, NEW c \in Callers
  PROVE  /\ caller[c].at \notin {"idle", "count"} => caller[c].key \in Keys
         /\ caller[c].at \in {"get", "count", "reject", "reject_only"}
              => /\ caller[c].clock \in Clock /\ caller[c].clock \in Nat
                 /\ caller[c].clock <= now
<1>1. now \in Clock
  BY DEF TypeOK
<1> QED
  BY <1>1, MemoryAssumption DEF CallersReady, Clock

(* What one step does to the table. *)
LEMMA TableSteps ==
  ASSUME TypeOK, KeysDistinct, CallersReady, [Next]_vars
  PROVE  \/ entries' = entries
         \/ \E c \in Callers : /\ caller[c].at = "get"
                               /\ entries' = Got(caller[c].key, caller[c].clock)
         \/ \E c \in Callers : /\ caller[c].at = "count"
                               /\ entries' = Purged(caller[c].clock)
         \/ \E c \in Callers : /\ caller[c].at \in {"reject", "reject_only"}
                               /\ entries' = Recorded(caller[c].key, caller[c].clock)
         \/ \E c \in Callers : /\ caller[c].at = "clear"
                               /\ entries' = WithoutKey(entries, caller[c].key)
BY DEF Next, vars, Tick, Resolve, Complete, Enter, Get, State, Admitted, Record,
       RecordInternalFailure, Clear, RecordSuccess, EntryCount

LEMMA NextTable ==
  ASSUME TypeOK, KeysDistinct, CallersReady, [Next]_vars
  PROVE  EntriesOK(entries') /\ Len(entries') <= MaxEntries
<1>1. /\ EntriesOK(entries) /\ Len(entries) <= MaxEntries
      /\ Len(entries) \in Nat /\ MaxEntries \in Nat
  BY TableKnown, MemoryAssumption DEF EntriesOK
<1>2. ASSUME NEW s, EntriesOK(s), Len(s) <= Len(entries), entries' = s
      PROVE  EntriesOK(entries') /\ Len(entries') <= MaxEntries
  <2>1. Len(s) \in Nat
    BY <1>2 DEF EntriesOK
  <2> QED
    BY <1>1, <1>2, <2>1
<1>3. CASE entries' = entries
  BY <1>1, <1>3
<1>4. ASSUME NEW c \in Callers, caller[c].at = "get",
             entries' = Got(caller[c].key, caller[c].clock)
      PROVE  EntriesOK(entries') /\ Len(entries') <= MaxEntries
  <2>1. caller[c].clock \in Nat
    BY <1>4, ClockRead
  <2> QED
    BY <1>1, <1>2, <1>4, <2>1, GotEntries
<1>5. ASSUME NEW c \in Callers, caller[c].at = "count",
             entries' = Purged(caller[c].clock)
      PROVE  EntriesOK(entries') /\ Len(entries') <= MaxEntries
  <2>1. caller[c].clock \in Nat
    BY <1>5, ClockRead
  <2> QED
    BY <1>1, <1>2, <1>5, <2>1, PurgedEntries
<1>6. ASSUME NEW c \in Callers, caller[c].at \in {"reject", "reject_only"},
             entries' = Recorded(caller[c].key, caller[c].clock)
      PROVE  EntriesOK(entries') /\ Len(entries') <= MaxEntries
  <2>1. caller[c].clock \in Clock /\ caller[c].key \in Keys
    BY <1>6, ClockRead
  <2> QED
    BY <1>1, <1>6, <2>1, RecordedEntries
<1>7. ASSUME NEW c \in Callers, entries' = WithoutKey(entries, caller[c].key)
      PROVE  EntriesOK(entries') /\ Len(entries') <= MaxEntries
  BY <1>1, <1>2, <1>7, WithoutKeyEntries
<1> QED
  BY <1>3, <1>4, <1>5, <1>6, <1>7, TableSteps

(* The counted failures stay below the bound on their total.               *)
LEMMA FailuresBounded ==
  ASSUME failures \in [Keys -> 0..MaxFailures], Total(failures) < MaxFailures,
         NEW k \in Keys
  PROVE  failures[k] + 1 \in 0..MaxFailures
<1> DEFINE one == [y \in {k} |-> failures[k]]
<1>1. failures[k] \in Nat /\ MaxFailures \in Nat /\ IsFiniteSet(Keys)
  BY MemoryAssumption
<1>2. NatValued(failures) /\ NatValued(one) /\ DOMAIN one \subseteq DOMAIN failures
  BY MemoryAssumption DEF NatValued
<1>3. \A x \in DOMAIN one : one[x] <= failures[x]
  BY <1>1
<1>4. Total(one) = failures[k]
  BY <1>1, TotalOne
<1>5. DOMAIN failures = Keys
  OBVIOUS
<1> HIDE DEF one
<1>6. Total(one) <= Total(failures)
  BY <1>1, <1>2, <1>3, <1>5, TotalLess
<1>7. Total(failures) \in Nat
  BY <1>1, <1>2, <1>5, TotalType
<1> QED
  BY <1>1, <1>4, <1>6, <1>7

Counters ==
    /\ now \in Clock
    /\ failures \in [Keys -> 0..MaxFailures]
    /\ opened \in [Keys -> Clock \cup {Never}]
    /\ lastFailure \in [Keys -> Clock \cup {Never}]

LEMMA NextCounters ==
  ASSUME Counters, [Next]_vars
  PROVE  Counters'
<1> USE MemoryAssumption DEF Counters, Clock
<1>1. CASE Tick
  BY <1>1 DEF Tick
<1>2. ASSUME NEW c \in Callers, NEW k, NEW step, Enter(c, step, k) PROVE Counters'
  BY <1>2 DEF Enter
<1>3. ASSUME NEW c \in Callers, RecordInternalFailure(c) PROVE Counters'
  <2> DEFINE k == caller[c].key
  <2>1. /\ failures' = [failures EXCEPT ![k] = @ + 1] /\ Total(failures) < MaxFailures
        /\ lastFailure' = [lastFailure EXCEPT ![k] = now] /\ now' = now
        /\ opened' = IF failures'[k] >= Threshold
                     THEN [opened EXCEPT ![k] = now] ELSE opened
    BY <1>3 DEF RecordInternalFailure
  <2> HIDE DEF k
  <2>2. k \in Keys => failures[k] + 1 \in 0..MaxFailures
    BY <2>1, FailuresBounded
  <2>3. failures' \in [Keys -> 0..MaxFailures]
    BY <2>1, <2>2
  <2>4. lastFailure' \in [Keys -> Clock \cup {Never}]
    BY <2>1
  <2>5. opened' \in [Keys -> Clock \cup {Never}]
    <3>1. CASE failures'[k] >= Threshold
      <4>1. opened' = [opened EXCEPT ![k] = now]
        BY <2>1, <3>1
      <4> QED
        BY <4>1
    <3>2. CASE ~(failures'[k] >= Threshold)
      <4>1. opened' = opened
        BY <2>1, <3>2
      <4> QED
        BY <4>1
    <3> QED
      BY <3>1, <3>2
  <2> QED
    BY <2>1, <2>3, <2>4, <2>5
<1>4. ASSUME NEW c \in Callers, RecordSuccess(c) PROVE Counters'
  <2>1. /\ failures' = [failures EXCEPT ![caller[c].key] = 0] /\ now' = now
        /\ opened' = [opened EXCEPT ![caller[c].key] = Never] /\ lastFailure' = lastFailure
    BY <1>4 DEF RecordSuccess
  <2>2. 0 \in 0..MaxFailures
    OBVIOUS
  <2>3. failures' \in [Keys -> 0..MaxFailures]
    BY <2>1, <2>2
  <2>4. opened' \in [Keys -> Clock \cup {Never}]
    BY <2>1
  <2> QED
    BY <2>1, <2>3, <2>4
<1>5. ASSUME NEW c \in Callers,
             \/ Get(c) \/ State(c) \/ Admitted(c) \/ Record(c) \/ Clear(c) \/ EntryCount(c)
      PROVE  Counters'
  BY <1>5 DEF Get, State, Admitted, Record, Clear, EntryCount
<1>6. CASE UNCHANGED vars
  BY <1>6 DEF vars
<1> QED
  BY <1>1, <1>2, <1>3, <1>4, <1>5, <1>6 DEF Next, Resolve, Complete

(* A caller's step, its key and its clock. *)
CallersKnown ==
    /\ now \in Clock
    /\ caller \in [Callers ->
            [at : {"idle", "get", "state", "admitted", "count"} \cup Completing,
             key : Keys \cup {Never}, clock : Clock \cup {Never}]]
    /\ CallersReady

LEMMA NextCallers ==
  ASSUME CallersKnown, [Next]_vars
  PROVE  caller' \in [Callers ->
            [at : {"idle", "get", "state", "admitted", "count"} \cup Completing,
             key : Keys \cup {Never}, clock : Clock \cup {Never}]] /\ CallersReady'
<1> DEFINE Step == [at : {"idle", "get", "state", "admitted", "count"} \cup Completing,
                    key : Keys \cup {Never}, clock : Clock \cup {Never}]
           Ready(r, t) ==
              /\ r.at \notin {"idle", "count"} => r.key \in Keys
              /\ r.at \in {"get", "count", "reject", "reject_only"} => r.clock \in 0..t
<1>1. /\ \A d \in Callers : caller[d] \in Step /\ Ready(caller[d], now)
      /\ caller \in [Callers -> Step] /\ now \in 0..MaxClock
  BY DEF CallersKnown, CallersReady, Clock
<1>2. SUFFICES caller' \in [Callers -> Step] /\ \A d \in Callers : Ready(caller'[d], now')
  BY DEF CallersReady
<1>3. Idle \in Step /\ Ready(Idle, now)
  BY DEF Idle, Never
<1>4. ASSUME NEW c \in Callers, NEW r \in Step, Ready(r, now), now' = now,
             caller' = [caller EXCEPT ![c] = r]
      PROVE  caller' \in [Callers -> Step] /\ \A d \in Callers : Ready(caller'[d], now')
  <2> HIDE DEF Step, Ready
  <2>1. caller' \in [Callers -> Step]
    BY <1>1, <1>4
  <2>2. \A d \in Callers : caller'[d] = IF d = c THEN r ELSE caller[d]
    BY <1>1, <1>4
  <2> QED
    BY <1>1, <1>4, <2>1, <2>2
<1>5. ASSUME NEW c \in Callers, NEW step, caller[c].key \in Keys,
             step \in {"state", "admitted", "fail", "reset"}, Move(c, step), now' = now
      PROVE  caller' \in [Callers -> Step] /\ \A d \in Callers : Ready(caller'[d], now')
  <2>1. caller' = [caller EXCEPT ![c] = [at |-> step, key |-> caller[c].key, clock |-> Never]]
    BY <1>1, <1>5 DEF Move
  <2>2. /\ [at |-> step, key |-> caller[c].key, clock |-> Never] \in Step
        /\ Ready([at |-> step, key |-> caller[c].key, clock |-> Never], now)
    BY <1>5 DEF Completing
  <2> QED
    BY <1>4, <1>5, <2>1, <2>2
<1>6. ASSUME NEW c \in Callers, NEW step, NEW k, Enter(c, step, k),
             \/ k \in Keys /\ step \in {"get", "reject", "reject_only", "clear"}
             \/ k = Never /\ step = "count"
      PROVE  caller' \in [Callers -> Step] /\ \A d \in Callers : Ready(caller'[d], now')
  <2> DEFINE r == [at |-> step, key |-> k, clock |-> now]
  <2>1. caller' = [caller EXCEPT ![c] = r] /\ now' = now
    BY <1>6 DEF Enter
  <2>2. r \in Step /\ Ready(r, now)
    BY <1>1, <1>6 DEF Completing, Clock
  <2> HIDE DEF r
  <2> QED
    BY <1>4, <2>1, <2>2
<1>7. ASSUME NEW c \in Callers,
             \/ Get(c) \/ State(c) \/ Admitted(c) \/ Record(c) \/ RecordInternalFailure(c)
             \/ Clear(c) \/ RecordSuccess(c) \/ EntryCount(c)
      PROVE  caller' \in [Callers -> Step] /\ \A d \in Callers : Ready(caller'[d], now')
  <2>1. /\ now' = now
        /\ \/ Leave(c)
           \/ /\ caller[c].at \notin {"idle", "count"}
              /\ \E step \in {"state", "admitted", "fail", "reset"} : Move(c, step)
    BY <1>7 DEF Get, State, Admitted, Record, RecordInternalFailure, Clear, RecordSuccess,
                EntryCount
  <2>2. CASE Leave(c)
    BY <1>3, <1>4, <2>1, <2>2 DEF Leave
  <2>3. ASSUME NEW step \in {"state", "admitted", "fail", "reset"}, Move(c, step),
               caller[c].at \notin {"idle", "count"}
        PROVE  caller' \in [Callers -> Step] /\ \A d \in Callers : Ready(caller'[d], now')
    <3>1. caller[c].key \in Keys
      BY <1>1, <2>3
    <3> QED
      BY <1>5, <2>1, <2>3, <3>1
  <2> QED
    BY <2>1, <2>2, <2>3
<1>8. CASE Tick
  <2>1. caller' = caller /\ now' = now + 1
    BY <1>8 DEF Tick
  <2> QED
    BY <1>1, <2>1
<1>9. CASE UNCHANGED vars
  <2>1. caller' = caller /\ now' = now
    BY <1>9 DEF vars
  <2> QED
    BY <1>1, <2>1
<1> QED
  BY <1>6, <1>7, <1>8, <1>9 DEF Next, Resolve, Complete

LEMMA InitMemory == Init => MemoryInv
<1> SUFFICES ASSUME Init PROVE MemoryInv
  OBVIOUS
<1>1. Windows
  BY InitWindows
<1>2. /\ now = 0 /\ entries = <<>> /\ failures = [k \in Keys |-> 0]
      /\ opened = [k \in Keys |-> Never] /\ caller = [c \in Callers |-> Idle]
      /\ lastFailure = [k \in Keys |-> Never]
  BY DEF Init
<1>3. EntriesOK(entries) /\ Len(entries) <= MaxEntries
  <2>1. <<>> \in Seq(Entry) /\ Len(<<>>) = 0 /\ DOMAIN <<>> = {}
    OBVIOUS
  <2>2. Distinct(<<>>) /\ Range(<<>>) = {}
    BY <2>1 DEF Distinct, Range
  <2> QED
    BY <1>2, <2>1, <2>2, MemoryAssumption DEF EntriesOK
<1>4. entries \in BoundedSeq(Entry, MaxEntries) /\ Cardinality(Rejected) = Len(entries)
  BY <1>3, TableHolds DEF Rejected
<1>5. /\ now \in Clock /\ failures \in [Keys -> 0..MaxFailures]
      /\ opened \in [Keys -> Clock \cup {Never}]
      /\ lastFailure \in [Keys -> Clock \cup {Never}]
  BY <1>2, MemoryAssumption DEF Clock
<1>6. caller \in [Callers ->
            [at : {"idle", "get", "state", "admitted", "count"} \cup Completing,
             key : Keys \cup {Never}, clock : Clock \cup {Never}]]
  BY <1>2 DEF Idle
<1>7. CallersReady
  BY <1>2 DEF CallersReady, Idle
<1> QED
  BY <1>1, <1>3, <1>4, <1>5, <1>6, <1>7
     DEF MemoryInv, TypeOK, Remembers, KeysDistinct, Entry, EntriesOK

LEMMA NextMemory == MemoryInv /\ [Next]_vars => MemoryInv'
<1> SUFFICES ASSUME MemoryInv, [Next]_vars PROVE MemoryInv'
  OBVIOUS
<1>1. TypeOK /\ KeysDistinct /\ CallersReady /\ Windows
  BY DEF MemoryInv, Remembers
<1>2. Windows'
  BY <1>1, NextWindows
<1>3. EntriesOK(entries') /\ Len(entries') <= MaxEntries
  BY <1>1, NextTable
<1>4. entries' \in BoundedSeq(Entry, MaxEntries) /\ Cardinality(Rejected') = Len(entries')
  BY <1>3, TableHolds DEF Rejected
<1>5. Counters'
  <2>1. Counters
    BY <1>1 DEF TypeOK, Counters
  <2> QED
    BY <2>1, NextCounters
<1>6. caller' \in [Callers ->
            [at : {"idle", "get", "state", "admitted", "count"} \cup Completing,
             key : Keys \cup {Never}, clock : Clock \cup {Never}]] /\ CallersReady'
  <2>1. CallersKnown
    BY <1>1 DEF TypeOK, CallersKnown
  <2> QED
    BY <2>1, NextCallers
<1>7. TypeOK'
  BY <1>4, <1>5, <1>6 DEF TypeOK, Entry, Counters, Clock
<1>8. KeysDistinct'
  BY <1>3 DEF KeysDistinct, EntriesOK
<1> QED
  BY <1>2, <1>6, <1>7, <1>8 DEF MemoryInv, Remembers

LEMMA MemoryHolds == Spec => []MemoryInv
BY InitMemory, NextMemory, PTL DEF Spec

(* The table of rejections keeps its size with one entry for a key, and    *)
(* the breaker's window is whole (negative_cache.py, circuit_breaker.py).  *)
THEOREM MemoryIsSafe == Spec => []MemorySafe
<1>1. MemoryInv => TypeOK
  BY DEF MemoryInv
<1> QED
  BY <1>1, MemoryHolds, WindowIsWhole, PTL DEF MemorySafe

-----------------------------------------------------------------------------
(* A rejection leaves the table when its time is over, when a published    *)
(* value clears it, or as the least recently used of a full table: purges  *)
(* with a clock that was read before the lock forget nothing else.         *)
THEOREM NothingElseForgets == Spec => ForgottenForAReason
<1> DEFINE Reasons ==
      \A i \in DOMAIN entries :
        LET k == entries[i].key
        IN  \/ k \in Rejected'
            \/ entries[i].expires <= now
            \/ \E c \in Callers : caller[c].at = "clear" /\ caller[c].key = k
            \/ /\ Len(entries') = MaxEntries
               /\ entries'[MaxEntries].key \notin Rejected
               /\ \A j \in 1..i : entries[j].key \notin Rejected'
<1>1. MemoryInv /\ [Next]_vars => [Reasons]_vars
  <2> SUFFICES ASSUME MemoryInv, [Next]_vars,
                      NEW i \in DOMAIN entries, entries[i].key \notin Rejected'
               PROVE  \/ entries[i].expires <= now
                      \/ \E c \in Callers : /\ caller[c].at = "clear"
                                            /\ caller[c].key = entries[i].key
                      \/ /\ Len(entries') = MaxEntries
                         /\ entries'[MaxEntries].key \notin Rejected
                         /\ \A j \in 1..i : entries[j].key \notin Rejected'
    OBVIOUS
  <2> DEFINE e == entries[i]
  <2>1. TypeOK /\ KeysDistinct /\ CallersReady /\ EntriesOK(entries)
        /\ Len(entries) <= MaxEntries
    BY TableKnown DEF MemoryInv, Remembers
  <2>2. /\ e \in Range(entries) /\ e \in Entry /\ e.expires \in Nat /\ e.expires \in Int
        /\ entries \in Seq(Entry) /\ now \in Nat /\ i \in 1..Len(entries)
    <3>1. entries \in Seq(Entry)
      BY <2>1 DEF EntriesOK
    <3>2. e \in Range(entries) /\ e \in Entry /\ i \in 1..Len(entries)
      BY <3>1 DEF Range
    <3>3. e.expires \in Nat /\ now \in Nat
      BY <2>1, <3>2, MemoryAssumption DEF Entry, TypeOK, Clock
    <3> QED
      BY <3>1, <3>2, <3>3
  <2>3. \A d \in Range(entries') : d.key # e.key
    BY DEF Rejected
  <2> HIDE DEF e
  <2>4. CASE entries' = entries
    BY <2>2, <2>3, <2>4
  <2>5. ASSUME NEW c \in Callers, caller[c].at \in {"get", "count"},
               \/ entries' = Got(caller[c].key, caller[c].clock)
               \/ entries' = Purged(caller[c].clock)
        PROVE  e.expires <= now
    <3>1. caller[c].clock \in Nat /\ caller[c].clock <= now
      BY <2>1, <2>5, ClockRead
    <3>2. Range(entries') = {d \in Range(entries) : d.expires > caller[c].clock}
      BY <2>1, <2>5, <3>1, GotEntries, PurgedEntries
    <3>3. ~(e.expires > caller[c].clock)
      BY <2>2, <2>3, <3>2
    <3> QED
      BY <2>2, <3>1, <3>3
  <2>6. ASSUME NEW c \in Callers, caller[c].at \in {"reject", "reject_only"},
               entries' = Recorded(caller[c].key, caller[c].clock)
        PROVE  \/ e.expires <= now
               \/ /\ Len(entries') = MaxEntries
                  /\ entries'[MaxEntries].key \notin Rejected
                  /\ \A j \in 1..i : entries[j].key \notin Rejected'
    <3> DEFINE k == caller[c].key
               clock == caller[c].clock
    <3>1. k \in Keys /\ clock \in Clock /\ clock \in Nat /\ clock <= now
      BY <2>1, <2>6, ClockRead
    <3> HIDE DEF k, clock
    <3>2. entries' = Recorded(k, clock)
      BY <2>6 DEF k, clock
    <3>3. /\ Len(entries') <= MaxEntries /\ EntriesOK(entries')
          /\ \E d \in Range(entries') : d.key = k
          /\ \/ \A d \in Range(entries) :
                  d \in Range(entries') \/ d.key = k \/ d.expires <= clock
             \/ /\ Len(entries') = MaxEntries /\ Len(entries) = MaxEntries
                /\ entries'[MaxEntries].key = k
                /\ \A d \in Range(entries) : d.key # k
                /\ \A j \in 2..MaxEntries : entries'[j - 1] = entries[j]
      BY <2>1, <3>1, <3>2, RecordedEntries
    <3>4. CASE \A d \in Range(entries) :
                  d \in Range(entries') \/ d.key = k \/ d.expires <= clock
      BY <2>2, <2>3, <3>1, <3>3, <3>4
    <3>5. CASE /\ Len(entries') = MaxEntries /\ Len(entries) = MaxEntries
               /\ entries'[MaxEntries].key = k
               /\ \A d \in Range(entries) : d.key # k
               /\ \A j \in 2..MaxEntries : entries'[j - 1] = entries[j]
      <4>1. entries'[MaxEntries].key \notin Rejected
        BY <3>5 DEF Rejected
      <4>2. i = 1
        <5>1. SUFFICES ASSUME i # 1 PROVE FALSE
          OBVIOUS
        <5>2. i \in 2..MaxEntries /\ i - 1 \in 1..MaxEntries
          BY <2>2, <3>5, <5>1
        <5>3. entries'[i - 1] = e /\ DOMAIN entries' = 1..MaxEntries
          BY <3>3, <3>5, <5>2 DEF e, EntriesOK
        <5>4. e \in Range(entries')
          BY <5>2, <5>3 DEF Range
        <5> QED
          BY <2>3, <5>4
      <4>3. \A j \in 1..i : entries[j].key \notin Rejected'
        BY <4>2
      <4> QED
        BY <3>5, <4>1, <4>3
    <3> QED
      BY <3>3, <3>4, <3>5
  <2>7. ASSUME NEW c \in Callers, caller[c].at = "clear",
               entries' = WithoutKey(entries, caller[c].key)
        PROVE  caller[c].key = e.key
    <3>1. Range(entries') = {d \in Range(entries) : d.key # caller[c].key}
      BY <2>1, <2>7, WithoutKeyEntries
    <3> QED
      BY <2>2, <2>3, <3>1
  <2> QED
    BY <2>1, <2>4, <2>5, <2>6, <2>7, TableSteps DEF e
<1> QED
  BY <1>1, MemoryHolds, PTL DEF Spec, ForgottenForAReason

-----------------------------------------------------------------------------
(* The clock-free gate: the keys with a live rejection, and the breakers   *)
(* whose window is not over.                                               *)
Negative == {e.key : e \in {d \in Range(entries) : d.expires > now}}
Cooling == {k \in Keys : Open(k)}

LEMMA SameBreakers ==
  ASSUME UNCHANGED <<now, failures, opened>>
  PROVE  Cooling' = Cooling
BY DEF Cooling, Open, ThresholdReached, ResetElapsed

LEMMA GateStutters ==
  ASSUME UNCHANGED <<now, failures, opened>>, Range(entries') = Range(entries)
  PROVE  UNCHANGED Gate!failureVars
<1>1. Cooling' = Cooling
  BY SameBreakers
<1>2. Negative' = Negative
  BY DEF Negative
<1> QED
  BY <1>1, <1>2 DEF Gate!failureVars, Negative, Cooling

LEMMA AlivePurge ==
  ASSUME MemoryInv, UNCHANGED now, NEW clock \in Nat, clock <= now,
         Range(entries') = {e \in Range(entries) : e.expires > clock}
  PROVE  Negative' = Negative
<1>1. now \in Nat /\ \A e \in Range(entries) : e.expires \in Nat
  <2>1. EntriesOK(entries) /\ now \in Nat
    BY TableKnown, MemoryAssumption DEF MemoryInv, Remembers, TypeOK, Clock
  <2>2. Range(entries) \in SUBSET Entry
    BY <2>1, RangeItems DEF EntriesOK
  <2> QED
    BY <2>1, <2>2, MemoryAssumption DEF Entry
<1>2. \A e \in Range(entries) : e.expires > now => e.expires > clock
  BY <1>1
<1>3. {d \in Range(entries') : d.expires > now'} = {d \in Range(entries) : d.expires > now}
  BY <1>2
<1> QED
  BY <1>3 DEF Negative

LEMMA GateSteps == MemoryInv /\ [Next]_vars => [Gate!GateNext]_(Gate!failureVars)
<1> SUFFICES ASSUME MemoryInv, [Next]_vars PROVE [Gate!GateNext]_(Gate!failureVars)
  OBVIOUS
<1>1. /\ TypeOK /\ KeysDistinct /\ CallersReady /\ EntriesOK(entries)
      /\ Len(entries) <= MaxEntries
  BY TableKnown DEF MemoryInv, Remembers
<1>2. /\ now \in Nat /\ {Threshold, Reset} \subseteq Nat \ {0}
      /\ failures \in [Keys -> Nat] /\ opened \in [Keys -> Nat \cup {-1}]
  BY MemoryAssumption DEF MemoryInv, Windows, Never
<1>3. CASE Tick
  <2>1. now' = now + 1 /\ entries' = entries /\ failures' = failures /\ opened' = opened
    BY <1>3 DEF Tick
  <2>2. Negative' \subseteq Negative
    <3>1. \A e \in Range(entries) : e.expires \in Nat
      <4>1. Range(entries) \in SUBSET Entry
        BY <1>1, RangeItems DEF EntriesOK
      <4> QED
        BY <4>1, MemoryAssumption DEF Entry
    <3>2. \A e \in Range(entries) : e.expires > now + 1 => e.expires > now
      BY <1>2, <3>1
    <3> QED
      BY <2>1, <3>2 DEF Negative
  <2>3. Cooling' \subseteq Cooling
    <3>1. SUFFICES ASSUME NEW k \in Keys, ~Open(k) PROVE ~Open(k)'
      BY DEF Cooling
    <3>2. opened[k] \in Int /\ failures[k] \in Nat
      BY <1>2
    <3> QED
      BY <1>2, <2>1, <3>1, <3>2 DEF Open, ThresholdReached, ResetElapsed
  <2>4. Negative' = Negative \ (Negative \ Negative') /\ Cooling' = Cooling \ (Cooling \ Cooling')
    BY <2>2, <2>3
  <2>5. Gate!TimePasses
    BY <2>1, <2>4 DEF Gate!TimePasses, Negative, Cooling
  <2> QED
    BY <2>5 DEF Gate!GateNext
<1>4. ASSUME NEW c \in Callers, NEW k, NEW step, Enter(c, step, k)
      PROVE  UNCHANGED Gate!failureVars
  BY <1>4, GateStutters DEF Enter
<1>5. ASSUME NEW c \in Callers, Get(c) \/ EntryCount(c)
      PROVE  UNCHANGED Gate!failureVars
  <2> DEFINE clock == caller[c].clock
  <2>1. /\ now' = now /\ failures' = failures /\ opened' = opened
        /\ caller[c].at \in {"get", "count"}
        /\ entries' = Got(caller[c].key, clock) \/ entries' = Purged(clock)
    BY <1>5 DEF Get, EntryCount
  <2>2. clock \in Nat /\ clock <= now
    BY <1>1, <2>1, ClockRead
  <2> HIDE DEF clock
  <2>3. Range(entries') = {e \in Range(entries) : e.expires > clock}
    BY <1>1, <2>1, <2>2, GotEntries, PurgedEntries
  <2>4. Negative' = Negative /\ Cooling' = Cooling
    BY <2>1, <2>2, <2>3, AlivePurge, SameBreakers
  <2> QED
    BY <2>1, <2>4 DEF Gate!failureVars, Negative, Cooling
<1>6. ASSUME NEW c \in Callers, State(c) \/ Admitted(c)
      PROVE  UNCHANGED Gate!failureVars
  BY <1>6, GateStutters DEF State, Admitted
<1>7. ASSUME NEW c \in Callers, Record(c) PROVE Gate!GateNext
  <2> DEFINE k == caller[c].key
             clock == caller[c].clock
  <2>1. /\ now' = now /\ failures' = failures /\ opened' = opened
        /\ caller[c].at \in {"reject", "reject_only"} /\ entries' = Recorded(k, clock)
    BY <1>7 DEF Record
  <2>2. k \in Keys /\ clock \in Clock
    BY <1>1, <2>1, ClockRead
  <2> HIDE DEF k, clock
  <2>3. \A e \in Range(entries') : e.key = k \/ e \in Range(entries)
    BY <1>1, <2>1, <2>2, RecordedEntries
  <2>4. Negative' \subseteq Negative \cup {k}
    BY <2>1, <2>3 DEF Negative
  <2>5. Negative' = (Negative \cup {k}) \ ((Negative \cup {k}) \ Negative')
    BY <2>4
  <2>6. Cooling' = Cooling
    BY <2>1, SameBreakers
  <2> QED
    BY <2>1, <2>2, <2>5, <2>6 DEF Gate!GateNext, Gate!Reject, Negative, Cooling
<1>8. ASSUME NEW c \in Callers, Clear(c) PROVE Gate!GateNext
  <2> DEFINE k == caller[c].key
  <2>1. /\ now' = now /\ failures' = failures /\ opened' = opened
        /\ caller[c].at = "clear" /\ entries' = WithoutKey(entries, k)
    BY <1>8 DEF Clear
  <2>2. k \in Keys
    BY <1>1, <2>1, ClockRead
  <2> HIDE DEF k
  <2>3. Range(entries') = {e \in Range(entries) : e.key # k}
    BY <1>1, <2>1, WithoutKeyEntries
  <2>4. Negative' = Negative \ {k}
    BY <2>1, <2>3 DEF Negative
  <2>5. Cooling' = Cooling
    BY <2>1, SameBreakers
  <2> QED
    BY <2>1, <2>2, <2>4, <2>5 DEF Gate!GateNext, Gate!Readmit, Negative, Cooling
<1>9. ASSUME NEW c \in Callers, RecordInternalFailure(c) PROVE Gate!GateNext
  <2> DEFINE k == caller[c].key
  <2>1. /\ now' = now /\ entries' = entries /\ caller[c].at = "fail"
        /\ failures' = [failures EXCEPT ![k] = @ + 1]
        /\ opened' = IF failures'[k] >= Threshold
                     THEN [opened EXCEPT ![k] = now] ELSE opened
    BY <1>9 DEF RecordInternalFailure
  <2>2. k \in Keys
    BY <1>1, <2>1, ClockRead
  <2> HIDE DEF k
  <2>3. Negative' = Negative
    BY <2>1 DEF Negative
  <2>4. /\ failures'[k] = failures[k] + 1
        /\ \A j \in Keys : j # k => failures'[j] = failures[j] /\ opened'[j] = opened[j]
    BY <1>2, <2>1, <2>2
  <2>5. \A j \in Keys : j # k => (j \in Cooling' <=> j \in Cooling)
    BY <2>1, <2>4 DEF Cooling, Open, ThresholdReached, ResetElapsed
  <2>6. CASE failures'[k] >= Threshold
    <3>1. opened'[k] = now
      BY <1>2, <2>1, <2>2, <2>6
    <3>2. k \in Cooling'
      BY <1>2, <2>1, <2>2, <2>6, <3>1 DEF Cooling, Open, ThresholdReached, ResetElapsed
    <3>3. Cooling' = Cooling \cup {k}
      BY <2>2, <2>5, <3>2 DEF Cooling
    <3> QED
      BY <2>1, <2>2, <2>3, <2>6, <3>3
         DEF Gate!Fail, Gate!GateNext, Negative, Cooling
  <2>7. CASE ~(failures'[k] >= Threshold)
    <3>1. k \notin Cooling /\ k \notin Cooling'
      <4>1. ~(failures[k] >= Threshold)
        BY <1>2, <2>2, <2>4, <2>7
      <4> QED
        BY <2>7, <4>1 DEF Cooling, Open, ThresholdReached
    <3>2. Cooling' = Cooling
      BY <2>2, <2>5, <3>1 DEF Cooling
    <3> QED
      BY <2>1, <2>2, <2>3, <2>7, <3>2
         DEF Gate!Fail, Gate!GateNext, Negative, Cooling
  <2> QED
    BY <2>6, <2>7
<1>10. ASSUME NEW c \in Callers, RecordSuccess(c) PROVE Gate!GateNext
  <2> DEFINE k == caller[c].key
  <2>1. /\ now' = now /\ entries' = entries /\ caller[c].at = "reset"
        /\ failures' = [failures EXCEPT ![k] = 0] /\ opened' = [opened EXCEPT ![k] = Never]
    BY <1>10 DEF RecordSuccess
  <2>2. k \in Keys
    BY <1>1, <2>1, ClockRead
  <2> HIDE DEF k
  <2>3. Negative' = Negative
    BY <2>1 DEF Negative
  <2>4. /\ failures'[k] = 0
        /\ \A j \in Keys : j # k => failures'[j] = failures[j] /\ opened'[j] = opened[j]
    BY <1>2, <2>1, <2>2
  <2>5. \A j \in Keys : j # k => (j \in Cooling' <=> j \in Cooling)
    BY <2>1, <2>4 DEF Cooling, Open, ThresholdReached, ResetElapsed
  <2>6. k \notin Cooling'
    BY <1>2, <2>4 DEF Cooling, Open, ThresholdReached
  <2>7. Cooling' = Cooling \ {k}
    BY <2>2, <2>5, <2>6 DEF Cooling
  <2> QED
    BY <2>1, <2>2, <2>3, <2>7 DEF Gate!GateNext, Gate!Succeed, Negative, Cooling
<1>11. CASE UNCHANGED vars
  BY <1>11, GateStutters DEF vars
<1> QED
  BY <1>3, <1>4, <1>5, <1>6, <1>7, <1>8, <1>9, <1>10, <1>11
     DEF Next, Resolve, Complete

(* The cache and the breaker, with their clock and their delayed callers,  *)
(* implement the gate the variant manager is written against.              *)
THEOREM MemoryImplementsGate == Spec => ImplementsRetryGate
<1>1. Init => Gate!FailuresInit
  <2> SUFFICES ASSUME Init PROVE Gate!FailuresInit
    OBVIOUS
  <2>1. entries = <<>> /\ failures = [k \in Keys |-> 0]
    BY DEF Init
  <2>2. Range(entries) = {}
    BY <2>1 DEF Range
  <2>3. \A k \in Keys : ~Open(k)
    BY <2>1, MemoryAssumption DEF Open, ThresholdReached
  <2> QED
    BY <2>1, <2>2, <2>3 DEF Gate!FailuresInit
<1>2. Spec => Gate!GateSpec
  BY <1>1, MemoryHolds, GateSteps, PTL DEF Spec, Gate!GateSpec
<1> QED
  BY <1>2 DEF ImplementsRetryGate
=============================================================================
