------------------------- MODULE NotifyCacheProofs -------------------------
(***************************************************************************)
(* Proofs about NotifyCache, for any set of apps, any size of the cache    *)
(* and any values of notify_cache_ttl: the cache keeps its bound, and a    *)
(* read goes unreported only within the quiet time its app has earned.     *)
(***************************************************************************)
EXTENDS NotifyCache, FiniteSetTheorems, TLAPS

\* The cache and the quiet times the apps have earned agree: an entry that has
\* not been dropped is the app's quiet time, and an app that lost its entry
\* while it was quiet was evicted.
QuietInv ==
  /\ \A a \in Cached : entries[a] = until[a]
  /\ \A a \in Apps \ Cached : now < until[a] => a \in evicted
  /\ SilentOnlyInQuietTime
  /\ RepeatOnlyAfterEviction

\* What may be dropped to make room: nothing, expired entries, or one entry of
\* a cache that is full of entries that have not expired.
LEMMA RoomIs ==
  ASSUME TypeOK, NEW a \in Apps, NEW kept \in Room(a)
  PROVE  /\ kept \subseteq Cached
         /\ ~Crowded => Fresh(Cached) \subseteq kept
<1>1. CASE a \in Cached \/ Cardinality(Cached) < MaxEntries
  BY <1>1 DEF Room, Fresh
<1>2. CASE ~(a \in Cached \/ Cardinality(Cached) < MaxEntries)
  <2>1. CASE Cardinality(Fresh(Cached)) < MaxEntries
    <3>1. kept = Fresh(Cached) BY <1>2, <2>1 DEF Room, pruneLocked
    <3> QED BY <3>1 DEF Fresh
  <2>2. CASE ~(Cardinality(Fresh(Cached)) < MaxEntries)
    <3>1. kept \in evictSoonestLocked(Fresh(Cached))
      BY <1>2, <2>2 DEF Room, pruneLocked
    <3>2. kept \subseteq Fresh(Cached) BY <3>1 DEF evictSoonestLocked
    <3>3. IsFiniteSet(Fresh(Cached))
      BY CacheConstants, FS_Subset DEF TypeOK, Fresh
    <3>4. Cardinality(Fresh(Cached)) \in Nat BY <3>3, FS_CardinalityType
    <3>5. Crowded BY <2>2, <3>4, CacheConstants DEF Crowded
    <3> QED BY <3>2, <3>5 DEF Fresh
  <2> QED BY <2>1, <2>2
<1> QED BY <1>1, <1>2

\* After allow the cache is what stays and the app that read.
LEMMA AllowKeeps ==
  ASSUME TypeOK, NEW a \in Apps, allow(a)
  PROVE  \E kept \in SUBSET Cached :
           /\ kept \in IF suppressed(a) THEN {Cached} ELSE Room(a)
           /\ Cached' = kept \cup {a}
           /\ \A b \in Cached' : entries'[b] = IF b = a THEN now + ttl ELSE entries[b]
           /\ entries' \in [kept \cup {a} -> Nat]
           /\ until' = [until EXCEPT ![a] = now + ttl]
           /\ ~Crowded => Fresh(Cached) \subseteq kept /\ evicted' = evicted \ {a}
           /\ Crowded => evicted' = (evicted \cup (Fresh(Cached) \ kept)) \ {a}
<1>1. PICK kept \in IF suppressed(a) THEN {Cached} ELSE Room(a) :
        /\ entries' = [b \in kept \cup {a} |-> IF b = a THEN now + ttl ELSE entries[b]]
        /\ until' = [until EXCEPT ![a] = now + ttl]
        /\ evicted' = IF Crowded THEN (evicted \cup (Fresh(Cached) \ kept)) \ {a}
                      ELSE evicted \ {a}
  BY DEF allow, Renewed
<1>2. kept \subseteq Cached /\ (~Crowded => Fresh(Cached) \subseteq kept)
  <2>1. CASE suppressed(a) BY <2>1 DEF Fresh
  <2>2. CASE ~suppressed(a) BY <2>2, RoomIs
  <2> QED BY <2>1, <2>2
<1>3. \A b \in kept \cup {a} : (IF b = a THEN now + ttl ELSE entries[b]) \in Nat
  BY <1>2 DEF TypeOK
<1> QED BY <1>1, <1>2, <1>3 DEF Cached

\* Every step keeps every variable in its type.
LEMMA CacheTypeStep == TypeOK /\ [Next]_vars => TypeOK'
<1> SUFFICES ASSUME TypeOK, [Next]_vars PROVE TypeOK'
  OBVIOUS
<1>1. ASSUME NEW a \in Apps, Access(a) PROVE TypeOK'
  <2>1. last' \in [shown : BOOLEAN, quiet : BOOLEAN, lost : BOOLEAN]
    <3>1. PICK s \in BOOLEAN : Decide(a, s) BY <1>1 DEF Access
    <3>2. (ttl > 0 /\ now < until[a]) \in BOOLEAN /\ (a \in evicted) \in BOOLEAN
      OBVIOUS
    <3> QED BY <3>1, <3>2, Zenon DEF Decide
  <2>2. CASE ttl = 0 /\ UNCHANGED <<entries, until, evicted>>
    BY <1>1, <2>1, <2>2 DEF TypeOK, Access, Cached
  <2>3. CASE allow(a)
    <3>1. PICK kept \in SUBSET Cached :
            /\ Cached' = kept \cup {a}
            /\ entries' \in [kept \cup {a} -> Nat]
            /\ until' = [until EXCEPT ![a] = now + ttl]
            /\ ~Crowded => evicted' = evicted \ {a}
            /\ Crowded => evicted' = (evicted \cup (Fresh(Cached) \ kept)) \ {a}
      BY <2>3, AllowKeeps
    <3>2. evicted' \subseteq Apps BY <3>1 DEF TypeOK, Fresh
    <3>3. until' \in [Apps -> Nat] BY <3>1 DEF TypeOK
    <3> QED BY <1>1, <2>1, <3>1, <3>2, <3>3 DEF TypeOK, Access
  <2> QED BY <1>1, <2>2, <2>3 DEF Access
<1>2. ASSUME NEW n \in BOOLEAN, NEW t \in Ttls, UpdateConfig(n, t) PROVE TypeOK'
  BY <1>2, CacheConstants DEF TypeOK, UpdateConfig, Cached
<1>3. CASE Tick BY <1>3 DEF TypeOK, Tick, Cached
<1>4. CASE UNCHANGED vars BY <1>4 DEF TypeOK, vars, Cached
<1> QED BY <1>1, <1>2, <1>3, <1>4 DEF Next

\* An eviction makes room for exactly one, so the bound holds after allow.
LEMMA BoundStep == TypeOK /\ CacheBounded /\ [Next]_vars => CacheBounded'
<1> SUFFICES ASSUME TypeOK, CacheBounded, [Next]_vars PROVE CacheBounded'
  OBVIOUS
<1>f. \A S \in SUBSET Apps : IsFiniteSet(S) /\ Cardinality(S) \in Nat
  BY CacheConstants, FS_Subset, FS_CardinalityType
<1>1. ASSUME NEW a \in Apps, Access(a) PROVE CacheBounded'
  <2>2. CASE UNCHANGED entries BY <2>2 DEF CacheBounded, Cached
  <2>3. CASE allow(a)
    <3>1. PICK kept \in SUBSET Cached :
            /\ kept \in IF suppressed(a) THEN {Cached} ELSE Room(a)
            /\ Cached' = kept \cup {a}
      BY <2>3, AllowKeeps
    <3>2. kept \in SUBSET Apps /\ Cached \in SUBSET Apps /\ Fresh(Cached) \in SUBSET Apps
      BY <3>1 DEF TypeOK, Fresh
    <3>3. CASE a \in kept
      <4>1. Cached' = kept BY <3>1, <3>3
      <4>2. Cardinality(kept) <= Cardinality(Cached) BY <1>f, <3>1, <3>2, FS_Subset
      <4> QED BY <1>f, <3>2, <4>1, <4>2, CacheConstants DEF CacheBounded
    <3>4. CASE a \notin kept
      <4>1. Cardinality(Cached') = Cardinality(kept) + 1
        BY <1>f, <3>1, <3>2, <3>4, FS_AddElement
      <4>2. ~suppressed(a) /\ kept \in Room(a)
        BY <3>1, <3>4 DEF suppressed, Fresh
      <4>3. Cardinality(kept) < MaxEntries
        <5>1. CASE a \in Cached \/ Cardinality(Cached) < MaxEntries
          BY <4>2, <5>1, <3>4 DEF Room
        <5>2. CASE ~(a \in Cached \/ Cardinality(Cached) < MaxEntries)
          <6>1. CASE Cardinality(Fresh(Cached)) < MaxEntries
            BY <4>2, <5>2, <6>1 DEF Room, pruneLocked
          <6>2. CASE ~(Cardinality(Fresh(Cached)) < MaxEntries)
            <7>1. kept \in evictSoonestLocked(Fresh(Cached))
              BY <4>2, <5>2, <6>2 DEF Room, pruneLocked
            <7>2. PICK b \in Fresh(Cached) : kept = Fresh(Cached) \ {b}
              BY <7>1 DEF evictSoonestLocked
            <7>3. Cardinality(kept) = Cardinality(Fresh(Cached)) - 1
              BY <1>f, <3>2, <7>2, FS_RemoveElement
            <7>4. Cardinality(Fresh(Cached)) <= Cardinality(Cached)
              BY <1>f, <3>2, FS_Subset DEF Fresh
            <7> QED BY <1>f, <3>2, <7>3, <7>4, CacheConstants DEF CacheBounded
          <6> QED BY <6>1, <6>2
        <5> QED BY <5>1, <5>2
      <4> QED BY <1>f, <3>2, <4>1, <4>3, CacheConstants DEF CacheBounded
    <3> QED BY <3>3, <3>4
  <2> QED BY <1>1, <2>2, <2>3 DEF Access
<1>2. CASE UNCHANGED entries BY <1>2 DEF CacheBounded, Cached
<1> QED BY <1>1, <1>2 DEF Next, UpdateConfig, Tick, vars

\* Every step keeps the cache and the quiet times in agreement.
LEMMA QuietStep == TypeOK /\ QuietInv /\ [Next]_vars => QuietInv'
<1> SUFFICES ASSUME TypeOK, QuietInv, [Next]_vars PROVE QuietInv'
  OBVIOUS
<1> USE DEF SilentOnlyInQuietTime, RepeatOnlyAfterEviction
<1>1. ASSUME NEW a \in Apps, Access(a) PROVE QuietInv'
  <2>1. CASE ttl = 0 /\ Decide(a, TRUE) /\ UNCHANGED <<entries, until, evicted>>
    <3>1. ~(ttl > 0 /\ now < until[a]) BY <2>1
    <3>2. last'.shown /\ ~last'.quiet BY <2>1, <3>1, Zenon DEF Decide
    <3> QED BY <1>1, <2>1, <3>2 DEF Access, QuietInv, Cached
  <2>2. CASE ttl > 0 /\ allow(a) /\ Decide(a, ~suppressed(a))
    <3>1. PICK kept \in SUBSET Cached :
            /\ Cached' = kept \cup {a}
            /\ \A b \in Cached' : entries'[b] = IF b = a THEN now + ttl ELSE entries[b]
            /\ until' = [until EXCEPT ![a] = now + ttl]
            /\ ~Crowded => Fresh(Cached) \subseteq kept /\ evicted' = evicted \ {a}
            /\ Crowded => evicted' = (evicted \cup (Fresh(Cached) \ kept)) \ {a}
      BY <2>2, AllowKeeps
    <3>2. \A b \in Apps : until'[b] = IF b = a THEN now + ttl ELSE until[b]
      BY <3>1 DEF TypeOK
    <3>3. Cached \subseteq Apps /\ now' = now BY <1>1 DEF TypeOK, Access
    <3>4. \A b \in Cached' : entries'[b] = until'[b]
      BY <3>1, <3>2, <3>3 DEF QuietInv
    <3>5. ASSUME NEW b \in Apps \ Cached', now' < until'[b] PROVE b \in evicted'
      <4>1. b # a /\ b \notin kept /\ now < until[b] BY <3>1, <3>2, <3>3, <3>5
      <4>2. CASE b \in Cached
        <5>1. b \in Fresh(Cached) BY <4>1, <4>2 DEF QuietInv, Fresh
        <5> QED BY <3>1, <4>1, <5>1
      <4>3. CASE b \notin Cached BY <3>1, <4>1, <4>3 DEF QuietInv
      <4> QED BY <4>2, <4>3
    <3>6. suppressed(a) => now < until[a] BY DEF suppressed, Fresh, QuietInv
    <3>7. ~suppressed(a) /\ now < until[a] => a \in evicted
      BY DEF suppressed, Fresh, QuietInv
    <3>8. last'.shown = ~suppressed(a) /\ last'.quiet = (now < until[a])
          /\ last'.lost = (a \in evicted)
      BY <2>2 DEF Decide
    <3> QED BY <3>4, <3>5, <3>6, <3>7, <3>8 DEF QuietInv
  <2> QED BY <1>1, <2>1, <2>2 DEF Access
<1>2. ASSUME NEW n \in BOOLEAN, NEW t \in Ttls, UpdateConfig(n, t) PROVE QuietInv'
  BY <1>2 DEF QuietInv, UpdateConfig, Cached
<1>3. CASE Tick
  <2>1. \A a \in Apps : now' < until[a] => now < until[a] BY <1>3 DEF Tick, TypeOK
  <2> QED BY <1>3, <2>1 DEF QuietInv, Tick, Cached
<1>4. CASE UNCHANGED vars BY <1>4 DEF QuietInv, vars, Cached
<1> QED BY <1>1, <1>2, <1>3, <1>4 DEF Next

\* The parts together are inductive.
LEMMA CacheInvariant == Spec => [](TypeOK /\ CacheBounded /\ QuietInv)
<1>1. Init => TypeOK /\ CacheBounded /\ QuietInv
  <2> SUFFICES ASSUME Init PROVE TypeOK /\ CacheBounded /\ QuietInv
    OBVIOUS
  <2>1. Cached = {} BY DEF Init, Cached
  <2>2. TypeOK BY <2>1, CacheConstants DEF Init, TypeOK
  <2>3. CacheBounded BY <2>1, FS_EmptySet, CacheConstants DEF CacheBounded
  <2>4. QuietInv
    BY <2>1 DEF Init, QuietInv, SilentOnlyInQuietTime, RepeatOnlyAfterEviction
  <2> QED BY <2>2, <2>3, <2>4
<1> QED BY <1>1, CacheTypeStep, BoundStep, QuietStep, PTL DEF Spec

\* Every variable of the cache keeps its type.
THEOREM CacheTypeCorrect == Spec => []TypeOK
  BY CacheInvariant, PTL

\* notifyCacheMaxEntries bounds the cache, whatever expires or is evicted.
THEOREM CacheStaysBounded == Spec => []CacheBounded
  BY CacheInvariant, PTL

\* A read goes unreported only if its app read a secret less than a ttl ago.
THEOREM SilenceIsEarned == Spec => []SilentOnlyInQuietTime
<1>1. QuietInv => SilentOnlyInQuietTime BY DEF QuietInv
<1> QED BY <1>1, CacheInvariant, PTL

\* An app is reported twice within its quiet time only after an eviction.
THEOREM RepeatsFollowEvictions == Spec => []RepeatOnlyAfterEviction
<1>1. QuietInv => RepeatOnlyAfterEviction BY DEF QuietInv
<1> QED BY <1>1, CacheInvariant, PTL
=============================================================================
