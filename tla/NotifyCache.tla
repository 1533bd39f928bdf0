---------------------------- MODULE NotifyCache ----------------------------
(***************************************************************************)
(* The desktop notifications of secret reads: notifySecretAccess           *)
(* (internal/secretservice/access.go) and the cache that keeps an app that *)
(* reads often from being reported each time (notifycache.go).  The cache  *)
(* is bounded, its entries expire, and the configuration may change        *)
(* between two reads.                                                      *)
(***************************************************************************)
EXTENDS Naturals, FiniteSets

CONSTANTS
  Apps,        \* cache keys: executable, command line or D-Bus sender
  MaxEntries,  \* notifyCacheMaxEntries
  Ttls,        \* values of notify_cache_ttl that are configured
  MaxTime      \* bound on the clock

ASSUME CacheConstants ==
  /\ IsFiniteSet(Apps)
  /\ MaxEntries \in Nat \ {0} /\ MaxTime \in Nat
  /\ Ttls \subseteq Nat /\ Ttls # {}

VARIABLES
  now,      \* the clock
  notify,   \* SecretServiceConfig.NotifyOnAccess
  ttl,      \* SecretServiceConfig.NotifyCacheTTL
  entries,  \* the cache: expiry time of each key in it
  until,    \* history: until[a]: end of the quiet time app a last earned
  evicted,  \* history: apps whose entry a full cache dropped before it expired
  last      \* history: the last decision

vars == <<now, notify, ttl, entries, until, evicted, last>>

Cached == DOMAIN entries
Fresh(S) == {a \in S : now < entries[a]}

pruneLocked_All(S) == {}

\* pruneLocked leaves the keys that have not expired.
pruneLocked(S) == Fresh(S)

evictSoonestLocked_AtLimit(S) == IF Cardinality(S) > MaxEntries THEN {{}} ELSE {S}

\* evictSoonestLocked removes one of the keys that expire first.
evictSoonestLocked(S) ==
  {S \ {a} : a \in {b \in S : \A d \in S : entries[b] <= entries[d]}}

\* The keys that stay when key a is about to get an entry.
Room(a) ==
  IF a \in Cached \/ Cardinality(Cached) < MaxEntries THEN {Cached}
  ELSE LET kept == pruneLocked(Cached) IN
       IF Cardinality(kept) < MaxEntries THEN {kept} ELSE evictSoonestLocked(kept)

suppressed_ExpiryIncluded(a) == a \in Cached /\ now <= entries[a]

\* The app has an entry that has not expired.
suppressed(a) == a \in Fresh(Cached)

Renewed_BeforeNow(a) == now - ttl

\* The expiry the entry gets, suppressed or not.
Renewed(a) == now + ttl

\* The cache is full of entries that have not expired.
Crowded == Cardinality(Fresh(Cached)) >= MaxEntries

\* allow, with a positive ttl: an app whose entry has not expired is
\* suppressed; in either case the entry is renewed.
allow(a) ==
  \E kept \in IF suppressed(a) THEN {Cached} ELSE Room(a) :
    /\ entries' = [b \in kept \cup {a} |-> IF b = a THEN Renewed(a) ELSE entries[b]]
    /\ until' = [until EXCEPT ![a] = now + ttl]
    /\ evicted' = IF Crowded THEN (evicted \cup (Fresh(Cached) \ kept)) \ {a}
                  ELSE evicted \ {a}

\* The decision about one read, with what it should depend on.
Decide(a, shown) ==
  last' = [shown |-> shown, quiet |-> ttl > 0 /\ now < until[a], lost |-> a \in evicted]

\* notifySecretAccess for a read by app a.
Access(a) ==
  /\ notify
  /\ \/ /\ ttl = 0
        /\ Decide(a, TRUE)
        /\ UNCHANGED <<entries, until, evicted>>
     \/ /\ ttl > 0
        /\ allow(a)
        /\ Decide(a, ~suppressed(a))
  /\ UNCHANGED <<now, notify, ttl>>

\* UpdateConfig, after SIGHUP.
UpdateConfig(n, t) ==
  /\ notify' = n /\ ttl' = t
  /\ UNCHANGED <<now, entries, until, evicted, last>>

Tick ==
  /\ now < MaxTime
  /\ now' = now + 1
  /\ UNCHANGED <<notify, ttl, entries, until, evicted, last>>

Init ==
  /\ now = 0
  /\ notify \in BOOLEAN /\ ttl \in Ttls
  /\ entries = [a \in {} |-> 0]
  /\ until = [a \in Apps |-> 0]
  /\ evicted = {}
  /\ last = [shown |-> TRUE, quiet |-> FALSE, lost |-> FALSE]

Next ==
  \/ \E a \in Apps : Access(a)
  \/ \E n \in BOOLEAN, t \in Ttls : UpdateConfig(n, t)
  \/ Tick

Spec == Init /\ [][Next]_vars

-----------------------------------------------------------------------------
(* Properties *)

\* Every variable holds a value of its type.
TypeOK ==
  /\ now \in Nat /\ notify \in BOOLEAN /\ ttl \in Nat
  /\ Cached \subseteq Apps /\ entries \in [Cached -> Nat]
  /\ until \in [Apps -> Nat]
  /\ evicted \subseteq Apps
  /\ last \in [shown : BOOLEAN, quiet : BOOLEAN, lost : BOOLEAN]

\* notifycache.go:10: the cache never outgrows its bound, however many apps
\* read secrets within one ttl.
CacheBounded == Cardinality(Cached) <= MaxEntries

\* notifycache.go:15-19, access.go:242-244: a read is left unreported only if
\* the same app read a secret less than the ttl of that time ago; the first
\* read after a pause is always shown, whatever was pruned, evicted or
\* reconfigured in between.
SilentOnlyInQuietTime == ~last.shown => last.quiet

\* An app that stays active is reported once: a repeated notification within
\* its quiet time needs an eviction, which only a full cache of entries that
\* have not expired brings about.
RepeatOnlyAfterEviction == last.shown /\ last.quiet => last.lost
=============================================================================
