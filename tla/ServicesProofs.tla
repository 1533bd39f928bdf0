--------------------------- MODULE ServicesProofs ---------------------------
(***************************************************************************)
(* Proofs about Services, for any set of databases, objects, keys and      *)
(* paths, any channel capacity and any assignment of keys to databases: no *)
(* identity outlives the Lock of its database unnoticed, and identities    *)
(* and collections follow what the pool has unlocked.                      *)
(***************************************************************************)
EXTENDS Services, TLAPS

-----------------------------------------------------------------------------
(* The pool: facts that hold of every user of PoolEvents *)

\* Every variable of the pool holds a value of its type.
PoolTypeOK ==
  /\ dbs \in [Uuids -> Odbs \cup {None}]
  /\ owner \in [Odbs -> Uuids \cup {None}]
  /\ open \subseteq Odbs
  /\ chan \in Seq(Event) /\ Len(chan) <= ChanCap
  /\ opening \in [Openers -> Odbs \cup {None}]
  /\ published \subseteq Openers

\* What Open works on is unlocked and in nobody else's hands until it is
\* published, and the map holds each object under its own UUID.
OpenInv ==
  /\ \A g \in Openers :
       /\ opening[g] \in Odbs => owner[opening[g]] \in Uuids
       /\ g \in published => opening[g] \in Odbs
       /\ opening[g] \in Odbs /\ g \notin published =>
            opening[g] \in open /\ \A u \in Uuids : dbs[u] # opening[g]
       /\ \A h \in Openers \ {g} : opening[g] \in Odbs => opening[h] # opening[g]
  /\ \A u \in Uuids : dbs[u] \in Odbs => owner[dbs[u]] = u
  /\ \A o \in open : owner[o] \in Uuids

\* Sending loses nothing that is in the channel, and puts the event there if
\* there is room.
LEMMA SendKeeps ==
  ASSUME chan \in Seq(Event), Len(chan) <= ChanCap, NEW e \in Event, TrySend(e)
  PROVE  /\ chan' \in Seq(Event) /\ Len(chan') <= ChanCap
         /\ \A f \in Event : InChannel(f) => InChannel(f)'
         /\ Len(chan) < ChanCap => InChannel(e)'
<1>1. CASE Len(chan) < ChanCap
  <2>1. chan' = Append(chan, e) BY <1>1 DEF TrySend
  <2>2. chan' \in Seq(Event) /\ Len(chan') = Len(chan) + 1 /\ chan'[Len(chan) + 1] = e
    BY <2>1
  <2>3. \A i \in 1..Len(chan) : chan'[i] = chan[i] /\ i \in 1..Len(chan') BY <2>1, <2>2
  <2>4. Len(chan) + 1 \in 1..Len(chan') BY <2>2
  <2> QED BY <1>1, <2>2, <2>3, <2>4, EventConstants DEF InChannel
<1>2. CASE ~(Len(chan) < ChanCap)
  BY <1>2, EventConstants DEF TrySend, InChannel
<1> QED BY <1>1, <1>2

\* Receiving takes the head of the channel and nothing else.
LEMMA ReceiveKeeps ==
  ASSUME chan \in Seq(Event), Len(chan) <= ChanCap, Receive
  PROVE  /\ chan' \in Seq(Event) /\ Len(chan') <= ChanCap
         /\ Head(chan) \in Event
         /\ \A f \in Event : InChannel(f) => f = Head(chan) \/ InChannel(f)'
<1>1. chan # <<>> /\ chan' = Tail(chan) BY DEF Receive
<1>2. Head(chan) = chan[1] /\ Head(chan) \in Event BY <1>1
<1>3. chan' \in Seq(Event) /\ Len(chan') = Len(chan) - 1 /\ Len(chan) >= 1 BY <1>1
<1>4. \A i \in 1..Len(chan') : chan'[i] = chan[i + 1] BY <1>1, <1>3
<1>5. ASSUME NEW f \in Event, InChannel(f), f # Head(chan) PROVE InChannel(f)'
  <2>1. PICK i \in 1..Len(chan) : chan[i] = f BY <1>5 DEF InChannel
  <2>2. i # 1 BY <2>1, <1>5, <1>2
  <2>3. i - 1 \in 1..Len(chan') /\ chan'[i - 1] = f BY <2>1, <2>2, <1>3, <1>4
  <2> QED BY <2>3 DEF InChannel
<1> QED BY <1>2, <1>3, <1>5, EventConstants

\* The fact about a Locked event that both sides of a step use.
LEMMA LockedEvent ==
  /\ \A u \in Uuids : [type |-> "Locked", uuid |-> u] \in Event
  /\ \A e \in Event, u \in Uuids :
       e = [type |-> "Locked", uuid |-> u] <=> e.type = "Locked" /\ e.uuid = u
  BY DEF Event

\* Every step of the pool, and its user's Receive, keeps the types, keeps
\* objects in the hands of one Open or in the map, and loses no event but the
\* one received.
LEMMA PoolKeeps ==
  ASSUME PoolTypeOK, OpenInv, PoolStep
  PROVE  PoolTypeOK' /\ OpenInv' /\ \A f \in Event : InChannel(f) => InChannel(f)'
<1> USE EventConstants DEF PoolTypeOK
<1>1. ASSUME NEW g \in Openers, NEW u \in Uuids, NEW o \in Odbs, Load(g, u, o)
      PROVE  PoolTypeOK' /\ OpenInv' /\ UNCHANGED chan
  BY <1>1 DEF Load, OpenInv
<1>2. ASSUME NEW g \in Openers, Publish(g)
      PROVE  PoolTypeOK' /\ OpenInv' /\ UNCHANGED chan
  BY <1>2 DEF Publish, OpenInv
<1>3. ASSUME NEW g \in Openers, SendUnlocked(g)
      PROVE  PoolTypeOK' /\ OpenInv' /\ \A f \in Event : InChannel(f) => InChannel(f)'
  <2>1. [type |-> "Unlocked", uuid |-> owner[opening[g]]] \in Event
    BY <1>3 DEF SendUnlocked, Event, OpenInv
  <2>2. /\ chan' \in Seq(Event) /\ Len(chan') <= ChanCap
        /\ \A f \in Event : InChannel(f) => InChannel(f)'
    BY <1>3, <2>1, SendKeeps DEF SendUnlocked
  <2>3. OpenInv' BY <1>3 DEF SendUnlocked, OpenInv
  <2> QED BY <1>3, <2>2, <2>3 DEF SendUnlocked
<1>4. ASSUME NEW u \in Uuids, Lock(u)
      PROVE  PoolTypeOK' /\ OpenInv' /\ \A f \in Event : InChannel(f) => InChannel(f)'
  <2>1. [type |-> "Locked", uuid |-> u] \in Event BY DEF Event
  <2>2. /\ chan' \in Seq(Event) /\ Len(chan') <= ChanCap
        /\ \A f \in Event : InChannel(f) => InChannel(f)'
    BY <1>4, <2>1, SendKeeps DEF Lock
  <2>3. OpenInv' BY <1>4 DEF Lock, OpenInv
  <2> QED BY <1>4, <2>2, <2>3 DEF Lock
<1>5. ASSUME NEW o \in Odbs, Reload(o)
      PROVE  PoolTypeOK' /\ OpenInv' /\ \A f \in Event : InChannel(f) => InChannel(f)'
  <2>1. [type |-> "Reloaded", uuid |-> owner[o]] \in Event
    BY <1>5 DEF Reload, Event, OpenInv
  <2>2. /\ chan' \in Seq(Event) /\ Len(chan') <= ChanCap
        /\ \A f \in Event : InChannel(f) => InChannel(f)'
    BY <1>5, <2>1, SendKeeps DEF Reload, TrySend
  <2>3. OpenInv' BY <1>5 DEF Reload, OpenInv
  <2> QED BY <1>5, <2>2, <2>3 DEF Reload
<1> QED BY <1>1, <1>2, <1>3, <1>4, <1>5 DEF PoolStep, InChannel

\* OpenInv speaks of the pool without its channel.
LEMMA OpenKept ==
  OpenInv /\ UNCHANGED <<dbs, owner, open, opening, published>> => OpenInv'
  BY DEF OpenInv

-----------------------------------------------------------------------------
(* The services *)

\* The database is unlocked or the services will be told that it is not.
Watched(u) ==
  /\ dbs[u] \in Odbs
  /\ dbs[u] \in open \/ Pending("Locked", u) \/ u \in dropped

\* Identities in the agent, and those about to be added, are watched.
KeyInv ==
  /\ \A k \in Keys, u \in Uuids : keys[k] = u => Watched(u)
  /\ handling = None <=> stage = "none"
  /\ stage = "add" => handling.type = "Unlocked" /\ Watched(handling.uuid)

\* Every step keeps every variable in its type.
LEMMA TypeStep == TypeOK /\ OpenInv /\ [Next]_vars => TypeOK'
<1> SUFFICES ASSUME TypeOK, OpenInv, [Next]_vars PROVE TypeOK'
  OBVIOUS
<1> USE EventConstants, ServiceConstants
      DEF TypeOK, OpenInv, poolVars, serviceVars, history
<1>1. ASSUME NEW g \in Openers, PoolOpen(g) PROVE TypeOK'
  <2>1. ASSUME NEW u \in Uuids, NEW o \in Odbs, Load(g, u, o) PROVE TypeOK'
    BY <2>1, <1>1 DEF Load, PoolOpen
  <2>2. CASE Publish(g) BY <2>2, <1>1 DEF Publish, PoolOpen
  <2> QED BY <1>1, <2>1, <2>2 DEF PoolOpen
<1>2. ASSUME NEW g \in Openers, PoolSendUnlocked(g) PROVE TypeOK'
  <2>1. [type |-> "Unlocked", uuid |-> owner[opening[g]]] \in Event
    BY <1>2 DEF PoolSendUnlocked, SendUnlocked, Event
  <2>2. chan' \in Seq(Event) /\ Len(chan') <= ChanCap
    BY <1>2, <2>1, SendKeeps DEF PoolSendUnlocked, SendUnlocked
  <2> QED BY <1>2, <2>2 DEF PoolSendUnlocked, SendUnlocked
<1>3. ASSUME NEW u \in Uuids, PoolLock(u) PROVE TypeOK'
  <2>1. [type |-> "Locked", uuid |-> u] \in Event BY <1>3 DEF PoolLock, Lock, Event
  <2>2. chan' \in Seq(Event) /\ Len(chan') <= ChanCap
    BY <1>3, <2>1, SendKeeps DEF PoolLock, Lock
  <2> QED BY <1>3, <2>2 DEF PoolLock, Lock
<1>4. ASSUME NEW o \in Odbs, PoolReload(o) PROVE TypeOK'
  <2>1. [type |-> "Reloaded", uuid |-> owner[o]] \in Event
    BY <1>4 DEF PoolReload, Reload, Event
  <2>2. chan' \in Seq(Event) /\ Len(chan') <= ChanCap
    BY <1>4, <2>1, SendKeeps DEF PoolReload, Reload, TrySend
  <2> QED BY <1>4, <2>2 DEF PoolReload, Reload
<1>5. ASSUME NEW p \in Paths, SetAlias(p) PROVE TypeOK'
  BY <1>5 DEF SetAlias
<1>6. CASE Export BY <1>6 DEF Export
<1>7. CASE LoopStep
  <2>1. CASE TakeEvent
    <3>1. chan' \in Seq(Event) /\ Len(chan') <= ChanCap /\ Head(chan) \in Event
      BY <2>1, ReceiveKeeps DEF TakeEvent
    <3> QED BY <2>1, <3>1 DEF TakeEvent, Receive
  <2>2. CASE HandleSecret
    <3>1. handling \in Event /\ handling.uuid \in Uuids BY <2>2 DEF HandleSecret, Event
    <3>2. /\ collections' \in [Paths -> Odbs \cup {None}]
          /\ aliases' \in Paths \cup {None} /\ aliasObj' \in Odbs \cup {None}
      <4>1. CASE createCollection(dbs[handling.uuid]) /\ dbs[handling.uuid] # None
        BY <3>1, <4>1 DEF createCollection
      <4>2. CASE onDatabaseLocked(handling.uuid) BY <4>2 DEF onDatabaseLocked, Without
      <4> QED
        BY <2>2, <4>1, <4>2 DEF HandleSecret, onDatabaseUnlocked, onDatabaseReloaded
    <3> QED BY <2>2, <3>1, <3>2 DEF HandleSecret, EventDone
  <2>3. CASE ExtractKeys
    <3>1. handling.uuid \in Uuids BY <2>3 DEF ExtractKeys, Event
    <3> QED BY <2>3, <3>1 DEF ExtractKeys, EventDone
  <2>4. CASE AddKeys
    <3>1. handling.uuid \in Uuids BY <2>4 DEF AddKeys, Event
    <3>2. keys' \in [Keys -> Uuids \cup {None}] BY <2>4, <3>1 DEF AddKeys, Added
    <3> QED BY <2>4, <3>2 DEF AddKeys, EventDone
  <2>5. CASE RemoveKeys BY <2>5 DEF RemoveKeys, Removed, EventDone
  <2> QED BY <1>7, <2>1, <2>2, <2>3, <2>4, <2>5 DEF LoopStep
<1>8. CASE UNCHANGED vars BY <1>8 DEF vars
<1>9. ASSUME NEW k \in Keys, handleRemoveIdentity(k) PROVE TypeOK'
  BY <1>9 DEF handleRemoveIdentity, Forgotten, ListIdentities
<1>10. CASE handleRemoveAllIdentities
  BY <1>10 DEF handleRemoveAllIdentities, Forgotten, ListIdentities
<1> QED BY <1>1, <1>2, <1>3, <1>4, <1>5, <1>6, <1>7, <1>8, <1>9, <1>10 DEF Next

\* A step of the services' specification is one of the pool or leaves the pool
\* alone, but for its channel.
LEMMA PoolOrService ==
  [Next]_vars => PoolStep \/ UNCHANGED <<dbs, owner, open, opening, published>>
<1> SUFFICES ASSUME [Next]_vars
             PROVE  PoolStep \/ UNCHANGED <<dbs, owner, open, opening, published>>
  OBVIOUS
<1> USE DEF poolVars
<1>1. ASSUME NEW g \in Openers, PoolOpen(g) \/ PoolSendUnlocked(g) PROVE PoolStep
  BY <1>1 DEF PoolOpen, PoolSendUnlocked, PoolStep
<1>2. ASSUME NEW u \in Uuids, PoolLock(u) PROVE PoolStep
  BY <1>2 DEF PoolLock, PoolStep
<1>3. ASSUME NEW o \in Odbs, PoolReload(o) PROVE PoolStep
  BY <1>3 DEF PoolReload, PoolStep
<1>4. CASE UNCHANGED vars BY <1>4 DEF vars
<1>5. CASE TakeEvent BY <1>5 DEF TakeEvent, Receive
<1>6. CASE HandleSecret \/ ExtractKeys \/ AddKeys \/ RemoveKeys
  BY <1>6 DEF HandleSecret, ExtractKeys, AddKeys, RemoveKeys
<1>7. CASE Export \/ \E p \in Paths : SetAlias(p) BY <1>7 DEF Export, SetAlias
<1>8. CASE handleRemoveAllIdentities \/ \E k \in Keys : handleRemoveIdentity(k)
  BY <1>8 DEF handleRemoveAllIdentities, handleRemoveIdentity, Forgotten
<1> QED BY <1>1, <1>2, <1>3, <1>4, <1>5, <1>6, <1>7, <1>8 DEF Next, LoopStep

\* Every step keeps objects in the hands of one Open or in the map.
LEMMA OpenStep == TypeOK /\ OpenInv /\ [Next]_vars => OpenInv'
<1>1. TypeOK => PoolTypeOK BY DEF TypeOK, PoolTypeOK
<1> QED BY <1>1, PoolOrService, PoolKeeps, OpenKept

\* Every step keeps the identities in the agent watched.
LEMMA KeyStep == TypeOK /\ OpenInv /\ KeyInv /\ [Next]_vars => KeyInv'
<1> SUFFICES ASSUME TypeOK, OpenInv, KeyInv, [Next]_vars PROVE KeyInv'
  OBVIOUS
<1> USE EventConstants, ServiceConstants, LockedEvent
    DEF TypeOK, OpenInv, poolVars, serviceVars, history
\* A step of the pool or of a D-Bus call need only keep the databases watched.
<1>a. ASSUME \A v \in Uuids : Watched(v) => Watched(v)',
             UNCHANGED <<keys, handling, stage>>
      PROVE  KeyInv'
  <2>1. stage = "add" => handling.uuid \in Uuids BY DEF KeyInv, Event
  <2> QED BY <1>a, <2>1 DEF KeyInv
<1>1. ASSUME NEW g \in Openers, PoolOpen(g) PROVE KeyInv'
  <2>1. ASSUME NEW u \in Uuids, NEW o \in Odbs, Load(g, u, o) PROVE KeyInv'
    BY <2>1, <1>1, <1>a DEF Load, PoolOpen, Watched, Pending, InChannel
  <2>2. CASE Publish(g)
    BY <2>2, <1>1, <1>a DEF Publish, PoolOpen, Watched, Pending, InChannel
  <2> QED BY <1>1, <2>1, <2>2 DEF PoolOpen
<1>2. ASSUME NEW g \in Openers, PoolSendUnlocked(g) PROVE KeyInv'
  <2>1. [type |-> "Unlocked", uuid |-> owner[opening[g]]] \in Event
    BY <1>2 DEF PoolSendUnlocked, SendUnlocked, Event
  <2>2. \A f \in Event : InChannel(f) => InChannel(f)'
    BY <1>2, <2>1, SendKeeps DEF PoolSendUnlocked, SendUnlocked
  <2> QED BY <1>2, <1>a, <2>2 DEF PoolSendUnlocked, SendUnlocked, Watched, Pending
<1>3. ASSUME NEW u \in Uuids, PoolLock(u) PROVE KeyInv'
  <2>1. /\ \A f \in Event : InChannel(f) => InChannel(f)'
        /\ ~Full => InChannel([type |-> "Locked", uuid |-> u])'
    BY <1>3, SendKeeps DEF PoolLock, Lock, Full
  <2>2. ASSUME NEW v \in Uuids, Watched(v) PROVE Watched(v)'
    <3>1. CASE v = u BY <1>3, <2>1, <2>2, <3>1 DEF PoolLock, Lock, Watched, Pending
    <3>2. CASE v # u
      <4>1. dbs[v] \in open => dbs[v] \in open'
        BY <1>3, <2>2, <3>2 DEF PoolLock, Lock, Watched
      <4> QED BY <1>3, <2>1, <2>2, <3>2, <4>1 DEF PoolLock, Lock, Watched, Pending
    <3> QED BY <3>1, <3>2
  <2> QED BY <1>3, <1>a, <2>2 DEF PoolLock
<1>4. ASSUME NEW o \in Odbs, PoolReload(o) PROVE KeyInv'
  <2>1. [type |-> "Reloaded", uuid |-> owner[o]] \in Event
    BY <1>4 DEF PoolReload, Reload, Event
  <2>2. \A f \in Event : InChannel(f) => InChannel(f)'
    BY <1>4, <2>1, SendKeeps DEF PoolReload, Reload, TrySend
  <2> QED BY <1>4, <1>a, <2>2 DEF PoolReload, Reload, Watched, Pending
<1>5. ASSUME NEW p \in Paths, SetAlias(p) PROVE KeyInv'
  BY <1>5, <1>a DEF SetAlias, Watched, Pending, InChannel
<1>6. CASE Export BY <1>6, <1>a DEF Export, Watched, Pending, InChannel
<1>7. CASE LoopStep
  <2>1. CASE TakeEvent
    <3>1. /\ Head(chan) \in Event
          /\ \A f \in Event : InChannel(f) => f = Head(chan) \/ InChannel(f)'
      BY <2>1, ReceiveKeeps DEF TakeEvent
    <3>2. \A v \in Uuids : Watched(v) => Watched(v)'
      BY <2>1, <3>1 DEF TakeEvent, Receive, Watched, Pending
    <3> QED BY <2>1, <3>1, <3>2 DEF TakeEvent, KeyInv
  <2>2. CASE HandleSecret
    <3>1. \A v \in Uuids : Watched(v) => Watched(v)'
      BY <2>2 DEF HandleSecret, EventDone, Watched, Pending, InChannel
    <3> QED BY <2>2, <3>1 DEF HandleSecret, EventDone, KeyInv
  <2>3. CASE ExtractKeys
    <3>1. handling \in Event /\ handling.uuid \in Uuids BY <2>3 DEF ExtractKeys, Event
    <3>2. \A v \in Uuids : Watched(v) => Watched(v)'
      BY <2>3, <3>1 DEF ExtractKeys, EventDone, Watched, Pending, InChannel
    <3>3. stage' = "add" => Watched(handling.uuid)
      BY <2>3, <3>1 DEF ExtractKeys, EventDone, Watched
    <3> QED BY <2>3, <3>1, <3>2, <3>3 DEF ExtractKeys, EventDone, KeyInv
  <2>4. CASE AddKeys
    <3>1. handling \in Event /\ handling.uuid \in Uuids /\ handling.type = "Unlocked"
      BY <2>4 DEF AddKeys, KeyInv, Event
    <3>2. \A v \in Uuids : Watched(v) => Watched(v)'
      BY <2>4, <3>1 DEF AddKeys, EventDone, Watched, Pending, InChannel
    <3>3. \A k \in Keys : keys'[k] \in {keys[k], handling.uuid}
      BY <2>4 DEF AddKeys, Added
    <3> QED BY <2>4, <3>1, <3>2, <3>3 DEF AddKeys, EventDone, KeyInv
  <2>5. CASE RemoveKeys
    <3>1. handling \in Event /\ handling.uuid \in Uuids BY <2>5 DEF RemoveKeys, Event
    <3>2. \A v \in Uuids \ {handling.uuid} : Watched(v) => Watched(v)'
      BY <2>5, <3>1 DEF RemoveKeys, EventDone, Watched, Pending, InChannel
    <3>3. \A k \in Keys : keys'[k] \in {keys[k], None} /\ keys'[k] # handling.uuid
      BY <2>5, <3>1 DEF RemoveKeys, Removed, KeyInv, Watched
    <3> QED BY <2>5, <3>1, <3>2, <3>3 DEF RemoveKeys, EventDone, KeyInv
  <2> QED BY <1>7, <2>1, <2>2, <2>3, <2>4, <2>5 DEF LoopStep
<1>8. CASE UNCHANGED vars BY <1>8, <1>a DEF vars, Watched, Pending, InChannel
<1>b. ASSUME NEW ks \in SUBSET Keys, Forgotten(ks) PROVE KeyInv'
  <2>1. \A v \in Uuids : Watched(v) => Watched(v)'
    BY <1>b DEF Forgotten, Watched, Pending, InChannel
  <2>2. \A k \in Keys : keys'[k] \in {keys[k], None} BY <1>b DEF Forgotten
  <2>3. stage = "add" => handling.uuid \in Uuids BY DEF KeyInv, Event
  <2> QED BY <1>b, <2>1, <2>2, <2>3 DEF Forgotten, KeyInv
<1>9. ASSUME NEW k \in Keys, handleRemoveIdentity(k) PROVE KeyInv'
  BY <1>9, <1>b DEF handleRemoveIdentity
<1>10. CASE handleRemoveAllIdentities
  BY <1>10, <1>b DEF handleRemoveAllIdentities, ListIdentities
<1> QED BY <1>1, <1>2, <1>3, <1>4, <1>5, <1>6, <1>7, <1>8, <1>9, <1>10 DEF Next

\* The three parts together are inductive.
LEMMA ServicesInvariant == Spec => [](TypeOK /\ OpenInv /\ KeyInv)
<1>1. Init => TypeOK /\ OpenInv /\ KeyInv
  BY EventConstants, ServiceConstants
  DEF Init, PoolInit, TypeOK, OpenInv, KeyInv, Event
<1> QED BY <1>1, TypeStep, OpenStep, KeyStep, PTL DEF Spec

\* Every variable of the services keeps its type.
THEOREM ServicesTypeCorrect == Spec => []TypeOK
  BY ServicesInvariant, PTL

\* An identity in the agent belongs to an unlocked database, or the event that
\* removes it is on its way, or was dropped because the channel was full.
THEOREM KeysFollowLocks == Spec => []KeysGoWithLock
<1>1. TypeOK /\ KeyInv => KeysGoWithLock
  BY DEF TypeOK, KeyInv, Watched, KeysGoWithLock, ListIdentities
<1> QED BY <1>1, ServicesInvariant, PTL

-----------------------------------------------------------------------------
(* The order of events *)

Ev(t, u) == [type |-> t, uuid |-> u]

Kinds == {"Unlocked", "Locked"}

\* Behind every event a of a database, one of kind b is still to come.
After(a, b, u) ==
  /\ handling = Ev(a, u) => InChannel(Ev(b, u))
  /\ \A i \in 1..Len(chan) : chan[i] = Ev(a, u) =>
       \E j \in 1..Len(chan) : j > i /\ chan[j] = Ev(b, u)

\* What the services hear last of a database is what the pool says, unless that
\* event was dropped, sent late, or is not yet sent.
OrderInv ==
  \A u \in Uuids :
    /\ dbs[u] \in open =>
         Unsent(u) \/ u \in missed \/ After("Locked", "Unlocked", u)
    /\ dbs[u] \in Odbs \ open =>
         \/ Unsent(u) \/ u \in dropped \cup missed \cup late
         \/ After("Unlocked", "Locked", u)

\* Events are told apart by their kind and their database.
LEMMA EvFacts ==
  /\ \A t \in Kinds \cup {"Reloaded"}, u \in Uuids : Ev(t, u) \in Event /\ Ev(t, u) # None
  /\ \A e \in Event, t \in Kinds, u \in Uuids : e = Ev(t, u) <=> e.type = t /\ e.uuid = u
BY ServiceConstants DEF Ev, Event, Kinds

\* An event of another kind or database disturbs no order; one of kind b makes it.
LEMMA AfterSend ==
  ASSUME TypeOK, NEW e \in Event, TrySend(e), UNCHANGED handling,
         NEW a \in Kinds, NEW b \in Kinds \ {a}, NEW u \in Uuids
  PROVE  /\ e # Ev(a, u) /\ After(a, b, u) => After(a, b, u)'
         /\ e = Ev(b, u) /\ ~Full => After(a, b, u)'
<1> USE DEF TypeOK
<1>0. /\ \A f \in Event : InChannel(f) => InChannel(f)'
      /\ Len(chan) < ChanCap => InChannel(e)'
      /\ Ev(a, u) \in Event /\ Ev(b, u) \in Event /\ Ev(a, u) # Ev(b, u)
  BY SendKeeps, EvFacts
<1>1. CASE Len(chan) < ChanCap
  <2>1. chan' = Append(chan, e) BY <1>1 DEF TrySend
  <2>2. Len(chan') = Len(chan) + 1 /\ chan'[Len(chan) + 1] = e /\ Len(chan) \in Nat
    BY <2>1
  <2>3. \A i \in 1..Len(chan) : chan'[i] = chan[i] BY <2>1
  <2>4. ASSUME e # Ev(a, u), After(a, b, u) PROVE After(a, b, u)'
    <3>1. handling' = Ev(a, u) => InChannel(Ev(b, u))' BY <1>0, <2>4 DEF After
    <3>2. ASSUME NEW i \in 1..Len(chan'), chan'[i] = Ev(a, u)
          PROVE  \E j \in 1..Len(chan') : j > i /\ chan'[j] = Ev(b, u)
      <4>1. i \in 1..Len(chan) /\ chan[i] = Ev(a, u) BY <2>2, <2>3, <2>4, <3>2
      <4>2. PICK j \in 1..Len(chan) : j > i /\ chan[j] = Ev(b, u) BY <2>4, <4>1 DEF After
      <4>3. j \in 1..Len(chan') /\ chan'[j] = Ev(b, u) BY <2>2, <2>3, <4>2
      <4> QED BY <4>2, <4>3
    <3> QED BY <3>1, <3>2 DEF After, Ev
  <2>5. ASSUME e = Ev(b, u) PROVE After(a, b, u)'
    <3>1. InChannel(Ev(b, u))' BY <1>0, <1>1, <2>5 DEF Ev
    <3>2. ASSUME NEW i \in 1..Len(chan'), chan'[i] = Ev(a, u)
          PROVE  \E j \in 1..Len(chan') : j > i /\ chan'[j] = Ev(b, u)
      <4>1. i # Len(chan) + 1 BY <1>0, <2>2, <2>5, <3>2
      <4>2. Len(chan) + 1 \in 1..Len(chan') /\ Len(chan) + 1 > i BY <2>2, <3>2, <4>1
      <4> QED BY <2>2, <2>5, <4>2
    <3> QED BY <3>1, <3>2 DEF After, Ev
  <2> QED BY <2>4, <2>5
<1>2. CASE ~(Len(chan) < ChanCap)
  <2>1. chan' = chan BY <1>2 DEF TrySend
  <2>2. Full BY <1>2, EventConstants DEF Full
  <2> QED BY <2>1, <2>2 DEF After, InChannel, Ev
<1> QED BY <1>1, <1>2

\* Taking an event keeps the order of the others, and what comes behind it.
LEMMA AfterTake ==
  ASSUME TypeOK, TakeEvent, NEW a \in Kinds, NEW b \in Kinds \ {a}, NEW u \in Uuids,
         After(a, b, u)
  PROVE  After(a, b, u)'
<1> USE DEF TypeOK
<1>1. chan # <<>> /\ chan' = Tail(chan) /\ handling' = Head(chan) BY DEF TakeEvent, Receive
<1>2. Head(chan) = chan[1] /\ Len(chan) \in Nat /\ Len(chan) >= 1 BY <1>1
<1>3. Len(chan') = Len(chan) - 1 BY <1>1
<1>4. \A i \in 1..Len(chan') : chan'[i] = chan[i + 1] BY <1>1, <1>3
<1>5. ASSUME NEW i \in 1..Len(chan), chan[i] = Ev(a, u)
      PROVE  \E j \in 1..Len(chan') : j + 1 > i /\ chan'[j] = Ev(b, u)
  <2>1. PICK j \in 1..Len(chan) : j > i /\ chan[j] = Ev(b, u) BY <1>5 DEF After
  <2>2. j - 1 \in 1..Len(chan') /\ chan'[j - 1] = chan[j] BY <1>2, <1>3, <1>4, <2>1
  <2>3. (j - 1) + 1 > i BY <2>1
  <2> QED BY <2>1, <2>2, <2>3
<1>6. handling' = Ev(a, u) => InChannel(Ev(b, u))'
  <2>1. 1 \in 1..Len(chan) BY <1>2
  <2> QED BY <1>1, <1>2, <1>5, <2>1 DEF InChannel, Ev
<1>7. ASSUME NEW i \in 1..Len(chan'), chan'[i] = Ev(a, u)
      PROVE  \E j \in 1..Len(chan') : j > i /\ chan'[j] = Ev(b, u)
  <2>1. i + 1 \in 1..Len(chan) /\ chan[i + 1] = Ev(a, u) BY <1>2, <1>3, <1>4, <1>7
  <2>2. PICK j \in 1..Len(chan') : j + 1 > i + 1 /\ chan'[j] = Ev(b, u) BY <1>5, <2>1
  <2>3. j > i BY <2>2, <1>3
  <2> QED BY <2>2, <2>3
<1> QED BY <1>6, <1>7 DEF After, Ev

\* A step that, for database u, at most moves an event on.
Calm(u) ==
  /\ dbs'[u] = dbs[u] /\ (dbs'[u] \in open' <=> dbs[u] \in open)
  /\ Unsent(u) => Unsent(u)'
  /\ u \in missed' <=> u \in missed
  /\ u \in dropped' <=> u \in dropped
  /\ u \in late' <=> u \in late
  /\ After("Locked", "Unlocked", u) => After("Locked", "Unlocked", u)'
  /\ After("Unlocked", "Locked", u) => After("Unlocked", "Locked", u)'
  /\ \A t \in Kinds : InChannel(Ev(t, u)) =>
       InChannel(Ev(t, u))' \/ (TakeEvent /\ handling' = Ev(t, u) /\ stage' = "secret")

\* Steps that send and receive nothing.
LEMMA CalmSilent ==
  ASSUME UNCHANGED <<chan, dbs, missed, dropped, late>>, NEW u \in Uuids,
         handling' = handling \/ handling' = None,
         dbs[u] \in open' <=> dbs[u] \in open, Unsent(u) => Unsent(u)'
  PROVE  Calm(u)
<1>1. Ev("Locked", u) # None /\ Ev("Unlocked", u) # None BY EvFacts DEF Kinds
<1>2. chan' = chan OBVIOUS
<1> QED BY <1>1, <1>2 DEF Calm, After, InChannel, Ev

\* Steps that send an event which is none of u's unlocking and locking.
LEMMA CalmSend ==
  ASSUME TypeOK, NEW e \in Event, TrySend(e), NEW u \in Uuids, e.type = "Reloaded" \/ e.uuid # u,
         UNCHANGED <<dbs, handling>>, dbs[u] \in open' <=> dbs[u] \in open,
         Unsent(u) => Unsent(u)',
         u \in missed' <=> u \in missed, u \in dropped' <=> u \in dropped,
         u \in late' <=> u \in late
  PROVE  Calm(u)
<1>1. \A t \in Kinds : e # Ev(t, u) BY DEF Ev, Kinds
<1>2. \A t \in Kinds : InChannel(Ev(t, u)) => InChannel(Ev(t, u))'
  BY SendKeeps, EvFacts DEF TypeOK, Ev
<1>3. After("Locked", "Unlocked", u) => After("Locked", "Unlocked", u)'
  BY <1>1, AfterSend DEF Kinds
<1>4. After("Unlocked", "Locked", u) => After("Unlocked", "Locked", u)'
  BY <1>1, AfterSend DEF Kinds
<1> QED BY <1>2, <1>3, <1>4 DEF Calm

\* What a step can be for a database.
LEMMA StepsOf ==
  ASSUME TypeOK, OpenInv, [Next]_vars, NEW u \in Uuids
  PROVE  \/ Calm(u)
         \/ \E g \in Openers : PoolOpen(g) /\ Publish(g) /\ owner[opening[g]] = u
         \/ \E g \in Openers : PoolSendUnlocked(g) /\ owner[opening[g]] = u
         \/ PoolLock(u)
<1> USE EventConstants, ServiceConstants
    DEF TypeOK, OpenInv, poolVars, serviceVars, history
<1>1. ASSUME NEW g \in Openers, NEW w \in Uuids, NEW o \in Odbs, Load(g, w, o), PoolOpen(g)
      PROVE  Calm(u)
  <2>1. dbs[u] # o BY <1>1 DEF Load
  <2>2. Unsent(u) => Unsent(u)' BY <1>1 DEF Load, Unsent
  <2> QED BY <1>1, <2>1, <2>2, CalmSilent DEF Load, PoolOpen
<1>2. ASSUME NEW g \in Openers, PoolOpen(g), Publish(g), owner[opening[g]] # u
      PROVE  Calm(u)
  <2>1. dbs'[u] = dbs[u] BY <1>2 DEF Publish
  <2>2. Unsent(u) => Unsent(u)' BY <1>2 DEF Publish, Unsent
  <2>3. UNCHANGED <<chan, open, missed, dropped, late, handling>> BY <1>2 DEF Publish, PoolOpen
  <2> QED BY <2>1, <2>2, <2>3 DEF Calm, After, InChannel, Ev
<1>3. ASSUME NEW g \in Openers, PoolSendUnlocked(g), owner[opening[g]] # u
      PROVE  Calm(u)
  <2> DEFINE e == [type |-> "Unlocked", uuid |-> owner[opening[g]]]
  <2>1. e \in Event /\ e.uuid # u BY <1>3 DEF PoolSendUnlocked, SendUnlocked, Event
  <2>2. TrySend(e) BY <1>3 DEF PoolSendUnlocked, SendUnlocked
  <2>3. Unsent(u) => Unsent(u)' BY <1>3 DEF PoolSendUnlocked, SendUnlocked, Unsent
  <2>4. /\ UNCHANGED <<dbs, open, handling, dropped>>
        /\ (u \in missed' <=> u \in missed) /\ (u \in late' <=> u \in late)
    BY <1>3 DEF PoolSendUnlocked, SendUnlocked
  <2> HIDE DEF e
  <2> QED BY <2>1, <2>2, <2>3, <2>4, CalmSend
<1>4. ASSUME NEW w \in Uuids, PoolLock(w), w # u PROVE Calm(u)
  <2> DEFINE e == [type |-> "Locked", uuid |-> w]
  <2>1. e \in Event /\ e.uuid # u BY <1>4 DEF Event
  <2>2. TrySend(e) BY <1>4 DEF PoolLock, Lock
  <2>3. Unsent(u) => Unsent(u)' BY <1>4 DEF PoolLock, Lock, Unsent
  <2>4. dbs[u] \in open' <=> dbs[u] \in open BY <1>4 DEF PoolLock, Lock
  <2>5. UNCHANGED <<dbs, handling, missed>> BY <1>4 DEF PoolLock, Lock
  <2>6. (u \in dropped' <=> u \in dropped) /\ (u \in late' <=> u \in late)
    BY <1>4 DEF PoolLock
  <2> HIDE DEF e
  <2> QED BY <2>1, <2>2, <2>3, <2>4, <2>5, <2>6, CalmSend
<1>5. ASSUME NEW o \in Odbs, PoolReload(o) PROVE Calm(u)
  <2> DEFINE e == [type |-> "Reloaded", uuid |-> owner[o]]
  <2>1. e \in Event /\ e.type = "Reloaded" BY <1>5 DEF PoolReload, Reload, Event
  <2>2. TrySend(e) BY <1>5 DEF PoolReload, Reload, TrySend
  <2>3. Unsent(u) => Unsent(u)' BY <1>5 DEF PoolReload, Reload, Unsent
  <2>4. UNCHANGED <<dbs, open, handling, missed, dropped, late>> BY <1>5 DEF PoolReload, Reload
  <2> HIDE DEF e
  <2> QED BY <2>1, <2>2, <2>3, <2>4, CalmSend
<1>6. CASE TakeEvent
  <2>1. \A f \in Event : InChannel(f) => f = Head(chan) \/ InChannel(f)'
    BY <1>6, ReceiveKeeps DEF TakeEvent
  <2>2. \A t \in Kinds : InChannel(Ev(t, u)) => InChannel(Ev(t, u))' \/ handling' = Ev(t, u)
    BY <1>6, <2>1, EvFacts DEF TakeEvent, Ev
  <2>3. Unsent(u) => Unsent(u)' BY <1>6 DEF TakeEvent, Receive, Unsent
  <2>4. After("Locked", "Unlocked", u) => After("Locked", "Unlocked", u)'
    BY <1>6, AfterTake DEF Kinds
  <2>5. After("Unlocked", "Locked", u) => After("Unlocked", "Locked", u)'
    BY <1>6, AfterTake DEF Kinds
  <2>6. stage' = "secret" /\ UNCHANGED <<dbs, open, missed, dropped, late>>
    BY <1>6 DEF TakeEvent, Receive
  <2> QED BY <1>6, <2>2, <2>3, <2>4, <2>5, <2>6 DEF Calm
<1>7. ASSUME UNCHANGED <<poolVars, missed, dropped, late>>, handling' \in {handling, None}
      PROVE  Calm(u)
  BY <1>7, CalmSilent DEF Unsent
<1>8. CASE HandleSecret \/ ExtractKeys \/ AddKeys \/ RemoveKeys
  <2>1. UNCHANGED <<poolVars, missed, dropped, late>> /\ handling' \in {handling, None}
    BY <1>8 DEF HandleSecret, ExtractKeys, AddKeys, RemoveKeys, EventDone
  <2> QED BY <1>7, <2>1
<1>9. CASE Export \/ (\E p \in Paths : SetAlias(p)) \/ UNCHANGED vars
  BY <1>7, <1>9 DEF Export, SetAlias, vars
<1>10. CASE handleRemoveAllIdentities \/ \E k \in Keys : handleRemoveIdentity(k)
  BY <1>7, <1>10 DEF handleRemoveAllIdentities, handleRemoveIdentity, Forgotten
<1> QED BY <1>1, <1>2, <1>3, <1>4, <1>5, <1>6, <1>8, <1>9, <1>10
        DEF Next, LoopStep, PoolOpen

\* What the pool's steps do for the database they are about.
LEMMA PoolTells ==
  ASSUME TypeOK, OpenInv, NEW u \in Uuids
  PROVE  /\ \A g \in Openers : PoolOpen(g) /\ Publish(g) /\ owner[opening[g]] = u =>
              Unsent(u)' /\ dbs'[u] \in Odbs
         /\ \A g \in Openers : PoolSendUnlocked(g) /\ owner[opening[g]] = u =>
              /\ dbs' = dbs /\ open' = open /\ dropped' = dropped
              /\ u \in missed' \/ (InChannel(Ev("Unlocked", u))' /\ After("Locked", "Unlocked", u)')
              /\ dbs[u] \notin open => u \in late'
         /\ PoolLock(u) =>
              /\ dbs' = dbs /\ dbs[u] \notin open'
              /\ u \in dropped' \/ (InChannel(Ev("Locked", u))' /\ After("Unlocked", "Locked", u)')
<1> USE EventConstants, ServiceConstants
    DEF TypeOK, OpenInv, poolVars, serviceVars, history
<1>1. ASSUME NEW g \in Openers, PoolOpen(g), Publish(g), owner[opening[g]] = u
      PROVE  Unsent(u)' /\ dbs'[u] \in Odbs
  BY <1>1 DEF Publish, Unsent
<1>2. ASSUME NEW g \in Openers, PoolSendUnlocked(g), owner[opening[g]] = u
      PROVE  /\ dbs' = dbs /\ open' = open /\ dropped' = dropped
             /\ u \in missed' \/ (InChannel(Ev("Unlocked", u))' /\ After("Locked", "Unlocked", u)')
             /\ dbs[u] \notin open => u \in late'
  <2>1. TrySend(Ev("Unlocked", u)) /\ UNCHANGED handling
    BY <1>2 DEF PoolSendUnlocked, SendUnlocked, Ev
  <2>2. Ev("Unlocked", u) \in Event BY EvFacts DEF Kinds
  <2>3. ~Full => InChannel(Ev("Unlocked", u))' /\ After("Locked", "Unlocked", u)'
    <3>1. Len(chan) < ChanCap => InChannel(Ev("Unlocked", u))'
      BY <2>1, <2>2, SendKeeps DEF Ev
    <3>2. ~Full => After("Locked", "Unlocked", u)' BY <2>1, <2>2, AfterSend DEF Kinds
    <3> QED BY <3>1, <3>2 DEF Full
  <2> QED BY <1>2, <2>3 DEF PoolSendUnlocked, SendUnlocked
<1>3. ASSUME PoolLock(u)
      PROVE  /\ dbs' = dbs /\ dbs[u] \notin open'
             /\ u \in dropped' \/ (InChannel(Ev("Locked", u))' /\ After("Unlocked", "Locked", u)')
  <2>1. TrySend(Ev("Locked", u)) /\ UNCHANGED handling BY <1>3 DEF PoolLock, Lock, Ev
  <2>2. Ev("Locked", u) \in Event BY EvFacts DEF Kinds
  <2>3. ~Full => InChannel(Ev("Locked", u))' /\ After("Unlocked", "Locked", u)'
    <3>1. Len(chan) < ChanCap => InChannel(Ev("Locked", u))'
      BY <2>1, <2>2, SendKeeps DEF Ev
    <3>2. ~Full => After("Unlocked", "Locked", u)' BY <2>1, <2>2, AfterSend DEF Kinds
    <3> QED BY <3>1, <3>2 DEF Full
  <2> QED BY <1>3, <2>3 DEF PoolLock, Lock
<1> QED BY <1>1, <1>2, <1>3

\* Every step keeps the order.
LEMMA OrderStep == TypeOK /\ OpenInv /\ OrderInv /\ [Next]_vars => OrderInv'
<1> SUFFICES ASSUME TypeOK, OpenInv, OrderInv, [Next]_vars, NEW u \in Uuids
             PROVE  (/\ dbs[u] \in open =>
                          Unsent(u) \/ u \in missed \/ After("Locked", "Unlocked", u)
                     /\ dbs[u] \in Odbs \ open =>
                          \/ Unsent(u) \/ u \in dropped \cup missed \cup late
                          \/ After("Unlocked", "Locked", u))'
  BY DEF OrderInv
<1>1. CASE Calm(u) BY <1>1 DEF Calm, OrderInv
<1>2. CASE \E g \in Openers : PoolOpen(g) /\ Publish(g) /\ owner[opening[g]] = u
  BY <1>2, PoolTells
<1>3. CASE \E g \in Openers : PoolSendUnlocked(g) /\ owner[opening[g]] = u
  BY <1>3, PoolTells
<1>4. CASE PoolLock(u) BY <1>4, PoolTells
<1> QED BY <1>1, <1>2, <1>3, <1>4, StepsOf

-----------------------------------------------------------------------------
(* An unlocked database is served *)

\* Its identities are in the agent, but for those shared or taken by a client.
KeysIn(u) ==
  \A k \in KeysOf[u] \ taken : keys[k] = u \/ \E v \in Uuids \ {u} : k \in KeysOf[v]

\* The services have yet to hear of it, or will not.
Untold(u) == InChannel(Ev("Unlocked", u)) \/ Unsent(u) \/ u \in missed

\* Keys about to be added are those of the object in the map, unless another one
\* was opened since and its event follows.
AddInv ==
  stage = "add" =>
    /\ got = KeysOf[handling.uuid]
    /\ dbs[handling.uuid] \in open =>
         from = dbs[handling.uuid] \/ Untold(handling.uuid)

\* The property in these terms.
LEMMA ServedIs ==
  KeysServed <=> \A u \in Uuids : dbs[u] \in open =>
                   KeysIn(u) \/ handling = Ev("Unlocked", u) \/ Untold(u)
BY DEF KeysServed, KeysIn, Untold, Pending, Ev

LEMMA ServedIsNext ==
  KeysServed' <=> \A u \in Uuids : dbs'[u] \in open' =>
                    KeysIn(u)' \/ handling' = Ev("Unlocked", u) \/ Untold(u)'
BY DEF KeysServed, KeysIn, Untold, Pending, Ev

\* A database that is not told about stays so or its event is taken.
LEMMA UntoldKept ==
  ASSUME TypeOK, OpenInv, [Next]_vars, NEW u \in Uuids, dbs'[u] \in open'
  PROVE  \/ Untold(u)'
         \/ /\ dbs'[u] = dbs[u] /\ dbs[u] \in open
            /\ Untold(u) => TakeEvent /\ handling' = Ev("Unlocked", u) /\ stage' = "secret"
<1>1. CASE Calm(u)
  <2>1. dbs'[u] = dbs[u] /\ dbs[u] \in open BY <1>1 DEF Calm
  <2>2. Untold(u) => \/ Untold(u)'
                     \/ TakeEvent /\ handling' = Ev("Unlocked", u) /\ stage' = "secret"
    BY <1>1 DEF Calm, Untold, Kinds, Ev
  <2> QED BY <2>1, <2>2
<1>2. CASE \E g \in Openers : PoolOpen(g) /\ Publish(g) /\ owner[opening[g]] = u
  BY <1>2, PoolTells DEF Untold
<1>3. CASE \E g \in Openers : PoolSendUnlocked(g) /\ owner[opening[g]] = u
  BY <1>3, PoolTells DEF Untold, Ev
<1>4. CASE PoolLock(u) BY <1>4, PoolTells
<1> QED BY <1>1, <1>2, <1>3, <1>4, StepsOf

\* Every step keeps unlocked databases served.
LEMMA ServeStep ==
  TypeOK /\ OpenInv /\ KeyInv /\ OrderInv /\ AddInv /\ KeysServed /\ [Next]_vars
    => AddInv' /\ KeysServed'
<1> SUFFICES ASSUME TypeOK, OpenInv, KeyInv, OrderInv, AddInv, KeysServed, [Next]_vars
             PROVE  AddInv' /\ KeysServed'
  OBVIOUS
<1>0. \A u \in Uuids : dbs[u] \in open =>
        KeysIn(u) \/ handling = Ev("Unlocked", u) \/ Untold(u)
  BY ServedIs
\* Steps that leave the agent and the event in hand alone, or take an event.
<1>1. ASSUME UNCHANGED <<keys, taken>>, handling' = handling \/ handling = None
      PROVE  KeysServed'
  <2>1. ASSUME NEW u \in Uuids, dbs'[u] \in open'
        PROVE  KeysIn(u)' \/ handling' = Ev("Unlocked", u) \/ Untold(u)'
    <3>1. CASE Untold(u)' BY <3>1
    <3>2. CASE ~Untold(u)'
      <4>1. /\ dbs'[u] = dbs[u] /\ dbs[u] \in open
            /\ Untold(u) => handling' = Ev("Unlocked", u)
        BY <2>1, <3>2, UntoldKept
      <4>2. Ev("Unlocked", u) # None BY EvFacts DEF Kinds
      <4>3. KeysIn(u) => KeysIn(u)' BY <1>1 DEF KeysIn
      <4> QED BY <1>0, <1>1, <4>1, <4>2, <4>3
    <3> QED BY <3>1, <3>2
  <2> QED BY <2>1, ServedIsNext
<1>2. ASSUME UNCHANGED <<handling, stage, got, from>> PROVE AddInv'
  <2>1. SUFFICES ASSUME stage = "add" PROVE AddInv' BY <1>2 DEF AddInv
  <2>2. handling \in Event /\ handling # None /\ handling.uuid \in Uuids
    BY <2>1, ServiceConstants DEF KeyInv, TypeOK, Event
  <2>3. ~TakeEvent BY <2>2 DEF TakeEvent
  <2>4. PICK u \in Uuids : handling.uuid = u BY <2>2
  <2>5. dbs'[u] \in open' => from = dbs'[u] \/ Untold(u)'
    BY <2>1, <2>3, <2>4, UntoldKept DEF AddInv
  <2>6. got = KeysOf[u] BY <2>1, <2>4 DEF AddInv
  <2> QED BY <1>2, <2>4, <2>5, <2>6 DEF AddInv, Untold, InChannel, Unsent
\* Within the event loop nothing else changes.
<1>3. ASSUME UNCHANGED <<poolVars, missed>>, NEW u \in Uuids
      PROVE  dbs'[u] = dbs[u] /\ open' = open /\ (Untold(u) <=> Untold(u)')
  BY <1>3 DEF poolVars, Untold, InChannel, Unsent, Ev
<1> USE DEF serviceVars, history
<1>4. ASSUME NEW g \in Openers, PoolOpen(g) \/ PoolSendUnlocked(g) PROVE AddInv' /\ KeysServed'
  BY <1>1, <1>2, <1>4 DEF PoolOpen, PoolSendUnlocked
<1>5. ASSUME NEW u \in Uuids, PoolLock(u) PROVE AddInv' /\ KeysServed'
  BY <1>1, <1>2, <1>5 DEF PoolLock
<1>6. ASSUME NEW o \in Odbs, PoolReload(o) PROVE AddInv' /\ KeysServed'
  BY <1>1, <1>2, <1>6 DEF PoolReload
<1>7. CASE Export \/ (\E p \in Paths : SetAlias(p)) \/ UNCHANGED vars
  BY <1>1, <1>2, <1>7 DEF Export, SetAlias, vars
<1>8. CASE TakeEvent
  <2>1. KeysServed' BY <1>1, <1>8 DEF TakeEvent
  <2>2. AddInv' BY <1>8 DEF TakeEvent, AddInv
  <2> QED BY <2>1, <2>2
<1>9. CASE HandleSecret
  <2>1. UNCHANGED <<poolVars, missed, keys, taken>> /\ stage' # "add"
    BY <1>9 DEF HandleSecret, EventDone
  <2>2. AddInv' BY <2>1 DEF AddInv
  <2>3. \A u \in Uuids : handling = Ev("Unlocked", u) => handling' = Ev("Unlocked", u)
    BY <1>9 DEF HandleSecret, Ev
  <2>4. \A u \in Uuids : KeysIn(u) => KeysIn(u)' BY <2>1 DEF KeysIn
  <2>5. KeysServed' BY <1>0, <1>3, <2>1, <2>3, <2>4, ServedIsNext
  <2> QED BY <2>2, <2>5
<1>10. CASE ExtractKeys
  <2>1. UNCHANGED <<poolVars, missed, keys, taken>> BY <1>10 DEF ExtractKeys
  <2>2. handling \in Event /\ handling.uuid \in Uuids
    BY <1>10 DEF ExtractKeys, Event, TypeOK
  <2>3. AddInv' BY <1>10, <2>1 DEF ExtractKeys, EventDone, AddInv, poolVars
  <2>4. \A u \in Uuids : handling = Ev("Unlocked", u) /\ dbs[u] \in open =>
          handling' = Ev("Unlocked", u)
    BY <1>10, <2>2 DEF ExtractKeys, Ev
  <2>5. \A u \in Uuids : KeysIn(u) => KeysIn(u)' BY <2>1 DEF KeysIn
  <2>6. KeysServed' BY <1>0, <1>3, <2>1, <2>4, <2>5, ServedIsNext
  <2> QED BY <2>3, <2>6
<1>11. CASE AddKeys
  <2>1. UNCHANGED <<poolVars, missed>> /\ handling' = None /\ stage' = "none" /\ stage = "add"
    BY <1>11 DEF AddKeys, EventDone
  <2>2. AddInv' BY <2>1 DEF AddInv
  <2>3. handling \in Event /\ handling.uuid \in Uuids /\ got = KeysOf[handling.uuid]
    BY <1>11 DEF AddKeys, Event, TypeOK, AddInv
  <2>4. PICK ks \in SUBSET got : /\ from \in open => ks = got
                                 /\ keys' = Added(ks, handling.uuid) /\ taken' = taken \ ks
    BY <1>11 DEF AddKeys
  <2>5. ks \subseteq KeysOf[handling.uuid] /\ KeysOf[handling.uuid] \subseteq Keys
    BY <2>3, <2>4, ServiceConstants
  <2>6. ASSUME NEW u \in Uuids, dbs'[u] \in open' PROVE KeysIn(u)' \/ Untold(u)'
    <3>1. dbs'[u] = dbs[u] /\ open' = open /\ (Untold(u) <=> Untold(u)') BY <1>3, <2>1
    <3>2. CASE u = handling.uuid
      <4>1. Untold(u) \/ from \in open BY <2>1, <2>6, <3>1, <3>2 DEF AddInv
      <4>2. ks = KeysOf[u] => KeysIn(u)' BY <2>4, <2>5, <3>2 DEF KeysIn, Added
      <4> QED BY <2>3, <2>4, <3>1, <3>2, <4>1, <4>2
    <3>3. CASE u # handling.uuid
      <4>1. handling # Ev("Unlocked", u) BY <3>3 DEF Ev
      <4>2. ASSUME KeysIn(u), NEW k \in KeysOf[u] \ taken'
            PROVE  keys'[k] = u \/ \E v \in Uuids \ {u} : k \in KeysOf[v]
        <5>1. CASE k \in ks BY <2>3, <2>5, <3>3, <5>1
        <5>2. CASE k \notin ks
          <6>1. k \in Keys BY ServiceConstants
          <6>2. keys'[k] = keys[k] /\ k \notin taken BY <2>4, <4>2, <5>2, <6>1 DEF Added
          <6> QED BY <4>2, <6>2 DEF KeysIn
        <5> QED BY <5>1, <5>2
      <4>3. KeysIn(u) => KeysIn(u)' BY <4>2 DEF KeysIn
      <4> QED BY <1>0, <2>6, <3>1, <4>1, <4>3
    <3> QED BY <3>2, <3>3
  <2>7. KeysServed' BY <2>6, ServedIsNext
  <2> QED BY <2>2, <2>7
<1>12. CASE RemoveKeys
  <2>1. /\ UNCHANGED <<poolVars, missed, taken>> /\ handling' = None /\ stage' = "none"
        /\ handling \in Event /\ handling.type = "Locked" /\ handling.uuid \in Uuids
    BY <1>12 DEF RemoveKeys, EventDone, Event, TypeOK
  <2>2. AddInv' BY <2>1 DEF AddInv
  <2>3. ASSUME NEW u \in Uuids, dbs'[u] \in open' PROVE KeysIn(u)' \/ Untold(u)'
    <3>1. dbs'[u] = dbs[u] /\ open' = open /\ (Untold(u) <=> Untold(u)') BY <1>3, <2>1
    <3>2. CASE u = handling.uuid
      <4>1. handling = Ev("Locked", u) BY <2>1, <3>2, EvFacts DEF Kinds
      <4>2. Untold(u) BY <2>3, <3>1, <4>1 DEF OrderInv, After, Untold
      <4> QED BY <3>1, <4>2
    <3>3. CASE u # handling.uuid
      <4>1. handling # Ev("Unlocked", u) BY <2>1 DEF Ev
      <4>2. \A k \in Keys : keys[k] = u => keys'[k] = u
        BY <1>12, <3>3 DEF RemoveKeys, Removed
      <4>3. KeysIn(u) => KeysIn(u)' BY <2>1, <4>2, ServiceConstants DEF KeysIn
      <4> QED BY <1>0, <2>3, <3>1, <4>1, <4>3
    <3> QED BY <3>2, <3>3
  <2>4. KeysServed' BY <2>3, ServedIsNext
  <2> QED BY <2>2, <2>4
<1>13. ASSUME NEW ks \in SUBSET Keys, Forgotten(ks) PROVE AddInv' /\ KeysServed'
  <2>1. UNCHANGED <<poolVars, missed, handling, stage, got, from>> BY <1>13 DEF Forgotten
  <2>2. AddInv' BY <1>2, <2>1
  <2>3. \A u \in Uuids : KeysIn(u) => KeysIn(u)'
    BY <1>13, ServiceConstants DEF Forgotten, KeysIn
  <2>4. KeysServed' BY <1>0, <1>3, <2>1, <2>3, ServedIsNext
  <2> QED BY <2>2, <2>4
<1>14. ASSUME NEW k \in Keys, handleRemoveIdentity(k) PROVE AddInv' /\ KeysServed'
  BY <1>13, <1>14 DEF handleRemoveIdentity
<1>15. CASE handleRemoveAllIdentities
  BY <1>13, <1>15 DEF handleRemoveAllIdentities, ListIdentities
<1> QED BY <1>4, <1>5, <1>6, <1>7, <1>8, <1>9, <1>10, <1>11, <1>12, <1>14, <1>15
        DEF Next, LoopStep

-----------------------------------------------------------------------------
(* Collections *)

\* An event that the Secret Service has not handled.
Coming(t, u) ==
  InChannel(Ev(t, u)) \/ (handling = Ev(t, u) /\ stage = "secret")

Alone(u) == \A v \in Uuids \ {u} : PathOf[v] # PathOf[u]

\* Why the collection of an object of u may still be there.
Expected(o, u) ==
  /\ dbs[u] \in Odbs
  /\ \/ o = dbs[u] /\ o \in open
     \/ Coming("Locked", u) \/ Coming("Unlocked", u) \/ Unsent(u)
     \/ u \in dropped \cup missed \cup late

\* Each collection is at the path of its database.
CollInv ==
  /\ \A u \in Uuids : dbs[u] \in open /\ Alone(u) =>
       collections[PathOf[u]] = dbs[u] \/ Coming("Unlocked", u) \/ Untold(u)
  /\ \A p \in Paths : collections[p] # None =>
       /\ owner[collections[p]] \in Uuids /\ PathOf[owner[collections[p]]] = p
       /\ Expected(collections[p], owner[collections[p]])

\* What was expected stays expected until the Secret Service handles an event.
LEMMA ExpectedKept ==
  ASSUME TypeOK, OpenInv, KeyInv, [Next]_vars, ~HandleSecret,
         NEW o \in Odbs, NEW u \in Uuids, Expected(o, u)
  PROVE  Expected(o, u)'
<1>1. CASE Calm(u)
  <2>1. ASSUME NEW t \in Kinds, Coming(t, u) PROVE Coming(t, u)'
    <3>1. CASE InChannel(Ev(t, u)) BY <1>1, <3>1 DEF Calm, Coming, Ev
    <3>2. CASE handling = Ev(t, u) /\ stage = "secret"
      <4>1. handling # None BY <3>2, EvFacts
      <4>2. UNCHANGED <<handling, stage>>
        BY <3>2, <4>1 DEF Next, LoopStep, PoolOpen, PoolSendUnlocked, PoolLock, PoolReload,
           SetAlias, handleRemoveIdentity, handleRemoveAllIdentities, Forgotten, Export,
           TakeEvent, ExtractKeys, AddKeys, RemoveKeys, serviceVars, vars
      <4> QED BY <3>2, <4>2 DEF Coming, Ev
    <3> QED BY <2>1, <3>1, <3>2 DEF Coming
  <2>2. \A t \in Kinds : Coming(t, u) => Coming(t, u)' BY <2>1
  <2> QED BY <1>1, <2>2 DEF Calm, Expected, Kinds
<1>2. CASE \E g \in Openers : PoolOpen(g) /\ Publish(g) /\ owner[opening[g]] = u
  BY <1>2, PoolTells DEF Expected
<1>3. CASE \E g \in Openers : PoolSendUnlocked(g) /\ owner[opening[g]] = u
  <2>1. (u \in missed' \/ InChannel(Ev("Unlocked", u))') /\ dbs' = dbs BY <1>3, PoolTells
  <2> QED BY <2>1 DEF Expected, Coming, Ev
<1>4. CASE PoolLock(u)
  <2>1. (u \in dropped' \/ InChannel(Ev("Locked", u))') /\ dbs' = dbs BY <1>4, PoolTells
  <2> QED BY <2>1 DEF Expected, Coming, Ev
<1> QED BY <1>1, <1>2, <1>3, <1>4, StepsOf

\* Objects keep their database.
LEMMA OwnerKept ==
  ASSUME TypeOK, [Next]_vars, NEW o \in Odbs, owner[o] \in Uuids
  PROVE  owner'[o] = owner[o]
<1>1. PoolStep \/ owner' = owner BY PoolOrService
<1> QED
  BY <1>1, EventConstants
  DEF PoolStep, Load, Publish, SendUnlocked, Lock, Reload, TypeOK

\* Every step keeps the collections.
LEMMA CollStep ==
  TypeOK /\ TypeOK' /\ OpenInv /\ KeyInv /\ OrderInv /\ CollInv /\ [Next]_vars => CollInv'
<1> SUFFICES ASSUME TypeOK, TypeOK', OpenInv, KeyInv, OrderInv, CollInv, [Next]_vars
             PROVE  CollInv'
  OBVIOUS
<1> USE EventConstants, ServiceConstants
\* Steps outside of the Secret Service.
<1>1. ASSUME UNCHANGED collections, ~HandleSecret PROVE CollInv'
  <2>1. ASSUME NEW u \in Uuids, dbs'[u] \in open', Alone(u)
        PROVE  collections'[PathOf[u]] = dbs'[u] \/ Coming("Unlocked", u)' \/ Untold(u)'
    <3>1. CASE Untold(u)' BY <3>1
    <3>2. CASE ~Untold(u)'
      <4>1. /\ dbs'[u] = dbs[u] /\ dbs[u] \in open
            /\ Untold(u) => handling' = Ev("Unlocked", u) /\ stage' = "secret"
        BY <2>1, <3>2, UntoldKept
      <4>2. handling = Ev("Unlocked", u) /\ stage = "secret" => Coming("Unlocked", u)'
        <5>1. SUFFICES ASSUME handling = Ev("Unlocked", u), stage = "secret"
                       PROVE  UNCHANGED <<handling, stage>>
          BY DEF Coming, Ev
        <5>2. handling # None BY <5>1, EvFacts DEF Kinds
        <5> QED
          BY <1>1, <5>1, <5>2
          DEF Next, LoopStep, PoolOpen, PoolSendUnlocked, PoolLock, PoolReload,
             SetAlias, handleRemoveIdentity, handleRemoveAllIdentities, Forgotten, Export,
             TakeEvent, ExtractKeys, AddKeys, RemoveKeys, serviceVars, vars
      <4>3. collections[PathOf[u]] = dbs[u] \/ Coming("Unlocked", u) \/ Untold(u)
        BY <2>1, <4>1 DEF CollInv
      <4>4. Coming("Unlocked", u) => Untold(u) \/ (handling = Ev("Unlocked", u) /\ stage = "secret")
        BY DEF Coming, Untold
      <4> QED BY <1>1, <4>1, <4>2, <4>3, <4>4 DEF Coming, Ev
    <3> QED BY <3>1, <3>2
  <2>2. ASSUME NEW p \in Paths, collections'[p] # None
        PROVE  (/\ owner[collections[p]] \in Uuids /\ PathOf[owner[collections[p]]] = p
                /\ Expected(collections[p], owner[collections[p]]))'
    <3>1. PICK o \in Odbs : collections[p] = o BY <1>1, <2>2 DEF TypeOK
    <3>2. PICK u \in Uuids : owner[o] = u BY <1>1, <2>2, <3>1 DEF CollInv
    <3>3. PathOf[u] = p /\ Expected(o, u) BY <1>1, <2>2, <3>1, <3>2 DEF CollInv
    <3>4. owner'[o] = u /\ collections'[p] = o BY <1>1, <3>1, <3>2, OwnerKept
    <3>5. Expected(o, u)' BY <1>1, <3>3, ExpectedKept
    <3> QED BY <3>3, <3>4, <3>5 DEF Expected, Coming, InChannel, Ev, Unsent
  <2> QED BY <2>1, <2>2 DEF CollInv, Alone
<1>2. CASE Export
  <2>1. /\ UNCHANGED <<dbs, owner, open>>
        /\ \A p \in Paths :
             LET At == {o \in {dbs[u] : u \in Uuids} \cap open : PathOf[owner[o]] = p}
             IN  collections'[p] \in IF At = {} THEN {None} ELSE At
    BY <1>2 DEF Export, poolVars
  <2>2. ASSUME NEW u \in Uuids, dbs[u] \in open, Alone(u)
        PROVE  collections'[PathOf[u]] = dbs[u]
    <3> DEFINE At == {o \in {dbs[v] : v \in Uuids} \cap open : PathOf[owner[o]] = PathOf[u]}
    <3>1. owner[dbs[u]] = u /\ PathOf[u] \in Paths BY <2>2 DEF OpenInv, TypeOK
    <3>2. dbs[u] \in At BY <2>2, <3>1
    <3>3. collections'[PathOf[u]] \in At BY <2>1, <3>1, <3>2
    <3>4. ASSUME NEW o \in At PROVE o = dbs[u]
      <4>1. PICK v \in Uuids : o = dbs[v] BY <3>4
      <4>2. owner[o] = v BY <3>4, <4>1 DEF OpenInv, TypeOK
      <4>3. v = u BY <2>2, <3>4, <4>2 DEF Alone
      <4> QED BY <4>1, <4>3
    <3> QED BY <3>3, <3>4
  <2>3. ASSUME NEW p \in Paths, collections'[p] # None
        PROVE  \E u \in Uuids : /\ collections'[p] = dbs[u] /\ dbs[u] \in open
                                /\ owner[dbs[u]] = u /\ PathOf[u] = p
    <3>1. /\ collections'[p] \in {dbs[v] : v \in Uuids} \cap open
          /\ PathOf[owner[collections'[p]]] = p
      BY <2>1, <2>3
    <3>2. PICK u \in Uuids : collections'[p] = dbs[u] BY <3>1
    <3>3. owner[dbs[u]] = u BY <3>1, <3>2 DEF OpenInv, TypeOK
    <3> QED BY <3>1, <3>2, <3>3
  <2> QED BY <2>1, <2>2, <2>3 DEF CollInv, Alone, Expected, TypeOK
<1>3. CASE HandleSecret
  <2>0. PICK u \in Uuids : handling.uuid = u
    BY <1>3 DEF HandleSecret, TypeOK, Event
  <2>1. /\ UNCHANGED <<dbs, owner, open, chan, opening, published, dropped, missed, late>>
        /\ handling \in Event /\ stage = "secret" /\ stage' # "secret"
    BY <1>3 DEF HandleSecret, poolVars, history, EventDone, TypeOK
  <2>2. \A v \in Uuids : Untold(v) <=> Untold(v)' BY <2>1 DEF Untold, InChannel, Unsent, Ev
  <2>3. \A v \in Uuids, t \in Kinds : Coming(t, v) /\ (v # u \/ handling.type # t) =>
          InChannel(Ev(t, v))
    BY <2>0 DEF Coming, Ev
  <2>4. \A v \in Uuids, t \in Kinds : InChannel(Ev(t, v)) => InChannel(Ev(t, v))' /\ Coming(t, v)'
    BY <2>1 DEF Coming, InChannel, Ev
  <2>5. \A v \in Uuids \ {u}, o \in Odbs : Expected(o, v) => Expected(o, v)'
    <3>1. ASSUME NEW v \in Uuids \ {u} PROVE \A t \in Kinds : Coming(t, v) => Coming(t, v)'
      BY <2>3, <2>4
    <3> QED BY <2>1, <3>1 DEF Expected, Kinds, Unsent
  <2>6. ASSUME NEW v \in Uuids \ {u}, dbs[v] \in open, Alone(v)
        PROVE  collections[PathOf[v]] = dbs[v] \/ Untold(v)'
    BY <2>2, <2>3, <2>6 DEF CollInv, Untold, Kinds
  <2>7. ASSUME NEW p \in Paths, collections[p] # None
        PROVE  \E v \in Uuids : /\ owner[collections[p]] = v /\ PathOf[v] = p
                                /\ collections[p] \in Odbs
                                /\ Expected(collections[p], v)
    BY <2>7 DEF CollInv, TypeOK
  <2>8. CASE createCollection(dbs[u]) /\ dbs[u] # None
             /\ (handling.type = "Unlocked" \/ dbs[u] \in open)
    <3>1. dbs[u] \in Odbs /\ owner[dbs[u]] = u /\ PathOf[u] \in Paths
      BY <2>8 DEF TypeOK, OpenInv
    <3>2. collections' = [collections EXCEPT ![PathOf[u]] = dbs[u]]
      BY <2>8, <3>1 DEF createCollection
    <3>3. /\ collections'[PathOf[u]] = dbs[u]
          /\ \A p \in Paths \ {PathOf[u]} : collections'[p] = collections[p]
      BY <3>1, <3>2 DEF TypeOK
    <3>4. ASSUME NEW v \in Uuids, dbs'[v] \in open', Alone(v)
          PROVE  collections'[PathOf[v]] = dbs'[v] \/ Coming("Unlocked", v)' \/ Untold(v)'
      <4>1. CASE v = u BY <2>1, <3>3, <4>1
      <4>2. CASE v # u
        <5>1. PathOf[v] \in Paths \ {PathOf[u]} BY <3>4, <4>2 DEF Alone
        <5> QED BY <2>1, <2>6, <3>3, <3>4, <4>2, <5>1
      <4> QED BY <4>1, <4>2
    <3>5. Expected(dbs[u], u)'
      <4>1. CASE dbs[u] \in open BY <2>1, <3>1, <4>1 DEF Expected
      <4>2. CASE dbs[u] \notin open
        <5>1. handling = Ev("Unlocked", u) BY <2>0, <2>1, <2>8, <4>2, EvFacts DEF Kinds
        <5>2. \/ Unsent(u) \/ u \in dropped \cup missed \cup late
              \/ InChannel(Ev("Locked", u))
          BY <3>1, <4>2, <5>1 DEF OrderInv, After
        <5>3. InChannel(Ev("Locked", u)) => Coming("Locked", u)' BY <2>4 DEF Kinds
        <5> QED BY <2>1, <3>1, <5>2, <5>3 DEF Expected, Unsent
      <4> QED BY <4>1, <4>2
    <3>6. ASSUME NEW p \in Paths, collections'[p] # None
          PROVE  (/\ owner[collections[p]] \in Uuids /\ PathOf[owner[collections[p]]] = p
                  /\ Expected(collections[p], owner[collections[p]]))'
      <4>1. PICK o \in Odbs : collections'[p] = o BY <3>6 DEF TypeOK
      <4>2. PICK v \in Uuids : owner[o] = v /\ PathOf[v] = p /\ Expected(o, v)'
        <5>1. CASE p = PathOf[u]
          BY <2>1, <3>1, <3>3, <3>5, <4>1, <5>1
          DEF Expected, Coming, InChannel, Ev, Unsent
        <5>2. CASE p # PathOf[u]
          <6>1. collections[p] = o BY <3>3, <4>1, <5>2
          <6>2. PICK v \in Uuids : owner[o] = v /\ PathOf[v] = p /\ Expected(o, v)
            BY <2>7, <3>6, <4>1, <6>1
          <6> QED BY <2>5, <5>2, <6>2
        <5> QED BY <5>1, <5>2
      <4>3. owner'[o] = v BY <2>1, <4>2
      <4> QED BY <4>1, <4>2, <4>3 DEF Expected, Coming, InChannel, Ev, Unsent
    <3> QED BY <3>4, <3>6 DEF CollInv, Alone
  <2>9. CASE /\ \/ onDatabaseLocked(u)
                \/ dbs[u] = None /\ UNCHANGED collections
             /\ dbs[u] \in open => handling.type = "Locked"
    <3>1. \A p \in Paths :
            \/ /\ collections'[p] = collections[p]
               /\ collections[p] # None => owner[collections[p]] # u
            \/ collections'[p] = None /\ collections[p] # None /\ owner[collections[p]] = u
      <4>1. CASE onDatabaseLocked(u) BY <4>1 DEF onDatabaseLocked, Without
      <4>2. CASE dbs[u] = None /\ UNCHANGED collections BY <2>7, <4>2 DEF Expected
      <4> QED BY <2>9, <4>1, <4>2
    <3>2. ASSUME NEW v \in Uuids, dbs'[v] \in open', Alone(v)
          PROVE  collections'[PathOf[v]] = dbs'[v] \/ Coming("Unlocked", v)' \/ Untold(v)'
      <4>1. CASE v = u
        <5>1. handling = Ev("Locked", u) BY <2>0, <2>1, <2>9, <3>2, <4>1, EvFacts DEF Kinds
        <5>2. Untold(u) BY <2>1, <3>2, <4>1, <5>1 DEF OrderInv, After, Untold
        <5> QED BY <2>2, <4>1, <5>2
      <4>2. CASE v # u
        <5>1. CASE Untold(v)' BY <5>1
        <5>2. CASE collections[PathOf[v]] = dbs[v]
          <6>1. dbs[v] \in Odbs /\ owner[dbs[v]] = v /\ PathOf[v] \in Paths
            BY <2>1, <3>2 DEF TypeOK, OpenInv
          <6> QED BY <2>1, <3>1, <4>2, <5>2, <6>1
        <5> QED BY <2>1, <2>6, <3>2, <4>2, <5>1, <5>2
      <4> QED BY <4>1, <4>2
    <3>3. ASSUME NEW p \in Paths, collections'[p] # None
          PROVE  (/\ owner[collections[p]] \in Uuids /\ PathOf[owner[collections[p]]] = p
                  /\ Expected(collections[p], owner[collections[p]]))'
      <4>1. PICK o \in Odbs : collections'[p] = o /\ collections[p] = o /\ owner[o] # u
        BY <3>1, <3>3 DEF TypeOK
      <4>2. PICK v \in Uuids : owner[o] = v /\ PathOf[v] = p /\ Expected(o, v)'
        BY <2>5, <2>7, <3>3, <4>1
      <4>3. owner'[o] = v BY <2>1, <4>2
      <4> QED BY <4>1, <4>2, <4>3 DEF Expected, Coming, InChannel, Ev, Unsent
    <3> QED BY <3>2, <3>3 DEF CollInv, Alone
  <2> QED BY <1>3, <2>0, <2>8, <2>9 DEF HandleSecret, onDatabaseUnlocked, onDatabaseReloaded, TypeOK
<1>4. CASE ~Export /\ ~HandleSecret
  <2>1. UNCHANGED collections
    BY <1>4 DEF Next, LoopStep, PoolOpen, PoolSendUnlocked, PoolLock, PoolReload,
       SetAlias, handleRemoveIdentity, handleRemoveAllIdentities, Forgotten,
       TakeEvent, ExtractKeys, AddKeys, RemoveKeys, serviceVars, vars
  <2> QED BY <1>1, <1>4, <2>1
<1> QED BY <1>2, <1>3, <1>4

\* The parts together are inductive.
LEMMA ServingInvariant ==
  Spec => [](TypeOK /\ OpenInv /\ KeyInv /\ OrderInv /\ AddInv /\ KeysServed /\ CollInv)
<1> DEFINE Inv == OrderInv /\ AddInv /\ KeysServed /\ CollInv
<1>1. Init => Inv
  BY EventConstants, ServiceConstants
  DEF Init, PoolInit, OrderInv, AddInv, KeysServed, CollInv
<1>2. (TypeOK /\ OpenInv /\ KeyInv) /\ (TypeOK /\ OpenInv /\ KeyInv)' /\ Inv /\ [Next]_vars
        => Inv'
  BY OrderStep, ServeStep, CollStep
<1> QED BY <1>1, <1>2, ServicesInvariant, PTL DEF Spec

\* An unlocked database has its identities in the agent or will have: whatever
\* Lock and Open race, and whatever order their events arrive in, the last
\* event handled for a database adds the keys of the object in the pool, and no
\* other database's Lock takes a key that is not shared; unless the channel was
\* full, or a client removed the key.  For any number of databases and Opens.
THEOREM UnlockedIsServed == Spec => []KeysServed
BY ServingInvariant, PTL

\* The collections are those of the unlocked databases: none of an object that
\* the pool has locked or replaced stays without an event that will remove it,
\* although the Secret Service looks the object up when it handles an event and
\* the pool may have moved on; unless an event was dropped or sent late.
THEOREM CollectionsAreThePools == Spec => []CollectionsFollowPool
<1>1. CollInv => CollectionsFollowPool
  <2> SUFFICES ASSUME CollInv PROVE CollectionsFollowPool OBVIOUS
  <2>1. \A u \in Uuids, t \in Kinds : Coming(t, u) => Pending(t, u)
    BY DEF Coming, Pending, Ev
  <2>2. \A u \in Uuids : Untold(u) => Pending("Unlocked", u) \/ Unsent(u) \/ u \in missed
    BY DEF Untold, Pending, Ev
  <2> QED BY <2>1, <2>2 DEF CollInv, Alone, Expected, CollectionsFollowPool, Kinds
<1> QED BY <1>1, ServingInvariant, PTL
=============================================================================
