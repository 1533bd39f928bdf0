------------------------------ MODULE Services ------------------------------
(***************************************************************************)
(* The services behind the event channel.  DaemonApp's event loop          *)
(* (internal/daemon/daemon.go) hands every pool event to the Secret        *)
(* Service (internal/secretservice/service.go), which keeps one collection *)
(* per unlocked database and the "default" alias, and to the SSH agent     *)
(* (internal/sshagent), which holds the identities of the unlocked         *)
(* databases.  Both learn of the pool by events only, and look the object  *)
(* up again when they handle one: the pool may have moved on.              *)
(***************************************************************************)
EXTENDS PoolEvents

CONSTANTS
  Paths,   \* D-Bus paths of collections
  PathOf,  \* PathOf[u]: path made from the file name of database u
  Keys,    \* fingerprints of SSH keys
  KeysOf   \* KeysOf[u]: keys with KeeAgent settings in database u

ASSUME ServiceConstants ==
  /\ PathOf \in [Uuids -> Paths]
  /\ KeysOf \in [Uuids -> SUBSET Keys]
  /\ None \notin Paths
  /\ None \notin Event

VARIABLES
  phase,        \* of Run: "boot" until the Secret Service is exported
  collections,  \* collections[p]: the object of the collection at p, or None
  aliases,      \* aliases["default"]: a path, or None
  aliasObj,     \* object of the collection exported at the alias path
  keys,         \* keys[k]: database the agent's identity k came from, or None
  handling,     \* the event being handled, or None
  stage,        \* the next handler for it
  got,          \* keys extracted from the database, not yet added
  from,         \* the object they are extracted from
  dropped,      \* history: databases whose last Locked event was dropped
  missed,       \* history: databases whose last Unlocked event was dropped
  taken,        \* history: keys a client removed since they were last added
  late          \* history: databases locked before their last Unlocked was sent

serviceVars == <<phase, collections, aliases, aliasObj, keys, handling, stage,
                 got, from>>
history == <<dropped, missed, late, taken>>
vars == <<poolVars, serviceVars, history>>

-----------------------------------------------------------------------------
(* The pool, as the services' environment *)

Full == Len(chan) >= ChanCap

PoolOpen(g) ==
  /\ (\E u \in Uuids, o \in Odbs : Load(g, u, o)) \/ Publish(g)
  /\ UNCHANGED <<serviceVars, history>>

PoolSendUnlocked(g) ==
  LET u == owner[opening[g]] IN
  /\ SendUnlocked(g)
  /\ missed' = IF Full THEN missed \cup {u} ELSE missed \ {u}
  /\ late' = IF dbs[u] \notin open THEN late \cup {u} ELSE late \ {u}
  /\ UNCHANGED <<serviceVars, dropped, taken>>

PoolLock(u) ==
  /\ Lock(u)
  /\ dropped' = IF Full THEN dropped \cup {u} ELSE dropped \ {u}
  /\ late' = IF Full THEN late ELSE late \ {u}
  /\ UNCHANGED <<serviceVars, missed, taken>>

PoolReload(o) == Reload(o) /\ UNCHANGED <<serviceVars, history>>

-----------------------------------------------------------------------------
(* The Secret Service *)

\* createCollection: the collection replaces what was at its path; it becomes
\* the default if there is no default.
createCollection(o) ==
  LET p == PathOf[owner[o]] IN
  /\ collections' = [collections EXCEPT ![p] = o]
  /\ IF aliases = None
       THEN aliases' = p /\ aliasObj' = o
       ELSE UNCHANGED <<aliases, aliasObj>>

Without_None(u) == collections

\* removeCollectionLocked takes collections out of the map; the alias and the
\* exported D-Bus objects stay.
Without(u) ==
  [p \in Paths |-> IF collections[p] # None /\ owner[collections[p]] = u
                     THEN None ELSE collections[p]]

onDatabaseUnlocked(u) ==
  IF dbs[u] = None THEN UNCHANGED <<collections, aliases, aliasObj>>
  ELSE createCollection(dbs[u])

onDatabaseLocked(u) ==
  /\ collections' = Without(u)
  /\ UNCHANGED <<aliases, aliasObj>>

\* The file changed: the collection is built anew from the object in memory.
onDatabaseReloaded(u) ==
  \/ /\ dbs[u] = None
     /\ UNCHANGED <<collections, aliases, aliasObj>>
  \/ /\ dbs[u] \in Odbs \ open
     /\ onDatabaseLocked(u)
  \/ /\ dbs[u] \in open
     /\ createCollection(dbs[u])

\* Export: collections for the databases that are unlocked already (PAM may
\* have opened one), in the order of Go's map: any of them may come first and
\* be the default.
Export ==
  LET seeds == {dbs[u] : u \in Uuids} \cap open
      At(p) == {o \in seeds : PathOf[owner[o]] = p} IN
  /\ phase = "boot"
  /\ phase' = "run"
  /\ \E c \in [Paths -> seeds \cup {None}] :
       /\ \A p \in Paths : c[p] \in IF At(p) = {} THEN {None} ELSE At(p)
       /\ collections' = c
  /\ \/ seeds = {} /\ UNCHANGED <<aliases, aliasObj>>
     \/ \E o \in seeds : aliases' = PathOf[owner[o]] /\ aliasObj' = o
  /\ UNCHANGED <<poolVars, keys, handling, stage, got, from, history>>

\* SetAlias("default", p), a D-Bus call.
SetAlias(p) ==
  /\ collections[p] # None
  /\ aliases' = p
  /\ aliasObj' = collections[p]
  /\ UNCHANGED <<poolVars, phase, collections, keys, handling, stage, got, from,
                 history>>

-----------------------------------------------------------------------------
(* The event loop *)

\* eventLoop: take an event.
TakeEvent ==
  /\ phase = "run" /\ handling = None
  /\ Receive
  /\ handling' = Head(chan)
  /\ stage' = "secret"
  /\ UNCHANGED <<phase, collections, aliases, aliasObj, keys, got, from, history>>

EventDone == handling' = None /\ stage' = "none"

\* HandlePoolEvent of the Secret Service.
HandleSecret ==
  /\ handling # None /\ stage = "secret"
  /\ LET u == handling.uuid IN
       \/ handling.type = "Unlocked" /\ onDatabaseUnlocked(u)
       \/ handling.type = "Locked" /\ onDatabaseLocked(u)
       \/ handling.type = "Reloaded" /\ onDatabaseReloaded(u)
  /\ IF handling.type = "Reloaded"
       THEN EventDone
       ELSE stage' = "agent" /\ UNCHANGED handling
  /\ UNCHANGED <<poolVars, phase, keys, got, from, history>>

\* AgentServer.OnDatabaseUnlocked, first half: ExtractKeysFromDatabase reads
\* Db without the object's lock; it fails if there is none.
ExtractKeys ==
  /\ handling # None /\ stage = "agent" /\ handling.type = "Unlocked"
  /\ LET o == dbs[handling.uuid] IN
       \/ /\ o \in open
          /\ got' = KeysOf[handling.uuid] /\ from' = o
          /\ stage' = "add" /\ UNCHANGED handling
       \/ /\ o \notin open
          /\ EventDone /\ UNCHANGED <<got, from>>
  /\ UNCHANGED <<poolVars, phase, collections, aliases, aliasObj, keys, history>>

Added_Unlabelled(ks, u) == [k \in Keys |-> IF k \in ks THEN "" ELSE keys[k]]

\* AddIdentity for each key: a key that is there changes its database.
Added(ks, u) == [k \in Keys |-> IF k \in ks THEN u ELSE keys[k]]

\* Second half.  If Lock wiped the database meanwhile, the keys it reached
\* first are missing.
AddKeys ==
  /\ handling # None /\ stage = "add"
  /\ \E ks \in IF from \in open THEN {got} ELSE SUBSET got :
       keys' = Added(ks, handling.uuid) /\ taken' = taken \ ks
  /\ got' = {} /\ from' = None
  /\ EventDone
  /\ UNCHANGED <<poolVars, phase, collections, aliases, aliasObj, dropped, missed, late>>

Removed_NotShared(u) ==
  [k \in Keys |-> IF keys[k] = u /\ \A v \in Uuids \ {u} : k \notin KeysOf[v]
                    THEN None ELSE keys[k]]

Removed_All(u) == [k \in Keys |-> None]

\* RemoveIdentitiesForDatabase, with remove_on_lock set.
Removed(u) == [k \in Keys |-> IF keys[k] = u THEN None ELSE keys[k]]

\* AgentServer.OnDatabaseLocked, if the pool still knows the database.
RemoveKeys ==
  /\ handling # None /\ stage = "agent" /\ handling.type = "Locked"
  /\ keys' = IF dbs[handling.uuid] = None THEN keys ELSE Removed(handling.uuid)
  /\ EventDone
  /\ UNCHANGED <<poolVars, phase, collections, aliases, aliasObj, got, from, history>>

-----------------------------------------------------------------------------
(* The agent's socket: ssh clients, served while the event loop works *)

\* What a client is shown, and what handleSignRequest signs with.
ListIdentities == {k \in Keys : keys[k] # None}

\* RemoveIdentity and RemoveAllIdentities.
Forgotten(ks) ==
  /\ keys' = [k \in Keys |-> IF k \in ks THEN None ELSE keys[k]]
  /\ taken' = taken \cup ks
  /\ UNCHANGED <<poolVars, phase, collections, aliases, aliasObj, handling, stage,
                 got, from, dropped, missed, late>>

\* FindIdentityByBlob failed for a key that is not loaded: nothing changes.
handleRemoveIdentity(k) == k \in ListIdentities /\ Forgotten({k})

handleRemoveAllIdentities == ListIdentities # {} /\ Forgotten(ListIdentities)

-----------------------------------------------------------------------------
Init ==
  /\ PoolInit
  /\ phase = "boot"
  /\ collections = [p \in Paths |-> None]
  /\ aliases = None /\ aliasObj = None
  /\ keys = [k \in Keys |-> None]
  /\ handling = None /\ stage = "none"
  /\ got = {} /\ from = None
  /\ dropped = {} /\ missed = {} /\ late = {} /\ taken = {}

LoopStep == TakeEvent \/ HandleSecret \/ ExtractKeys \/ AddKeys \/ RemoveKeys

Next ==
  \/ \E g \in Openers : PoolOpen(g) \/ PoolSendUnlocked(g)
  \/ \E u \in Uuids : PoolLock(u)
  \/ \E o \in Odbs : PoolReload(o)
  \/ \E p \in Paths : SetAlias(p)
  \/ \E k \in Keys : handleRemoveIdentity(k)
  \/ handleRemoveAllIdentities
  \/ Export \/ LoopStep

Spec == Init /\ [][Next]_vars

-----------------------------------------------------------------------------
(* Properties *)

\* Every variable holds a value of its type.
TypeOK ==
  /\ dbs \in [Uuids -> Odbs \cup {None}]
  /\ owner \in [Odbs -> Uuids \cup {None}]
  /\ open \subseteq Odbs
  /\ chan \in Seq(Event) /\ Len(chan) <= ChanCap
  /\ opening \in [Openers -> Odbs \cup {None}]
  /\ published \subseteq Openers
  /\ phase \in {"boot", "run"}
  /\ collections \in [Paths -> Odbs \cup {None}]
  /\ aliases \in Paths \cup {None} /\ aliasObj \in Odbs \cup {None}
  /\ keys \in [Keys -> Uuids \cup {None}]
  /\ handling \in Event \cup {None}
  /\ stage \in {"none", "secret", "agent", "add"}
  /\ got \subseteq Keys /\ from \in Odbs \cup {None}
  /\ dropped \subseteq Uuids /\ missed \subseteq Uuids /\ late \subseteq Uuids
  /\ taken \subseteq Keys

\* An event is on its way to the handlers, or they are at it.
Pending(t, u) ==
  LET e == [type |-> t, uuid |-> u] IN handling = e \/ InChannel(e)

\* Open has published a database and not yet sent its event.
Unsent(u) == \E g \in published : owner[opening[g]] = u

\* doc/config.md:186, remove_on_lock: an identity whose database is locked is
\* about to be removed, whatever races with the Lock, unless the channel was
\* full when Lock sent its event.
KeysGoWithLock ==
  \A k \in ListIdentities, u \in Uuids : keys[k] = u =>
    dbs[u] \in open \/ Pending("Locked", u) \/ u \in dropped

\* An unlocked database has its identities in the agent, or will: locking one
\* database takes no key of another from the agent, except one they share, and
\* a key that a client removed comes back with the next Unlocked.
KeysServed ==
  \A u \in Uuids : dbs[u] \in open =>
    \/ \A k \in KeysOf[u] \ taken :
         keys[k] = u \/ \E v \in Uuids \ {u} : k \in KeysOf[v]
    \/ Pending("Unlocked", u) \/ Unsent(u) \/ u \in missed

\* doc/feature-matrix.md:45: "Unlocked databases are exposed as collections".
\* The collections are those of the objects in the pool that are unlocked,
\* but for events on their way, events dropped, an Unlocked that Open sent
\* after another call had locked the database again, and databases in files of
\* the same name, which share a path.
CollectionsFollowPool ==
  /\ \A u \in Uuids : dbs[u] \in open =>
       \/ collections[PathOf[u]] = dbs[u]
       \/ \E v \in Uuids \ {u} : PathOf[v] = PathOf[u]
       \/ Pending("Unlocked", u) \/ Unsent(u) \/ u \in missed
  /\ \A p \in Paths : collections[p] # None =>
       LET o == collections[p] u == owner[o] IN
       \/ o = dbs[u] /\ o \in open
       \/ Pending("Locked", u) \/ Pending("Unlocked", u) \/ Unsent(u)
       \/ u \in dropped \cup missed \cup late
=============================================================================
