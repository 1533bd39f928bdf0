----------------------------- MODULE PoolEvents -----------------------------
(***************************************************************************)
(* What the database pool (internal/dbpool/pool.go) promises its users: a  *)
(* map from database UUIDs to objects in which Open publishes an object    *)
(* and Lock wipes one, each in one step, and a bounded channel of events.  *)
(* The event of an Open follows its publication in a step of its own; that *)
(* of a Lock is part of the Lock.  Events that do not fit are dropped,     *)
(* except those of the file watchers, which wait.                          *)
(*                                                                         *)
(* Module DbPool, with its locks, watchers and LockAll, implements this    *)
(* specification; modules Services and AgentClient build on it.            *)
(***************************************************************************)
EXTENDS Naturals, Sequences

CONSTANTS
  Openers,  \* goroutines that open databases
  Uuids,    \* databases
  Odbs,     \* OpenDatabase objects
  ChanCap,  \* capacity of the event channel
  None

ASSUME EventConstants ==
  /\ None \notin Odbs \cup Uuids
  /\ ChanCap \in Nat \ {0}

VARIABLES
  dbs,      \* dbs[u]: the object of database u in the pool's map, or None
  owner,    \* owner[o]: the database the object was loaded from, or None
  open,     \* objects that hold decrypted content
  chan,     \* the event channel
  opening,  \* opening[g]: object Open is working on, or None
  published \* goroutines whose Open has yet to send the event

poolVars == <<dbs, owner, open, chan, opening, published>>

Event == [type : {"Unlocked", "Locked", "Reloaded"}, uuid : Uuids]

\* select with a default case: an event that does not fit is dropped.
TrySend(e) == chan' = IF Len(chan) < ChanCap THEN Append(chan, e) ELSE chan

InChannel(e) == \E i \in 1..Len(chan) : chan[i] = e

PoolInit ==
  /\ dbs = [u \in Uuids |-> None]
  /\ owner = [o \in Odbs |-> None]
  /\ open = {}
  /\ chan = <<>>
  /\ opening = [g \in Openers |-> None]
  /\ published = {}

\* Open decodes the file.
Load(g, u, o) ==
  /\ opening[g] = None /\ owner[o] = None
  /\ owner' = [owner EXCEPT ![o] = u]
  /\ open' = open \cup {o}
  /\ opening' = [opening EXCEPT ![g] = o]
  /\ UNCHANGED <<dbs, chan, published>>

\* Open puts the object into the map, in place of one that is there.
Publish(g) ==
  /\ opening[g] # None /\ g \notin published
  /\ dbs' = [dbs EXCEPT ![owner[opening[g]]] = opening[g]]
  /\ published' = published \cup {g}
  /\ UNCHANGED <<owner, open, chan, opening>>

\* Open sends Unlocked and returns.
SendUnlocked(g) ==
  /\ g \in published
  /\ TrySend([type |-> "Unlocked", uuid |-> owner[opening[g]]])
  /\ opening' = [opening EXCEPT ![g] = None]
  /\ published' = published \ {g}
  /\ UNCHANGED <<dbs, owner, open>>

\* Lock wipes the object in the map, also one that is locked already.
Lock(u) ==
  /\ dbs[u] # None
  /\ open' = open \ {dbs[u]}
  /\ TrySend([type |-> "Locked", uuid |-> u])
  /\ UNCHANGED <<dbs, owner, opening, published>>

\* The watcher of an object that has not been locked reports a change.
Reload(o) ==
  /\ o \in open /\ Len(chan) < ChanCap
  /\ chan' = Append(chan, [type |-> "Reloaded", uuid |-> owner[o]])
  /\ UNCHANGED <<dbs, owner, open, opening, published>>

\* The event loop takes the next event.
Receive ==
  /\ chan # <<>>
  /\ chan' = Tail(chan)
  /\ UNCHANGED <<dbs, owner, open, opening, published>>

\* The end of Close, after LockAll: the map is emptied.
Reset ==
  /\ dbs' = [u \in Uuids |-> None]
  /\ UNCHANGED <<owner, open, chan, opening, published>>

\* Steps of the pool itself; Receive is a step of its user.
PoolStep ==
  \/ \E g \in Openers :
       \/ \E u \in Uuids, o \in Odbs : Load(g, u, o)
       \/ Publish(g) \/ SendUnlocked(g)
  \/ \E u \in Uuids : Lock(u)
  \/ \E o \in Odbs : Reload(o)

PoolNext == PoolStep \/ Receive \/ Reset

PoolSpec == PoolInit /\ [][PoolNext]_poolVars
=============================================================================
