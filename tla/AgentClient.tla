---------------------------- MODULE AgentClient ----------------------------
(***************************************************************************)
(* Client mode of the SSH agent (internal/sshagent/client.go): kpxcd runs  *)
(* no agent of its own but pushes the keys of unlocked databases into the  *)
(* agent behind SSH_AUTH_SOCK, remembers which ones, and removes them when *)
(* their database is locked and when the daemon shuts down                 *)
(* (internal/daemon/daemon.go).  The agent is another process: it may      *)
(* refuse a request, be unreachable for a while, lose its keys in a        *)
(* restart, or lose one to a lifetime or to the user.                      *)
(***************************************************************************)
EXTENDS PoolEvents

CONSTANTS
  Keys,   \* fingerprints of SSH keys
  KeysOf  \* KeysOf[u]: keys with KeeAgent settings in database u

ASSUME ClientConstants ==
  /\ KeysOf \in [Uuids -> SUBSET Keys]
  /\ None \notin Event

VARIABLES
  running,    \* DaemonApp.Run is in its event loop, "stop" after a signal,
              \* "done" after shutdown
  handling,   \* the event being handled, or None
  stage,      \* where its handler is
  todo,       \* keys the handler has still to push or to remove
  from,       \* the object the keys are extracted from
  keys,       \* AgentClient.keys: database of each key pushed, or None
  reachable,  \* connecting to SSH_AUTH_SOCK succeeds
  agent,      \* keys the external agent holds on behalf of kpxcd
  orphans,    \* history: keys in the agent whose addition it did not confirm or
              \* whose removal failed
  dropped     \* history: databases whose last Locked event was dropped

clientVars == <<running, handling, stage, todo, from, keys>>
agentVars == <<reachable, agent, orphans>>
vars == <<poolVars, clientVars, agentVars, dropped>>

-----------------------------------------------------------------------------
(* The pool, as the client's environment *)

PoolOpen(g) ==
  /\ (\E u \in Uuids, o \in Odbs : Load(g, u, o)) \/ Publish(g) \/ SendUnlocked(g)
  /\ UNCHANGED <<clientVars, agentVars, dropped>>

PoolLock(u) ==
  /\ Lock(u)
  /\ dropped' = IF Len(chan) >= ChanCap THEN dropped \cup {u} ELSE dropped \ {u}
  /\ UNCHANGED <<clientVars, agentVars>>

PoolReload(o) == Reload(o) /\ UNCHANGED <<clientVars, agentVars, dropped>>

-----------------------------------------------------------------------------
(* Requests to the external agent *)

Tracked_Never(k, u) == keys

Tracked_Unlabelled(k, u) == [keys EXCEPT ![k] = ""]

\* The record of a key: the last database that pushed it owns it.
Tracked(k, u) == [keys EXCEPT ![k] = u]

\* AddKey: the key is remembered once the agent has said that it accepted it;
\* the answer may get lost.
AddKey(k, u) ==
  \/ /\ reachable
     /\ agent' = agent \cup {k} /\ orphans' = orphans \ {k}
     /\ keys' = Tracked(k, u)
  \/ /\ reachable
     /\ agent' = agent \cup {k}
     /\ orphans' = IF keys[k] = None THEN orphans \cup {k} ELSE orphans
     /\ UNCHANGED keys
  \/ UNCHANGED <<agent, orphans, keys>>

\* removeByFingerprint: the key is forgotten whatever the agent answers.
removeByFingerprint(k) ==
  /\ keys' = [keys EXCEPT ![k] = None]
  /\ \/ reachable /\ agent' = agent \ {k} /\ orphans' = orphans \ {k}
     \/ orphans' = orphans \cup (agent \cap {k}) /\ UNCHANGED agent

-----------------------------------------------------------------------------
(* The event loop *)

Idle == handling = None /\ stage = "none"

TakeEvent ==
  /\ running = "loop" /\ Idle
  /\ Receive
  /\ handling' = Head(chan) /\ stage' = "start"
  /\ UNCHANGED <<running, todo, from, keys, agentVars, dropped>>

EventDone == handling' = None /\ stage' = "none" /\ from' = None

\* OnDatabaseUnlocked, first half: ExtractKeysFromDatabase, without a lock.
Extract ==
  /\ handling # None /\ stage = "start" /\ handling.type = "Unlocked"
  /\ LET o == dbs[handling.uuid] IN
       IF o \in open
         THEN /\ todo' = KeysOf[handling.uuid] /\ from' = o
              /\ stage' = "push" /\ UNCHANGED handling
         ELSE EventDone /\ UNCHANGED todo
  /\ UNCHANGED <<poolVars, running, keys, agentVars, dropped>>

\* Second half, key by key.  A key whose material Lock has wiped meanwhile was
\* not extracted.
PushKey(k) ==
  /\ stage = "push" /\ k \in todo
  /\ todo' = todo \ {k}
  /\ AddKey(k, handling.uuid) \/ (from \notin open /\ UNCHANGED <<agent, orphans, keys>>)
  /\ UNCHANGED <<poolVars, running, handling, stage, from, reachable, dropped>>

KeysForDB_NotShared(u) ==
  {k \in Keys : keys[k] = u /\ \A v \in Uuids \ {u} : k \notin KeysOf[v]}

\* The keys that RemoveKeysForDB notes for database u.
KeysForDB(u) == {k \in Keys : keys[k] = u}

\* OnDatabaseLocked, with remove_on_lock set: RemoveKeysForDB notes the keys
\* of the database, if the pool still knows it.
NoteKeys ==
  /\ handling # None /\ stage = "start" /\ handling.type = "Locked"
  /\ todo' = IF dbs[handling.uuid] = None THEN {} ELSE KeysForDB(handling.uuid)
  /\ stage' = "remove"
  /\ UNCHANGED <<poolVars, running, handling, from, keys, agentVars, dropped>>

RemoveKey(k) ==
  /\ stage \in {"remove", "close"} /\ k \in todo
  /\ todo' = todo \ {k}
  /\ removeByFingerprint(k)
  /\ UNCHANGED <<poolVars, running, handling, stage, from, reachable, dropped>>

\* The handler returns; Reloaded has none.
Return ==
  /\ handling # None
  /\ \/ stage \in {"push", "remove"} /\ todo = {}
     \/ stage = "start" /\ handling.type = "Reloaded"
  /\ EventDone
  /\ UNCHANGED <<poolVars, running, todo, keys, agentVars, dropped>>

TrackedKeys_Unlocked == {k \in Keys : keys[k] # None /\ dbs[keys[k]] \in open}

\* The keys that RemoveAllKeys notes.
TrackedKeys == {k \in Keys : keys[k] # None}

\* SIGTERM ends the loop; shutdown calls Close, which is RemoveAllKeys.
Terminate ==
  /\ running = "loop" /\ Idle
  /\ running' = "stop" /\ stage' = "close"
  /\ todo' = TrackedKeys
  /\ UNCHANGED <<poolVars, handling, from, keys, agentVars, dropped>>

Closed ==
  /\ stage = "close" /\ todo = {}
  /\ running' = "done" /\ stage' = "none"
  /\ UNCHANGED <<poolVars, handling, todo, from, keys, agentVars, dropped>>

-----------------------------------------------------------------------------
(* The external agent *)

AgentStops == reachable' = FALSE /\ agent' = {} /\ orphans' = {}
AgentUnreachable == reachable' = FALSE /\ UNCHANGED <<agent, orphans>>
AgentReachable == reachable' = TRUE /\ UNCHANGED <<agent, orphans>>
AgentDrops(k) == agent' = agent \ {k} /\ orphans' = orphans \ {k} /\ UNCHANGED reachable

AgentStep ==
  /\ AgentStops \/ AgentUnreachable \/ AgentReachable \/ \E k \in agent : AgentDrops(k)
  /\ UNCHANGED <<poolVars, clientVars, dropped>>

-----------------------------------------------------------------------------
Init ==
  /\ PoolInit
  /\ running = "loop" /\ handling = None /\ stage = "none"
  /\ todo = {} /\ from = None
  /\ keys = [k \in Keys |-> None]
  /\ reachable \in BOOLEAN /\ agent = {} /\ orphans = {}
  /\ dropped = {}

LoopStep ==
  \/ TakeEvent \/ Extract \/ NoteKeys \/ Return \/ Terminate \/ Closed
  \/ \E k \in Keys : PushKey(k) \/ RemoveKey(k)

Next ==
  \/ \E g \in Openers : PoolOpen(g)
  \/ \E u \in Uuids : PoolLock(u)
  \/ \E o \in Odbs : PoolReload(o)
  \/ LoopStep
  \/ AgentStep

Spec == Init /\ [][Next]_vars

-----------------------------------------------------------------------------
(* Properties *)

\* Every variable holds a value of its type.
TypeOK ==
  /\ dbs \in [Uuids -> Odbs \cup {None}]
  /\ owner \in [Odbs -> Uuids \cup {None}]
  /\ open \subseteq Odbs
  /\ chan \in Seq(Event) /\ Len(chan) <= ChanCap
  /\ opening \in [Openers -> Odbs \cup {None}] /\ published \subseteq Openers
  /\ running \in {"loop", "stop", "done"}
  /\ handling \in Event \cup {None}
  /\ stage \in {"none", "start", "push", "remove", "close"}
  /\ todo \subseteq Keys /\ from \in Odbs \cup {None}
  /\ keys \in [Keys -> Uuids \cup {None}]
  /\ reachable \in BOOLEAN /\ agent \subseteq Keys /\ orphans \subseteq agent
  /\ dropped \subseteq Uuids

Pending(u) ==
  LET e == [type |-> "Locked", uuid |-> u] IN
  handling = e \/ InChannel(e)

\* kpxcd knows of every key of its own in the external agent, unless the agent
\* did not confirm that it took it or did not carry out its removal.
PushedIsTracked == \A k \in agent \ orphans : keys[k] # None

\* doc/config.md:186, remove_on_lock: a key kpxcd pushed is gone from the
\* external agent, or on its way out, when its database is locked, whatever
\* races with the lock; but for a Locked event that did not fit the channel,
\* an addition not confirmed or a removal that failed, and a daemon that no
\* longer reads events.
PushedGoWithLock ==
  running = "loop" => \A k \in agent \ orphans :
    LET u == keys[k] IN dbs[u] \in open \/ Pending(u) \/ u \in dropped

\* client.go:161, "Close removes all tracked keys from the agent": a daemon
\* that has shut down leaves only keys whose removal failed or whose addition
\* was not confirmed.
CloseTakesAll == running = "done" => agent \subseteq orphans
=============================================================================
