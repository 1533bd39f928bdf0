------------------------- MODULE AgentClientProofs -------------------------
(***************************************************************************)
(* Proofs about AgentClient, for any set of databases and keys, any        *)
(* capacity of the channel and any behaviour of the external agent: which  *)
(* keys kpxcd may leave behind there.                                      *)
(***************************************************************************)
EXTENDS AgentClient, TLAPS

-----------------------------------------------------------------------------
(* The pool: facts that hold of every user of PoolEvents *)

\* Every variable of the pool holds a value of its type.
PoolTypeOK ==
  /\ dbs \in [Uuids -> Odbs \cup {None}]
  /\ owner \in [Odbs -> Uuids \cup {None}]
  /\ open \subseteq Odbs
  /\ chan \in Seq(Event) /\ Len(chan) <= ChanCap
  /\ opening \in [Openers -> Odbs \cup {None}]
  /\ published \subseteq Openers

\* What Open works on is unlocked and in nobody else's hands until it is
\* published, and the map holds each object under its own UUID.
OpenInv ==
  /\ \A g \in Openers :
       /\ opening[g] \in Odbs => owner[opening[g]] \in Uuids
       /\ g \in published => opening[g] \in Odbs
       /\ opening[g] \in Odbs /\ g \notin published =>
            opening[g] \in open /\ \A u \in Uuids : dbs[u] # opening[g]
       /\ \A h \in Openers \ {g} : opening[g] \in Odbs => opening[h] # opening[g]
  /\ \A u \in Uuids : dbs[u] \in Odbs => owner[dbs[u]] = u
  /\ \A o \in open : owner[o] \in Uuids

\* Sending loses nothing that is in the channel, and puts the event there if
\* there is room.
LEMMA SendKeeps ==
  ASSUME chan \in Seq(Event), Len(chan) <= ChanCap, NEW e \in Event, TrySend(e)
  PROVE  /\ chan' \in Seq(Event) /\ Len(chan') <= ChanCap
         /\ \A f \in Event : InChannel(f) => InChannel(f)'
         /\ Len(chan) < ChanCap => InChannel(e)'
<1>1. CASE Len(chan) < ChanCap
  <2>1. chan' = Append(chan, e) BY <1>1 DEF TrySend
  <2>2. chan' \in Seq(Event) /\ Len(chan') = Len(chan) + 1 /\ chan'[Len(chan) + 1] = e
    BY <2>1
  <2>3. \A i \in 1..Len(chan) : chan'[i] = chan[i] /\ i \in 1..Len(chan') BY <2>1, <2>2
  <2>4. Len(chan) + 1 \in 1..Len(chan') BY <2>2
  <2> QED BY <1>1, <2>2, <2>3, <2>4, EventConstants DEF InChannel
<1>2. CASE ~(Len(chan) < ChanCap)
  BY <1>2, EventConstants DEF TrySend, InChannel
<1> QED BY <1>1, <1>2

\* Receiving takes the head of the channel and nothing else.
LEMMA ReceiveKeeps ==
  ASSUME chan \in Seq(Event), Len(chan) <= ChanCap, Receive
  PROVE  /\ chan' \in Seq(Event) /\ Len(chan') <= ChanCap
         /\ Head(chan) \in Event
         /\ \A f \in Event : InChannel(f) => f = Head(chan) \/ InChannel(f)'
<1>1. chan # <<>> /\ chan' = Tail(chan) BY DEF Receive
<1>2. Head(chan) = chan[1] /\ Head(chan) \in Event BY <1>1
<1>3. chan' \in Seq(Event) /\ Len(chan') = Len(chan) - 1 /\ Len(chan) >= 1 BY <1>1
<1>4. \A i \in 1..Len(chan') : chan'[i] = chan[i + 1] BY <1>1, <1>3
<1>5. ASSUME NEW f \in Event, InChannel(f), f # Head(chan) PROVE InChannel(f)'
  <2>1. PICK i \in 1..Len(chan) : chan[i] = f BY <1>5 DEF InChannel
  <2>2. i # 1 BY <2>1, <1>5, <1>2
  <2>3. i - 1 \in 1..Len(chan') /\ chan'[i - 1] = f BY <2>1, <2>2, <1>3, <1>4
  <2> QED BY <2>3 DEF InChannel
<1> QED BY <1>2, <1>3, <1>5, EventConstants

\* The fact about a Locked event that both sides of a step use.
LEMMA LockedEvent ==
  /\ \A u \in Uuids : [type |-> "Locked", uuid |-> u] \in Event
  /\ \A e \in Event, u \in Uuids :
       e = [type |-> "Locked", uuid |-> u] <=> e.type = "Locked" /\ e.uuid = u
  BY DEF Event

\* Every step of the pool, and its user's Receive, keeps the types, keeps
\* objects in the hands of one Open or in the map, and loses no event but the
\* one received.
LEMMA PoolKeeps ==
  ASSUME PoolTypeOK, OpenInv, PoolStep
  PROVE  PoolTypeOK' /\ OpenInv' /\ \A f \in Event : InChannel(f) => InChannel(f)'
<1> USE EventConstants DEF PoolTypeOK
<1>1. ASSUME NEW g \in Openers, NEW u \in Uuids, NEW o \in Odbs, Load(g, u, o)
      PROVE  PoolTypeOK' /\ OpenInv' /\ UNCHANGED chan
  BY <1>1 DEF Load, OpenInv
<1>2. ASSUME NEW g \in Openers, Publish(g)
      PROVE  PoolTypeOK' /\ OpenInv' /\ UNCHANGED chan
  BY <1>2 DEF Publish, OpenInv
<1>3. ASSUME NEW g \in Openers, SendUnlocked(g)
      PROVE  PoolTypeOK' /\ OpenInv' /\ \A f \in Event : InChannel(f) => InChannel(f)'
  <2>1. [type |-> "Unlocked", uuid |-> owner[opening[g]]] \in Event
    BY <1>3 DEF SendUnlocked, Event, OpenInv
  <2>2. /\ chan' \in Seq(Event) /\ Len(chan') <= ChanCap
        /\ \A f \in Event : InChannel(f) => InChannel(f)'
    BY <1>3, <2>1, SendKeeps DEF SendUnlocked
  <2>3. OpenInv' BY <1>3 DEF SendUnlocked, OpenInv
  <2> QED BY <1>3, <2>2, <2>3 DEF SendUnlocked
<1>4. ASSUME NEW u \in Uuids, Lock(u)
      PROVE  PoolTypeOK' /\ OpenInv' /\ \A f \in Event : InChannel(f) => InChannel(f)'
  <2>1. [type |-> "Locked", uuid |-> u] \in Event BY DEF Event
  <2>2. /\ chan' \in Seq(Event) /\ Len(chan') <= ChanCap
        /\ \A f \in Event : InChannel(f) => InChannel(f)'
    BY <1>4, <2>1, SendKeeps DEF Lock
  <2>3. OpenInv' BY <1>4 DEF Lock, OpenInv
  <2> QED BY <1>4, <2>2, <2>3 DEF Lock
<1>5. ASSUME NEW o \in Odbs, Reload(o)
      PROVE  PoolTypeOK' /\ OpenInv' /\ \A f \in Event : InChannel(f) => InChannel(f)'
  <2>1. [type |-> "Reloaded", uuid |-> owner[o]] \in Event
    BY <1>5 DEF Reload, Event, OpenInv
  <2>2. /\ chan' \in Seq(Event) /\ Len(chan') <= ChanCap
        /\ \A f \in Event : InChannel(f) => InChannel(f)'
    BY <1>5, <2>1, SendKeeps DEF Reload, TrySend
  <2>3. OpenInv' BY <1>5 DEF Reload, OpenInv
  <2> QED BY <1>5, <2>2, <2>3 DEF Reload
<1> QED BY <1>1, <1>2, <1>3, <1>4, <1>5 DEF PoolStep, InChannel

\* OpenInv speaks of the pool without its channel.
LEMMA OpenKept ==
  OpenInv /\ UNCHANGED <<dbs, owner, open, opening, published>> => OpenInv'
  BY DEF OpenInv

-----------------------------------------------------------------------------
(* The client *)

\* The database is unlocked, or the client will be told that it is not.
Watched(u) ==
  /\ dbs[u] \in Odbs
  /\ dbs[u] \in open \/ Pending(u) \/ u \in dropped

\* Which event is handled at which place, and when the loop is left.
StageInv ==
  /\ handling = None <=> stage \in {"none", "close"}
  /\ stage = "push" => handling.type = "Unlocked"
  /\ stage = "remove" => handling.type = "Locked"
  /\ stage = "close" <=> running = "stop"
  /\ running = "done" => stage = "none"

\* The record: its databases are watched, a removal under way has noted all it
\* must remove, and it is empty after shutdown.
RecordInv ==
  /\ \A k \in Keys : keys[k] # None => Watched(keys[k])
  /\ stage = "push" => Watched(handling.uuid)
  /\ stage = "remove" => \A k \in Keys : keys[k] = handling.uuid => k \in todo
  /\ stage = "close" => \A k \in Keys : keys[k] # None => k \in todo
  /\ running = "done" => \A k \in Keys : keys[k] = None

IInv == TypeOK /\ OpenInv /\ StageInv /\ RecordInv /\ PushedIsTracked

\* A step of the client's specification is one of the pool, or takes an event,
\* or leaves the pool alone.
LEMMA PoolOrClient ==
  [Next]_vars =>
    \/ PoolStep /\ UNCHANGED <<clientVars, agentVars>>
    \/ TakeEvent
    \/ UNCHANGED poolVars
<1> SUFFICES ASSUME [Next]_vars
             PROVE  \/ PoolStep /\ UNCHANGED <<clientVars, agentVars>>
                    \/ TakeEvent
                    \/ UNCHANGED poolVars
  OBVIOUS
<1>1. ASSUME NEW g \in Openers, PoolOpen(g)
      PROVE  PoolStep /\ UNCHANGED <<clientVars, agentVars>>
  BY <1>1 DEF PoolOpen, PoolStep
<1>2. ASSUME NEW u \in Uuids, PoolLock(u)
      PROVE  PoolStep /\ UNCHANGED <<clientVars, agentVars>>
  BY <1>2 DEF PoolLock, PoolStep
<1>3. ASSUME NEW o \in Odbs, PoolReload(o)
      PROVE  PoolStep /\ UNCHANGED <<clientVars, agentVars>>
  BY <1>3 DEF PoolReload, PoolStep
<1>4. CASE UNCHANGED vars \/ AgentStep BY <1>4 DEF vars, AgentStep
<1>5. ASSUME NEW k \in Keys, PushKey(k) \/ RemoveKey(k) PROVE UNCHANGED poolVars
  BY <1>5 DEF PushKey, RemoveKey
<1>6. CASE Extract \/ NoteKeys \/ Return \/ Terminate \/ Closed
  BY <1>6 DEF Extract, NoteKeys, Return, Terminate, Closed
<1> QED BY <1>1, <1>2, <1>3, <1>4, <1>5, <1>6 DEF Next, LoopStep

\* What AddKey and removeByFingerprint do to the agent and to the record.
LEMMA Requests ==
  ASSUME TypeOK, NEW k \in Keys, NEW u \in Uuids,
         AddKey(k, u) \/ removeByFingerprint(k) \/ UNCHANGED <<agent, orphans, keys>>
  PROVE  /\ keys' \in [Keys -> Uuids \cup {None}]
         /\ agent' \subseteq Keys /\ orphans' \subseteq agent'
         /\ PushedIsTracked => PushedIsTracked'
<1> DEFINE Goal == /\ keys' \in [Keys -> Uuids \cup {None}]
                   /\ agent' \subseteq Keys /\ orphans' \subseteq agent'
                   /\ PushedIsTracked => PushedIsTracked'
<1> USE EventConstants DEF TypeOK, PushedIsTracked
<1>1. CASE agent' = agent \cup {k} /\ orphans' = orphans \ {k} /\ keys' = Tracked(k, u)
  <2>1. keys' \in [Keys -> Uuids \cup {None}] BY <1>1 DEF Tracked
  <2>2. keys'[k] = u /\ \A j \in Keys \ {k} : keys'[j] = keys[j] BY <1>1 DEF Tracked
  <2> QED BY <1>1, <2>1, <2>2
<1>2. CASE /\ agent' = agent \cup {k} /\ keys' = keys
           /\ orphans' = IF keys[k] = None THEN orphans \cup {k} ELSE orphans
  BY <1>2
<1>3. CASE UNCHANGED <<agent, orphans, keys>> BY <1>3
<1>4. CASE removeByFingerprint(k)
  <2>1. keys' = [keys EXCEPT ![k] = None] BY <1>4 DEF removeByFingerprint
  <2>2. keys' \in [Keys -> Uuids \cup {None}] BY <2>1
  <2>3. \A j \in Keys \ {k} : keys'[j] = keys[j] BY <2>1
  <2>4. CASE agent' = agent \ {k} /\ orphans' = orphans \ {k} BY <2>2, <2>3, <2>4
  <2>5. CASE orphans' = orphans \cup (agent \cap {k}) /\ agent' = agent
    BY <2>2, <2>3, <2>5
  <2> QED BY <1>4, <2>4, <2>5 DEF removeByFingerprint
<1> QED BY <1>1, <1>2, <1>3, <1>4 DEF AddKey

\* Every step keeps every variable in its type.
LEMMA ClientTypeStep == TypeOK /\ OpenInv /\ StageInv /\ [Next]_vars => TypeOK'
<1> SUFFICES ASSUME TypeOK, OpenInv, StageInv, [Next]_vars PROVE TypeOK'
  OBVIOUS
<1> USE EventConstants, ClientConstants
<1>p. PoolTypeOK BY DEF TypeOK, PoolTypeOK
\* Part by part: the pool, the client and the external agent.
<1> DEFINE ClientType ==
             /\ running \in {"loop", "stop", "done"}
             /\ handling \in Event \cup {None}
             /\ stage \in {"none", "start", "push", "remove", "close"}
             /\ todo \subseteq Keys /\ from \in Odbs \cup {None}
             /\ keys \in [Keys -> Uuids \cup {None}]
           AgentType ==
             reachable \in BOOLEAN /\ agent \subseteq Keys /\ orphans \subseteq agent
<1>q. TypeOK' <=> PoolTypeOK' /\ ClientType' /\ AgentType' /\ dropped' \subseteq Uuids
  BY DEF TypeOK, PoolTypeOK
<1>1. PoolTypeOK'
  <2>1. CASE PoolStep BY <1>p, <2>1, PoolKeeps
  <2>2. CASE TakeEvent
    <3>1. chan' \in Seq(Event) /\ Len(chan') <= ChanCap
      BY <1>p, <2>2, ReceiveKeeps DEF TakeEvent, PoolTypeOK
    <3> QED BY <1>p, <2>2, <3>1 DEF TakeEvent, Receive, PoolTypeOK
  <2>3. CASE UNCHANGED poolVars BY <1>p, <2>3 DEF poolVars, PoolTypeOK
  <2> QED BY <2>1, <2>2, <2>3, PoolOrClient
<1>2. ClientType' /\ AgentType'
  <2>1. CASE UNCHANGED <<clientVars, agentVars>>
    BY <2>1 DEF clientVars, agentVars, TypeOK
  <2>2. CASE TakeEvent
    <3>1. Head(chan) \in Event BY <1>p, <2>2, ReceiveKeeps DEF TakeEvent, PoolTypeOK
    <3> QED BY <2>2, <3>1 DEF TakeEvent, TypeOK, agentVars
  <2>3. CASE Extract
    <3>1. handling.uuid \in Uuids BY <2>3 DEF Extract, TypeOK, Event
    <3> QED BY <2>3, <3>1 DEF Extract, EventDone, TypeOK, agentVars
  <2>4. CASE NoteKeys BY <2>4 DEF NoteKeys, KeysForDB, TypeOK, agentVars
  <2>5. CASE Return \/ Terminate \/ Closed
    BY <2>5 DEF Return, EventDone, Terminate, Closed, TrackedKeys, TypeOK, agentVars
  <2>6. ASSUME NEW k \in Keys, PushKey(k) PROVE ClientType' /\ AgentType'
    <3>1. handling \in Event /\ handling.uuid \in Uuids
      BY <2>6 DEF PushKey, StageInv, TypeOK, Event
    <3>2. /\ keys' \in [Keys -> Uuids \cup {None}]
          /\ agent' \subseteq Keys /\ orphans' \subseteq agent'
      BY <2>6, <3>1, Requests DEF PushKey
    <3> QED BY <2>6, <3>2 DEF PushKey, TypeOK
  <2>7. ASSUME NEW k \in Keys, RemoveKey(k) PROVE ClientType' /\ AgentType'
    <3>1. keys' = [keys EXCEPT ![k] = None]
      BY <2>7 DEF RemoveKey, removeByFingerprint
    <3>2. keys' \in [Keys -> Uuids \cup {None}] BY <3>1 DEF TypeOK
    <3>3. agent' \subseteq Keys /\ orphans' \subseteq agent'
      BY <2>7 DEF RemoveKey, removeByFingerprint, TypeOK
    <3> QED BY <2>7, <3>2, <3>3 DEF RemoveKey, TypeOK
  <2>8. CASE AgentStep
    BY <2>8 DEF AgentStep, AgentStops, AgentUnreachable, AgentReachable, AgentDrops,
                TypeOK, clientVars
  <2> QED
    BY <2>1, <2>2, <2>3, <2>4, <2>5, <2>6, <2>7, <2>8
    DEF Next, LoopStep, PoolOpen, PoolLock, PoolReload, vars
<1>3. dropped' \subseteq Uuids
  BY DEF TypeOK, Next, LoopStep, PoolOpen, PoolLock, PoolReload, TakeEvent, Extract, NoteKeys,
         Return, Terminate, Closed, PushKey, RemoveKey, AgentStep, vars
<1> QED BY <1>q, <1>1, <1>2, <1>3

\* Every step keeps objects in the hands of one Open or in the map.
LEMMA ClientOpenStep == TypeOK /\ OpenInv /\ [Next]_vars => OpenInv'
<1>1. TypeOK => PoolTypeOK BY DEF TypeOK, PoolTypeOK
<1>2. TakeEvent => UNCHANGED <<dbs, owner, open, opening, published>>
  BY DEF TakeEvent, Receive
<1>3. UNCHANGED poolVars => UNCHANGED <<dbs, owner, open, opening, published>>
  BY DEF poolVars
<1> QED BY <1>1, <1>2, <1>3, PoolOrClient, PoolKeeps, OpenKept

\* Every step keeps the place of the handler and its event together.
LEMMA StageStep == TypeOK /\ StageInv /\ [Next]_vars => StageInv'
<1> SUFFICES ASSUME TypeOK, StageInv, [Next]_vars PROVE StageInv'
  OBVIOUS
<1> USE ClientConstants DEF StageInv
<1>1. CASE UNCHANGED <<running, handling, stage>> BY <1>1
<1>2. CASE TakeEvent
  <2>1. Head(chan) \in Event
    BY <1>2, ReceiveKeeps DEF TakeEvent, TypeOK
  <2> QED BY <1>2, <2>1 DEF TakeEvent, Idle
<1>3. CASE Extract BY <1>3 DEF Extract, EventDone
<1>4. CASE NoteKeys BY <1>4 DEF NoteKeys
<1>5. CASE Return BY <1>5 DEF Return, EventDone
<1>6. CASE Terminate BY <1>6 DEF Terminate, Idle
<1>7. CASE Closed BY <1>7 DEF Closed
<1> QED
  BY <1>1, <1>2, <1>3, <1>4, <1>5, <1>6, <1>7
  DEF Next, LoopStep, PoolOpen, PoolLock, PoolReload, PushKey, RemoveKey, AgentStep,
      clientVars, vars

\* Every step keeps the record's databases watched, and notes for removal all
\* that must go.
LEMMA RecordStep ==
  TypeOK /\ OpenInv /\ StageInv /\ RecordInv /\ [Next]_vars => RecordInv'
<1> SUFFICES ASSUME TypeOK, OpenInv, StageInv, RecordInv, [Next]_vars PROVE RecordInv'
  OBVIOUS
<1> USE EventConstants, ClientConstants
<1>t. /\ \A k \in Keys : keys[k] # None => keys[k] \in Uuids
      /\ handling # None => handling \in Event /\ handling.uuid \in Uuids
  BY DEF TypeOK, Event
<1>c. chan \in Seq(Event) /\ Len(chan) <= ChanCap BY DEF TypeOK
\* It suffices that what was watched is, when the client does nothing.
<1>a. ASSUME \A v \in Uuids : Watched(v) => Watched(v)',
             UNCHANGED <<running, handling, stage, todo, keys>>
      PROVE  RecordInv'
  BY <1>a, <1>t DEF RecordInv, StageInv
\* Steps that leave the pool and the event under way alone.
<1>b. ASSUME UNCHANGED <<dbs, open, chan, dropped, handling>>
      PROVE  \A v \in Uuids : Watched(v) => Watched(v)'
  BY <1>b DEF Watched, Pending, InChannel
<1>1. ASSUME NEW g \in Openers, PoolOpen(g) PROVE RecordInv'
  <2>1. CASE \E u \in Uuids, o \in Odbs : Load(g, u, o)
    BY <2>1, <1>1, <1>a DEF Load, PoolOpen, clientVars, Watched, Pending, InChannel
  <2>2. CASE Publish(g)
    <3>1. opening[g] \in Odbs /\ opening[g] \in open /\ owner[opening[g]] \in Uuids
      BY <2>2 DEF Publish, OpenInv, TypeOK
    <3>2. \A v \in Uuids : dbs'[v] = dbs[v] \/ dbs'[v] = opening[g]
      BY <2>2, <3>1 DEF Publish, TypeOK
    <3>3. \A v \in Uuids : Watched(v) => Watched(v)'
      BY <1>1, <2>2, <3>1, <3>2 DEF Publish, PoolOpen, clientVars, Watched, Pending, InChannel
    <3> QED BY <1>1, <1>a, <3>3 DEF PoolOpen, clientVars
  <2>3. CASE SendUnlocked(g)
    <3>1. [type |-> "Unlocked", uuid |-> owner[opening[g]]] \in Event
      BY <2>3 DEF SendUnlocked, Event, OpenInv
    <3>2. \A f \in Event : InChannel(f) => InChannel(f)'
      BY <1>c, <2>3, <3>1, SendKeeps DEF SendUnlocked
    <3> QED BY <1>1, <1>a, <2>3, <3>2, LockedEvent
            DEF PoolOpen, SendUnlocked, clientVars, Watched, Pending
  <2> QED BY <1>1, <2>1, <2>2, <2>3 DEF PoolOpen
<1>2. ASSUME NEW u \in Uuids, PoolLock(u) PROVE RecordInv'
  <2>1. /\ \A f \in Event : InChannel(f) => InChannel(f)'
        /\ Len(chan) < ChanCap => InChannel([type |-> "Locked", uuid |-> u])'
    BY <1>2, <1>c, LockedEvent, SendKeeps DEF PoolLock, Lock
  <2>2. u \in dropped' \/ InChannel([type |-> "Locked", uuid |-> u])'
    BY <1>2, <1>c, <2>1 DEF PoolLock
  <2>3. \A v \in Uuids : Watched(v) => Watched(v)'
    <3> SUFFICES ASSUME NEW v \in Uuids, Watched(v) PROVE Watched(v)'
      OBVIOUS
    <3>1. CASE v = u BY <1>2, <2>2, <3>1 DEF PoolLock, Lock, Watched, Pending
    <3>2. CASE v # u
      <4>1. dbs[u] # dbs[v] BY <3>2, <1>2 DEF PoolLock, Lock, OpenInv, Watched, TypeOK
      <4>2. dbs[v] \in open => dbs'[v] \in open'
        BY <1>2, <4>1 DEF PoolLock, Lock
      <4>3. Pending(v) => Pending(v)'
        BY <1>2, <2>1, LockedEvent DEF PoolLock, clientVars, Pending
      <4>4. v \in dropped => v \in dropped' BY <1>2, <3>2 DEF PoolLock
      <4>5. dbs'[v] \in Odbs BY <1>2 DEF PoolLock, Lock, Watched
      <4> QED BY <4>2, <4>3, <4>4, <4>5 DEF Watched
    <3> QED BY <3>1, <3>2
  <2> QED BY <1>2, <1>a, <2>3 DEF PoolLock, clientVars
<1>3. ASSUME NEW o \in Odbs, PoolReload(o) PROVE RecordInv'
  <2>1. [type |-> "Reloaded", uuid |-> owner[o]] \in Event
    BY <1>3 DEF PoolReload, Reload, Event, OpenInv
  <2>2. \A f \in Event : InChannel(f) => InChannel(f)'
    BY <1>3, <1>c, <2>1, SendKeeps DEF PoolReload, Reload, TrySend
  <2> QED BY <1>3, <1>a, <2>2, LockedEvent
          DEF PoolReload, Reload, clientVars, Watched, Pending
<1>4. CASE TakeEvent
  <2>1. \A f \in Event : InChannel(f) => f = Head(chan) \/ InChannel(f)'
    BY <1>4, <1>c, ReceiveKeeps DEF TakeEvent
  <2>2. \A v \in Uuids : Watched(v) => Watched(v)'
    BY <1>4, <2>1, LockedEvent DEF TakeEvent, Receive, Idle, Watched, Pending
  <2> QED BY <1>4, <1>t, <2>2 DEF TakeEvent, RecordInv
<1>5. CASE Extract
  <2>1. handling \in Event /\ handling.type = "Unlocked" BY <1>5, <1>t DEF Extract
  <2>2. \A v \in Uuids : Watched(v) => Watched(v)'
    BY <1>5, <2>1, LockedEvent
    DEF Extract, EventDone, poolVars, Watched, Pending, InChannel
  <2>3. stage' = "push" => Watched(handling.uuid)' /\ handling' = handling
    BY <1>5, <1>t DEF Extract, EventDone, poolVars, Watched, TypeOK
  <2>4. keys' = keys /\ running' = running /\ stage' \in {"push", "none"}
    BY <1>5 DEF Extract, EventDone
  <2> QED BY <2>2, <2>3, <2>4, <1>t DEF RecordInv
<1>6. CASE NoteKeys
  <2>1. \A v \in Uuids : Watched(v) => Watched(v)'
    BY <1>6, <1>b DEF NoteKeys, poolVars
  <2>2. \A k \in Keys : keys[k] = handling.uuid => k \in todo'
    BY <1>6, <1>t DEF NoteKeys, KeysForDB, RecordInv, Watched
  <2> QED BY <1>6, <1>t, <2>1, <2>2 DEF NoteKeys, RecordInv
<1>7. CASE Return
  <2>1. handling \in Event /\ UNCHANGED <<dbs, open, chan, dropped, keys, running>>
        /\ stage' = "none"
    BY <1>7, <1>t DEF Return, EventDone, poolVars
  <2>2. handling.type = "Locked" => \A k \in Keys : keys[k] # handling.uuid
    BY <1>7 DEF Return, StageInv, RecordInv
  <2>3. ASSUME NEW k \in Keys, keys[k] # None PROVE Watched(keys[k])'
    <3>1. handling # [type |-> "Locked", uuid |-> keys[k]]
      BY <1>t, <2>1, <2>2, <2>3, LockedEvent
    <3>2. Watched(keys[k]) BY <2>3 DEF RecordInv
    <3> QED BY <2>1, <3>1, <3>2 DEF Watched, Pending, InChannel
  <2> QED BY <2>1, <2>3 DEF RecordInv
<1>8. CASE Terminate
  <2>1. \A v \in Uuids : Watched(v) => Watched(v)'
    BY <1>8, <1>b DEF Terminate, poolVars
  <2> QED BY <1>8, <1>t, <2>1 DEF Terminate, TrackedKeys, RecordInv
<1>9. CASE Closed
  <2>1. \A v \in Uuids : Watched(v) => Watched(v)'
    BY <1>9, <1>b DEF Closed, poolVars
  <2> QED BY <1>9, <1>t, <2>1 DEF Closed, RecordInv
<1>10. ASSUME NEW k \in Keys, PushKey(k) PROVE RecordInv'
  <2>1. \A v \in Uuids : Watched(v) => Watched(v)'
    BY <1>10, <1>b DEF PushKey, poolVars
  <2>2. \A j \in Keys : keys'[j] \in {keys[j], handling.uuid}
    BY <1>10 DEF PushKey, AddKey, Tracked, TypeOK
  <2>3. /\ stage = "push" /\ running \notin {"stop", "done"} /\ handling.uuid \in Uuids
        /\ UNCHANGED <<stage, running, handling>>
    BY <1>10, <1>t DEF PushKey, StageInv
  <2> QED BY <1>t, <2>1, <2>2, <2>3 DEF RecordInv
<1>11. ASSUME NEW k \in Keys, RemoveKey(k) PROVE RecordInv'
  <2>1. \A v \in Uuids : Watched(v) => Watched(v)'
    BY <1>11, <1>b DEF RemoveKey, poolVars
  <2>2. keys'[k] = None /\ \A j \in Keys \ {k} : keys'[j] = keys[j]
    BY <1>11 DEF RemoveKey, removeByFingerprint, TypeOK
  <2>3. /\ stage \in {"remove", "close"} /\ todo' = todo \ {k} /\ running # "done"
        /\ UNCHANGED <<stage, running, handling>>
    BY <1>11 DEF RemoveKey, StageInv
  <2>4. stage = "remove" => handling.uuid # None BY <1>t DEF StageInv
  <2> QED BY <1>t, <2>1, <2>2, <2>3, <2>4 DEF RecordInv
<1>12. CASE AgentStep \/ UNCHANGED vars
  BY <1>12, <1>a, <1>b DEF AgentStep, clientVars, poolVars, vars
<1> QED
  BY <1>1, <1>2, <1>3, <1>4, <1>5, <1>6, <1>7, <1>8, <1>9, <1>10, <1>11, <1>12
  DEF Next, LoopStep

\* Every step keeps the agent's confirmed keys in the record.
LEMMA TrackedStep == TypeOK /\ StageInv /\ PushedIsTracked /\ [Next]_vars => PushedIsTracked'
<1> SUFFICES ASSUME TypeOK, StageInv, PushedIsTracked, [Next]_vars PROVE PushedIsTracked'
  OBVIOUS
<1>1. CASE UNCHANGED <<keys, agent, orphans>> BY <1>1 DEF PushedIsTracked
<1>2. ASSUME NEW k \in Keys, PushKey(k) PROVE PushedIsTracked'
  <2>1. handling.uuid \in Uuids BY <1>2, ClientConstants DEF PushKey, StageInv, TypeOK, Event
  <2> QED BY <1>2, <2>1, Requests DEF PushKey
<1>3. ASSUME NEW k \in Keys, RemoveKey(k) PROVE PushedIsTracked'
  <2>1. \A j \in Keys \ {k} : keys'[j] = keys[j]
    BY <1>3 DEF RemoveKey, removeByFingerprint, TypeOK
  <2>2. agent' \ orphans' \subseteq (agent \ orphans) \ {k}
    BY <1>3 DEF RemoveKey, removeByFingerprint
  <2> QED BY <2>1, <2>2 DEF PushedIsTracked, TypeOK
<1>4. CASE AgentStep
  BY <1>4 DEF AgentStep, AgentStops, AgentUnreachable, AgentReachable, AgentDrops,
              clientVars, PushedIsTracked
<1> QED
  BY <1>1, <1>2, <1>3, <1>4
  DEF Next, LoopStep, PoolOpen, PoolLock, PoolReload, TakeEvent, Extract, NoteKeys, Return,
      Terminate, Closed, clientVars, agentVars, vars

\* The inductive invariant holds throughout.
LEMMA ClientInvariant == Spec => []IInv
<1>1. Init => IInv
  BY EventConstants, ClientConstants
  DEF Init, PoolInit, IInv, TypeOK, OpenInv, StageInv, RecordInv, PushedIsTracked
<1>2. IInv /\ [Next]_vars => IInv'
  BY ClientTypeStep, ClientOpenStep, StageStep, RecordStep, TrackedStep DEF IInv
<1> QED BY <1>1, <1>2, PTL DEF Spec

\* The record, the handler's locals and the agent's keys keep their types
\* (client.go, AgentClient).
THEOREM ClientTypeCorrect == Spec => []TypeOK
<1>1. IInv => TypeOK BY DEF IInv
<1> QED BY <1>1, ClientInvariant, PTL

\* client.go, AddKey and removeByFingerprint: a key of kpxcd in the external
\* agent is in kpxcd's record, unless a request for it was not confirmed.
THEOREM PushedIsKnown == Spec => []PushedIsTracked
<1>1. IInv => PushedIsTracked BY DEF IInv
<1> QED BY <1>1, ClientInvariant, PTL

\* client.go, OnDatabaseUnlocked and OnDatabaseLocked: pushed keys leave the
\* external agent after their database is locked, however the lock races with
\* the extraction of keys.
THEOREM PushedFollowLocks == Spec => []PushedGoWithLock
<1>1. IInv => PushedGoWithLock
  BY DEF IInv, TypeOK, RecordInv, Watched, PushedIsTracked, PushedGoWithLock
<1> QED BY <1>1, ClientInvariant, PTL

\* client.go, Close: shutdown leaves no confirmed key behind.
THEOREM CloseLeavesOrphansOnly == Spec => []CloseTakesAll
<1>1. IInv => CloseTakesAll
  BY DEF IInv, TypeOK, RecordInv, PushedIsTracked, CloseTakesAll
<1> QED BY <1>1, ClientInvariant, PTL
=============================================================================
