------------------------------- MODULE DbPool -------------------------------
(***************************************************************************)
(* The pool of open databases (internal/dbpool/pool.go) and the goroutines *)
(* that meet in it: D-Bus handlers that open, lock, read and update        *)
(* databases, the file watcher of every open database, and the daemon's    *)
(* event loop (internal/daemon/daemon.go), which is the only reader of the *)
(* bounded event channel.                                                  *)
(*                                                                         *)
(* Locks are Go's sync.RWMutex: a writer first announces itself, which     *)
(* blocks new readers, and enters when the present readers have left.  A   *)
(* critical section that calls nothing blocking is one step; one that      *)
(* waits for another lock, a channel or a goroutine is several.            *)
(***************************************************************************)
EXTENDS Naturals, Sequences, FiniteSets

CONSTANTS
  Callers,  \* goroutines of D-Bus method calls
  Loop,     \* the goroutine of DaemonApp.Run
  Uuids,    \* databases
  Odbs,     \* OpenDatabase objects
  Pool,     \* stands for DatabasePool.mu
  ChanCap,  \* capacity of the event channel (16 in daemon.go)
  None

ASSUME PoolConstants ==
  /\ Loop \notin Callers /\ Pool \notin Odbs
  /\ None \notin Callers \cup {Loop} \cup Odbs \cup Uuids
  /\ ChanCap \in Nat \ {0}

VARIABLES
  dbs,        \* dbs[u]: the pool's map, None where the key is absent
  uuid,       \* uuid[o]: database of the object, None while not allocated
  db,         \* db[o]: "plain" while Db holds decrypted content, else "nil"
  locked,     \* locked[o]: the field Locked
  watcher,    \* watcher[o]: the field Watcher is not nil
  wst,        \* wst[o]: where the watcher goroutine is
  cancelled,  \* cancelled[o]: its context is cancelled
  chan,       \* the event channel
  wr,         \* wr[l]: goroutine that announced a write on lock l, or None
  pc, uid, obj, todo, victims,  \* control and locals of the goroutines
  idleArmed,  \* the one-shot idle timer has not fired
  phase       \* of DaemonApp.Run: autoUnlock, event loop, deferred Close

localVars == <<uid, obj, todo, victims>>
odbVars == <<uuid, db, locked, watcher, wst, cancelled>>
vars == <<dbs, uuid, db, locked, watcher, wst, cancelled, chan, wr,
          pc, uid, obj, todo, victims, idleArmed, phase>>

Goroutines == Callers \cup {Loop}
Locks == Odbs \cup {Pool}
Event == [type : {"Unlocked", "Locked", "Reloaded"}, uuid : Uuids]

\* Who holds the read lock: LockAll that of the pool while it scans, and
\* Collection.Items that of the database from its first RLock on.  All other
\* holders enter and leave in one step.
Readers(l) ==
  IF l = Pool THEN {g \in Goroutines : pc[g] = "scan"}
  ELSE {g \in Goroutines : pc[g] \in {"items2", "items3"} /\ obj[g] = l}

\* A reader may enter when no writer has announced itself.
MayRead(l) == wr[l] = None

Goto(g, l) == pc' = [pc EXCEPT ![g] = l]

TrySend_Unbounded(e) == chan' = Append(chan, e)

\* select with a default case: the event is dropped when the channel is full.
TrySend(e) == chan' = IF Len(chan) < ChanCap THEN Append(chan, e) ELSE chan

-----------------------------------------------------------------------------
(* RWMutex.Lock: announce, then wait for the readers *)

\* A goroutine calls Lock: no other writer is inside or waiting to enter.
Announce(g) ==
  \E l \in Locks :
    /\ wr[l] = None
    /\ wr' = [wr EXCEPT ![l] = g]
    /\ \/ l = Pool /\ pc[g] = "openP" /\ Goto(g, "publish")
       \/ l = Pool /\ pc[g] = "lockP" /\ Goto(g, "lookup")
       \/ l = Pool /\ pc[g] = "closeP" /\ Goto(g, "reset")
       \/ l = obj[g] /\ pc[g] = "lockO" /\ Goto(g, "wipe")
       \/ l = obj[g] /\ pc[g] = "updateO" /\ Goto(g, "update")
    /\ UNCHANGED <<dbs, odbVars, chan, localVars, idleArmed, phase>>

MayWrite_Early(g, l) == wr[l] = g

\* The second half: the announced writer enters when the readers have left.
MayWrite(g, l) == wr[l] = g /\ Readers(l) = {}

-----------------------------------------------------------------------------
(* Open *)

\* The file is decoded into a new object and its watcher is started.  The
\* daemon's own goroutine opens databases in autoUnlock, before it starts to
\* drain the event channel but after the D-Bus services are up.
OpenLoad(g, u, o) ==
  /\ pc[g] = "idle" /\ uuid[o] = None
  /\ g = Loop => phase = "boot"
  /\ uuid' = [uuid EXCEPT ![o] = u]
  /\ db' = [db EXCEPT ![o] = "plain"]
  /\ watcher' = [watcher EXCEPT ![o] = TRUE]
  /\ wst' = [wst EXCEPT ![o] = "watch"]
  /\ obj' = [obj EXCEPT ![g] = o]
  /\ Goto(g, "openP")
  /\ UNCHANGED <<dbs, locked, cancelled, chan, wr, uid, todo, victims,
                 idleArmed, phase>>

\* p.dbs[uuid] = odb, whether or not the key was there.
OpenPublish(g) ==
  /\ pc[g] = "publish" /\ MayWrite(g, Pool)
  /\ dbs' = [dbs EXCEPT ![uuid[obj[g]]] = obj[g]]
  /\ wr' = [wr EXCEPT ![Pool] = None]
  /\ Goto(g, "openSend")
  /\ UNCHANGED <<odbVars, chan, localVars, idleArmed, phase>>

\* The Unlocked event is sent after the pool's lock is released.
OpenSend(g) ==
  /\ pc[g] = "openSend"
  /\ TrySend([type |-> "Unlocked", uuid |-> uuid[obj[g]]])
  /\ obj' = [obj EXCEPT ![g] = None]
  /\ Goto(g, "idle")
  /\ UNCHANGED <<dbs, odbVars, wr, uid, todo, victims, idleArmed, phase>>

-----------------------------------------------------------------------------
(* Lock, LockAll, Close *)

LockDatabase(g, u) ==
  /\ pc[g] = "idle" /\ g \in Callers
  /\ victims' = [victims EXCEPT ![g] = {u}]
  /\ Goto(g, "next")
  /\ UNCHANGED <<dbs, odbVars, chan, wr, uid, obj, todo, idleArmed, phase>>

\* LockAll: read-lock the pool, then look at every object in it.
LockAllStart(g) ==
  /\ MayRead(Pool)
  /\ todo' = [todo EXCEPT ![g] = {dbs[u] : u \in Uuids} \ {None}]
  /\ Goto(g, "scan")
  /\ UNCHANGED <<dbs, odbVars, chan, wr, uid, obj, victims>>

\* A D-Bus LockAll call.
CallLockAll(g) ==
  /\ pc[g] = "idle" /\ g \in Callers
  /\ LockAllStart(g)
  /\ UNCHANGED <<idleArmed, phase>>

LockAllScan(g) ==
  /\ pc[g] = "scan"
  /\ \E o \in todo[g] :
       /\ MayRead(o)
       /\ todo' = [todo EXCEPT ![g] = @ \ {o}]
       /\ victims' = [victims EXCEPT
                        ![g] = IF locked[o] THEN @ ELSE @ \cup {uuid[o]}]
  /\ UNCHANGED <<dbs, odbVars, chan, wr, pc, uid, obj, idleArmed, phase>>

LockAllScanned(g) ==
  /\ pc[g] = "scan" /\ todo[g] = {}
  /\ Goto(g, "next")
  /\ UNCHANGED <<dbs, odbVars, chan, wr, localVars, idleArmed, phase>>

\* The loop over the snapshot; afterwards LockAll (or Lock) returns.
LockNext(g) ==
  /\ pc[g] = "next"
  /\ \/ \E u \in victims[g] :
          /\ victims' = [victims EXCEPT ![g] = @ \ {u}]
          /\ uid' = [uid EXCEPT ![g] = u]
          /\ Goto(g, "lockP")
     \/ /\ victims[g] = {}
        /\ Goto(g, IF phase = "close" /\ g = Loop THEN "closeP" ELSE "idle")
        /\ UNCHANGED <<victims, uid>>
  /\ UNCHANGED <<dbs, odbVars, chan, wr, obj, todo, idleArmed, phase>>

LockLookup(g) ==
  /\ pc[g] = "lookup" /\ MayWrite(g, Pool)
  /\ \/ /\ dbs[uid[g]] = None
        /\ wr' = [wr EXCEPT ![Pool] = None]
        /\ Goto(g, "next")
        /\ uid' = [uid EXCEPT ![g] = None]
        /\ UNCHANGED obj
     \/ /\ dbs[uid[g]] # None
        /\ obj' = [obj EXCEPT ![g] = dbs[uid[g]]]
        /\ Goto(g, "lockO")
        /\ UNCHANGED <<wr, uid>>
  /\ UNCHANGED <<dbs, odbVars, chan, todo, victims, idleArmed, phase>>

\* wipeDatabaseContent, Db = nil, Locked = true, Watcher.cancel().
LockWipe(g) ==
  LET o == obj[g] IN
  /\ pc[g] = "wipe" /\ MayWrite(g, o)
  /\ db' = [db EXCEPT ![o] = "nil"]
  /\ locked' = [locked EXCEPT ![o] = TRUE]
  /\ cancelled' = [cancelled EXCEPT ![o] = @ \/ watcher[o]]
  /\ Goto(g, "await")
  /\ UNCHANGED <<dbs, uuid, watcher, wst, chan, wr, localVars, idleArmed, phase>>

WatcherGone_NoWait(o) == TRUE

\* <-odb.Watcher.done, if there is a watcher.
WatcherGone(o) == watcher[o] => wst[o] = "done"

\* With both locks still held: drop the watcher, send Locked, unlock.
LockFinish(g) ==
  LET o == obj[g] IN
  /\ pc[g] = "await" /\ WatcherGone(o)
  /\ watcher' = [watcher EXCEPT ![o] = FALSE]
  /\ TrySend([type |-> "Locked", uuid |-> uid[g]])
  /\ wr' = [wr EXCEPT ![o] = None, ![Pool] = None]
  /\ obj' = [obj EXCEPT ![g] = None]
  /\ uid' = [uid EXCEPT ![g] = None]
  /\ Goto(g, "next")
  /\ UNCHANGED <<dbs, uuid, db, locked, wst, cancelled, todo, victims,
                 idleArmed, phase>>

\* Close, after LockAll: the map is replaced by an empty one.
CloseReset(g) ==
  /\ pc[g] = "reset" /\ MayWrite(g, Pool)
  /\ dbs' = [u \in Uuids |-> None]
  /\ wr' = [wr EXCEPT ![Pool] = None]
  /\ Goto(g, "closed")
  /\ UNCHANGED <<odbVars, chan, localVars, idleArmed, phase>>

-----------------------------------------------------------------------------
(* Readers and writers of one database *)

\* An object others can reach: Open has put it into the pool's map.  Replaced
\* objects stay reachable through the collections that were built from them.
Published(o) ==
  /\ uuid[o] # None
  /\ \A g \in Goroutines : obj[g] = o => pc[g] \notin {"openP", "publish"}

\* Collection.Items, SshScanDatabase: RLock, and while it is held a helper takes
\* RLock again.  Items returns early on a locked database; SshScanDatabase has
\* looked at Locked in an earlier critical section.
ItemsRLock(g, o) ==
  /\ pc[g] = "idle" /\ g \in Callers /\ Published(o) /\ MayRead(o)
  /\ obj' = [obj EXCEPT ![g] = o]
  /\ \/ Goto(g, "items2")
     \/ locked[o] /\ Goto(g, "items3")
  /\ UNCHANGED <<dbs, odbVars, chan, wr, uid, todo, victims, idleArmed, phase>>

ItemsRLockAgain(g) ==
  /\ pc[g] = "items2" /\ MayRead(obj[g])
  /\ Goto(g, "items3")
  /\ UNCHANGED <<dbs, odbVars, chan, wr, localVars, idleArmed, phase>>

\* RUnlock.  Items is through; SshScanDatabase goes on to extract keys from Db.
ItemsReturn(g) ==
  /\ pc[g] = "items3"
  /\ \/ Goto(g, "idle") /\ obj' = [obj EXCEPT ![g] = None]
     \/ Goto(g, "extract") /\ UNCHANGED obj
  /\ UNCHANGED <<dbs, odbVars, chan, wr, uid, todo, victims, idleArmed, phase>>

\* The end of ExtractKeyFromEntry or ExtractKeysFromDatabase, which have read
\* Db without the lock.
Extracted(g) ==
  /\ pc[g] = "extract"
  /\ obj' = [obj EXCEPT ![g] = None]
  /\ Goto(g, "idle")
  /\ UNCHANGED <<dbs, odbVars, chan, wr, uid, todo, victims, idleArmed, phase>>

\* UpdateAndSave: the write lock of the database alone (module KdbxSave).
UpdateStart(g, o) ==
  /\ pc[g] = "idle" /\ g \in Callers /\ Published(o)
  /\ obj' = [obj EXCEPT ![g] = o]
  /\ Goto(g, "updateO")
  /\ UNCHANGED <<dbs, odbVars, chan, wr, uid, todo, victims, idleArmed, phase>>

UpdateReturn(g) ==
  /\ pc[g] = "update" /\ MayWrite(g, obj[g])
  /\ wr' = [wr EXCEPT ![obj[g]] = None]
  /\ obj' = [obj EXCEPT ![g] = None]
  /\ Goto(g, "idle")
  /\ UNCHANGED <<dbs, odbVars, chan, uid, todo, victims, idleArmed, phase>>

-----------------------------------------------------------------------------
(* The file watcher of an object *)

\* A change of the file (fsnotify); a removed file is waited for first.
WatchEvent(o) ==
  /\ wst[o] = "watch"
  /\ wst' = [wst EXCEPT ![o] = "send"]
  /\ UNCHANGED <<dbs, uuid, db, locked, watcher, cancelled, chan, wr, pc,
                 localVars, idleArmed, phase>>

WatchSend(o) ==
  /\ wst[o] = "send" /\ Len(chan) < ChanCap
  /\ chan' = Append(chan, [type |-> "Reloaded", uuid |-> uuid[o]])
  /\ wst' = [wst EXCEPT ![o] = "watch"]
  /\ UNCHANGED <<dbs, uuid, db, locked, watcher, cancelled, wr, pc,
                 localVars, idleArmed, phase>>

WatchStops_NotWhileSending(o) == wst[o] = "watch" /\ cancelled[o]

\* ctx.Done is a case of the main select, of the one that sends and of
\* waitForRecreate.
WatchStops(o) == wst[o] \in {"watch", "send"} /\ cancelled[o]

\* The goroutine also ends when the file cannot be watched, or has not come
\* back within five seconds.
WatchDone(o) ==
  /\ WatchStops(o) \/ wst[o] = "watch"
  /\ wst' = [wst EXCEPT ![o] = "done"]
  /\ UNCHANGED <<dbs, uuid, db, locked, watcher, cancelled, chan, wr, pc,
                 localVars, idleArmed, phase>>

WatchObeysCancel(o) == WatchStops(o) /\ WatchDone(o)

-----------------------------------------------------------------------------
(* The event loop *)

\* autoUnlock is through: eventLoop starts.
LoopStart ==
  /\ pc[Loop] = "idle" /\ phase = "boot"
  /\ phase' = "run"
  /\ UNCHANGED <<dbs, odbVars, chan, wr, pc, localVars, idleArmed>>

\* An event is taken and dispatched.
LoopTake ==
  /\ pc[Loop] = "idle" /\ phase = "run" /\ chan # <<>>
  /\ chan' = Tail(chan)
  /\ uid' = [uid EXCEPT ![Loop] = Head(chan).uuid]
  /\ Goto(Loop, Head(chan).type)
  /\ UNCHANGED <<dbs, odbVars, wr, obj, todo, victims, idleArmed, phase>>

\* What follows pool.Get when it has found the database: Secret Service builds
\* the collection, the SSH agent extracts the keys.
AfterGet == [Unlocked |-> "handle", getAgent |-> "extract", Reloaded |-> "rebuild",
             Locked |-> "idle"]

\* The handlers call pool.Get, for Unlocked once more for the SSH agent, server
\* or client; Locked only removes the collection and the identities.
LoopGet ==
  /\ pc[Loop] \in DOMAIN AfterGet /\ MayRead(Pool)
  /\ LET l == IF dbs[uid[Loop]] # None THEN AfterGet[pc[Loop]]
              ELSE IF pc[Loop] = "Unlocked" THEN "getAgent" ELSE "idle" IN
       /\ Goto(Loop, l)
       /\ obj' = [obj EXCEPT ![Loop] =
                   IF l \in {"handle", "extract", "rebuild"} THEN dbs[uid[Loop]] ELSE None]
       /\ uid' = [uid EXCEPT ![Loop] = IF l \in {"handle", "getAgent"} THEN @ ELSE None]
  /\ UNCHANGED <<dbs, odbVars, chan, wr, todo, victims, idleArmed, phase>>

\* The collection is built under the object's read lock.
LoopHandle ==
  /\ pc[Loop] \in {"handle", "rebuild"} /\ MayRead(obj[Loop])
  /\ obj' = [obj EXCEPT ![Loop] = None]
  /\ Goto(Loop, IF pc[Loop] = "handle" THEN "getAgent" ELSE "idle")
  /\ UNCHANGED <<dbs, odbVars, chan, wr, uid, todo, victims, idleArmed, phase>>

\* The idle timer: LockAll on the goroutine that should drain the channel.
LoopIdle ==
  /\ pc[Loop] = "idle" /\ phase = "run" /\ idleArmed
  /\ LockAllStart(Loop)
  /\ idleArmed' = FALSE
  /\ UNCHANGED phase

\* SIGTERM: the loop returns and the deferred pool.Close runs.
LoopClose ==
  /\ pc[Loop] = "idle" /\ phase = "run"
  /\ LockAllStart(Loop)
  /\ phase' = "close"
  /\ UNCHANGED idleArmed

-----------------------------------------------------------------------------
Init ==
  /\ dbs = [u \in Uuids |-> None]
  /\ uuid = [o \in Odbs |-> None]
  /\ db = [o \in Odbs |-> "nil"]
  /\ locked = [o \in Odbs |-> FALSE]
  /\ watcher = [o \in Odbs |-> FALSE]
  /\ wst = [o \in Odbs |-> "none"]
  /\ cancelled = [o \in Odbs |-> FALSE]
  /\ chan = <<>>
  /\ wr = [l \in Locks |-> None]
  /\ pc = [g \in Goroutines |-> "idle"]
  /\ uid = [g \in Goroutines |-> None]
  /\ obj = [g \in Goroutines |-> None]
  /\ todo = [g \in Goroutines |-> {}]
  /\ victims = [g \in Goroutines |-> {}]
  /\ idleArmed = TRUE /\ phase = "boot"

\* autoUnlock opens the configured databases.
AutoUnlock == \E u \in Uuids, o \in Odbs : OpenLoad(Loop, u, o)

\* A method call arrives.
Call(g) ==
  \/ \E u \in Uuids : LockDatabase(g, u) \/ \E o \in Odbs : OpenLoad(g, u, o)
  \/ CallLockAll(g)
  \/ \E o \in Odbs : ItemsRLock(g, o) \/ UpdateStart(g, o)

\* A goroutine goes on with the call it is in.
Continue(g) ==
  \/ Announce(g) \/ OpenPublish(g) \/ OpenSend(g)
  \/ LockAllScan(g) \/ LockAllScanned(g) \/ LockNext(g) \/ LockLookup(g)
  \/ LockWipe(g) \/ LockFinish(g) \/ CloseReset(g)
  \/ ItemsRLockAgain(g) \/ ItemsReturn(g) \/ Extracted(g) \/ UpdateReturn(g)

LoopStep == LoopStart \/ LoopTake \/ LoopGet \/ LoopHandle

Watch(o) == WatchEvent(o) \/ WatchSend(o) \/ WatchDone(o)

Next ==
  \/ \E g \in Callers : Call(g)
  \/ \E g \in Goroutines : Continue(g)
  \/ AutoUnlock \/ LoopStep \/ LoopIdle \/ LoopClose
  \/ \E o \in Odbs : Watch(o)

Spec == Init /\ [][Next]_vars

\* Runnable goroutines run.  A goroutine that waits for a lock gets it if it
\* is free again and again: a blocked RLock is admitted when the writer
\* leaves, and sync.Mutex, which orders the writers, hands the lock over to
\* the first waiter after a millisecond.  A watcher whose context is cancelled
\* sees it, since every select of it has that case.
Fairness ==
  /\ \A g \in Goroutines : SF_vars(Continue(g))
  /\ SF_vars(LoopStep)
  /\ \A o \in Odbs : WF_vars(WatchObeysCancel(o))

FairSpec == Spec /\ Fairness

\* The configured idle timer, once armed, expires.
TimerSpec == FairSpec /\ WF_vars(LoopIdle)

-----------------------------------------------------------------------------
(* Properties *)

PCs == {"idle", "openP", "publish", "openSend", "scan", "next", "lockP",
        "lookup", "lockO", "wipe", "await", "closeP", "reset", "closed",
        "items2", "items3", "extract", "updateO", "update",
        "Unlocked", "Locked", "Reloaded", "handle", "getAgent", "rebuild"}

\* Every variable holds a value of its type; the channel keeps its capacity.
TypeOK ==
  /\ dbs \in [Uuids -> Odbs \cup {None}]
  /\ uuid \in [Odbs -> Uuids \cup {None}]
  /\ db \in [Odbs -> {"plain", "nil"}]
  /\ locked \in [Odbs -> BOOLEAN] /\ watcher \in [Odbs -> BOOLEAN]
  /\ wst \in [Odbs -> {"none", "watch", "send", "done"}]
  /\ cancelled \in [Odbs -> BOOLEAN]
  /\ chan \in Seq(Event) /\ Len(chan) <= ChanCap
  /\ wr \in [Locks -> Goroutines \cup {None}]
  /\ pc \in [Goroutines -> PCs]
  /\ uid \in [Goroutines -> Uuids \cup {None}]
  /\ obj \in [Goroutines -> Odbs \cup {None}]
  /\ todo \in [Goroutines -> SUBSET Odbs]
  /\ victims \in [Goroutines -> SUBSET Uuids]
  /\ idleArmed \in BOOLEAN /\ phase \in {"boot", "run", "close"}

\* pool.go:273: a locked database has no decrypted content and, once Lock has
\* released it, no watcher that could still send events.
LockedIsWiped ==
  \A o \in Odbs : locked[o] =>
    /\ db[o] = "nil"
    /\ wr[o] = None => ~watcher[o] /\ wst[o] = "done"

\* The goroutine reads or writes the content of o.
Uses(g, o) == obj[g] = o /\ pc[g] \in {"items2", "items3", "extract", "update"}

\* Lock (pool.go:274-307) wipes with both locks held: from the wipe until the
\* watcher is gone no scan of the pool and no other writer is under way, and
\* nobody reads that database but an extraction of SSH keys (server.go:333,
\* client.go:47, dbusapi.go:436), which takes no lock and may find the content
\* gone.  A late read of a copied entry, which shares its values with the tree,
\* is not one of Db: that of GetSecret (item.go:215) is in SecretItems, those of
\* the D-Bus API (dbusapi.go:254-257, :294-299) return titles and names only.
WipeMeetsExtractionOnly ==
  \A g \in Goroutines : pc[g] = "await" =>
    /\ \A r \in Goroutines : Uses(r, obj[g]) => pc[r] = "extract"
    /\ Readers(Pool) = {} /\ wr[obj[g]] = g /\ wr[Pool] = g

\* The pool as its users see it.  An object counts as open until Lock has
\* dropped its watcher and sent the event: until then Lock holds both locks.
OpenObjects == {o \in Odbs : uuid[o] # None /\ (~locked[o] \/ watcher[o])}
Opening == [g \in Goroutines |->
              IF pc[g] \in {"openP", "publish", "openSend"} THEN obj[g] ELSE None]
Unannounced == {g \in Goroutines : pc[g] = "openSend"}

Abstract == INSTANCE PoolEvents
  WITH Openers <- Goroutines, owner <- uuid, open <- OpenObjects,
       opening <- Opening, published <- Unannounced

\* Open, Lock, LockAll, Close and the watchers, with all their locks, are an
\* atomic pool: every step is one of PoolEvents or is not visible there.
ImplementsPoolEvents == Abstract!PoolSpec

\* Lock, LockAll and Close are under way.
Locking(g) == pc[g] \in {"scan", "next", "lockP", "lookup", "lockO", "wipe",
                         "await", "closeP", "reset"}

\* A reader that holds the read lock of a database asks for it again behind a
\* writer that waits for it to leave.
NestedWait ==
  \E g \in Callers : pc[g] = "items2" /\ wr[obj[g]] # None

\* Lock and LockAll return, although they wait for two locks and for a
\* watcher that may itself wait for the event channel, and although LockAll
\* may run on the goroutine that drains this channel; unless a nested read
\* lock has deadlocked.
LockReturnsUnlessNested ==
  \A g \in Goroutines : Locking(g) ~> ~Locking(g) \/ NestedWait

\* pool.go:273, :309: Lock "locks a database by UUID" and returns.
LockReturns == \A g \in Goroutines : Locking(g) ~> ~Locking(g)

\* doc/config.md:132, idle_timeout: "Seconds of inactivity before locking all
\* databases."  A daemon that runs on and is not called any more has all its
\* databases locked in the end.
InactivityLocks ==
  <>[](phase = "run" /\ \A g \in Callers : pc[g] = "idle")
    => <>[](\A u \in Uuids : dbs[u] # None => locked[dbs[u]])
=============================================================================
