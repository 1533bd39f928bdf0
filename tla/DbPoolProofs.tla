---------------------------- MODULE DbPoolProofs ----------------------------
(***************************************************************************)
(* Proofs about DbPool, for any number of goroutines, databases and        *)
(* objects and any channel capacity: the two-level locking of              *)
(* DatabasePool.Lock keeps all but the extraction of SSH keys out of a     *)
(* database that is being wiped, and a locked database has neither content *)
(* nor a watcher.                                                          *)
(***************************************************************************)
EXTENDS DbPool, TLAPS

\* The goroutine has announced a write on the pool's lock, or on that of o.
HoldsPool(g) == pc[g] \in {"publish", "lookup", "lockO", "wipe", "await", "reset"}
HoldsOdb(g, o) == pc[g] \in {"wipe", "await", "update"} /\ obj[g] = o

\* Who has announced a write is told by the program counters.
WriterInv ==
  /\ \A g \in Goroutines : wr[Pool] = g <=> HoldsPool(g)
  /\ \A g \in Goroutines, o \in Odbs : wr[o] = g <=> HoldsOdb(g, o)

\* Locals are set where they are used, and name objects that exist.
LocalInv ==
  /\ \A g \in Goroutines :
       /\ pc[g] \in {"openP", "publish", "openSend", "lockO", "wipe", "await",
                     "items2", "items3", "extract", "updateO", "update", "handle", "rebuild"}
            => obj[g] \in Odbs
       /\ obj[g] \in Odbs => uuid[obj[g]] \in Uuids
       /\ pc[g] \in {"lockP", "lookup", "lockO", "wipe", "await", "Unlocked", "Locked",
                     "Reloaded", "handle", "getAgent"}
            => uid[g] \in Uuids
       /\ \A o \in todo[g] : uuid[o] \in Uuids
  /\ \A u \in Uuids : dbs[u] \in Odbs => uuid[dbs[u]] \in Uuids
  /\ \A o \in Odbs : wst[o] # "none" => uuid[o] \in Uuids

\* While Lock holds the pool's write lock nobody scans the pool, and while it
\* wipes a database nobody reads that database.
ReaderInv ==
  \A g \in Goroutines :
    /\ pc[g] \in {"lockO", "wipe", "await"} =>
         \A r \in Goroutines : pc[r] # "scan"
    /\ pc[g] = "await" =>
         \A r \in Goroutines : pc[r] \in {"items2", "items3"} => obj[r] # obj[g]

\* What Lock has done to an object, and that only Lock drops a watcher.
WipeInv ==
  \A o \in Odbs :
    /\ locked[o] => db[o] = "nil" /\ uuid[o] \in Uuids
    /\ locked[o] /\ watcher[o] =>
         \E g \in Goroutines : pc[g] = "await" /\ obj[g] = o
    /\ uuid[o] \in Uuids /\ ~watcher[o] => wst[o] = "done" /\ locked[o]
    /\ \A g \in Goroutines : pc[g] = "await" /\ obj[g] = o => locked[o]

\* Sending keeps the channel typed and within its capacity, whether the event
\* is dropped or not; receiving gives an event.
LEMMA ChannelTypes ==
  ASSUME chan \in Seq(Event), Len(chan) <= ChanCap, NEW e \in Event
  PROVE  /\ TrySend(e) => chan' \in Seq(Event) /\ Len(chan') <= ChanCap
         /\ Len(chan) < ChanCap =>
              Append(chan, e) \in Seq(Event) /\ Len(Append(chan, e)) <= ChanCap
  BY PoolConstants DEF TrySend

\* What the event loop receives is an event, and leaves a typed channel.
LEMMA ReceiveTypes ==
  ASSUME chan \in Seq(Event), Len(chan) <= ChanCap, chan # <<>>
  PROVE  /\ Head(chan).uuid \in Uuids
         /\ Head(chan).type \in {"Unlocked", "Locked", "Reloaded"}
         /\ Tail(chan) \in Seq(Event) /\ Len(Tail(chan)) <= ChanCap
<1>1. Head(chan) \in Event OBVIOUS
<1>2. Tail(chan) \in Seq(Event) /\ Len(Tail(chan)) <= ChanCap BY PoolConstants
<1> QED BY <1>1, <1>2 DEF Event

\* Every step keeps every variable in its type.
LEMMA TypeStep == TypeOK /\ LocalInv /\ [Next]_vars => TypeOK'
<1> SUFFICES ASSUME TypeOK, LocalInv, [Next]_vars PROVE TypeOK'
  OBVIOUS
<1> USE PoolConstants DEF TypeOK, LocalInv, PCs, Goroutines,
        Locks, odbVars, localVars
<1>1. ASSUME NEW g \in Goroutines, NEW u \in Uuids, NEW o \in Odbs, OpenLoad(g, u, o)
      PROVE  TypeOK'
  BY <1>1 DEF OpenLoad, Goto
<1>2. ASSUME NEW g \in Callers, Call(g) PROVE TypeOK'
  <2>1. ASSUME NEW u \in Uuids, LockDatabase(g, u) PROVE TypeOK'
    BY <2>1 DEF LockDatabase, Goto
  <2>2. CASE CallLockAll(g) BY <2>2 DEF CallLockAll, LockAllStart, Goto, MayRead
  <2>3. ASSUME NEW o \in Odbs, ItemsRLock(g, o) PROVE TypeOK'
    BY <2>3 DEF ItemsRLock, Goto, MayRead, Published
  <2>4. ASSUME NEW o \in Odbs, UpdateStart(g, o) PROVE TypeOK'
    BY <2>4 DEF UpdateStart, Goto, Published
  <2> QED BY <1>1, <1>2, <2>1, <2>2, <2>3, <2>4 DEF Call
<1>3. ASSUME NEW g \in Goroutines, Continue(g) PROVE TypeOK'
  <2>1. CASE Announce(g)
    <3>1. wr' \in [Locks -> Goroutines \cup {None}] BY <2>1 DEF Announce
    <3>2. pc' \in [Goroutines -> PCs]
      <4>1. PICK l \in PCs : Goto(g, l) BY <2>1 DEF Announce
      <4> QED BY <4>1, SMTT(30) DEF Goto
    <3> QED BY <2>1, <3>1, <3>2 DEF Announce
  <2>2. CASE OpenPublish(g) BY <2>2 DEF OpenPublish, MayWrite, Goto
  <2>3. CASE OpenSend(g)
    <3>1. [type |-> "Unlocked", uuid |-> uuid[obj[g]]] \in Event
      BY <2>3 DEF OpenSend, Event
    <3>2. chan' \in Seq(Event) /\ Len(chan') <= ChanCap
      BY <2>3, <3>1, ChannelTypes DEF OpenSend
    <3> QED BY <2>3, <3>2 DEF OpenSend, Goto
  <2>4. CASE LockAllScan(g) BY <2>4 DEF LockAllScan, MayRead
  <2>5. CASE LockAllScanned(g)
    <3>1. pc' \in [Goroutines -> PCs] BY <2>5 DEF LockAllScanned, Goto
    <3> QED BY <2>5, <3>1 DEF LockAllScanned
  <2>6. CASE LockNext(g)
    <3>1. victims' \in [Goroutines -> SUBSET Uuids]
      <4>1. \/ victims' = victims
            \/ \E u \in Uuids : victims' = [victims EXCEPT ![g] = @ \ {u}]
        BY <2>6 DEF LockNext
      <4> QED BY <4>1
    <3>2. uid' \in [Goroutines -> Uuids \cup {None}] BY <2>6 DEF LockNext
    <3>3. pc' \in [Goroutines -> PCs] BY <2>6 DEF LockNext, Goto
    <3> QED BY <2>6, <3>1, <3>2, <3>3 DEF LockNext
  <2>7. CASE LockLookup(g)
    <3>1. wr' \in [Locks -> Goroutines \cup {None}] BY <2>7 DEF LockLookup
    <3>2. uid' \in [Goroutines -> Uuids \cup {None}] BY <2>7 DEF LockLookup
    <3>3. obj' \in [Goroutines -> Odbs \cup {None}] BY <2>7 DEF LockLookup
    <3>4. pc' \in [Goroutines -> PCs] BY <2>7 DEF LockLookup, Goto
    <3> QED BY <2>7, <3>1, <3>2, <3>3, <3>4 DEF LockLookup
  <2>8. CASE LockWipe(g) BY <2>8 DEF LockWipe, MayWrite, Goto
  <2>9. CASE LockFinish(g)
    <3>1. [type |-> "Locked", uuid |-> uid[g]] \in Event
      BY <2>9 DEF LockFinish, Event
    <3>2. chan' \in Seq(Event) /\ Len(chan') <= ChanCap
      BY <2>9, <3>1, ChannelTypes DEF LockFinish
    <3> QED BY <2>9, <3>2 DEF LockFinish, Goto
  <2>10. CASE CloseReset(g) BY <2>10 DEF CloseReset, MayWrite, Goto
  <2>11. CASE ItemsRLockAgain(g) BY <2>11 DEF ItemsRLockAgain, MayRead, Goto
  <2>12. CASE ItemsReturn(g) BY <2>12 DEF ItemsReturn, Goto
  <2>14. CASE Extracted(g) BY <2>14 DEF Extracted, Goto
  <2>13. CASE UpdateReturn(g) BY <2>13 DEF UpdateReturn, MayWrite, Goto
  <2> QED
    BY <1>3, <2>1, <2>2, <2>3, <2>4, <2>5, <2>6, <2>7,
       <2>8, <2>9, <2>10, <2>11, <2>12, <2>13, <2>14 DEF Continue
<1>4. CASE LoopStep
  <2>1. CASE LoopStart BY <2>1 DEF LoopStart
  <2>2. CASE LoopTake
    <3>1. /\ chan' \in Seq(Event) /\ Len(chan') <= ChanCap /\ Head(chan).uuid \in Uuids
          /\ Head(chan).type \in {"Unlocked", "Locked", "Reloaded"}
      BY <2>2, ReceiveTypes DEF LoopTake
    <3> QED BY <2>2, <3>1 DEF LoopTake, Goto
  <2>3. CASE LoopGet BY <2>3 DEF LoopGet, AfterGet, MayRead, Goto
  <2>4. CASE LoopHandle BY <2>4 DEF LoopHandle, MayRead, Goto
  <2> QED BY <1>4, <2>1, <2>2, <2>3, <2>4 DEF LoopStep
<1>5. CASE LoopIdle
  <2>1. todo' \in [Goroutines -> SUBSET Odbs] BY <1>5 DEF LoopIdle, LockAllStart
  <2> QED BY <1>5, <2>1 DEF LoopIdle, LockAllStart, Goto
<1>6. CASE LoopClose
  <2>1. todo' \in [Goroutines -> SUBSET Odbs] BY <1>6 DEF LoopClose, LockAllStart
  <2> QED BY <1>6, <2>1 DEF LoopClose, LockAllStart, Goto
<1>7. ASSUME NEW o \in Odbs, Watch(o) PROVE TypeOK'

  <2>1. CASE WatchEvent(o) BY <2>1 DEF WatchEvent
  <2>2. CASE WatchSend(o)
    <3>1. uuid[o] \in Uuids BY <2>2 DEF WatchSend
    <3>2. [type |-> "Reloaded", uuid |-> uuid[o]] \in Event BY <3>1 DEF Event
    <3>3. chan' \in Seq(Event) /\ Len(chan') <= ChanCap
      BY <2>2, <3>2, ChannelTypes DEF WatchSend
    <3> QED BY <2>2, <3>3 DEF WatchSend
  <2>3. CASE WatchDone(o) BY <2>3 DEF WatchDone, WatchStops
  <2> QED BY <1>7, <2>1, <2>2, <2>3 DEF Watch
<1>8. CASE UNCHANGED vars BY <1>8 DEF vars
<1> QED
  BY <1>1, <1>2, <1>3, <1>4, <1>5, <1>6, <1>7, <1>8
  DEF Next, AutoUnlock, Goroutines

\* Every step keeps the locals naming objects that exist.
LEMMA LocalStep == TypeOK /\ LocalInv /\ [Next]_vars => LocalInv'
<1> SUFFICES ASSUME TypeOK, LocalInv, [Next]_vars PROVE LocalInv'
  OBVIOUS
<1> USE PoolConstants DEF TypeOK, LocalInv, Goroutines, Locks, odbVars, localVars
<1>1. ASSUME NEW g \in Goroutines, NEW u \in Uuids, NEW o \in Odbs, OpenLoad(g, u, o)
      PROVE  LocalInv'
  BY <1>1 DEF OpenLoad, Goto
<1>2. ASSUME NEW g \in Callers, Call(g) PROVE LocalInv'
  <2>1. ASSUME NEW u \in Uuids, LockDatabase(g, u) PROVE LocalInv'
    BY <2>1 DEF LockDatabase, Goto
  <2>2. CASE CallLockAll(g) BY <2>2 DEF CallLockAll, LockAllStart, Goto, MayRead
  <2>3. ASSUME NEW o \in Odbs, ItemsRLock(g, o) PROVE LocalInv'
    BY <2>3 DEF ItemsRLock, Goto, MayRead, Published
  <2>4. ASSUME NEW o \in Odbs, UpdateStart(g, o) PROVE LocalInv'
    BY <2>4 DEF UpdateStart, Goto, Published
  <2> QED BY <1>1, <1>2, <2>1, <2>2, <2>3, <2>4 DEF Call
<1>3. ASSUME NEW g \in Goroutines, Continue(g) PROVE LocalInv'
  <2>1. CASE Announce(g) BY <2>1 DEF Announce, Goto, Locks
  <2>2. CASE OpenPublish(g) BY <2>2 DEF OpenPublish, MayWrite, Goto
  <2>3. CASE OpenSend(g) BY <2>3 DEF OpenSend, TrySend, Goto
  <2>4. CASE LockAllScan(g) BY <2>4 DEF LockAllScan, MayRead
  <2>5. CASE LockAllScanned(g) BY <2>5 DEF LockAllScanned, Goto
  <2>6. CASE LockNext(g) BY <2>6 DEF LockNext, Goto
  <2>7. CASE LockLookup(g) BY <2>7 DEF LockLookup, MayWrite, Goto
  <2>8. CASE LockWipe(g) BY <2>8 DEF LockWipe, MayWrite, Goto
  <2>9. CASE LockFinish(g) BY <2>9 DEF LockFinish, WatcherGone, TrySend, Goto
  <2>10. CASE CloseReset(g) BY <2>10 DEF CloseReset, MayWrite, Goto
  <2>11. CASE ItemsRLockAgain(g) BY <2>11 DEF ItemsRLockAgain, MayRead, Goto
  <2>12. CASE ItemsReturn(g) BY <2>12 DEF ItemsReturn, Goto
  <2>14. CASE Extracted(g) BY <2>14 DEF Extracted, Goto
  <2>13. CASE UpdateReturn(g) BY <2>13 DEF UpdateReturn, MayWrite, Goto
  <2> QED
    BY <1>3, <2>1, <2>2, <2>3, <2>4, <2>5, <2>6, <2>7,
       <2>8, <2>9, <2>10, <2>11, <2>12, <2>13, <2>14 DEF Continue
<1>4. CASE LoopStep
  <2>1. CASE LoopStart BY <2>1 DEF LoopStart
  <2>2. CASE LoopTake BY <2>2, ReceiveTypes DEF LoopTake, Goto
  <2>3. CASE LoopGet BY <2>3 DEF LoopGet, AfterGet, MayRead, Goto
  <2>4. CASE LoopHandle BY <2>4 DEF LoopHandle, MayRead, Goto
  <2> QED BY <1>4, <2>1, <2>2, <2>3, <2>4 DEF LoopStep
<1>5. CASE LoopIdle BY <1>5 DEF LoopIdle, LockAllStart, MayRead, Goto
<1>6. CASE LoopClose BY <1>6 DEF LoopClose, LockAllStart, MayRead, Goto
<1>7. ASSUME NEW o \in Odbs, Watch(o) PROVE LocalInv'
  BY <1>7 DEF Watch, WatchEvent, WatchSend, WatchDone, WatchStops
<1>8. CASE UNCHANGED vars BY <1>8 DEF vars
<1> QED
  BY <1>1, <1>2, <1>3, <1>4, <1>5, <1>6, <1>7, <1>8
  DEF Next, AutoUnlock, Goroutines

\* Every step keeps an announced write with its goroutine.
LEMMA WriterStep == TypeOK /\ LocalInv /\ WriterInv /\ [Next]_vars => WriterInv'
<1> SUFFICES ASSUME TypeOK, LocalInv, WriterInv, [Next]_vars PROVE WriterInv'
  OBVIOUS
<1> USE PoolConstants DEF TypeOK, LocalInv, WriterInv, HoldsPool, HoldsOdb,
        Goroutines, Locks, odbVars, localVars
<1>1. ASSUME NEW g \in Goroutines, NEW u \in Uuids, NEW o \in Odbs, OpenLoad(g, u, o)
      PROVE  WriterInv'
  BY <1>1 DEF OpenLoad, Goto
<1>2. ASSUME NEW g \in Callers, Call(g) PROVE WriterInv'
  <2>1. ASSUME NEW u \in Uuids, LockDatabase(g, u) PROVE WriterInv'
    BY <2>1 DEF LockDatabase, Goto
  <2>2. CASE CallLockAll(g) BY <2>2 DEF CallLockAll, LockAllStart, Goto, MayRead
  <2>3. ASSUME NEW o \in Odbs, ItemsRLock(g, o) PROVE WriterInv'
    BY <2>3 DEF ItemsRLock, Goto, MayRead, Published
  <2>4. ASSUME NEW o \in Odbs, UpdateStart(g, o) PROVE WriterInv'
    BY <2>4 DEF UpdateStart, Goto, Published
  <2> QED BY <1>1, <1>2, <2>1, <2>2, <2>3, <2>4 DEF Call
<1>3. ASSUME NEW g \in Goroutines, Continue(g) PROVE WriterInv'
  <2>1. CASE Announce(g) BY <2>1 DEF Announce, Goto, Locks
  <2>2. CASE OpenPublish(g) BY <2>2 DEF OpenPublish, MayWrite, Goto
  <2>3. CASE OpenSend(g) BY <2>3 DEF OpenSend, TrySend, Goto
  <2>4. CASE LockAllScan(g) BY <2>4 DEF LockAllScan, MayRead
  <2>5. CASE LockAllScanned(g) BY <2>5 DEF LockAllScanned, Goto
  <2>6. CASE LockNext(g) BY <2>6 DEF LockNext, Goto
  <2>7. CASE LockLookup(g) BY <2>7 DEF LockLookup, MayWrite, Goto
  <2>8. CASE LockWipe(g) BY <2>8 DEF LockWipe, MayWrite, Goto
  <2>9. CASE LockFinish(g) BY <2>9 DEF LockFinish, WatcherGone, TrySend, Goto
  <2>10. CASE CloseReset(g) BY <2>10 DEF CloseReset, MayWrite, Goto
  <2>11. CASE ItemsRLockAgain(g) BY <2>11 DEF ItemsRLockAgain, MayRead, Goto
  <2>12. CASE ItemsReturn(g) BY <2>12 DEF ItemsReturn, Goto
  <2>14. CASE Extracted(g) BY <2>14 DEF Extracted, Goto
  <2>13. CASE UpdateReturn(g) BY <2>13 DEF UpdateReturn, MayWrite, Goto
  <2> QED
    BY <1>3, <2>1, <2>2, <2>3, <2>4, <2>5, <2>6, <2>7,
       <2>8, <2>9, <2>10, <2>11, <2>12, <2>13, <2>14 DEF Continue
<1>4. CASE LoopStep
  <2>1. CASE LoopStart BY <2>1 DEF LoopStart
  <2>2. CASE LoopTake BY <2>2, ReceiveTypes DEF LoopTake, Goto
  <2>3. CASE LoopGet BY <2>3 DEF LoopGet, AfterGet, MayRead, Goto
  <2>4. CASE LoopHandle BY <2>4 DEF LoopHandle, MayRead, Goto
  <2> QED BY <1>4, <2>1, <2>2, <2>3, <2>4 DEF LoopStep
<1>5. CASE LoopIdle BY <1>5 DEF LoopIdle, LockAllStart, MayRead, Goto
<1>6. CASE LoopClose BY <1>6 DEF LoopClose, LockAllStart, MayRead, Goto
<1>7. ASSUME NEW o \in Odbs, Watch(o) PROVE WriterInv'
  BY <1>7 DEF Watch, WatchEvent, WatchSend, WatchDone, WatchStops
<1>8. CASE UNCHANGED vars BY <1>8 DEF vars
<1> QED
  BY <1>1, <1>2, <1>3, <1>4, <1>5, <1>6, <1>7, <1>8
  DEF Next, AutoUnlock, Goroutines

\* No step lets a reader in beside a writer that wipes, or the converse.
LEMMA ReaderStep ==
  TypeOK /\ LocalInv /\ WriterInv /\ ReaderInv /\ [Next]_vars => ReaderInv'
<1> SUFFICES ASSUME TypeOK, LocalInv, WriterInv, ReaderInv, [Next]_vars
            PROVE ReaderInv'
  OBVIOUS
<1> USE PoolConstants DEF TypeOK, LocalInv, WriterInv, ReaderInv, HoldsPool, HoldsOdb,
        Readers, Goroutines, Locks, odbVars, localVars
<1>1. ASSUME NEW g \in Goroutines, NEW u \in Uuids, NEW o \in Odbs, OpenLoad(g, u, o)
      PROVE  ReaderInv'
  BY <1>1 DEF OpenLoad, Goto
<1>2. ASSUME NEW g \in Callers, Call(g) PROVE ReaderInv'
  <2>1. ASSUME NEW u \in Uuids, LockDatabase(g, u) PROVE ReaderInv'
    BY <2>1 DEF LockDatabase, Goto
  <2>2. CASE CallLockAll(g) BY <2>2 DEF CallLockAll, LockAllStart, Goto, MayRead
  <2>3. ASSUME NEW o \in Odbs, ItemsRLock(g, o) PROVE ReaderInv'
    BY <2>3 DEF ItemsRLock, Goto, MayRead, Published
  <2>4. ASSUME NEW o \in Odbs, UpdateStart(g, o) PROVE ReaderInv'
    BY <2>4 DEF UpdateStart, Goto, Published
  <2> QED BY <1>1, <1>2, <2>1, <2>2, <2>3, <2>4 DEF Call
<1>3. ASSUME NEW g \in Goroutines, Continue(g) PROVE ReaderInv'
  <2>1. CASE Announce(g) BY <2>1 DEF Announce, Goto, Locks
  <2>2. CASE OpenPublish(g) BY <2>2 DEF OpenPublish, MayWrite, Goto
  <2>3. CASE OpenSend(g) BY <2>3 DEF OpenSend, TrySend, Goto
  <2>4. CASE LockAllScan(g) BY <2>4 DEF LockAllScan, MayRead
  <2>5. CASE LockAllScanned(g) BY <2>5 DEF LockAllScanned, Goto
  <2>6. CASE LockNext(g) BY <2>6 DEF LockNext, Goto
  <2>7. CASE LockLookup(g) BY <2>7 DEF LockLookup, MayWrite, Goto
  <2>8. CASE LockWipe(g) BY <2>8 DEF LockWipe, MayWrite, Goto
  <2>9. CASE LockFinish(g) BY <2>9 DEF LockFinish, WatcherGone, TrySend, Goto
  <2>10. CASE CloseReset(g) BY <2>10 DEF CloseReset, MayWrite, Goto
  <2>11. CASE ItemsRLockAgain(g) BY <2>11 DEF ItemsRLockAgain, MayRead, Goto
  <2>12. CASE ItemsReturn(g) BY <2>12 DEF ItemsReturn, Goto
  <2>14. CASE Extracted(g) BY <2>14 DEF Extracted, Goto
  <2>13. CASE UpdateReturn(g) BY <2>13 DEF UpdateReturn, MayWrite, Goto
  <2> QED
    BY <1>3, <2>1, <2>2, <2>3, <2>4, <2>5, <2>6, <2>7,
       <2>8, <2>9, <2>10, <2>11, <2>12, <2>13, <2>14 DEF Continue
<1>4. CASE LoopStep
  <2>1. CASE LoopStart BY <2>1 DEF LoopStart
  <2>2. CASE LoopTake BY <2>2, ReceiveTypes DEF LoopTake, Goto
  <2>3. CASE LoopGet BY <2>3 DEF LoopGet, AfterGet, MayRead, Goto
  <2>4. CASE LoopHandle BY <2>4 DEF LoopHandle, MayRead, Goto
  <2> QED BY <1>4, <2>1, <2>2, <2>3, <2>4 DEF LoopStep
<1>5. CASE LoopIdle BY <1>5 DEF LoopIdle, LockAllStart, MayRead, Goto
<1>6. CASE LoopClose BY <1>6 DEF LoopClose, LockAllStart, MayRead, Goto
<1>7. ASSUME NEW o \in Odbs, Watch(o) PROVE ReaderInv'
  BY <1>7 DEF Watch, WatchEvent, WatchSend, WatchDone, WatchStops
<1>8. CASE UNCHANGED vars BY <1>8 DEF vars
<1> QED
  BY <1>1, <1>2, <1>3, <1>4, <1>5, <1>6, <1>7, <1>8
  DEF Next, AutoUnlock, Goroutines

\* Every step keeps locked objects wiped.
LEMMA WipeStep ==
  TypeOK /\ LocalInv /\ WriterInv /\ WipeInv /\ [Next]_vars => WipeInv'
<1> SUFFICES ASSUME TypeOK, LocalInv, WriterInv, WipeInv, [Next]_vars PROVE WipeInv'
  OBVIOUS
<1> USE PoolConstants DEF TypeOK, LocalInv, WriterInv, WipeInv, HoldsPool, HoldsOdb,
        Goroutines, Locks, odbVars, localVars
<1>1. ASSUME NEW g \in Goroutines, NEW u \in Uuids, NEW o \in Odbs, OpenLoad(g, u, o)
      PROVE  WipeInv'
  BY <1>1 DEF OpenLoad, Goto
<1>2. ASSUME NEW g \in Callers, Call(g) PROVE WipeInv'
  <2>1. ASSUME NEW u \in Uuids, LockDatabase(g, u) PROVE WipeInv'
    BY <2>1 DEF LockDatabase, Goto
  <2>2. CASE CallLockAll(g) BY <2>2 DEF CallLockAll, LockAllStart, Goto, MayRead
  <2>3. ASSUME NEW o \in Odbs, ItemsRLock(g, o) PROVE WipeInv'
    BY <2>3 DEF ItemsRLock, Goto, MayRead, Published
  <2>4. ASSUME NEW o \in Odbs, UpdateStart(g, o) PROVE WipeInv'
    BY <2>4 DEF UpdateStart, Goto, Published
  <2> QED BY <1>1, <1>2, <2>1, <2>2, <2>3, <2>4 DEF Call
<1>3. ASSUME NEW g \in Goroutines, Continue(g) PROVE WipeInv'
  <2>1. CASE Announce(g) BY <2>1 DEF Announce, Goto, Locks
  <2>2. CASE OpenPublish(g) BY <2>2 DEF OpenPublish, MayWrite, Goto
  <2>3. CASE OpenSend(g) BY <2>3 DEF OpenSend, TrySend, Goto
  <2>4. CASE LockAllScan(g) BY <2>4 DEF LockAllScan, MayRead
  <2>5. CASE LockAllScanned(g) BY <2>5 DEF LockAllScanned, Goto
  <2>6. CASE LockNext(g) BY <2>6 DEF LockNext, Goto
  <2>7. CASE LockLookup(g) BY <2>7 DEF LockLookup, MayWrite, Goto
  <2>8. CASE LockWipe(g) BY <2>8 DEF LockWipe, MayWrite, Goto
  <2>9. CASE LockFinish(g) BY <2>9 DEF LockFinish, WatcherGone, TrySend, Goto
  <2>10. CASE CloseReset(g) BY <2>10 DEF CloseReset, MayWrite, Goto
  <2>11. CASE ItemsRLockAgain(g) BY <2>11 DEF ItemsRLockAgain, MayRead, Goto
  <2>12. CASE ItemsReturn(g) BY <2>12 DEF ItemsReturn, Goto
  <2>14. CASE Extracted(g) BY <2>14 DEF Extracted, Goto
  <2>13. CASE UpdateReturn(g) BY <2>13 DEF UpdateReturn, MayWrite, Goto
  <2> QED
    BY <1>3, <2>1, <2>2, <2>3, <2>4, <2>5, <2>6, <2>7,
       <2>8, <2>9, <2>10, <2>11, <2>12, <2>13, <2>14 DEF Continue
<1>4. CASE LoopStep
  <2>1. CASE LoopStart BY <2>1 DEF LoopStart
  <2>2. CASE LoopTake BY <2>2, ReceiveTypes DEF LoopTake, Goto
  <2>3. CASE LoopGet BY <2>3 DEF LoopGet, AfterGet, MayRead, Goto
  <2>4. CASE LoopHandle BY <2>4 DEF LoopHandle, MayRead, Goto
  <2> QED BY <1>4, <2>1, <2>2, <2>3, <2>4 DEF LoopStep
<1>5. CASE LoopIdle BY <1>5 DEF LoopIdle, LockAllStart, MayRead, Goto
<1>6. CASE LoopClose BY <1>6 DEF LoopClose, LockAllStart, MayRead, Goto
<1>7. ASSUME NEW o \in Odbs, Watch(o) PROVE WipeInv'

  <2>1. CASE WatchEvent(o) BY <2>1 DEF WatchEvent
  <2>2. CASE WatchSend(o) BY <2>2 DEF WatchSend
  <2>3. CASE WatchDone(o) BY <2>3 DEF WatchDone, WatchStops
  <2> QED BY <1>7, <2>1, <2>2, <2>3 DEF Watch
<1>8. CASE UNCHANGED vars BY <1>8 DEF vars
<1> QED
  BY <1>1, <1>2, <1>3, <1>4, <1>5, <1>6, <1>7, <1>8
  DEF Next, AutoUnlock, Goroutines

-----------------------------------------------------------------------------
\* The parts above together are inductive.
LEMMA PoolInvariant ==
  Spec => [](TypeOK /\ LocalInv /\ WriterInv /\ ReaderInv /\ WipeInv)
<1>1. Init => TypeOK /\ LocalInv /\ WriterInv /\ ReaderInv /\ WipeInv
  BY PoolConstants DEF Init, TypeOK, LocalInv, WriterInv, ReaderInv, WipeInv,
     HoldsPool, HoldsOdb, PCs, Goroutines, Locks
<1> QED
  BY <1>1, TypeStep, LocalStep, WriterStep, ReaderStep, WipeStep, PTL DEF Spec

\* Every variable keeps its type, and the channel its capacity.
THEOREM PoolTypeCorrect == Spec => []TypeOK
  BY PoolInvariant, PTL

\* Lock wipes a database with no scan of the pool and no other writer under
\* way, and whoever uses its content meanwhile is extracting SSH keys, without
\* the lock.
THEOREM OnlyExtractionMeetsWipe == Spec => []WipeMeetsExtractionOnly
<1>1. TypeOK /\ LocalInv /\ WriterInv /\ ReaderInv => WipeMeetsExtractionOnly
  BY PoolConstants DEF TypeOK, LocalInv, WriterInv, ReaderInv, WipeMeetsExtractionOnly,
     Uses, HoldsPool, HoldsOdb, Readers, Locks, Goroutines
<1> QED BY <1>1, PoolInvariant, PTL

\* A database that is locked has no decrypted content, and no watcher once
\* Lock has released it.
THEOREM LockedStaysWiped == Spec => []LockedIsWiped
<1>1. TypeOK /\ LocalInv /\ WriterInv /\ WipeInv => LockedIsWiped
  BY PoolConstants DEF TypeOK, LocalInv, WriterInv, WipeInv, LockedIsWiped,
     HoldsPool, HoldsOdb, Locks, Goroutines
<1> QED BY <1>1, PoolInvariant, PTL

-----------------------------------------------------------------------------
(* The pool implements PoolEvents.                                         *)

\* While Lock works on a database the map does not change under it.
LookupInv ==
  \A g \in Goroutines :
    pc[g] \in {"lockO", "wipe", "await"} => dbs[uid[g]] = obj[g]

\* Only the holder of the pool's write lock changes the map.
LEMMA LookupStep ==
  TypeOK /\ LocalInv /\ WriterInv /\ LookupInv /\ [Next]_vars => LookupInv'
<1> SUFFICES ASSUME TypeOK, LocalInv, WriterInv, LookupInv, [Next]_vars
             PROVE  LookupInv'
  OBVIOUS
<1> USE PoolConstants DEF TypeOK, LocalInv, WriterInv, LookupInv, HoldsPool,
        Goroutines, Locks, odbVars, localVars
<1>1. ASSUME NEW g \in Goroutines, NEW u \in Uuids, NEW o \in Odbs,
             OpenLoad(g, u, o)
      PROVE  LookupInv'
  BY <1>1 DEF OpenLoad, Goto
<1>2. ASSUME NEW g \in Callers, Call(g) PROVE LookupInv'
  BY <1>1, <1>2 DEF Call, LockDatabase, CallLockAll, LockAllStart, ItemsRLock,
     UpdateStart, Goto
<1>3. ASSUME NEW g \in Goroutines, Continue(g) PROVE LookupInv'
  <2>1. CASE Announce(g) BY <2>1 DEF Announce, Goto
  <2>2. CASE OpenPublish(g) BY <2>2 DEF OpenPublish, MayWrite, Goto
  <2>3. CASE LockLookup(g) BY <2>3 DEF LockLookup, MayWrite, Goto
  <2>4. CASE LockWipe(g) BY <2>4 DEF LockWipe, Goto
  <2>5. CASE LockFinish(g) BY <2>5 DEF LockFinish, Goto
  <2>6. CASE CloseReset(g) BY <2>6 DEF CloseReset, MayWrite, Goto
  <2>7. CASE OpenSend(g) BY <2>7 DEF OpenSend, Goto
  <2>8. CASE LockAllScan(g) \/ LockAllScanned(g) \/ LockNext(g)
    BY <2>8 DEF LockAllScan, LockAllScanned, LockNext, Goto
  <2>9. CASE ItemsRLockAgain(g) \/ ItemsReturn(g) \/ Extracted(g) \/ UpdateReturn(g)
    BY <2>9 DEF ItemsRLockAgain, ItemsReturn, Extracted, UpdateReturn, Goto
  <2> QED
    BY <1>3, <2>1, <2>2, <2>3, <2>4, <2>5, <2>6, <2>7, <2>8, <2>9 DEF Continue
<1>4. CASE LoopStep
  <2>1. CASE LoopStart BY <2>1 DEF LoopStart
  <2>2. CASE LoopTake BY <2>2, ReceiveTypes DEF LoopTake, Goto
  <2>3. CASE LoopGet BY <2>3 DEF LoopGet, AfterGet, Goto
  <2>4. CASE LoopHandle BY <2>4 DEF LoopHandle, Goto
  <2> QED BY <1>4, <2>1, <2>2, <2>3, <2>4 DEF LoopStep
<1>5. CASE LoopIdle BY <1>5 DEF LoopIdle, LockAllStart, Goto
<1>6. CASE LoopClose BY <1>6 DEF LoopClose, LockAllStart, Goto
<1>7. ASSUME NEW o \in Odbs, Watch(o) PROVE LookupInv'
  BY <1>7 DEF Watch, WatchEvent, WatchSend, WatchDone
<1>8. CASE UNCHANGED vars BY <1>8 DEF vars
<1> QED
  BY <1>1, <1>2, <1>3, <1>4, <1>5, <1>6, <1>7, <1>8
  DEF Next, AutoUnlock, Goroutines

\* Every step of the pool is one of PoolEvents, or changes nothing there.
LEMMA RefinementStep ==
  TypeOK /\ LocalInv /\ WipeInv /\ LookupInv /\ [Next]_vars
    => [Abstract!PoolNext]_Abstract!poolVars
<1> SUFFICES ASSUME TypeOK, LocalInv, WipeInv, LookupInv, [Next]_vars
             PROVE  [Abstract!PoolNext]_Abstract!poolVars
  OBVIOUS
<1> USE PoolConstants DEF TypeOK, LocalInv, WipeInv, LookupInv, Goroutines,
        odbVars, localVars, Goto
<1>s. ASSUME UNCHANGED <<dbs, uuid, chan>>, OpenObjects' = OpenObjects,
             Opening' = Opening, Unannounced' = Unannounced
      PROVE  [Abstract!PoolNext]_Abstract!poolVars
  BY <1>s DEF Abstract!poolVars
<1>1. ASSUME NEW g \in Goroutines, NEW u \in Uuids, NEW o \in Odbs,
             OpenLoad(g, u, o)
      PROVE  [Abstract!PoolNext]_Abstract!poolVars
  <2>1. OpenObjects' = OpenObjects \cup {o} BY <1>1 DEF OpenLoad, OpenObjects
  <2>2. pc' = [pc EXCEPT ![g] = "openP"] /\ obj' = [obj EXCEPT ![g] = o]
        /\ pc[g] = "idle"
    BY <1>1 DEF OpenLoad
  <2>3. Opening' = [Opening EXCEPT ![g] = o] BY <2>2 DEF Opening
  <2>4. Unannounced' = Unannounced BY <2>2 DEF Unannounced
  <2>5. Opening[g] = None BY <2>2 DEF Opening
  <2>6. Abstract!Load(g, u, o)
    BY <1>1, <2>1, <2>3, <2>4, <2>5 DEF OpenLoad, Abstract!Load
  <2> QED BY <2>6 DEF Abstract!PoolNext, Abstract!PoolStep
<1>2. ASSUME NEW g \in Callers, Call(g)
      PROVE  [Abstract!PoolNext]_Abstract!poolVars
  <2>1. ASSUME NEW u \in Uuids, LockDatabase(g, u)
        PROVE  [Abstract!PoolNext]_Abstract!poolVars
    BY <2>1, <1>s DEF LockDatabase, OpenObjects, Opening, Unannounced
  <2>2. CASE CallLockAll(g)
    BY <2>2, <1>s DEF CallLockAll, LockAllStart, OpenObjects, Opening, Unannounced
  <2>3. ASSUME NEW o \in Odbs, ItemsRLock(g, o)
        PROVE  [Abstract!PoolNext]_Abstract!poolVars
    BY <2>3, <1>s DEF ItemsRLock, OpenObjects, Opening, Unannounced
  <2>4. ASSUME NEW o \in Odbs, UpdateStart(g, o)
        PROVE  [Abstract!PoolNext]_Abstract!poolVars
    BY <2>4, <1>s DEF UpdateStart, OpenObjects, Opening, Unannounced
  <2> QED BY <1>1, <1>2, <2>1, <2>2, <2>3, <2>4 DEF Call
<1>3. ASSUME NEW g \in Goroutines, Continue(g)
      PROVE  [Abstract!PoolNext]_Abstract!poolVars
  <2>1. CASE Announce(g) BY <2>1, <1>s DEF Announce, OpenObjects, Opening, Unannounced
  <2>2. CASE OpenPublish(g)
    <3>1. /\ OpenObjects' = OpenObjects /\ Opening' = Opening
          /\ Unannounced' = Unannounced \cup {g}
          /\ Opening[g] = obj[g] /\ g \notin Unannounced /\ obj[g] # None
      BY <2>2 DEF OpenPublish, OpenObjects, Opening, Unannounced
    <3>2. Abstract!Publish(g) BY <2>2, <3>1 DEF OpenPublish, Abstract!Publish
    <3> QED BY <3>2 DEF Abstract!PoolNext, Abstract!PoolStep
  <2>3. CASE OpenSend(g)
    <3>1. pc' = [pc EXCEPT ![g] = "idle"] /\ obj' = [obj EXCEPT ![g] = None]
          /\ pc[g] = "openSend"
      BY <2>3 DEF OpenSend
    <3>2. Opening' = [Opening EXCEPT ![g] = None] BY <3>1 DEF Opening
    <3>3. Unannounced' = Unannounced \ {g} BY <3>1 DEF Unannounced
    <3>4. Opening[g] = obj[g] /\ g \in Unannounced BY <3>1 DEF Opening, Unannounced
    <3>5. OpenObjects' = OpenObjects BY <2>3 DEF OpenSend, OpenObjects
    <3>6. Abstract!SendUnlocked(g)
      BY <2>3, <3>2, <3>3, <3>4, <3>5
      DEF OpenSend, TrySend, Abstract!SendUnlocked, Abstract!TrySend
    <3> QED BY <3>6 DEF Abstract!PoolNext, Abstract!PoolStep
  <2>4. CASE LockAllScan(g)
    BY <2>4, <1>s DEF LockAllScan, OpenObjects, Opening, Unannounced
  <2>5. CASE LockAllScanned(g)
    BY <2>5, <1>s DEF LockAllScanned, OpenObjects, Opening, Unannounced
  <2>6. CASE LockNext(g) BY <2>6, <1>s DEF LockNext, OpenObjects, Opening, Unannounced
  <2>7. CASE LockLookup(g) BY <2>7, <1>s DEF LockLookup, OpenObjects, Opening, Unannounced
  <2>8. CASE LockWipe(g)
    <3>1. OpenObjects' = OpenObjects BY <2>8 DEF LockWipe, OpenObjects
    <3> QED BY <2>8, <3>1, <1>s DEF LockWipe, Opening, Unannounced
  <2>9. CASE LockFinish(g)
    <3>1. /\ uid[g] \in Uuids /\ obj[g] \in Odbs /\ dbs[uid[g]] = obj[g]
          /\ locked[obj[g]]
      BY <2>9 DEF LockFinish
    <3>2. OpenObjects' = OpenObjects \ {obj[g]}
      BY <2>9, <3>1 DEF LockFinish, OpenObjects
    <3>3. Opening' = Opening /\ Unannounced' = Unannounced
      BY <2>9 DEF LockFinish, Opening, Unannounced
    <3>4. Abstract!Lock(uid[g])
      BY <2>9, <3>1, <3>2, <3>3 DEF LockFinish, TrySend, Abstract!Lock, Abstract!TrySend
    <3> QED BY <3>1, <3>4 DEF Abstract!PoolNext, Abstract!PoolStep
  <2>10. CASE CloseReset(g)
    <3>1. OpenObjects' = OpenObjects /\ Opening' = Opening /\ Unannounced' = Unannounced
      BY <2>10 DEF CloseReset, OpenObjects, Opening, Unannounced
    <3>2. Abstract!Reset BY <2>10, <3>1 DEF CloseReset, Abstract!Reset
    <3> QED BY <3>2 DEF Abstract!PoolNext
  <2>11. CASE ItemsRLockAgain(g)
    BY <2>11, <1>s DEF ItemsRLockAgain, OpenObjects, Opening, Unannounced
  <2>12. CASE ItemsReturn(g)
    BY <2>12, <1>s DEF ItemsReturn, OpenObjects, Opening, Unannounced
  <2>14. CASE Extracted(g)
    BY <2>14, <1>s DEF Extracted, OpenObjects, Opening, Unannounced
  <2>13. CASE UpdateReturn(g)
    BY <2>13, <1>s DEF UpdateReturn, OpenObjects, Opening, Unannounced
  <2> QED
    BY <1>3, <2>1, <2>2, <2>3, <2>4, <2>5, <2>6, <2>7,
       <2>8, <2>9, <2>10, <2>11, <2>12, <2>13, <2>14 DEF Continue
<1>4. CASE LoopStep
  <2>1. CASE LoopStart BY <2>1, <1>s DEF LoopStart, OpenObjects, Opening, Unannounced
  <2>2. CASE LoopTake
    <3>1. OpenObjects' = OpenObjects /\ Opening' = Opening /\ Unannounced' = Unannounced
      BY <2>2, ReceiveTypes DEF LoopTake, Goto, OpenObjects, Opening, Unannounced
    <3>2. Abstract!Receive BY <2>2, <3>1 DEF LoopTake, Abstract!Receive
    <3> QED BY <3>2 DEF Abstract!PoolNext
  <2>3. CASE LoopGet BY <2>3, <1>s DEF LoopGet, AfterGet, OpenObjects, Opening, Unannounced
  <2>4. CASE LoopHandle BY <2>4, <1>s DEF LoopHandle, OpenObjects, Opening, Unannounced
  <2> QED BY <1>4, <2>1, <2>2, <2>3, <2>4 DEF LoopStep
<1>5. CASE LoopIdle
  BY <1>5, <1>s DEF LoopIdle, LockAllStart, OpenObjects, Opening, Unannounced
<1>6. CASE LoopClose
  BY <1>6, <1>s DEF LoopClose, LockAllStart, OpenObjects, Opening, Unannounced
<1>7. ASSUME NEW o \in Odbs, Watch(o)
      PROVE  [Abstract!PoolNext]_Abstract!poolVars
  <2>1. CASE WatchEvent(o) BY <2>1, <1>s DEF WatchEvent, OpenObjects, Opening, Unannounced
  <2>2. CASE WatchSend(o)
    <3>1. OpenObjects' = OpenObjects /\ Opening' = Opening /\ Unannounced' = Unannounced
      BY <2>2 DEF WatchSend, OpenObjects, Opening, Unannounced
    <3>2. o \in OpenObjects BY <2>2 DEF WatchSend, OpenObjects
    <3>3. Abstract!Reload(o) BY <2>2, <3>1, <3>2 DEF WatchSend, Abstract!Reload
    <3> QED BY <3>3 DEF Abstract!PoolNext, Abstract!PoolStep
  <2>3. CASE WatchDone(o) BY <2>3, <1>s DEF WatchDone, OpenObjects, Opening, Unannounced
  <2> QED BY <1>7, <2>1, <2>2, <2>3 DEF Watch
<1>8. CASE UNCHANGED vars BY <1>8, <1>s DEF vars, OpenObjects, Opening, Unannounced
<1> QED
  BY <1>1, <1>2, <1>3, <1>4, <1>5, <1>6, <1>7, <1>8
  DEF Next, AutoUnlock, Goroutines

\* The pool with its locks, watchers and LockAll implements the atomic pool
\* that the services are modelled against.
THEOREM PoolImplementsEvents == Spec => ImplementsPoolEvents
<1>1. Init => LookupInv BY DEF Init, LookupInv
<1>2. Init => Abstract!PoolInit
  BY DEF Init, Abstract!PoolInit, OpenObjects, Opening, Unannounced
<1> QED
  BY <1>1, <1>2, PoolInvariant, LookupStep, RefinementStep, PTL
  DEF Spec, ImplementsPoolEvents, Abstract!PoolSpec
=============================================================================
