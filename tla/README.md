# kpxcd: specifications and proofs

kpxcd is a headless KeePass daemon: it keeps KDBX databases open in memory and
serves them as a Secret Service (`org.freedesktop.secrets`), as an SSH agent and
through a D-Bus API of its own. This directory holds TLA+ models of its stateful
parts, the TLC runs that check them on small instances, and TLAPS proofs for
every value of the constants. Paths below are relative to the repository;
`PROJECT.json` maps each definition to the lines it models.

## 1. The system

| Component | State | Operations | Meets |
|---|---|---|---|
| Database pool (`internal/dbpool/pool.go`) | map UUID → `OpenDatabase`, its `RWMutex`, one `RWMutex` and one file watcher per object, an event channel with 16 places | `Open`, `Lock`, `LockAll`, `Get`, `List`, `Close`, `watchFile` | called by D-Bus handlers, PAM connections and the event loop; tells the services by events |
| Saving (`internal/dbpool/save.go`) | `Db`, `Fingerprint`, the file, a temporary file | `UpdateAndSave`, `saveLocked`, `atomicEncode` | called by all writing handlers; the file is shared with other programs |
| Event loop (`internal/daemon/daemon.go`) | idle timer | `autoUnlock`, `eventLoop`, `handlePoolEvent`, shutdown | only reader of the event channel; calls the services |
| Secret Service collections (`internal/secretservice/service.go`, `collection.go`) | collections, aliases, exported objects | `HandlePoolEvent`, `SetAlias`, `Items`, `SearchItems`, `CreateItem` | holds pointers to pool objects; fed by events |
| Secret Service items, sessions, prompts (`item.go`, `access.go`, `prompt.go`) | cached entries, the map of sessions, prompts, the confirmation policy | `GetSecret(s)`, `SetSecret`, `Delete`, `OpenSession`, `Prompt`, `Dismiss`, `UpdateConfig` | asks polkit and waits without a lock; shares value arrays with the tree; writes through `UpdateAndSave` |
| Notifications (`notifycache.go`) | when each app may be reported again; 256 entries | `allow`, pruning, eviction | called by every read of a secret |
| The tree of a database (`write.go`, `attributes.go`, `introspect.go`, `dbusapi.go`, `keeagent.go`) | groups, entries, histories, attachments, recycle bin | create, replace, set, delete, relabel, store an SSH key; search, visibility, key extraction | all through `UpdateAndSave`, including its rollback |
| SSH agent, server mode (`internal/sshagent/server.go`, `manager.go`) | identities by fingerprint | `OnDatabaseUnlocked`, `OnDatabaseLocked`, requests of ssh clients | fed by events |
| SSH agent, client mode (`client.go`) | record of the keys pushed into the agent at `SSH_AUTH_SOCK` | `AddKey`, `RemoveKeysForDB`, `RemoveAllKeys`, `Close` | fed by events; another process that may refuse, restart or lose an answer |
| D-Bus API (`internal/dbusapi`) | none of its own | `UnlockDatabase`, `LockDatabase`, `LockAll`, entry and SSH methods | pool, `UpdateAndSave` |
| PAM unlock (`internal/daemon/pam.go`, `pamsocket.go`, `internal/pamcred`, `internal/dbpool/create.go`) | default database, sealed identity, sealed credential: three files | `handleConn`, `unlockOrBootstrapWithPAM`, `CreateDatabase`, `WriteSealed…` | a goroutine per connection; pool; shares the files with kpxcctl |
| kpxcctl (`cmd/kpxcctl`) | none | `unlock`, `adopt-default`, D-Bus clients | the three files, D-Bus |
| FIDO2 (`internal/fido2`) | – | never started by `Run` | – |
| Configuration, paths, wiping, journald | – | plain functions | – |

What is hard here, and what makes each part correct:

* **Concurrency.** D-Bus handlers, watchers, PAM connections and the event loop
  run in parallel. `Lock` waits for two locks and a goroutine; that goroutine may
  wait for the channel; the idle `LockAll` runs on the goroutine that drains the
  channel. Correct means: `Lock` returns, a wipe meets nobody who
  reads under the lock, a locked database stays wiped.
* **Ordering and loss.** Events are dropped when the channel is full, and
  `Unlocked` is sent after the lock is released. Correct means: collections and
  identities follow the pool.
* **Failure.** A save has three comparisons and ten calls that can fail, and no
  lock protects the file from other programs. Correct means: no edit is lost, the
  file is always readable, a failed update leaves nothing in memory.
* **Waiting without a lock.** A read of a secret asks the user and goes on with an
  entry it looked up before. Correct means: what is served is a password of that
  entry, confirmed, and nothing after a lock.
* **Somebody else's state.** Keys in an external agent are out of reach when it
  does not answer. Correct means: what kpxcd may leave behind there is known.
* **Several files.** First login and adoption write three files that must belong
  together. Correct means: what could be unlocked once can be unlocked again.

`PROJECT.json` lists the hazards line by line, with the properties that cover
them, and the ones no property covers, with the reason.

## 2. Modules

| Module | Models | Composition |
|---|---|---|
| `KdbxSave` | `save.go`, and `Open`/`Lock` as far as they touch the file | – |
| `PoolEvents` | what the pool promises: atomic Load, Publish, Send, Lock, and a bounded channel | abstract specification |
| `DbPool` | `pool.go` with RWMutexes, watchers, `LockAll`, `Close`, the event loop's use of it | implements `PoolEvents` (`Abstract`) |
| `Services` | event loop, Secret Service collections and alias, SSH identities, requests of ssh clients | extends `PoolEvents` |
| `AgentClient` | event loop and SSH agent in client mode, with the external agent | extends `PoolEvents` |
| `SecretItems` | reads and writes of secrets, confirmation, sessions, prompts | – |
| `NotifyCache` | notification cache and the clock | – |
| `KdbxTree` | the content of a database under every update, and what readers make of it | – |
| `PamStore` | PAM connections, bootstrap, `kpxcctl unlock` and `adopt-default` on the three files | – |
| `KdbxSaveProofs`, `DbPoolProofs`, `ServicesProofs`, `AgentClientProofs`, `NotifyCacheProofs`, `PamStoreProofs`, `SecretItemsProofs`, `KdbxTreeProofs` | theorems | extend the module |
| `MC…` | symmetry sets, constraints, values of function constants | extend the module |

`Services` and `AgentClient` rely on the pool only through `PoolEvents`; that
`DbPool` implements `PoolEvents` is both checked and proved, so what is shown of
them holds with the real pool under them (`Reset`, the end of `Close`, comes after
the event loop has returned, so it is no step of theirs).

`SecretItems` and `KdbxTree` both contain `UpdateAndSave`, at different grain:
`KdbxSave` has the file and every failing call, `SecretItems` the memory that
readers share with an update under way, `KdbxTree` the effect on the tree of an
update that is saved or rolled back, as one step, since the write lock is held
throughout.

### KdbxSave

One file, several handles on it (the pool keeps a replaced handle alive), several
goroutines. `file` is what the path names, `stable` what it would name after a
power failure. Content is the set of edits made; a fingerprint is the pair of
inode and content. `pc[t]` is the position in `UpdateAndSave`: the three checks
(`Mutate`, `ProtectEntries`, `CheckBeforeRename`), `EncodeTemp`, `Rename`,
`SyncDir`, `FinishSave`; `SaveFails`, `FailAfterRename` and `RefuseUpdate` are the
error paths. `ExternalWrite` (in place within the second, or by a rename),
`Crash` and `PowerLoss` are the environment. A power failure loses the last rename
unless the directory was synced, and tears a file renamed before its content was
flushed. A fingerprint taken while the file is being replaced (old stat, new
hash) equals no fingerprint of a file; since each check may fail in the model
anyway, it is not a value of its own.

`raced`, `outdated` and `syncLost` are history: they record that a foreign write
fell into one of the three windows the code leaves open (decode to fingerprint in
`Open`, last check to rename, rename to the fingerprint read back), that a handle
is behind the file, and that the ignored directory fsync failed.

### DbPool

Locks are Go's: `Announce` registers a writer (`wr`), which keeps new readers out;
the writer enters when `Readers` is empty. Critical sections that block on nothing
are one step. `Readers` are those who hold a lock; the extraction of SSH keys
(`sshagent/server.go:333`, `client.go:47`, `dbusapi.go:436`) reads `Db` without one,
at `pc` `"extract"`, from where `LoopGet` or `ItemsReturn` left it to `Extracted`, and
any other step, a wipe too, may come in between. `Collection.Items` and `SshScanDatabase` take the read lock twice
(`ItemsRLock`, `ItemsRLockAgain`). (The D-Bus methods that use the SSH agent, such
as `SshAddKey`, are not among them: `startDBus` runs before `startSSHAgent`, so the
API is built without an agent and they fail at once.) Watchers go through `watch`, `send`
and `done`. `phase` follows `DaemonApp.Run`: `autoUnlock`, event loop, deferred
`Close`.

### Services

Each handler is one step except the extraction of keys, which reads `Db` without
a lock and can meet a wipe half way (`ExtractKeys`, `AddKeys`). The handlers look
an object up and then use its identity only, so a pool step in between gives the
same result as one after the handler. SSH agent in server mode with
`remove_on_lock`; both services enabled. `dropped`, `missed`, `late` are history:
databases whose last `Locked` or `Unlocked` event was dropped, or whose `Unlocked`
was sent when the database had been locked again; `taken` the identities an ssh
client removed (`handleRemoveIdentity`, `handleRemoveAllIdentities`) since they were
last added.

### AgentClient

`keys` is the client's record, `agent` what the external agent holds on kpxcd's
behalf. `OnDatabaseUnlocked` is `Extract` and one `PushKey` per key,
`OnDatabaseLocked` is `NoteKeys` and one `RemoveKey` per key, shutdown is
`Terminate`, the same `RemoveKey`, `Closed`. The pool moves between any two of them.
Each request may be refused, and the answer to an addition may be lost.
`AgentStep` is the other process: it stops, comes back, or loses a key to a
lifetime or to the user. `orphans` is history: keys in the agent whose addition it
did not confirm or whose removal failed.

### SecretItems

An exported `Item` caches a copy of its `Entry`, and the copy shares the array of
values with the tree: a *cell*. `tree` maps entries to cells, `obj` items to what
they cache. A save turns the cells of the tree into ciphertext and back, a wipe
empties them, a rollback installs new cells under new UUIDs. `GetSecret` goes
through `Refresh`, `Authorise`, `Label`, `Polkit`, `LookupSession`, `Read`;
`GetSecrets` repeats this for each path, and reads under the lock (`MayRead`), which
`GetSecret` does not. `ConcurrentMapAccess` is Go's runtime ending the process.
An `Emit` of a prompt may fail; it is logged only, and the channel is closed without a
signal (`unsent`).
`hist` records, for the duration of a call, the passwords the entry had, whether
confirmation was off, whether an update or a lock happened, and whether the cell
left the tree.

### NotifyCache

Time is a natural number; `until[a]` is history, the end of the quiet time the app
has earned. The cache may be full of entries that have not expired, then the one
that expires first goes (any of them, if several do).

### KdbxTree

Groups in document order, entries as slots with their values by key, attachments as positions in
`InnerHeader.Binaries`. `CreateItem`, `applyEntryFields`, `appendHistory` with
`trimHistory`, `removeEntryByUUID`, `StoreKey` are operators on the tree;
`UpdateAndSave` saves the result (`cleanupBinaries` renumbers the attachments) or
rolls it back to a clone with new UUIDs and, as in the code, without the
attachments (`SaveFails`). `root.gen` counts rollbacks. What readers make of the
tree (`collectEntriesVisible`, `SearchItems`, `extractKeyFromEntryWithDB`) is in the
properties, each against a reference definition (`Meant`, `Archives`, `Resolved`)
written without the traversal of the code.

`FreshSlot` is any unused slot, as a new UUID is. Loops that stop at the first match
are the index of the first match (`SelectInSeq`); the two loops of `trimHistory` are
the smallest number of dropped versions that each condition allows; the new number
of an attachment is how many IDs in use do not exceed the old one (`NewId`), which is
what numbering a filtered list from the front gives. Strings are names: `Empty` is
the empty string, and `"Recycle_Bin"` or `"Secret_Service"` stand for the code's
strings with a space or a colon.

The two matchers are modelled in full: `MatchAttributes` for searches takes a part of
a title, URL or notes for the whole (`PartKeys`; `Within` is `strings.Contains` on the
texts of the model) and the prefix `custom:` off a key; `matchAttributesForWrite` does
neither; both fall back from `username` and `url` to the fields of older versions
(`Compared`), and know the name of the database. An attribute is stored under its own
key whatever it is called, also `Password`, `UserName` or `URL`
(`applyEntryFields`, `applyEntryAttributes`). `GetEntry` finds an entry by its title
or its user name (`HasPath`). Attributes have values that are not empty, and not both
`title` and `Title`, where the order of a Go map decides; upper and lower case are
not distinguished.

### PamStore

Three files without a lock. `None` is no file, `Torn` a file truncated and not yet
written; a database remembers its inode (`by`) since a rename may replace it under
a writer. Secrets are drawn from a finite set and never twice. Every stat, read,
truncate, write and rename is a step, any write may fail, kpxcd and kpxcctl may
die anywhere, the user may delete the database. `contended` is history: two actors
were between their first and last write at the same time. The configured default
database is taken to be at the default path, which is where kpxcctl looks for it.
Power failures are left out here; they are modelled for saves.

## 3. Runs

| Run | Instance | States | Shows |
|---|---|---|---|
| `save` | 2 goroutines, 2 handles, 2 edits, 1 foreign edit, 3 inodes | 1.0 M | no lost edit outside the windows, readable disk, plain entries for readers, rollback, current fingerprint, lock discipline |
| `pool` | 2 callers, event loop, 1 database, 2 objects, channel of 1 | 0.6 M | a wipe meets nothing but an unlocked extraction of keys, locked stays wiped, implements `PoolEvents` |
| `pool_live` | same with 1 object, fair | 97 k | `Lock`, `LockAll`, `Close` return, unless a nested read lock deadlocked |
| `pool_lock_returns` | same | – | violation: the nested read lock does deadlock |
| `pool_inactivity` | 1 caller, 1 object, fair, timer fair | – | violation: the idle timer fires once in the life of the daemon |
| `services` | 2 databases sharing a key, 3 objects, channel of 2 | 2.3 M | collections and identities follow the pool, up to dropped and late events; identities a client removed come back with the next unlock; databases in files of one name share a path, where the property of the collections makes no claim for the one that lost it |
| `agent_client` | 2 databases sharing a key, 3 objects, channel of 2 | 1.5 M | keys in the external agent are known, go with a lock and with shutdown, up to unconfirmed requests and dropped events |
| `items` | 2 calls, 2 UUIDs, 2 cells, 2 items, 2 passwords, 1 session, 1 prompt | 1.9 M | which value a read may serve, nothing after a lock, confirmation of every secret, what a prompt reports |
| `notify` | 3 apps, 2 places, quiet times 0, 1, 3, time up to 6 | 27 k | bound of the cache, silence and repetition for the right reason |
| `tree` | 3 entries, 3 updates, 1 failed save, 5 sets of attributes, 2 private keys | 0.1 M | what is shown, replaced, found and archived, attachments, generated SSH keys and where they are found again |
| `tree_attachments` | same | – | violation: a failed save leaves entries without their attachments |
| `pam` | 2 connections, 1 kpxcctl, 2 tokens, 4 secrets | 0.2 M | a used database stays unlockable, all files or none, the database is never overwritten |

*Bounds.* Two goroutines and two handles are what a race needs, and two edits plus
a foreign one make every lost-update pattern; three inodes let a temporary file,
the file and its successor coexist. `Bounds` in `MCKdbxSave` stops at the first
race, after which nothing is claimed, and at two edits to keep. One place in the
channel makes "full" and "empty" one step apart, two let events queue behind each
other; 16 only adds more of the same. Two objects of one database give re-opening;
three objects give it for one of two databases. `OneDisturbed` in `MCServices` lets
the events of one database at a time be lost or late, while those of the other
arrive. Two cells and two UUIDs let an entry be replaced
once, which is what separates an item from the tree, and two calls put an update
and a read, or two readers, side by side; `MaxRead` of two is a call that asks
twice, `MaxCalls` of two a prompt used twice. Three apps compete for two places,
and time 6 is enough for the longest quiet time to pass twice. Three updates are
one that attaches, one that detaches and one that fails; the limits of the history
(`DefaultItems` 2, and sizes) are met after two. Three entries are those of the file
and one that is added. The sets of attributes in `MCKdbxTree` are none, a title with
`username` (which falls back to `UserName`), a part of the URL, a `Password` with the
name of the database, and a key with the prefix `custom:`. Four secrets are two bootstraps,
or a bootstrap and an adoption with its own identity. `Uncontended` stops where
`contended` becomes true. Symmetry is used for model values that no property
names; the liveness runs have none.

*Deadlock* is checked in `notify` only, where a secret can always be read. In the
other models calls, saves or secrets run out by their bounds, or the process ends.
That the goroutines do not block each other is the liveness property of
`pool_live`.

*Fairness* (`DbPool!Fairness`). Strong fairness for a goroutine that is inside a
call: a reader that waits for a `sync.RWMutex` is let in when the writer leaves,
and writers queue in a `sync.Mutex`, whose starvation mode hands the lock to the
longest waiter after a millisecond. Weak fairness for a watcher whose context is
cancelled: each of its selects has that case. None for incoming calls, file
changes or the signal; the idle timer expires only in `TimerSpec`, for
`pool_inactivity`.

## 4. Proofs

All theorems are of the form `Spec => …` for arbitrary sets of goroutines,
handles, databases, objects, keys and any positive channel capacity. Assumptions:
only those on the constants (distinct kinds of values, `None` outside of them; in
`KdbxTree` also that the first file has two entries and a password, and that a private
key is neither the empty content nor a KeeAgent setting).

*KdbxSaveProofs.* `TypeCorrect` and `WriteLockCorrect` come from `LockInv`: the
holder of a handle's lock is exactly the goroutine inside `UpdateAndSave` on it,
and that handle is open. On it rests `FormInv`: which position implies which form
of the entries, that temporary files are complete and flushed, that the clone is
plain; it gives `DiskStaysReadable` and `ReadersSeePlainEntries`. `EditInv` is the
fingerprint protocol: without a race, past its last check a goroutine has the
edits of the file in its fingerprint, clone and memory are the edits of the
fingerprint without and with its own, and memory equals fingerprint when nobody
holds the lock; it gives
`EditsKept` and `FailedUpdatesRolledBack`. `CurrentInv` adds that an undisturbed
handle has the file's fingerprint except while its own save is between the rename
and the fingerprint read back, for `FingerprintStaysCurrent`.

*DbPoolProofs.* `WriterInv` ties `wr` to program positions, `LocalInv` says which
locals are set where, `ReaderInv` that nobody scans the pool or holds the read lock of
the database while `Lock` is at work on it, `WipeInv` relates `locked`,
`watcher` and the watcher's state. They give `PoolTypeCorrect`, `OnlyExtractionMeetsWipe`
(whoever uses the content during a wipe is extracting keys) and `LockedStaysWiped`. With `LookupInv` (an object being locked is the one in the
map) each step maps to a step of `PoolEvents` or to a stutter
(`RefinementStep`), which is `PoolImplementsEvents`. An object counts as open until
`Lock` has dropped its watcher: the step that sends the event is the atomic Lock.

*ServicesProofs.* `ServicesTypeCorrect`, and `KeysFollowLocks` from two parts:
`OpenInv` (what `Open` works on is unlocked and not in the map until published,
and the map holds each object under its own UUID) and `KeyInv` (the database of an
identity in the agent, and of one about to be added, is `Watched`: unlocked, or
its `Locked` event is on the way or was dropped). `KeysGoWithLock` alone is not
inductive because `AddKeys` acts on a lookup that may be outdated.
`UnlockedIsServed` and `CollectionsAreThePools` need the order of the events of a
database, since handling `Locked` undoes what `Unlocked` did: `OrderInv` says that
behind a `Locked` in the channel, or in the handler, of a database that is unlocked
there is an `Unlocked`, and the reverse for a locked one (`After`), unless an event
is unsent, was dropped or came late. `AddInv` adds that the keys about to be added
are those of the object in the pool or another event will bring them; `CollInv` that
a collection is the pool's object, or an event of its database is still to be
handled (`Coming`, `Untold`). The pool's steps are treated once, by what they tell
(`PoolTells`), the handlers one by one.

*AgentClientProofs.* Whatever the external agent does: `ClientTypeCorrect`,
`PushedIsKnown`, `PushedFollowLocks`, `CloseLeavesOrphansOnly`. The invariant joins
`StageInv` (which event is handled where), `RecordInv` and `PushedIsTracked`.
`RecordInv` says that the database of each recorded key, and of the keys being
pushed, is `Watched`, and that a removal under way has noted every key it must
remove: no key of the database can be recorded after `NoteKeys`, because one
goroutine handles all events. Without it `PushedGoWithLock` is not inductive: the
handler of `Locked` returns and the event is gone.

*NotifyCacheProofs.* `CacheTypeCorrect`, `CacheStaysBounded`, `SilenceIsEarned`,
`RepeatsFollowEvictions`, for any limit and any sequence of quiet times. `QuietInv`
ties an entry to the quiet time of its app, and the lack of one within it to an
eviction; `RoomIs` and the bound rest on the cardinality theorems of the library.

*PamStoreProofs.* `StoreTypeCorrect` from `LocalInv` (a secret is set wherever it
is written). `DatabaseIsKept` from `OwnerInv`: without contention an actor that
encodes has the file it created, still incomplete, at the path. `KeepsDatabase`
needs it for the creation that fails: it removes whatever is at the path.
`UsedDatabaseStaysUnlockable` needs to follow the secrets: `FreshInv` (a generated
password is known to its actor only and is in no credential) and `SealInv`: without
contention the files fit (`FilesInv`: no credential without an identity, the
credential opens with the identity in place, a used database can be opened), and
each actor finds what its position relies on although nothing is locked (`Place`).
For `FilesAllOrNone`, `DoneInv` adds that, unless a call failed or a program died,
there are no files, or they are complete, or an actor at work completes them.

*SecretItemsProofs.* `ItemsTypeCorrect` from `ShapeInv`: which method can be at which
position, and that the object it works on has an entry. `DbInv` is about the tree: one
writer, who has the passwords from before to go back to; outside of updates each cell
of the tree holds the committed password, and nothing once the database is locked.
`ReadInv` is about a call that waits without a lock: its object has the tree's cell,
or the cell left the tree in an update that `hist` has recorded; an update under way is
recorded; and past the authorisation the user has agreed or confirmation was off. None
of the three properties is inductive without it, for `Read` acts on what was looked up
several steps before. They give `SecretsAreTheEntrys`, `LockWipesWhatIsRead` and
`SecretsAreConfirmed`, for any number of calls at any of their steps.
`PromptsReportTheirCalls` comes from `PromptInv`: a value on its way to the bus was
asked for, a caller closes after a signal or a failed `Emit`, a prompt whose calls are
over is closed, and two that are about to close, or one when the channel is closed, are
two calls, of which the last ends the process.

*KdbxTreeProofs.* `TreeTypeCorrect`, `AttachmentsStay`, `KeysAreServed` and the action
property `HistoryIsComplete`, for any number of entries, any private keys, titles and
sets of attributes, any limits and sizes of histories, and any sequence of updates and failed
saves. `IInv` joins three facts about the tree. `TreeOK`: groups are in document
order, an entry has one place (`OnePlace`), and `EntryOK`: every version has a title,
and KeeAgent settings in CustomData name an attachment that has a number and is a
key. `TreeSound`: every reference of every version is in the range of the attachments
and leads to what was attached. And `AttInv`: unless `shifted`, the tree is sound and
the numbers in use are 1 to n without a gap. None of the properties is inductive
without the last: an encoding that fails renumbers the attachments and leaves the old
references, and it moves nothing only because the references had no gap before and
the updated tree still has them all. The numbering (`Numbering`, `Compaction`: the
encoder's numbers are a bijection, and a prefix without a gap keeps its numbers) rests
on the cardinality theorems, `Cleaned` lifts it to the tree, `Updated` says what every
update may do (keep `TreeOK`, keep soundness, keep or archive a history), one lemma
per update, and `SaveKeeps` treats the three outcomes of a save once for all of them.
The second half of `KeysAreServed` does not need soundness: the number just given to
the key is in use, so the encoder keeps it. `Archived` shows that what `trimHistory`
keeps is the longest suffix within the limits, from `Trimmed`: it drops the least
number of versions that suffices. The property excepts one writer, the property
`Attributes` of an item with a `Password` among them (section 5), and `Attributed`
shows that this writer does nothing else to a history. The searches (`collectEntriesVisible`,
`findMatchingVisibleEntryPtr`, `findGroupPtrByExposure`, `RootEntries`) are never
expanded: the proofs hold for whatever entry or group they return.

The facts about the pool (`PoolTypeOK`, `OpenInv`, `SendKeeps`, `ReceiveKeeps`,
`PoolKeeps`) stand at the head of both `ServicesProofs` and `AgentClientProofs`, which
extend the pool each in its own way.

*Model-checked only:* liveness (`LockReturnsUnlessNested`), which is beyond the
proof system, and of `KdbxTree` `ShownAsMeant`, `ReplaceIsSearch` and `StoredIsFound`.
These three are about what the searches return, and the searches recur over the groups
of the tree: what a recursive function computes for every tree needs an induction over
data, which this prover cannot instantiate.

## 5. Disagreements between code and documentation

Three have a run that TLC refutes and an entry under `findings`:

* `pool_lock_returns`: the nested read lock of `Collection.Items` and
  `SshScanDatabase` deadlocks with a `Lock` that waits in between.
* `pool_inactivity`: `idle_timeout` is armed once, so a database opened after it
  fired is never locked for inactivity (`doc/config.md:132`).
* `tree_attachments`: a failed save restores the entries but not the attachments,
  which the encoder has dropped and renumbered (`save.go:134-136`).

Other limits of the code are exceptions in a property, each recorded by a history
variable, so that the property holds outside of them: a foreign write between the
last check and the rename (`raced`; `doc/kpxcd.md:104`), a handle behind the file
(`outdated`), new UUIDs after a rollback (`root.gen`; a recycle bin or exposed group
known by UUID is then lost), events dropped or late (`dropped`, `missed`, `late`),
removals the external agent did not carry out (`orphans`), and two programs writing
the three PAM files at once (`contended`: a bootstrap may overwrite the credential
of an adoption, and a database created after `adopt-default` looked is replaced by
its rename), and a process that ends because the map of sessions, written under
`mu` and read under `sessionsMu`, was used twice at once or because a prompt was
completed twice (`down`). Further exceptions are stated in the property itself:

* `HistoryComplete`: a client that sets the property `Attributes` of an item with a
  `Password` among them overwrites the secret, and no history keeps the old one
  (`introspect.go:228-239`, `write.go:360-361`).
* `ReplaceIsSearch` and `StoredIsFound`: what a search finds by a part, or by a key
  whose prefix `custom:` it takes off (`attributes.go:57-93`), `CreateItem` does not
  take for the same item (`write.go:255-278`), and an item stored under such a key is
  not found by its own attributes; nor is one whose label overrides its `title`, or
  whose attributes name another database. An attribute `Password` replaces the secret
  of the call.
* `StoredIsFound`: an SSH key stored under a path is looked for by title or user name,
  so an earlier entry whose user name is the path hides it (`dbusapi.go:753`).
* `PromptReport`: an `Emit` that fails leaves the client without a signal
  (`prompt.go:48-53`, `:67-72`); a prompt called twice ends the process, when the
  second call closes the channel.
* `WipeMeetsExtractionOnly`: extraction of SSH keys reads `Db` without the lock.

Two more are in the models without a property: the default alias is
exported once and may serve the collection of a replaced object (`aliasObj` in
`Services`), and an object published between the two critical sections of `Close`
is not wiped (`LockAllScan`, `CloseReset` in `DbPool`).

## 6. Not modelled

FIDO2 is never started. Configuration, path expansion, introspection data,
journald output, message framing and key formats keep no state; kpxcctl's other
commands format requests and answers, the PAM module sends one message. Lifetime
and confirmation of SSH identities are recorded by the code and never enforced, so
there is no behaviour to model. A change of `secret_service_expose_group` by SIGHUP
is left out of `KdbxTree` (the choice is made in `Init`). Wiping is modelled by its
effect (`Db` is nil, cells of the tree are empty); clearing and pinning of memory
pages is below the model. Cryptography is symbolic: what is sealed to a secret opens
with that secret, and the leading zeros that the key exchange loses are a matter
for a unit test.

## 7. Plan

Done, in order of importance: save path, pool, services, PAM store; reads and writes
of secrets, the tree, client mode, notifications; proofs of every invariant of seven
of the eight models and of all of `KdbxTree` that does not depend on a search, of the
action properties of `PamStore` and `KdbxTree`, and of the refinement. Left:

1. The three properties of `KdbxTree` about searches, should the prover learn to
   instantiate an induction theorem; the well-founded order would be the numbers of
   the groups, which `TreeOK` already shows to grow downwards.
2. The default alias of `Services` (`aliasObj`), which has no property yet.
