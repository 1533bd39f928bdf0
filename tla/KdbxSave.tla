------------------------------ MODULE KdbxSave ------------------------------
(***************************************************************************)
(* Saving an open KDBX file (internal/dbpool/save.go) and loading it       *)
(* (DatabasePool.Open in internal/dbpool/pool.go).                         *)
(*                                                                         *)
(* kpxcd holds no lock on the database file.  A handle (OpenDatabase)      *)
(* remembers a fingerprint of the file it loaded or last saved;            *)
(* UpdateAndSave compares it with the file three times, the last time just *)
(* before the rename that replaces the file, and refuses the save when     *)
(* they differ.  The module has one action for every point at which        *)
(* another process, another handle on the same file, an I/O error, a crash *)
(* or a power failure can come in between.                                 *)
(*                                                                         *)
(* The content of a database is the set of edits made to it, with the      *)
(* facts about its entries that the save path changes: whether they carry  *)
(* the UUIDs the clients know, and whether their protected values are in   *)
(* plain or in stream-encrypted form.                                      *)
(***************************************************************************)
EXTENDS Naturals, FiniteSets

CONSTANTS
  Threads,   \* goroutines that call UpdateAndSave
  Handles,   \* OpenDatabase objects allocated for the one file
  Edits,     \* edits the clients of kpxcd ask for
  ExtEdits,  \* edits another program (KeePassXC, a sync client) makes
  Inodes,    \* inode numbers of the file system
  None

ASSUME SaveConstants ==
  /\ None \notin Threads \cup Handles \cup Edits \cup ExtEdits \cup Inodes
  /\ Edits \cap ExtEdits = {}
  /\ Inodes # {}

VARIABLES
  file,     \* what the path names: inode, content, content flushed or not
  stable,   \* what the path would name after a power failure
  st,       \* st[h]: life of the handle
  mem,      \* mem[h]: decrypted content (Db)
  fp,       \* fp[h]: Fingerprint
  mu,       \* mu[h]: holder of the write lock of the handle, or None
  pc,       \* pc[t]: where in UpdateAndSave thread t is
  hd,       \* hd[t]: its receiver
  ed,       \* ed[t]: the edit its mutate callback makes
  orig,     \* orig[t]: originalRoot, the clone taken before mutate
  tmp,      \* tmp[t]: the temporary file, or None
  acked,    \* edits whose UpdateAndSave returned nil
  ext,      \* edits the other program has written
  raced,    \* history: a foreign write hit one of the three race windows
  outdated, \* history: handles the file has moved away from
  syncLost  \* history: the ignored directory fsync failed

vars == <<file, stable, st, mem, fp, mu, pc, hd, ed, orig, tmp,
          acked, ext, raced, outdated, syncLost>>

-----------------------------------------------------------------------------
(* Types *)

AllEdits == Edits \cup ExtEdits

\* Content as stored: ok is FALSE for a file that cannot be decoded.
Data == [edits : SUBSET AllEdits, ids : {"given", "fresh"}, ok : BOOLEAN]

\* A file: content plus whether fsync has put the content on the disk.
File == [ino : Inodes, data : Data, synced : BOOLEAN]

\* Decrypted content.  ids are the UUIDs of entries and groups.
Memory == [edits : SUBSET AllEdits, ids : {"given", "fresh"},
           form : {"plain", "stream"}]

\* FileFingerprint: the stat fields (inode) and the hash of the content.
FileFingerprint == [ino : Inodes, data : Data]

\* None is no file and no fingerprint.
ASSUME NoneAssumption == None \notin File /\ None \notin FileFingerprint

States == {"unused", "decoded", "open", "locked"}

\* Where UpdateAndSave is: about to compare fingerprints (check1 to check3),
\* about to write the temporary file, to rename it, to sync the directory, to
\* read the fingerprint of the saved file back.
Saving  == {"check2", "encode", "check3", "rename"}
Renamed == {"dirsync", "readback"}
PCs == {"idle", "check1"} \cup Saving \cup Renamed

NoMemory == [edits |-> {}, ids |-> "given", form |-> "plain"]

\* The inode numbers in use; a new file gets any other one.
UsedInodes == {file.ino} \cup
              {tmp[t].ino : t \in {u \in Threads : tmp[u] # None}}

-----------------------------------------------------------------------------
(* The pieces of save.go *)

\* Group.Clone and Entry.Clone of gokeepasslib copy everything but the UUID,
\* which is new, so the clone of a tree has none of the known UUIDs.
cloneRootData(m) == [m EXCEPT !.ids = "fresh"]

\* The encoder writes what it is given.  Fed with plain protected values it
\* would produce a file nobody can decode.
EncodeDb(m) == [edits |-> m.edits, ids |-> m.ids, ok |-> m.form = "stream"]

Equal_MetadataOnly(f, g) == f.ino = g.ino

\* Equal compares inode metadata and hash.
Equal(f, g) == f.ino = g.ino /\ f.data = g.data

FingerprintFile_StatIgnored == [ino |-> None, data |-> file.data]

\* FingerprintFile: stat, then open and hash.  A file replaced between the two
\* gives the old inode with the new hash, which equals no fingerprint of a
\* file: a check that meets it refuses, and so may every check here.
FingerprintFile == [ino |-> file.ino, data |-> file.data]

Flushed_Skipped(f) == f

\* tmp.Sync: the content of the temporary file is on the disk.
Flushed(f) == [f EXCEPT !.synced = TRUE]

Unprotected_Forgotten(m) == m

\* UnlockProtectedEntries.
Unprotected(m) == [m EXCEPT !.form = "plain"]

RestoredRoot_None(t) == Unprotected(mem[hd[t]])

\* What a failed save leaves in memory: saveLocked decrypts the entries again
\* and UpdateAndSave then installs the clone it took before the callback.
RestoredRoot(t) == orig[t]

SavedFingerprint_Kept(t) == fp[hd[t]]

\* The fingerprint recorded after the rename is read back from the path.
SavedFingerprint(t) == FingerprintFile

\* A foreign write hits a race window if some handle has been decoded and not
\* fingerprinted, or some save has passed its last check and has not yet
\* fingerprinted its own file.  me is the writing thread (None: outside).
InWindow(me) ==
  \/ \E h \in Handles : st[h] = "decoded"
  \/ \E t \in Threads \ {me} : pc[t] \in {"rename"} \cup Renamed

Unlocked_Leaked(t) == mu

\* The deferred o.mu.Unlock.
Unlocked(t) == [mu EXCEPT ![hd[t]] = None]

\* UpdateAndSave returns: its locals and, by the deferred Remove, the
\* temporary file are gone.
Release(t) ==
  /\ mu' = Unlocked(t)
  /\ pc' = [pc EXCEPT ![t] = "idle"]
  /\ tmp' = [tmp EXCEPT ![t] = None]
  /\ hd' = [hd EXCEPT ![t] = None]
  /\ ed' = [ed EXCEPT ![t] = None]
  /\ orig' = [orig EXCEPT ![t] = NoMemory]

\* saveLocked failed: UpdateAndSave rolls back and returns the error.
RollbackAndRelease(t) ==
  /\ mem' = [mem EXCEPT ![hd[t]] = RestoredRoot(t)]
  /\ Release(t)

Goto(t, l) == pc' = [pc EXCEPT ![t] = l]

-----------------------------------------------------------------------------
(* Open: decode, then fingerprint the path a second time *)

\* os.Open and Decode, then UnlockProtectedEntries.
OpenDecode(h) ==
  /\ st[h] = "unused"
  /\ file.data.ok
  /\ st' = [st EXCEPT ![h] = "decoded"]
  /\ mem' = [mem EXCEPT ![h] = [edits |-> file.data.edits,
                                ids |-> file.data.ids, form |-> "plain"]]
  /\ UNCHANGED <<file, stable, fp, mu, pc, hd, ed, orig, tmp,
                 acked, ext, raced, outdated, syncLost>>

\* FingerprintFile(path); the handle enters the pool.
OpenFingerprint(h) ==
  /\ st[h] = "decoded"
  /\ st' = [st EXCEPT ![h] = "open"]
  /\ fp' = [fp EXCEPT ![h] = FingerprintFile]
  /\ UNCHANGED <<file, stable, mem, mu, pc, hd, ed, orig, tmp,
                 acked, ext, raced, outdated, syncLost>>

\* FingerprintFile failed: Open returns an error and drops the content.
OpenFails(h) ==
  /\ st[h] = "decoded"
  /\ st' = [st EXCEPT ![h] = "unused"]
  /\ mem' = [mem EXCEPT ![h] = NoMemory]
  /\ UNCHANGED <<file, stable, fp, mu, pc, hd, ed, orig, tmp,
                 acked, ext, raced, outdated, syncLost>>

\* DatabasePool.Lock takes the write lock, wipes the content and drops it; the
\* fingerprint is not used again.
LockDatabase(h) ==
  /\ st[h] = "open" /\ mu[h] = None
  /\ st' = [st EXCEPT ![h] = "locked"]
  /\ mem' = [mem EXCEPT ![h] = NoMemory]
  /\ fp' = [fp EXCEPT ![h] = None]
  /\ outdated' = outdated \ {h}
  /\ UNCHANGED <<file, stable, mu, pc, hd, ed, orig, tmp,
                 acked, ext, raced, syncLost>>

-----------------------------------------------------------------------------
(* UpdateAndSave *)

\* Takes the write lock.  On a locked handle it returns at once.
UpdateAndSave(t, h, e) ==
  /\ pc[t] = "idle" /\ mu[h] = None /\ st[h] = "open"
  /\ mu' = [mu EXCEPT ![h] = t]
  /\ hd' = [hd EXCEPT ![t] = h]
  /\ ed' = [ed EXCEPT ![t] = e]
  /\ Goto(t, "check1")
  /\ UNCHANGED <<file, stable, st, mem, fp, orig, tmp,
                 acked, ext, raced, outdated, syncLost>>

\* The first check; on success clone the root and run the mutate callback.
Mutate(t) ==
  LET h == hd[t] IN
  /\ pc[t] = "check1"
  /\ Equal(fp[h], FingerprintFile)
  /\ orig' = [orig EXCEPT ![t] = cloneRootData(mem[h])]
  /\ mem' = [mem EXCEPT ![h].edits = @ \cup {ed[t]}]
  /\ Goto(t, "check2")
  /\ UNCHANGED <<file, stable, st, fp, mu, hd, ed, tmp,
                 acked, ext, raced, outdated, syncLost>>

\* The file cannot be fingerprinted, it changed, or the callback returned an
\* error (every caller's callback returns its errors before its first write).
RefuseUpdate(t) ==
  /\ pc[t] = "check1"
  /\ Release(t)
  /\ UNCHANGED <<file, stable, st, mem, fp,
                 acked, ext, raced, outdated, syncLost>>

\* saveLocked: the second check, then LockProtectedEntries.
ProtectEntries(t) ==
  LET h == hd[t] IN
  /\ pc[t] = "check2"
  /\ Equal(fp[h], FingerprintFile)
  /\ mem' = [mem EXCEPT ![h].form = "stream"]
  /\ Goto(t, "encode")
  /\ UNCHANGED <<file, stable, st, fp, mu, hd, ed, orig, tmp,
                 acked, ext, raced, outdated, syncLost>>

\* atomicEncode: CreateTemp, chmod, Encode, Sync, Close.
EncodeTemp(t) ==
  /\ pc[t] = "encode"
  /\ \E i \in Inodes \ UsedInodes :
       tmp' = [tmp EXCEPT ![t] = Flushed([ino |-> i, data |-> EncodeDb(mem[hd[t]]),
                                          synced |-> FALSE])]
  /\ Goto(t, "check3")
  /\ UNCHANGED <<file, stable, st, mem, fp, mu, hd, ed, orig,
                 acked, ext, raced, outdated, syncLost>>

\* The last check before the rename.
CheckBeforeRename(t) ==
  /\ pc[t] = "check3"
  /\ Equal(fp[hd[t]], FingerprintFile)
  /\ Goto(t, "rename")
  /\ UNCHANGED <<file, stable, st, mem, fp, mu, hd, ed, orig, tmp,
                 acked, ext, raced, outdated, syncLost>>

\* os.Rename.  To every other handle on the file this is a foreign write.
Rename(t) ==
  /\ pc[t] = "rename"
  /\ file' = tmp[t]
  /\ tmp' = [tmp EXCEPT ![t] = None]
  /\ raced' = (raced \/ InWindow(t))
  /\ outdated' = outdated \cup 
                   {h \in Handles \ {hd[t]} : st[h] = "open"}
  /\ Goto(t, "dirsync")
  /\ UNCHANGED <<stable, st, mem, fp, mu, hd, ed, orig,
                 acked, ext, syncLost>>

\* The directory is opened and synced, errors being ignored; atomicEncode
\* returns and UnlockProtectedEntries restores the plain form.
SyncDir(t) ==
  /\ pc[t] = "dirsync"
  /\ \/ stable' = file /\ UNCHANGED syncLost
     \/ syncLost' = TRUE /\ UNCHANGED stable
  /\ mem' = [mem EXCEPT ![hd[t]] = Unprotected(@)]
  /\ Goto(t, "readback")
  /\ UNCHANGED <<file, st, fp, mu, hd, ed, orig, tmp,
                 acked, ext, raced, outdated>>

\* The fingerprint of the saved file is taken from the path; nil is returned.
FinishSave(t) ==
  /\ pc[t] = "readback"
  /\ fp' = [fp EXCEPT ![hd[t]] = SavedFingerprint(t)]
  /\ acked' = acked \cup {ed[t]}
  /\ Release(t)
  /\ UNCHANGED <<file, stable, st, mem, ext, raced, outdated, syncLost>>

\* A check finds another file, or a call fails, before the rename.
SaveFails(t) ==
  /\ pc[t] \in Saving
  /\ RollbackAndRelease(t)
  /\ UNCHANGED <<file, stable, st, fp,
                 acked, ext, raced, outdated, syncLost>>

\* UnlockProtectedEntries or FingerprintFile fails after the rename: the
\* memory is rolled back although the file has been replaced.
FailAfterRename(t) ==
  /\ pc[t] = "readback"
  /\ RollbackAndRelease(t)
  /\ outdated' = outdated \cup {hd[t]}
  /\ UNCHANGED <<file, stable, st, fp, acked, ext, raced, syncLost>>

-----------------------------------------------------------------------------
(* The environment *)

\* Another program loads the file, adds an edit and writes it back, in place
\* (within the second, so that only the hash differs) or by a rename, and
\* flushes it.
ExternalWrite(x) ==
  /\ x \notin ext /\ file.data.ok
  /\ \E i \in {file.ino} \cup (Inodes \ UsedInodes) :
       file' = [ino |-> i, data |-> [file.data EXCEPT !.edits = @ \cup {x}],
                synced |-> TRUE]
  /\ stable' = file'
  /\ ext' = ext \cup {x}
  /\ raced' = (raced \/ InWindow(None))
  /\ outdated' = outdated \cup {h \in Handles : st[h] = "open"}
  /\ UNCHANGED <<st, mem, fp, mu, pc, hd, ed, orig, tmp,
                 acked, syncLost>>

\* A new process: no handle, no goroutine in a save.
FreshProcess ==
  /\ st' = [h \in Handles |-> "unused"]
  /\ mem' = [h \in Handles |-> NoMemory]
  /\ fp' = [h \in Handles |-> None]
  /\ mu' = [h \in Handles |-> None]
  /\ pc' = [t \in Threads |-> "idle"]
  /\ hd' = [t \in Threads |-> None]
  /\ ed' = [t \in Threads |-> None]
  /\ orig' = [t \in Threads |-> NoMemory]
  /\ tmp' = [t \in Threads |-> None]
  /\ outdated' = {}

\* kpxcd dies and is started again.
Crash ==
  /\ FreshProcess
  /\ UNCHANGED <<file, stable, acked, ext, raced, syncLost>>

\* The machine loses power: the last rename has reached the disk or not, and
\* a file renamed before its content was flushed is torn.
PowerLoss ==
  /\ FreshProcess
  /\ \E f \in {file, stable} :
       file' = [ino |-> f.ino, data |-> [f.data EXCEPT !.ok = @ /\ f.synced],
                synced |-> TRUE]
  /\ stable' = file'
  /\ UNCHANGED <<acked, ext, raced, syncLost>>

-----------------------------------------------------------------------------
Init ==
  /\ \E i \in Inodes :
       file = [ino |-> i, data |-> [edits |-> {}, ids |-> "given", ok |-> TRUE],
               synced |-> TRUE]
  /\ stable = file
  /\ st = [h \in Handles |-> "unused"]
  /\ mem = [h \in Handles |-> NoMemory]
  /\ fp = [h \in Handles |-> None]
  /\ mu = [h \in Handles |-> None]
  /\ pc = [t \in Threads |-> "idle"]
  /\ hd = [t \in Threads |-> None]
  /\ ed = [t \in Threads |-> None]
  /\ orig = [t \in Threads |-> NoMemory]
  /\ tmp = [t \in Threads |-> None]
  /\ acked = {} /\ ext = {} /\ outdated = {}
  /\ raced = FALSE /\ syncLost = FALSE

OpenStep(h) == OpenDecode(h) \/ OpenFingerprint(h) \/ OpenFails(h)

\* The steps of a thread inside UpdateAndSave.
SaveStep(t) ==
  \/ Mutate(t) \/ RefuseUpdate(t) \/ ProtectEntries(t)
  \/ EncodeTemp(t) \/ CheckBeforeRename(t) \/ Rename(t)
  \/ SyncDir(t) \/ FinishSave(t) \/ SaveFails(t) \/ FailAfterRename(t)

Next ==
  \/ \E h \in Handles : OpenStep(h) \/ LockDatabase(h)
  \/ \E t \in Threads, h \in Handles, e \in Edits : UpdateAndSave(t, h, e)
  \/ \E t \in Threads : SaveStep(t)
  \/ \E x \in ExtEdits : ExternalWrite(x)
  \/ Crash
  \/ PowerLoss

Spec == Init /\ [][Next]_vars


-----------------------------------------------------------------------------
(* Properties *)

\* Every variable holds a value of its type.
TypeOK ==
  /\ file \in File /\ stable \in File
  /\ st \in [Handles -> States]
  /\ mem \in [Handles -> Memory]
  /\ fp \in [Handles -> FileFingerprint \cup {None}]
  /\ mu \in [Handles -> Threads \cup {None}]
  /\ pc \in [Threads -> PCs]
  /\ hd \in [Threads -> Handles \cup {None}]
  /\ ed \in [Threads -> Edits \cup {None}]
  /\ orig \in [Threads -> Memory]
  /\ tmp \in [Threads -> File \cup {None}]
  /\ acked \subseteq Edits /\ ext \subseteq ExtEdits /\ outdated \subseteq Handles
  /\ raced \in BOOLEAN /\ syncLost \in BOOLEAN

\* UpdateAndSave (save.go:73-75): the fingerprint protocol loses no edit,
\* neither one it acknowledged nor one another program or another handle
\* wrote, whatever fails or crashes, as long as no foreign write falls into
\* one of three windows: decode to fingerprint in Open, last check to rename,
\* and rename to the fingerprint read back.  Power failures are covered too,
\* unless the directory fsync, whose error the code ignores, has failed.
NoLostEdit ==
  ~raced /\ ~syncLost =>
    acked \cup ext \subseteq file.data.edits \cap stable.data.edits

\* atomicEncode: at every moment, and after a power failure at any moment, the
\* path names a complete database that can be decoded.
DiskAlwaysReadable ==
  /\ file.data.ok /\ file.synced
  /\ stable.data.ok /\ stable.synced

\* saveLocked converts the entries to stream-encrypted form to encode them; no
\* reader ever gets the lock while they are in that form, on any error path.
PlainWhenUnlocked ==
  \A h \in Handles : st[h] = "open" /\ mu[h] = None => mem[h].form = "plain"

\* UpdateAndSave, Save: between two updates the memory holds exactly the edits
\* of the file version the fingerprint stands for: an update that failed has
\* left nothing behind, one that succeeded is in both.
MemoryMatchesFingerprint ==
  ~raced => \A h \in Handles :
    st[h] = "open" /\ mu[h] = None => mem[h].edits = fp[h].data.edits

\* A handle nobody has written behind the back of, and whose saves did not
\* fail half way, can save: its fingerprint is the one of the file.
FingerprintCurrent ==
  \A h \in Handles : st[h] = "open" /\ mu[h] = None /\ h \notin outdated =>
    fp[h] = [ino |-> file.ino, data |-> file.data]

\* o.mu: no two goroutines are ever inside UpdateAndSave on one handle, and
\* none returns, on any of its error paths, with the write lock held.
WriteLockDiscipline ==
  \A t \in Threads, h \in Handles : mu[h] = t <=> pc[t] # "idle" /\ hd[t] = h
=============================================================================
