--------------------------- MODULE KdbxSaveProofs ---------------------------
(***************************************************************************)
(* Proofs about KdbxSave, for any number of goroutines, handles, edits and *)
(* inodes.                                                                 *)
(***************************************************************************)
EXTENDS KdbxSave, TLAPS

\* A goroutine inside UpdateAndSave has a receiver, an edit and the write lock
\* of an open handle; the lock is held by nobody else.  The locals a step uses
\* have been set by an earlier one.
LockInv ==
  /\ \A t \in Threads : pc[t] # "idle" =>
       /\ hd[t] \in Handles /\ ed[t] \in Edits
       /\ mu[hd[t]] = t /\ st[hd[t]] = "open"
       /\ pc[t] \in {"check3", "rename"} => tmp[t] # None
  /\ \A h \in Handles :
       /\ st[h] = "open" => fp[h] # None
       /\ mu[h] # None => pc[mu[h]] # "idle" /\ hd[mu[h]] = h

\* The updates of a content record the save path makes stay in their types.
LEMMA RecordTypes ==
  /\ NoMemory \in Memory
  /\ \A m \in Memory : /\ [m EXCEPT !.form = "stream"] \in Memory
                       /\ Unprotected(m) \in Memory
                       /\ cloneRootData(m) \in Memory
                       /\ EncodeDb(m) \in Data
                       /\ \A e \in Edits : [m EXCEPT !.edits = @ \cup {e}] \in Memory
  /\ \A d \in Data : /\ \A x \in ExtEdits : [d EXCEPT !.edits = @ \cup {x}] \in Data
                     /\ \A b \in BOOLEAN : [d EXCEPT !.ok = b] \in Data
  /\ \A i \in Inodes, d \in Data :
       Flushed([ino |-> i, data |-> d, synced |-> FALSE]) \in File
  /\ FingerprintFile \in FileFingerprint <=> file.ino \in Inodes /\ file.data \in Data
  BY DEF NoMemory, Memory, Data, AllEdits, Unprotected, cloneRootData, EncodeDb,
         FingerprintFile, FileFingerprint, Flushed, File

\* Every step keeps every variable in its type.
LEMMA TypeStep == TypeOK /\ LockInv /\ [Next]_vars => TypeOK'
<1> SUFFICES ASSUME TypeOK, LockInv, [Next]_vars PROVE TypeOK'
  OBVIOUS
<1> USE SaveConstants, RecordTypes DEF TypeOK, States, PCs, Saving, Renamed
<1>1. ASSUME NEW h \in Handles, OpenStep(h) PROVE TypeOK'
  <2>1. CASE OpenDecode(h) BY <2>1 DEF OpenDecode, File, Data, Memory
  <2>2. CASE OpenFingerprint(h) BY <2>2 DEF OpenFingerprint, File
  <2>3. CASE OpenFails(h) BY <2>3 DEF OpenFails
  <2> QED BY <1>1, <2>1, <2>2, <2>3 DEF OpenStep
<1>2. ASSUME NEW h \in Handles, LockDatabase(h) PROVE TypeOK'
  BY <1>2 DEF LockDatabase
<1>3. ASSUME NEW t \in Threads, NEW h \in Handles, NEW e \in Edits,
             UpdateAndSave(t, h, e)
      PROVE  TypeOK'
  BY <1>3 DEF UpdateAndSave, Goto
<1>4. ASSUME NEW t \in Threads, SaveStep(t) PROVE TypeOK'
  <2> USE DEF LockInv
  <2>1. CASE Mutate(t)
    <3>1. mem' \in [Handles -> Memory] BY <2>1 DEF Mutate
    <3> QED BY <2>1, <3>1 DEF Mutate, Goto
  <2>2. CASE RefuseUpdate(t) BY <2>2 DEF RefuseUpdate, Release, Unlocked
  <2>3. CASE ProtectEntries(t)
    <3>1. mem' \in [Handles -> Memory] BY <2>3 DEF ProtectEntries
    <3> QED BY <2>3, <3>1 DEF ProtectEntries, Goto
  <2>4. CASE EncodeTemp(t)
    <3>1. PICK i \in Inodes :
            tmp' = [tmp EXCEPT ![t] = Flushed([ino |-> i, data |-> EncodeDb(mem[hd[t]]),
                                               synced |-> FALSE])]
      BY <2>4 DEF EncodeTemp
    <3>2. EncodeDb(mem[hd[t]]) \in Data BY <2>4 DEF EncodeTemp
    <3>3. tmp' \in [Threads -> File \cup {None}] BY <3>1, <3>2
    <3> QED BY <2>4, <3>3 DEF EncodeTemp, Goto
  <2>5. CASE CheckBeforeRename(t) BY <2>5 DEF CheckBeforeRename, Goto
  <2>6. CASE Rename(t) BY <2>6 DEF Rename, Goto, InWindow
  <2>7. CASE SyncDir(t)
    <3>1. mem' \in [Handles -> Memory] BY <2>7 DEF SyncDir
    <3> QED BY <2>7, <3>1 DEF SyncDir, Goto
  <2>8. CASE FinishSave(t)
    BY <2>8 DEF FinishSave, Release, Unlocked, SavedFingerprint, File
  <2>9. CASE SaveFails(t)
    BY <2>9 DEF SaveFails, RollbackAndRelease, Release, Unlocked, RestoredRoot
  <2>10. CASE FailAfterRename(t)
    BY <2>10 DEF FailAfterRename, RollbackAndRelease, Release, Unlocked, RestoredRoot
  <2> QED
    BY <1>4, <2>1, <2>2, <2>3, <2>4, <2>5, <2>6, <2>7, <2>8, <2>9, <2>10 DEF SaveStep
<1>5. ASSUME NEW x \in ExtEdits, ExternalWrite(x) PROVE TypeOK'
  <2>1. file' \in File BY <1>5 DEF ExternalWrite, File
  <2> QED BY <1>5, <2>1 DEF ExternalWrite, InWindow
<1>6. CASE Crash BY <1>6 DEF Crash, FreshProcess
<1>7. CASE PowerLoss
  <2>1. file' \in File
    <3>1. PICK f \in {file, stable} :
            file' = [ino |-> f.ino, data |-> [f.data EXCEPT !.ok = @ /\ f.synced],
                     synced |-> TRUE]
      BY <1>7 DEF PowerLoss
    <3>2. f \in File /\ (f.data.ok /\ f.synced) \in BOOLEAN BY DEF File, Data
    <3>3. [f.data EXCEPT !.ok = @ /\ f.synced] \in Data BY <3>2 DEF File, Data
    <3> QED BY <3>1, <3>2, <3>3 DEF File
  <2> QED BY <1>7, <2>1 DEF PowerLoss, FreshProcess
<1>8. CASE UNCHANGED vars BY <1>8 DEF vars
<1> QED BY <1>1, <1>2, <1>3, <1>4, <1>5, <1>6, <1>7, <1>8 DEF Next

\* Every step keeps the write lock with the goroutine that is saving.
LEMMA LockStep == TypeOK /\ LockInv /\ [Next]_vars => LockInv'
<1> SUFFICES ASSUME TypeOK, LockInv, [Next]_vars PROVE LockInv'
  OBVIOUS
<1> USE SaveConstants DEF TypeOK, LockInv, Saving, Renamed
<1>a. FingerprintFile \in FileFingerprint /\ FingerprintFile # None
  BY RecordTypes, NoneAssumption DEF File
<1>1. ASSUME NEW h \in Handles, OpenStep(h) PROVE LockInv'
  BY <1>1, <1>a DEF OpenStep, OpenDecode, OpenFingerprint, OpenFails
<1>2. ASSUME NEW h \in Handles, LockDatabase(h) PROVE LockInv'
  BY <1>2 DEF LockDatabase
<1>3. ASSUME NEW t \in Threads, NEW h \in Handles, NEW e \in Edits,
             UpdateAndSave(t, h, e)
      PROVE  LockInv'
  BY <1>3 DEF UpdateAndSave, Goto
<1>4. ASSUME NEW t \in Threads, SaveStep(t) PROVE LockInv'
  <2>1. CASE Mutate(t) BY <2>1 DEF Mutate, Goto
  <2>2. CASE RefuseUpdate(t) BY <2>2 DEF RefuseUpdate, Release, Unlocked
  <2>3. CASE ProtectEntries(t) BY <2>3 DEF ProtectEntries, Goto
  <2>4. CASE EncodeTemp(t)
    <3>1. PICK i \in Inodes :
            tmp' = [tmp EXCEPT ![t] = Flushed([ino |-> i, data |-> EncodeDb(mem[hd[t]]),
                                               synced |-> FALSE])]
      BY <2>4 DEF EncodeTemp
    <3>2. tmp'[t] \in File BY <2>4, <3>1, RecordTypes DEF EncodeTemp
    <3>3. tmp'[t] # None BY <3>2, NoneAssumption
    <3> QED BY <2>4, <3>1, <3>3 DEF EncodeTemp, Goto
  <2>5. CASE CheckBeforeRename(t) BY <2>5 DEF CheckBeforeRename, Goto
  <2>6. CASE Rename(t) BY <2>6 DEF Rename, Goto
  <2>7. CASE SyncDir(t) BY <2>7 DEF SyncDir, Goto
  <2>8. CASE FinishSave(t)
    BY <2>8, <1>a DEF FinishSave, Release, Unlocked, SavedFingerprint
  <2>9. CASE SaveFails(t)
    BY <2>9 DEF SaveFails, RollbackAndRelease, Release, Unlocked
  <2>10. CASE FailAfterRename(t)
    BY <2>10 DEF FailAfterRename, RollbackAndRelease, Release, Unlocked
  <2> QED
    BY <1>4, <2>1, <2>2, <2>3, <2>4, <2>5, <2>6, <2>7, <2>8, <2>9, <2>10 DEF SaveStep
<1>5. ASSUME NEW x \in ExtEdits, ExternalWrite(x) PROVE LockInv'
  BY <1>5 DEF ExternalWrite
<1>6. CASE Crash BY <1>6 DEF Crash, FreshProcess
<1>7. CASE PowerLoss BY <1>7 DEF PowerLoss, FreshProcess
<1>8. CASE UNCHANGED vars BY <1>8 DEF vars
<1> QED BY <1>1, <1>2, <1>3, <1>4, <1>5, <1>6, <1>7, <1>8 DEF Next

\* The type invariant and the lock discipline together are inductive.
LEMMA LockInvariant == Spec => [](TypeOK /\ LockInv)
<1>1. Init => TypeOK /\ LockInv
  <2> SUFFICES ASSUME Init PROVE TypeOK /\ LockInv
    OBVIOUS
  <2>1. file \in File BY DEF Init, File, Data, AllEdits
  <2>2. TypeOK BY <2>1, RecordTypes DEF Init, TypeOK, States, PCs
  <2>3. LockInv BY DEF Init, LockInv
  <2> QED BY <2>2, <2>3
<1> QED BY <1>1, TypeStep, LockStep, PTL DEF Spec

\* Every variable keeps its type (KdbxSave!TypeOK).
THEOREM TypeCorrect == Spec => []TypeOK
  BY LockInvariant, PTL

\* One goroutine at a time saves a handle, and it returns the write lock on
\* every path out of UpdateAndSave.
THEOREM WriteLockCorrect == Spec => []WriteLockDiscipline
<1>1. TypeOK /\ LockInv => WriteLockDiscipline
  BY SaveConstants DEF TypeOK, LockInv, WriteLockDiscipline
<1> QED BY <1>1, LockInvariant, PTL

-----------------------------------------------------------------------------
(* What is in which form while a save is under way.                        *)

\* The protected values are in stream form exactly from LockProtectedEntries
\* to the return of atomicEncode; the clone to roll back to is in plain form;
\* the file to be renamed is complete, flushed and holds what the memory does.
FormInv ==
  /\ DiskAlwaysReadable
  /\ PlainWhenUnlocked
  /\ \A h \in Handles : st[h] = "decoded" => mem[h].form = "plain"
  /\ \A t \in Threads :
       /\ pc[t] \in {"check1", "check2", "readback"} => mem[hd[t]].form = "plain"
       /\ pc[t] \in {"encode", "check3", "rename", "dirsync"} =>
            mem[hd[t]].form = "stream"
       /\ pc[t] \in Saving \cup Renamed => orig[t].form = "plain"
       /\ pc[t] \in {"check3", "rename"} =>
            /\ tmp[t].synced /\ tmp[t].data.ok
            /\ tmp[t].data.edits = mem[hd[t]].edits

\* Every step keeps the form of the protected values as its phase has it.
LEMMA FormStep == TypeOK /\ LockInv /\ FormInv /\ [Next]_vars => FormInv'
<1> SUFFICES ASSUME TypeOK, LockInv, FormInv, [Next]_vars PROVE FormInv'
  OBVIOUS
<1> USE SaveConstants DEF TypeOK, LockInv, FormInv, DiskAlwaysReadable,
        PlainWhenUnlocked, Saving, Renamed
<1>1. ASSUME NEW h \in Handles, OpenStep(h) PROVE FormInv'
  <2>1. CASE OpenDecode(h) BY <2>1 DEF OpenDecode
  <2>2. CASE OpenFingerprint(h)
    BY <2>2 DEF OpenFingerprint
  <2>3. CASE OpenFails(h) BY <2>3 DEF OpenFails
  <2> QED BY <1>1, <2>1, <2>2, <2>3 DEF OpenStep
<1>2. ASSUME NEW h \in Handles, LockDatabase(h) PROVE FormInv'
  BY <1>2 DEF LockDatabase
<1>3. ASSUME NEW t \in Threads, NEW h \in Handles, NEW e \in Edits,
             UpdateAndSave(t, h, e)
      PROVE  FormInv'
  BY <1>3 DEF UpdateAndSave, Goto
<1>4. ASSUME NEW t \in Threads, SaveStep(t) PROVE FormInv'
  <2>1. CASE Mutate(t) BY <2>1 DEF Mutate, cloneRootData, Goto, Memory
  <2>2. CASE RefuseUpdate(t) BY <2>2 DEF RefuseUpdate, Release, Unlocked
  <2>3. CASE ProtectEntries(t) BY <2>3 DEF ProtectEntries, Goto, Memory
  <2>4. CASE EncodeTemp(t)
    <3>1. PICK i \in Inodes :
            tmp' = [tmp EXCEPT ![t] = Flushed([ino |-> i, data |-> EncodeDb(mem[hd[t]]),
                                               synced |-> FALSE])]
      BY <2>4 DEF EncodeTemp
    <3>a. mem[hd[t]].form = "stream" BY <2>4 DEF EncodeTemp
    <3>b. tmp'[t] = Flushed([ino |-> i, data |-> EncodeDb(mem[hd[t]]), synced |-> FALSE])
      BY <3>1
    <3>c. EncodeDb(mem[hd[t]]).ok = TRUE /\ EncodeDb(mem[hd[t]]).edits = mem[hd[t]].edits
      BY <3>a DEF EncodeDb
    <3>2. /\ tmp'[t].synced /\ tmp'[t].data.ok
          /\ tmp'[t].data.edits = mem[hd[t]].edits
      BY <3>b, <3>c DEF Flushed
    <3> QED BY <2>4, <3>1, <3>2 DEF EncodeTemp, Goto
  <2>5. CASE CheckBeforeRename(t) BY <2>5 DEF CheckBeforeRename, Goto
  <2>6. CASE Rename(t) BY <2>6 DEF Rename, Goto
  <2>7. CASE SyncDir(t) BY <2>7 DEF SyncDir, Unprotected, Goto, Memory
  <2>8. CASE FinishSave(t) BY <2>8 DEF FinishSave, Release, Unlocked
  <2>9. CASE SaveFails(t)
    BY <2>9 DEF SaveFails, RollbackAndRelease, Release, Unlocked, RestoredRoot
  <2>10. CASE FailAfterRename(t)
    BY <2>10 DEF FailAfterRename, RollbackAndRelease, Release, Unlocked, RestoredRoot
  <2> QED
    BY <1>4, <2>1, <2>2, <2>3, <2>4, <2>5, <2>6, <2>7, <2>8, <2>9, <2>10 DEF SaveStep
<1>5. ASSUME NEW x \in ExtEdits, ExternalWrite(x) PROVE FormInv'
  BY <1>5 DEF ExternalWrite, File, Data
<1>6. CASE Crash BY <1>6 DEF Crash, FreshProcess
<1>7. CASE PowerLoss BY <1>7 DEF PowerLoss, FreshProcess, File, Data
<1>8. CASE UNCHANGED vars BY <1>8 DEF vars
<1> QED BY <1>1, <1>2, <1>3, <1>4, <1>5, <1>6, <1>7, <1>8 DEF Next

\* FormInv holds of every behaviour.
LEMMA FormInvariant == Spec => []FormInv
<1>1. Init => FormInv
  BY DEF Init, FormInv, DiskAlwaysReadable, PlainWhenUnlocked, Saving, Renamed
<1> QED BY <1>1, FormStep, LockInvariant, PTL DEF Spec

\* Whatever fails, crashes or interferes, the path names a complete, readable
\* database, and would after a power failure.
THEOREM DiskStaysReadable == Spec => []DiskAlwaysReadable
  BY FormInvariant, PTL DEF FormInv

\* No reader of a handle sees entries in the form they are encoded in.
THEOREM ReadersSeePlainEntries == Spec => []PlainWhenUnlocked
  BY FormInvariant, PTL DEF FormInv

-----------------------------------------------------------------------------
(* No edit is lost.                                                        *)

\* The facts that make the fingerprint protocol work while no foreign write
\* has hit a race window.  The heart of it: a handle's memory is the file
\* version its fingerprint stands for, plus the edit being saved; a save that
\* has passed its last check replaces a file of that very version.
EditInv ==
  ~raced =>
    /\ \A h \in Handles :
         /\ st[h] = "decoded" => mem[h].edits = file.data.edits
         /\ st[h] = "open" /\ mu[h] = None => mem[h].edits = fp[h].data.edits
    /\ \A t \in Threads :
         /\ pc[t] = "check1" => mem[hd[t]].edits = fp[hd[t]].data.edits
         /\ pc[t] \in Saving \cup Renamed =>
              /\ orig[t].edits = fp[hd[t]].data.edits
              /\ mem[hd[t]].edits = orig[t].edits \cup {ed[t]}
         /\ pc[t] = "rename" => file.data.edits = fp[hd[t]].data.edits
         /\ pc[t] \in Renamed => file.data.edits = mem[hd[t]].edits
         /\ pc[t] = "readback" /\ ~syncLost => stable.data.edits = file.data.edits
    /\ NoLostEdit

\* Every step keeps the edits of memory, fingerprint and file related.
LEMMA EditStep == TypeOK /\ LockInv /\ FormInv /\ EditInv /\ [Next]_vars => EditInv'
<1> SUFFICES ASSUME TypeOK, LockInv, FormInv, EditInv, [Next]_vars, ~raced'
             PROVE  EditInv'
  BY DEF EditInv
<1>0. ~raced
  <2>1. CASE \E t \in Threads : Rename(t) BY <2>1 DEF Rename
  <2>2. CASE \E x \in ExtEdits : ExternalWrite(x) BY <2>2 DEF ExternalWrite
  <2>3. CASE raced' = raced BY <2>3
  <2> QED
    BY <2>1, <2>2, <2>3 DEF Next, vars, OpenStep, OpenDecode, OpenFingerprint, OpenFails,
       LockDatabase, UpdateAndSave, SaveStep, Mutate, RefuseUpdate, ProtectEntries,
       EncodeTemp, CheckBeforeRename, SyncDir, FinishSave, SaveFails, FailAfterRename,
       Crash, PowerLoss
<1> USE <1>0, SaveConstants DEF TypeOK, LockInv, EditInv, NoLostEdit, Saving, Renamed
<1>1. ASSUME NEW h \in Handles, OpenStep(h) PROVE EditInv'
  <2>1. CASE OpenDecode(h) BY <2>1 DEF OpenDecode
  <2>2. CASE OpenFingerprint(h) BY <2>2 DEF OpenFingerprint, FingerprintFile
  <2>3. CASE OpenFails(h) BY <2>3 DEF OpenFails
  <2> QED BY <1>1, <2>1, <2>2, <2>3 DEF OpenStep
<1>2. ASSUME NEW h \in Handles, LockDatabase(h) PROVE EditInv'
  BY <1>2 DEF LockDatabase
<1>3. ASSUME NEW t \in Threads, NEW h \in Handles, NEW e \in Edits,
             UpdateAndSave(t, h, e)
      PROVE  EditInv'
  BY <1>3 DEF UpdateAndSave, Goto
<1>4. ASSUME NEW t \in Threads, SaveStep(t) PROVE EditInv'
  <2>1. CASE Mutate(t) BY <2>1 DEF Mutate, cloneRootData, Goto, Memory
  <2>2. CASE RefuseUpdate(t) BY <2>2 DEF RefuseUpdate, Release, Unlocked
  <2>3. CASE ProtectEntries(t) BY <2>3 DEF ProtectEntries, Goto, Memory
  <2>4. CASE EncodeTemp(t) BY <2>4 DEF EncodeTemp, Goto
  <2>5. CASE CheckBeforeRename(t)
    BY <2>5 DEF CheckBeforeRename, Equal, FingerprintFile, Goto
  <2>6. CASE Rename(t)
    <3>1. ~InWindow(t) BY <2>6 DEF Rename
    <3>2. /\ \A h \in Handles : st[h] # "decoded"
          /\ \A u \in Threads \ {t} : pc[u] # "rename" /\ pc[u] \notin Renamed
      BY <3>1 DEF InWindow
    <3>3. /\ file'.data.edits = mem[hd[t]].edits
          /\ file.data.edits \subseteq file'.data.edits
      BY <2>6 DEF Rename, FormInv
    <3> QED BY <2>6, <3>2, <3>3 DEF Rename, Goto
  <2>7. CASE SyncDir(t) BY <2>7 DEF SyncDir, Unprotected, Goto, Memory
  <2>8. CASE FinishSave(t)
    BY <2>8 DEF FinishSave, Release, Unlocked, SavedFingerprint, FingerprintFile
  <2>9. CASE SaveFails(t)
    BY <2>9 DEF SaveFails, RollbackAndRelease, Release, Unlocked, RestoredRoot
  <2>10. CASE FailAfterRename(t)
    BY <2>10 DEF FailAfterRename, RollbackAndRelease, Release, Unlocked, RestoredRoot
  <2> QED
    BY <1>4, <2>1, <2>2, <2>3, <2>4, <2>5, <2>6, <2>7, <2>8, <2>9, <2>10 DEF SaveStep
<1>5. ASSUME NEW x \in ExtEdits, ExternalWrite(x) PROVE EditInv'
  BY <1>5 DEF ExternalWrite, InWindow, File, Data
<1>6. CASE Crash BY <1>6 DEF Crash, FreshProcess
<1>7. CASE PowerLoss BY <1>7 DEF PowerLoss, FreshProcess, File, Data
<1>8. CASE UNCHANGED vars BY <1>8 DEF vars
<1> QED BY <1>1, <1>2, <1>3, <1>4, <1>5, <1>6, <1>7, <1>8 DEF Next

\* EditInv holds of every behaviour.
LEMMA EditInvariant == Spec => []EditInv
<1>1. Init => EditInv
  BY DEF Init, EditInv, NoLostEdit, Saving, Renamed
<1> QED BY <1>1, EditStep, LockInvariant, FormInvariant, PTL DEF Spec

\* Outside the three windows, no acknowledged edit and no edit of another
\* program is lost by any interleaving of saves, failures and crashes.
THEOREM EditsKept == Spec => []NoLostEdit
<1>1. EditInv => NoLostEdit BY DEF EditInv, NoLostEdit
<1> QED BY <1>1, EditInvariant, PTL

\* Between updates the memory holds the edits of the fingerprinted version:
\* a failed update is rolled back completely.
THEOREM FailedUpdatesRolledBack == Spec => []MemoryMatchesFingerprint
<1>1. EditInv => MemoryMatchesFingerprint BY DEF EditInv, MemoryMatchesFingerprint
<1> QED BY <1>1, EditInvariant, PTL

-----------------------------------------------------------------------------
(* The fingerprint of an undisturbed handle is the one of the file.        *)

\* While its own save has not replaced the file, a handle that is not
\* outdated has the fingerprint of the file.
CurrentInv ==
  \A h \in Handles :
    /\ st[h] = "open" /\ h \notin outdated
    /\ mu[h] # None => pc[mu[h]] \notin Renamed
    => fp[h] = FingerprintFile

\* Every step keeps the fingerprint of an undisturbed handle current.
LEMMA CurrentStep == TypeOK /\ LockInv /\ CurrentInv /\ [Next]_vars => CurrentInv'
<1> SUFFICES ASSUME TypeOK, LockInv, CurrentInv, [Next]_vars PROVE CurrentInv'
  OBVIOUS
<1> USE SaveConstants DEF TypeOK, LockInv, CurrentInv, FingerprintFile, Saving, Renamed
<1>1. ASSUME NEW h \in Handles, OpenStep(h) PROVE CurrentInv'
  BY <1>1 DEF OpenStep, OpenDecode, OpenFingerprint, OpenFails
<1>2. ASSUME NEW h \in Handles, LockDatabase(h) PROVE CurrentInv'
  BY <1>2 DEF LockDatabase
<1>3. ASSUME NEW t \in Threads, NEW h \in Handles, NEW e \in Edits,
             UpdateAndSave(t, h, e)
      PROVE  CurrentInv'
  BY <1>3 DEF UpdateAndSave, Goto
<1>4. ASSUME NEW t \in Threads, SaveStep(t) PROVE CurrentInv'
  <2>1. CASE Mutate(t) BY <2>1 DEF Mutate, Goto
  <2>2. CASE RefuseUpdate(t) BY <2>2 DEF RefuseUpdate, Release, Unlocked
  <2>3. CASE ProtectEntries(t) BY <2>3 DEF ProtectEntries, Goto
  <2>4. CASE EncodeTemp(t) BY <2>4 DEF EncodeTemp, Goto
  <2>5. CASE CheckBeforeRename(t) BY <2>5 DEF CheckBeforeRename, Goto
  <2>6. CASE Rename(t) BY <2>6 DEF Rename, Goto
  <2>7. CASE SyncDir(t) BY <2>7 DEF SyncDir, Goto
  <2>8. CASE FinishSave(t)
    BY <2>8 DEF FinishSave, Release, Unlocked, SavedFingerprint
  <2>9. CASE SaveFails(t)
    BY <2>9 DEF SaveFails, RollbackAndRelease, Release, Unlocked
  <2>10. CASE FailAfterRename(t)
    BY <2>10 DEF FailAfterRename, RollbackAndRelease, Release, Unlocked
  <2> QED
    BY <1>4, <2>1, <2>2, <2>3, <2>4, <2>5, <2>6, <2>7, <2>8, <2>9, <2>10 DEF SaveStep
<1>5. ASSUME NEW x \in ExtEdits, ExternalWrite(x) PROVE CurrentInv'
  BY <1>5 DEF ExternalWrite
<1>6. CASE Crash BY <1>6 DEF Crash, FreshProcess
<1>7. CASE PowerLoss BY <1>7 DEF PowerLoss, FreshProcess
<1>8. CASE UNCHANGED vars BY <1>8 DEF vars
<1> QED BY <1>1, <1>2, <1>3, <1>4, <1>5, <1>6, <1>7, <1>8 DEF Next

\* A handle nobody has interfered with is never refused for a stale
\* fingerprint of its own.
THEOREM FingerprintStaysCurrent == Spec => []FingerprintCurrent
<1>1. Init => CurrentInv BY DEF Init, CurrentInv
<1>2. CurrentInv => FingerprintCurrent
  BY DEF CurrentInv, FingerprintCurrent, FingerprintFile
<1> QED BY <1>1, <1>2, CurrentStep, LockInvariant, PTL DEF Spec
=============================================================================
