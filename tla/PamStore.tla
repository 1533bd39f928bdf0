------------------------------ MODULE PamStore ------------------------------
(***************************************************************************)
(* The default database and the two sealed files that unlock it.  A login  *)
(* token opens the identity file, the identity opens the credential file,  *)
(* and the credential holds the random password of the database            *)
(* (internal/pamcred).                                                     *)
(*                                                                         *)
(* Two programs work on these three files without any lock: kpxcd, which   *)
(* handles every connection to its PAM socket in a goroutine of its own    *)
(* (internal/daemon/pamsocket.go, pam.go) and creates the files at the     *)
(* first login, and kpxcctl (cmd/kpxcctl/main.go), whose "unlock" reads    *)
(* them and whose "adopt-default" replaces them.                           *)
(***************************************************************************)
EXTENDS Naturals, FiniteSets

CONSTANTS
  Conns,    \* goroutines of kpxcd that handle a PAM connection
  Ctls,     \* kpxcctl processes
  Tokens,   \* tokens derived from login passwords
  Secrets,  \* random values: identities and database passwords
  None, Torn

ASSUME StoreConstants ==
  /\ Conns \cap Ctls = {}
  /\ None \notin Conns \cup Ctls \cup Secrets \cup Tokens
  /\ None # Torn

Actors == Conns \cup Ctls

\* The sealed files.  A file that exists but cannot be opened is Torn: it has
\* been truncated and not yet written.
Identity == [id : Secrets, token : Tokens]
Credential == [id : Secrets, pw : Secrets]

\* The database.  by stands for the inode: the actor that created the file.
\* used: kpxcd has opened it, so that it may hold the user's data.
Database == [by : Actors, pw : Secrets, ok : BOOLEAN, used : BOOLEAN]

ASSUME NoFile == {None, Torn} \cap (Identity \cup Credential \cup Database) = {}

VARIABLES
  idf, crf, dbf,  \* what is at the three paths, None for no file
  open,           \* kpxcd has the default database open
  taken,          \* secrets generated so far
  pc, tok, seen, id, pw, rep,  \* control and locals of the actors
  failed,         \* history: an I/O error, a crash, a deletion by the user
  contended       \* history: two actors were busy with the files at a time

locals == <<tok, seen, id, pw, rep>>
vars == <<idf, crf, dbf, open, taken, pc, tok, seen, id, pw, rep, failed, contended>>

\* Where an actor is between its first decision to write and its last write.
Owning == {"encode", "id1", "id2", "adopt", "check", "rename", "cr1", "cr2"}
PCs == {"idle", "statId", "statCr", "statDb", "readId", "readCr", "create", "open",
        "adoptDb", "adoptCr", "adoptLock", "loadId"} \cup Owning

\* An actor works on the files: it is between its first and its last write, or
\* is about to create a database from the credential it has read.
Busy(a) == pc[a] \in Owning \/ (pc[a] = "create" /\ seen[a] # {})

Contention == \E a, b \in Actors : a # b /\ Busy(a) /\ Busy(b)

Goto(a, l) == pc' = [pc EXCEPT ![a] = l]

\* The actor is through, with or without an error: its locals are gone.
Return(a) ==
  /\ Goto(a, "idle")
  /\ tok' = [tok EXCEPT ![a] = None]
  /\ seen' = [seen EXCEPT ![a] = {}]
  /\ id' = [id EXCEPT ![a] = None]
  /\ pw' = [pw EXCEPT ![a] = None]
  /\ rep' = [rep EXCEPT ![a] = FALSE]

files == <<idf, crf, dbf>>

-----------------------------------------------------------------------------
(* Sealed files *)

\* SealIdentity, OpenIdentity: the token is the passphrase.
OpensIdentity(t) == idf \notin {None, Torn} /\ idf.token = t

\* SealCredential, OpenCredential: encrypted to the identity.
OpensCredential(i) == crf \notin {None, Torn} /\ crf.id = i

\* Decoding the database with a password.
OpensDatabase(p) == dbf # None /\ dbf.ok /\ dbf.pw = p

-----------------------------------------------------------------------------
(* A PAM connection *)

\* handleConn: a token has been read, and the database is not open.  (The field
\* Locked is read without its lock; an outdated FALSE only ends the call.)
HandleConn(a, t) ==
  /\ a \in Conns /\ pc[a] = "idle" /\ ~open
  /\ tok' = [tok EXCEPT ![a] = t]
  /\ Goto(a, "statId")
  /\ UNCHANGED <<files, open, taken, seen, id, pw, rep, failed>>

\* unlockOrBootstrapWithPAM looks for the three files, one after the other.
See(a, name, exists) ==
  seen' = [seen EXCEPT ![a] = IF exists THEN @ \cup {name} ELSE @]

StatIdentity(a) ==
  /\ pc[a] = "statId"
  /\ See(a, "id", idf # None)
  /\ Goto(a, "statCr")
  /\ UNCHANGED <<files, open, taken, tok, id, pw, rep, failed>>

StatCredential(a) ==
  /\ pc[a] = "statCr"
  /\ See(a, "cr", crf # None)
  /\ Goto(a, "statDb")
  /\ UNCHANGED <<files, open, taken, tok, id, pw, rep, failed>>

\* With both sealed files: unlock.  Without any file: bootstrap, which
\* generates an identity and a password.  All else is refused.
StatDatabase(a) ==
  /\ pc[a] = "statDb"
  /\ \/ /\ seen[a] = {"id", "cr"}
        /\ See(a, "db", dbf # None)
        /\ Goto(a, "readId")
        /\ UNCHANGED <<taken, tok, id, pw, rep>>
     \/ /\ seen[a] = {} /\ dbf = None
        /\ \E i \in Secrets \ taken : \E p \in Secrets \ (taken \cup {i}) :
             /\ id' = [id EXCEPT ![a] = i]
             /\ pw' = [pw EXCEPT ![a] = p]
             /\ taken' = taken \cup {i, p}
        /\ Goto(a, "create")
        /\ UNCHANGED <<tok, seen, rep>>
     \/ /\ seen[a] # {"id", "cr"} /\ (seen[a] # {} \/ dbf # None)
        /\ Return(a)
        /\ UNCHANGED taken
  /\ UNCHANGED <<files, open, failed>>

\* ReadSealedIdentity; kpxcctl unlock does the same.
ReadIdentity(a) ==
  /\ pc[a] = "readId"
  /\ IF OpensIdentity(tok[a])
       THEN /\ id' = [id EXCEPT ![a] = idf.id]
            /\ Goto(a, "readCr")
            /\ UNCHANGED <<tok, seen, pw, rep>>
       ELSE Return(a)
  /\ UNCHANGED <<files, open, taken, failed>>

\* ReadSealedCredential; a missing database is created with its password.
ReadCredential(a) ==
  /\ pc[a] = "readCr"
  /\ IF OpensCredential(id[a])
       THEN /\ pw' = [pw EXCEPT ![a] = crf.pw]
            /\ Goto(a, IF "db" \in seen[a] THEN "open" ELSE "create")
            /\ UNCHANGED <<tok, seen, id, rep>>
       ELSE Return(a)
  /\ UNCHANGED <<files, open, taken, failed>>

MayCreate_Truncating == TRUE

\* O_EXCL.
MayCreate == dbf = None

\* CreateDatabase, first step: the file is created, empty.
CreateDatabase(a) ==
  /\ pc[a] = "create"
  /\ \/ /\ MayCreate
        /\ dbf' = [by |-> a, pw |-> pw[a], ok |-> FALSE, used |-> FALSE]
        /\ Goto(a, "encode")
        /\ UNCHANGED locals
     \/ /\ ~MayCreate
        /\ Return(a)
        /\ UNCHANGED dbf
  /\ UNCHANGED <<idf, crf, open, taken, failed>>

\* The file created by a is the one at the path.
IsMine(a) == dbf # None /\ dbf.by = a /\ ~dbf.ok

AfterCreate_Unsealed(a) == "open"

\* A bootstrap goes on to seal what it generated.
AfterCreate(a) == IF seen[a] = {} THEN "id1" ELSE "open"

\* Second step: it is written and flushed.
EncodeDatabase(a) ==
  /\ pc[a] = "encode"
  /\ dbf' = IF IsMine(a) THEN [dbf EXCEPT !.ok = TRUE] ELSE dbf
  /\ Goto(a, AfterCreate(a))
  /\ UNCHANGED <<idf, crf, open, taken, locals, failed>>

\* Encode fails and what is at the path is removed, or Sync fails and the
\* file stays.
CreateFails(a) ==
  /\ pc[a] = "encode"
  /\ \/ dbf' = None
     \/ dbf' = IF IsMine(a) THEN [dbf EXCEPT !.ok = TRUE] ELSE dbf
  /\ Return(a)
  /\ failed' = TRUE
  /\ UNCHANGED <<idf, crf, open, taken>>

\* WriteSealedIdentity: WritePrivateFile truncates the file, then writes it.
TruncateIdentity(a) ==
  /\ pc[a] = "id1"
  /\ idf' = Torn
  /\ Goto(a, "id2")
  /\ UNCHANGED <<crf, dbf, open, taken, locals, failed>>

WriteIdentity(a) ==
  /\ pc[a] = "id2"
  /\ idf' = [id |-> id[a], token |-> tok[a]]
  /\ Goto(a, IF a \in Conns THEN "cr1" ELSE "adopt")
  /\ UNCHANGED <<crf, dbf, open, taken, locals, failed>>

\* WriteSealedCredential.
TruncateCredential(a) ==
  /\ pc[a] = "cr1"
  /\ crf' = Torn
  /\ Goto(a, "cr2")
  /\ UNCHANGED <<idf, dbf, open, taken, locals, failed>>

SealedCredential_ToToken(a) == [id |-> tok[a], pw |-> pw[a]]

SealedCredential(a) == [id |-> id[a], pw |-> pw[a]]

\* kpxcd goes on to open the database, kpxcctl is through.
WriteCredential(a) ==
  /\ pc[a] = "cr2"
  /\ crf' = SealedCredential(a)
  /\ \/ /\ a \in Conns
        /\ Goto(a, "open")
        /\ UNCHANGED locals
     \/ a \in Ctls /\ Return(a)
  /\ UNCHANGED <<idf, dbf, open, taken, failed>>

\* A write or a Sync fails: the error is returned and the file stays as it is.
WriteFails(a) ==
  /\ pc[a] \in {"id2", "cr2"}
  /\ Return(a)
  /\ failed' = TRUE
  /\ UNCHANGED <<files, open, taken>>

\* openWithPassword, or kpxcctl's UnlockDatabase call: DatabasePool.Open.
OpenDatabase(a) ==
  /\ pc[a] = "open"
  /\ IF OpensDatabase(pw[a])
       THEN open' = TRUE /\ dbf' = [dbf EXCEPT !.used = TRUE]
       ELSE UNCHANGED <<open, dbf>>
  /\ Return(a)
  /\ UNCHANGED <<idf, crf, taken, failed>>

-----------------------------------------------------------------------------
(* kpxcctl *)

\* kpxcctl unlock: with both sealed files it unseals them itself.
CtlUnlock(a, t) ==
  /\ a \in Ctls /\ pc[a] = "idle"
  /\ idf # None /\ crf # None
  /\ tok' = [tok EXCEPT ![a] = t]
  /\ seen' = [seen EXCEPT ![a] = {"id", "cr", "db"}]
  /\ Goto(a, "readId")
  /\ UNCHANGED <<files, open, taken, id, pw, rep, failed>>

\* kpxcctl adopt-default [--replace]; t is from the password the user types.
AdoptDefault(a, t, r) ==
  /\ a \in Ctls /\ pc[a] = "idle"
  /\ tok' = [tok EXCEPT ![a] = t]
  /\ rep' = [rep EXCEPT ![a] = r]
  /\ Goto(a, IF r THEN "adoptLock" ELSE "adoptDb")
  /\ UNCHANGED <<files, open, taken, seen, id, pw, failed>>

\* Without --replace neither a database nor a credential may exist.
AdoptLooks(a) ==
  /\ \/ pc[a] = "adoptDb" /\ dbf = None /\ Goto(a, "adoptCr") /\ UNCHANGED locals
     \/ pc[a] = "adoptCr" /\ crf = None /\ Goto(a, "adoptLock") /\ UNCHANGED locals
     \/ pc[a] = "adoptDb" /\ dbf # None /\ Return(a)
     \/ pc[a] = "adoptCr" /\ crf # None /\ Return(a)
  /\ UNCHANGED <<files, open, taken, failed>>

\* lockDefaultInDaemon; errors are ignored, so the database may stay open.
LockDefaultInDaemon(a) ==
  /\ pc[a] = "adoptLock"
  /\ open' \in {FALSE, open}
  /\ Goto(a, "loadId")
  /\ UNCHANGED <<files, taken, locals, failed>>

HasIdentity_Never == FALSE

HasIdentity == idf # None

\* loadOrCreateIdentity: an identity that is there is kept, since the
\* credential at the path may be sealed to it.
LoadOrCreateIdentity(a) ==
  /\ pc[a] = "loadId"
  /\ \/ /\ HasIdentity /\ OpensIdentity(tok[a])
        /\ id' = [id EXCEPT ![a] = idf.id]
        /\ Goto(a, "adopt")
        /\ UNCHANGED <<taken, tok, seen, pw, rep>>
     \/ /\ HasIdentity /\ ~OpensIdentity(tok[a])
        /\ Return(a)
        /\ UNCHANGED taken
     \/ /\ ~HasIdentity
        /\ \E i \in Secrets \ taken :
             id' = [id EXCEPT ![a] = i] /\ taken' = taken \cup {i}
        /\ Goto(a, "id1")
        /\ UNCHANGED <<tok, seen, pw, rep>>
  /\ UNCHANGED <<files, open, failed>>

\* NewRandomDBCredential and copyAndRekeyDatabase up to the closed temporary
\* file, which nobody else sees.
CopyAndRekey(a) ==
  /\ pc[a] = "adopt"
  /\ \E p \in Secrets \ taken :
       pw' = [pw EXCEPT ![a] = p] /\ taken' = taken \cup {p}
  /\ Goto(a, "check")
  /\ UNCHANGED <<files, open, tok, seen, id, rep, failed>>

\* The source cannot be read or the copy not written.
CopyFails(a) ==
  /\ pc[a] = "adopt"
  /\ Return(a)
  /\ failed' = TRUE
  /\ UNCHANGED <<files, open, taken>>

\* Without --replace, a last look whether the destination exists.
CheckDestination(a) ==
  /\ pc[a] = "check"
  /\ IF rep[a] \/ dbf = None
       THEN Goto(a, "rename") /\ UNCHANGED locals
       ELSE Return(a)
  /\ UNCHANGED <<files, open, taken, failed>>

\* os.Rename replaces what is at the path by the complete copy; the sealed
\* credential is written afterwards.
RenameCopy(a) ==
  /\ pc[a] = "rename"
  /\ dbf' = [by |-> a, pw |-> pw[a], ok |-> TRUE, used |-> FALSE]
  /\ Goto(a, "cr1")
  /\ UNCHANGED <<idf, crf, open, taken, locals, failed>>

-----------------------------------------------------------------------------
(* The environment *)

\* The default database is locked (D-Bus, idle timeout).
LockDefault ==
  /\ open
  /\ open' = FALSE
  /\ UNCHANGED <<files, taken, pc, locals, failed>>

\* The user removes the database file, which also counts as contention if an
\* actor is at work.
UserDeletes ==
  /\ dbf # None
  /\ dbf' = None
  /\ failed' = TRUE
  /\ contended' = (contended \/ \E a \in Actors : pc[a] # "idle")
  /\ UNCHANGED <<idf, crf, open, taken, pc, locals>>

\* The processes of the actors in A die.
Die(A) ==
  /\ \E a \in A : pc[a] # "idle"
  /\ pc' = [a \in Actors |-> IF a \in A THEN "idle" ELSE pc[a]]
  /\ tok' = [a \in Actors |-> IF a \in A THEN None ELSE tok[a]]
  /\ seen' = [a \in Actors |-> IF a \in A THEN {} ELSE seen[a]]
  /\ id' = [a \in Actors |-> IF a \in A THEN None ELSE id[a]]
  /\ pw' = [a \in Actors |-> IF a \in A THEN None ELSE pw[a]]
  /\ rep' = [a \in Actors |-> IF a \in A THEN FALSE ELSE rep[a]]
  /\ failed' = TRUE
  /\ UNCHANGED <<files, taken>>

\* kpxcd is killed and started again, kpxcctl is interrupted.
DaemonDies == Die(Conns) /\ open' = FALSE
CtlDies(a) == a \in Ctls /\ Die({a}) /\ UNCHANGED open

-----------------------------------------------------------------------------
Init ==
  /\ idf = None /\ crf = None /\ dbf = None
  /\ open = FALSE /\ taken = {}
  /\ pc = [a \in Actors |-> "idle"]
  /\ tok = [a \in Actors |-> None]
  /\ seen = [a \in Actors |-> {}]
  /\ id = [a \in Actors |-> None]
  /\ pw = [a \in Actors |-> None]
  /\ rep = [a \in Actors |-> FALSE]
  /\ failed = FALSE /\ contended = FALSE

\* A program or a goroutine starts.
Start(a) ==
  \/ \E t \in Tokens :
       \/ HandleConn(a, t) \/ CtlUnlock(a, t)
       \/ \E r \in BOOLEAN : AdoptDefault(a, t, r)

\* An actor goes on.
Continue(a) ==
  \/ StatIdentity(a) \/ StatCredential(a) \/ StatDatabase(a)
  \/ ReadIdentity(a) \/ ReadCredential(a)
  \/ CreateDatabase(a) \/ EncodeDatabase(a) \/ CreateFails(a)
  \/ TruncateIdentity(a) \/ WriteIdentity(a)
  \/ TruncateCredential(a) \/ WriteCredential(a) \/ WriteFails(a)
  \/ OpenDatabase(a)
  \/ AdoptLooks(a) \/ LockDefaultInDaemon(a) \/ LoadOrCreateIdentity(a)
  \/ CopyAndRekey(a) \/ CopyFails(a) \/ CheckDestination(a) \/ RenameCopy(a)

Step ==
  \/ \E a \in Actors : Start(a) \/ Continue(a) \/ CtlDies(a)
  \/ LockDefault \/ DaemonDies

Next ==
  \/ Step /\ contended' = (contended \/ Contention')
  \/ UserDeletes

Spec == Init /\ [][Next]_vars

-----------------------------------------------------------------------------
(* Properties *)

\* Every variable holds a value of its type.
TypeOK ==
  /\ idf \in Identity \cup {None, Torn}
  /\ crf \in Credential \cup {None, Torn}
  /\ dbf \in Database \cup {None}
  /\ open \in BOOLEAN /\ taken \subseteq Secrets
  /\ pc \in [Actors -> PCs]
  /\ tok \in [Actors -> Tokens \cup {None}]
  /\ seen \in [Actors -> SUBSET {"id", "cr", "db"}]
  /\ id \in [Actors -> Secrets \cup {None}]
  /\ pw \in [Actors -> Secrets \cup {None}]
  /\ rep \in [Actors -> BOOLEAN]
  /\ failed \in BOOLEAN /\ contended \in BOOLEAN

\* A login with the right password opens the database.
Unlockable ==
  \E t \in Tokens :
    OpensIdentity(t) /\ OpensCredential(idf.id) /\ OpensDatabase(crf.pw)

\* A database that has been opened, and may hold the user's data, can be opened
\* again with a login password: whichever program works on the three files,
\* fails or dies half way, the files that lead to its password are in place;
\* unless two of them were at work at the same time.
UsedStaysUnlockable ==
  ~contended /\ dbf # None /\ dbf.used => Unlockable

\* doc/config.md:254, "creates all of them": when the first login or an
\* adoption is through, either none of the files exists or all of them, and
\* they belong together; unless a call failed, a program died, or two worked
\* on the files at once.
AllOrNothing ==
  ~contended /\ ~failed /\ (\A a \in Actors : pc[a] = "idle") =>
    \/ idf = None /\ crf = None /\ dbf = None
    \/ Unlockable

\* create.go:15-16: kpxcd "never overwrites an existing file".  A complete
\* database at the path, also one that was not there when kpxcd looked, is only
\* replaced by adopt-default and only removed by the user; CreateDatabase, which
\* removes the path when it fails, never removes it, unless in contention.
KeepsDatabase ==
  [][dbf # None /\ dbf.ok =>
       \/ dbf' = dbf \/ dbf' = [dbf EXCEPT !.used = TRUE]
       \/ \E a \in Ctls : pc[a] = "rename"
       \/ UserDeletes
       \/ contended']_vars
=============================================================================
