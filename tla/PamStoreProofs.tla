--------------------------- MODULE PamStoreProofs ---------------------------
(***************************************************************************)
(* Proofs about the default database and its sealed files, for any number  *)
(* of logins and kpxcctl runs.                                             *)
(***************************************************************************)
EXTENDS PamStore, TLAPS

\* Locals are set where they are used.
LocalInv ==
  \A a \in Actors :
    /\ pc[a] # "idle" => tok[a] \in Tokens
    /\ pc[a] \in {"readCr", "id1", "id2", "adopt", "check", "rename", "cr1", "cr2"} =>
         id[a] \in Secrets
    /\ pc[a] \in {"create", "encode", "open", "check", "rename", "cr1", "cr2"} =>
         pw[a] \in Secrets
    /\ pc[a] \in {"create", "encode"} /\ seen[a] = {} => id[a] \in Secrets
    /\ pc[a] \in {"id1", "id2"} /\ a \in Conns => pw[a] \in Secrets
    /\ pc[a] \in {"adoptDb", "adoptCr", "adoptLock", "loadId", "adopt", "check",
                  "rename"} => a \in Ctls
    /\ pc[a] \in {"statId", "statCr", "statDb", "create", "encode"} => a \in Conns
    /\ pc[a] \in {"readId", "readCr"} => seen[a] # {}
    /\ pc[a] \in {"readId", "readCr"} /\ a \in Ctls => "db" \in seen[a]

\* The part of TypeOK that is about control and locals.
LocalTypes ==
  /\ pc \in [Actors -> PCs]
  /\ tok \in [Actors -> Tokens \cup {None}]
  /\ seen \in [Actors -> SUBSET {"id", "cr", "db"}]
  /\ id \in [Actors -> Secrets \cup {None}]
  /\ pw \in [Actors -> Secrets \cup {None}]
  /\ rep \in [Actors -> BOOLEAN]

\* An actor that returns has no locals left, and the others keep theirs.
LEMMA ReturnKeeps ==
  ASSUME TypeOK, LocalInv, NEW a \in Actors, Return(a)
  PROVE  LocalTypes' /\ LocalInv'
BY StoreConstants DEF TypeOK, LocalTypes, LocalInv, Return, Goto, PCs, Owning, Actors

\* Every step keeps the types and the locals.
LEMMA TypeStep == TypeOK /\ LocalInv /\ [Next]_vars => TypeOK' /\ LocalInv'
<1> SUFFICES ASSUME TypeOK, LocalInv, [Next]_vars PROVE TypeOK' /\ LocalInv'
  OBVIOUS
<1> USE StoreConstants
    DEF TypeOK, LocalTypes, LocalInv, Actors, files, locals, Goto, PCs, Owning
<1>1. ASSUME Step, contended' = (contended \/ Contention')
      PROVE  TypeOK' /\ LocalInv'
  <2>0. contended' \in BOOLEAN BY <1>1
  <2>1. ASSUME NEW a \in Actors, Start(a) PROVE TypeOK' /\ LocalInv'
    BY <2>0, <2>1 DEF Start, HandleConn, CtlUnlock, AdoptDefault
  <2>2. ASSUME NEW a \in Actors, Continue(a) PROVE TypeOK' /\ LocalInv'
    <3>1. CASE StatIdentity(a) BY <2>0, <3>1 DEF StatIdentity, See
    <3>2. CASE StatCredential(a) BY <2>0, <3>2 DEF StatCredential, See
    <3>3. CASE StatDatabase(a)
      <4>1. CASE Return(a) BY <2>0, <3>3, <4>1, ReturnKeeps DEF StatDatabase
      <4>2. CASE ~Return(a) BY <2>0, <3>3, <4>2 DEF StatDatabase, See
      <4> QED BY <4>1, <4>2
    <3>4. CASE ReadIdentity(a)
      <4>1. CASE OpensIdentity(tok[a])
        BY <2>0, <3>4, <4>1, NoFile DEF ReadIdentity, OpensIdentity, Identity
      <4>2. CASE ~OpensIdentity(tok[a]) BY <2>0, <3>4, <4>2, ReturnKeeps DEF ReadIdentity
      <4> QED BY <4>1, <4>2
    <3>5. CASE ReadCredential(a)
      <4>1. CASE OpensCredential(id[a])
        BY <2>0, <3>5, <4>1, NoFile DEF ReadCredential, OpensCredential, Credential
      <4>2. CASE ~OpensCredential(id[a])
        BY <2>0, <3>5, <4>2, ReturnKeeps DEF ReadCredential
      <4> QED BY <4>1, <4>2
    <3>6. CASE CreateDatabase(a)
      <4>0. pw[a] \in Secrets BY <3>6 DEF CreateDatabase
      <4>1. CASE MayCreate
        <5>1. dbf' = [by |-> a, pw |-> pw[a], ok |-> FALSE, used |-> FALSE]
          BY <3>6, <4>1 DEF CreateDatabase
        <5>2. dbf' \in Database BY <4>0, <5>1 DEF Database
        <5> QED BY <2>0, <3>6, <4>0, <4>1, <5>2 DEF CreateDatabase
      <4>2. CASE ~MayCreate BY <2>0, <3>6, <4>2, ReturnKeeps DEF CreateDatabase
      <4> QED BY <4>1, <4>2
    <3>7. CASE EncodeDatabase(a)
      BY <2>0, <3>7 DEF EncodeDatabase, IsMine, AfterCreate, Database
    <3>8. CASE CreateFails(a)
      <4>1. dbf' \in Database \cup {None}
        <5>1. dbf' = None \/ dbf' = dbf \/ (dbf # None /\ dbf' = [dbf EXCEPT !.ok = TRUE])
          BY <3>8 DEF CreateFails, IsMine
        <5>2. dbf # None => [dbf EXCEPT !.ok = TRUE] \in Database BY DEF Database
        <5> QED BY <5>1, <5>2
      <4> QED BY <2>0, <3>8, <4>1, ReturnKeeps DEF CreateFails
    <3>9. CASE TruncateIdentity(a) BY <2>0, <3>9 DEF TruncateIdentity
    <3>10. CASE WriteIdentity(a) BY <2>0, <3>10 DEF WriteIdentity, Identity
    <3>11. CASE TruncateCredential(a) BY <2>0, <3>11 DEF TruncateCredential
    <3>12. CASE WriteCredential(a)
      <4>1. crf' \in Credential
        BY <3>12 DEF WriteCredential, SealedCredential, Credential
      <4>2. CASE a \in Conns BY <2>0, <3>12, <4>1, <4>2 DEF WriteCredential
      <4>3. CASE a \in Ctls BY <2>0, <3>12, <4>1, <4>3, ReturnKeeps DEF WriteCredential
      <4> QED BY <4>2, <4>3
    <3>13. CASE WriteFails(a) BY <2>0, <3>13, ReturnKeeps DEF WriteFails
    <3>14. CASE OpenDatabase(a)
      <4>1. dbf' \in Database \cup {None} /\ open' \in BOOLEAN
        <5>1. CASE OpensDatabase(pw[a])
          <6>1. dbf \in Database BY <5>1 DEF OpensDatabase
          <6>2. dbf' = [dbf EXCEPT !.used = TRUE] /\ open' = TRUE
            BY <3>14, <5>1 DEF OpenDatabase
          <6> QED BY <6>1, <6>2 DEF Database
        <5>2. CASE ~OpensDatabase(pw[a]) BY <3>14, <5>2 DEF OpenDatabase
        <5> QED BY <5>1, <5>2
      <4> QED BY <2>0, <3>14, <4>1, ReturnKeeps DEF OpenDatabase
    <3>15. CASE AdoptLooks(a)
      <4>1. CASE Return(a) BY <2>0, <3>15, <4>1, ReturnKeeps DEF AdoptLooks
      <4>2. CASE ~Return(a) BY <2>0, <3>15, <4>2 DEF AdoptLooks
      <4> QED BY <4>1, <4>2
    <3>16. CASE LockDefaultInDaemon(a) BY <2>0, <3>16 DEF LockDefaultInDaemon
    <3>17. CASE LoadOrCreateIdentity(a)
      <4>1. CASE Return(a) BY <2>0, <3>17, <4>1, ReturnKeeps DEF LoadOrCreateIdentity
      <4>2. CASE ~Return(a)
        BY <2>0, <3>17, <4>2, NoFile
           DEF LoadOrCreateIdentity, HasIdentity, OpensIdentity, Identity
      <4> QED BY <4>1, <4>2
    <3>18. CASE CopyAndRekey(a) BY <2>0, <3>18 DEF CopyAndRekey
    <3>19. CASE CopyFails(a) BY <2>0, <3>19, ReturnKeeps DEF CopyFails
    <3>20. CASE CheckDestination(a)
      <4>1. CASE Return(a) BY <2>0, <3>20, <4>1, ReturnKeeps DEF CheckDestination
      <4>2. CASE ~Return(a) BY <2>0, <3>20, <4>2 DEF CheckDestination
      <4> QED BY <4>1, <4>2
    <3>21. CASE RenameCopy(a) BY <2>0, <3>21 DEF RenameCopy, Database
    <3> QED BY <2>2, <3>1, <3>2, <3>3, <3>4, <3>5, <3>6, <3>7, <3>8, <3>9, <3>10,
               <3>11, <3>12, <3>13, <3>14, <3>15, <3>16, <3>17, <3>18, <3>19,
               <3>20, <3>21 DEF Continue
  <2>3. ASSUME NEW a \in Actors, CtlDies(a) PROVE TypeOK' /\ LocalInv'
    BY <2>0, <2>3 DEF CtlDies, Die
  <2>4. CASE LockDefault BY <2>0, <2>4 DEF LockDefault
  <2>5. CASE DaemonDies BY <2>0, <2>5 DEF DaemonDies, Die
  <2> QED BY <1>1, <2>1, <2>2, <2>3, <2>4, <2>5 DEF Step
<1>2. CASE UserDeletes BY <1>2 DEF UserDeletes
<1>3. CASE UNCHANGED vars BY <1>3 DEF vars
<1> QED BY <1>1, <1>2, <1>3 DEF Next

\* Type correctness: identities, credentials and databases at the paths are
\* always well formed or recognisably absent or torn, and no actor writes a
\* secret that it has not read or generated.
THEOREM StoreTypeCorrect == Spec => []TypeOK
<1>1. Init => TypeOK /\ LocalInv
  BY DEF Init, TypeOK, LocalInv, PCs, Owning
<1> QED BY <1>1, TypeStep, PTL DEF Spec

-----------------------------------------------------------------------------
(* A complete database is kept *)

\* As long as no two actors have been busy at a time, none are, and an actor
\* that encodes a database still has the file it created at the path.
OwnerInv ==
  ~contended => /\ ~Contention
                /\ \A a \in Actors : pc[a] = "encode" => IsMine(a)

\* An actor that goes on leaves the file of another one that encodes.
LEMMA OthersKeepMine ==
  ASSUME TypeOK, LocalInv, ~Contention,
         NEW a \in Actors, NEW b \in Actors, a # b,
         pc[b] = "encode", IsMine(b), Continue(a)
  PROVE  IsMine(b)'
<1> USE DEF TypeOK, Owning, files, locals
<1>1. ~Busy(a) BY DEF Contention, Busy
<1>2. pc[a] \notin {"encode", "rename"} BY <1>1 DEF Busy
<1>3. dbf' = dbf
  BY <1>2 DEF Continue, StatIdentity, StatCredential, StatDatabase, ReadIdentity,
     ReadCredential, CreateDatabase, MayCreate, EncodeDatabase, CreateFails,
     TruncateIdentity, WriteIdentity, TruncateCredential, WriteCredential,
     WriteFails, OpenDatabase, OpensDatabase, AdoptLooks, LockDefaultInDaemon,
     LoadOrCreateIdentity, CopyAndRekey, CopyFails, CheckDestination, RenameCopy,
     IsMine
<1> QED BY <1>3 DEF IsMine

\* An actor gets to encode only by creating the file, and moves nobody else.
LEMMA EncodesWhatItCreated ==
  ASSUME TypeOK, LocalInv, NEW a \in Actors, Continue(a)
  PROVE  /\ pc'[a] = "encode" => IsMine(a)'
         /\ \A b \in Actors : b # a => pc'[b] = pc[b]
<1> USE DEF TypeOK, Owning, files, locals
<1>1. CASE CreateDatabase(a)
  <2>1. CASE MayCreate
    <3>1. dbf' = [by |-> a, pw |-> pw[a], ok |-> FALSE, used |-> FALSE]
      BY <1>1, <2>1 DEF CreateDatabase
    <3>2. pw[a] \in Secrets BY <1>1 DEF CreateDatabase, LocalInv
    <3>3. dbf' \in Database BY <3>1, <3>2 DEF Database
    <3>4. dbf' # None BY <3>3, NoFile
    <3>5. dbf'.by = a /\ dbf'.ok = FALSE BY <3>1
    <3> QED BY <1>1, <2>1, <3>4, <3>5 DEF CreateDatabase, IsMine, Goto
  <2>2. CASE ~MayCreate BY <1>1, <2>2 DEF CreateDatabase, Goto, Return
  <2> QED BY <2>1, <2>2
<1>2. CASE ~CreateDatabase(a)
  <2>1. pc'[a] # "encode" /\ \A b \in Actors : b # a => pc'[b] = pc[b]
    BY <1>2 DEF Continue, StatIdentity, StatCredential, StatDatabase, ReadIdentity,
       ReadCredential, EncodeDatabase, AfterCreate, CreateFails,
       TruncateIdentity, WriteIdentity, TruncateCredential, WriteCredential,
       WriteFails, OpenDatabase, AdoptLooks, LockDefaultInDaemon,
       LoadOrCreateIdentity, CopyAndRekey, CopyFails, CheckDestination, RenameCopy,
       Goto, Return
  <2> QED BY <2>1
<1> QED BY <1>1, <1>2

\* The steps that are no actor's own continuation leave the database alone and
\* bring nobody to encode.
LEMMA StartsAndDeaths ==
  ASSUME TypeOK,
         (\E a \in Actors : Start(a) \/ CtlDies(a)) \/ LockDefault \/ DaemonDies
  PROVE  dbf' = dbf /\ \A b \in Actors : pc'[b] = "encode" => pc[b] = "encode"
<1> USE DEF TypeOK, files, locals, Goto
<1>1. ASSUME NEW a \in Actors, Start(a)
      PROVE  dbf' = dbf /\ \A b \in Actors : pc'[b] = "encode" => pc[b] = "encode"
  BY <1>1 DEF Start, HandleConn, CtlUnlock, AdoptDefault
<1>2. ASSUME NEW a \in Actors, CtlDies(a)
      PROVE  dbf' = dbf /\ \A b \in Actors : pc'[b] = "encode" => pc[b] = "encode"
  BY <1>2 DEF CtlDies, Die
<1>3. CASE LockDefault BY <1>3 DEF LockDefault
<1>4. CASE DaemonDies BY <1>4 DEF DaemonDies, Die
<1> QED BY <1>1, <1>2, <1>3, <1>4

\* Every step keeps it: only the creator of a file encodes it.
LEMMA OwnerStep ==
  TypeOK /\ LocalInv /\ OwnerInv /\ [Next]_vars => OwnerInv'
<1> SUFFICES ASSUME TypeOK, LocalInv, OwnerInv, [Next]_vars, ~contended'
             PROVE  /\ ~Contention'
                    /\ \A a \in Actors : pc'[a] = "encode" => IsMine(a)'
  BY DEF OwnerInv
<1>1. ASSUME Step, contended' = (contended \/ Contention')
      PROVE  /\ ~Contention'
             /\ \A a \in Actors : pc'[a] = "encode" => IsMine(a)'
  <2>1. ~contended /\ ~Contention' BY <1>1
  <2>2. ~Contention /\ \A a \in Actors : pc[a] = "encode" => IsMine(a)
    BY <2>1 DEF OwnerInv
  <2>3. ASSUME NEW a \in Actors, Continue(a), NEW b \in Actors, pc'[b] = "encode"
        PROVE  IsMine(b)'
    <3>1. CASE a = b BY <2>3, <3>1, EncodesWhatItCreated
    <3>2. CASE a # b
      <4>1. pc[b] = "encode" BY <2>3, <3>2, EncodesWhatItCreated
      <4> QED BY <2>2, <2>3, <3>2, <4>1, OthersKeepMine
    <3> QED BY <3>1, <3>2
  <2>4. CASE (\E a \in Actors : Start(a) \/ CtlDies(a)) \/ LockDefault \/ DaemonDies
    <3>1. dbf' = dbf /\ \A b \in Actors : pc'[b] = "encode" => pc[b] = "encode"
      BY <2>4, StartsAndDeaths
    <3> QED BY <2>1, <2>2, <3>1 DEF IsMine
  <2> QED BY <1>1, <2>1, <2>3, <2>4 DEF Step
<1>2. CASE UserDeletes
  <2>1. ~contended /\ \A a \in Actors : pc[a] = "idle" BY <1>2 DEF UserDeletes
  <2>2. pc' = pc /\ seen' = seen BY <1>2 DEF UserDeletes, locals
  <2>3. ~Contention BY <2>1 DEF OwnerInv
  <2> QED BY <2>1, <2>2, <2>3 DEF Contention, Busy
<1>3. CASE UNCHANGED vars
  BY <1>3 DEF vars, OwnerInv, Contention, Busy, IsMine
<1> QED BY <1>1, <1>2, <1>3 DEF Next

\* What a step of an actor does to a complete database.
LEMMA ContinueKeepsDatabase ==
  ASSUME TypeOK, LocalInv, OwnerInv, NEW a \in Actors, Continue(a),
         dbf # None, dbf.ok, ~contended
  PROVE  \/ dbf' = dbf \/ dbf' = [dbf EXCEPT !.used = TRUE]
         \/ \E b \in Ctls : pc[b] = "rename"
<1>1. CASE RenameCopy(a) BY <1>1 DEF RenameCopy, LocalInv
<1>2. pc[a] # "encode" BY DEF OwnerInv, IsMine
<1>3. CASE ~RenameCopy(a)
  BY <1>2, <1>3 DEF Continue, StatIdentity, StatCredential, StatDatabase, ReadIdentity,
     ReadCredential, CreateDatabase, MayCreate, EncodeDatabase, CreateFails,
     TruncateIdentity, WriteIdentity, TruncateCredential, WriteCredential,
     WriteFails, OpenDatabase, AdoptLooks, LockDefaultInDaemon,
     LoadOrCreateIdentity, CopyAndRekey, CopyFails, CheckDestination, files
<1> QED BY <1>1, <1>3

\* kpxcd never overwrites or removes a complete database: neither a login that
\* decided to create one before it appeared (O_EXCL refuses) nor a creation that
\* fails and removes the path (what is there is still its own, incomplete file);
\* for any number of logins and kpxcctl runs, as long as no two of them were
\* writing at once.
THEOREM DatabaseIsKept == Spec => KeepsDatabase
<1> DEFINE Inv == TypeOK /\ LocalInv /\ OwnerInv
<1> DEFINE Kept == dbf # None /\ dbf.ok =>
                     \/ dbf' = dbf \/ dbf' = [dbf EXCEPT !.used = TRUE]
                     \/ \E a \in Ctls : pc[a] = "rename"
                     \/ UserDeletes
                     \/ contended'
<1>1. Init => Inv
  BY DEF Init, TypeOK, LocalInv, PCs, Owning, OwnerInv, Contention, Busy
<1>2. Inv /\ [Next]_vars => Inv' BY TypeStep, OwnerStep
<1>3. Inv /\ [Next]_vars => [Kept]_vars
  <2> SUFFICES ASSUME Inv, Step, contended' = (contended \/ Contention'),
                      dbf # None, dbf.ok, ~contended'
               PROVE  \/ dbf' = dbf \/ dbf' = [dbf EXCEPT !.used = TRUE]
                      \/ \E a \in Ctls : pc[a] = "rename"
    BY DEF Next
  <2>1. ASSUME NEW a \in Actors, Continue(a)
        PROVE  \/ dbf' = dbf \/ dbf' = [dbf EXCEPT !.used = TRUE]
               \/ \E b \in Ctls : pc[b] = "rename"
    BY <2>1, ContinueKeepsDatabase
  <2>2. CASE (\E a \in Actors : Start(a) \/ CtlDies(a)) \/ LockDefault \/ DaemonDies
    BY <2>2, StartsAndDeaths
  <2> QED BY <2>1, <2>2 DEF Step
<1> QED BY <1>1, <1>2, <1>3, PTL DEF Spec, KeepsDatabase

-----------------------------------------------------------------------------
(* A database that was used can be unlocked again *)

Sealed(f) == f \notin {None, Torn}

\* The actor has generated a password and not yet sealed it.
Generated(a) ==
  \/ pc[a] \in {"create", "encode"} /\ seen[a] = {}
  \/ pc[a] \in {"id1", "id2"} /\ a \in Conns
  \/ pc[a] \in {"check", "rename", "cr1", "cr2"}

\* Nobody else knows such a password, and it is in no credential.
FreshInv ==
  /\ \A a \in Actors : pw[a] # None => pw[a] \in taken
  /\ Sealed(crf) => crf.pw \in taken
  /\ \A a \in Actors : Generated(a) =>
       /\ \A b \in Actors : b # a => pw[b] # pw[a]
       /\ Sealed(crf) => crf.pw # pw[a]

\* Steps that bring no password into the world and show none to anybody.
LEMMA FreshKept ==
  ASSUME TypeOK, LocalInv, FreshInv, taken \subseteq taken',
         crf' = crf \/ crf' = Torn,
         \A a \in Actors : pw'[a] = pw[a] \/ pw'[a] = None,
         \A a \in Actors : Generated(a)' => Generated(a) /\ pw'[a] = pw[a]
  PROVE  FreshInv'
<1>1. \A a \in Actors : Generated(a) => pw[a] \in Secrets
  BY DEF Generated, LocalInv, Actors
<1>2. Sealed(crf)' => crf' = crf /\ Sealed(crf) BY DEF Sealed
<1> QED BY <1>1, <1>2, StoreConstants DEF FreshInv

\* Every step keeps it.
LEMMA FreshStep == TypeOK /\ LocalInv /\ FreshInv /\ [Next]_vars => FreshInv'
<1> SUFFICES ASSUME TypeOK, LocalInv, FreshInv, [Next]_vars PROVE FreshInv'
  OBVIOUS
<1> DEFINE Shows == /\ taken \subseteq taken'
                    /\ crf' = crf \/ crf' = Torn
                    /\ \A a \in Actors : pw'[a] = pw[a] \/ pw'[a] = None
                    /\ \A a \in Actors : Generated(a)' => Generated(a) /\ pw'[a] = pw[a]
<1>0. Shows => FreshInv' BY FreshKept
<1> HIDE DEF Shows
<1>1. ASSUME NEW a \in Actors, Continue(a) PROVE FreshInv'
  <2> USE DEF TypeOK, files, locals, Goto
  <2>1. CASE Return(a) /\ taken' = taken /\ (crf' = crf \/ crf' = Torn)
    BY <1>0, <2>1 DEF Return, Shows, Generated
  <2>2. CASE StatIdentity(a) \/ StatCredential(a)
    BY <1>0, <2>2 DEF StatIdentity, StatCredential, See, Shows, Generated
  <2>3. CASE StatDatabase(a)
    <3>1. CASE pc' = [pc EXCEPT ![a] = "readId"] /\ UNCHANGED <<taken, tok, id, pw, rep>>
      <4>1. crf' = crf /\ \A b \in Actors : b # a => seen'[b] = seen[b]
        BY <2>3 DEF StatDatabase, See, Return
      <4>2. \A b \in Actors : Generated(b)' => Generated(b)
        BY <3>1, <4>1 DEF Generated
      <4> QED BY <1>0, <3>1, <4>1, <4>2 DEF Shows
    <3>2. ASSUME NEW i \in Secrets \ taken, NEW p \in Secrets \ (taken \cup {i}),
                 pw' = [pw EXCEPT ![a] = p], taken' = taken \cup {i, p},
                 Goto(a, "create"), UNCHANGED seen
          PROVE  FreshInv'
      <4>1. crf' = crf BY <2>3 DEF StatDatabase
      <4>2. \A b \in Actors : b # a => pw'[b] = pw[b] /\ (Generated(b)' <=> Generated(b))
        BY <3>2 DEF Generated
      <4>3. pw'[a] = p BY <3>2
      <4>4. \A b \in Actors : b # a => pw[b] # p BY <3>2, StoreConstants DEF FreshInv
      <4>5. Sealed(crf) => crf.pw # p BY <3>2 DEF FreshInv
      <4> QED BY <3>2, <4>1, <4>2, <4>3, <4>4, <4>5 DEF FreshInv, Sealed
    <3> QED BY <2>1, <2>3, <3>1, <3>2 DEF StatDatabase
  <2>4. CASE ReadIdentity(a)
    BY <1>0, <2>1, <2>4 DEF ReadIdentity, Shows, Generated
  <2>5. CASE ReadCredential(a)
    <3>1. CASE OpensCredential(id[a])
      <4>1. pw' = [pw EXCEPT ![a] = crf.pw] /\ crf' = crf /\ taken' = taken /\ seen' = seen
        BY <2>5, <3>1 DEF ReadCredential
      <4>2. ~Generated(a)'
        BY <2>5, <3>1, <4>1 DEF ReadCredential, Generated, LocalInv
      <4>3. \A b \in Actors : b # a => pw'[b] = pw[b] /\ (Generated(b)' <=> Generated(b))
        BY <2>5, <3>1, <4>1 DEF ReadCredential, Generated
      <4>4. Sealed(crf) BY <3>1 DEF OpensCredential, Sealed
      <4> QED BY <4>1, <4>2, <4>3, <4>4 DEF FreshInv, Sealed
    <3>2. CASE ~OpensCredential(id[a]) BY <2>1, <2>5, <3>2 DEF ReadCredential
    <3> QED BY <3>1, <3>2
  <2>6. CASE CreateDatabase(a)
    BY <1>0, <2>1, <2>6 DEF CreateDatabase, Shows, Generated
  <2>7. CASE EncodeDatabase(a)
    BY <1>0, <2>7 DEF EncodeDatabase, AfterCreate, Shows, Generated, LocalInv
  <2>8. CASE TruncateIdentity(a) \/ WriteIdentity(a)
    BY <1>0, <2>8, StoreConstants DEF TruncateIdentity, WriteIdentity, Shows, Generated, Actors
  <2>9. CASE TruncateCredential(a)
    BY <1>0, <2>9 DEF TruncateCredential, Shows, Generated
  <2>10. CASE WriteCredential(a)
    <3>1. crf' = [id |-> id[a], pw |-> pw[a]] /\ taken' = taken
      BY <2>10 DEF WriteCredential, SealedCredential
    <3>2. Generated(a) /\ pw[a] \in Secrets
      BY <2>10 DEF WriteCredential, Generated, LocalInv
    <3>3. /\ ~Generated(a)'
          /\ pw'[a] = pw[a] \/ pw'[a] = None
          /\ \A b \in Actors : b # a => pw'[b] = pw[b] /\ (Generated(b)' <=> Generated(b))
      BY <2>10 DEF WriteCredential, Return, Generated
    <3>4. crf'.pw = pw[a] BY <3>1
    <3>5. pw[a] \in taken BY <3>2, StoreConstants DEF FreshInv
    <3>6. \A b \in Actors : Generated(b)' => pw'[b] \in Secrets /\ pw'[b] # pw[a]
      BY <3>2, <3>3 DEF FreshInv, Generated, LocalInv, Actors
    <3> QED BY <3>1, <3>2, <3>3, <3>4, <3>5, <3>6, StoreConstants DEF FreshInv
  <2>11. CASE AdoptLooks(a) \/ LockDefaultInDaemon(a)
    BY <1>0, <2>1, <2>11 DEF AdoptLooks, LockDefaultInDaemon, Shows, Generated
  <2>12. CASE LoadOrCreateIdentity(a)
    <3>1. a \in Ctls BY <2>12 DEF LoadOrCreateIdentity, LocalInv
    <3> QED BY <1>0, <2>1, <2>12, <3>1, StoreConstants
            DEF LoadOrCreateIdentity, Shows, Generated
  <2>13. CASE CopyAndRekey(a)
    <3>1. PICK p \in Secrets \ taken :
            pw' = [pw EXCEPT ![a] = p] /\ taken' = taken \cup {p}
      BY <2>13 DEF CopyAndRekey
    <3>2. crf' = crf /\ pw'[a] = p BY <2>13, <3>1 DEF CopyAndRekey
    <3>3. \A b \in Actors : b # a => pw'[b] = pw[b] /\ (Generated(b)' <=> Generated(b))
      BY <2>13, <3>1 DEF CopyAndRekey, Generated
    <3>4. \A b \in Actors : b # a => pw[b] # p BY <3>1, StoreConstants DEF FreshInv
    <3>5. Sealed(crf) => crf.pw # p BY <3>1 DEF FreshInv
    <3> QED BY <3>1, <3>2, <3>3, <3>4, <3>5 DEF FreshInv, Sealed
  <2>14. CASE CheckDestination(a) \/ RenameCopy(a)
    BY <1>0, <2>1, <2>14 DEF CheckDestination, RenameCopy, Shows, Generated
  <2>15. CASE CreateFails(a) \/ WriteFails(a) \/ OpenDatabase(a) \/ CopyFails(a)
    BY <2>1, <2>15 DEF CreateFails, WriteFails, OpenDatabase, CopyFails
  <2> QED BY <1>1, <2>2, <2>3, <2>4, <2>5, <2>6, <2>7, <2>8, <2>9, <2>10, <2>11, <2>12,
             <2>13, <2>14, <2>15 DEF Continue
<1>2. ASSUME NEW a \in Actors, Start(a) PROVE FreshInv'
  BY <1>0, <1>2
  DEF TypeOK, Start, HandleConn, CtlUnlock, AdoptDefault, Goto, files, Shows, Generated
<1>3. ASSUME NEW A \in SUBSET Actors, Die(A) PROVE FreshInv'
  BY <1>0, <1>3 DEF TypeOK, Die, files, Shows, Generated
<1>4. CASE LockDefault \/ UserDeletes \/ UNCHANGED vars
  BY <1>0, <1>4 DEF LockDefault, UserDeletes, vars, files, locals, Shows, Generated
<1> QED BY <1>1, <1>2, <1>3, <1>4 DEF Next, Step, DaemonDies, CtlDies, Actors

\* The database at the path is the one that a is about to seal the way to.
NewDb(a) == dbf # None /\ dbf.pw = pw[a] /\ ~dbf.used

\* a has found no credential and may decide, or has decided, to bootstrap.
Bootstraps(a) ==
  (pc[a] = "statDb" /\ "cr" \notin seen[a]) \/ (pc[a] = "create" /\ seen[a] = {})

\* What an actor may rely on where it is, although nothing is locked.
Place(a) ==
  /\ Bootstraps(a) /\ crf # None => dbf # None /\ dbf.ok
  /\ pc[a] = "encode" => NewDb(a)
  /\ pc[a] = "encode" /\ seen[a] = {} => crf = None
  /\ pc[a] \in {"create", "encode"} /\ seen[a] # {} => Sealed(crf) /\ crf.pw = pw[a]
  /\ pc[a] \in {"id1", "id2"} => crf = None
  /\ pc[a] \in {"id1", "id2"} /\ a \in Conns => NewDb(a) /\ dbf.ok
  /\ pc[a] \in {"adopt", "check", "rename", "cr1", "cr2"} => Sealed(idf) /\ idf.id = id[a]
  /\ pc[a] \in {"cr1", "cr2"} => NewDb(a) /\ dbf.ok
  /\ pc[a] = "open" /\ OpensDatabase(pw[a]) => Unlockable

\* How the three files belong together.
FilesInv ==
  /\ idf = None => crf = None
  /\ Sealed(crf) => Sealed(idf) /\ idf.id = crf.id
  /\ dbf # None /\ dbf.used => Unlockable

SealInv == ~contended => FilesInv /\ \A a \in Actors : Place(a)

\* Who leaves the files and the locals of b alone keeps what b relies on.
LEMMA PlaceKept ==
  ASSUME NEW b, Place(b), UNCHANGED files,
         pc'[b] = pc[b], seen'[b] = seen[b], id'[b] = id[b], pw'[b] = pw[b]
  PROVE  Place(b)'
BY DEF Place, Bootstraps, NewDb, Sealed, OpensDatabase, Unlockable, OpensIdentity,
       OpensCredential, files

\* Steps that change no file: what matters is where the actor gets.
LEMMA FilesKept ==
  ASSUME FilesInv, \A b \in Actors : Place(b), UNCHANGED files, NEW a,
         \A b \in Actors : b # a => /\ pc'[b] = pc[b] /\ seen'[b] = seen[b]
                                   /\ id'[b] = id[b] /\ pw'[b] = pw[b],
         a \in Actors => Place(a)'
  PROVE  FilesInv' /\ \A b \in Actors : Place(b)'
<1>1. FilesInv'
  BY DEF FilesInv, Sealed, OpensDatabase, Unlockable, OpensIdentity, OpensCredential, files
<1>2. ASSUME NEW b \in Actors, b # a PROVE Place(b)'
  BY <1>2, PlaceKept
<1> QED BY <1>1, <1>2

\* Sealed files that belong together open a database with their password.
LEMMA OpensAgain ==
  ASSUME TypeOK, Sealed(crf), Sealed(idf), idf.id = crf.id, dbf # None, dbf.ok,
         dbf.pw = crf.pw
  PROVE  Unlockable
<1>1. idf \in Identity BY DEF TypeOK, Sealed
<1>2. idf.token \in Tokens BY <1>1 DEF Identity
<1> QED BY <1>2 DEF Unlockable, OpensIdentity, OpensCredential, OpensDatabase, Sealed

\* The same of the files that a step leaves.
LEMMA OpensAfter ==
  ASSUME TypeOK', Sealed(crf)', Sealed(idf)', (idf.id = crf.id)', dbf' # None, dbf'.ok,
         dbf'.pw = crf'.pw
  PROVE  Unlockable'
<1>1. idf' \in Identity BY DEF TypeOK, Sealed
<1>2. idf'.token \in Tokens BY <1>1 DEF Identity
<1> QED BY <1>2 DEF Unlockable, OpensIdentity, OpensCredential, OpensDatabase, Sealed

\* The steps of an actor that change no file.
Reads(a) ==
  \/ Start(a) \/ Return(a)
  \/ StatIdentity(a) \/ StatCredential(a) \/ StatDatabase(a)
  \/ ReadIdentity(a) \/ ReadCredential(a)
  \/ AdoptLooks(a) \/ LockDefaultInDaemon(a) \/ LoadOrCreateIdentity(a)
  \/ CopyAndRekey(a) \/ CheckDestination(a)

LEMMA SealReads ==
  ASSUME TypeOK, LocalInv, FilesInv, \A b \in Actors : Place(b), UNCHANGED files,
         NEW a \in Actors, Reads(a)
  PROVE  FilesInv' /\ \A b \in Actors : Place(b)'
<1> USE DEF TypeOK, locals, Goto
<1>1. \A b \in Actors : b # a => /\ pc'[b] = pc[b] /\ seen'[b] = seen[b]
                                /\ id'[b] = id[b] /\ pw'[b] = pw[b]
  <2>1. CASE Start(a) BY <2>1 DEF Start, HandleConn, CtlUnlock, AdoptDefault
  <2>2. CASE Return(a) BY <2>2 DEF Return
  <2>3. CASE ~Start(a) /\ ~Return(a)
    BY <2>3 DEF Reads, StatIdentity, StatCredential, StatDatabase, ReadIdentity,
       ReadCredential, AdoptLooks, LockDefaultInDaemon, LoadOrCreateIdentity,
       CopyAndRekey, CheckDestination, See
  <2> QED BY <2>1, <2>2, <2>3
<1>2. Place(a) OBVIOUS
<1>3. idf' = idf /\ crf' = crf /\ dbf' = dbf BY DEF files
<1>4. Place(a)'
  <2>1. CASE Start(a)
    <3>1. pc'[a] \in {"statId", "readId", "adoptLock", "adoptDb"}
      BY <2>1 DEF Start, HandleConn, CtlUnlock, AdoptDefault
    <3> QED BY <3>1 DEF Place, Bootstraps
  <2>2. CASE Return(a)
    <3>1. pc'[a] = "idle" BY <2>2 DEF Return
    <3> QED BY <3>1 DEF Place, Bootstraps
  <2>3. CASE StatIdentity(a)
    <3>1. pc'[a] = "statCr" BY <2>3 DEF StatIdentity
    <3> QED BY <3>1 DEF Place, Bootstraps
  <2>4. CASE StatCredential(a)
    <3>1. pc'[a] = "statDb" /\ (crf # None => "cr" \in seen'[a])
      BY <2>4 DEF StatCredential, See
    <3> QED BY <1>3, <3>1 DEF Place, Bootstraps
  <2>5. CASE StatDatabase(a) /\ ~Return(a)
    <3>1. \/ pc'[a] = "readId"
          \/ /\ pc'[a] = "create" /\ seen'[a] = {}
             /\ crf # None => dbf # None /\ dbf.ok
      BY <1>2, <2>5 DEF StatDatabase, See, Place, Bootstraps
    <3> QED BY <1>3, <3>1 DEF Place, Bootstraps
  <2>6. CASE ReadIdentity(a) /\ ~Return(a)
    BY <2>6 DEF ReadIdentity, Place, Bootstraps
  <2>7. CASE ReadCredential(a) /\ ~Return(a)
    <3>1. Sealed(crf) /\ pw'[a] = crf.pw /\ seen'[a] = seen[a] /\ seen[a] # {}
      BY <2>7 DEF ReadCredential, OpensCredential, Sealed, LocalInv
    <3>2. pc'[a] \in {"open", "create"} BY <2>7 DEF ReadCredential
    <3>3. OpensDatabase(pw'[a]) => Unlockable
      BY <3>1, OpensAgain DEF FilesInv, OpensDatabase
    <3>4. OpensDatabase(pw[a])' => Unlockable'
      BY <1>3, <3>3 DEF OpensDatabase, Unlockable, OpensIdentity, OpensCredential
    <3> QED BY <1>3, <3>1, <3>2, <3>4 DEF Place, Bootstraps, Sealed
  <2>8. CASE AdoptLooks(a) /\ ~Return(a)
    <3>1. pc'[a] \in {"adoptCr", "adoptLock"} BY <2>8 DEF AdoptLooks
    <3> QED BY <3>1 DEF Place, Bootstraps
  <2>9. CASE LockDefaultInDaemon(a)
    BY <2>9 DEF LockDefaultInDaemon, Place, Bootstraps
  <2>10. CASE LoadOrCreateIdentity(a) /\ ~Return(a)
    <3>1. a \in Ctls /\ a \notin Conns
      BY <2>10, StoreConstants DEF LoadOrCreateIdentity, LocalInv
    <3>2. \/ pc'[a] = "adopt" /\ Sealed(idf) /\ id'[a] = idf.id
          \/ pc'[a] = "id1" /\ idf = None
      BY <2>10 DEF LoadOrCreateIdentity, HasIdentity, OpensIdentity, Sealed
    <3> QED BY <1>3, <3>1, <3>2 DEF Place, Bootstraps, FilesInv, Sealed
  <2>11. CASE CopyAndRekey(a)
    <3>1. pc[a] = "adopt" /\ pc'[a] = "check" /\ id'[a] = id[a]
      BY <2>11 DEF CopyAndRekey
    <3> QED BY <1>2, <1>3, <3>1 DEF Place, Bootstraps, Sealed
  <2>12. CASE CheckDestination(a) /\ ~Return(a)
    <3>1. pc[a] = "check" /\ pc'[a] = "rename" /\ id'[a] = id[a]
      BY <2>12 DEF CheckDestination
    <3> QED BY <1>2, <1>3, <3>1 DEF Place, Bootstraps, Sealed
  <2> QED BY <2>1, <2>2, <2>3, <2>4, <2>5, <2>6, <2>7, <2>8, <2>9, <2>10, <2>11, <2>12
          DEF Reads
<1> QED BY <1>1, <1>4, FilesKept

\* The steps of an actor that change a file, as long as nobody contends.
LEMMA SealWrites ==
  ASSUME TypeOK, TypeOK', LocalInv, FreshInv, FilesInv, \A b \in Actors : Place(b),
         ~Contention, ~Contention', \A b \in Actors : pc[b] = "encode" => IsMine(b),
         NEW a \in Actors, Continue(a)
  PROVE  FilesInv' /\ \A b \in Actors : Place(b)'
<1> USE DEF locals, Goto
<1>0. /\ Place(a)
      /\ \A b \in Actors : b # a => Place(b)
  OBVIOUS
<1>1. \A b \in Actors : Place(b) => \* what holds of those that are not busy
        /\ Bootstraps(b) /\ crf # None => dbf # None /\ dbf.ok
        /\ pc[b] = "open" /\ OpensDatabase(pw[b]) => Unlockable
  BY DEF Place
<1>2. CASE CreateDatabase(a)
  <2>1. CASE MayCreate
    <3>1. /\ dbf = None /\ idf' = idf /\ crf' = crf
          /\ dbf' = [by |-> a, pw |-> pw[a], ok |-> FALSE, used |-> FALSE]
          /\ pc[a] = "create" /\ pc' = [pc EXCEPT ![a] = "encode"] /\ UNCHANGED locals
      BY <1>2, <2>1 DEF CreateDatabase, MayCreate
    <3>2. dbf' # None /\ dbf'.pw = pw[a] /\ ~dbf'.ok /\ ~dbf'.used
      <4>1. pw[a] \in Secrets BY <3>1 DEF LocalInv
      <4>2. dbf' \in Database BY <3>1, <4>1 DEF Database
      <4>3. dbf' # None BY <4>2, NoFile
      <4> QED BY <3>1, <4>3
    <3>3. FilesInv' BY <3>1, <3>2 DEF FilesInv, Sealed
    <3>4. Place(a)'
      <4>1. seen[a] = {} => crf = None BY <1>0, <3>1 DEF Place, Bootstraps
      <4>2. seen[a] # {} => Sealed(crf) /\ crf.pw = pw[a] BY <1>0, <3>1 DEF Place
      <4>3. pc'[a] = "encode" BY <3>1 DEF TypeOK
      <4> QED BY <3>1, <3>2, <4>1, <4>2, <4>3 DEF Place, Bootstraps, NewDb, Sealed
    <3>5. ASSUME NEW b \in Actors, b # a PROVE Place(b)'
      <4>1. pc'[b] = pc[b] /\ seen'[b] = seen[b] /\ pw'[b] = pw[b]
        BY <3>1, <3>5 DEF TypeOK
      <4>2. ~Busy(b)' BY <3>1, <3>5 DEF Contention, Busy, Owning, TypeOK
      <4>3. Bootstraps(b)' => crf' = None BY <1>1, <3>1, <4>1 DEF Bootstraps
      <4>4. ~OpensDatabase(pw[b])' BY <3>2 DEF OpensDatabase
      <4> QED BY <4>2, <4>3, <4>4 DEF Place, Busy, Owning
    <3> QED BY <3>3, <3>4, <3>5
  <2>2. CASE ~MayCreate
    BY <1>2, <2>2, SealReads DEF CreateDatabase, Reads, files
  <2> QED BY <2>1, <2>2
<1>3. CASE EncodeDatabase(a) \/ CreateFails(a)
  <2>1. /\ pc[a] = "encode" /\ IsMine(a) /\ idf' = idf /\ crf' = crf
        /\ dbf' = None \/ dbf' = [dbf EXCEPT !.ok = TRUE]
        /\ pc'[a] = "idle" \/ (/\ pc'[a] = AfterCreate(a) /\ seen'[a] = seen[a]
                               /\ pw'[a] = pw[a] /\ dbf' # None)
    <3>1. pc[a] = "encode" /\ IsMine(a) /\ idf' = idf /\ crf' = crf
      BY <1>3 DEF EncodeDatabase, CreateFails
    <3>2. [dbf EXCEPT !.ok = TRUE] # None
      <4>1. dbf \in Database BY <3>1 DEF TypeOK, IsMine
      <4>2. [dbf EXCEPT !.ok = TRUE] \in Database BY <4>1 DEF Database
      <4> QED BY <4>2, NoFile
    <3> QED BY <1>3, <3>1, <3>2 DEF EncodeDatabase, CreateFails, Return, TypeOK
  <2>2. dbf # None /\ dbf \in Database /\ ~dbf.ok /\ dbf.pw = pw[a] /\ ~dbf.used
    BY <1>0, <2>1 DEF Place, NewDb, IsMine, TypeOK
  <2>3. dbf' # None => dbf'.ok /\ dbf'.pw = pw[a] /\ ~dbf'.used
    BY <2>1, <2>2 DEF Database
  <2>4. FilesInv' BY <2>1, <2>3 DEF FilesInv, Sealed
  <2>5. seen[a] = {} => crf = None BY <1>0, <2>1 DEF Place
  <2>6. seen[a] # {} => Sealed(crf) /\ crf.pw = pw[a] BY <1>0, <2>1 DEF Place
  <2>7. seen[a] # {} /\ dbf' # None => Unlockable'
    BY <2>1, <2>3, <2>6, OpensAfter DEF FilesInv, Sealed
  <2>8. Place(a)'
    <3>1. CASE pc'[a] = "idle" BY <3>1 DEF Place, Bootstraps
    <3>2. CASE pc'[a] # "idle"
      BY <2>1, <2>3, <2>5, <2>7, <3>2 DEF Place, Bootstraps, NewDb, AfterCreate
    <3> QED BY <3>1, <3>2
  <2>9. ASSUME NEW b \in Actors, b # a PROVE Place(b)'
    <3>1. pc'[b] = pc[b] /\ seen'[b] = seen[b] /\ pw'[b] = pw[b]
      BY <1>3, <2>9 DEF TypeOK, EncodeDatabase, CreateFails, Return
    <3>2. ~Busy(b)' BY <2>1, <2>9, <3>1 DEF Contention, Busy, Owning
    <3>3. Bootstraps(b)' /\ crf' # None => dbf' # None /\ dbf'.ok
      BY <1>1, <2>1, <2>2, <2>3, <2>5, <2>6, <3>1 DEF Bootstraps
    <3>4. pc'[b] = "open" /\ OpensDatabase(pw[b])' => Unlockable'
      <4>1. CASE seen[a] = {}
        <5>1. pw[b] # pw[a] BY <2>1, <2>9, <4>1 DEF FreshInv, Generated
        <5> QED BY <2>3, <3>1, <5>1 DEF OpensDatabase
      <4>2. CASE seen[a] # {} BY <2>7, <4>2 DEF OpensDatabase
      <4> QED BY <4>1, <4>2
    <3> QED BY <3>2, <3>3, <3>4 DEF Place, Busy, Owning
  <2> QED BY <2>4, <2>8, <2>9
<1>4. CASE TruncateIdentity(a) \/ WriteIdentity(a)
  <2>1. /\ pc[a] \in {"id1", "id2"} /\ crf' = crf /\ dbf' = dbf /\ UNCHANGED locals
        /\ pc' = [pc EXCEPT ![a] = pc'[a]]
        /\ pc'[a] \in {"id2", "cr1", "adopt"}
        /\ pc'[a] = "cr1" => a \in Conns
        /\ pc'[a] # "id2" => idf' = [id |-> id[a], token |-> tok[a]]
        /\ pc'[a] = "id2" => idf' = Torn
    BY <1>4 DEF TruncateIdentity, WriteIdentity, TypeOK
  <2>2. crf = None /\ ~Unlockable
    BY <1>0, <2>1 DEF Place, Unlockable, OpensCredential
  <2>3. idf' # None /\ (pc'[a] # "id2" => Sealed(idf)' /\ idf'.id = id[a])
    <3>1. id[a] \in Secrets /\ tok[a] \in Tokens BY <2>1 DEF LocalInv
    <3>2. pc'[a] # "id2" => idf' \in Identity BY <2>1, <3>1 DEF Identity
    <3> QED BY <2>1, <3>2, NoFile, StoreConstants DEF Sealed
  <2>4. FilesInv' BY <2>1, <2>2, <2>3 DEF FilesInv, Sealed
  <2>5. Place(a)'
    BY <1>0, <2>1, <2>2, <2>3 DEF Place, Bootstraps, NewDb
  <2>6. ASSUME NEW b \in Actors, b # a PROVE Place(b)'
    <3>1. pc'[b] = pc[b] /\ seen'[b] = seen[b] /\ pw'[b] = pw[b]
      BY <2>1, <2>6 DEF TypeOK
    <3>2. ~Busy(b)' BY <2>1, <2>6, <3>1 DEF Contention, Busy, Owning
    <3>3. crf' = None BY <2>1, <2>2
    <3>4. ~(pc'[b] = "open" /\ OpensDatabase(pw[b])')
      BY <1>1, <2>1, <2>2, <3>1 DEF OpensDatabase
    <3> QED BY <3>2, <3>3, <3>4 DEF Place, Busy, Owning
  <2> QED BY <2>4, <2>5, <2>6
<1>5. CASE TruncateCredential(a)
  <2>1. /\ pc[a] = "cr1" /\ crf' = Torn /\ UNCHANGED <<idf, dbf, locals>>
        /\ pc' = [pc EXCEPT ![a] = "cr2"] /\ pc'[a] = "cr2"
    BY <1>5 DEF TruncateCredential, TypeOK
  <2>2. /\ Sealed(idf) /\ idf.id = id[a] /\ dbf # None /\ dbf.pw = pw[a]
        /\ ~dbf.used /\ dbf.ok
    BY <1>0, <2>1 DEF Place, NewDb
  <2>3. FilesInv' BY <2>1, <2>2 DEF FilesInv, Sealed
  <2>4. Place(a)' BY <2>1, <2>2 DEF Place, Bootstraps, NewDb, Sealed
  <2>5. ASSUME NEW b \in Actors, b # a PROVE Place(b)'
    <3>1. pc'[b] = pc[b] /\ seen'[b] = seen[b] /\ pw'[b] = pw[b]
      BY <2>1, <2>5 DEF TypeOK
    <3>2. ~Busy(b)' BY <2>1, <2>5, <3>1 DEF Contention, Busy, Owning
    <3>3. pw[b] # pw[a] BY <2>1, <2>5 DEF FreshInv, Generated
    <3>4. ~OpensDatabase(pw[b])' BY <2>1, <2>2, <3>1, <3>3 DEF OpensDatabase
    <3> QED BY <2>1, <2>2, <3>2, <3>4 DEF Place, Busy, Owning
  <2> QED BY <2>3, <2>4, <2>5
<1>6. CASE WriteCredential(a)
  <2>1. /\ pc[a] = "cr2" /\ crf' = [id |-> id[a], pw |-> pw[a]] /\ idf' = idf /\ dbf' = dbf
        /\ pc'[a] \in {"idle", "open"}
        /\ \A b \in Actors : b # a => pc'[b] = pc[b] /\ seen'[b] = seen[b]
    BY <1>6 DEF WriteCredential, SealedCredential, TypeOK, Return
  <2>2. Sealed(idf) /\ idf.id = id[a] /\ dbf # None /\ dbf.pw = pw[a] /\ dbf.ok
    BY <1>0, <2>1 DEF Place, NewDb
  <2>3. Sealed(crf)' /\ crf'.pw = pw[a] /\ crf'.id = id[a]
    <3>1. id[a] \in Secrets /\ pw[a] \in Secrets BY <2>1 DEF LocalInv
    <3>2. crf' \in Credential BY <2>1, <3>1 DEF Credential
    <3> QED BY <2>1, <3>2, NoFile DEF Sealed
  <2>4. Unlockable' BY <2>1, <2>2, <2>3, OpensAfter DEF Sealed
  <2>5. FilesInv' BY <2>1, <2>2, <2>3, <2>4 DEF FilesInv, Sealed
  <2>6. Place(a)' BY <2>1, <2>4 DEF Place, Bootstraps
  <2>7. ASSUME NEW b \in Actors, b # a PROVE Place(b)'
    <3>1. pc'[b] = pc[b] /\ seen'[b] = seen[b] BY <2>1, <2>7
    <3>2. ~Busy(b)' BY <2>1, <2>7, <3>1 DEF Contention, Busy, Owning
    <3> QED BY <2>1, <2>2, <2>4, <3>2 DEF Place, Busy, Owning
  <2> QED BY <2>5, <2>6, <2>7
<1>7. CASE OpenDatabase(a)
  <2>1. CASE OpensDatabase(pw[a])
    <3>1. /\ pc[a] = "open" /\ idf' = idf /\ crf' = crf /\ pc'[a] = "idle"
          /\ dbf' = [dbf EXCEPT !.used = TRUE]
          /\ \A b \in Actors : b # a => /\ pc'[b] = pc[b] /\ seen'[b] = seen[b]
                                        /\ id'[b] = id[b] /\ pw'[b] = pw[b]
      BY <1>7, <2>1 DEF OpenDatabase, Return, TypeOK
    <3>2. dbf # None /\ dbf \in Database /\ dbf.ok /\ dbf.pw = pw[a]
      BY <2>1 DEF OpensDatabase, TypeOK
    <3>3. dbf' # None /\ dbf'.ok /\ dbf'.pw = dbf.pw
      <4>1. dbf' \in Database BY <3>1, <3>2 DEF Database
      <4>2. dbf' # None BY <4>1, NoFile
      <4> QED BY <3>1, <3>2, <4>2 DEF Database
    <3>4. Unlockable BY <1>0, <2>1, <3>1 DEF Place
    <3>5. Unlockable'
      BY <3>1, <3>2, <3>3, <3>4 DEF Unlockable, OpensIdentity, OpensCredential, OpensDatabase
    <3>6. FilesInv' BY <3>1, <3>5 DEF FilesInv, Sealed
    <3>7. Place(a)' BY <3>1 DEF Place, Bootstraps
    <3>8. ASSUME NEW b \in Actors, b # a PROVE Place(b)'
      <4>1. pc[b] # "encode" BY <3>2 DEF IsMine
      <4>2. ~(pc[b] \in {"cr1", "cr2"} \/ (pc[b] \in {"id1", "id2"} /\ b \in Conns))
        <5>1. SUFFICES ASSUME pc[b] \in {"cr1", "cr2"} \/ (pc[b] \in {"id1", "id2"} /\ b \in Conns)
                       PROVE  FALSE
          OBVIOUS
        <5>2. pw[a] # pw[b] BY <3>8, <5>1 DEF FreshInv, Generated
        <5>3. dbf.pw = pw[b] BY <5>1 DEF Place, NewDb
        <5> QED BY <3>2, <5>2, <5>3
      <4> QED BY <3>1, <3>3, <3>5, <3>8, <4>1, <4>2 DEF Place, Bootstraps, Sealed
    <3> QED BY <3>6, <3>7, <3>8
  <2>2. CASE ~OpensDatabase(pw[a])
    BY <1>7, <2>2, SealReads DEF OpenDatabase, Reads, files
  <2> QED BY <2>1, <2>2
<1>8. CASE RenameCopy(a)
  <2>1. /\ pc[a] = "rename" /\ idf' = idf /\ crf' = crf /\ UNCHANGED locals
        /\ dbf' = [by |-> a, pw |-> pw[a], ok |-> TRUE, used |-> FALSE]
        /\ pc' = [pc EXCEPT ![a] = "cr1"] /\ pc'[a] = "cr1"
    BY <1>8 DEF RenameCopy, TypeOK
  <2>2. dbf' # None /\ dbf'.pw = pw[a] /\ dbf'.ok /\ ~dbf'.used
    <3>1. pw[a] \in Secrets BY <2>1 DEF LocalInv
    <3>2. dbf' \in Database BY <2>1, <3>1 DEF Database
    <3>3. dbf' # None BY <3>2, NoFile
    <3> QED BY <2>1, <3>3
  <2>3. FilesInv' BY <2>1, <2>2 DEF FilesInv, Sealed
  <2>4. Place(a)' BY <1>0, <2>1, <2>2 DEF Place, Bootstraps, NewDb, Sealed
  <2>5. ASSUME NEW b \in Actors, b # a PROVE Place(b)'
    <3>1. pc'[b] = pc[b] /\ seen'[b] = seen[b] /\ pw'[b] = pw[b]
      BY <2>1, <2>5 DEF TypeOK
    <3>2. ~Busy(b)' BY <2>1, <2>5, <3>1 DEF Contention, Busy, Owning
    <3>3. pw[b] # pw[a] BY <2>1, <2>5 DEF FreshInv, Generated
    <3>4. ~OpensDatabase(pw[b])' BY <2>2, <3>1, <3>3 DEF OpensDatabase
    <3> QED BY <2>2, <3>2, <3>4 DEF Place, Busy, Owning
  <2> QED BY <2>3, <2>4, <2>5
<1>9. CASE WriteFails(a) \/ CopyFails(a)
  BY <1>9, SealReads DEF WriteFails, CopyFails, Reads
<1>10. CASE /\ Reads(a)
            /\ ~(CreateDatabase(a) \/ EncodeDatabase(a) \/ CreateFails(a))
            /\ ~(TruncateIdentity(a) \/ WriteIdentity(a) \/ TruncateCredential(a))
            /\ ~(WriteCredential(a) \/ OpenDatabase(a) \/ RenameCopy(a))
  <2>1. UNCHANGED files
    BY <1>10 DEF Continue, StatIdentity, StatCredential, StatDatabase, ReadIdentity,
       ReadCredential, AdoptLooks, LockDefaultInDaemon, LoadOrCreateIdentity,
       CopyAndRekey, CopyFails, WriteFails, CheckDestination
  <2> QED BY <1>10, <2>1, SealReads
<1> QED BY <1>2, <1>3, <1>4, <1>5, <1>6, <1>7, <1>8, <1>9, <1>10 DEF Continue, Reads

\* Every step keeps the way to a used database.
LEMMA SealStep ==
  /\ TypeOK /\ TypeOK' /\ LocalInv /\ OwnerInv /\ OwnerInv' /\ FreshInv /\ SealInv
  /\ [Next]_vars
  => SealInv'
<1> SUFFICES ASSUME TypeOK, TypeOK', LocalInv, OwnerInv, OwnerInv', FreshInv, SealInv,
                    [Next]_vars, ~contended'
             PROVE  FilesInv' /\ \A b \in Actors : Place(b)'
  BY DEF SealInv
<1>1. ~contended BY DEF Next, UserDeletes, vars
<1>2. /\ ~Contention /\ ~Contention' /\ \A b \in Actors : pc[b] = "encode" => IsMine(b)
      /\ FilesInv /\ \A b \in Actors : Place(b)
  BY <1>1 DEF OwnerInv, SealInv
<1>3. ASSUME NEW a \in Actors, Continue(a)
      PROVE  FilesInv' /\ \A b \in Actors : Place(b)'
  BY <1>2, <1>3, SealWrites
<1>4. ASSUME NEW a \in Actors, Start(a)
      PROVE  FilesInv' /\ \A b \in Actors : Place(b)'
  <2>1. UNCHANGED files BY <1>4 DEF Start, HandleConn, CtlUnlock, AdoptDefault
  <2> QED BY <1>2, <1>4, <2>1, SealReads DEF Reads
<1>5. ASSUME UNCHANGED files,
             \A b \in Actors : \/ pc'[b] = "idle"
                               \/ /\ pc'[b] = pc[b] /\ seen'[b] = seen[b]
                                  /\ id'[b] = id[b] /\ pw'[b] = pw[b]
      PROVE  FilesInv' /\ \A b \in Actors : Place(b)'
  <2>1. FilesInv'
    BY <1>2, <1>5 DEF FilesInv, Sealed, OpensDatabase, Unlockable, OpensIdentity,
       OpensCredential, files
  <2>2. ASSUME NEW b \in Actors PROVE Place(b)'
    <3>1. CASE pc'[b] = "idle" BY <3>1 DEF Place, Bootstraps
    <3>2. CASE pc'[b] # "idle" BY <1>2, <1>5, <3>2, PlaceKept
    <3> QED BY <3>1, <3>2
  <2> QED BY <2>1, <2>2
<1>6. ASSUME NEW A, Die(A) PROVE FilesInv' /\ \A b \in Actors : Place(b)'
  BY <1>5, <1>6 DEF Die
<1>7. CASE LockDefault \/ UNCHANGED vars BY <1>5, <1>7 DEF LockDefault, locals, vars, files
<1>8. CASE UserDeletes
  <2>1. /\ \A b \in Actors : pc'[b] = "idle"
        /\ dbf' = None /\ idf' = idf /\ crf' = crf
    BY <1>8 DEF UserDeletes
  <2>2. FilesInv' BY <1>2, <2>1 DEF FilesInv, Sealed
  <2>3. \A b \in Actors : Place(b)' BY <2>1 DEF Place, Bootstraps
  <2> QED BY <2>2, <2>3
<1> QED BY <1>3, <1>4, <1>6, <1>7, <1>8 DEF Next, Step, DaemonDies, CtlDies

StoreInv == TypeOK /\ LocalInv /\ OwnerInv /\ FreshInv /\ SealInv

LEMMA StoreInductive == (Init => StoreInv) /\ (StoreInv /\ [Next]_vars => StoreInv')
<1>1. ASSUME Init PROVE StoreInv
  <2>1. TypeOK /\ LocalInv /\ OwnerInv
    BY <1>1 DEF Init, TypeOK, LocalInv, PCs, Owning, OwnerInv, Contention, Busy
  <2>2. FreshInv BY <1>1 DEF Init, FreshInv, Generated, Sealed
  <2>3. SealInv BY <1>1 DEF Init, SealInv, FilesInv, Place, Bootstraps, Sealed
  <2> QED BY <2>1, <2>2, <2>3 DEF StoreInv
<1>2. ASSUME StoreInv, [Next]_vars PROVE StoreInv'
  <2>1. TypeOK' /\ LocalInv' BY <1>2, TypeStep DEF StoreInv
  <2>2. OwnerInv' BY <1>2, OwnerStep DEF StoreInv
  <2>3. FreshInv' BY <1>2, FreshStep DEF StoreInv
  <2>4. SealInv' BY <1>2, <2>1, <2>2, SealStep DEF StoreInv
  <2> QED BY <2>1, <2>2, <2>3, <2>4 DEF StoreInv
<1> QED BY <1>1, <1>2

\* A database that kpxcd has opened, and that may hold the user's data, can be
\* opened again with a login password: at every point of a first login, of an
\* adoption or of an unlock, where any of them may fail or die, the identity and
\* the credential at the paths lead to its password; for any number of logins
\* and kpxcctl runs, unless two of them were writing at once.
THEOREM UsedDatabaseStaysUnlockable == Spec => []UsedStaysUnlockable
<1>1. StoreInv => UsedStaysUnlockable
  BY DEF StoreInv, SealInv, FilesInv, UsedStaysUnlockable
<1> QED BY <1>1, StoreInductive, PTL DEF Spec

-----------------------------------------------------------------------------
(* All of the files or none *)

NoFiles == idf = None /\ crf = None /\ dbf = None

\* The actor is at work on the files and will complete them.
Completes(a) ==
  /\ pc[a] \in Owning
  /\ a \in Ctls /\ pc[a] \in {"id1", "id2", "adopt", "check"} => dbf = None

\* Unless something failed, the files are complete or somebody completes them.
DoneInv ==
  ~contended /\ ~failed =>
    NoFiles \/ Unlockable \/ \E a \in Actors : Completes(a)

\* The steps of an actor at work.
LEMMA GoesOnCompleting ==
  ASSUME StoreInv, StoreInv', ~contended, ~failed', NEW a \in Actors,
         Continue(a), pc[a] \in Owning, NoFiles \/ Unlockable \/ Completes(a)
  PROVE  Unlockable' \/ Completes(a)'
<1> USE DEF locals, Goto
<1>1. TypeOK /\ TypeOK' /\ LocalInv /\ Place(a) /\ (pc[a] = "encode" => IsMine(a))
  BY DEF StoreInv, OwnerInv, SealInv
<1>2. Sealed(crf) => Sealed(idf) /\ idf.id = crf.id BY DEF StoreInv, SealInv, FilesInv
<1>3. CASE pc[a] = "encode"
  <2>1. EncodeDatabase(a)
    BY <1>3 DEF Continue, StatIdentity, StatCredential, StatDatabase, ReadIdentity,
       ReadCredential, CreateDatabase, CreateFails, TruncateIdentity, WriteIdentity,
       TruncateCredential, WriteCredential, WriteFails, OpenDatabase, AdoptLooks,
       LockDefaultInDaemon, LoadOrCreateIdentity, CopyAndRekey, CopyFails,
       CheckDestination, RenameCopy
  <2>2. /\ dbf' = [dbf EXCEPT !.ok = TRUE] /\ idf' = idf /\ crf' = crf
        /\ pc'[a] = AfterCreate(a) /\ dbf \in Database /\ dbf.pw = pw[a]
    BY <1>1, <1>3, <2>1 DEF EncodeDatabase, TypeOK, IsMine, Place, NewDb
  <2>3. CASE seen[a] = {}
    <3>1. a \notin Ctls BY <1>1, <1>3, StoreConstants DEF LocalInv
    <3> QED BY <2>2, <2>3, <3>1 DEF AfterCreate, Completes, Owning
  <2>4. CASE seen[a] # {}
    <3>1. dbf' \in Database /\ dbf'.ok /\ dbf'.pw = pw[a] BY <2>2 DEF Database
    <3>2. dbf' # None BY <3>1, NoFile
    <3>3. Sealed(crf) /\ crf.pw = pw[a] BY <1>1, <1>3, <2>4 DEF Place
    <3> QED BY <1>1, <1>2, <2>2, <3>1, <3>2, <3>3, OpensAfter DEF Sealed
  <2> QED BY <2>3, <2>4
<1>4. CASE pc[a] \in {"id1", "id2", "adopt", "check"}
  <2>1. \/ TruncateIdentity(a) \/ WriteIdentity(a)
        \/ CopyAndRekey(a) \/ CheckDestination(a)
    BY <1>4 DEF Continue, StatIdentity, StatCredential, StatDatabase, ReadIdentity,
       ReadCredential, CreateDatabase, EncodeDatabase, CreateFails,
       TruncateCredential, WriteCredential, WriteFails, OpenDatabase, AdoptLooks,
       LockDefaultInDaemon, LoadOrCreateIdentity, CopyFails, RenameCopy
  <2>2. dbf' = dbf
    BY <2>1 DEF TruncateIdentity, WriteIdentity, CopyAndRekey, CheckDestination, files
  <2>3. CASE Unlockable
    <3>1. crf # None BY <2>3 DEF Unlockable, OpensCredential
    <3>2. pc[a] \in {"adopt", "check"} BY <1>1, <1>4, <3>1 DEF Place
    <3>3. UNCHANGED files
      BY <2>1, <3>2 DEF TruncateIdentity, WriteIdentity, CopyAndRekey, CheckDestination
    <3> QED BY <2>3, <3>3
            DEF files, Unlockable, OpensIdentity, OpensCredential, OpensDatabase
  <2>4. CASE ~Unlockable
    <3>1. a \in Ctls => dbf = None BY <1>4, <2>4 DEF Completes, NoFiles
    <3>2. pc[a] = "check" => dbf = None BY <1>1, <3>1 DEF LocalInv
    <3>3. pc'[a] \in Owning
      BY <1>1, <2>1, <3>2 DEF TruncateIdentity, WriteIdentity, CopyAndRekey,
         CheckDestination, TypeOK, Owning
    <3> QED BY <2>2, <3>1, <3>3 DEF Completes
  <2> QED BY <2>3, <2>4
<1>5. CASE pc[a] \in {"rename", "cr1"}
  <2>1. RenameCopy(a) \/ TruncateCredential(a)
    BY <1>5 DEF Continue, StatIdentity, StatCredential, StatDatabase, ReadIdentity,
       ReadCredential, CreateDatabase, EncodeDatabase, CreateFails, TruncateIdentity,
       WriteIdentity, WriteCredential, WriteFails, OpenDatabase, AdoptLooks,
       LockDefaultInDaemon, LoadOrCreateIdentity, CopyAndRekey, CopyFails, CheckDestination
  <2>2. pc'[a] \in {"cr1", "cr2"} BY <1>1, <2>1 DEF RenameCopy, TruncateCredential, TypeOK
  <2> QED BY <2>2 DEF Completes, Owning
<1>6. CASE pc[a] = "cr2"
  <2>1. WriteCredential(a)
    BY <1>6 DEF Continue, StatIdentity, StatCredential, StatDatabase, ReadIdentity,
       ReadCredential, CreateDatabase, EncodeDatabase, CreateFails, TruncateIdentity,
       WriteIdentity, TruncateCredential, WriteFails, OpenDatabase, AdoptLooks,
       LockDefaultInDaemon, LoadOrCreateIdentity, CopyAndRekey, CopyFails,
       CheckDestination, RenameCopy
  <2>2. crf' = [id |-> id[a], pw |-> pw[a]] /\ idf' = idf /\ dbf' = dbf
    BY <2>1 DEF WriteCredential, SealedCredential
  <2>3. Sealed(idf) /\ idf.id = id[a] /\ dbf # None /\ dbf.pw = pw[a] /\ dbf.ok
    BY <1>1, <1>6 DEF Place, NewDb
  <2>4. Sealed(crf)' /\ crf'.pw = pw[a] /\ crf'.id = id[a]
    <3>1. id[a] \in Secrets /\ pw[a] \in Secrets BY <1>1, <1>6 DEF LocalInv
    <3>2. crf' \in Credential BY <2>2, <3>1 DEF Credential
    <3> QED BY <2>2, <3>2, NoFile DEF Sealed
  <2> QED BY <1>1, <2>2, <2>3, <2>4, OpensAfter DEF Sealed
<1> QED BY <1>3, <1>4, <1>5, <1>6 DEF Owning

\* The other steps of an actor, when the files are complete or absent.
LEMMA StartsCompleting ==
  ASSUME StoreInv, StoreInv', ~contended, NEW a \in Actors,
         Continue(a), pc[a] \notin Owning, NoFiles \/ Unlockable
  PROVE  NoFiles' \/ Unlockable' \/ Completes(a)'
<1> USE DEF locals, Goto
<1>1. TypeOK /\ TypeOK' /\ LocalInv /\ Place(a)
  BY DEF StoreInv, SealInv
<1>2. CASE UNCHANGED files
  BY <1>2 DEF files, NoFiles, Unlockable, OpensIdentity, OpensCredential, OpensDatabase
<1>3. CASE CreateDatabase(a) /\ MayCreate
  <2>1. a \notin Ctls /\ pc'[a] = "encode"
    BY <1>1, <1>3, StoreConstants DEF CreateDatabase, LocalInv, TypeOK, MayCreate
  <2> QED BY <2>1 DEF Completes, Owning
<1>4. CASE OpenDatabase(a) /\ OpensDatabase(pw[a])
  <2>1. idf' = idf /\ crf' = crf /\ dbf' = [dbf EXCEPT !.used = TRUE] /\ pc[a] = "open"
    BY <1>4 DEF OpenDatabase
  <2>2. dbf # None /\ dbf \in Database /\ dbf.ok BY <1>1, <1>4 DEF OpensDatabase, TypeOK
  <2>3. dbf' # None /\ dbf'.ok /\ dbf'.pw = dbf.pw
    <3>1. dbf' \in Database BY <2>1, <2>2 DEF Database
    <3>2. dbf' # None BY <3>1, NoFile
    <3> QED BY <2>1, <2>2, <3>2 DEF Database
  <2>4. Unlockable BY <1>1, <1>4, <2>1 DEF Place
  <2> QED BY <2>1, <2>3, <2>4 DEF Unlockable, OpensIdentity, OpensCredential, OpensDatabase
<1>5. CASE CreateDatabase(a) /\ ~MayCreate
  BY <1>2, <1>5 DEF CreateDatabase, files
<1>6. CASE OpenDatabase(a) /\ ~OpensDatabase(pw[a])
  BY <1>2, <1>6 DEF OpenDatabase, files
<1>7. CASE ~CreateDatabase(a) /\ ~OpenDatabase(a)
  <2>1. UNCHANGED files
    BY <1>7 DEF Continue, StatIdentity, StatCredential, StatDatabase, ReadIdentity,
       ReadCredential, EncodeDatabase, CreateFails, TruncateIdentity, WriteIdentity,
       TruncateCredential, WriteCredential, WriteFails, AdoptLooks,
       LockDefaultInDaemon, LoadOrCreateIdentity, CopyAndRekey, CopyFails,
       CheckDestination, RenameCopy, Owning
  <2> QED BY <1>2, <2>1
<1> QED BY <1>3, <1>4, <1>5, <1>6, <1>7

\* Nobody disturbs the one that completes the files without contention.
LEMMA OthersLetComplete ==
  ASSUME StoreInv, StoreInv', ~contended, ~contended', NEW a \in Actors, NEW b \in Actors,
         a # b, Continue(a), Completes(b)
  PROVE  Completes(b)'
<1> USE DEF locals, Goto
<1>1. TypeOK /\ LocalInv /\ ~Contention /\ ~Contention' BY DEF StoreInv, OwnerInv
<1>2. pc'[b] = pc[b] BY <1>1, EncodesWhatItCreated
<1>3. ~Busy(a) /\ ~Busy(a)' BY <1>1, <1>2 DEF Contention, Busy, Completes
<1>4. pc[a] \notin Owning /\ pc'[a] # "encode" BY <1>3 DEF Busy, Owning
<1>5. dbf' = dbf \/ dbf # None
  BY <1>1, <1>4 DEF Continue, StatIdentity, StatCredential, StatDatabase, ReadIdentity,
     ReadCredential, CreateDatabase, MayCreate, EncodeDatabase, CreateFails,
     TruncateIdentity, WriteIdentity, TruncateCredential, WriteCredential,
     WriteFails, OpenDatabase, OpensDatabase, AdoptLooks, LockDefaultInDaemon,
     LoadOrCreateIdentity, CopyAndRekey, CopyFails, CheckDestination, RenameCopy,
     Owning, files, TypeOK
<1> QED BY <1>2, <1>5 DEF Completes

\* Every step keeps it.
LEMMA DoneStep ==
  StoreInv /\ StoreInv' /\ DoneInv /\ [Next]_vars => DoneInv'
<1> SUFFICES ASSUME StoreInv, StoreInv', DoneInv, [Next]_vars, ~contended', ~failed'
             PROVE  NoFiles' \/ Unlockable' \/ \E a \in Actors : Completes(a)'
  BY DEF DoneInv
<1>1. ASSUME NEW a \in Actors, Continue(a), ~contended
      PROVE  NoFiles' \/ Unlockable' \/ \E b \in Actors : Completes(b)'
  <2>1. ~failed
    BY <1>1 DEF Continue, StatIdentity, StatCredential, StatDatabase, ReadIdentity,
       ReadCredential, CreateDatabase, EncodeDatabase, CreateFails,
       TruncateIdentity, WriteIdentity, TruncateCredential, WriteCredential,
       WriteFails, OpenDatabase, AdoptLooks, LockDefaultInDaemon,
       LoadOrCreateIdentity, CopyAndRekey, CopyFails, CheckDestination, RenameCopy
  <2>2. NoFiles \/ Unlockable \/ \E b \in Actors : Completes(b) BY <1>1, <2>1 DEF DoneInv
  <2>3. CASE \E b \in Actors : b # a /\ Completes(b)
    BY <1>1, <2>3, OthersLetComplete
  <2>4. CASE pc[a] \in Owning /\ (NoFiles \/ Unlockable \/ Completes(a))
    BY <1>1, <2>4, GoesOnCompleting
  <2>5. CASE pc[a] \notin Owning /\ (NoFiles \/ Unlockable)
    BY <1>1, <2>5, StartsCompleting
  <2> QED BY <2>2, <2>3, <2>4, <2>5 DEF Completes
<1>2. ASSUME UNCHANGED files, failed' = failed, ~contended,
             \A b \in Actors : pc[b] \in Owning => pc'[b] = pc[b]
      PROVE  NoFiles' \/ Unlockable' \/ \E b \in Actors : Completes(b)'
  BY <1>2 DEF DoneInv, files, NoFiles, Unlockable, OpensIdentity, OpensCredential,
     OpensDatabase, Completes
<1>3. ASSUME NEW a \in Actors, Start(a), ~contended
      PROVE  NoFiles' \/ Unlockable' \/ \E b \in Actors : Completes(b)'
  <2>1. UNCHANGED files /\ failed' = failed
    BY <1>3 DEF Start, HandleConn, CtlUnlock, AdoptDefault
  <2>2. \A b \in Actors : pc[b] \in Owning => pc'[b] = pc[b]
    BY <1>3 DEF Start, HandleConn, CtlUnlock, AdoptDefault, Goto, Owning, StoreInv, TypeOK
  <2> QED BY <1>2, <1>3, <2>1, <2>2
<1>4. CASE (LockDefault \/ UNCHANGED vars) /\ ~contended
  BY <1>2, <1>4 DEF LockDefault, vars, files
<1>5. ~UserDeletes /\ ~DaemonDies /\ ~(\E a \in Actors : CtlDies(a))
  BY DEF UserDeletes, DaemonDies, CtlDies, Die
<1>6. ~contended BY <1>5 DEF Next, vars
<1> QED BY <1>1, <1>3, <1>4, <1>5, <1>6 DEF Next, Step

\* A first login or an adoption that goes through leaves all three files, and
\* they belong together, or leaves none: whoever has begun to write them also
\* completes them, although another program may find them incomplete meanwhile;
\* for any number of logins and kpxcctl runs, unless a call failed, a program
\* died or two were writing at once.
THEOREM FilesAllOrNone == Spec => []AllOrNothing
<1> DEFINE Inv == StoreInv /\ DoneInv
<1>1. Init => Inv BY StoreInductive DEF Init, DoneInv, NoFiles
<1>2. Inv /\ [Next]_vars => Inv' BY StoreInductive, DoneStep
<1>3. Inv => AllOrNothing BY DEF DoneInv, AllOrNothing, NoFiles, Completes, Owning
<1> QED BY <1>1, <1>2, <1>3, PTL DEF Spec
=============================================================================
