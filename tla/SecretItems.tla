---------------------------- MODULE SecretItems ----------------------------
(***************************************************************************)
(* Reading and writing the secrets of one open database through the Secret *)
(* Service: Item.GetSecret, Item.SetSecret and Item.Delete                 *)
(* (internal/secretservice/item.go), Service.GetSecrets, OpenSession and   *)
(* the prompts (service.go, prompt.go), and the confirmation policy        *)
(* (access.go), which asks polkit and waits without a lock.                *)
(*                                                                         *)
(* An Item caches a copy of its Entry.  The copy shares the array of       *)
(* values with the tree in memory, here a cell: what a save, a wipe or an  *)
(* update does to the tree's cell shows in the copy, and a copy whose cell *)
(* has left the tree is reached by none of them.                           *)
(***************************************************************************)
EXTENDS Naturals, Sequences, FiniteSets

CONSTANTS
  Callers,   \* goroutines of D-Bus method calls
  Uuids,     \* entry UUIDs
  Cells,     \* arrays of values in memory
  Items,     \* exported Item objects
  Values,    \* passwords
  Empty,     \* the empty string
  Garbage,   \* bytes that are no password: stream-encrypted or torn
  Sids,      \* session paths
  Prompts,   \* prompt objects
  MaxRead,   \* number of paths given to GetSecrets
  MaxCalls,  \* bound on the calls clients make on a prompt
  None

ASSUME ItemConstants ==
  /\ Empty \notin Values /\ Garbage \notin Values \cup {Empty}
  /\ None \notin Uuids \cup Cells \cup Items \cup Callers \cup Values
  /\ Items \cap Callers = {}
  /\ Sids # {} /\ MaxRead \in Nat \ {0} /\ MaxCalls \in Nat

VARIABLES
  open,      \* OpenDatabase.Db is not nil
  tree,      \* tree[u]: the cell of the visible entry u, or None
  plain,     \* plain[k]: the password in cell k
  writer,    \* the goroutine that holds the write lock, or None
  backup,    \* UpdateAndSave's clone: the passwords before the update
  unused,    \* UUIDs no entry has had
  obj,       \* obj[i]: UUID and cached cell of an Item object
  at,        \* at[u]: the Item exported at the path of entry u, or None
  confirm,   \* SecretServiceConfig.RequireConfirmation
  sessions,  \* keys of the map of sessions
  call,      \* call[c]: the method call c is in, with its arguments and locals
  prompt,    \* prompt[p]: state of a prompt object
  down,      \* the process has crashed
  committed, \* history: the password each entry has outside of an update
  hist       \* history: what happened during each call

treeVars == <<open, tree, plain, writer, backup, unused, committed>>
itemVars == <<obj, at>>
svcVars == <<confirm, sessions, prompt, down>>
vars == <<treeVars, itemVars, call, svcVars, hist>>

\* Exported items, and the items of calls of GetSecrets.
Objects == Items \cup Callers
NoItem == [uuid |-> None, cell |-> None]

\* An update under way excludes every reader that takes the lock.
Readable == writer = None

Live == {tree[u] : u \in Uuids} \ {None}

-----------------------------------------------------------------------------
(* Steps shared by the methods *)

\* A goroutine between two calls.
Idle == [pc |-> "idle", op |-> "none", item |-> None, todo |-> <<>>, sid |-> None,
         new |-> None, granted |-> FALSE, served |-> {}]

At(c, l) == call[c].pc = l

Start(c, l, o, i) ==
  /\ At(c, "idle")
  /\ call' = [call EXCEPT ![c] = [Idle EXCEPT !.pc = l, !.op = o, !.item = i]]

Goto(c, l) == call' = [call EXCEPT ![c] = IF l = "idle" THEN Idle ELSE [@ EXCEPT !.pc = l]]

\* refresh, under the read lock: the cached entry becomes the tree's, or an
\* empty one if the tree has none; a locked database leaves it as it is.
Refreshed(i) == IF open THEN [obj EXCEPT ![i].cell = tree[obj[i].uuid]] ELSE obj

Found(i) == open /\ tree[obj[i].uuid] # None

\* The call's first refresh: "item no longer exists" ends it.
Refresh(c) ==
  /\ At(c, "refresh") /\ Readable
  /\ obj' = Refreshed(call[c].item)
  /\ Goto(c, IF ~Found(call[c].item) THEN "idle"
             ELSE IF call[c].op = "get" THEN "auth" ELSE "write")
  /\ UNCHANGED <<treeVars, at, svcVars>>

\* GetSecret looks the session up after the authorisation, GetSecrets before.
Authorised(c) == IF call[c].op = "get" THEN "session" ELSE "read"

Authorise_OncePerCall(c) ==
  /\ At(c, "auth")
  /\ \A d \in Callers : ~At(d, "store")
  /\ \/ (~confirm \/ Len(call[c].todo) < MaxRead - 1) /\ Goto(c, Authorised(c))
     \/ confirm /\ Goto(c, "label")
     \/ confirm /\ Goto(c, "refused")
  /\ UNCHANGED <<treeVars, itemVars, svcVars>>

\* authorizeSecretAccess: a snapshot of the configuration decides; a caller
\* without a process is refused.
Authorise(c) ==
  /\ At(c, "auth")
  /\ \A d \in Callers : ~At(d, "store")
  /\ \/ ~confirm /\ Goto(c, Authorised(c))
     \/ confirm /\ Goto(c, "label")
     \/ confirm /\ Goto(c, "refused")
  /\ UNCHANGED <<treeVars, itemVars, svcVars>>

AfterLabel == [label |-> "polkit", refused |-> "idle", log |-> "idle", logNext |-> "next"]

\* Label, called for the log before polkit is asked, after a refusal and
\* after the secret has been read, refreshes the item and ignores the result.
Label(c) ==
  /\ call[c].pc \in DOMAIN AfterLabel /\ Readable
  /\ IF AfterLabel[call[c].pc] = "idle"
       THEN /\ obj' = [Refreshed(call[c].item) EXCEPT ![c] = NoItem]
            /\ Goto(c, "idle")
       ELSE /\ obj' = Refreshed(call[c].item)
            /\ call' = [call EXCEPT ![c].pc = AfterLabel[@], ![c].served = {}]
  /\ UNCHANGED <<treeVars, at, svcVars>>

\* checkPolkitAuthorization: the user answers, or polkit is not there.
Polkit(c) ==
  /\ At(c, "polkit")
  /\ \/ call' = [call EXCEPT ![c].granted = TRUE, ![c].pc = Authorised(c)]
     \/ Goto(c, "refused")
  /\ UNCHANGED <<treeVars, itemVars, svcVars>>

AfterSession == [get |-> "read", gets |-> "next", set |-> "refresh"]

\* The session is looked up under sessionsMu.  Sessions are never closed:
\* Session.Close is not exported.
LookupSession(c) ==
  /\ At(c, "session")
  /\ Goto(c, IF call[c].sid \in sessions THEN AfterSession[call[c].op] ELSE "idle")
  /\ UNCHANGED <<treeVars, itemVars, svcVars>>

\* What GetPassword returns without the lock: during an update the array is
\* written to, and converted to its stream-encrypted form and back.
Unlocked(k) ==
  IF k = None THEN {Empty}
  ELSE {plain[k]} \cup IF writer # None /\ k \in Live THEN {Garbage} ELSE {}

MayRead_Unlocked(c) == TRUE

\* Only GetSecrets takes the read lock to read the password.
MayRead(c) == call[c].op = "gets" => Readable

Read(c) ==
  LET i == call[c].item IN
  /\ At(c, "read") /\ MayRead(c)
  /\ \E v \in Unlocked(obj[i].cell) :
       call' = [call EXCEPT
         ![c].served = {[value |-> v, confirmed |-> call[c].granted, locked |-> ~open]},
         ![c].pc = IF call[c].op = "get" THEN "log" ELSE "logNext"]
  /\ UNCHANGED <<treeVars, itemVars, svcVars>>

-----------------------------------------------------------------------------
(* Item.GetSecret and Service.GetSecrets *)

GetSecret(c, u, s) ==
  /\ At(c, "idle") /\ at[u] # None
  /\ call' = [call EXCEPT ![c] =
       [Idle EXCEPT !.pc = "refresh", !.op = "get", !.item = at[u], !.sid = s]]
  /\ UNCHANGED <<treeVars, itemVars, svcVars>>

GetSecrets(c, us, s) ==
  /\ At(c, "idle")
  /\ call' = [call EXCEPT ![c] =
       [Idle EXCEPT !.pc = "session", !.op = "gets", !.item = c, !.sid = s, !.todo = us]]
  /\ UNCHANGED <<treeVars, itemVars, svcVars>>

\* getItemByPath makes a new Item for the next path; a path of no entry is
\* skipped.
NextItem(c) ==
  /\ At(c, "next") /\ Readable
  /\ IF call[c].todo = <<>>
       THEN Goto(c, "idle") /\ obj' = [obj EXCEPT ![c] = NoItem]
       ELSE LET u == Head(call[c].todo)
                found == open /\ tree[u] # None IN
            /\ call' = [call EXCEPT ![c].todo = Tail(@), ![c].granted = FALSE,
                                    ![c].pc = IF found THEN "auth" ELSE "next"]
            /\ obj' = IF found THEN [obj EXCEPT ![c] = [uuid |-> u, cell |-> tree[u]]]
                      ELSE obj
  /\ UNCHANGED <<treeVars, at, svcVars>>

-----------------------------------------------------------------------------
(* Item.SetSecret and Item.Delete, and UpdateAndSave *)

SetSecret(c, u, s, v) ==
  /\ At(c, "idle") /\ at[u] # None
  /\ call' = [call EXCEPT ![c] =
       [Idle EXCEPT !.pc = "session", !.op = "set", !.item = at[u], !.sid = s, !.new = v]]
  /\ UNCHANGED <<treeVars, itemVars, svcVars>>

Delete(c, u) ==
  /\ at[u] # None
  /\ Start(c, "refresh", "delete", at[u])
  /\ UNCHANGED <<treeVars, itemVars, svcVars>>

Passwords(t, p) == [u \in Uuids |-> IF t[u] = None THEN None ELSE p[t[u]]]

Update_AlwaysSet(c, u) ==
  plain' = [plain EXCEPT ![tree[u]] = call[c].new] /\ UNCHANGED tree

\* The callbacks of SetSecret and Delete.
Update(c, u) ==
  IF call[c].op = "set"
    THEN plain' = [plain EXCEPT ![tree[u]] = call[c].new] /\ UNCHANGED tree
    ELSE tree' = [tree EXCEPT ![u] = None] /\ UNCHANGED plain

\* UpdateAndSave: the write lock, the clone, the update in place; a database
\* that is locked, a file that changed and an entry that is gone are errors
\* that leave everything as it is.
BeginUpdate(c) ==
  LET u == obj[call[c].item].uuid IN
  /\ At(c, "write") /\ Readable
  /\ \/ Goto(c, "idle") /\ UNCHANGED <<tree, plain, writer, backup>>
     \/ /\ open /\ tree[u] # None
        /\ writer' = c
        /\ backup' = Passwords(tree, plain)
        /\ Update(c, u)
        /\ Goto(c, "saving")
  /\ UNCHANGED <<open, unused, committed, itemVars, svcVars>>

NoBackup == [u \in Uuids |-> None]

\* saveLocked succeeds.
SaveDone(c) ==
  /\ At(c, "saving")
  /\ writer' = None /\ backup' = NoBackup
  /\ committed' = Passwords(tree, plain)
  /\ Goto(c, IF call[c].op = "set" THEN "log" ELSE "unexport")
  /\ UNCHANGED <<open, tree, plain, unused, itemVars, svcVars>>

\* Cells that neither the tree nor an item refers to.
FreshCells == Cells \ (Live \cup {obj[i].cell : i \in Objects})

Bijections(S, T) == {f \in [S -> T] : {f[s] : s \in S} = T}

\* saveLocked fails: the clone becomes the tree.  Entry.Clone gave its entries
\* new UUIDs and arrays of their own; the old arrays keep the new password.
SaveFails(c) ==
  LET old == {u \in Uuids : backup[u] # None} n == Cardinality(old) IN
  /\ At(c, "saving")
  /\ \E us \in {s \in SUBSET unused : Cardinality(s) = n},
        ks \in {s \in SUBSET FreshCells : Cardinality(s) = n} :
       \E f \in Bijections(us, old), g \in Bijections(ks, us) :
         /\ tree' = [u \in Uuids |->
              IF u \in us THEN CHOOSE k \in ks : g[k] = u ELSE None]
         /\ plain' = [k \in Cells |-> IF k \in ks THEN backup[f[g[k]]] ELSE plain[k]]
         /\ unused' = unused \ us
  /\ writer' = None /\ backup' = NoBackup
  /\ committed' = Passwords(tree', plain')
  /\ Goto(c, "idle")
  /\ UNCHANGED <<open, itemVars, svcVars>>

\* The end of Delete: the path is no longer exported.
Unexport(c) ==
  /\ At(c, "unexport")
  /\ at' = [at EXCEPT ![obj[call[c].item].uuid] = None]
  /\ Goto(c, "idle")
  /\ UNCHANGED <<treeVars, obj, svcVars>>

-----------------------------------------------------------------------------
(* The rest of the daemon *)

wipeDatabase_None == plain

\* wipeDatabase: the arrays of the tree are emptied.
wipeDatabase == [k \in Cells |-> IF k \in Live THEN Empty ELSE plain[k]]

\* DatabasePool.Lock, called by SecretService.Lock and others.
LockDatabase ==
  /\ open /\ Readable
  /\ open' = FALSE
  /\ plain' = wipeDatabase
  /\ UNCHANGED <<tree, writer, backup, unused, committed, itemVars, call, svcVars>>

\* exportItemsForCollection, after a Reloaded event: a new Item object for an
\* entry takes the place of the one at its path.
ExportItem(i, u) ==
  /\ open /\ Readable /\ tree[u] # None
  /\ obj[i] = NoItem
  /\ obj' = [obj EXCEPT ![i] = [uuid |-> u, cell |-> tree[u]]]
  /\ at' = [at EXCEPT ![u] = i]
  /\ UNCHANGED <<treeVars, call, svcVars>>

\* UpdateConfig, after SIGHUP.
UpdateConfig ==
  /\ \A c \in Callers : ~At(c, "store")
  /\ confirm' = ~confirm
  /\ UNCHANGED <<treeVars, itemVars, call, sessions, prompt, down>>

\* OpenSession: the map is written under ss.mu.
OpenSession(c, s) ==
  /\ \A d \in Callers : ~At(d, "store")
  /\ At(c, "idle") /\ s \notin sessions
  /\ call' = [call EXCEPT ![c] = [Idle EXCEPT !.pc = "store", !.sid = s]]
  /\ UNCHANGED <<treeVars, itemVars, svcVars>>

StoreSession(c) ==
  /\ At(c, "store")
  /\ sessions' = sessions \cup {call[c].sid}
  /\ Goto(c, "idle")
  /\ UNCHANGED <<treeVars, itemVars, confirm, prompt, down>>

\* A goroutine writes the map of sessions while another reads it.
MapRace == \E c, d \in Callers : At(c, "store") /\ At(d, "session")

\* Go's runtime may notice, and ends the process.
ConcurrentMapAccess ==
  /\ MapRace
  /\ down' = TRUE
  /\ UNCHANGED <<treeVars, itemVars, call, confirm, sessions, prompt>>

\* nextPrompt, for Lock and for the Unlock of a collection that is locked.  A
\* prompt shares no state with the calls above, so it is enough to have one
\* made while none of them is in progress.
nextPrompt(p) ==
  /\ ~prompt[p].made /\ ~open
  /\ \A c \in Callers : At(c, "idle")
  /\ prompt' = [prompt EXCEPT ![p].made = TRUE]
  /\ UNCHANGED <<treeVars, itemVars, call, confirm, sessions, down>>

\* Prompt, in a goroutine of its own, and Dismiss: set dismissed, send
\* Completed, close the channel.  A client makes at most MaxCalls calls.
CallPrompt(c, p, dismiss) ==
  /\ prompt[p].made /\ Len(prompt[p].calls) < MaxCalls
  /\ Start(c, IF dismiss THEN "emitTrue" ELSE "emit", "prompt", p)
  /\ prompt' = [prompt EXCEPT ![p].dismissed = dismiss,
                              ![p].calls = Append(@, dismiss)]
  /\ UNCHANGED <<treeVars, itemVars, confirm, sessions, down>>

Reported_Accepted(c, p) == FALSE

\* Prompt sends the field, Dismiss the constant.
Reported(c, p) == At(c, "emitTrue") \/ prompt[p].dismissed

\* An Emit that fails is logged only: the channel is closed all the same, and
\* so it is when the prompt has no connection.
EmitCompleted(c) ==
  /\ call[c].pc \in {"emit", "emitTrue"}
  /\ LET p == call[c].item IN
       \/ prompt' = [prompt EXCEPT ![p].signals = Append(@, Reported(c, p))]
       \/ prompt' = [prompt EXCEPT ![p].unsent = TRUE]
  /\ Goto(c, "close")
  /\ UNCHANGED <<treeVars, itemVars, confirm, sessions, down>>

\* Closing the channel a second time panics.
ClosePrompt(c) ==
  /\ At(c, "close")
  /\ down' = prompt[call[c].item].closed
  /\ prompt' = [prompt EXCEPT ![call[c].item].closed = TRUE]
  /\ Goto(c, "idle")
  /\ UNCHANGED <<treeVars, itemVars, confirm, sessions>>

-----------------------------------------------------------------------------
Blank == [seen |-> {}, off |-> FALSE, wrote |-> FALSE, locked |-> FALSE, left |-> FALSE]

Reading(c) == call[c].op \in {"get", "gets"} /\ obj[call[c].item].uuid # None

\* What a call that reads a secret has lived through since it took up the
\* entry: the passwords the entry had, confirmation being off, an update, a
\* lock, a cell that left the tree.
Observe ==
  hist' = [c \in Callers |->
    IF ~Reading(c)' \/ At(c, "next") \/ At(c, "idle") THEN Blank
    ELSE [seen |-> hist[c].seen \cup {committed[obj[call[c].item].uuid]'},
          off |-> hist[c].off \/ ~confirm',
          wrote |-> hist[c].wrote \/ writer' # None,
          locked |-> hist[c].locked \/ ~open',
          left |-> hist[c].left \/ Live \ {tree'[u] : u \in Uuids} # {}]]

Init ==
  /\ open = TRUE
  /\ \E u \in Uuids, k \in Cells, i \in Items, v \in Values :
       /\ tree = [w \in Uuids |-> IF w = u THEN k ELSE None]
       /\ plain = [l \in Cells |-> IF l = k THEN v ELSE Empty]
       /\ unused = Uuids \ {u}
       /\ committed = [w \in Uuids |-> IF w = u THEN v ELSE None]
       /\ obj = [j \in Objects |-> IF j = i THEN [uuid |-> u, cell |-> k]
                                   ELSE NoItem]
       /\ at = [w \in Uuids |-> IF w = u THEN i ELSE None]
  /\ writer = None /\ backup = NoBackup
  /\ confirm \in BOOLEAN
  /\ sessions \in {{}, {CHOOSE s \in Sids : TRUE}}
  /\ call = [c \in Callers |-> Idle]
  /\ prompt = [p \in Prompts |-> [made |-> FALSE, dismissed |-> FALSE, calls |-> <<>>,
                                  signals |-> <<>>, unsent |-> FALSE, closed |-> FALSE]]
  /\ down = FALSE
  /\ hist = [c \in Callers |-> Blank]

CallStep(c) ==
  \/ Refresh(c) \/ Authorise(c) \/ Label(c) \/ Polkit(c) \/ LookupSession(c)
  \/ Read(c) \/ NextItem(c) \/ BeginUpdate(c) \/ SaveDone(c) \/ SaveFails(c)
  \/ Unexport(c) \/ StoreSession(c) \/ EmitCompleted(c) \/ ClosePrompt(c)

Call(c) ==
  \/ \E u \in Uuids, s \in Sids : GetSecret(c, u, s)
  \/ \E us \in [1..MaxRead -> Uuids], s \in Sids : GetSecrets(c, us, s)
  \/ \E u \in Uuids, s \in Sids, v \in Values : SetSecret(c, u, s, v)
  \/ \E u \in Uuids : Delete(c, u)
  \/ \E s \in Sids : OpenSession(c, s)
  \/ \E p \in Prompts, d \in BOOLEAN : CallPrompt(c, p, d)

Environment ==
  \/ LockDatabase \/ UpdateConfig \/ ConcurrentMapAccess
  \/ \E i \in Items, u \in Uuids : ExportItem(i, u)
  \/ \E p \in Prompts : nextPrompt(p)

Next ==
  /\ ~down
  /\ Environment \/ \E c \in Callers : CallStep(c) \/ Call(c)
  /\ Observe

Spec == Init /\ [][Next]_vars

-----------------------------------------------------------------------------
(* Properties *)

Cell == Cells \cup {None}
Password == Values \cup {Empty, None}
Pcs == {"idle", "refresh", "auth", "label", "polkit", "refused", "session", "read", "log",
        "logNext", "next", "write", "saving", "unexport", "store", "emit", "emitTrue",
        "close"}

\* Every variable holds a value of its type.
TypeOK ==
  /\ open \in BOOLEAN /\ confirm \in BOOLEAN /\ down \in BOOLEAN
  /\ tree \in [Uuids -> Cell]
  /\ plain \in [Cells -> Values \cup {Empty}]
  /\ writer \in Callers \cup {None}
  /\ backup \in [Uuids -> Password] /\ committed \in [Uuids -> Password]
  /\ unused \subseteq Uuids
  /\ obj \in [Objects -> [uuid : Uuids \cup {None}, cell : Cell]]
  /\ at \in [Uuids -> Items \cup {None}]
  /\ sessions \subseteq Sids
  /\ \A c \in Callers : call[c].pc \in Pcs
  /\ \A p \in Prompts : prompt[p].closed \in BOOLEAN

\* item.go:175, "GetSecret returns the encrypted secret for this entry": what
\* a call serves is a password its entry had during the call.  The exceptions
\* are those of code that reads a shared array late: garbage, only without the
\* lock and during an update; the empty string, after a lock or when the entry
\* was replaced; a password that was never saved, without the lock during an
\* update or from an array that a failed save left behind.
ServedSecret ==
  \A c \in Callers : \A r \in call[c].served :
    LET h == hist[c] get == call[c].op = "get" IN
    \/ r.value \in h.seen
    \/ r.value = Garbage /\ get /\ h.wrote
    \/ r.value = Empty /\ (h.locked \/ h.left)
    \/ r.value \in Values /\ h.wrote /\ (get \/ h.left)

\* A secret read after the database was locked has been wiped, unless its
\* array left the tree while the call was waiting: Lock does not reach those.
NothingAfterLock ==
  \A c \in Callers : \A r \in call[c].served :
    r.locked => r.value = Empty \/ hist[c].left

\* doc/config.md, require_confirmation: every single secret served was
\* confirmed by the user, unless confirmation was off at some time of the call.
ConfirmedUnlessOff ==
  \A c \in Callers : \A r \in call[c].served : r.confirmed \/ hist[c].off

\* A prompt is reported dismissed only if a client dismissed it and accepted
\* only if a client asked for it.  Once its channel is closed a signal was sent,
\* unless an Emit failed: then a client may wait in vain.  A prompt does not
\* outlive a second call, even one that came after the first had ended: with
\* the last of the calls the process dies.  It dies of nothing else here but
\* the race on the map of sessions.
PromptReport ==
  /\ down => MapRace \/ \E p \in Prompts : Len(prompt[p].calls) > 1
  /\ \A p \in Prompts : LET q == prompt[p] IN
    /\ \A i \in DOMAIN q.signals : \E j \in DOMAIN q.calls : q.calls[j] = q.signals[i]
    /\ q.closed => q.signals # <<>> \/ q.unsent
    /\ (\A c \in Callers : call[c].item # p) =>
         /\ q.calls # <<>> => q.closed
         /\ Len(q.calls) > 1 => down
=============================================================================
