------------------------------ MODULE KdbxTree ------------------------------
(***************************************************************************)
(* The content of one unlocked database and the methods that change it:    *)
(* CreateItem, SetSecret, Delete and the properties of the Secret Service  *)
(* (internal/secretservice: collection.go, write.go, item.go,              *)
(* introspect.go), SshGenerateKey and SshImportKey of the D-Bus API        *)
(* (internal/dbusapi/dbusapi.go), and what the readers of the tree make of *)
(* it: which entries are shown (attributes.go, dbpool/pool.go) and which   *)
(* SSH keys are served (sshagent/keeagent.go).  Every change goes through  *)
(* UpdateAndSave (dbpool/save.go), whose rollback restores a clone of the  *)
(* groups but not the attachments, which the encoder has renumbered.       *)
(*                                                                         *)
(* Groups are numbered in document order; an entry is a slot.  UUIDs are   *)
(* new after every rollback: root.gen counts them.                         *)
(***************************************************************************)
EXTENDS Naturals, SequencesExt

CONSTANTS
  Slots,         \* entries, 1..n
  Cost,          \* Cost[p]: what a version with password p adds to the history's size
  Titles,        \* labels and paths that clients give
  Attrs,         \* sets of attributes that clients give
  PrivateKeys,   \* private keys that are generated or imported
  DefaultItems,  \* 10, used when the database has no limit of its own
  DefaultSize,   \* 6 MiB
  MaxOps,        \* bound on the number of updates
  MaxFailures    \* bound on the number of saves that fail

\* The empty string: what is not given or not there.  The other strings stand
\* for the code's: "no_entry" is no title it uses, "Recycle_Bin" has a space,
\* "custom_application" and "kpxcd_dbname" have a colon.
Empty == ""

\* The values of an entry: "application" stands for every key without a meaning
\* of its own.  A value of the entry, or of an attribute, is not empty.
Keys == {"Title", "UserName", "URL", "Notes", "Password", "application",
         "username", "url", "custom_application"}

\* Attributes that name the database; ThisDb is the name and the UUID of it.
DbKeys == {"kpxcd_dbname", "kpxcd_dbuuid"}
ThisDb == "this_db"

Passwords == DOMAIN Cost \ {Empty}

\* The content of an attachment "KeeAgent.settings" that names id_rsa.
UseRsa == "settings_for_id_rsa"

ASSUME TreeConstants ==
  /\ Slots \subseteq Nat \ {0} /\ {1, 2} \subseteq Slots
  /\ {DefaultItems, DefaultSize, MaxOps, MaxFailures} \subseteq Nat
  /\ DefaultItems > 0 /\ Empty \in DOMAIN Cost /\ Passwords # {}
  /\ {Empty, UseRsa} \cap PrivateKeys = {} /\ Empty \notin Titles
  /\ \A a \in Attrs :
       /\ DOMAIN a \subseteq Keys \cup DbKeys \cup {"title"}
       /\ ~({"title", "Title"} \subseteq DOMAIN a)  \* the order of a map decides
       /\ \A k \in DOMAIN a : a[k] \in IF k = "Password" THEN Passwords
                                     ELSE IF k \in DbKeys THEN Titles \cup {ThisDb}
                                     ELSE Titles

VARIABLES
  root,      \* Content.Root: groups, the entries in each, the entries themselves
  binaries,  \* InnerHeader.Binaries: the attachments; an ID is a position
  meta,      \* Content.Meta: limits of the history and how the bin is marked
  expose,    \* secret_service_expose_group: "none", by "name" or by "uuid"
  shifted,   \* history: a save failed after its update had dropped an attachment
  ops        \* number of updates

vars == <<root, binaries, meta, expose, shifted, ops>>

\* The groups of the file: the exposed group has a subgroup, and the bin holds
\* a deleted group of the same name.  kpxcd adds the group "Secret Service".
Web == 2
WebSub == 3
Bin == 4
Groups0(b) == <<[name |-> "Root", kids |-> <<Web, Bin>>],
                [name |-> "Web", kids |-> <<WebSub>>],
                [name |-> "Sub", kids |-> <<>>],
                [name |-> IF b = "name" THEN "Recycle_Bin" ELSE "Trash", kids |-> <<5>>],
                [name |-> "Web", kids |-> <<>>]>>

AllGroups(r) == 1..Len(r.groups)
FirstOf(seq) == IF seq = <<>> THEN 0 ELSE Head(seq)

\* Attachment names in the order of Entry.Binaries.
Names == <<"KeeAgent.settings", "id_rsa", "ssh-key">>
Unattached == [id |-> 0, content |-> Empty]

\* An entry: its values by key, its attachments, its KeeAgent settings in
\* CustomData (Empty or the attachment they name), its history.  The content of
\* an attachment is what was attached, the ID is what the entry stores.
NewEntry == [values |-> [k \in Keys |-> Empty], settings |-> Empty, hist |-> <<>>,
             att |-> [n \in ToSet(Names) |-> Unattached]]
Titled(t) == [NewEntry EXCEPT !.values["Title"] = t]
NoEntry == Titled("no_entry")

Live(r) == UNION {ToSet(r.content[g]) : g \in AllGroups(r)}

-----------------------------------------------------------------------------
(* Who is shown: attributes.go, pool.go *)

IsRecycled_ByUuid(r, g) == meta.bin = "uuid" /\ g = Bin /\ r.gen = 0

IsRecycled(r, g) ==
  \/ r.groups[g].name = "Recycle_Bin"
  \/ meta.bin = "uuid" /\ g = Bin /\ r.gen = 0

\* The group has the configured name or UUID.
Wanted(r, g) ==
  \/ expose = "name" /\ r.groups[g].name = "Web"
  \/ expose = "uuid" /\ g = Web /\ r.gen = 0

\* The entries of the Secret Service, group by group.
collectEntriesVisible(r) ==
  LET into[g \in AllGroups(r), visible \in BOOLEAN] ==
        LET v == visible \/ Wanted(r, g) ks == r.groups[g].kids IN
        IF IsRecycled(r, g) THEN <<>>
        ELSE (IF v THEN r.content[g] ELSE <<>>)
             \o FlattenSeq([i \in DOMAIN ks |-> into[ks[i], v]])
  IN into[1, expose = "none"]

\* The entries of the D-Bus API.
RootEntries(r) ==
  LET from[g \in AllGroups(r)] ==
        LET ks == r.groups[g].kids IN
        IF IsRecycled(r, g) THEN <<>>
        ELSE r.content[g] \o FlattenSeq([i \in DOMAIN ks |-> from[ks[i]]])
  IN from[1]

HasPath(e, path) == path \in {e.values["Title"], e.values["UserName"]}

findEntryByPath(r, path) ==
  FirstOf(SelectSeq(RootEntries(r), LAMBDA s : HasPath(r.entry[s], path)))

\* strings.Contains on the texts of the model.
Within(part, t) == part = t \/ (part = "git" /\ t = "github")

\* Older versions stored these keys as a standard field.
Fallback == [username |-> "UserName", url |-> "URL"]

\* The value that an attribute is compared with.
Compared(e, k) ==
  e.values[IF k = "title" THEN "Title"
           ELSE IF k \in DOMAIN Fallback /\ e.values[k] = Empty THEN Fallback[k] ELSE k]

\* A search takes a part of these for the whole.
PartKeys == {"title", "URL", "Notes"}

\* A search takes the prefix "custom:" off a key.
MatchAttributes(e, attrs) ==
  \A k \in DOMAIN attrs :
    \/ k \in DbKeys /\ attrs[k] = ThisDb
    \/ k = "custom_application" /\ e.values["application"] = attrs[k]
    \/ k \in PartKeys /\ Within(attrs[k], Compared(e, k))
    \/ k \notin DbKeys \cup {"custom_application"} /\ Compared(e, k) = attrs[k]

SearchItems(r, attrs) ==
  SelectSeq(collectEntriesVisible(r), LAMBDA s : MatchAttributes(r.entry[s], attrs))

-----------------------------------------------------------------------------
(* Where writes go: write.go *)

\* Other than a search: no parts, and a key is one with its prefix.
matchAttributesForWrite(e, attrs) ==
  \A k \in DOMAIN attrs : IF k \in DbKeys THEN attrs[k] = ThisDb
                          ELSE Compared(e, k) = attrs[k]

findMatchingVisibleEntryPtr_NotInherited(r, attrs) ==
  LET find[g \in AllGroups(r), visible \in BOOLEAN] ==
        LET v == visible \/ expose = "none" \/ Wanted(r, g)
            here == SelectSeq(r.content[g],
                              LAMBDA s : matchAttributesForWrite(r.entry[s], attrs))
            ks == r.groups[g].kids
            below == SelectSeq([i \in DOMAIN ks |-> find[ks[i], visible]], LAMBDA s : s # 0) IN
        IF IsRecycled(r, g) THEN 0
        ELSE FirstOf((IF v THEN here ELSE <<>>) \o below)
  IN find[1, FALSE]

\* The first entry with the attributes; a search of its own, not SearchItems.
findMatchingVisibleEntryPtr(r, attrs) ==
  LET find[g \in AllGroups(r), visible \in BOOLEAN] ==
        LET v == visible \/ expose = "none" \/ Wanted(r, g)
            here == SelectSeq(r.content[g],
                              LAMBDA s : matchAttributesForWrite(r.entry[s], attrs))
            ks == r.groups[g].kids
            below == SelectSeq([i \in DOMAIN ks |-> find[ks[i], v]], LAMBDA s : s # 0) IN
        IF IsRecycled(r, g) THEN 0
        ELSE FirstOf((IF v THEN here ELSE <<>>) \o below)
  IN find[1, FALSE]

findGroupPtrByExposure_First(r) == 1

findGroupPtrByExposure(r) ==
  LET find[g \in AllGroups(r)] ==
        LET ks == r.groups[g].kids IN
        IF IsRecycled(r, g) THEN 0
        ELSE IF Wanted(r, g) THEN g
        ELSE FirstOf(SelectSeq([i \in DOMAIN ks |-> find[ks[i]]], LAMBDA h : h # 0))
  IN find[1]

findOrCreateSecretServiceGroup(r) ==
  LET there == SelectSeq(r.groups[1].kids, LAMBDA g : r.groups[g].name = "Secret_Service") IN
  IF there # <<>> THEN [r |-> r, g |-> Head(there)]
  ELSE LET g == Len(r.groups) + 1
           grown == [r.groups EXCEPT ![1].kids = Append(@, g)] IN
       [r |-> [r EXCEPT !.groups = Append(grown, [name |-> "Secret_Service", kids |-> <<>>]),
                        !.content = Append(@, <<>>)],
        g |-> g]

-----------------------------------------------------------------------------
(* History *)

historySize(h) == FoldLeft(LAMBDA m, n : m + n, 0, [i \in DOMAIN h |-> Cost[h[i].values["Password"]]])

maxItems == IF meta.items > 0 THEN meta.items ELSE DefaultItems
maxSize == IF meta.size > 0 THEN meta.size ELSE DefaultSize

trimHistory_Strict(h) ==
  SubSeq(h, (IF Len(h) >= maxItems THEN Len(h) - maxItems + 1 ELSE 0) + 1, Len(h))

\* Two loops drop the oldest versions, the first until few are left; the second
\* stops at the first i dropped that suffice, and keeps one whatever its size.
trimHistory(h) ==
  LET From(i) == SubSeq(h, i + 1, Len(h))
      few == IF Len(h) > maxItems THEN Len(h) - maxItems ELSE 0
      Stops(i) == historySize(From(i)) <= maxSize \/ Len(h) - i <= 1
  IN From(CHOOSE i \in few..Len(h) : Stops(i) /\ \A j \in few..(i - 1) : ~Stops(j))

\* A version is the entry without its history.
Version(e) == [e EXCEPT !.hist = <<>>]

appendHistory(e) == [e EXCEPT !.hist = trimHistory(Append(@, Version(e)))]

-----------------------------------------------------------------------------
(* Attachments: gokeepasslib and keeagent.go *)

AddBinary(b, c) ==
  LET i == SelectInSeq(b, LAMBDA x : x = c) IN
  IF i # 0 THEN [b |-> b, id |-> i] ELSE [b |-> Append(b, c), id |-> Len(b) + 1]

FindBinary(b, id) == IF id \in DOMAIN b THEN b[id] ELSE Empty

Ids(e) == {e.att[n].id : n \in ToSet(Names)} \ {0}

UsedIds_CurrentOnly(r) == UNION {Ids(r.entry[s]) : s \in Live(r)}

\* getBinariesUsages: the IDs in the entries and in their histories.
UsedIds(r) ==
  UNION {Ids(r.entry[s]) \cup UNION {Ids(v) : v \in ToSet(r.entry[s].hist)} : s \in Live(r)}

\* What is used keeps its order and is numbered from 1.
NewId(used, i) == IF i \in used THEN Cardinality({j \in used : j <= i}) ELSE i
NewAtts(used, e) == [n \in ToSet(Names) |-> [e.att[n] EXCEPT !.id = NewId(used, @)]]
Moved(used, e) ==
  [e EXCEPT !.att = NewAtts(used, e),
            !.hist = [i \in DOMAIN @ |-> [@[i] EXCEPT !.att = NewAtts(used, e.hist[i])]]]

\* cleanupBinaries, part of every Encode: what nobody refers to goes, the rest
\* and the references are numbered anew.
cleanupBinaries(r, b) ==
  LET used == UsedIds(r) \cap DOMAIN b IN
  [r |-> [r EXCEPT !.entry = [s \in Slots |-> Moved(used, @[s])]],
   b |-> [k \in 1..Cardinality(used) |-> b[CHOOSE i \in used : NewId(used, i) = k]]]

IsKey(c) == c \notin {Empty, UseRsa}

extractKeyFromAnyPrivateKeyAttachment(e, b) ==
  LET keys == SelectSeq([i \in 1..2 |-> FindBinary(b, e.att[Names[i + 1]].id)], IsKey) IN
  IF keys = <<>> THEN Empty ELSE Head(keys)

\* The attachment named by settings in an attachment, or else in CustomData.
SettingsName(e, b) ==
  IF FindBinary(b, e.att["KeeAgent.settings"].id) = UseRsa THEN "id_rsa" ELSE e.settings

\* The key the SSH agent gets from the entry, or Empty.
extractKeyFromEntryWithDB(e, b) ==
  LET name == SettingsName(e, b) IN
  IF name = Empty \/ e.att[name].id = 0 THEN extractKeyFromAnyPrivateKeyAttachment(e, b)
  ELSE LET c == FindBinary(b, e.att[name].id) IN IF IsKey(c) THEN c ELSE Empty

-----------------------------------------------------------------------------
(* The updates, as functions of the tree and the attachments *)

\* The next slot, 0 when the model has no more.
FreshSlot(r) ==
  LET free == Slots \ Live(r) IN
  IF free = {} THEN 0 ELSE CHOOSE s \in free : TRUE

Insert(r, g, s, e) == [r EXCEPT !.content[g] = Append(@, s), !.entry[s] = e]

\* The label, or else an attribute, becomes the title; attributes are stored
\* under their key, also one called like a standard field.
applyEntryFields(e, label, attrs, p) ==
  LET Given(k) == IF k \in DOMAIN attrs THEN attrs[k] ELSE Empty
      titles == <<label, Given("title"), Given("application"), "Secret_Service_Item">>
      title == titles[SelectInSeq(titles, LAMBDA t : t # Empty)] IN
  [e EXCEPT !.values = [k \in Keys |-> IF k \in DOMAIN attrs THEN attrs[k]
                                      ELSE IF k = "Title" THEN title
                                      ELSE IF k = "Password" THEN p ELSE @[k]]]

\* CreateItem: the tree afterwards and the entry that holds the secret, 0 if
\* the exposed group is not found.
CreateItem(r, label, attrs, p, replace) ==
  LET old == IF replace /\ DOMAIN attrs # {} THEN findMatchingVisibleEntryPtr(r, attrs) ELSE 0
      new == FreshSlot(r)
      e == applyEntryFields(NewEntry, label, attrs, p)
      ss == findOrCreateSecretServiceGroup(r) IN
  IF old # 0 THEN
    [s |-> old, r |-> [r EXCEPT !.entry[old] =
                         applyEntryFields(appendHistory(@), label, attrs, p)]]
  ELSE IF new = 0 \/ (expose # "none" /\ findGroupPtrByExposure(r) = 0) THEN
    [s |-> 0, r |-> r]
  ELSE IF expose # "none" THEN
    [s |-> new, r |-> Insert(r, findGroupPtrByExposure(r), new, e)]
  ELSE [s |-> new, r |-> Insert(ss.r, ss.g, new, e)]

removeEntryByUUID_KeepsPlace(r, s) == [r EXCEPT !.entry[s] = NoEntry]

removeEntryByUUID(r, s) ==
  [r EXCEPT !.content = [g \in DOMAIN @ |-> RemoveFirst(@[g], s)], !.entry[s] = NoEntry]

\* Like the fields of a new item, but "title" is the title and no secret comes
\* with them: a "Password" is overwritten.
applyEntryAttributes(e, attrs) ==
  [e EXCEPT !.values = [k \in Keys |->
     IF k \in DOMAIN attrs THEN attrs[k]
     ELSE IF k = "Title" /\ "title" \in DOMAIN attrs THEN attrs["title"] ELSE @[k]]]

WithKey_NoSettings(e, id, k) == [e EXCEPT !.att["ssh-key"] = [id |-> id, content |-> k]]

\* The attachment and the KeeAgent settings of a new key.
WithKey(e, id, k) ==
  [e EXCEPT !.att["ssh-key"] = [id |-> id, content |-> k], !.settings = "ssh-key"]

\* SshGenerateKey and SshImportKey: an entry of the top group with the title,
\* or else a new one there.  A comment comes with a generated key only.
StoreKey(r, b, path, k, comment) ==
  LET there == SelectInSeq(r.content[1], LAMBDA x : r.entry[x].values["Title"] = path)
      s == IF there # 0 THEN r.content[1][there] ELSE FreshSlot(r)
      withEntry == IF there # 0 THEN r ELSE Insert(r, 1, s, Titled(path))
      Noted(e) == IF comment = Empty THEN e ELSE [e EXCEPT !.values["Notes"] = comment]
      added == AddBinary(b, k) IN
  IF s = 0 THEN [s |-> 0, r |-> r, b |-> b]
  ELSE [s |-> s, b |-> added.b,
        r |-> [withEntry EXCEPT !.entry[s] = Noted(WithKey(@, added.id, k))]]

-----------------------------------------------------------------------------
(* Updates and saves *)

\* saveLocked succeeds: the file and the memory have the encoder's numbering.
Saved(r, b) ==
  LET clean == cleanupBinaries(r, b) IN
  root' = clean.r /\ binaries' = clean.b /\ UNCHANGED shifted

\* saveLocked fails before, or in or after Encode: the clone of the old groups
\* comes back, with new UUIDs; the attachments stay as they are.
SaveFails(r, b) ==
  /\ root.gen < MaxFailures
  /\ root' = [root EXCEPT !.gen = @ + 1]
  /\ \/ binaries' = b /\ UNCHANGED shifted
     \/ /\ binaries' = cleanupBinaries(r, b).b
        /\ shifted' = (shifted \/ UsedIds(root) \ UsedIds(r) # {})

UpdateAndSave(r, b) ==
  /\ ops < MaxOps /\ ops' = ops + 1
  /\ Saved(r, b) \/ SaveFails(r, b)
  /\ UNCHANGED <<meta, expose>>

Store(label, attrs, p, replace) ==
  LET c == CreateItem(root, label, attrs, p, replace) IN
  c.s # 0 /\ UpdateAndSave(c.r, binaries)

SetSecret(s, p) ==
  UpdateAndSave([root EXCEPT !.entry[s] = [appendHistory(@) EXCEPT !.values["Password"] = p]],
                binaries)

Delete(s) == UpdateAndSave(removeEntryByUUID(root, s), binaries)

\* Properties.Set of Label and of Attributes: no history.
SetLabel(s, label) ==
  UpdateAndSave([root EXCEPT !.entry[s].values["Title"] = label], binaries)

SetAttributes(s, attrs) ==
  UpdateAndSave([root EXCEPT !.entry[s] = applyEntryAttributes(@, attrs)], binaries)

SshStoreKey(path, k, comment) ==
  LET u == StoreKey(root, binaries, path, k, comment) IN
  u.s # 0 /\ UpdateAndSave(u.r, u.b)

\* A file with an entry in the exposed group, with a key and perhaps settings
\* of KeePassXC, and one in the bin.
Init ==
  /\ \/ expose = "none" /\ meta \in [items : {1}, size : {0}, bin : {"name", "uuid"}]
     \/ expose = "none" /\ meta \in [items : {0}, size : {3}, bin : {"name", "uuid"}]
     \/ expose \in {"name", "uuid"} /\ meta = [items |-> 0, size |-> 0, bin |-> expose]
  /\ \E set \in BOOLEAN :
       LET rsa == [NewEntry.att EXCEPT !["id_rsa"] = [id |-> 1, content |-> "old_key"]]
           att == IF set THEN [rsa EXCEPT !["KeeAgent.settings"] =
                                 [id |-> 2, content |-> UseRsa]] ELSE rsa
           secret == CHOOSE p \in Passwords : TRUE
           e1 == [Titled("git") EXCEPT !.values["UserName"] = "github", !.values["URL"] = "github",
                                       !.values["Password"] = secret, !.att = att]
           e2 == [Titled("git") EXCEPT !.values["application"] = "git",
                                       !.values["Password"] = secret] IN
       /\ set => expose = "none"
       /\ root = [groups |-> Groups0(meta.bin),
                  content |-> IF expose = "none" THEN <<<<1>>, <<>>, <<>>, <<>>, <<2>>>>
                              ELSE <<<<>>, <<>>, <<1>>, <<>>, <<2>>>>,
                  entry |-> [s \in Slots |-> IF s = 1 THEN e1 ELSE
                                             IF s = 2 THEN e2 ELSE NoEntry],
                  gen |-> 0]
       /\ binaries = IF set THEN <<"old_key", UseRsa>> ELSE <<"old_key">>
  /\ shifted = FALSE /\ ops = 0

\* Clients hold items of the entries they were shown.
Shown == ToSet(collectEntriesVisible(root))

Next ==
  \/ \E l \in Titles \cup {Empty}, a \in Attrs, p \in Passwords, r \in BOOLEAN : Store(l, a, p, r)
  \/ \E s \in Shown :
       \/ \E p \in Passwords : SetSecret(s, p)
       \/ Delete(s)
       \/ \E l \in Titles : SetLabel(s, l)
       \/ \E a \in Attrs : SetAttributes(s, a)
  \/ \E t \in Titles, k \in PrivateKeys, c \in {Empty, "github"} : SshStoreKey(t, k, c)

Spec == Init /\ [][Next]_vars

-----------------------------------------------------------------------------
(* Properties *)

Texts == Titles \cup {Empty, "git", "github", "Secret_Service_Item"}
VersionOK(e) ==
  /\ DOMAIN e.values = Keys
  /\ \A k \in Keys : e.values[k] \in IF k = "Password" THEN Passwords \cup {Empty} ELSE Texts
  /\ e.settings \in {Empty, "ssh-key"} /\ \A n \in ToSet(Names) : e.att[n].id \in Nat

\* Every variable holds a value of its type; an entry is in one place.
TypeOK ==
  /\ \A g \in AllGroups(root) : \A h \in ToSet(root.groups[g].kids) : g < h
  /\ Len(root.content) = Len(root.groups)
  /\ Live(root) \subseteq Slots
  /\ \A g, h \in AllGroups(root) : \A i \in DOMAIN root.content[g], j \in DOMAIN root.content[h] :
       root.content[g][i] = root.content[h][j] => g = h /\ i = j
  /\ \A s \in Live(root) : \A v \in {root.entry[s]} \cup ToSet(root.entry[s].hist) :
       VersionOK(v)
  /\ root.gen \in 0..MaxFailures
  /\ shifted \in BOOLEAN /\ ops \in 0..MaxOps

\* A group and the groups around it.
Around(g) ==
  LET up[h \in AllGroups(root)] ==
        {h} \cup UNION {up[x] : x \in {y \in 1..(h - 1) : h \in ToSet(root.groups[y].kids)}}
  IN up[g]

\* What the user meant: not in the bin, and in the exposed group if there is one.
Meant ==
  UNION {ToSet(root.content[g]) : g \in {h \in AllGroups(root) :
    /\ Bin \notin Around(h)
    /\ \/ expose = "none"
       \/ expose = "name" /\ \E x \in Around(h) : root.groups[x].name = "Web"
       \/ expose = "uuid" /\ Web \in Around(h)}}

\* doc/config.md:166: Secret Service clients see the entries of the exposed
\* group and never the recycle bin.  A rollback renews the UUIDs: then a bin
\* known by its UUID only is shown, and a group exposed by its UUID is not.
ShownAsMeant ==
  /\ root.gen = 0 \/ meta.bin = "name" => Shown \subseteq Meant
  /\ root.gen = 0 \/ expose # "uuid" => Meant \subseteq Shown

\* collection.go:128-130: "the first item whose attributes match the requested
\* attributes is updated": what CreateItem replaces is what a client's own
\* search finds first, and it makes a second item only if the search found
\* none; but for what the two matchers read in two ways: the search also finds
\* a title, a URL or notes of which the value given is a part, and takes the
\* prefix "custom:" off a key (attributes.go:57-93, write.go:255-278).
ReplaceIsSearch ==
  \A a \in Attrs :
    LET Whole(s) == \A k \in DOMAIN a \cap PartKeys : Compared(root.entry[s], k) = a[k] IN
    DOMAIN a # {} /\ "custom_application" \notin DOMAIN a =>
      findMatchingVisibleEntryPtr(root, a) = FirstOf(SelectSeq(SearchItems(root, a), Whole))

\* Attributes an item is stored with and not found by: a title that the label
\* overrides, a key with the prefix, the name of another database.
Unfindable(label, a) ==
  \/ "title" \in DOMAIN a /\ label # Empty /\ ~Within(a.title, label)
  \/ "custom_application" \in DOMAIN a
  \/ \E k \in DOMAIN a \cap DbKeys : a[k] # ThisDb

\* What was stored is found again.  A secret, by its attributes and with its
\* value, by a client that searches next; but for Unfindable attributes, and
\* for an attribute "Password", which overwrites the secret (write.go:337-338).
\* A key, in the entry that GetEntry finds under the same path
\* (dbusapi.go:749-758), though it was stored by the title in the top group and
\* is found by title or user name in the whole tree without the bin: the entry
\* found is that one, or an earlier one of the top group whose user name is the
\* path.
StoredIsFound ==
  /\ \A l \in Titles \cup {Empty}, a \in Attrs, rep \in BOOLEAN :
       LET p == CHOOSE q \in Passwords : TRUE
           c == CreateItem(root, l, a, p, rep) IN
       c.s # 0 => /\ Unfindable(l, a) \/ c.s \in ToSet(SearchItems(c.r, a))
                  /\ "Password" \in DOMAIN a \/ c.r.entry[c.s].values["Password"] = p
  /\ \A t \in Titles, k \in PrivateKeys :
       LET u == StoreKey(root, binaries, t, k, Empty)
           top == u.r.content[1]
           before == SelectSeq(SubSeq(top, 1, SelectInSeq(top, LAMBDA x : x = u.s) - 1),
                               LAMBDA x : u.r.entry[x].values["UserName"] = t) IN
       u.s # 0 => findEntryByPath(u.r, t) = Head(Append(before, u.s))

Fits(h) == Len(h) <= maxItems /\ (historySize(h) <= maxSize \/ Len(h) <= 1)

\* What a version says, without the numbers of its attachments.
Said(v) == <<v.values, [n \in ToSet(Names) |-> v.att[n].content]>>
AllSaid(h) == [i \in DOMAIN h |-> Said(h[i])]

\* h is the longest run of latest versions of all that the limits allow.
Archives(h, all) ==
  /\ IsSuffix(AllSaid(h), AllSaid(all)) /\ Fits(h)
  /\ \A x \in Suffixes(all) : Fits(x) => Len(x) <= Len(h)

\* write.go:124-126: a password that is overwritten goes to the history, which
\* is as long as the limits allow; a failed save and other updates leave the
\* history alone.  The exception is a client that sets the property Attributes
\* of the item, with a "Password" among them: it overwrites the secret, and the
\* old one is in no history (introspect.go:228-239, write.go:360-361).
HistoryComplete ==
  [][\A s \in Live(root) \cap Live(root)' :
       LET e == root.entry[s]
           f == root'.entry[s]
           lost == \E a \in Attrs : /\ "Password" \in DOMAIN a /\ SetAttributes(s, a)
                                    /\ f.values["Password"] = a["Password"] IN
       \/ Archives(f.hist, Append(e.hist, Version(e)))
       \/ /\ AllSaid(f.hist) = AllSaid(e.hist)
          /\ f.values["Password"] = e.values["Password"] \/ lost]_vars

Resolved(e, b) == \A n \in ToSet(Names) : FindBinary(b, e.att[n].id) = e.att[n].content

AllResolved ==
  \A s \in Live(root) : \A v \in {root.entry[s]} \cup ToSet(root.entry[s].hist) :
    Resolved(v, binaries)

\* save.go:134-136, "so live clients keep working after a failed save attempt":
\* every attachment of every entry, and of its history, is the one that was
\* attached.
AttachmentsKept == AllResolved

\* The same, if no save failed after its update had removed the last reference
\* to an attachment.
AttachmentsKeptUnlessShifted == shifted \/ AllResolved

\* dbusapi.go:453-454: a key that was generated or imported is the one the
\* entry gives to the SSH agent, whatever happens to other entries and
\* attachments and whatever failed before it was stored; but for KeeAgent
\* settings in an attachment, which take precedence.
GeneratedIsServed ==
  /\ \A s \in Live(root) : LET e == root.entry[s] IN
       e.settings = "ssh-key" =>
         \/ shifted \/ e.att["KeeAgent.settings"].id # 0
         \/ extractKeyFromEntryWithDB(e, binaries) = e.att["ssh-key"].content
  /\ \A t \in Titles, k \in PrivateKeys :
       LET u == StoreKey(root, binaries, t, k, Empty)
           clean == cleanupBinaries(u.r, u.b)
           e == clean.r.entry[u.s] IN
       u.s # 0 => \/ e.att["KeeAgent.settings"].id # 0
                  \/ extractKeyFromEntryWithDB(e, clean.b) = k
=============================================================================
