--------------------------- MODULE KdbxTreeProofs ---------------------------
(***************************************************************************)
(* Proofs about KdbxTree, for any number of entries, any passwords, keys   *)
(* and limits, and any sequence of updates and failed saves: attachments   *)
(* and generated keys stay the entry's own, and an overwritten password is *)
(* archived.  What the searches of the tree return is left open: the       *)
(* proofs hold for every answer they could give.                           *)
(***************************************************************************)
EXTENDS KdbxTree, FiniteSetTheorems, SequenceTheorems, TLAPS

NameSet == {"KeeAgent.settings", "id_rsa", "ssh-key"}
Contents == PrivateKeys \cup {Empty, "old_key", UseRsa}
Attachments == [NameSet -> [id : Nat, content : Contents]]

\* The values of an entry; only a slot without an entry has the title "no_entry".
TextsOf(k) == IF k = "Password" THEN Passwords \cup {Empty}
              ELSE IF k = "Title" THEN Texts \cup {"no_entry"} ELSE Texts
AnyText == Texts \cup {"no_entry"} \cup Passwords
ValueSet == {v \in [Keys -> AnyText] : \A k \in Keys : v[k] \in TextsOf(k)}

\* Versions in a history have no history of their own.
VersionSet == [values : ValueSet, att : Attachments, settings : {Empty, "ssh-key"}, hist : {<<>>}]
EntrySet == [values : ValueSet, att : Attachments, settings : {Empty, "ssh-key"},
             hist : Seq(VersionSet)]
GroupNames == {"Root", "Web", "Sub", "Recycle_Bin", "Trash", "Secret_Service"}
GroupSet == [name : GroupNames, kids : Seq(Nat)]
TreeSet == [groups : Seq(GroupSet), content : Seq(Seq(Slots)),
            entry : [Slots -> EntrySet], gen : Nat]

Versions(e) == {e} \cup ToSet(e.hist)

\* An entry of the tree has a title, also in its history, and KeeAgent settings
\* in CustomData name an attachment that holds a key.
EntryOK(e) ==
  /\ \A v \in Versions(e) : v.values["Title"] \in Texts
  /\ e.settings = "ssh-key" => e.att["ssh-key"].id # 0 /\ e.att["ssh-key"].content \in PrivateKeys

OnePlace(c) ==
  \A g, h \in DOMAIN c : \A i \in DOMAIN c[g], j \in DOMAIN c[h] :
    c[g][i] = c[h][j] => g = h /\ i = j

TreeOK(r) ==
  /\ r \in TreeSet
  /\ Len(r.content) = Len(r.groups) /\ r.groups # <<>>
  /\ \A g \in AllGroups(r) : \A h \in ToSet(r.groups[g].kids) : g < h
  /\ OnePlace(r.content)
  /\ \A s \in Live(r) : EntryOK(r.entry[s])

\* The references of the version are in the range of the attachments and
\* lead to what was attached.
Sound(v, b) ==
  \A n \in NameSet : v.att[n].id \in 0..Len(b) /\ FindBinary(b, v.att[n].id) = v.att[n].content
AllSound(e, b) == \A v \in Versions(e) : Sound(v, b)
TreeSound(r, b) == \A s \in Live(r) : AllSound(r.entry[s], b)

\* Unless a save failed in the way that shifts the attachments, every
\* reference is sound and the references have no gap: a renumbering for a tree
\* that still has them all does not move them.
AttInv == shifted \/ (TreeSound(root, binaries) /\ \E n \in Nat : UsedIds(root) = 1..n)

IInv ==
  /\ TreeOK(root) /\ root.gen <= MaxFailures
  /\ binaries \in Seq(Contents)
  /\ meta \in [items : Nat, size : Nat, bin : {"name", "uuid"}]
  /\ shifted \in BOOLEAN /\ ops \in 0..MaxOps
  /\ AttInv

-----------------------------------------------------------------------------
(* The operators the updates are made of *)

\* A set of natural numbers that is not empty has a least element.
LEMMA LeastElement ==
  ASSUME NEW S \in SUBSET Nat, S # {}
  PROVE  \E x \in S : \A y \in S : x <= y
<1>1. PICK x \in S : \A y \in S : ~(<<y, x>> \in OpToRel(<, Nat))
  BY WFMin, NatLessThanWellFounded
<1>2. \A y \in S : ~(y < x) BY <1>1 DEF OpToRel
<1> QED BY <1>2

\* The empty string is none of the strings the code uses.
LEMMA EmptyIs ==
  /\ Empty # "Secret_Service_Item" /\ Empty # "no_entry" /\ Empty # "ssh-key"
  /\ Empty # "id_rsa" /\ Empty # "old_key" /\ Empty # UseRsa
<1>1. Empty # "Secret_Service_Item" BY DEF Empty
<1>2. Empty # "no_entry" BY DEF Empty
<1>3. Empty # "ssh-key" BY DEF Empty
<1>4. Empty # "id_rsa" BY DEF Empty
<1>5. Empty # "old_key" BY DEF Empty
<1>6. Empty # UseRsa BY DEF Empty, UseRsa
<1> QED BY <1>1, <1>2, <1>3, <1>4, <1>5, <1>6

\* The names of the attachments.
LEMMA NamesAre == ToSet(Names) = NameSet /\ Len(Names) = 3
<1>1. DOMAIN Names = {1, 2, 3} BY DEF Names
<1>2. Names[1] = "KeeAgent.settings" /\ Names[2] = "id_rsa" /\ Names[3] = "ssh-key"
  BY DEF Names
<1> QED BY <1>1, <1>2 DEF ToSet, NameSet, Names

\* The encoder's new numbers are 1 to the number of attachments in use, each
\* once, and a prefix without a gap keeps its numbers.
LEMMA Numbering ==
  ASSUME NEW N \in Nat, NEW used \in SUBSET (1..N)
  PROVE  /\ Cardinality(used) \in 0..N
         /\ \A i \in used : NewId(used, i) \in 1..Cardinality(used)
         /\ \A i, j \in used : NewId(used, i) = NewId(used, j) => i = j
         /\ \A k \in 1..Cardinality(used) : \E i \in used : NewId(used, i) = k
         /\ \A n \in Nat : 1..n \subseteq used =>
              n <= Cardinality(used) /\ \A i \in 1..n : NewId(used, i) = i
<1> DEFINE Below(i) == {j \in used : j <= i}
<1>a. \A i \in used : i \in Nat /\ i # 0 OBVIOUS
<1>1. IsFiniteSet(1..N) /\ Cardinality(1..N) = N BY FS_Interval
<1>2. IsFiniteSet(used) /\ Cardinality(used) <= N BY <1>1, FS_Subset
<1>3. Cardinality(used) \in Nat BY <1>2, FS_CardinalityType
<1>4. ASSUME NEW i \in used
      PROVE  /\ IsFiniteSet(Below(i)) /\ Cardinality(Below(i)) \in 1..Cardinality(used)
             /\ NewId(used, i) = Cardinality(Below(i))
  <2>1. Below(i) \in SUBSET used /\ i \in Below(i) OBVIOUS
  <2>2. IsFiniteSet(Below(i)) /\ Cardinality(Below(i)) <= Cardinality(used)
    BY <1>2, <2>1, FS_Subset
  <2>3. Cardinality(Below(i)) \in Nat BY <2>2, FS_CardinalityType
  <2>4. Cardinality(Below(i)) # 0 BY <2>1, <2>2, FS_EmptySet
  <2> QED BY <1>3, <2>2, <2>3, <2>4 DEF NewId
<1>5. ASSUME NEW i \in used, NEW j \in used, i < j
      PROVE  NewId(used, i) # NewId(used, j)
  <2>a. \A k \in used : k <= i => k <= j BY <1>a, <1>5
  <2>1. Below(i) \in SUBSET Below(j) BY <2>a
  <2>b. j \in Below(j) /\ j \notin Below(i) BY <1>a, <1>5
  <2>2. IsFiniteSet(Below(j)) BY <1>4
  <2>3. Below(j) # Below(i) BY <2>b
  <2>4. Cardinality(Below(j)) # Cardinality(Below(i)) BY <2>1, <2>2, <2>3, FS_Subset
  <2> QED BY <1>4, <2>4
<1>6. \A i, j \in used : NewId(used, i) = NewId(used, j) => i = j BY <1>5
<1>7. ASSUME NEW k \in 1..Cardinality(used) PROVE \E i \in used : NewId(used, i) = k
  <2> DEFINE T == 1..Cardinality(used)  f == [i \in used |-> NewId(used, i)]
  <2>1. f \in Injection(used, T) BY <1>4, <1>6 DEF Injection, IsInjective
  <2>2. IsFiniteSet(T) /\ Cardinality(T) = Cardinality(used) BY <1>3, FS_Interval
  <2>3. f \in Surjection(used, T) BY <2>1, <2>2, FS_Injection
  <2> QED BY <2>3 DEF Surjection
<1>8. ASSUME NEW n \in Nat, 1..n \subseteq used
      PROVE  n <= Cardinality(used) /\ \A i \in 1..n : NewId(used, i) = i
  <2>1. Cardinality(1..n) = n BY FS_Interval
  <2>2. n <= Cardinality(used) BY <1>2, <1>8, <2>1, FS_Subset
  <2>3. ASSUME NEW i \in 1..n PROVE NewId(used, i) = i
    <3>a. \A k \in 1..i : k \in used /\ k <= i BY <1>8
    <3>b. \A k \in used : k <= i => k \in 1..i BY <1>a
    <3>1. Below(i) = 1..i BY <3>a, <3>b, Zenon
    <3>2. Cardinality(1..i) = i BY FS_Interval
    <3> QED BY <1>4, <1>8, <3>1, <3>2
  <2> QED BY <2>2, <2>3
<1> HIDE DEF Below
<1>9. Cardinality(used) \in 0..N /\ \A i \in used : NewId(used, i) \in 1..Cardinality(used)
  BY <1>2, <1>3, <1>4
<1> QED BY <1>6, <1>7, <1>8, <1>9

\* AddBinary returns the number of an attachment with the content and leaves
\* the others where they are.
LEMMA Added ==
  ASSUME NEW b \in Seq(Contents), NEW c \in Contents
  PROVE  LET a == AddBinary(b, c) IN
         /\ a.b \in Seq(Contents) /\ a.id \in 1..Len(a.b) /\ a.b[a.id] = c
         /\ Len(b) <= Len(a.b) /\ \A i \in 1..Len(b) : a.b[i] = b[i]
<1> DEFINE I == {i \in 1..Len(b) : b[i] = c}
<1>1. CASE I = {}
  <2>1. AddBinary(b, c) = [b |-> Append(b, c), id |-> Len(b) + 1]
    BY <1>1 DEF AddBinary, SelectInSeq
  <2> QED BY <2>1
<1>2. CASE I # {}
  <2>1. I \in SUBSET Nat OBVIOUS
  <2>2. \E x \in I : \A y \in I : x <= y BY <1>2, <2>1, LeastElement
  <2>3. Min(I) \in I BY <2>2 DEF Min
  <2>4. AddBinary(b, c) = [b |-> b, id |-> Min(I)]
    BY <1>2, <2>3 DEF AddBinary, SelectInSeq
  <2> QED BY <2>3, <2>4
<1> QED BY <1>1, <1>2

\* RemoveFirst leaves everything but the element, in order, when it occurs once.
LEMMA Removed ==
  ASSUME NEW S, NEW c \in Seq(S), NEW s,
         \A i, j \in 1..Len(c) : c[i] = c[j] => i = j
  PROVE  LET d == RemoveFirst(c, s) IN
         /\ d \in Seq(S) /\ \A i \in 1..Len(d) : d[i] # s
         /\ \E f \in [1..Len(d) -> 1..Len(c)] :
              \A i, j \in 1..Len(d) : d[i] = c[f[i]] /\ (f[i] = f[j] => i = j)
<1> DEFINE I == {i \in 1..Len(c) : c[i] = s}  d == RemoveFirst(c, s)
<1>1. CASE I = {}
  <2>1. d = c BY <1>1 DEF RemoveFirst
  <2>2. [i \in 1..Len(c) |-> i] \in [1..Len(c) -> 1..Len(c)] OBVIOUS
  <2>3. \E f \in [1..Len(d) -> 1..Len(c)] :
          \A i, j \in 1..Len(d) : d[i] = c[f[i]] /\ (f[i] = f[j] => i = j)
    BY <2>1, <2>2
  <2> QED BY <1>1, <2>1, <2>3
<1>2. CASE I # {}
  <2>1. I \in SUBSET Nat OBVIOUS
  <2>2. \E x \in I : \A y \in I : x <= y BY <1>2, <2>1, LeastElement
  <2>3. Min(I) \in I BY <2>2 DEF Min
  <2>4. PICK m \in 1..Len(c) : m = Min(I) /\ c[m] = s BY <2>3
  <2>5. d = SubSeq(c, 1, m - 1) \o SubSeq(c, m + 1, Len(c))
    BY <1>2, <2>4 DEF RemoveFirst, SelectInSeq, RemoveAt
  <2>m. m \in 1..Len(c) /\ c[m] = s BY <2>4
  <2> HIDE DEF I
  <2> DEFINE p == SubSeq(c, 1, m - 1)  q == SubSeq(c, m + 1, Len(c))
  <2>n. /\ Len(c) \in Nat /\ m \in Nat /\ m - 1 \in Int /\ m + 1 \in Int
        /\ \A i \in 1..(m - 1) : c[i] \in S
        /\ \A i \in (m + 1)..Len(c) : c[i] \in S
    OBVIOUS
  <2>a. p \in Seq(S) BY <2>n, SubSeqProperties
  <2>b. Len(p) = m - 1 BY <2>n, SubSeqProperties
  <2>c. \A i \in 1..(m - 1) : p[i] = c[i] BY <2>n, SubSeqProperties
  <2>d. q \in Seq(S) BY <2>n, SubSeqProperties
  <2>e. Len(q) = Len(c) - m BY <2>4, <2>n, SubSeqProperties
  <2>f. \A i \in 1..(Len(c) - m) : q[i] = c[i + m]
    <3>1. \A i \in 1..(Len(c) - (m + 1) + 1) : q[i] = c[(m + 1) + i - 1]
      BY <2>n, SubSeqProperties
    <3> QED BY <2>n, <3>1
  <2> HIDE DEF p, q
  <2>g. d = p \o q BY <2>5 DEF p, q
  <2>h. p \o q \in Seq(S) /\ Len(p \o q) = Len(p) + Len(q)
    BY <2>a, <2>d, ConcatProperties
  <2>i. \A i \in 1..(Len(p) + Len(q)) :
          (p \o q)[i] = IF i <= Len(p) THEN p[i] ELSE q[i - Len(p)]
    BY <2>a, <2>d, ConcatProperties
  <2> HIDE DEF d
  <2>6. d \in Seq(S) /\ Len(d) = Len(c) - 1 BY <2>g, <2>h, <2>b, <2>e, <2>n
  <2>7. ASSUME NEW i \in 1..Len(d) PROVE d[i] = c[IF i < m THEN i ELSE i + 1]
    <3>1. d[i] = IF i <= m - 1 THEN p[i] ELSE q[i - (m - 1)]
      BY <2>b, <2>e, <2>g, <2>i, <2>6, <2>n
    <3>2. CASE i < m
      <4>1. i <= m - 1 /\ i \in 1..(m - 1) BY <2>n, <2>6, <3>2
      <4> QED BY <2>c, <3>1, <3>2, <4>1
    <3>3. CASE ~(i < m)
      <4>1. /\ ~(i <= m - 1) /\ i - (m - 1) \in 1..(Len(c) - m)
            /\ (i - (m - 1)) + m = i + 1
        BY <2>n, <2>6, <3>3
      <4> QED BY <2>f, <3>1, <3>3, <4>1
    <3> QED BY <3>2, <3>3
  <2> DEFINE F == [i \in 1..Len(d) |-> IF i < m THEN i ELSE i + 1]
  <2>8. F \in [1..Len(d) -> 1..Len(c)] BY <2>4, <2>6
  <2>9. \A i, j \in 1..Len(d) : d[i] = c[F[i]] /\ (F[i] = F[j] => i = j)
    BY <2>n, <2>6, <2>7
  <2>10. \A i \in 1..Len(d) : F[i] # m BY <2>n, <2>6
  <2>11. \A i \in 1..Len(d) : d[i] # s BY <2>m, <2>8, <2>9, <2>10
  <2> HIDE DEF F
  <2> QED BY <2>6, <2>8, <2>9, <2>11 DEF d
<1> QED BY <1>1, <1>2

\* A sequence that is the other from some index on is a suffix of it.
LEMMA SuffixFrom ==
  ASSUME NEW S, NEW s \in Seq(S), NEW t \in Seq(S), NEW i \in 0..Len(t),
         Len(s) = Len(t) - i, \A k \in 1..Len(s) : s[k] = t[i + k]
  PROVE  IsSuffix(s, t)
<1> DEFINE rs == Reverse(s)  rt == Reverse(t)
<1>n. Len(s) \in Nat /\ Len(t) \in Nat /\ i \in Nat OBVIOUS
<1>1. rs = [k \in 1..Len(s) |-> s[(Len(s) - k) + 1]] BY DEF Reverse
<1>2. rt = [k \in 1..Len(t) |-> t[(Len(t) - k) + 1]] BY DEF Reverse
<1>3. \A k \in 1..Len(s) : s[(Len(s) - k) + 1] \in S BY <1>n
<1>4. \A k \in 1..Len(t) : t[(Len(t) - k) + 1] \in S BY <1>n
<1> HIDE DEF rs, rt
<1>5. rs \in Seq(S) /\ Len(rs) = Len(s) BY <1>n, <1>1, <1>3
<1>6. rt \in Seq(S) /\ Len(rt) = Len(t) BY <1>n, <1>2, <1>4
<1>7. ASSUME NEW k \in 1..Len(s) PROVE rs[k] = rt[k]
  <2>1. rs[k] = s[(Len(s) - k) + 1] /\ (Len(s) - k) + 1 \in 1..Len(s) BY <1>1, <1>n
  <2>2. rt[k] = t[(Len(t) - k) + 1] BY <1>2, <1>n
  <2>3. i + ((Len(s) - k) + 1) = (Len(t) - k) + 1 BY <1>n
  <2> QED BY <2>1, <2>2, <2>3
<1>8. Len(rs) <= Len(rt) BY <1>5, <1>6, <1>n
<1>a. \A k \in 1..Len(rs) : rs[k] \in S /\ rt[k] \in S BY <1>5, <1>6, <1>8, <1>n
<1>b. Len(rs) \in Nat /\ 1 \in Int BY <1>5, <1>n
<1>9. SubSeq(rs, 1, Len(rs)) \in Seq(S) /\ SubSeq(rt, 1, Len(rs)) \in Seq(S)
  BY <1>a, <1>b, SubSeqProperties
<1>10. Len(SubSeq(rs, 1, Len(rs))) = Len(rs) /\ Len(SubSeq(rt, 1, Len(rs))) = Len(rs)
  BY <1>a, <1>b, SubSeqProperties
<1>11. \A k \in 1..Len(rs) :
         SubSeq(rs, 1, Len(rs))[k] = rs[k] /\ SubSeq(rt, 1, Len(rs))[k] = rt[k]
  BY <1>a, <1>b, SubSeqProperties
<1>12. SubSeq(rs, 1, Len(rs)) = SubSeq(rt, 1, Len(rs))
  BY <1>5, <1>7, <1>9, <1>10, <1>11
<1> QED BY <1>8, <1>12 DEF IsSuffix, IsPrefix, rs, rt

\* The end of a history from some version on.
LEMMA FromVersion ==
  ASSUME NEW h \in Seq(VersionSet), NEW i \in 0..Len(h)
  PROVE  LET t == SubSeq(h, i + 1, Len(h)) IN
         /\ t \in Seq(VersionSet) /\ Len(t) = Len(h) - i
         /\ \A k \in 1..Len(t) : t[k] = h[i + k]
<1>1. Len(h) \in Nat /\ i + 1 \in Int /\ \A k \in (i + 1)..Len(h) : h[k] \in VersionSet
  OBVIOUS
<1>2. SubSeq(h, i + 1, Len(h)) \in Seq(VersionSet) BY <1>1, SubSeqProperties
<1>3. Len(SubSeq(h, i + 1, Len(h))) = Len(h) - i BY <1>1, SubSeqProperties
<1>4. \A k \in 1..(Len(h) - (i + 1) + 1) : SubSeq(h, i + 1, Len(h))[k] = h[(i + 1) + k - 1]
  BY <1>1, SubSeqProperties
<1>5. \A k \in 1..(Len(h) - i) : SubSeq(h, i + 1, Len(h))[k] = h[i + k] BY <1>1, <1>4
<1> QED BY <1>2, <1>3, <1>5

\* trimHistory drops the first i versions, which suffices, while no smaller
\* number would.
LEMMA Trimmed ==
  ASSUME NEW h \in Seq(VersionSet), maxItems \in Nat
  PROVE  \E i \in 0..Len(h) :
           /\ trimHistory(h) = SubSeq(h, i + 1, Len(h))
           /\ Len(h) - i <= maxItems
           /\ historySize(SubSeq(h, i + 1, Len(h))) <= maxSize \/ Len(h) - i <= 1
           /\ \A j \in 0..(i - 1) :
                \/ ~(Len(h) - j <= maxItems)
                \/ ~(historySize(SubSeq(h, j + 1, Len(h))) <= maxSize \/ Len(h) - j <= 1)
<1> DEFINE Stops(i) == historySize(SubSeq(h, i + 1, Len(h))) <= maxSize \/ Len(h) - i <= 1
           few == IF Len(h) > maxItems THEN Len(h) - maxItems ELSE 0
           T == {i \in few..Len(h) : Stops(i)}
<1>n. Len(h) \in Nat /\ few \in 0..Len(h) OBVIOUS
<1>1. Stops(Len(h)) BY <1>n
<1>2. trimHistory(h) = LET i == CHOOSE i \in few..Len(h) :
                                  Stops(i) /\ \A j \in few..(i - 1) : ~Stops(j)
                       IN SubSeq(h, i + 1, Len(h))
  BY DEF trimHistory
<1>f. \A j \in 0..Len(h) : j < few => ~(Len(h) - j <= maxItems) BY <1>n
<1>g. \A j \in few..Len(h) : Len(h) - j <= maxItems BY <1>n
<1> HIDE DEF Stops, few
<1>3. Len(h) \in T /\ T \in SUBSET Nat BY <1>n, <1>1
<1>4. PICK x \in T : \A y \in T : x <= y BY <1>3, LeastElement
<1>5. x \in few..Len(h) /\ Stops(x) /\ \A j \in few..(x - 1) : ~Stops(j) BY <1>4, <1>n
<1>6. PICK i \in few..Len(h) : /\ Stops(i) /\ \A j \in few..(i - 1) : ~Stops(j)
                               /\ trimHistory(h) = SubSeq(h, i + 1, Len(h))
  BY <1>2, <1>5
<1>7. i \in 0..Len(h) /\ Len(h) - i <= maxItems BY <1>6, <1>n, <1>g
<1>8. ASSUME NEW j \in 0..(i - 1) PROVE ~(Len(h) - j <= maxItems) \/ ~Stops(j)
  <2>1. CASE j < few BY <2>1, <1>f, <1>6, <1>n
  <2>2. CASE ~(j < few)
    <3>1. j \in few..(i - 1) BY <2>2, <1>6, <1>n
    <3> QED BY <3>1, <1>6
  <2> QED BY <2>1, <2>2
<1> QED BY <1>6, <1>7, <1>8 DEF Stops

\* A history that says what trimHistory keeps is the archive the limits allow.
LEMMA Archived ==
  ASSUME NEW all \in Seq(VersionSet), NEW h \in Seq(VersionSet), maxItems \in Nat,
         AllSaid(h) = AllSaid(trimHistory(all))
  PROVE  Archives(h, all)
<1> DEFINE L == Len(all)  t == trimHistory(all)  Say == {Said(v) : v \in VersionSet}
<1>1. PICK i \in 0..L :
         /\ t = SubSeq(all, i + 1, L)
         /\ L - i <= maxItems
         /\ historySize(SubSeq(all, i + 1, L)) <= maxSize \/ L - i <= 1
         /\ \A j \in 0..(i - 1) :
              \/ ~(L - j <= maxItems)
              \/ ~(historySize(SubSeq(all, j + 1, L)) <= maxSize \/ L - j <= 1)
  BY Trimmed
<1>2. t \in Seq(VersionSet) /\ Len(t) = L - i /\ \A k \in 1..Len(t) : t[k] = all[i + k]
  BY <1>1, FromVersion
<1>n. L \in Nat /\ i \in Nat /\ Len(t) \in Nat /\ Len(h) \in Nat BY <1>2
<1> HIDE DEF t
<1>3. DOMAIN h = DOMAIN t /\ \A k \in DOMAIN h : Said(h[k]) = Said(t[k])
  BY DEF AllSaid, t
<1>4. Len(h) = Len(t) BY <1>2, <1>3, <1>n
<1>5. \A k \in DOMAIN h : h[k].values = t[k].values BY <1>3 DEF Said
<1>6. historySize(h) = historySize(t) BY <1>3, <1>5, Zenon DEF historySize
<1>7. Fits(h) BY <1>1, <1>2, <1>4, <1>6 DEF Fits
<1>8. IsSuffix(AllSaid(h), AllSaid(all))
  <2>1. AllSaid(h) \in Seq(Say) /\ Len(AllSaid(h)) = Len(h) BY DEF AllSaid
  <2>2. AllSaid(all) \in Seq(Say) /\ Len(AllSaid(all)) = L BY DEF AllSaid
  <2>3. ASSUME NEW k \in 1..Len(h) PROVE AllSaid(h)[k] = AllSaid(all)[i + k]
    <3>1. k \in DOMAIN h /\ k \in 1..Len(t) /\ i + k \in DOMAIN all BY <1>1, <1>2, <1>4, <1>n
    <3>2. AllSaid(h)[k] = Said(t[k]) BY <3>1, <1>3 DEF AllSaid
    <3>3. AllSaid(all)[i + k] = Said(all[i + k]) BY <3>1 DEF AllSaid
    <3> QED BY <3>1, <3>2, <3>3, <1>2
  <2>4. Len(AllSaid(h)) = Len(AllSaid(all)) - i /\ i \in 0..Len(AllSaid(all))
    BY <2>1, <2>2, <1>1, <1>2, <1>4
  <2> HIDE DEF Say, L
  <2>5. \A k \in 1..Len(AllSaid(h)) : AllSaid(h)[k] = AllSaid(all)[i + k] BY <2>1, <2>3
  <2> QED BY <2>1, <2>2, <2>4, <2>5, SuffixFrom
<1>9. ASSUME NEW x \in Suffixes(all), Fits(x) PROVE Len(x) <= Len(h)
  <2>1. CASE x = <<>> BY <2>1, <1>n
  <2>2. ASSUME NEW l \in 1..L, x = SubSeq(all, l, L) PROVE Len(x) <= Len(h)
    <3> DEFINE j == l - 1
    <3>1. j \in 0..L /\ j + 1 = l BY <1>n
    <3>2. Len(x) = L - j BY <2>2, <3>1, FromVersion
    <3>3. L - j <= maxItems /\ (historySize(x) <= maxSize \/ L - j <= 1)
      BY <1>9, <3>2 DEF Fits
    <3>4. ~(j \in 0..(i - 1)) BY <1>1, <2>2, <3>1, <3>3
    <3> QED BY <1>2, <1>4, <1>n, <3>1, <3>2, <3>4
  <2> QED BY <2>1, <2>2 DEF Suffixes
<1> QED BY <1>7, <1>8, <1>9 DEF Archives

-----------------------------------------------------------------------------
(* What the updates make of an entry *)

\* The history is left alone, or the overwritten version joins it.
Kept(e, f) ==
  \/ AllSaid(f.hist) = AllSaid(trimHistory(Append(e.hist, Version(e))))
  \/ AllSaid(f.hist) = AllSaid(e.hist) /\ f.values["Password"] = e.values["Password"]

\* f is well formed if e is, when the attachments are b.
Formed(e, f, b) ==
  /\ f \in EntrySet
  /\ EntryOK(e) => EntryOK(f)
  /\ AllSound(e, b) => AllSound(f, b)

\* f is what an update may make of e that respects the history.
Derived(e, f, b) == Formed(e, f, b) /\ Kept(e, f)

\* The values of an entry are given key by key.
LEMMA ValuesMade ==
  ASSUME NEW v, v = [k \in Keys |-> v[k]], \A k \in Keys : v[k] \in TextsOf(k)
  PROVE  v \in ValueSet
<1>1. \A k \in Keys : v[k] \in AnyText BY DEF TextsOf, AnyText, Texts
<1> QED BY <1>1 DEF ValueSet

LEMMA ValuesAre ==
  ASSUME NEW v \in ValueSet
  PROVE  v \in [Keys -> AnyText] /\ \A k \in Keys : v[k] \in TextsOf(k)
  BY DEF ValueSet

\* One value is set.
LEMMA ValueSetTo ==
  ASSUME NEW v \in ValueSet, NEW k \in Keys, NEW t \in TextsOf(k)
  PROVE  /\ [v EXCEPT ![k] = t] \in ValueSet /\ [v EXCEPT ![k] = t][k] = t
         /\ \A x \in Keys : x # k => [v EXCEPT ![k] = t][x] = v[x]
<1> DEFINE w == [v EXCEPT ![k] = t]
<1>1. v \in [Keys -> AnyText] /\ \A x \in Keys : v[x] \in TextsOf(x) BY ValuesAre
<1>2. w = [x \in Keys |-> IF x = k THEN t ELSE v[x]] BY <1>1
<1> HIDE DEF w
<1>3. w = [x \in Keys |-> w[x]] BY <1>2
<1>4. w[k] = t /\ \A x \in Keys : x # k => w[x] = v[x] BY <1>2
<1>5. \A x \in Keys : w[x] \in TextsOf(x) BY <1>1, <1>4
<1>6. w \in ValueSet BY <1>3, <1>5, ValuesMade
<1> QED BY <1>4, <1>6 DEF w

LEMMA KeysAre ==
  /\ "Title" \in Keys /\ "Password" \in Keys /\ "Notes" \in Keys /\ "UserName" \in Keys
  /\ "URL" \in Keys /\ "application" \in Keys
  /\ "title" \notin DbKeys /\ Keys \cap DbKeys = {}
<1>1. /\ "Title" \in Keys /\ "Password" \in Keys /\ "Notes" \in Keys /\ "UserName" \in Keys
      /\ "URL" \in Keys /\ "application" \in Keys
  BY DEF Keys
<1>2. "title" \notin DbKeys BY DEF DbKeys
<1>3. "kpxcd_dbname" \notin Keys /\ "kpxcd_dbuuid" \notin Keys BY DEF Keys
<1>4. Keys \cap DbKeys = {} BY <1>3 DEF DbKeys
<1> QED BY <1>1, <1>2, <1>4

\* What clients give.
LEMMA AttrsAre ==
  ASSUME NEW a \in Attrs
  PROVE  /\ \A k \in DOMAIN a \cap Keys : a[k] \in TextsOf(k)
         /\ "title" \in DOMAIN a => a["title"] \in Texts
         /\ "Title" \in DOMAIN a => a["Title"] \in Texts
         /\ "application" \in DOMAIN a => a["application"] \in Texts
<1>1. \A k \in DOMAIN a : a[k] \in IF k = "Password" THEN Passwords
                                   ELSE IF k \in DbKeys THEN Titles \cup {ThisDb} ELSE Titles
  BY TreeConstants
<1>2. Titles \subseteq Texts BY DEF Texts
<1>3. ASSUME NEW k \in DOMAIN a, k \notin DbKeys, k # "Password" PROVE a[k] \in Texts
  BY <1>1, <1>2, <1>3
<1>4. ASSUME NEW k \in DOMAIN a \cap Keys PROVE a[k] \in TextsOf(k)
  <2>1. k \notin DbKeys BY KeysAre
  <2>2. CASE k = "Password" BY <1>1, <2>2 DEF TextsOf
  <2>3. CASE k # "Password" BY <1>3, <2>1, <2>3 DEF TextsOf
  <2> QED BY <2>2, <2>3
<1> QED BY <1>3, <1>4, KeysAre

\* The fields of an entry.
LEMMA EntryFields ==
  ASSUME NEW e
  PROVE  e \in EntrySet <=>
           /\ e = [values |-> e.values, att |-> e.att, settings |-> e.settings, hist |-> e.hist]
           /\ e.values \in ValueSet /\ e.att \in Attachments
           /\ e.settings \in {Empty, "ssh-key"} /\ e.hist \in Seq(VersionSet)
  BY DEF EntrySet

LEMMA EntryMade ==
  ASSUME NEW v \in ValueSet, NEW a \in Attachments, NEW t \in {Empty, "ssh-key"},
         NEW h \in Seq(VersionSet)
  PROVE  [values |-> v, att |-> a, settings |-> t, hist |-> h] \in EntrySet
  BY DEF EntrySet

\* Other values of an entry.
LEMMA WithValues ==
  ASSUME NEW e \in EntrySet, NEW v \in ValueSet
  PROVE  LET f == [e EXCEPT !.values = v] IN
         /\ f \in EntrySet /\ f.values = v
         /\ f.att = e.att /\ f.settings = e.settings /\ f.hist = e.hist
<1> DEFINE f == [e EXCEPT !.values = v]
<1>1. /\ e.att \in Attachments /\ e.settings \in {Empty, "ssh-key"} /\ e.hist \in Seq(VersionSet)
  BY EntryFields
<1>2. f = [values |-> v, att |-> e.att, settings |-> e.settings, hist |-> e.hist]
  BY DEF EntrySet
<1> HIDE DEF f
<1>3. f \in EntrySet BY <1>1, <1>2, EntryMade
<1>4. /\ f.values = v /\ f.att = e.att /\ f.settings = e.settings /\ f.hist = e.hist
  BY <1>2
<1> QED BY <1>3, <1>4 DEF f

\* Another value under one key of an entry.
LEMMA WithValue ==
  ASSUME NEW e \in EntrySet, NEW k \in Keys, NEW t \in TextsOf(k)
  PROVE  LET f == [e EXCEPT !.values[k] = t] IN
         /\ f \in EntrySet /\ f.values[k] = t /\ \A x \in Keys : x # k => f.values[x] = e.values[x]
         /\ f.att = e.att /\ f.settings = e.settings /\ f.hist = e.hist
<1> DEFINE v == [e.values EXCEPT ![k] = t]  f == [e EXCEPT !.values[k] = t]
<1>1. e.values \in ValueSet BY EntryFields
<1>2. v \in ValueSet /\ v[k] = t /\ \A x \in Keys : x # k => v[x] = e.values[x]
  BY <1>1, ValueSetTo
<1>3. f = [e EXCEPT !.values = v] OBVIOUS
<1> HIDE DEF v, f
<1>4. /\ f \in EntrySet /\ f.values = v
      /\ f.att = e.att /\ f.settings = e.settings /\ f.hist = e.hist
  BY <1>2, <1>3, WithValues
<1> QED BY <1>2, <1>4 DEF f

\* A change of values concerns neither the attachments nor the history.
LEMMA Surface ==
  ASSUME NEW e \in EntrySet, NEW f \in EntrySet, NEW b,
         f.att = e.att, f.settings = e.settings, f.hist = e.hist,
         f.values["Title"] \in Texts \/ f.values["Title"] = e.values["Title"]
  PROVE  (EntryOK(e) => EntryOK(f)) /\ (AllSound(e, b) => AllSound(f, b))
<1>1. \A v : v \in Versions(f) => v = f \/ v \in Versions(e) BY DEF Versions
<1>2. e \in Versions(e) BY DEF Versions
<1>3. Sound(e, b) => Sound(f, b) BY DEF Sound
<1>4. AllSound(e, b) => AllSound(f, b) BY <1>1, <1>2, <1>3 DEF AllSound
<1>5. EntryOK(e) => EntryOK(f) BY <1>1, <1>2 DEF EntryOK
<1> QED BY <1>4, <1>5

\* appendHistory archives what the entry is and changes nothing else.
LEMMA Appended ==
  ASSUME NEW e \in EntrySet, NEW b, maxItems \in Nat
  PROVE  LET g == appendHistory(e) IN
         /\ g \in EntrySet
         /\ g.hist = trimHistory(Append(e.hist, Version(e)))
         /\ g.values = e.values
         /\ g.att = e.att /\ g.settings = e.settings
         /\ EntryOK(e) => EntryOK(g)
         /\ AllSound(e, b) => AllSound(g, b)
<1> DEFINE g == appendHistory(e)  all == Append(e.hist, Version(e))
<1> HIDE DEF g, all
<1>e. /\ e.values \in ValueSet /\ e.att \in Attachments
      /\ e.settings \in {Empty, "ssh-key"} /\ e.hist \in Seq(VersionSet)
  BY EntryFields
<1>v. Version(e) = [values |-> e.values, att |-> e.att, settings |-> e.settings, hist |-> <<>>]
  BY DEF Version, EntrySet
<1>1. Version(e) \in VersionSet BY <1>e, <1>v DEF VersionSet
<1>2. all \in Seq(VersionSet) /\ Len(all) = Len(e.hist) + 1
  BY <1>e, <1>1 DEF all
<1>3. \A k \in 1..Len(all) : all[k] = Version(e) \/ \E j \in DOMAIN e.hist : all[k] = e.hist[j]
  <2>1. \A k \in 1..Len(e.hist) : all[k] = e.hist[k] BY <1>e, <1>1 DEF all
  <2>2. all[Len(e.hist) + 1] = Version(e) BY <1>e, <1>1 DEF all
  <2>3. DOMAIN e.hist = 1..Len(e.hist) /\ Len(e.hist) \in Nat BY <1>e
  <2> QED BY <1>2, <2>1, <2>2, <2>3
<1>4. PICK i \in 0..Len(all) : trimHistory(all) = SubSeq(all, i + 1, Len(all))
  BY <1>2, Trimmed
<1> DEFINE t == trimHistory(all)
<1>5. t \in Seq(VersionSet) /\ Len(t) = Len(all) - i /\ \A k \in 1..Len(t) : t[k] = all[i + k]
  <2> DEFINE u == SubSeq(all, i + 1, Len(all))
  <2>1. /\ u \in Seq(VersionSet) /\ Len(u) = Len(all) - i
        /\ \A k \in 1..Len(u) : u[k] = all[i + k]
    BY <1>2, FromVersion
  <2> HIDE DEF u
  <2>2. t = u BY <1>4 DEF t, u
  <2> QED BY <2>1, <2>2
<1>6. g = [values |-> e.values, att |-> e.att, settings |-> e.settings, hist |-> t]
  BY DEF appendHistory, EntrySet, g, t, all
<1> HIDE DEF t
<1>7. g \in EntrySet BY <1>e, <1>5, <1>6 DEF EntrySet
<1>8. \A v \in ToSet(t) : v = Version(e) \/ v \in ToSet(e.hist)
  <2> SUFFICES ASSUME NEW k \in DOMAIN t PROVE t[k] = Version(e) \/ t[k] \in ToSet(e.hist)
    BY DEF ToSet
  <2>1. k \in 1..Len(t) /\ i + k \in 1..Len(all) BY <1>2, <1>5
  <2> QED BY <2>1, <1>3, <1>5 DEF ToSet
<1>9. \A v \in Versions(g) : v = g \/ v = Version(e) \/ v \in Versions(e)
  BY <1>6, <1>8 DEF Versions
<1>10. /\ g.values = e.values /\ Version(e).values = e.values
       /\ g.att = e.att /\ Version(e).att = e.att /\ g.settings = e.settings /\ g.hist = t
  BY <1>6, <1>v
<1>11. e \in Versions(e) BY DEF Versions
<1>12. EntryOK(e) => EntryOK(g) BY <1>9, <1>10, <1>11 DEF EntryOK
<1>13. Sound(e, b) => Sound(g, b) /\ Sound(Version(e), b) BY <1>10 DEF Sound
<1>14. AllSound(e, b) => AllSound(g, b) BY <1>9, <1>11, <1>13 DEF AllSound
<1> QED BY <1>7, <1>10, <1>12, <1>14 DEF g, t, all

\* The values of a new item, or of one that is replaced, are texts.
LEMMA FieldsGiven ==
  ASSUME NEW label \in Titles \cup {Empty}, NEW attrs \in Attrs, NEW e \in EntrySet,
         NEW p \in Passwords
  PROVE  LET f == applyEntryFields(e, label, attrs, p) IN
         /\ f \in EntrySet /\ f.values["Title"] \in Texts
         /\ f.att = e.att /\ f.settings = e.settings /\ f.hist = e.hist
<1> DEFINE Given(k) == IF k \in DOMAIN attrs THEN attrs[k] ELSE Empty
           G1 == Given("title")  G2 == Given("application")
           titles == <<label, G1, G2, "Secret_Service_Item">>
           I == {i \in 1..Len(titles) : titles[i] # Empty}
           title == titles[SelectInSeq(titles, LAMBDA t : t # Empty)]
           f == applyEntryFields(e, label, attrs, p)
<1>1. G1 \in Texts /\ G2 \in Texts BY AttrsAre DEF Texts
<1>f. f = [e EXCEPT !.values = [k \in Keys |-> IF k \in DOMAIN attrs THEN attrs[k]
                                             ELSE IF k = "Title" THEN title
                                             ELSE IF k = "Password" THEN p ELSE @[k]]]
  BY DEF applyEntryFields
<1>s. SelectInSeq(titles, LAMBDA t : t # Empty) = IF I # {} THEN Min(I) ELSE 0
  BY DEF SelectInSeq
<1> HIDE DEF G1, G2, f
<1>3. title \in Texts
  <2>1. Len(titles) = 4 /\ titles[4] = "Secret_Service_Item" OBVIOUS
  <2>a. 4 \in 1..Len(titles) /\ titles[4] # Empty BY <2>1, EmptyIs
  <2>b. 4 \in I BY <2>a
  <2>2. 4 \in I /\ I \in SUBSET Nat BY <2>b
  <2>3. \E x \in I : \A y \in I : x <= y BY <2>2, LeastElement
  <2>4. Min(I) \in I BY <2>3 DEF Min
  <2>c. label \in Texts /\ G1 \in Texts /\ G2 \in Texts /\ "Secret_Service_Item" \in Texts
    BY <1>1 DEF Texts
  <2>d. titles[1] = label /\ titles[2] = G1 /\ titles[3] = G2 OBVIOUS
  <2>e. \A i \in 1..4 : i = 1 \/ i = 2 \/ i = 3 \/ i = 4 OBVIOUS
  <2> HIDE DEF titles
  <2>5. \A i \in 1..4 : titles[i] \in Texts BY <2>1, <2>c, <2>d, <2>e
  <2> QED BY <1>s, <2>1, <2>2, <2>4, <2>5
<1> HIDE DEF title
<1> DEFINE v == [k \in Keys |-> IF k \in DOMAIN attrs THEN attrs[k]
                              ELSE IF k = "Title" THEN title
                              ELSE IF k = "Password" THEN p ELSE e.values[k]]
<1>4. f = [e EXCEPT !.values = v] BY <1>f
<1>5. e.values \in ValueSet BY EntryFields
<1>6. \A k \in Keys : e.values[k] \in TextsOf(k) BY <1>5, ValuesAre
<1>7. title \in TextsOf("Title") /\ p \in TextsOf("Password") BY <1>3 DEF TextsOf
<1>8. v = [k \in Keys |-> v[k]] OBVIOUS
<1>9. ASSUME NEW k \in Keys PROVE v[k] \in TextsOf(k)
  <2>1. CASE k \in DOMAIN attrs BY <2>1, AttrsAre
  <2>2. CASE k \notin DOMAIN attrs BY <2>2, <1>6, <1>7
  <2> QED BY <2>1, <2>2
<1>10. v["Title"] \in Texts BY <1>3, AttrsAre, KeysAre
<1> HIDE DEF v
<1>11. v \in ValueSet BY <1>8, <1>9, ValuesMade
<1>12. /\ f \in EntrySet /\ f.values = v
       /\ f.att = e.att /\ f.settings = e.settings /\ f.hist = e.hist
  BY <1>4, <1>11, WithValues
<1> QED BY <1>10, <1>12 DEF f

\* The secret of an entry is overwritten with other fields (CreateItem).
LEMMA Replaced ==
  ASSUME NEW e \in EntrySet, NEW b, maxItems \in Nat,
         NEW label \in Titles \cup {Empty}, NEW attrs \in Attrs, NEW p \in Passwords
  PROVE  Derived(e, applyEntryFields(appendHistory(e), label, attrs, p), b)
<1> DEFINE g == appendHistory(e)  f == applyEntryFields(g, label, attrs, p)
<1>1. /\ g \in EntrySet
      /\ g.hist = trimHistory(Append(e.hist, Version(e)))
      /\ EntryOK(e) => EntryOK(g)
      /\ AllSound(e, b) => AllSound(g, b)
  BY Appended
<1> HIDE DEF g
<1>2. /\ f \in EntrySet /\ f.values["Title"] \in Texts
      /\ f.att = g.att /\ f.settings = g.settings /\ f.hist = g.hist
  BY <1>1, FieldsGiven
<1> HIDE DEF f
<1>3. (EntryOK(g) => EntryOK(f)) /\ (AllSound(g, b) => AllSound(f, b))
  BY <1>1, <1>2, Surface
<1>4. Derived(e, f, b) BY <1>1, <1>2, <1>3 DEF Derived, Formed, Kept
<1> QED BY <1>4 DEF f, g

\* The secret alone is overwritten (SetSecret).
LEMMA SecretSet ==
  ASSUME NEW e \in EntrySet, NEW b, maxItems \in Nat, NEW p \in Passwords
  PROVE  Derived(e, [appendHistory(e) EXCEPT !.values["Password"] = p], b)
<1> DEFINE g == appendHistory(e)  f == [g EXCEPT !.values["Password"] = p]
<1>1. /\ g \in EntrySet
      /\ g.hist = trimHistory(Append(e.hist, Version(e)))
      /\ EntryOK(e) => EntryOK(g)
      /\ AllSound(e, b) => AllSound(g, b)
  BY Appended
<1> HIDE DEF g
<1>2. p \in TextsOf("Password") BY DEF TextsOf
<1>3. /\ f \in EntrySet /\ \A x \in Keys : x # "Password" => f.values[x] = g.values[x]
      /\ f.att = g.att /\ f.settings = g.settings /\ f.hist = g.hist
  BY <1>1, <1>2, KeysAre, WithValue
<1> HIDE DEF f
<1>4. f.values["Title"] = g.values["Title"] BY <1>3, KeysAre
<1>5. (EntryOK(g) => EntryOK(f)) /\ (AllSound(g, b) => AllSound(f, b))
  BY <1>1, <1>3, <1>4, Surface
<1>6. Derived(e, f, b) BY <1>1, <1>3, <1>5 DEF Derived, Formed, Kept
<1> QED BY <1>6 DEF f, g

\* A new label leaves the rest.
LEMMA Labelled ==
  ASSUME NEW e \in EntrySet, NEW b, NEW label \in Titles
  PROVE  Derived(e, [e EXCEPT !.values["Title"] = label], b)
<1> DEFINE f == [e EXCEPT !.values["Title"] = label]
<1>1. label \in Texts /\ label \in TextsOf("Title") BY DEF Texts, TextsOf
<1>2. /\ f \in EntrySet /\ f.values["Title"] = label
      /\ \A x \in Keys : x # "Title" => f.values[x] = e.values[x]
      /\ f.att = e.att /\ f.settings = e.settings /\ f.hist = e.hist
  BY <1>1, KeysAre, WithValue
<1> HIDE DEF f
<1>3. (EntryOK(e) => EntryOK(f)) /\ (AllSound(e, b) => AllSound(f, b))
  BY <1>1, <1>2, Surface
<1>4. f.values["Password"] = e.values["Password"] BY <1>2, KeysAre
<1>5. Derived(e, f, b) BY <1>2, <1>3, <1>4 DEF Derived, Formed, Kept
<1> QED BY <1>5 DEF f

\* New attributes leave the history alone, and the password unless they have one.
LEMMA Attributed ==
  ASSUME NEW e \in EntrySet, NEW b, NEW attrs \in Attrs
  PROVE  LET f == applyEntryAttributes(e, attrs) IN
         /\ Formed(e, f, b) /\ f.hist = e.hist
         /\ f.values["Password"] = IF "Password" \in DOMAIN attrs THEN attrs["Password"]
                                   ELSE e.values["Password"]
<1> DEFINE f == applyEntryAttributes(e, attrs)
           v == [k \in Keys |-> IF k \in DOMAIN attrs THEN attrs[k]
                              ELSE IF k = "Title" /\ "title" \in DOMAIN attrs THEN attrs["title"]
                              ELSE e.values[k]]
<1>1. f = [e EXCEPT !.values = v] BY DEF applyEntryAttributes
<1>2. e.values \in ValueSet BY EntryFields
<1>3. \A k \in Keys : e.values[k] \in TextsOf(k) BY <1>2, ValuesAre
<1>4. v = [k \in Keys |-> v[k]] OBVIOUS
<1>5. ASSUME NEW k \in Keys PROVE v[k] \in TextsOf(k)
  <2>1. CASE k \in DOMAIN attrs BY <2>1, AttrsAre
  <2>2. CASE k \notin DOMAIN attrs /\ k = "Title" /\ "title" \in DOMAIN attrs
    BY <2>2, AttrsAre DEF TextsOf
  <2>3. CASE k \notin DOMAIN attrs /\ ~(k = "Title" /\ "title" \in DOMAIN attrs)
    BY <2>3, <1>3
  <2> QED BY <2>1, <2>2, <2>3
<1>6. v["Title"] \in Texts \/ v["Title"] = e.values["Title"] BY AttrsAre, KeysAre
<1>7. v["Password"] = IF "Password" \in DOMAIN attrs THEN attrs["Password"]
                      ELSE e.values["Password"]
  BY KeysAre
<1> HIDE DEF v, f
<1>8. v \in ValueSet BY <1>4, <1>5, ValuesMade
<1>9. /\ f \in EntrySet /\ f.values = v
      /\ f.att = e.att /\ f.settings = e.settings /\ f.hist = e.hist
  BY <1>1, <1>8, WithValues
<1>10. f.values["Title"] \in Texts \/ f.values["Title"] = e.values["Title"] BY <1>6, <1>9
<1>11. (EntryOK(e) => EntryOK(f)) /\ (AllSound(e, b) => AllSound(f, b))
  BY <1>9, <1>10, Surface
<1>12. Formed(e, f, b) BY <1>9, <1>11 DEF Formed
<1> QED BY <1>7, <1>9, <1>12 DEF f

\* What WithKey changes.
LEMMA WithKeyFields ==
  ASSUME NEW e \in EntrySet, NEW id \in Nat, NEW k \in PrivateKeys
  PROVE  LET f == WithKey(e, id, k) IN
         /\ f \in EntrySet
         /\ f.values = e.values /\ f.hist = e.hist
         /\ f.settings = "ssh-key" /\ f.att["ssh-key"] = [id |-> id, content |-> k]
         /\ \A n \in NameSet : n # "ssh-key" => f.att[n] = e.att[n]
<1> DEFINE a == [e.att EXCEPT !["ssh-key"] = [id |-> id, content |-> k]]
           f == WithKey(e, id, k)
<1>1. e.att \in [NameSet -> [id : Nat, content : Contents]] BY EntryFields DEF Attachments
<1>2. [id |-> id, content |-> k] \in [id : Nat, content : Contents] BY DEF Contents
<1>3. "ssh-key" \in NameSet BY DEF NameSet
<1>4. a \in [NameSet -> [id : Nat, content : Contents]] BY <1>1, <1>2
<1>5. a["ssh-key"] = [id |-> id, content |-> k] BY <1>1, <1>3
<1>6. \A n \in NameSet : n # "ssh-key" => a[n] = e.att[n] BY <1>1
<1>7. f = [e EXCEPT !.att = a, !.settings = "ssh-key"] BY DEF WithKey, EntrySet
<1> HIDE DEF a, f
<1>8. f = [values |-> e.values, att |-> a, settings |-> "ssh-key", hist |-> e.hist]
  BY <1>7 DEF EntrySet
<1>9. f \in EntrySet BY <1>4, <1>8, EntryFields DEF EntrySet, Attachments
<1>10. /\ f.values = e.values /\ f.hist = e.hist
       /\ f.settings = "ssh-key" /\ f.att = a
  BY <1>8
<1> QED BY <1>5, <1>6, <1>9, <1>10 DEF f

\* A key that is among the attachments.
LEMMA Keyed ==
  ASSUME NEW e \in EntrySet, NEW b \in Seq(Contents), NEW k \in PrivateKeys,
         NEW id \in 1..Len(b), b[id] = k
  PROVE  Derived(e, WithKey(e, id, k), b)
<1> DEFINE f == WithKey(e, id, k)
<1>0. id \in Nat /\ id # 0 /\ id \in 0..Len(b) /\ id \in DOMAIN b OBVIOUS
<1>1. /\ f \in EntrySet
      /\ f.values = e.values /\ f.hist = e.hist
      /\ f.settings = "ssh-key" /\ f.att["ssh-key"] = [id |-> id, content |-> k]
      /\ \A n \in NameSet : n # "ssh-key" => f.att[n] = e.att[n]
  BY <1>0, WithKeyFields
<1> HIDE DEF f
<1>2. f.att["ssh-key"].id = id /\ f.att["ssh-key"].content = k BY <1>1
<1>3. \A v : v \in Versions(f) => v = f \/ v \in Versions(e) BY <1>1 DEF Versions
<1>4. e \in Versions(e) BY DEF Versions
<1>5. EntryOK(e) => EntryOK(f) BY <1>0, <1>1, <1>2, <1>3, <1>4 DEF EntryOK
<1>6. FindBinary(b, id) = k BY <1>0 DEF FindBinary
<1>7. Sound(e, b) => Sound(f, b) BY <1>0, <1>1, <1>2, <1>6 DEF Sound
<1>8. AllSound(e, b) => AllSound(f, b) BY <1>3, <1>4, <1>7 DEF AllSound
<1>9. Derived(e, f, b) BY <1>1, <1>5, <1>8 DEF Derived, Formed, Kept
<1> QED BY <1>9 DEF f

\* A comment is a note.
LEMMA Commented ==
  ASSUME NEW e \in EntrySet, NEW b, NEW comment \in Texts
  PROVE  LET f == [e EXCEPT !.values["Notes"] = comment] IN
         /\ f \in EntrySet /\ f.att = e.att /\ f.settings = e.settings /\ f.hist = e.hist
         /\ f.values["Password"] = e.values["Password"]
         /\ (EntryOK(e) => EntryOK(f)) /\ (AllSound(e, b) => AllSound(f, b))
<1> DEFINE f == [e EXCEPT !.values["Notes"] = comment]
<1>1. comment \in TextsOf("Notes") BY DEF TextsOf
<1>2. /\ f \in EntrySet /\ \A x \in Keys : x # "Notes" => f.values[x] = e.values[x]
      /\ f.att = e.att /\ f.settings = e.settings /\ f.hist = e.hist
  BY <1>1, KeysAre, WithValue
<1> HIDE DEF f
<1>3. f.values["Title"] = e.values["Title"] /\ f.values["Password"] = e.values["Password"]
  BY <1>2, KeysAre
<1>4. (EntryOK(e) => EntryOK(f)) /\ (AllSound(e, b) => AllSound(f, b))
  BY <1>2, <1>3, Surface
<1> QED BY <1>2, <1>3, <1>4 DEF f

\* A new entry has nothing attached.
Begun(f, b) == f \in EntrySet /\ EntryOK(f) /\ AllSound(f, b)

LEMMA Blank ==
  ASSUME NEW b \in Seq(Contents), NEW f \in EntrySet,
         f.values["Title"] \in Texts, f.settings = Empty, f.hist = <<>>, f.att = NewEntry.att
  PROVE  Begun(f, b)
<1>1. NewEntry.att = [n \in NameSet |-> Unattached]
  BY NamesAre DEF NewEntry
<1>2. \A n \in NameSet : f.att[n] = Unattached BY <1>1
<1>3. Unattached.id = 0 /\ Unattached.content = Empty BY DEF Unattached
<1>4. FindBinary(b, 0) = Empty /\ 0 \in 0..Len(b) BY DEF FindBinary
<1>5. ToSet(f.hist) = {} BY DEF ToSet
<1>6. Versions(f) = {f} BY <1>5 DEF Versions
<1>7. Sound(f, b) BY <1>2, <1>3, <1>4 DEF Sound
<1> QED BY <1>6, <1>7, EmptyIs DEF Begun, EntryOK, AllSound

LEMMA NewEntryType ==
  NewEntry \in EntrySet /\ NewEntry.settings = Empty /\ NewEntry.hist = <<>>
<1> DEFINE a == [n \in ToSet(Names) |-> Unattached]  v == [k \in Keys |-> Empty]
<1>1. a \in Attachments BY NamesAre DEF Attachments, Unattached, Contents
<1>2. <<>> \in Seq(VersionSet) OBVIOUS
<1>3. NewEntry = [values |-> v, att |-> a, settings |-> Empty, hist |-> <<>>]
  BY DEF NewEntry
<1>4. v = [k \in Keys |-> v[k]] /\ \A k \in Keys : v[k] \in TextsOf(k)
  BY DEF TextsOf, Texts
<1> HIDE DEF a, v
<1>5. v \in ValueSet BY <1>4, ValuesMade
<1>6. NewEntry \in EntrySet BY <1>1, <1>2, <1>3, <1>5, EntryMade
<1> QED BY <1>3, <1>6

\* A new entry with a title.
LEMMA TitledType ==
  ASSUME NEW t \in Texts \cup {"no_entry"}
  PROVE  /\ Titled(t) \in EntrySet /\ Titled(t).values["Title"] = t
         /\ Titled(t).settings = Empty /\ Titled(t).hist = <<>> /\ Titled(t).att = NewEntry.att
<1>1. t \in TextsOf("Title") BY DEF TextsOf
<1>2. PICK e \in EntrySet : e = NewEntry BY NewEntryType
<1> DEFINE f == [e EXCEPT !.values["Title"] = t]
<1>3. /\ f \in EntrySet /\ f.values["Title"] = t
      /\ f.att = e.att /\ f.settings = e.settings /\ f.hist = e.hist
  BY <1>1, KeysAre, WithValue
<1>4. Titled(t) = f BY <1>2 DEF Titled
<1> HIDE DEF f
<1> QED BY <1>2, <1>3, <1>4, NewEntryType

LEMMA NoEntryType == NoEntry \in EntrySet
  BY TitledType DEF NoEntry

\* The entry that CreateItem adds, and the one a key is stored in.
LEMMA NewItem ==
  ASSUME NEW b \in Seq(Contents),
         NEW label \in Titles \cup {Empty}, NEW attrs \in Attrs, NEW p \in Passwords
  PROVE  Begun(applyEntryFields(NewEntry, label, attrs, p), b)
<1> DEFINE f == applyEntryFields(NewEntry, label, attrs, p)
<1>1. /\ f \in EntrySet /\ f.values["Title"] \in Texts
      /\ f.att = NewEntry.att /\ f.settings = NewEntry.settings /\ f.hist = NewEntry.hist
  BY NewEntryType, FieldsGiven
<1> HIDE DEF f
<1>2. Begun(f, b) BY <1>1, NewEntryType, Blank
<1> QED BY <1>2 DEF f

LEMMA NewKeyEntry ==
  ASSUME NEW b \in Seq(Contents), NEW path \in Titles
  PROVE  Begun(Titled(path), b)
<1>1. path \in Texts BY DEF Texts
<1> QED BY <1>1, TitledType, Blank

-----------------------------------------------------------------------------
(* What the updates make of the tree *)

\* r2 is what an update may make of r when the attachments are b.
Changed(r, r2, b) ==
  /\ TreeOK(r2) /\ r2.gen = r.gen
  /\ TreeSound(r, b) => TreeSound(r2, b)

\* And it respects the histories.
Updated(r, r2, b) ==
  Changed(r, r2, b) /\ \A t \in Live(r) \cap Live(r2) : Kept(r.entry[t], r2.entry[t])

\* The fields of the tree, and which entries are in it.
LEMMA TreeFields ==
  ASSUME NEW r, r \in TreeSet
  PROVE  /\ r = [groups |-> r.groups, content |-> r.content, entry |-> r.entry, gen |-> r.gen]
         /\ r.groups \in Seq(GroupSet)
         /\ r.content \in Seq(Seq(Slots)) /\ r.entry \in [Slots -> EntrySet] /\ r.gen \in Nat
  BY DEF TreeSet

LEMMA TreeMade ==
  ASSUME NEW gs \in Seq(GroupSet), NEW c \in Seq(Seq(Slots)),
         NEW es \in [Slots -> EntrySet], NEW n \in Nat
  PROVE  [groups |-> gs, content |-> c, entry |-> es, gen |-> n] \in TreeSet
  BY DEF TreeSet

LEMMA LiveIs ==
  ASSUME NEW r, r \in TreeSet, Len(r.content) = Len(r.groups)
  PROVE  /\ \A s : s \in Live(r) <=> \E g \in DOMAIN r.content : \E i \in DOMAIN r.content[g] :
                                       r.content[g][i] = s
         /\ Live(r) \subseteq Slots
<1>1. r.content \in Seq(Seq(Slots)) /\ r.groups \in Seq(GroupSet)
  BY TreeFields
<1>2. DOMAIN r.content = AllGroups(r) BY <1>1 DEF AllGroups
<1>3. \A s : s \in Live(r) <=> \E g \in DOMAIN r.content : \E i \in DOMAIN r.content[g] :
                                 r.content[g][i] = s
  BY <1>2 DEF Live, ToSet
<1>4. ASSUME NEW g \in DOMAIN r.content, NEW i \in DOMAIN r.content[g]
      PROVE  r.content[g][i] \in Slots
  <2>1. r.content[g] \in Seq(Slots) BY <1>1
  <2> QED BY <2>1
<1> QED BY <1>3, <1>4

\* One entry is changed.
LEMMA EntryChanged ==
  ASSUME NEW r, TreeOK(r), NEW b, NEW s, NEW f, s \in Slots => Formed(r.entry[s], f, b)
  PROVE  LET r2 == [r EXCEPT !.entry[s] = f] IN
         /\ Changed(r, r2, b) /\ Live(r2) = Live(r)
         /\ \A t \in Live(r) : t \in Slots /\ r2.entry[t] = IF t = s THEN f ELSE r.entry[t]
<1> DEFINE es == [r.entry EXCEPT ![s] = f]  r2 == [r EXCEPT !.entry[s] = f]
<1>1. r \in TreeSet /\ r.entry \in [Slots -> EntrySet] BY TreeFields DEF TreeOK
<1>3. \A t \in Slots : es[t] = IF t = s THEN f ELSE r.entry[t] BY <1>1
<1>4. es \in [Slots -> EntrySet] BY <1>1, <1>3 DEF Formed
<1>a. r2 = [r EXCEPT !.entry = es] OBVIOUS
<1> HIDE DEF es, r2
<1>2. r2 = [groups |-> r.groups, content |-> r.content, entry |-> es, gen |-> r.gen]
  BY <1>1, <1>a DEF TreeSet
<1>5. r2 \in TreeSet BY <1>1, <1>2, <1>4, TreeFields, TreeMade
<1>6. r2.groups = r.groups /\ r2.content = r.content /\ r2.entry = es /\ r2.gen = r.gen
  BY <1>2
<1>7. Live(r2) = Live(r) /\ AllGroups(r2) = AllGroups(r) BY <1>6 DEF Live, AllGroups
<1>8. Live(r) \subseteq Slots BY <1>1, LiveIs DEF TreeOK
<1>9. ASSUME NEW t \in Live(r) PROVE EntryOK(es[t])
  BY <1>3, <1>8, <1>9 DEF TreeOK, Formed
<1>10. TreeOK(r2) BY <1>5, <1>6, <1>7, <1>9 DEF TreeOK
<1>11. TreeSound(r, b) => TreeSound(r2, b)
  BY <1>3, <1>6, <1>7, <1>8 DEF TreeSound, Formed
<1>12. \A t \in Live(r) : t \in Slots /\ r2.entry[t] = IF t = s THEN f ELSE r.entry[t]
  BY <1>3, <1>6, <1>8
<1>13. Changed(r, r2, b) BY <1>6, <1>10, <1>11 DEF Changed
<1> QED BY <1>7, <1>12, <1>13 DEF r2

\* One entry is changed with respect to its history.
LEMMA EntryUpdated ==
  ASSUME NEW r, TreeOK(r), NEW b, NEW s, NEW f, s \in Slots => Derived(r.entry[s], f, b)
  PROVE  Updated(r, [r EXCEPT !.entry[s] = f], b)
<1> DEFINE r2 == [r EXCEPT !.entry[s] = f]
<1>1. s \in Slots => Formed(r.entry[s], f, b) BY DEF Derived
<1>2. /\ Changed(r, r2, b) /\ Live(r2) = Live(r)
      /\ \A t \in Live(r) : t \in Slots /\ r2.entry[t] = IF t = s THEN f ELSE r.entry[t]
  BY <1>1, EntryChanged
<1> HIDE DEF r2
<1>3. ASSUME NEW t \in Live(r) PROVE Kept(r.entry[t], r2.entry[t])
  <2>1. CASE t = s BY <2>1, <1>2 DEF Derived
  <2>2. CASE t # s BY <2>2, <1>2 DEF Kept
  <2> QED BY <2>1, <2>2
<1>4. Updated(r, r2, b) BY <1>2, <1>3 DEF Updated
<1> QED BY <1>4 DEF r2

\* The slot of a new entry is not in use.
LEMMA Unused ==
  ASSUME NEW r, FreshSlot(r) # 0
  PROVE  FreshSlot(r) \in Slots \ Live(r)
  BY DEF FreshSlot

\* One entry is added, to a group of the tree or to none.
LEMMA EntryAdded ==
  ASSUME NEW r, TreeOK(r), NEW b, NEW g, NEW s \in Slots \ Live(r), NEW f, Begun(f, b)
  PROVE  LET r2 == Insert(r, g, s, f) IN
         /\ Updated(r, r2, b)
         /\ \A t \in Live(r) : t # s /\ t \in Live(r2) /\ r2.entry[t] = r.entry[t]
         /\ r2.entry[s] = f /\ (g \in AllGroups(r) => s \in Live(r2))
         /\ \A t \in Live(r2) : t = s \/ t \in Live(r)
<1> DEFINE es == [r.entry EXCEPT ![s] = f]  c == [r.content EXCEPT ![g] = Append(@, s)]
           r2 == Insert(r, g, s, f)
<1>1. /\ r \in TreeSet /\ r.entry \in [Slots -> EntrySet] /\ r.content \in Seq(Seq(Slots))
      /\ r.groups \in Seq(GroupSet)
  BY TreeFields DEF TreeOK
<1>3. \A t \in Slots : es[t] = IF t = s THEN f ELSE r.entry[t] BY <1>1
<1>4. es \in [Slots -> EntrySet] BY <1>1, <1>3 DEF Begun
<1>5. \A h \in DOMAIN r.content : r.content[h] \in Seq(Slots) BY <1>1
<1>6. DOMAIN c = DOMAIN r.content /\ DOMAIN c = 1..Len(r.content) BY <1>1
<1>7. \A h \in DOMAIN c : c[h] = IF h = g THEN Append(r.content[h], s) ELSE r.content[h]
  BY <1>1
<1>8. \A h \in DOMAIN c : c[h] \in Seq(Slots) BY <1>5, <1>6, <1>7
<1>9. c \in Seq(Seq(Slots)) /\ Len(c) = Len(r.content)
  <2>1. Len(r.content) \in Nat BY <1>1
  <2>2. c = [h \in 1..Len(r.content) |-> c[h]] BY <1>6
  <2> HIDE DEF c
  <2>3. \A h \in 1..Len(r.content) : c[h] \in Seq(Slots) BY <1>6, <1>8
  <2> QED BY <2>1, <2>2, <2>3
<1>a. r2 = [r EXCEPT !.content = c, !.entry = es] BY DEF Insert
<1> HIDE DEF es, c, r2
<1>2. r2 = [groups |-> r.groups, content |-> c, entry |-> es, gen |-> r.gen]
  BY <1>1, <1>a DEF TreeSet
<1>10. r2 \in TreeSet BY <1>1, <1>2, <1>4, <1>9, TreeFields, TreeMade
<1>11. r2.groups = r.groups /\ r2.content = c /\ r2.entry = es /\ r2.gen = r.gen
  BY <1>2
<1>12. AllGroups(r2) = AllGroups(r) /\ AllGroups(r) = DOMAIN c
  BY <1>6, <1>11 DEF AllGroups, TreeOK
<1>13. \A h \in DOMAIN c : \A i \in DOMAIN c[h] :
         \/ i \in DOMAIN r.content[h] /\ c[h][i] = r.content[h][i]
         \/ h = g /\ c[h][i] = s /\ i = Len(r.content[h]) + 1
  <2> TAKE h \in DOMAIN c
  <2> TAKE i \in DOMAIN c[h]
  <2>1. r.content[h] \in Seq(Slots) BY <1>5, <1>6
  <2>2. CASE h = g
    <3>1. c[h] = Append(r.content[h], s) BY <1>7, <2>2
    <3> QED BY <2>1, <2>2, <3>1
  <2>3. CASE h # g BY <1>7, <2>3
  <2> QED BY <2>2, <2>3
<1>14. \A h \in DOMAIN c : \A i \in DOMAIN r.content[h] :
         i \in DOMAIN c[h] /\ c[h][i] = r.content[h][i]
  <2> TAKE h \in DOMAIN c
  <2> TAKE i \in DOMAIN r.content[h]
  <2>1. r.content[h] \in Seq(Slots) BY <1>5, <1>6
  <2>2. CASE h = g
    <3>1. c[h] = Append(r.content[h], s) BY <1>7, <2>2
    <3> QED BY <2>1, <2>2, <3>1
  <2>3. CASE h # g BY <1>7, <2>3
  <2> QED BY <2>2, <2>3
<1>15. \A t : t \in Live(r) <=> \E h \in DOMAIN c : \E i \in DOMAIN r.content[h] :
                                  r.content[h][i] = t
  BY <1>1, <1>6, LiveIs DEF TreeOK
<1>16. /\ \A t : t \in Live(r2) <=> \E h \in DOMAIN c : \E i \in DOMAIN c[h] : c[h][i] = t
       /\ Live(r) \subseteq Slots
  <2>1. Len(r2.content) = Len(r2.groups) BY <1>9, <1>11 DEF TreeOK
  <2>2. \A t : t \in Live(r2) <=> \E h \in DOMAIN r2.content : \E i \in DOMAIN r2.content[h] :
                                     r2.content[h][i] = t
    BY <2>1, <1>10, LiveIs
  <2>3. Live(r) \subseteq Slots BY <1>1, LiveIs DEF TreeOK
  <2> QED BY <2>2, <2>3, <1>11
<1>17. \A t \in Live(r2) : t = s \/ t \in Live(r) BY <1>13, <1>15, <1>16
<1>18. \A t \in Live(r) : t \in Live(r2) /\ t # s BY <1>14, <1>15, <1>16
<1>19. ASSUME g \in AllGroups(r) PROVE s \in Live(r2)
  <2>1. g \in DOMAIN c /\ c[g] = Append(r.content[g], s) /\ r.content[g] \in Seq(Slots)
    BY <1>19, <1>5, <1>6, <1>7, <1>12
  <2>2. Len(r.content[g]) + 1 \in DOMAIN c[g] /\ c[g][Len(r.content[g]) + 1] = s BY <2>1
  <2> QED BY <2>1, <2>2, <1>16
<1>20. OnePlace(c)
  <2> SUFFICES ASSUME NEW h \in DOMAIN c, NEW k \in DOMAIN c, NEW i \in DOMAIN c[h],
                      NEW j \in DOMAIN c[k], c[h][i] = c[k][j]
               PROVE  h = k /\ i = j
    BY DEF OnePlace
  <2>1. OnePlace(r.content) BY DEF TreeOK
  <2>2. CASE c[h][i] = s
    <3>1. h = g /\ i = Len(r.content[h]) + 1 BY <2>2, <1>13, <1>15
    <3>2. k = g /\ j = Len(r.content[k]) + 1 BY <2>2, <1>13, <1>15
    <3> QED BY <3>1, <3>2
  <2>3. CASE c[h][i] # s
    <3>1. /\ i \in DOMAIN r.content[h] /\ c[h][i] = r.content[h][i]
          /\ j \in DOMAIN r.content[k] /\ c[k][j] = r.content[k][j]
      BY <2>3, <1>13
    <3>2. h \in DOMAIN r.content /\ k \in DOMAIN r.content /\ r.content[h][i] = r.content[k][j]
      BY <3>1, <1>6
    <3> QED BY <3>1, <3>2, <2>1 DEF OnePlace
  <2> QED BY <2>2, <2>3
<1>21. ASSUME NEW t \in Live(r2) PROVE EntryOK(es[t])
  BY <1>3, <1>16, <1>17 DEF TreeOK, Begun
<1>22. TreeOK(r2)
  BY <1>9, <1>10, <1>11, <1>12, <1>20, <1>21 DEF TreeOK
<1>23. TreeSound(r, b) => TreeSound(r2, b)
  BY <1>3, <1>11, <1>16, <1>17 DEF TreeSound, Begun
<1>24. \A t \in Live(r) : r2.entry[t] = r.entry[t] BY <1>3, <1>11, <1>16, <1>18
<1>25. Updated(r, r2, b) BY <1>11, <1>22, <1>23, <1>24 DEF Updated, Changed, Kept
<1>26. r2.entry[s] = f BY <1>3, <1>11
<1> QED BY <1>17, <1>18, <1>19, <1>24, <1>25, <1>26 DEF r2

\* A group is added below the first: the other groups and every entry stay.
LEMMA GroupMade ==
  ASSUME NEW r, TreeOK(r)
  PROVE  LET r2 == findOrCreateSecretServiceGroup(r).r IN
         /\ TreeOK(r2) /\ r2.entry = r.entry /\ r2.gen = r.gen /\ Live(r2) = Live(r)
<1> DEFINE there == SelectSeq(r.groups[1].kids, LAMBDA g : r.groups[g].name = "Secret_Service")
           n == Len(r.groups) + 1
           grown == [r.groups EXCEPT ![1].kids = Append(@, n)]
           gs == Append(grown, [name |-> "Secret_Service", kids |-> <<>>])
           c == Append(r.content, <<>>)
           r3 == [r EXCEPT !.groups = gs, !.content = c]
<1>1. /\ r \in TreeSet /\ r.entry \in [Slots -> EntrySet] /\ r.content \in Seq(Seq(Slots))
      /\ r.groups \in Seq(GroupSet) /\ r.gen \in Nat
      /\ r.groups # <<>> /\ Len(r.content) = Len(r.groups)
  BY TreeFields DEF TreeOK
<1>2. CASE there # <<>>
  <2>1. findOrCreateSecretServiceGroup(r) = [r |-> r, g |-> Head(there)]
    BY <1>2 DEF findOrCreateSecretServiceGroup
  <2> QED BY <2>1
<1>3. CASE ~(there # <<>>)
  <2>1. findOrCreateSecretServiceGroup(r) = [r |-> r3, g |-> n]
    BY <1>3 DEF findOrCreateSecretServiceGroup
  <2> HIDE DEF there
  <2>2. /\ 1 \in DOMAIN r.groups /\ Len(r.groups) \in Nat /\ DOMAIN r.groups = 1..Len(r.groups)
        /\ \A g \in DOMAIN r.groups : r.groups[g] \in GroupSet
    <3>1. r.groups \in Seq(GroupSet) /\ r.groups # <<>> BY <1>1
    <3>2. DOMAIN r.groups = 1..Len(r.groups) /\ Len(r.groups) \in Nat BY <3>1
    <3>3. Len(r.groups) # 0 BY <3>1
    <3>4. 1 \in DOMAIN r.groups BY <3>2, <3>3
    <3> QED BY <3>1, <3>2, <3>4
  <2> DEFINE first == [r.groups[1] EXCEPT !.kids = Append(@, n)]
  <2>3. r.groups[1] \in GroupSet BY <2>2
  <2>4. first \in GroupSet /\ first.kids = Append(r.groups[1].kids, n)
    <3> DEFINE old == r.groups[1]
    <3> HIDE DEF old
    <3>1. old \in GroupSet BY <2>3 DEF old
    <3>a. old.kids \in Seq(Nat) BY <3>1 DEF GroupSet
    <3>2. n \in Nat BY <2>2
    <3> HIDE DEF n
    <3> DEFINE k == Append(old.kids, n)
    <3>b. [old EXCEPT !.kids = Append(@, n)] = [old EXCEPT !.kids = k] OBVIOUS
    <3> HIDE DEF k
    <3>c. [old EXCEPT !.kids = k] = [name |-> old.name, kids |-> k] BY <3>1 DEF GroupSet
    <3>3. [old EXCEPT !.kids = Append(@, n)] = [name |-> old.name, kids |-> Append(old.kids, n)]
      BY <3>b, <3>c DEF k
    <3>4. Append(old.kids, n) \in Seq(Nat) BY <3>a, <3>2
    <3>5. /\ [old EXCEPT !.kids = Append(@, n)] \in GroupSet
          /\ [old EXCEPT !.kids = Append(@, n)].kids = Append(old.kids, n)
      BY <3>1, <3>3, <3>4 DEF GroupSet
    <3> QED BY <3>5 DEF old
  <2>5. grown = [r.groups EXCEPT ![1] = first] BY <2>2
  <2> HIDE DEF first, grown
  <2>6. grown \in Seq(GroupSet) /\ Len(grown) = Len(r.groups)
    BY <1>1, <2>2, <2>4, <2>5
  <2>7. \A g \in 1..Len(r.groups) : grown[g] = IF g = 1 THEN first ELSE r.groups[g]
    BY <2>2, <2>5
  <2>8. [name |-> "Secret_Service", kids |-> <<>>] \in GroupSet
    <3>1. <<>> \in Seq(Nat) OBVIOUS
    <3> QED BY <3>1 DEF GroupSet, GroupNames
  <2>9. /\ gs \in Seq(GroupSet) /\ Len(gs) = n
        /\ gs[n] = [name |-> "Secret_Service", kids |-> <<>>]
        /\ \A g \in 1..Len(r.groups) : gs[g] = grown[g]
    BY <2>2, <2>6, <2>8
  <2>10. /\ c \in Seq(Seq(Slots)) /\ Len(c) = n /\ c[n] = <<>>
         /\ \A g \in 1..Len(r.content) : c[g] = r.content[g]
    <3>1. <<>> \in Seq(Slots) OBVIOUS
    <3> QED BY <1>1, <2>2, <3>1
  <2> HIDE DEF gs, c, r3
  <2>11. r3 = [groups |-> gs, content |-> c, entry |-> r.entry, gen |-> r.gen]
    <3>1. r3 = [r EXCEPT !.groups = gs, !.content = c] BY DEF r3
    <3> QED BY <1>1, <3>1 DEF TreeSet
  <2>12. r3.groups = gs /\ r3.content = c /\ r3.entry = r.entry /\ r3.gen = r.gen
    BY <2>11
  <2>13. r3 \in TreeSet BY <1>1, <2>9, <2>10, <2>11, TreeMade
  <2>14. Len(r3.content) = Len(r3.groups) BY <2>9, <2>10, <2>12
  <2>15. ASSUME NEW g \in AllGroups(r3), NEW h \in ToSet(gs[g].kids) PROVE g < h
    <3>1. g \in 1..n /\ n \in Nat BY <2>2, <2>9, <2>12 DEF AllGroups
    <3>2. CASE g = n
      <4>1. gs[g].kids = <<>> BY <3>2, <2>9
      <4> QED BY <4>1 DEF ToSet
    <3>3. CASE g # n /\ g # 1
      <4>1. g \in AllGroups(r) /\ gs[g] = r.groups[g] BY <3>1, <3>3, <2>2, <2>7, <2>9 DEF AllGroups
      <4> QED BY <4>1 DEF TreeOK
    <3>4. CASE g # n /\ g = 1
      <4>1. 1 \in AllGroups(r) /\ gs[g].kids = Append(r.groups[1].kids, n)
        BY <3>1, <3>4, <2>2, <2>4, <2>7, <2>9 DEF AllGroups
      <4>2. r.groups[1].kids \in Seq(Nat) BY <2>3 DEF GroupSet
      <4>3. PICK i \in DOMAIN gs[g].kids : gs[g].kids[i] = h BY DEF ToSet
      <4>4. CASE i = Len(r.groups[1].kids) + 1
        <5>1. h = n BY <4>1, <4>2, <4>3, <4>4
        <5> QED BY <5>1, <3>4, <3>1, <2>2
      <4>5. CASE i # Len(r.groups[1].kids) + 1
        <5>1. i \in DOMAIN r.groups[1].kids /\ r.groups[1].kids[i] = h
          BY <4>1, <4>2, <4>3, <4>5
        <5>2. h \in ToSet(r.groups[1].kids) BY <5>1 DEF ToSet
        <5> QED BY <3>4, <4>1, <5>2 DEF TreeOK
      <4> QED BY <4>4, <4>5
    <3> QED BY <3>2, <3>3, <3>4
  <2>16. DOMAIN c = 1..n /\ DOMAIN r.content = 1..Len(r.content) /\ DOMAIN c[n] = {}
         /\ n = Len(r.content) + 1 /\ Len(r.content) \in Nat
    BY <1>1, <2>2, <2>10
  <2>17. \A g \in DOMAIN c : \A i \in DOMAIN c[g] :
           g \in DOMAIN r.content /\ c[g] = r.content[g]
    <3> SUFFICES ASSUME NEW g \in DOMAIN c, NEW i \in DOMAIN c[g]
                 PROVE  g \in DOMAIN r.content /\ c[g] = r.content[g]
      OBVIOUS
    <3>1. g # n BY <2>16
    <3>2. g \in 1..Len(r.content) BY <3>1, <2>16
    <3> QED BY <3>2, <2>10, <2>16
  <2>18. \A g \in DOMAIN r.content : g \in DOMAIN c /\ c[g] = r.content[g] BY <2>10, <2>16
  <2>19. OnePlace(c)
    <3> SUFFICES ASSUME NEW g \in DOMAIN c, NEW h \in DOMAIN c, NEW i \in DOMAIN c[g],
                        NEW j \in DOMAIN c[h], c[g][i] = c[h][j]
                 PROVE  g = h /\ i = j
      BY DEF OnePlace
    <3>1. /\ g \in DOMAIN r.content /\ c[g] = r.content[g]
          /\ h \in DOMAIN r.content /\ c[h] = r.content[h]
      BY <2>17
    <3> QED BY <3>1 DEF TreeOK, OnePlace
  <2>20. \A t : t \in Live(r3) <=> \E g \in DOMAIN c : \E i \in DOMAIN c[g] : c[g][i] = t
    <3>1. \A t : t \in Live(r3) <=> \E g \in DOMAIN r3.content : \E i \in DOMAIN r3.content[g] :
                                      r3.content[g][i] = t
      BY <2>13, <2>14, LiveIs
    <3> QED BY <3>1, <2>12
  <2>21. \A t : t \in Live(r) <=> \E g \in DOMAIN r.content : \E i \in DOMAIN r.content[g] :
                                    r.content[g][i] = t
    BY <1>1, LiveIs
  <2>22. Live(r3) = Live(r) BY <2>17, <2>18, <2>20, <2>21
  <2>23. gs # <<>> BY <2>9, <2>2
  <2>24. TreeOK(r3) BY <2>12, <2>13, <2>14, <2>15, <2>19, <2>22, <2>23 DEF TreeOK
  <2> QED BY <2>1, <2>12, <2>22, <2>24
<1> QED BY <1>2, <1>3

\* An entry is removed: the others stay where they are, and it is gone.
LEMMA EntryRemoved ==
  ASSUME NEW r, TreeOK(r), NEW b, NEW s
  PROVE  Updated(r, removeEntryByUUID(r, s), b)
<1> DEFINE es == [r.entry EXCEPT ![s] = NoEntry]
           c == [g \in DOMAIN r.content |-> RemoveFirst(r.content[g], s)]
           r2 == removeEntryByUUID(r, s)
<1>1. /\ r \in TreeSet /\ r.entry \in [Slots -> EntrySet] /\ r.content \in Seq(Seq(Slots))
      /\ r.groups \in Seq(GroupSet) /\ r.gen \in Nat
      /\ Len(r.content) = Len(r.groups)
  BY TreeFields DEF TreeOK
<1>2. \A t \in Slots : t # s => es[t] = r.entry[t] BY <1>1
<1>3. es \in [Slots -> EntrySet] BY <1>1, NoEntryType
<1>4. DOMAIN c = DOMAIN r.content /\ DOMAIN c = 1..Len(r.content) /\ Len(r.content) \in Nat
  BY <1>1
<1>5. ASSUME NEW g \in DOMAIN c
      PROVE  /\ c[g] \in Seq(Slots) /\ \A i \in DOMAIN c[g] : c[g][i] # s
             /\ \E f \in [DOMAIN c[g] -> DOMAIN r.content[g]] : \A i, j \in DOMAIN c[g] :
                  c[g][i] = r.content[g][f[i]] /\ (f[i] = f[j] => i = j)
  <2> DEFINE old == r.content[g]  new == RemoveFirst(old, s)
  <2>1. old \in Seq(Slots) /\ DOMAIN old = 1..Len(old) BY <1>1, <1>4
  <2>2. \A i, j \in 1..Len(old) : old[i] = old[j] => i = j
    BY <2>1, <1>4 DEF TreeOK, OnePlace
  <2> HIDE DEF old
  <2>3. /\ new \in Seq(Slots) /\ \A i \in 1..Len(new) : new[i] # s
        /\ \E f \in [1..Len(new) -> 1..Len(old)] :
             \A i, j \in 1..Len(new) : new[i] = old[f[i]] /\ (f[i] = f[j] => i = j)
    BY <2>1, <2>2, Removed
  <2>4. c[g] = new BY DEF old
  <2> HIDE DEF new, c
  <2>5. DOMAIN new = 1..Len(new) BY <2>3
  <2> QED BY <2>1, <2>3, <2>4, <2>5 DEF old
<1>a. r2 = [r EXCEPT !.content = c, !.entry = es] BY DEF removeEntryByUUID
<1>6. c \in Seq(Seq(Slots)) /\ Len(c) = Len(r.content)
  <2>1. c = [g \in 1..Len(r.content) |-> c[g]] BY <1>4
  <2> HIDE DEF c
  <2> QED BY <2>1, <1>4, <1>5
<1> HIDE DEF es, c, r2
<1>7. r2 = [groups |-> r.groups, content |-> c, entry |-> es, gen |-> r.gen]
  BY <1>1, <1>a DEF TreeSet
<1>8. r2 \in TreeSet BY <1>1, <1>3, <1>6, <1>7, TreeMade
<1>9. r2.groups = r.groups /\ r2.content = c /\ r2.entry = es /\ r2.gen = r.gen BY <1>7
<1>10. \A g \in DOMAIN c : \A i \in DOMAIN c[g] :
         c[g][i] # s /\ \E k \in DOMAIN r.content[g] : r.content[g][k] = c[g][i]
  <2> SUFFICES ASSUME NEW g \in DOMAIN c, NEW i \in DOMAIN c[g]
               PROVE  c[g][i] # s /\ \E k \in DOMAIN r.content[g] : r.content[g][k] = c[g][i]
    OBVIOUS
  <2>1. PICK f \in [DOMAIN c[g] -> DOMAIN r.content[g]] : \A j, k \in DOMAIN c[g] :
          c[g][j] = r.content[g][f[j]] /\ (f[j] = f[k] => j = k)
    BY <1>5
  <2>2. f[i] \in DOMAIN r.content[g] /\ r.content[g][f[i]] = c[g][i] BY <2>1
  <2> QED BY <1>5, <2>2
<1>11. OnePlace(c)
  <2> SUFFICES ASSUME NEW g \in DOMAIN c, NEW h \in DOMAIN c, NEW i \in DOMAIN c[g],
                      NEW j \in DOMAIN c[h], c[g][i] = c[h][j]
               PROVE  g = h /\ i = j
    BY DEF OnePlace
  <2>1. PICK f \in [DOMAIN c[g] -> DOMAIN r.content[g]] : \A k, l \in DOMAIN c[g] :
          c[g][k] = r.content[g][f[k]] /\ (f[k] = f[l] => k = l)
    BY <1>5
  <2>2. PICK e \in [DOMAIN c[h] -> DOMAIN r.content[h]] : \A k, l \in DOMAIN c[h] :
          c[h][k] = r.content[h][e[k]] /\ (e[k] = e[l] => k = l)
    BY <1>5
  <2>3. /\ g \in DOMAIN r.content /\ h \in DOMAIN r.content
        /\ f[i] \in DOMAIN r.content[g] /\ e[j] \in DOMAIN r.content[h]
        /\ r.content[g][f[i]] = r.content[h][e[j]]
    BY <1>4, <2>1, <2>2
  <2>4. OnePlace(r.content) BY DEF TreeOK
  <2>5. g = h /\ f[i] = e[j] BY <2>3, <2>4 DEF OnePlace
  <2>6. r.content[g][f[j]] = c[g][j] /\ f[j] \in DOMAIN r.content[g] BY <2>1, <2>5
  <2>a. r.content[g][f[j]] = r.content[g][f[i]] BY <2>1, <2>5
  <2>7. f[j] = f[i] BY <2>3, <2>4, <2>6, <2>a DEF OnePlace
  <2> QED BY <2>1, <2>5, <2>7
<1>12. \A t : t \in Live(r) <=> \E g \in DOMAIN r.content : \E i \in DOMAIN r.content[g] :
                                  r.content[g][i] = t
  BY <1>1, LiveIs
<1>13. Live(r) \subseteq Slots BY <1>1, LiveIs
<1>14. \A t : t \in Live(r2) <=> \E g \in DOMAIN c : \E i \in DOMAIN c[g] : c[g][i] = t
  <2>1. Len(r2.content) = Len(r2.groups) BY <1>1, <1>6, <1>9
  <2>2. \A t : t \in Live(r2) <=> \E g \in DOMAIN r2.content : \E i \in DOMAIN r2.content[g] :
                                    r2.content[g][i] = t
    BY <1>8, <2>1, LiveIs
  <2> QED BY <2>2, <1>9
<1>15. \A t \in Live(r2) : t \in Live(r) /\ t # s /\ r2.entry[t] = r.entry[t]
  <2> SUFFICES ASSUME NEW t \in Live(r2)
               PROVE  t \in Live(r) /\ t # s /\ r2.entry[t] = r.entry[t]
    OBVIOUS
  <2>1. t # s /\ t \in Live(r) BY <1>4, <1>10, <1>12, <1>14
  <2> QED BY <2>1, <1>2, <1>9, <1>13
<1>16. AllGroups(r2) = AllGroups(r) BY <1>9 DEF AllGroups
<1>17. \A t \in Live(r2) : EntryOK(r2.entry[t]) BY <1>15 DEF TreeOK
<1>18. TreeOK(r2) BY <1>1, <1>6, <1>8, <1>9, <1>11, <1>16, <1>17 DEF TreeOK
<1>19. TreeSound(r, b) => TreeSound(r2, b) BY <1>15 DEF TreeSound
<1>20. Updated(r, r2, b) BY <1>9, <1>15, <1>18, <1>19 DEF Updated, Changed, Kept
<1> QED BY <1>20 DEF r2

\* More attachments after the old ones do not disturb what is attached.
LEMMA Extended ==
  ASSUME NEW r, TreeOK(r), NEW b \in Seq(Contents), NEW b2 \in Seq(Contents),
         NEW n \in 0..Len(b), n <= Len(b2), \A i \in 1..n : b2[i] = b[i],
         TreeSound(r, b), UsedIds(r) \subseteq 1..n
  PROVE  TreeSound(r, b2)
<1>0. Len(b) \in Nat /\ Len(b2) \in Nat /\ DOMAIN b = 1..Len(b) /\ DOMAIN b2 = 1..Len(b2)
  OBVIOUS
<1> SUFFICES ASSUME NEW s \in Live(r), NEW v \in Versions(r.entry[s]), NEW m \in NameSet
             PROVE  v.att[m].id \in 0..Len(b2) /\ FindBinary(b2, v.att[m].id) = v.att[m].content
  BY DEF TreeSound, AllSound, Sound
<1> DEFINE id == v.att[m].id
<1>1. id \in 0..Len(b) /\ FindBinary(b, id) = v.att[m].content
  BY DEF TreeSound, AllSound, Sound
<1>2. CASE id = 0
  <2>1. FindBinary(b, 0) = Empty /\ FindBinary(b2, 0) = Empty BY <1>0 DEF FindBinary
  <2> QED BY <1>0, <1>1, <1>2, <2>1
<1>3. CASE id # 0
  <2>1. id \in Ids(v) BY <1>3, NamesAre DEF Ids
  <2>2. id \in UsedIds(r) BY <2>1 DEF UsedIds, Versions
  <2> HIDE DEF id
  <2>3. id \in 1..n BY <2>2
  <2>4. id \in DOMAIN b /\ id \in DOMAIN b2 /\ b2[id] = b[id] BY <1>0, <2>3
  <2>5. FindBinary(b2, id) = FindBinary(b, id) BY <2>4 DEF FindBinary
  <2> QED BY <1>0, <1>1, <2>4, <2>5 DEF id
<1> QED BY <1>2, <1>3

\* The numbers a sound tree uses are those of attachments.
LEMMA SoundIds ==
  ASSUME NEW r, NEW b \in Seq(Contents), TreeSound(r, b)
  PROVE  UsedIds(r) \subseteq 1..Len(b)
<1>1. ASSUME NEW s \in Live(r), NEW v \in Versions(r.entry[s]), NEW id \in Ids(v)
      PROVE  id \in 1..Len(b)
  <2>1. PICK m \in NameSet : id = v.att[m].id /\ id # 0 BY NamesAre DEF Ids
  <2>2. id \in 0..Len(b) /\ Len(b) \in Nat BY <2>1 DEF TreeSound, AllSound, Sound
  <2> QED BY <2>1, <2>2
<1> QED BY <1>1 DEF UsedIds, Versions

\* CreateItem replaces the secret of an entry or adds an entry.
LEMMA ItemStored ==
  ASSUME NEW r, TreeOK(r), NEW b \in Seq(Contents), maxItems \in Nat,
         NEW label \in Titles \cup {Empty}, NEW attrs \in Attrs, NEW p \in Passwords,
         NEW replace \in BOOLEAN, CreateItem(r, label, attrs, p, replace).s # 0
  PROVE  Updated(r, CreateItem(r, label, attrs, p, replace).r, b)
<1> DEFINE old == IF replace /\ DOMAIN attrs # {} THEN findMatchingVisibleEntryPtr(r, attrs) ELSE 0
           new == FreshSlot(r)
           e == applyEntryFields(NewEntry, label, attrs, p)
           ss == findOrCreateSecretServiceGroup(r)
           c == CreateItem(r, label, attrs, p, replace)
<1>1. c = IF old # 0 THEN
            [s |-> old, r |-> [r EXCEPT !.entry[old] =
                                 applyEntryFields(appendHistory(@), label, attrs, p)]]
          ELSE IF new = 0 \/ (expose # "none" /\ findGroupPtrByExposure(r) = 0) THEN
            [s |-> 0, r |-> r]
          ELSE IF expose # "none" THEN
            [s |-> new, r |-> Insert(r, findGroupPtrByExposure(r), new, e)]
          ELSE [s |-> new, r |-> Insert(ss.r, ss.g, new, e)]
  BY DEF CreateItem
<1>2. c.s # 0 OBVIOUS
<1>3. Begun(e, b) BY NewItem
<1>4. /\ TreeOK(ss.r) /\ ss.r.entry = r.entry /\ ss.r.gen = r.gen /\ Live(ss.r) = Live(r)
  BY GroupMade
<1>5. new # 0 => new \in Slots \ Live(r) BY Unused
<1> HIDE DEF old, new, e, ss, c
<1>6. CASE old # 0
  <2> DEFINE f == applyEntryFields(appendHistory(r.entry[old]), label, attrs, p)
  <2>1. old \in Slots => r.entry[old] \in EntrySet BY TreeFields DEF TreeOK
  <2>2. old \in Slots => Derived(r.entry[old], f, b) BY <2>1, Replaced
  <2>3. c.r = [r EXCEPT !.entry[old] = f] BY <1>1, <1>6
  <2> HIDE DEF f
  <2>4. Updated(r, [r EXCEPT !.entry[old] = f], b) BY <2>2, EntryUpdated
  <2> QED BY <2>3, <2>4 DEF c
<1>7. CASE old = 0
  <2>1. new # 0 BY <1>1, <1>2, <1>7
  <2>2. new \in Slots \ Live(r) BY <1>5, <2>1
  <2>3. CASE expose # "none"
    <3>1. c.r = Insert(r, findGroupPtrByExposure(r), new, e) BY <1>1, <1>2, <1>7, <2>1, <2>3
    <3>2. Updated(r, Insert(r, findGroupPtrByExposure(r), new, e), b)
      BY <1>3, <2>2, EntryAdded
    <3> QED BY <3>1, <3>2 DEF c
  <2>4. CASE ~(expose # "none")
    <3>1. c.r = Insert(ss.r, ss.g, new, e) BY <1>1, <1>2, <1>7, <2>1, <2>4
    <3>2. new \in Slots \ Live(ss.r) BY <1>4, <2>2
    <3>3. Updated(ss.r, Insert(ss.r, ss.g, new, e), b) BY <1>3, <1>4, <3>2, EntryAdded
    <3>4. Updated(r, Insert(ss.r, ss.g, new, e), b)
      BY <1>4, <3>3 DEF Updated, Changed, TreeSound
    <3> QED BY <3>1, <3>4 DEF c
  <2> QED BY <2>3, <2>4
<1> QED BY <1>6, <1>7

\* SshGenerateKey and SshImportKey attach the key to an entry of the top group,
\* or to a new one there, and to no other.
LEMMA KeyStored ==
  ASSUME NEW r, TreeOK(r), NEW b \in Seq(Contents), NEW path \in Titles, NEW k \in PrivateKeys,
         NEW comment \in Texts, StoreKey(r, b, path, k, comment).s # 0
  PROVE  LET u == StoreKey(r, b, path, k, comment) IN
         /\ u.b = AddBinary(b, k).b /\ Updated(r, u.r, u.b)
         /\ u.s \in Live(u.r) /\ u.r.entry[u.s].settings = "ssh-key"
         /\ u.r.entry[u.s].att["ssh-key"] = [id |-> AddBinary(b, k).id, content |-> k]
<1> DEFINE I == {i \in 1..Len(r.content[1]) : r.entry[r.content[1][i]].values["Title"] = path}
           there == SelectInSeq(r.content[1], LAMBDA x : r.entry[x].values["Title"] = path)
           s == IF there # 0 THEN r.content[1][there] ELSE FreshSlot(r)
           e == Titled(path)
           r1 == IF there # 0 THEN r ELSE Insert(r, 1, s, e)
           a == AddBinary(b, k)
           Noted(x) == IF comment = Empty THEN x ELSE [x EXCEPT !.values["Notes"] = comment]
           u == StoreKey(r, b, path, k, comment)
<1>1. u = IF s = 0 THEN [s |-> 0, r |-> r, b |-> b]
          ELSE [s |-> s, b |-> a.b,
                r |-> [r1 EXCEPT !.entry[s] = Noted(WithKey(@, a.id, k))]]
  BY DEF StoreKey
<1>2. there = IF I # {} THEN Min(I) ELSE 0 BY DEF SelectInSeq
<1>3. u.s # 0 OBVIOUS
<1>4. a.b \in Seq(Contents) /\ a.id \in 1..Len(a.b) /\ a.b[a.id] = k
  <2>1. k \in Contents BY DEF Contents
  <2> QED BY <2>1, Added
<1>5. Begun(e, a.b) BY <1>4, NewKeyEntry
<1>6. /\ r \in TreeSet /\ r.content \in Seq(Seq(Slots)) /\ 1 \in AllGroups(r)
      /\ Len(r.content) = Len(r.groups) /\ DOMAIN r.content = AllGroups(r)
  <2>1. /\ r \in TreeSet /\ r.content \in Seq(Seq(Slots)) /\ r.groups \in Seq(GroupSet)
        /\ Len(r.content) = Len(r.groups) /\ r.groups # <<>>
    BY TreeFields DEF TreeOK
  <2>2. Len(r.groups) \in Nat /\ Len(r.groups) # 0 BY <2>1
  <2> QED BY <2>1, <2>2 DEF AllGroups
<1> HIDE DEF u, a, e, there
<1>7. ASSUME there # 0 PROVE r.content[1][there] \in Live(r)
  <2>1. I # {} /\ there = Min(I) BY <1>2, <1>7
  <2>2. I \in SUBSET Nat OBVIOUS
  <2>3. \E x \in I : \A y \in I : x <= y BY <2>1, <2>2, LeastElement
  <2>4. there \in I BY <2>1, <2>3 DEF Min
  <2>5. r.content[1] \in Seq(Slots) BY <1>6
  <2>6. there \in DOMAIN r.content[1] BY <2>4, <2>5
  <2>7. r.content[1][there] \in Live(r) BY <1>6, <2>6, LiveIs
  <2> QED BY <2>7
<1>9. s # 0 BY <1>1, <1>3
<1>10. /\ Updated(r, r1, a.b) /\ s \in Live(r1)
       /\ there # 0 => r1 = r
       /\ ~(there # 0) => s \notin Live(r)
  <2>1. CASE there # 0
    <3>1. Updated(r, r, a.b) BY DEF Updated, Changed, Kept
    <3>2. s = r.content[1][there] /\ r1 = r BY <2>1
    <3> HIDE DEF s, r1
    <3> QED BY <2>1, <3>1, <3>2, <1>7
  <2>2. CASE ~(there # 0)
    <3>1. s \in Slots \ Live(r) /\ r1 = Insert(r, 1, s, e) BY <2>2, <1>9, Unused
    <3> HIDE DEF s, r1
    <3>2. Updated(r, Insert(r, 1, s, e), a.b) /\ s \in Live(Insert(r, 1, s, e))
      BY <1>5, <1>6, <3>1, EntryAdded
    <3> QED BY <2>2, <3>1, <3>2
  <2> QED BY <2>1, <2>2
<1> DEFINE h == WithKey(r1.entry[s], a.id, k)  f == Noted(h)  r2 == [r1 EXCEPT !.entry[s] = f]
<1>11. u.s = s /\ u.r = r2 /\ u.b = a.b BY <1>1, <1>9
<1> HIDE DEF s, r1
<1>12. TreeOK(r1) BY <1>10 DEF Updated, Changed
<1>13. s \in Slots /\ r1.entry[s] \in EntrySet /\ r1.entry \in [Slots -> EntrySet] /\ r1 \in TreeSet
  <2>1. r1 \in TreeSet /\ Len(r1.content) = Len(r1.groups) BY <1>12 DEF TreeOK
  <2>2. Live(r1) \subseteq Slots BY <2>1, LiveIs
  <2> QED BY <1>10, <2>1, <2>2, TreeFields
<1>w. Derived(r1.entry[s], h, a.b) BY <1>4, <1>13, Keyed
<1>15. /\ h \in EntrySet /\ h.settings = "ssh-key"
       /\ h.att["ssh-key"] = [id |-> a.id, content |-> k]
  <2>1. a.id \in Nat BY <1>4
  <2> QED BY <2>1, <1>13, WithKeyFields
<1> HIDE DEF h
<1>14. Derived(r1.entry[s], f, a.b) /\ f.att = h.att /\ f.settings = h.settings
  <2>1. CASE comment = Empty BY <2>1, <1>w
  <2>2. CASE comment # Empty
    <3>1. f = [h EXCEPT !.values["Notes"] = comment] BY <2>2
    <3>2. /\ f \in EntrySet /\ f.att = h.att /\ f.settings = h.settings /\ f.hist = h.hist
          /\ f.values["Password"] = h.values["Password"]
          /\ (EntryOK(h) => EntryOK(f)) /\ (AllSound(h, a.b) => AllSound(f, a.b))
      BY <1>15, <3>1, Commented
    <3> HIDE DEF f
    <3> QED BY <1>w, <3>2 DEF Derived, Formed, Kept
  <2> QED BY <2>1, <2>2
<1> HIDE DEF f
<1>16. Updated(r1, r2, a.b) BY <1>12, <1>14, EntryUpdated
<1> DEFINE es == [r1.entry EXCEPT ![s] = f]
<1>17. es[s] = f /\ \A t \in Slots : t # s => es[t] = r1.entry[t] BY <1>13
<1>18. r2 = [r1 EXCEPT !.entry = es] OBVIOUS
<1> HIDE DEF es, r2
<1>19. r2.entry = es /\ r2.content = r1.content /\ r2.groups = r1.groups
  BY <1>13, <1>18 DEF TreeSet
<1>20. Live(r2) = Live(r1) BY <1>19 DEF Live, AllGroups
<1>21. ASSUME NEW t \in Live(r) \cap Live(r2) PROVE Kept(r.entry[t], r2.entry[t])
  <2>1. CASE there # 0 BY <2>1, <1>10, <1>16 DEF Updated
  <2>2. CASE ~(there # 0)
    <3>1. t # s BY <2>2, <1>10
    <3>2. t \in Slots
      <4>1. Live(r) \subseteq Slots BY <1>6, LiveIs
      <4> QED BY <4>1
    <3>3. r2.entry[t] = r1.entry[t] BY <3>1, <3>2, <1>17, <1>19
    <3>4. Kept(r.entry[t], r1.entry[t]) BY <1>10, <1>20 DEF Updated
    <3> QED BY <3>3, <3>4
  <2> QED BY <2>1, <2>2
<1>22. Updated(r, r2, a.b) BY <1>10, <1>16, <1>20, <1>21 DEF Updated, Changed
<1>23. u.s \in Live(u.r) /\ u.r.entry[u.s] = f BY <1>10, <1>11, <1>17, <1>19, <1>20
<1>24. u.b = a.b /\ Updated(r, u.r, u.b) BY <1>11, <1>22
<1> QED BY <1>14, <1>15, <1>23, <1>24 DEF u, a

-----------------------------------------------------------------------------
(* What the encoder makes of the tree and the attachments *)

\* A reference that leads nowhere stays one, and no other becomes one.
LEMMA NewIds ==
  ASSUME NEW N \in Nat, NEW used \in SUBSET (1..N), NEW i \in Nat
  PROVE  NewId(used, i) \in Nat /\ (NewId(used, i) = 0 <=> i = 0)
<1>1. Cardinality(used) \in 0..N /\ \A j \in used : NewId(used, j) \in 1..Cardinality(used)
  BY Numbering
<1>2. CASE i \in used BY <1>1, <1>2
<1>3. CASE i \notin used BY <1>3 DEF NewId
<1> QED BY <1>2, <1>3

\* The attachments of a version keep their content.
LEMMA Renumbered ==
  ASSUME NEW N \in Nat, NEW used \in SUBSET (1..N), NEW v, v.att \in Attachments
  PROVE  /\ NewAtts(used, v) \in Attachments
         /\ \A n \in NameSet : /\ NewAtts(used, v)[n].content = v.att[n].content
                               /\ NewAtts(used, v)[n].id = NewId(used, v.att[n].id)
<1> DEFINE a == NewAtts(used, v)
<1>1. a = [n \in NameSet |-> [v.att[n] EXCEPT !.id = NewId(used, @)]] BY NamesAre DEF NewAtts
<1> HIDE DEF a
<1>2. ASSUME NEW n \in NameSet
      PROVE  /\ a[n] \in [id : Nat, content : Contents]
             /\ a[n].content = v.att[n].content /\ a[n].id = NewId(used, v.att[n].id)
  <2>1. v.att[n] \in [id : Nat, content : Contents] BY DEF Attachments
  <2> DEFINE m == NewId(used, v.att[n].id)
  <2>2. m \in Nat BY <2>1, NewIds
  <2>3. a[n] = [v.att[n] EXCEPT !.id = m] BY <1>1
  <2> HIDE DEF m
  <2>4. a[n] = [id |-> m, content |-> v.att[n].content] BY <2>1, <2>3
  <2> QED BY <2>1, <2>2, <2>4 DEF m
<1>3. a \in Attachments BY <1>1, <1>2 DEF Attachments
<1> QED BY <1>2, <1>3 DEF a

\* An entry, and every version in its history, keeps all but the numbers.
LEMMA MovedEntry ==
  ASSUME NEW N \in Nat, NEW used \in SUBSET (1..N), NEW e \in EntrySet
  PROVE  LET f == Moved(used, e) IN
         /\ f \in EntrySet
         /\ f.values = e.values /\ f.settings = e.settings
         /\ f.att = NewAtts(used, e)
         /\ AllSaid(f.hist) = AllSaid(e.hist)
         /\ \A w \in Versions(f) : \E v \in Versions(e) :
              w.values = v.values /\ w.att = NewAtts(used, v)
         /\ \A v \in Versions(e) : \E w \in Versions(f) : w.att = NewAtts(used, v)
<1> DEFINE h == [i \in DOMAIN e.hist |-> [e.hist[i] EXCEPT !.att = NewAtts(used, e.hist[i])]]
           f == Moved(used, e)
<1>1. f = [e EXCEPT !.att = NewAtts(used, e), !.hist = h] BY DEF Moved
<1>2. /\ e.values \in ValueSet /\ e.att \in Attachments
      /\ e.settings \in {Empty, "ssh-key"} /\ e.hist \in Seq(VersionSet)
  BY EntryFields
<1>3. \A i \in DOMAIN e.hist : e.hist[i] \in VersionSet BY <1>2
<1>4. ASSUME NEW i \in DOMAIN e.hist
      PROVE  /\ h[i] \in VersionSet /\ h[i].values = e.hist[i].values
             /\ h[i].att = NewAtts(used, e.hist[i]) /\ Said(h[i]) = Said(e.hist[i])
  <2> DEFINE v == e.hist[i]  a == NewAtts(used, v)
  <2>1. v \in VersionSet /\ v.att \in Attachments BY <1>3 DEF VersionSet
  <2>2. a \in Attachments /\ \A n \in NameSet : a[n].content = v.att[n].content
    BY <2>1, Renumbered
  <2>3. h[i] = [v EXCEPT !.att = a] OBVIOUS
  <2> HIDE DEF a, h, v
  <2>4. h[i] = [values |-> v.values, att |-> a, settings |-> v.settings, hist |-> v.hist]
    BY <2>1, <2>3 DEF VersionSet
  <2>5. h[i] \in VersionSet BY <2>1, <2>2, <2>4 DEF VersionSet
  <2>6. [n \in NameSet |-> h[i].att[n].content] = [n \in NameSet |-> v.att[n].content]
    BY <2>2, <2>4
  <2>7. Said(h[i]) = Said(v) BY <2>4, <2>6, NamesAre DEF Said
  <2> QED BY <2>4, <2>5, <2>7 DEF a, v
<1>5. DOMAIN h = DOMAIN e.hist OBVIOUS
<1>6. DOMAIN e.hist = 1..Len(e.hist) /\ Len(e.hist) \in Nat BY <1>2
<1> HIDE DEF h
<1>7. h \in Seq(VersionSet) /\ DOMAIN h = DOMAIN e.hist
  <2>1. h \in [1..Len(e.hist) -> VersionSet]
    <3>1. h = [i \in 1..Len(e.hist) |-> h[i]] BY <1>5, <1>6 DEF h
    <3> QED BY <1>4, <1>6, <3>1
  <2> QED BY <1>5, <1>6, <2>1
<1>8. NewAtts(used, e) \in Attachments BY <1>2, Renumbered
<1> HIDE DEF f
<1>9. f = [values |-> e.values, att |-> NewAtts(used, e), settings |-> e.settings, hist |-> h]
  BY <1>1 DEF EntrySet
<1>10. f \in EntrySet BY <1>2, <1>7, <1>8, <1>9 DEF EntrySet
<1>11. /\ f.values = e.values /\ f.settings = e.settings
       /\ f.att = NewAtts(used, e) /\ f.hist = h
  BY <1>9
<1>12. AllSaid(f.hist) = AllSaid(e.hist) BY <1>4, <1>5, <1>11 DEF AllSaid
<1>13. ASSUME NEW w \in Versions(f)
       PROVE  \E v \in Versions(e) : w.values = v.values /\ w.att = NewAtts(used, v)
  <2>1. CASE w = f BY <2>1, <1>11 DEF Versions
  <2>2. CASE w \in ToSet(h)
    <3>1. PICK i \in DOMAIN h : w = h[i] BY <2>2 DEF ToSet
    <3>2. e.hist[i] \in Versions(e) BY <1>5, <3>1 DEF Versions, ToSet
    <3> QED BY <1>4, <1>5, <3>1, <3>2
  <2> QED BY <1>11, <2>1, <2>2 DEF Versions
<1>14. ASSUME NEW v \in Versions(e) PROVE \E w \in Versions(f) : w.att = NewAtts(used, v)
  <2>1. CASE v = e BY <2>1, <1>11 DEF Versions
  <2>2. CASE v \in ToSet(e.hist)
    <3>1. PICK i \in DOMAIN e.hist : v = e.hist[i] BY <2>2 DEF ToSet
    <3>2. h[i] \in Versions(f) BY <1>5, <1>11, <3>1 DEF Versions, ToSet
    <3> QED BY <1>4, <3>1, <3>2
  <2> QED BY <2>1, <2>2 DEF Versions
<1> QED BY <1>10, <1>11, <1>12, <1>13, <1>14 DEF f

\* The attachments the encoder keeps, in their new order.
Compacted(used, b) == [k \in 1..Cardinality(used) |-> b[CHOOSE i \in used : NewId(used, i) = k]]

LEMMA Compaction ==
  ASSUME NEW b \in Seq(Contents), NEW used \in SUBSET (1..Len(b))
  PROVE  LET c == Compacted(used, b) IN
         /\ c \in Seq(Contents) /\ Len(c) = Cardinality(used)
         /\ \A i \in used : NewId(used, i) \in 1..Len(c) /\ c[NewId(used, i)] = b[i]
         /\ \A k \in 1..Len(c) : \E i \in used : NewId(used, i) = k
         /\ \A n \in Nat : 1..n \subseteq used => n <= Len(c) /\ \A i \in 1..n : c[i] = b[i]
<1> DEFINE N == Cardinality(used)  From(k) == CHOOSE i \in used : NewId(used, i) = k
           c == Compacted(used, b)
<1>0. Len(b) \in Nat /\ DOMAIN b = 1..Len(b) /\ \A i \in 1..Len(b) : b[i] \in Contents OBVIOUS
<1>1. /\ N \in Nat
      /\ \A i \in used : NewId(used, i) \in 1..N
      /\ \A i, j \in used : NewId(used, i) = NewId(used, j) => i = j
      /\ \A k \in 1..N : \E i \in used : NewId(used, i) = k
      /\ \A n \in Nat : 1..n \subseteq used => n <= N /\ \A i \in 1..n : NewId(used, i) = i
  <2>1. Cardinality(used) \in 0..Len(b) BY <1>0, Numbering
  <2>2. \A i \in used : NewId(used, i) \in 1..Cardinality(used) BY <1>0, Numbering
  <2>3. \A i, j \in used : NewId(used, i) = NewId(used, j) => i = j BY <1>0, Numbering
  <2>4. \A k \in 1..Cardinality(used) : \E i \in used : NewId(used, i) = k
    BY <1>0, Numbering
  <2>5. \A n \in Nat : 1..n \subseteq used =>
          n <= Cardinality(used) /\ \A i \in 1..n : NewId(used, i) = i
    BY <1>0, Numbering
  <2>6. Cardinality(used) \in Nat BY <1>0, <2>1
  <2> QED BY <2>2, <2>3, <2>4, <2>5, <2>6, Zenon
<1>2. \A k \in 1..N : From(k) \in used /\ NewId(used, From(k)) = k BY <1>1
<1>3. c = [k \in 1..N |-> b[From(k)]] BY DEF Compacted
<1> HIDE DEF N, From, c
<1>4. \A k \in 1..N : b[From(k)] \in Contents BY <1>0, <1>2
<1>5. c \in [1..N -> Contents] BY <1>3, <1>4
<1>6. c \in Seq(Contents) /\ Len(c) = N BY <1>1, <1>5
<1>7. ASSUME NEW i \in used PROVE NewId(used, i) \in 1..N /\ c[NewId(used, i)] = b[i]
  <2>1. NewId(used, i) \in 1..N BY <1>1
  <2>2. From(NewId(used, i)) = i BY <1>1, <1>2, <2>1
  <2> QED BY <1>3, <2>1, <2>2
<1>8. ASSUME NEW n \in Nat, 1..n \subseteq used
      PROVE  n <= N /\ \A i \in 1..n : c[i] = b[i]
  <2>1. n <= N /\ \A i \in 1..n : NewId(used, i) = i BY <1>1, <1>8
  <2> QED BY <1>7, <1>8, <2>1
<1>9. \A k \in 1..Len(c) : \E i \in used : NewId(used, i) = k BY <1>1, <1>6
<1>10. Len(c) = Cardinality(used) BY <1>6 DEF N
<1>11. \A i \in used : NewId(used, i) \in 1..Len(c) /\ c[NewId(used, i)] = b[i]
  BY <1>6, <1>7
<1>12. \A n \in Nat : 1..n \subseteq used => n <= Len(c) /\ \A i \in 1..n : c[i] = b[i]
  BY <1>6, <1>8
<1> QED BY <1>6, <1>9, <1>10, <1>11, <1>12 DEF c

\* A version whose references are among those in use stays sound.
LEMMA StillSound ==
  ASSUME NEW b \in Seq(Contents), NEW used \in SUBSET (1..Len(b)), NEW v, NEW w,
         v.att \in Attachments, w.att = NewAtts(used, v), Sound(v, b), Ids(v) \subseteq used
  PROVE  Sound(w, Compacted(used, b))
<1> DEFINE c == Compacted(used, b)
<1>0. Len(b) \in Nat /\ DOMAIN b = 1..Len(b) OBVIOUS
<1>1. /\ c \in Seq(Contents)
      /\ \A i \in used : NewId(used, i) \in 1..Len(c) /\ c[NewId(used, i)] = b[i]
  BY Compaction
<1> HIDE DEF c
<1>2. DOMAIN c = 1..Len(c) /\ Len(c) \in Nat BY <1>1
<1>3. ASSUME NEW n \in NameSet
      PROVE  w.att[n].id \in 0..Len(c) /\ FindBinary(c, w.att[n].id) = w.att[n].content
  <2> DEFINE id == v.att[n].id
  <2>1. id \in Nat /\ id \in 0..Len(b) /\ FindBinary(b, id) = v.att[n].content
    BY DEF Sound, Attachments
  <2>2. w.att[n].content = v.att[n].content /\ w.att[n].id = NewId(used, id)
    <3>1. \A m \in NameSet : /\ NewAtts(used, v)[m].content = v.att[m].content
                             /\ NewAtts(used, v)[m].id = NewId(used, v.att[m].id)
      BY <1>0, Renumbered
    <3> QED BY <3>1
  <2>3. CASE id = 0
    <3>1. NewId(used, id) = 0 BY <1>0, <2>1, <2>3, NewIds
    <3>2. FindBinary(c, 0) = Empty /\ FindBinary(b, 0) = Empty BY <1>0, <1>2 DEF FindBinary
    <3> QED BY <1>2, <2>1, <2>2, <2>3, <3>1, <3>2
  <2>4. CASE id # 0
    <3>1. id \in Ids(v) BY <2>4, NamesAre DEF Ids
    <3>2. id \in used BY <3>1
    <3> HIDE DEF id
    <3>3. NewId(used, id) \in 1..Len(c) /\ c[NewId(used, id)] = b[id] BY <1>1, <3>2
    <3>4. FindBinary(c, NewId(used, id)) = b[id] BY <1>2, <3>3 DEF FindBinary
    <3>5. FindBinary(b, id) = b[id] BY <1>0, <3>2 DEF FindBinary
    <3> QED BY <1>2, <2>1, <2>2, <3>3, <3>4, <3>5
  <2> QED BY <2>3, <2>4
<1> QED BY <1>3 DEF Sound, c

\* Encoding changes the numbers of the attachments and nothing else, and closes
\* the gaps in them; a sound tree stays sound.
LEMMA Cleaned ==
  ASSUME NEW r, TreeOK(r), NEW b \in Seq(Contents)
  PROVE  LET c == cleanupBinaries(r, b)  used == UsedIds(r) \cap DOMAIN b IN
         /\ TreeOK(c.r) /\ Live(c.r) = Live(r) /\ c.r.gen = r.gen
         /\ c.b = Compacted(used, b) /\ used \in SUBSET (1..Len(b))
         /\ \A s \in Live(r) : c.r.entry[s] = Moved(used, r.entry[s])
         /\ TreeSound(r, b) => TreeSound(c.r, c.b) /\ UsedIds(c.r) = 1..Len(c.b)
<1> DEFINE used == UsedIds(r) \cap DOMAIN b
           es == [s \in Slots |-> Moved(used, r.entry[s])]
           c == cleanupBinaries(r, b)
<1>0. Len(b) \in Nat /\ used \in SUBSET (1..Len(b)) OBVIOUS
<1>1. c.r = [r EXCEPT !.entry = es] /\ c.b = Compacted(used, b)
  BY DEF cleanupBinaries, Compacted
<1>2. /\ r \in TreeSet /\ r.entry \in [Slots -> EntrySet] /\ r.groups \in Seq(GroupSet)
      /\ r.content \in Seq(Seq(Slots)) /\ r.gen \in Nat
  BY TreeFields DEF TreeOK
<1>a. \A s \in Slots : es[s] = Moved(used, r.entry[s]) OBVIOUS
<1>b. es = [s \in Slots |-> es[s]] OBVIOUS
<1> HIDE DEF used, c, es
<1>3. \A s \in Slots : r.entry[s] \in EntrySet BY <1>2
<1>4. es \in [Slots -> EntrySet]
  <2>1. \A s \in Slots : es[s] \in EntrySet BY <1>0, <1>3, <1>a, MovedEntry
  <2> QED BY <1>b, <2>1
<1>5. c.r = [groups |-> r.groups, content |-> r.content, entry |-> es, gen |-> r.gen]
  BY <1>1, <1>2 DEF TreeSet
<1>6. c.r \in TreeSet BY <1>2, <1>4, <1>5, TreeMade
<1>7. /\ c.r.groups = r.groups /\ c.r.content = r.content /\ c.r.entry = es
      /\ c.r.gen = r.gen
  BY <1>5
<1>8. Live(c.r) = Live(r) /\ AllGroups(c.r) = AllGroups(r) BY <1>7 DEF Live, AllGroups
<1>9. Live(r) \subseteq Slots BY <1>2, LiveIs DEF TreeOK
<1>10. ASSUME NEW s \in Live(r)
       PROVE  c.r.entry[s] = Moved(used, r.entry[s]) /\ EntryOK(c.r.entry[s])
  <2> DEFINE e == r.entry[s]  f == Moved(used, e)
  <2>1. c.r.entry[s] = f BY <1>7, <1>9, <1>a
  <2>2. e \in EntrySet BY <1>3, <1>9
  <2>3. EntryOK(e) BY DEF TreeOK
  <2> HIDE DEF e
  <2>4. f.settings = e.settings /\ f.att = NewAtts(used, e) BY <1>0, <2>2, MovedEntry
  <2>11. \A w \in Versions(f) : \E v \in Versions(e) :
           w.values = v.values /\ w.att = NewAtts(used, v)
    BY <1>0, <2>2, MovedEntry
  <2> HIDE DEF f
  <2>5. e.att \in Attachments BY <2>2, EntryFields
  <2>6. "ssh-key" \in NameSet BY DEF NameSet
  <2>7. /\ f.att["ssh-key"].content = e.att["ssh-key"].content
        /\ f.att["ssh-key"].id = NewId(used, e.att["ssh-key"].id)
    BY <1>0, <2>4, <2>5, <2>6, Renumbered
  <2>8. e.att["ssh-key"].id \in Nat BY <2>5, <2>6 DEF Attachments
  <2>9. f.att["ssh-key"].id = 0 => e.att["ssh-key"].id = 0 BY <1>0, <2>7, <2>8, NewIds
  <2>10. EntryOK(f) BY <2>3, <2>4, <2>7, <2>9, <2>11 DEF EntryOK
  <2> QED BY <2>1, <2>10 DEF f, e
<1>11. TreeOK(c.r) BY <1>6, <1>7, <1>8, <1>10 DEF TreeOK
<1>12. ASSUME TreeSound(r, b) PROVE TreeSound(c.r, c.b) /\ UsedIds(c.r) = 1..Len(c.b)
  <2>1. used = UsedIds(r) BY <1>12, SoundIds DEF used
  <2>2. ASSUME NEW s \in Live(r), NEW v \in Versions(r.entry[s])
        PROVE  v.att \in Attachments /\ Ids(v) \subseteq used /\ Sound(v, b)
    <3>1. r.entry[s] \in EntrySet BY <1>3, <1>9
    <3>2. v.att \in Attachments
      <4>1. CASE v = r.entry[s] BY <3>1, <4>1, EntryFields
      <4>2. CASE v \in ToSet(r.entry[s].hist)
        <5>1. r.entry[s].hist \in Seq(VersionSet) BY <3>1, EntryFields
        <5>2. v \in VersionSet BY <4>2, <5>1 DEF ToSet
        <5> QED BY <5>2 DEF VersionSet
      <4> QED BY <4>1, <4>2 DEF Versions
    <3>3. Ids(v) \subseteq UsedIds(r) BY DEF UsedIds, Versions
    <3> QED BY <1>12, <2>1, <3>2, <3>3 DEF TreeSound, AllSound
  <2>3. ASSUME NEW s \in Live(r), NEW w \in Versions(c.r.entry[s])
        PROVE  \E v \in Versions(r.entry[s]) : w.att = NewAtts(used, v)
    <3>1. r.entry[s] \in EntrySet BY <1>3, <1>9
    <3>2. w \in Versions(Moved(used, r.entry[s])) BY <1>10
    <3>3. \A x \in Versions(Moved(used, r.entry[s])) :
            \E v \in Versions(r.entry[s]) : x.att = NewAtts(used, v)
      BY <1>0, <3>1, MovedEntry
    <3> QED BY <3>2, <3>3
  <2>4. ASSUME NEW s \in Live(r), NEW v \in Versions(r.entry[s])
        PROVE  \E w \in Versions(c.r.entry[s]) : w.att = NewAtts(used, v)
    <3>1. r.entry[s] \in EntrySet BY <1>3, <1>9
    <3>2. \A x \in Versions(r.entry[s]) :
            \E w \in Versions(Moved(used, r.entry[s])) : w.att = NewAtts(used, x)
      BY <1>0, <3>1, MovedEntry
    <3> QED BY <1>10, <3>2
  <2>5. TreeSound(c.r, c.b)
    <3>1. ASSUME NEW s \in Live(r), NEW w \in Versions(c.r.entry[s])
          PROVE  Sound(w, c.b)
      <4>1. PICK v \in Versions(r.entry[s]) : w.att = NewAtts(used, v) BY <2>3
      <4>2. v.att \in Attachments /\ Ids(v) \subseteq used /\ Sound(v, b) BY <2>2
      <4>3. Sound(w, Compacted(used, b)) BY <1>0, <4>1, <4>2, StillSound
      <4> QED BY <1>1, <4>3
    <3> QED BY <1>8, <3>1 DEF TreeSound, AllSound
  <2>6. ASSUME NEW k \in 1..Len(c.b) PROVE k \in UsedIds(c.r)
    <3>1. PICK i \in used : NewId(used, i) = k BY <1>0, <1>1, Compaction
    <3>2. PICK s \in Live(r) : \E v \in Versions(r.entry[s]) : i \in Ids(v)
      BY <2>1 DEF UsedIds, Versions
    <3>3. PICK v \in Versions(r.entry[s]) : i \in Ids(v) BY <3>2
    <3>4. PICK n \in NameSet : i = v.att[n].id /\ i # 0 BY <3>3, NamesAre DEF Ids
    <3>5. PICK w \in Versions(c.r.entry[s]) : w.att = NewAtts(used, v) BY <2>4
    <3>6. v.att \in Attachments BY <2>2
    <3>7. w.att[n].id = k BY <1>0, <3>1, <3>4, <3>5, <3>6, Renumbered
    <3>8. k # 0 OBVIOUS
    <3>9. k \in Ids(w) BY <3>7, <3>8, NamesAre DEF Ids
    <3> QED BY <1>8, <3>9 DEF UsedIds, Versions
  <2>7. UsedIds(c.r) \subseteq 1..Len(c.b)
    <3>1. c.b \in Seq(Contents) BY <1>0, <1>1, Compaction
    <3> QED BY <2>5, <3>1, SoundIds
  <2> QED BY <2>5, <2>6, <2>7
<1>13. \A s \in Live(r) : c.r.entry[s] = Moved(used, r.entry[s]) BY <1>10
<1> QED BY <1>0, <1>1, <1>7, <1>8, <1>11, <1>12, <1>13 DEF c, used

-----------------------------------------------------------------------------
(* The steps *)

LEMMA Limits == IInv => maxItems \in Nat
  BY TreeConstants DEF IInv, maxItems

\* A history that is kept in the proof's sense is as HistoryComplete wants it.
LEMMA HistoryKept ==
  ASSUME IInv, NEW e \in EntrySet, NEW f \in EntrySet, Kept(e, f)
  PROVE  \/ Archives(f.hist, Append(e.hist, Version(e)))
         \/ AllSaid(f.hist) = AllSaid(e.hist) /\ f.values["Password"] = e.values["Password"]
<1> DEFINE v == Version(e)  all == Append(e.hist, v)
<1>1. e.hist \in Seq(VersionSet) /\ f.hist \in Seq(VersionSet) BY EntryFields
<1>2. v = [values |-> e.values, att |-> e.att, settings |-> e.settings, hist |-> <<>>]
  BY DEF Version, EntrySet
<1>3. v \in VersionSet BY <1>2, EntryFields DEF VersionSet
<1> HIDE DEF v
<1>4. all \in Seq(VersionSet) BY <1>1, <1>3
<1> HIDE DEF all
<1>5. CASE AllSaid(f.hist) = AllSaid(trimHistory(all))
  <2>1. Archives(f.hist, all) BY <1>1, <1>4, <1>5, Limits, Archived
  <2> QED BY <2>1 DEF all, v
<1>6. CASE AllSaid(f.hist) = AllSaid(e.hist) /\ f.values["Password"] = e.values["Password"]
  BY <1>6
<1> QED BY <1>5, <1>6 DEF Kept, all, v

\* The clone of the groups that a failed save puts back.
LEMMA RolledBack ==
  ASSUME NEW r, TreeOK(r)
  PROVE  LET r2 == [r EXCEPT !.gen = @ + 1] IN
         /\ TreeOK(r2) /\ Live(r2) = Live(r) /\ r2.entry = r.entry /\ r2.gen = r.gen + 1
         /\ UsedIds(r2) = UsedIds(r) /\ \A b : TreeSound(r, b) => TreeSound(r2, b)
<1> DEFINE n == r.gen + 1  r2 == [r EXCEPT !.gen = n]
<1>1. r \in TreeSet /\ n \in Nat BY TreeFields DEF TreeOK
<1>2. /\ r.groups \in Seq(GroupSet) /\ r.content \in Seq(Seq(Slots))
      /\ r.entry \in [Slots -> EntrySet]
  BY <1>1, TreeFields
<1>a. r2 = [r EXCEPT !.gen = n] OBVIOUS
<1> HIDE DEF n, r2
<1>3. r2 = [groups |-> r.groups, content |-> r.content, entry |-> r.entry, gen |-> n]
  BY <1>1, <1>a DEF TreeSet
<1>4. r2 \in TreeSet BY <1>1, <1>2, <1>3, TreeMade
<1>5. /\ r2.groups = r.groups /\ r2.content = r.content /\ r2.entry = r.entry
      /\ r2.gen = n
  BY <1>3
<1>6. Live(r2) = Live(r) /\ AllGroups(r2) = AllGroups(r) BY <1>5 DEF Live, AllGroups
<1>7. TreeOK(r2) BY <1>4, <1>5, <1>6 DEF TreeOK
<1>8. UsedIds(r2) = UsedIds(r) BY <1>5, <1>6 DEF UsedIds
<1>9. \A b : TreeSound(r, b) => TreeSound(r2, b) BY <1>5, <1>6 DEF TreeSound
<1> QED BY <1>5, <1>6, <1>7, <1>8, <1>9 DEF r2, n

\* The encoder changes no more than the numbers of attachments.
SaysTheSame(e, f) == AllSaid(f.hist) = AllSaid(e.hist) /\ f.values = e.values

\* An update, and the save that follows it or fails: an entry is as before or
\* as updated.
LEMMA SaveKeeps ==
  ASSUME IInv, NEW r, NEW b \in Seq(Contents), Changed(root, r, b),
         Len(binaries) <= Len(b), \A i \in 1..Len(binaries) : b[i] = binaries[i],
         UpdateAndSave(r, b)
  PROVE  /\ IInv'
         /\ \A s \in Live(root) \cap Live(root') :
              \/ root'.entry[s] = root.entry[s]
              \/ s \in Live(r) /\ SaysTheSame(r.entry[s], root'.entry[s])
<1> DEFINE N == Len(binaries)  c == cleanupBinaries(r, b)  used == UsedIds(r) \cap DOMAIN b
<1>1. /\ TreeOK(root) /\ root.gen <= MaxFailures /\ binaries \in Seq(Contents)
      /\ meta \in [items : Nat, size : Nat, bin : {"name", "uuid"}]
      /\ shifted \in BOOLEAN /\ ops \in 0..MaxOps /\ AttInv
  BY DEF IInv
<1>2. N \in Nat /\ Len(b) \in Nat /\ DOMAIN b = 1..Len(b) /\ N \in 0..N BY <1>1
<1>3. /\ TreeOK(r) /\ r.gen = root.gen /\ (TreeSound(root, b) => TreeSound(r, b))
  BY DEF Changed
<1>4. /\ TreeOK(c.r) /\ Live(c.r) = Live(r) /\ c.r.gen = r.gen
      /\ c.b = Compacted(used, b) /\ used \in SUBSET (1..Len(b))
      /\ \A s \in Live(r) : c.r.entry[s] = Moved(used, r.entry[s])
      /\ TreeSound(r, b) => TreeSound(c.r, c.b) /\ UsedIds(c.r) = 1..Len(c.b)
  BY <1>3, Cleaned
<1>5. ops < MaxOps /\ ops' = ops + 1 /\ meta' = meta BY DEF UpdateAndSave
<1>6. ops' \in 0..MaxOps BY <1>1, <1>5, TreeConstants
<1> HIDE DEF c
<1>7. /\ c.b \in Seq(Contents)
      /\ \A n \in Nat : 1..n \subseteq used => n <= Len(c.b) /\ \A i \in 1..n : c.b[i] = b[i]
  BY <1>4, Compaction
<1>8. Len(c.b) \in Nat BY <1>7
<1> HIDE DEF N, used
<1>9. ~shifted => TreeSound(root, binaries) /\ \E n \in Nat : UsedIds(root) = 1..n
  BY <1>1 DEF AttInv
<1>10. ASSUME ~shifted PROVE UsedIds(root) \subseteq 1..N
  BY <1>1, <1>9, <1>10, SoundIds DEF N
<1>11. ASSUME ~shifted PROVE TreeSound(root, b)
  <2>1. N <= Len(b) /\ N \in 0..Len(binaries) /\ \A i \in 1..N : b[i] = binaries[i]
    BY <1>2 DEF N
  <2> QED BY <1>1, <1>9, <1>10, <1>11, <2>1, Extended
<1>12. CASE Saved(r, b)
  <2>1. root' = c.r /\ binaries' = c.b /\ shifted' = shifted BY <1>12 DEF Saved, c
  <2>2. ASSUME ~shifted' PROVE TreeSound(root', binaries') /\ \E n \in Nat : UsedIds(root') = 1..n
    BY <1>3, <1>4, <1>8, <1>11, <2>1, <2>2
  <2>3. AttInv' BY <2>2 DEF AttInv
  <2>4. TreeOK(root') /\ root'.gen <= MaxFailures BY <1>1, <1>3, <1>4, <2>1
  <2>5. IInv' BY <1>1, <1>5, <1>6, <1>7, <2>1, <2>3, <2>4 DEF IInv
  <2>6. ASSUME NEW s \in Live(root) \cap Live(root')
        PROVE  s \in Live(r) /\ SaysTheSame(r.entry[s], root'.entry[s])
    <3>1. s \in Live(r) /\ root'.entry[s] = Moved(used, r.entry[s]) BY <1>4, <2>1
    <3>3. r.entry[s] \in EntrySet
      <4>1. r \in TreeSet /\ Len(r.content) = Len(r.groups) BY <1>3 DEF TreeOK
      <4>2. s \in Slots BY <3>1, <4>1, LiveIs
      <4> QED BY <4>1, <4>2, TreeFields
    <3>4. SaysTheSame(r.entry[s], Moved(used, r.entry[s]))
      BY <1>2, <1>4, <3>3, MovedEntry DEF SaysTheSame
    <3> QED BY <3>1, <3>4
  <2> QED BY <2>5, <2>6
<1>13. CASE SaveFails(r, b)
  <2>1. root.gen < MaxFailures /\ root' = [root EXCEPT !.gen = @ + 1] BY <1>13 DEF SaveFails
  <2>2. /\ TreeOK(root') /\ Live(root') = Live(root) /\ root'.entry = root.entry
        /\ root'.gen = root.gen + 1
        /\ UsedIds(root') = UsedIds(root) /\ \A x : TreeSound(root, x) => TreeSound(root', x)
    BY <1>1, <2>1, RolledBack
  <2>3. root'.gen <= MaxFailures
    <3>1. root.gen \in Nat /\ MaxFailures \in Nat BY <1>1, TreeConstants, TreeFields DEF TreeOK
    <3> QED BY <2>1, <2>2, <3>1
  <2>4. /\ binaries' \in Seq(Contents) /\ shifted' \in BOOLEAN
        /\ ~shifted' => ~shifted /\ TreeSound(root, binaries')
    <3>1. CASE binaries' = b /\ UNCHANGED shifted BY <1>1, <1>11, <3>1
    <3>2. CASE /\ binaries' = c.b
               /\ shifted' = (shifted \/ UsedIds(root) \ UsedIds(r) # {})
      <4>1. ASSUME ~shifted' PROVE ~shifted /\ TreeSound(root, c.b)
        <5>1. ~shifted /\ UsedIds(root) \subseteq UsedIds(r) BY <3>2, <4>1
        <5>2. PICK n \in Nat : UsedIds(root) = 1..n BY <1>9, <5>1
        <5>3. 1..n \subseteq 1..N BY <1>10, <5>1, <5>2
        <5>4. n \in 0..N
          <6>1. CASE n = 0 BY <6>1, <1>2
          <6>2. CASE n # 0
            <7>1. n \in 1..n BY <6>2
            <7>2. n \in 1..N BY <5>3, <7>1
            <7> QED BY <1>2, <7>2
          <6> QED BY <6>1, <6>2
        <5>5. n <= Len(b) /\ N <= Len(b) BY <1>2, <5>4 DEF N
        <5>6. 1..n \subseteq used
          <6>1. 1..n \subseteq 1..Len(b) BY <1>2, <5>5
          <6> QED BY <1>2, <5>1, <5>2, <6>1 DEF used
        <5>7. n <= Len(c.b) /\ \A i \in 1..n : c.b[i] = b[i] BY <1>7, <5>6
        <5>8. \A i \in 1..n : c.b[i] = binaries[i]
          <6>1. \A i \in 1..N : b[i] = binaries[i] BY DEF N
          <6> QED BY <5>3, <5>7, <6>1
        <5>9. n \in 0..Len(binaries) BY <5>4 DEF N
        <5>10. UsedIds(root) \subseteq 1..n BY <5>2
        <5>11. TreeSound(root, binaries) BY <1>9, <5>1
        <5> HIDE DEF c
        <5>12. TreeSound(root, c.b)
          BY <1>1, <1>7, <5>7, <5>8, <5>9, <5>10, <5>11, Extended
        <5> QED BY <5>1, <5>12
      <4>2. shifted' \in BOOLEAN BY <1>1, <3>2
      <4> QED BY <1>7, <3>2, <4>1, <4>2
    <3> QED BY <1>13, <3>1, <3>2 DEF SaveFails, c
  <2>5. AttInv'
    <3>1. ASSUME ~shifted' PROVE TreeSound(root', binaries') /\ \E n \in Nat : UsedIds(root') = 1..n
      BY <1>9, <2>2, <2>4, <3>1
    <3> QED BY <3>1 DEF AttInv
  <2>6. IInv' BY <1>1, <1>5, <1>6, <2>2, <2>3, <2>4, <2>5 DEF IInv
  <2>7. \A s \in Live(root) \cap Live(root') : root'.entry[s] = root.entry[s] BY <2>2
  <2> QED BY <2>6, <2>7
<1> QED BY <1>12, <1>13 DEF UpdateAndSave

\* Properties.Set of Attributes overwrites the password.
Lost(s) ==
  /\ AllSaid(root'.entry[s].hist) = AllSaid(root.entry[s].hist)
  /\ \E a \in Attrs : /\ "Password" \in DOMAIN a /\ SetAttributes(s, a)
                      /\ root'.entry[s].values["Password"] = a["Password"]

\* Every update keeps the invariant, and the histories but for this one case.
LEMMA StepKeeps ==
  ASSUME IInv, Next
  PROVE  /\ IInv'
         /\ \A s \in Live(root) \cap Live(root') :
              Kept(root.entry[s], root'.entry[s]) \/ Lost(s)
<1>1. TreeOK(root) /\ binaries \in Seq(Contents) /\ maxItems \in Nat
  BY Limits DEF IInv
<1>2. root \in TreeSet /\ root.entry \in [Slots -> EntrySet]
  BY <1>1, TreeFields DEF TreeOK
<1>3. Len(binaries) \in Nat BY <1>1
<1>4. ASSUME NEW r, NEW b \in Seq(Contents), Updated(root, r, b), UpdateAndSave(r, b),
             Len(binaries) <= Len(b), \A i \in 1..Len(binaries) : b[i] = binaries[i]
      PROVE  /\ IInv'
             /\ \A s \in Live(root) \cap Live(root') : Kept(root.entry[s], root'.entry[s])
  <2>1. /\ Changed(root, r, b)
        /\ \A s \in Live(root) \cap Live(r) : Kept(root.entry[s], r.entry[s])
    BY <1>4 DEF Updated
  <2>2. /\ IInv'
        /\ \A s \in Live(root) \cap Live(root') :
             \/ root'.entry[s] = root.entry[s]
             \/ s \in Live(r) /\ SaysTheSame(r.entry[s], root'.entry[s])
    BY <1>4, <2>1, SaveKeeps
  <2>3. ASSUME NEW s \in Live(root) \cap Live(root') PROVE Kept(root.entry[s], root'.entry[s])
    <3>1. CASE root'.entry[s] = root.entry[s] BY <3>1 DEF Kept
    <3>2. CASE s \in Live(r) /\ SaysTheSame(r.entry[s], root'.entry[s])
      <4>1. Kept(root.entry[s], r.entry[s]) BY <2>1, <3>2
      <4> QED BY <3>2, <4>1 DEF Kept, SaysTheSame
    <3> QED BY <2>2, <3>1, <3>2
  <2> QED BY <2>2, <2>3
<1>b. \A i \in 1..Len(binaries) : binaries[i] = binaries[i] OBVIOUS
<1>5. ASSUME NEW l \in Titles \cup {Empty}, NEW a \in Attrs, NEW p \in Passwords,
             NEW rep \in BOOLEAN, Store(l, a, p, rep)
      PROVE  /\ IInv'
             /\ \A s \in Live(root) \cap Live(root') : Kept(root.entry[s], root'.entry[s])
  <2> DEFINE c == CreateItem(root, l, a, p, rep)
  <2>1. c.s # 0 /\ UpdateAndSave(c.r, binaries) BY <1>5 DEF Store
  <2>2. Updated(root, c.r, binaries) BY <1>1, <2>1, ItemStored
  <2> QED BY <1>1, <1>3, <1>4, <2>1, <2>2
<1>6. ASSUME NEW s \in Shown, NEW p \in Passwords, SetSecret(s, p)
      PROVE  /\ IInv'
             /\ \A t \in Live(root) \cap Live(root') : Kept(root.entry[t], root'.entry[t])
  <2> DEFINE f == [appendHistory(root.entry[s]) EXCEPT !.values["Password"] = p]
  <2>1. UpdateAndSave([root EXCEPT !.entry[s] = f], binaries) BY <1>6 DEF SetSecret
  <2>2. s \in Slots => Derived(root.entry[s], f, binaries) BY <1>1, <1>2, SecretSet
  <2> HIDE DEF f
  <2>3. Updated(root, [root EXCEPT !.entry[s] = f], binaries) BY <1>1, <2>2, EntryUpdated
  <2> QED BY <1>1, <1>3, <1>4, <2>1, <2>3
<1>7. ASSUME NEW s \in Shown, Delete(s)
      PROVE  /\ IInv'
             /\ \A t \in Live(root) \cap Live(root') : Kept(root.entry[t], root'.entry[t])
  <2>1. UpdateAndSave(removeEntryByUUID(root, s), binaries) BY <1>7 DEF Delete
  <2>2. Updated(root, removeEntryByUUID(root, s), binaries) BY <1>1, EntryRemoved
  <2> QED BY <1>1, <1>3, <1>4, <2>1, <2>2
<1>8. ASSUME NEW s \in Shown, NEW l \in Titles, SetLabel(s, l)
      PROVE  /\ IInv'
             /\ \A t \in Live(root) \cap Live(root') : Kept(root.entry[t], root'.entry[t])
  <2> DEFINE f == [root.entry[s] EXCEPT !.values["Title"] = l]
  <2>1. UpdateAndSave([root EXCEPT !.entry[s].values["Title"] = l], binaries) BY <1>8 DEF SetLabel
  <2>2. [root EXCEPT !.entry[s].values["Title"] = l] = [root EXCEPT !.entry[s] = f] OBVIOUS
  <2>3. s \in Slots => Derived(root.entry[s], f, binaries) BY <1>2, Labelled
  <2> HIDE DEF f
  <2>4. Updated(root, [root EXCEPT !.entry[s] = f], binaries) BY <1>1, <2>3, EntryUpdated
  <2> QED BY <1>1, <1>3, <1>4, <2>1, <2>2, <2>4
<1>9. ASSUME NEW s \in Shown, NEW a \in Attrs, SetAttributes(s, a)
      PROVE  /\ IInv'
             /\ \A t \in Live(root) \cap Live(root') :
                  Kept(root.entry[t], root'.entry[t]) \/ Lost(t)
  <2> DEFINE e == root.entry[s]  f == applyEntryAttributes(e, a)
             r == [root EXCEPT !.entry[s] = f]
  <2>1. UpdateAndSave(r, binaries) BY <1>9 DEF SetAttributes
  <2>2. s \in Slots => /\ Formed(e, f, binaries) /\ f.hist = e.hist
                       /\ f.values["Password"] = IF "Password" \in DOMAIN a THEN a["Password"]
                                                 ELSE e.values["Password"]
    BY <1>2, Attributed
  <2> HIDE DEF f
  <2>0. TreeOK(root) /\ (s \in Slots => Formed(root.entry[s], f, binaries)) BY <1>1, <2>2
  <2>3. /\ Changed(root, r, binaries) /\ Live(r) = Live(root)
        /\ \A t \in Live(root) : t \in Slots /\ r.entry[t] = IF t = s THEN f ELSE root.entry[t]
    BY <2>0, EntryChanged
  <2> HIDE DEF r
  <2>4. /\ IInv'
        /\ \A t \in Live(root) \cap Live(root') :
             \/ root'.entry[t] = root.entry[t]
             \/ t \in Live(r) /\ SaysTheSame(r.entry[t], root'.entry[t])
    BY <1>1, <1>3, <2>1, <2>3, SaveKeeps
  <2>5. ASSUME NEW t \in Live(root) \cap Live(root'),
               SaysTheSame(r.entry[t], root'.entry[t])
        PROVE  Kept(root.entry[t], root'.entry[t]) \/ Lost(t)
    <3>1. CASE t # s
      <4>1. r.entry[t] = root.entry[t] BY <2>3, <3>1
      <4> QED BY <2>5, <4>1 DEF Kept, SaysTheSame
    <3>2. CASE t = s
      <4>1. r.entry[t] = f /\ t \in Slots BY <2>3, <3>2
      <4>2. /\ AllSaid(root'.entry[t].hist) = AllSaid(e.hist)
            /\ root'.entry[t].values["Password"] = f.values["Password"]
        BY <2>2, <2>5, <3>2, <4>1 DEF SaysTheSame
      <4>3. CASE "Password" \in DOMAIN a
        <5>1. f.values["Password"] = a["Password"] BY <2>2, <3>2, <4>1, <4>3
        <5> QED BY <1>9, <3>2, <4>2, <4>3, <5>1 DEF Lost
      <4>4. CASE "Password" \notin DOMAIN a
        <5>1. f.values["Password"] = e.values["Password"] BY <2>2, <3>2, <4>1, <4>4
        <5> QED BY <3>2, <4>2, <5>1 DEF Kept
      <4> QED BY <4>3, <4>4
    <3> QED BY <3>1, <3>2
  <2>6. ASSUME NEW t \in Live(root) \cap Live(root')
        PROVE  Kept(root.entry[t], root'.entry[t]) \/ Lost(t)
    <3>1. CASE root'.entry[t] = root.entry[t] BY <3>1 DEF Kept
    <3>2. CASE SaysTheSame(r.entry[t], root'.entry[t]) BY <2>5, <3>2
    <3> QED BY <2>4, <3>1, <3>2
  <2> QED BY <2>4, <2>6
<1>10. ASSUME NEW t \in Titles, NEW k \in PrivateKeys, NEW c \in {Empty, "github"},
              SshStoreKey(t, k, c)
       PROVE  /\ IInv'
              /\ \A s \in Live(root) \cap Live(root') : Kept(root.entry[s], root'.entry[s])
  <2> DEFINE u == StoreKey(root, binaries, t, k, c)
  <2>1. u.s # 0 /\ UpdateAndSave(u.r, u.b) BY <1>10 DEF SshStoreKey
  <2>a. u.b = AddBinary(binaries, k).b BY <2>1 DEF StoreKey
  <2>b. c \in Texts BY DEF Texts
  <2>2. Updated(root, u.r, u.b) BY <1>1, <2>1, <2>b, KeyStored
  <2>3. k \in Contents BY DEF Contents
  <2>4. /\ u.b \in Seq(Contents) /\ Len(binaries) <= Len(u.b)
        /\ \A i \in 1..Len(binaries) : u.b[i] = binaries[i]
    BY <1>1, <2>a, <2>3, Added
  <2> HIDE DEF u
  <2> QED BY <1>4, <2>1, <2>2, <2>4
<1> QED BY <1>5, <1>6, <1>7, <1>8, <1>9, <1>10 DEF Next

-----------------------------------------------------------------------------
(* The first file *)

\* Where the two entries of the file may be.
Layouts == {<<<<1>>, <<>>, <<>>, <<>>, <<2>>>>, <<<<>>, <<>>, <<1>>, <<>>, <<2>>>>}

\* Two entries in the groups of the file.
LEMMA FirstTree ==
  ASSUME NEW bin \in {"name", "uuid"}, NEW c \in Layouts,
         NEW es \in [Slots -> EntrySet], EntryOK(es[1]), EntryOK(es[2])
  PROVE  LET r == [groups |-> Groups0(bin), content |-> c, entry |-> es, gen |-> 0] IN
         TreeOK(r) /\ Live(r) = {1, 2}
<1> DEFINE gs == Groups0(bin)  r == [groups |-> gs, content |-> c, entry |-> es, gen |-> 0]
<1> USE DEF Layouts
<1>1. 1 \in Slots /\ 2 \in Slots BY TreeConstants
<1>2. /\ Len(gs) = 5
      /\ gs[1] = [name |-> "Root", kids |-> <<2, 4>>]
      /\ gs[2] = [name |-> "Web", kids |-> <<3>>]
      /\ gs[3] = [name |-> "Sub", kids |-> <<>>]
      /\ gs[4] = [name |-> IF bin = "name" THEN "Recycle_Bin" ELSE "Trash", kids |-> <<5>>]
      /\ gs[5] = [name |-> "Web", kids |-> <<>>]
      /\ DOMAIN gs = 1..5
  BY DEF Groups0, Web, Bin, WebSub
<1>3. gs = [i \in 1..5 |-> gs[i]] BY DEF Groups0
<1>4. <<2, 4>> \in Seq(Nat) /\ <<3>> \in Seq(Nat) /\ <<5>> \in Seq(Nat) /\ <<>> \in Seq(Nat)
  OBVIOUS
<1> HIDE DEF gs
<1>5. \A i \in 1..5 : gs[i] \in GroupSet
  <2>1. gs[1] \in GroupSet BY <1>2, <1>4 DEF GroupSet, GroupNames
  <2>2. gs[2] \in GroupSet BY <1>2, <1>4 DEF GroupSet, GroupNames
  <2>3. gs[3] \in GroupSet BY <1>2, <1>4 DEF GroupSet, GroupNames
  <2>4. gs[4] \in GroupSet BY <1>2, <1>4 DEF GroupSet, GroupNames
  <2>5. gs[5] \in GroupSet BY <1>2, <1>4 DEF GroupSet, GroupNames
  <2> QED BY <2>1, <2>2, <2>3, <2>4, <2>5
<1>6. gs \in Seq(GroupSet) /\ gs # <<>>
  <2>1. gs \in [1..5 -> GroupSet] BY <1>3, <1>5
  <2>2. gs \in Seq(GroupSet) BY <1>2, <1>3, <1>5, <2>1
  <2> QED BY <1>2, <2>2
<1>7. c \in Seq(Seq(Slots)) /\ Len(c) = 5 /\ DOMAIN c = 1..5
  <2>1. <<1>> \in Seq(Slots) /\ <<2>> \in Seq(Slots) /\ <<>> \in Seq(Slots) BY <1>1
  <2> DEFINE one == <<1>>  two == <<2>>
  <2>2. one \in Seq(Slots) /\ two \in Seq(Slots) BY <2>1
  <2>3. CASE c = <<one, <<>>, <<>>, <<>>, two>>
    <3> HIDE DEF one, two
    <3> QED BY <2>1, <2>2, <2>3
  <2>4. CASE c = <<<<>>, <<>>, one, <<>>, two>>
    <3> HIDE DEF one, two
    <3> QED BY <2>1, <2>2, <2>4
  <2> QED BY <2>3, <2>4
<1>8. \A g \in 1..5 : \A i \in DOMAIN c[g] : i = 1 /\ c[g][i] = (IF g = 5 THEN 2 ELSE 1)
  OBVIOUS
<1>9. \A g, h \in 1..5 : c[g] # <<>> /\ c[h] # <<>> /\ g # h => g = 5 \/ h = 5 OBVIOUS
<1>10. OnePlace(c)
  <2> SUFFICES ASSUME NEW g \in 1..5, NEW h \in 1..5, NEW i \in DOMAIN c[g],
                      NEW j \in DOMAIN c[h], c[g][i] = c[h][j]
               PROVE  g = h /\ i = j
    BY <1>7 DEF OnePlace
  <2>1. i = 1 /\ j = 1 BY <1>8
  <2>2. c[g] # <<>> /\ c[h] # <<>> OBVIOUS
  <2>3. g = 5 <=> h = 5 BY <1>8
  <2> QED BY <1>9, <2>1, <2>2, <2>3
<1>11. r \in TreeSet BY <1>6, <1>7, TreeMade
<1>12. r.groups = gs /\ r.content = c /\ r.entry = es OBVIOUS
<1> HIDE DEF r
<1>13. AllGroups(r) = 1..5 /\ Len(r.content) = Len(r.groups) BY <1>2, <1>7, <1>12 DEF AllGroups
<1>14. \A s : s \in Live(r) <=> \E g \in DOMAIN r.content : \E i \in DOMAIN r.content[g] :
                                  r.content[g][i] = s
  BY <1>11, <1>13, LiveIs
<1>15. Live(r) = {1, 2}
  <2>1. ASSUME NEW s \in Live(r) PROVE s \in {1, 2}
    <3>1. PICK g \in 1..5 : \E i \in DOMAIN c[g] : c[g][i] = s BY <1>7, <1>12, <1>14
    <3> QED BY <1>8, <3>1
  <2>2. 2 \in Live(r)
    <3>1. 5 \in DOMAIN c /\ 1 \in DOMAIN c[5] /\ c[5][1] = 2 OBVIOUS
    <3> QED BY <1>12, <1>14, <3>1
  <2>3. 1 \in Live(r)
    <3>1. \E g \in {1, 3} : g \in DOMAIN c /\ 1 \in DOMAIN c[g] /\ c[g][1] = 1
      <4>1. CASE c = <<<<1>>, <<>>, <<>>, <<>>, <<2>>>> BY <4>1
      <4>2. CASE c = <<<<>>, <<>>, <<1>>, <<>>, <<2>>>> BY <4>2
      <4> QED BY <4>1, <4>2
    <3> QED BY <1>12, <1>14, <3>1
  <2> QED BY <2>1, <2>2, <2>3
<1>16. ASSUME NEW g \in 1..5, NEW h \in ToSet(gs[g].kids) PROVE g < h
  <2>1. g \in {1, 2, 3, 4, 5} OBVIOUS
  <2>2. PICK i \in DOMAIN gs[g].kids : h = gs[g].kids[i] BY DEF ToSet
  <2> QED BY <1>2, <2>1, <2>2
<1>17. TreeOK(r) BY <1>6, <1>10, <1>11, <1>12, <1>13, <1>15, <1>16 DEF TreeOK
<1> QED BY <1>15, <1>17 DEF r, gs

\* The key of the file, and perhaps settings of KeePassXC.
LEMMA FirstAttachments ==
  ASSUME NEW set \in BOOLEAN
  PROVE  LET rsa == [NewEntry.att EXCEPT !["id_rsa"] = [id |-> 1, content |-> "old_key"]]
             att == IF set THEN [rsa EXCEPT !["KeeAgent.settings"] =
                                   [id |-> 2, content |-> UseRsa]] ELSE rsa
             b == IF set THEN <<"old_key", UseRsa>> ELSE <<"old_key">>
             n == IF set THEN 2 ELSE 1 IN
         /\ att \in Attachments /\ b \in Seq(Contents) /\ NewEntry.att \in Attachments
         /\ \A v : v.att = att => Sound(v, b) /\ Ids(v) = 1..n
         /\ \A v : v.att = NewEntry.att => Sound(v, b) /\ Ids(v) = {}
<1> DEFINE rsa == [NewEntry.att EXCEPT !["id_rsa"] = [id |-> 1, content |-> "old_key"]]
           att == IF set THEN [rsa EXCEPT !["KeeAgent.settings"] =
                                 [id |-> 2, content |-> UseRsa]] ELSE rsa
           b == IF set THEN <<"old_key", UseRsa>> ELSE <<"old_key">>
           n == IF set THEN 2 ELSE 1
<1>1. /\ NewEntry.att = [m \in NameSet |-> Unattached]
      /\ Unattached = [id |-> 0, content |-> Empty]
  BY NamesAre DEF NewEntry, Unattached
<1>2. {Empty, "old_key", UseRsa} \subseteq Contents BY DEF Contents
<1>3. b \in Seq(Contents) /\ Len(b) = n /\ DOMAIN b = 1..n
  <2>1. CASE set BY <1>2, <2>1
  <2>2. CASE ~set BY <1>2, <2>2
  <2> QED BY <2>1, <2>2
<1>4. b[1] = "old_key" /\ (set => b[2] = UseRsa) OBVIOUS
<1>5. NewEntry.att \in Attachments BY <1>1, <1>2 DEF Attachments
<1>6. /\ att = [m \in NameSet |-> att[m]]
      /\ att["id_rsa"] = [id |-> 1, content |-> "old_key"]
      /\ att["ssh-key"] = Unattached
      /\ att["KeeAgent.settings"] = IF set THEN [id |-> 2, content |-> UseRsa] ELSE Unattached
  BY <1>1 DEF NameSet
<1>7. n \in {1, 2} /\ (n = 2 <=> set) OBVIOUS
<1> HIDE DEF b, att, n
<1>8. att \in Attachments
  <2>1. \A m \in NameSet : att[m] \in [id : Nat, content : Contents]
    BY <1>1, <1>2, <1>6 DEF NameSet
  <2> QED BY <1>6, <2>1 DEF Attachments
<1>9. /\ FindBinary(b, 0) = Empty /\ FindBinary(b, 1) = "old_key"
      /\ set => FindBinary(b, 2) = UseRsa
  BY <1>3, <1>4, <1>7 DEF FindBinary
<1>10. ASSUME NEW v, v.att = att PROVE Sound(v, b) /\ Ids(v) = 1..n
  <2>1. \A m \in NameSet : v.att[m].id \in 0..n /\ FindBinary(b, v.att[m].id) = v.att[m].content
    BY <1>1, <1>6, <1>7, <1>9, <1>10 DEF NameSet
  <2>2. Ids(v) \subseteq 1..n BY <1>7, <2>1, NamesAre DEF Ids
  <2>3. 1 \in Ids(v) BY <1>6, <1>10, NamesAre DEF Ids, NameSet
  <2>4. set => 2 \in Ids(v) BY <1>6, <1>10, NamesAre DEF Ids, NameSet
  <2>5. Ids(v) = 1..n
    <3>1. CASE set
      <4>1. 1..n = {1, 2} BY <1>7, <3>1
      <4> QED BY <2>2, <2>3, <2>4, <3>1, <4>1
    <3>2. CASE ~set
      <4>1. 1..n = {1} BY <1>7, <3>2
      <4> QED BY <2>2, <2>3, <4>1
    <3> QED BY <3>1, <3>2
  <2> QED BY <1>3, <2>1, <2>5 DEF Sound
<1>11. ASSUME NEW v, v.att = NewEntry.att PROVE Sound(v, b) /\ Ids(v) = {}
  <2>1. \A m \in NameSet : v.att[m].id = 0 /\ v.att[m].content = Empty BY <1>1, <1>11
  <2>2. Ids(v) = {} BY <2>1, NamesAre DEF Ids
  <2> QED BY <1>3, <1>7, <1>9, <2>1, <2>2 DEF Sound
<1> QED BY <1>3, <1>5, <1>8, <1>10, <1>11 DEF att, b, n

\* The two entries of the file.
LEMMA FirstEntries ==
  ASSUME NEW pw \in Passwords, NEW att
  PROVE  LET e1 == [Titled("git") EXCEPT !.values["UserName"] = "github",
                                         !.values["URL"] = "github",
                                         !.values["Password"] = pw, !.att = att]
             e2 == [Titled("git") EXCEPT !.values["application"] = "git",
                                         !.values["Password"] = pw] IN
         \E v1, v2 \in ValueSet :
           /\ e1 = [values |-> v1, att |-> att, settings |-> Empty, hist |-> <<>>]
           /\ e2 = [values |-> v2, att |-> NewEntry.att, settings |-> Empty, hist |-> <<>>]
           /\ v1["Title"] \in Texts /\ v2["Title"] \in Texts
<1>1. "git" \in Texts /\ "github" \in Texts BY DEF Texts
<1>2. PICK e \in EntrySet : e = Titled("git") BY <1>1, TitledType
<1>3. /\ e.values["Title"] = "git" /\ e.settings = Empty /\ e.hist = <<>>
      /\ e.att = NewEntry.att
  BY <1>1, <1>2, TitledType
<1>5. /\ "github" \in TextsOf("UserName") /\ "github" \in TextsOf("URL")
      /\ "git" \in TextsOf("application") /\ pw \in TextsOf("Password")
  BY <1>1 DEF TextsOf
<1>6. /\ "Title" # "UserName" /\ "Title" # "URL" /\ "Title" # "Password"
      /\ "Title" # "application"
  OBVIOUS
<1> DEFINE f1 == [e EXCEPT !.values["UserName"] = "github"]
           f2 == [f1 EXCEPT !.values["URL"] = "github"]
           f3 == [f2 EXCEPT !.values["Password"] = pw]
           g1 == [e EXCEPT !.values["application"] = "git"]
           g2 == [g1 EXCEPT !.values["Password"] = pw]
           e1 == [e EXCEPT !.values["UserName"] = "github", !.values["URL"] = "github",
                           !.values["Password"] = pw, !.att = att]
           e2 == [e EXCEPT !.values["application"] = "git", !.values["Password"] = pw]
           Still(f) == /\ f \in EntrySet /\ f.values["Title"] = "git"
                       /\ f.att = NewEntry.att /\ f.settings = Empty /\ f.hist = <<>>
<1>7. e1 = [f3 EXCEPT !.att = att] /\ e2 = g2 OBVIOUS
<1> HIDE DEF e1, e2
<1>8. Still(f1) BY <1>3, <1>5, <1>6, KeysAre, WithValue
<1>9. Still(g1) BY <1>3, <1>5, <1>6, KeysAre, WithValue
<1> HIDE DEF f1, g1
<1>10. Still(f2) BY <1>5, <1>6, <1>8, KeysAre, WithValue
<1>11. Still(g2) BY <1>5, <1>6, <1>9, KeysAre, WithValue
<1> HIDE DEF f2, g2
<1>12. Still(f3) BY <1>5, <1>6, <1>10, KeysAre, WithValue
<1> HIDE DEF f3
<1>13. /\ f3.values \in ValueSet
       /\ f3 = [values |-> f3.values, att |-> NewEntry.att, settings |-> Empty, hist |-> <<>>]
  BY <1>12, EntryFields
<1>14. /\ g2.values \in ValueSet
       /\ g2 = [values |-> g2.values, att |-> NewEntry.att, settings |-> Empty, hist |-> <<>>]
  BY <1>11, EntryFields
<1>15. e1 = [values |-> f3.values, att |-> att, settings |-> Empty, hist |-> <<>>]
  BY <1>7, <1>13
<1>16. \E v1, v2 \in ValueSet :
         /\ e1 = [values |-> v1, att |-> att, settings |-> Empty, hist |-> <<>>]
         /\ e2 = [values |-> v2, att |-> NewEntry.att, settings |-> Empty, hist |-> <<>>]
         /\ v1["Title"] \in Texts /\ v2["Title"] \in Texts
  BY <1>1, <1>7, <1>11, <1>12, <1>13, <1>14, <1>15
<1> QED BY <1>2, <1>16 DEF e1, e2

LEMMA InitOK == Init => IInv
<1> SUFFICES ASSUME Init PROVE IInv OBVIOUS
<1> DEFINE pw == CHOOSE p \in Passwords : TRUE
<1>1. /\ expose \in {"none", "name", "uuid"}
      /\ meta \in [items : Nat, size : Nat, bin : {"name", "uuid"}]
  <2>1. {1} \subseteq Nat /\ {0} \subseteq Nat /\ {3} \subseteq Nat OBVIOUS
  <2>2. CASE expose = "none" /\ meta \in [items : {1}, size : {0}, bin : {"name", "uuid"}]
    BY <2>2
  <2>3. CASE expose = "none" /\ meta \in [items : {0}, size : {3}, bin : {"name", "uuid"}]
    BY <2>3
  <2>4. CASE expose \in {"name", "uuid"} /\ meta = [items |-> 0, size |-> 0, bin |-> expose]
    BY <2>4
  <2> QED BY <2>2, <2>3, <2>4 DEF Init
<1>2. PICK set \in BOOLEAN :
       LET rsa == [NewEntry.att EXCEPT !["id_rsa"] = [id |-> 1, content |-> "old_key"]]
           att == IF set THEN [rsa EXCEPT !["KeeAgent.settings"] =
                                 [id |-> 2, content |-> UseRsa]] ELSE rsa
           e1 == [Titled("git") EXCEPT !.values["UserName"] = "github", !.values["URL"] = "github",
                                       !.values["Password"] = pw, !.att = att]
           e2 == [Titled("git") EXCEPT !.values["application"] = "git",
                                       !.values["Password"] = pw] IN
       /\ set => expose = "none"
       /\ root = [groups |-> Groups0(meta.bin),
                  content |-> IF expose = "none" THEN <<<<1>>, <<>>, <<>>, <<>>, <<2>>>>
                              ELSE <<<<>>, <<>>, <<1>>, <<>>, <<2>>>>,
                  entry |-> [s \in Slots |-> IF s = 1 THEN e1 ELSE
                                             IF s = 2 THEN e2 ELSE NoEntry],
                  gen |-> 0]
       /\ binaries = IF set THEN <<"old_key", UseRsa>> ELSE <<"old_key">>
  BY DEF Init
<1> DEFINE rsa == [NewEntry.att EXCEPT !["id_rsa"] = [id |-> 1, content |-> "old_key"]]
           att == IF set THEN [rsa EXCEPT !["KeeAgent.settings"] =
                                 [id |-> 2, content |-> UseRsa]] ELSE rsa
           n == IF set THEN 2 ELSE 1
           e1 == [Titled("git") EXCEPT !.values["UserName"] = "github", !.values["URL"] = "github",
                                       !.values["Password"] = pw, !.att = att]
           e2 == [Titled("git") EXCEPT !.values["application"] = "git",
                                       !.values["Password"] = pw]
           es == [s \in Slots |-> IF s = 1 THEN e1 ELSE IF s = 2 THEN e2 ELSE NoEntry]
           c == IF expose = "none" THEN <<<<1>>, <<>>, <<>>, <<>>, <<2>>>>
                ELSE <<<<>>, <<>>, <<1>>, <<>>, <<2>>>>
<1>3. root = [groups |-> Groups0(meta.bin), content |-> c, entry |-> es, gen |-> 0]
  BY <1>2
<1>4. /\ att \in Attachments /\ binaries \in Seq(Contents) /\ NewEntry.att \in Attachments
      /\ \A v : v.att = att => Sound(v, binaries) /\ Ids(v) = 1..n
      /\ \A v : v.att = NewEntry.att => Sound(v, binaries) /\ Ids(v) = {}
  BY <1>2, FirstAttachments
<1>5. pw \in Passwords BY TreeConstants
<1>6. n \in Nat OBVIOUS
<1>7. c \in Layouts BY DEF Layouts
<1> HIDE DEF pw, att, n, c, e1, e2, es
<1>8. \E v1, v2 \in ValueSet :
        /\ e1 = [values |-> v1, att |-> att, settings |-> Empty, hist |-> <<>>]
        /\ e2 = [values |-> v2, att |-> NewEntry.att, settings |-> Empty, hist |-> <<>>]
        /\ v1["Title"] \in Texts /\ v2["Title"] \in Texts
  BY <1>5, FirstEntries DEF e1, e2
<1>9. PICK v1 \in ValueSet, v2 \in ValueSet :
        /\ e1 = [values |-> v1, att |-> att, settings |-> Empty, hist |-> <<>>]
        /\ e2 = [values |-> v2, att |-> NewEntry.att, settings |-> Empty, hist |-> <<>>]
        /\ v1["Title"] \in Texts /\ v2["Title"] \in Texts
  BY <1>8
<1>10. <<>> \in Seq(VersionSet) /\ Empty \in {Empty, "ssh-key"} OBVIOUS
<1>11. e1 \in EntrySet /\ e2 \in EntrySet BY <1>4, <1>9, <1>10, EntryMade
<1>12. Versions(e1) = {e1} /\ Versions(e2) = {e2}
  <2>1. ToSet(<<>>) = {} BY DEF ToSet
  <2> QED BY <1>9, <2>1 DEF Versions
<1>13. EntryOK(e1) /\ EntryOK(e2) BY <1>9, <1>12, EmptyIs DEF EntryOK
<1>14. 1 \in Slots /\ 2 \in Slots BY TreeConstants
<1>15. es \in [Slots -> EntrySet] /\ es[1] = e1 /\ es[2] = e2
  BY <1>11, <1>14, NoEntryType DEF es
<1>16. TreeOK(root) /\ Live(root) = {1, 2}
  <2>1. meta.bin \in {"name", "uuid"} BY <1>1
  <2>2. EntryOK(es[1]) /\ EntryOK(es[2]) BY <1>13, <1>15
  <2> QED BY <1>3, <1>7, <1>15, <2>1, <2>2, FirstTree
<1>17. root.entry = es /\ root.gen = 0 BY <1>3
<1>18. TreeSound(root, binaries)
  <2>1. Sound(e1, binaries) /\ Sound(e2, binaries) BY <1>4, <1>9
  <2> QED BY <1>12, <1>15, <1>16, <1>17, <2>1 DEF TreeSound, AllSound
<1>19. UsedIds(root) = 1..n
  <2>1. Ids(e1) = 1..n /\ Ids(e2) = {} BY <1>4, <1>9
  <2>2. \A x : x \in UsedIds(root) <=>
          \E s \in Live(root) : \E v \in Versions(root.entry[s]) : x \in Ids(v)
    BY DEF UsedIds, Versions
  <2>3. \A x : x \in UsedIds(root) <=> x \in Ids(e1) \/ x \in Ids(e2)
    BY <1>12, <1>15, <1>16, <1>17, <2>2
  <2> QED BY <2>1, <2>3
<1>20. AttInv BY <1>6, <1>18, <1>19 DEF AttInv
<1>21. shifted \in BOOLEAN /\ ops \in 0..MaxOps /\ root.gen <= MaxFailures
  <2>1. shifted = FALSE /\ ops = 0 BY DEF Init
  <2>2. MaxOps \in Nat /\ MaxFailures \in Nat BY TreeConstants
  <2>3. ops \in 0..MaxOps BY <2>1, <2>2
  <2>4. root.gen <= MaxFailures BY <1>17, <2>2
  <2>5. shifted \in BOOLEAN BY <2>1
  <2> QED BY <2>3, <2>4, <2>5
<1> QED BY <1>1, <1>4, <1>16, <1>20, <1>21 DEF IInv

LEMMA Inductive == IInv /\ [Next]_vars => IInv'
<1> SUFFICES ASSUME IInv, [Next]_vars PROVE IInv' OBVIOUS
<1>1. CASE Next BY <1>1, StepKeeps
<1>2. CASE UNCHANGED vars BY <1>2 DEF vars, IInv, AttInv
<1> QED BY <1>1, <1>2

-----------------------------------------------------------------------------
(* The theorems *)

LEMMA Types == IInv => TypeOK
<1> SUFFICES ASSUME IInv PROVE TypeOK OBVIOUS
<1>1. TreeOK(root) BY DEF IInv
<1>2. /\ root \in TreeSet /\ Len(root.content) = Len(root.groups)
      /\ root.content \in Seq(Seq(Slots)) /\ root.entry \in [Slots -> EntrySet]
      /\ root.gen \in Nat
  BY <1>1, TreeFields DEF TreeOK
<1>3. Live(root) \subseteq Slots BY <1>2, LiveIs
<1>4. DOMAIN root.content = AllGroups(root) BY <1>2 DEF AllGroups
<1>5. ASSUME NEW s \in Live(root), NEW v \in {root.entry[s]} \cup ToSet(root.entry[s].hist)
      PROVE  VersionOK(v)
  <2> DEFINE e == root.entry[s]
  <2>1. e \in EntrySet /\ EntryOK(e) BY <1>1, <1>2, <1>3 DEF TreeOK
  <2> HIDE DEF e
  <2>2. v.values["Title"] \in Texts BY <2>1 DEF EntryOK, Versions, e
  <2>3. /\ v.values \in ValueSet /\ v.settings \in {Empty, "ssh-key"} /\ v.att \in Attachments
    <3>1. CASE v = e BY <2>1, <3>1, EntryFields
    <3>2. CASE v \in ToSet(e.hist)
      <4>1. e.hist \in Seq(VersionSet) BY <2>1, EntryFields
      <4>2. v \in VersionSet BY <3>2, <4>1 DEF ToSet
      <4> QED BY <4>2 DEF VersionSet
    <3> QED BY <3>1, <3>2 DEF e
  <2>5. DOMAIN v.values = Keys BY <2>3, ValuesAre
  <2>6. ASSUME NEW k \in Keys
        PROVE  v.values[k] \in IF k = "Password" THEN Passwords \cup {Empty} ELSE Texts
    <3>1. v.values[k] \in TextsOf(k) BY <2>3, ValuesAre
    <3> QED BY <2>2, <3>1 DEF TextsOf
  <2>4. \A n \in ToSet(Names) : v.att[n].id \in Nat BY <2>3, NamesAre DEF Attachments
  <2> QED BY <2>3, <2>4, <2>5, <2>6 DEF VersionOK
<1>6. \A g \in AllGroups(root) : \A h \in ToSet(root.groups[g].kids) : g < h
  BY <1>1 DEF TreeOK
<1>7. \A g, h \in AllGroups(root) : \A i \in DOMAIN root.content[g], j \in DOMAIN root.content[h] :
        root.content[g][i] = root.content[h][j] => g = h /\ i = j
  BY <1>1, <1>4 DEF TreeOK, OnePlace
<1>8. root.gen \in 0..MaxFailures /\ shifted \in BOOLEAN /\ ops \in 0..MaxOps
  <2>1. root.gen <= MaxFailures /\ MaxFailures \in Nat BY TreeConstants DEF IInv
  <2> QED BY <1>2, <2>1 DEF IInv
<1> QED BY <1>2, <1>3, <1>5, <1>6, <1>7, <1>8 DEF TypeOK

LEMMA Resolves == IInv => AttachmentsKeptUnlessShifted
<1> SUFFICES ASSUME IInv, ~shifted PROVE AllResolved BY DEF AttachmentsKeptUnlessShifted
<1>1. TreeSound(root, binaries) BY DEF IInv, AttInv
<1>2. ASSUME NEW s \in Live(root), NEW v \in Versions(root.entry[s]) PROVE Resolved(v, binaries)
  BY <1>1, NamesAre DEF TreeSound, AllSound, Sound, Resolved
<1> QED BY <1>2 DEF AllResolved, Versions

\* An entry whose settings name the attachment "ssh-key" gives what is there.
LEMMA Served ==
  ASSUME NEW e, NEW b \in Seq(Contents), e.settings = "ssh-key",
         e.att["KeeAgent.settings"].id = 0, e.att["ssh-key"].id # 0,
         FindBinary(b, e.att["ssh-key"].id) \in PrivateKeys
  PROVE  extractKeyFromEntryWithDB(e, b) = FindBinary(b, e.att["ssh-key"].id)
<1>1. FindBinary(b, 0) = Empty BY DEF FindBinary
<1>2. SettingsName(e, b) = "ssh-key" BY <1>1, EmptyIs DEF SettingsName
<1>3. IsKey(FindBinary(b, e.att["ssh-key"].id)) BY TreeConstants DEF IsKey
<1> QED BY <1>2, <1>3, EmptyIs DEF extractKeyFromEntryWithDB

LEMMA ServedNow ==
  ASSUME IInv, ~shifted, NEW s \in Live(root), root.entry[s].settings = "ssh-key",
         root.entry[s].att["KeeAgent.settings"].id = 0
  PROVE  extractKeyFromEntryWithDB(root.entry[s], binaries) = root.entry[s].att["ssh-key"].content
<1> DEFINE e == root.entry[s]
<1>1. EntryOK(e) /\ binaries \in Seq(Contents) BY DEF IInv, TreeOK
<1>2. Sound(e, binaries) BY DEF IInv, AttInv, TreeSound, AllSound, Versions
<1>3. e.att["ssh-key"].id # 0 /\ e.att["ssh-key"].content \in PrivateKeys
  BY <1>1 DEF EntryOK
<1>4. FindBinary(binaries, e.att["ssh-key"].id) = e.att["ssh-key"].content
  BY <1>2 DEF Sound, NameSet
<1>5. e.settings = "ssh-key" /\ e.att["KeeAgent.settings"].id = 0 OBVIOUS
<1> HIDE DEF e
<1>6. extractKeyFromEntryWithDB(e, binaries) = FindBinary(binaries, e.att["ssh-key"].id)
  BY <1>1, <1>3, <1>4, <1>5, Served
<1> QED BY <1>4, <1>6 DEF e

LEMMA ServedNext ==
  ASSUME IInv, NEW t \in Titles, NEW k \in PrivateKeys,
         StoreKey(root, binaries, t, k, Empty).s # 0
  PROVE  LET u == StoreKey(root, binaries, t, k, Empty)
             clean == cleanupBinaries(u.r, u.b)
             e == clean.r.entry[u.s] IN
         \/ e.att["KeeAgent.settings"].id # 0
         \/ extractKeyFromEntryWithDB(e, clean.b) = k
<1> DEFINE u == StoreKey(root, binaries, t, k, Empty)
           clean == cleanupBinaries(u.r, u.b)
           e == clean.r.entry[u.s]
           f == u.r.entry[u.s]
           used == UsedIds(u.r) \cap DOMAIN u.b
           id == AddBinary(binaries, k).id
<1>1. TreeOK(root) /\ binaries \in Seq(Contents) BY DEF IInv
<1>a. u.b = AddBinary(binaries, k).b BY DEF StoreKey
<1>2. /\ Updated(root, u.r, u.b)
      /\ u.s \in Live(u.r) /\ f.settings = "ssh-key"
      /\ f.att["ssh-key"] = [id |-> id, content |-> k]
  <2>1. Empty \in Texts BY DEF Texts
  <2> QED BY <1>1, <2>1, KeyStored
<1> HIDE DEF u, id
<1>3. u.b \in Seq(Contents) /\ id \in 1..Len(u.b) /\ u.b[id] = k
  <2>1. k \in Contents BY DEF Contents
  <2> QED BY <1>1, <1>a, <2>1, Added DEF id
<1>4. TreeOK(u.r) BY <1>2 DEF Updated, Changed
<1>5. /\ clean.b = Compacted(used, u.b) /\ used \in SUBSET (1..Len(u.b))
      /\ \A s \in Live(u.r) : clean.r.entry[s] = Moved(used, u.r.entry[s])
  BY <1>3, <1>4, Cleaned
<1>6. f \in EntrySet
  <2>1. u.r \in TreeSet /\ Len(u.r.content) = Len(u.r.groups) BY <1>4 DEF TreeOK
  <2>2. u.s \in Slots BY <1>2, <2>1, LiveIs
  <2> QED BY <2>1, <2>2, TreeFields
<1>7. f.att["ssh-key"].id = id BY <1>2
<1>8. id \in used
  <2>1. id # 0 /\ id \in DOMAIN u.b BY <1>3
  <2>2. id \in Ids(f) BY <1>7, <2>1, NamesAre DEF Ids, NameSet
  <2>3. id \in UsedIds(u.r) BY <1>2, <2>2 DEF UsedIds
  <2> QED BY <2>1, <2>3
<1>9. e = Moved(used, f) BY <1>2, <1>5
<1>10. Len(u.b) \in Nat BY <1>3
<1> HIDE DEF clean, e, f, used
<1>11. e.settings = f.settings /\ e.att = NewAtts(used, f)
  BY <1>5, <1>6, <1>9, <1>10, MovedEntry
<1>12. e.att["ssh-key"].id = NewId(used, id)
  <2>1. f.att \in Attachments BY <1>6, EntryFields
  <2>2. \A n \in NameSet : NewAtts(used, f)[n].id = NewId(used, f.att[n].id)
    BY <1>5, <1>10, <2>1, Renumbered
  <2> QED BY <1>7, <1>11, <2>2 DEF NameSet
<1>13. /\ clean.b \in Seq(Contents)
       /\ NewId(used, id) \in 1..Len(clean.b) /\ clean.b[NewId(used, id)] = k
  <2>1. /\ Compacted(used, u.b) \in Seq(Contents)
        /\ \A i \in used : /\ NewId(used, i) \in 1..Len(Compacted(used, u.b))
                           /\ Compacted(used, u.b)[NewId(used, i)] = u.b[i]
    BY <1>3, <1>5, Compaction
  <2> QED BY <1>3, <1>5, <1>8, <2>1
<1>14. NewId(used, id) # 0 /\ FindBinary(clean.b, NewId(used, id)) = k
  BY <1>13 DEF FindBinary
<1>15. ASSUME e.att["KeeAgent.settings"].id = 0
       PROVE  extractKeyFromEntryWithDB(e, clean.b) = k
  <2>1. e.settings = "ssh-key" BY <1>2, <1>11
  <2>2. FindBinary(clean.b, e.att["ssh-key"].id) = k BY <1>12, <1>14
  <2> QED BY <1>12, <1>13, <1>14, <1>15, <2>1, <2>2, Served
<1> QED BY <1>15 DEF u, clean, e

LEMMA Serves == IInv => GeneratedIsServed
<1> SUFFICES ASSUME IInv PROVE GeneratedIsServed OBVIOUS
<1>1. \A s \in Live(root) : root.entry[s].settings = "ssh-key" =>
        \/ shifted \/ root.entry[s].att["KeeAgent.settings"].id # 0
        \/ extractKeyFromEntryWithDB(root.entry[s], binaries) = root.entry[s].att["ssh-key"].content
  BY ServedNow
<1>2. \A t \in Titles, k \in PrivateKeys :
        LET u == StoreKey(root, binaries, t, k, Empty)
            clean == cleanupBinaries(u.r, u.b)
            e == clean.r.entry[u.s] IN
        u.s # 0 => \/ e.att["KeeAgent.settings"].id # 0
                   \/ extractKeyFromEntryWithDB(e, clean.b) = k
  BY ServedNext
<1> QED BY <1>1, <1>2 DEF GeneratedIsServed

LEMMA Invariant == Spec => []IInv
<1>1. Init => IInv BY InitOK
<1>2. IInv /\ [Next]_vars => IInv' BY Inductive
<1> QED BY <1>1, <1>2, PTL DEF Spec

\* Whatever is stored, changed or deleted and whichever saves fail: an entry
\* is in one place of the tree and every version of it is well formed.
THEOREM TreeTypeCorrect == Spec => []TypeOK
<1>1. IInv => TypeOK BY Types
<1> QED BY <1>1, Invariant, PTL

\* UpdateAndSave: until a save fails whose update dropped the last reference
\* to an attachment, every attachment of every entry and of its history is the
\* one that was attached, for any number of entries, keys and failed saves.
THEOREM AttachmentsStay == Spec => []AttachmentsKeptUnlessShifted
<1>1. IInv => AttachmentsKeptUnlessShifted BY Resolves
<1> QED BY <1>1, Invariant, PTL

\* SshGenerateKey and SshImportKey: the key an entry was given is the one the
\* SSH agent gets from it, whatever was stored, removed or rolled back before.
THEOREM KeysAreServed == Spec => []GeneratedIsServed
<1>1. IInv => GeneratedIsServed BY Serves
<1> QED BY <1>1, Invariant, PTL

\* appendHistory and trimHistory: an overwritten secret joins the history of
\* its entry, which is the longest the limits of the database allow; nothing
\* else touches a history.  The one secret that is lost is that of an entry
\* whose Attributes a client sets to some with a "Password".
THEOREM HistoryIsComplete == Spec => HistoryComplete
<1> DEFINE Step == \A s \in Live(root) \cap Live(root)' :
             LET e == root.entry[s]
                 f == root'.entry[s]
                 lost == \E a \in Attrs : /\ "Password" \in DOMAIN a /\ SetAttributes(s, a)
                                          /\ f.values["Password"] = a["Password"] IN
             \/ Archives(f.hist, Append(e.hist, Version(e)))
             \/ /\ AllSaid(f.hist) = AllSaid(e.hist)
                /\ f.values["Password"] = e.values["Password"] \/ lost
<1>1. IInv /\ IInv' /\ [Next]_vars => [Step]_vars
  <2> SUFFICES ASSUME IInv, IInv', Next, NEW s \in Live(root), s \in Live(root')
               PROVE  LET e == root.entry[s]
                          f == root'.entry[s]
                          lost == \E a \in Attrs : /\ "Password" \in DOMAIN a
                                                   /\ SetAttributes(s, a)
                                                   /\ f.values["Password"] = a["Password"] IN
                      \/ Archives(f.hist, Append(e.hist, Version(e)))
                      \/ /\ AllSaid(f.hist) = AllSaid(e.hist)
                         /\ f.values["Password"] = e.values["Password"] \/ lost
    OBVIOUS
  <2>1. Kept(root.entry[s], root'.entry[s]) \/ Lost(s) BY StepKeeps
  <2>2. ASSUME NEW r, TreeOK(r), s \in Live(r) PROVE r.entry[s] \in EntrySet
    <3>1. r \in TreeSet /\ Len(r.content) = Len(r.groups) BY <2>2 DEF TreeOK
    <3>2. s \in Slots BY <2>2, <3>1, LiveIs
    <3> QED BY <3>1, <3>2, TreeFields
  <2>3. TreeOK(root) /\ TreeOK(root') BY DEF IInv
  <2>4. root.entry[s] \in EntrySet /\ root'.entry[s] \in EntrySet BY <2>2, <2>3
  <2>5. CASE Kept(root.entry[s], root'.entry[s]) BY <2>4, <2>5, HistoryKept
  <2>6. CASE Lost(s) BY <2>6 DEF Lost
  <2> QED BY <2>1, <2>5, <2>6
<1>2. IInv /\ [Next]_vars => IInv' BY Inductive
<1> HIDE DEF Step
<1>3. Spec => [][Step]_vars BY <1>1, <1>2, Invariant, PTL DEF Spec
<1> QED BY <1>3 DEF HistoryComplete, Step
=============================================================================
