------------------------- MODULE SecretItemsProofs -------------------------
(***************************************************************************)
(* Proofs about SecretItems, for any number of concurrent calls, entries,  *)
(* items, sessions and prompts.                                            *)
(***************************************************************************)
EXTENDS SecretItems, TLAPS

Ops == {"none", "get", "gets", "set", "delete", "prompt"}

Served == [value : Values \cup {Empty, Garbage}, confirmed : BOOLEAN, locked : BOOLEAN]

CallType ==
  [pc : Pcs, op : Ops, item : Objects \cup Prompts \cup {None}, todo : Seq(Uuids),
   sid : Sids \cup {None}, new : Values \cup {None}, granted : BOOLEAN,
   served : SUBSET Served]

ItemType == [uuid : Uuids \cup {None}, cell : Cell]

PromptType ==
  [made : BOOLEAN, dismissed : BOOLEAN, calls : Seq(BOOLEAN), signals : Seq(BOOLEAN),
   unsent : BOOLEAN, closed : BOOLEAN]

HistType ==
  [seen : SUBSET Password, off : BOOLEAN, wrote : BOOLEAN, locked : BOOLEAN, left : BOOLEAN]

\* TypeOK with the records in full.
Types ==
  /\ TypeOK
  /\ call \in [Callers -> CallType]
  /\ prompt \in [Prompts -> PromptType]
  /\ hist \in [Callers -> HistType]

\* Where a call has an entry in hand.
Holding == {"refresh", "auth", "label", "polkit", "refused", "read", "log", "logNext",
            "write", "saving", "unexport"}

\* Which method may be where, and what it works on.
Shape(c) ==
  LET r == call[c] IN
  /\ r.pc \in {"auth", "label", "polkit", "refused", "read"} => r.op \in {"get", "gets"}
  /\ r.pc = "log" => r.op \in {"get", "set"}
  /\ r.pc \in {"next", "logNext"} => r.op = "gets"
  /\ r.pc = "session" => r.op \in {"get", "gets", "set"}
  /\ r.pc = "refresh" => r.op \in {"get", "set", "delete"}
  /\ r.pc \in {"write", "saving"} => r.op \in {"set", "delete"}
  /\ r.pc = "unexport" => r.op = "delete"
  /\ r.pc = "store" => r.sid \in Sids
  /\ r.pc \in {"emit", "emitTrue", "close"} => r.op = "prompt"
  /\ r.op = "gets" => r.item = c
  /\ r.op \in {"get", "set", "delete"} => r.item \in Items /\ obj[r.item].uuid \in Uuids
  /\ r.op = "gets" /\ r.pc \in Holding => obj[c].uuid \in Uuids
  /\ r.op = "prompt" => r.item \in Prompts
  /\ r.op = "set" => r.new \in Values
  /\ r.served # {} => r.pc \in {"log", "logNext"} /\ r.op \in {"get", "gets"}

ShapeInv ==
  /\ \A c \in Callers : Shape(c)
  /\ \A u \in Uuids : at[u] # None => obj[at[u]].uuid = u

-----------------------------------------------------------------------------
(* Operators *)

\* The call goes on with its arguments.
Same(c) ==
  /\ call'[c].op = call[c].op /\ call'[c].item = call[c].item
  /\ call'[c].sid = call[c].sid /\ call'[c].new = call[c].new

\* Goto ends the call or moves it, and leaves the others alone.
LEMMA GotoFacts ==
  ASSUME call \in [Callers -> CallType], NEW c \in Callers, NEW l \in Pcs, Goto(c, l)
  PROVE  /\ call' \in [Callers -> CallType]
         /\ \A d \in Callers \ {c} : call'[d] = call[d]
         /\ l = "idle" => call'[c] = Idle
         /\ l # "idle" => /\ call'[c].pc = l /\ Same(c) /\ call'[c].served = call[c].served
                          /\ call'[c].granted = call[c].granted
<1>1. Idle \in CallType BY DEF Idle, CallType, Pcs, Ops
<1>2. [call[c] EXCEPT !.pc = l] \in CallType BY DEF CallType
<1>3. l # "idle" => call'[c] = [call[c] EXCEPT !.pc = l] BY DEF Goto
<1>4. l # "idle" => /\ call'[c].pc = l /\ Same(c) /\ call'[c].served = call[c].served
                    /\ call'[c].granted = call[c].granted
  BY <1>3 DEF CallType, Same
<1> QED BY <1>1, <1>2, <1>4 DEF Goto

\* Refreshing changes the cell of one item at most.
LEMMA RefreshedFacts ==
  ASSUME TypeOK, NEW i \in Objects, obj[i].uuid \in Uuids
  PROVE  /\ Refreshed(i) \in [Objects -> ItemType]
         /\ \A j \in Objects : Refreshed(i)[j].uuid = obj[j].uuid
         /\ \A j \in Objects \ {i} : Refreshed(i)[j] = obj[j]
         /\ Refreshed(i)[i].cell = IF open THEN tree[obj[i].uuid] ELSE obj[i].cell
<1>1. obj \in [Objects -> ItemType] /\ tree[obj[i].uuid] \in Cell BY DEF TypeOK, ItemType
<1>2. CASE open
  <2>1. Refreshed(i) = [obj EXCEPT ![i] = [obj[i] EXCEPT !.cell = tree[obj[i].uuid]]]
    BY <1>2 DEF Refreshed
  <2>2. /\ [obj[i] EXCEPT !.cell = tree[obj[i].uuid]] \in ItemType
        /\ [obj[i] EXCEPT !.cell = tree[obj[i].uuid]].uuid = obj[i].uuid
        /\ [obj[i] EXCEPT !.cell = tree[obj[i].uuid]].cell = tree[obj[i].uuid]
    BY <1>1 DEF ItemType
  <2> QED BY <1>1, <1>2, <2>1, <2>2
<1>3. CASE ~open BY <1>1, <1>3 DEF Refreshed
<1> QED BY <1>2, <1>3

\* Passwords of a tree.
LEMMA PasswordsType ==
  ASSUME NEW t \in [Uuids -> Cell], NEW p \in [Cells -> Values \cup {Empty}]
  PROVE  Passwords(t, p) \in [Uuids -> Password]
BY DEF Passwords, Cell, Password

\* What a failed save puts in place.
LEMMA Restored ==
  ASSUME TypeOK, NEW c \in Callers, SaveFails(c)
  PROVE  /\ tree' \in [Uuids -> Cell] /\ plain' \in [Cells -> Values \cup {Empty}]
         /\ unused' \subseteq unused
         /\ \A u \in Uuids : tree'[u] # None => tree'[u] \in FreshCells
         /\ \A u, v \in Uuids : tree'[u] # None /\ tree'[u] = tree'[v] => u = v
         /\ \A u \in Uuids : tree'[u] # None =>
              \E v \in Uuids : backup[v] # None /\ plain'[tree'[u]] = backup[v]
<1> DEFINE old == {u \in Uuids : backup[u] # None}
<1>1. PICK us \in SUBSET unused, ks \in SUBSET FreshCells :
        \E f \in Bijections(us, old), g \in Bijections(ks, us) :
         /\ tree' = [u \in Uuids |-> IF u \in us THEN CHOOSE k \in ks : g[k] = u ELSE None]
         /\ plain' = [k \in Cells |-> IF k \in ks THEN backup[f[g[k]]] ELSE plain[k]]
         /\ unused' = unused \ us
  BY DEF SaveFails
<1>2. PICK f \in Bijections(us, old), g \in Bijections(ks, us) :
         /\ tree' = [u \in Uuids |-> IF u \in us THEN CHOOSE k \in ks : g[k] = u ELSE None]
         /\ plain' = [k \in Cells |-> IF k \in ks THEN backup[f[g[k]]] ELSE plain[k]]
         /\ unused' = unused \ us
  BY <1>1
<1>3. f \in [us -> old] /\ g \in [ks -> us] /\ \A u \in us : \E k \in ks : g[k] = u
  BY DEF Bijections
<1>4. ks \subseteq Cells /\ us \subseteq Uuids BY DEF FreshCells, TypeOK
<1>5. \A u \in us : tree'[u] \in ks /\ g[tree'[u]] = u
  <2>1. SUFFICES ASSUME NEW u \in us PROVE tree'[u] \in ks /\ g[tree'[u]] = u OBVIOUS
  <2>2. \E k \in ks : g[k] = u BY <1>3
  <2>3. (CHOOSE k \in ks : g[k] = u) \in ks /\ g[CHOOSE k \in ks : g[k] = u] = u BY <2>2
  <2> QED BY <1>2, <1>4, <2>3
<1>6. \A u \in Uuids \ us : tree'[u] = None BY <1>2
<1>7. \A k \in ks : f[g[k]] \in old /\ plain'[k] = backup[f[g[k]]] BY <1>2, <1>3, <1>4
<1>8. \A u \in old : backup[u] \in Values \cup {Empty} BY DEF TypeOK, Password
<1>9. tree' \in [Uuids -> Cell]
  <2>1. \A u \in Uuids : tree'[u] \in Cell BY <1>4, <1>5, <1>6 DEF Cell
  <2> QED BY <1>2, <2>1
<1>10. plain' \in [Cells -> Values \cup {Empty}]
  <2>1. \A k \in Cells : plain'[k] \in Values \cup {Empty} BY <1>2, <1>7, <1>8 DEF TypeOK
  <2> QED BY <1>2, <2>1
<1>11. unused' \subseteq unused BY <1>2
<1>12. \A u \in Uuids : tree'[u] # None => tree'[u] \in FreshCells BY <1>5, <1>6
<1>13. \A u, v \in Uuids : tree'[u] # None /\ tree'[u] = tree'[v] => u = v BY <1>5, <1>6
<1>14. \A u \in Uuids : tree'[u] # None =>
              \E v \in Uuids : backup[v] # None /\ plain'[tree'[u]] = backup[v]
  BY <1>5, <1>6, <1>7
<1> QED BY <1>9, <1>10, <1>11, <1>12, <1>13, <1>14

-----------------------------------------------------------------------------
(* Types, and which call is where *)

\* Items keep their entries.
ItemsKept ==
  \A i \in Items : obj[i].uuid \in Uuids => obj'[i].uuid = obj[i].uuid

LEMMA ShapeKept ==
  ASSUME NEW d \in Callers, Shape(d), call'[d] = call[d], ItemsKept,
         obj'[d].uuid = obj[d].uuid
  PROVE  Shape(d)'
BY DEF Shape, ItemsKept

\* What a step of c has to show.
Moved(c) ==
  /\ call' \in [Callers -> CallType]
  /\ \A d \in Callers \ {c} : call'[d] = call[d] /\ obj'[d].uuid = obj[d].uuid
  /\ ItemsKept
  /\ Shape(c)'

\* Steps of a call.
LEMMA CallMoves ==
  ASSUME Types, ShapeInv, NEW c \in Callers, CallStep(c)
  PROVE  Moved(c)
<1> USE ItemConstants DEF Objects
<1>0. /\ TypeOK /\ call \in [Callers -> CallType] /\ call[c] \in CallType /\ Shape(c)
      /\ call[c].pc \in Pcs
  BY DEF Types, ShapeInv, CallType
<1>1. /\ obj \in [Objects -> ItemType] /\ NoItem \in ItemType /\ NoItem.uuid = None
      /\ None \notin Uuids
  BY <1>0 DEF TypeOK, ItemType, NoItem, Cell
<1>a. call[c].pc \in Holding => call[c].item \in Objects /\ obj[call[c].item].uuid \in Uuids
  BY <1>0 DEF Shape, Holding, CallType, Pcs
\* A call that ends.
<1>2. ASSUME Goto(c, "idle"), \A d \in Callers \ {c} : obj'[d].uuid = obj[d].uuid, ItemsKept
      PROVE  Moved(c)
  <2>1. /\ call' \in [Callers -> CallType] /\ \A d \in Callers \ {c} : call'[d] = call[d]
        /\ call'[c] = Idle
    BY <1>0, <1>2, GotoFacts DEF Pcs
  <2>2. Shape(c)' BY <2>1 DEF Shape, Idle, Holding
  <2> QED BY <1>2, <2>1, <2>2 DEF Moved
\* A call that goes on with the entries as they are.
<1>3. ASSUME NEW l \in Pcs \ {"idle"}, Goto(c, l), call[c].served = {},
             \A j \in Objects : obj'[j].uuid = obj[j].uuid,
             \/ l = "auth" /\ call[c].op = "get"
             \/ l \in {"label", "refused", "read"} /\ call[c].pc \in {"auth", "polkit", "session"}
                /\ call[c].op \in {"get", "gets"} /\ obj[call[c].item].uuid \in Uuids
             \/ l = "session" /\ call[c].op = "get"
             \/ l = "next" /\ call[c].op = "gets"
             \/ l = "refresh" /\ call[c].op = "set"
             \/ l \in {"write", "saving"} /\ call[c].op \in {"set", "delete"}
             \/ l = "log" /\ call[c].op = "set"
             \/ l = "unexport" /\ call[c].op = "delete"
             \/ l = "close" /\ call[c].op = "prompt"
      PROVE  Moved(c)
  <2>1. /\ call' \in [Callers -> CallType] /\ \A d \in Callers \ {c} : call'[d] = call[d]
        /\ call'[c].pc = l /\ Same(c) /\ call'[c].served = {}
    BY <1>0, <1>3, GotoFacts
  <2>2. Shape(c)' BY <1>0, <1>3, <2>1 DEF Shape, Same, Holding
  <2> QED BY <1>3, <2>1, <2>2 DEF Moved, ItemsKept
<1>4. CASE Refresh(c)
  <2>1. /\ call[c].pc = "refresh" /\ obj' = Refreshed(call[c].item)
        /\ \/ Goto(c, "idle")
           \/ Goto(c, "auth") /\ call[c].op = "get"
           \/ Goto(c, "write") /\ call[c].op # "get"
    BY <1>4 DEF Refresh, At
  <2>2. \A j \in Objects : obj'[j].uuid = obj[j].uuid
    BY <1>0, <1>a, <2>1, RefreshedFacts DEF Holding
  <2>3. call[c].served = {} /\ call[c].op \in {"get", "set", "delete"} BY <1>0, <2>1 DEF Shape
  <2> QED BY <1>2, <1>3, <2>1, <2>2, <2>3 DEF ItemsKept, Pcs
<1>5. CASE Authorise(c) \/ (Polkit(c) /\ Goto(c, "refused"))
  <2>1. /\ call[c].pc \in {"auth", "polkit"} /\ obj' = obj
        /\ \E l \in {"label", "refused", "session", "read"} :
             Goto(c, l) /\ (l \in {"session", "read"} => l = Authorised(c))
    BY <1>5 DEF Authorise, Polkit, At, itemVars, Authorised
  <2>2. call[c].served = {} /\ call[c].op \in {"get", "gets"} /\ obj[call[c].item].uuid \in Uuids
    BY <1>0, <1>a, <2>1 DEF Shape, Holding
  <2> QED BY <1>3, <2>1, <2>2 DEF Pcs, Authorised
<1>6. CASE Polkit(c) /\ ~Goto(c, "refused")
  <2>1. /\ call[c].pc = "polkit" /\ obj' = obj
        /\ call' = [call EXCEPT ![c] = [call[c] EXCEPT !.granted = TRUE, !.pc = Authorised(c)]]
    BY <1>0, <1>6 DEF Polkit, At, itemVars
  <2>2. call[c].served = {} /\ call[c].op \in {"get", "gets"} /\ obj[call[c].item].uuid \in Uuids
    BY <1>0, <1>a, <2>1 DEF Shape, Holding
  <2>3. /\ call'[c] \in CallType /\ Same(c) /\ call'[c].served = {}
        /\ call'[c].pc = Authorised(c)
    BY <1>0, <2>1, <2>2 DEF CallType, Same, Authorised, Pcs
  <2>4. Shape(c)' BY <1>0, <2>1, <2>2, <2>3 DEF Shape, Same, Holding, Authorised
  <2> QED BY <1>0, <2>1, <2>3, <2>4 DEF Moved, ItemsKept
<1>7. CASE Label(c)
  <2>1. call[c].pc \in {"label", "refused", "log", "logNext"} BY <1>7 DEF Label, AfterLabel
  <2>2. /\ AfterLabel[call[c].pc] = "idle" <=> call[c].pc \in {"refused", "log"}
        /\ call[c].pc = "label" => AfterLabel[call[c].pc] = "polkit"
        /\ call[c].pc = "logNext" => AfterLabel[call[c].pc] = "next"
    BY <2>1 DEF AfterLabel
  <2>3. /\ Refreshed(call[c].item) \in [Objects -> ItemType]
        /\ \A j \in Objects : Refreshed(call[c].item)[j].uuid = obj[j].uuid
    BY <1>0, <1>a, <2>1, RefreshedFacts DEF Holding
  <2>4. CASE call[c].pc \in {"refused", "log"}
    <3>1. obj' = [Refreshed(call[c].item) EXCEPT ![c] = NoItem] /\ Goto(c, "idle")
      BY <1>7, <2>2, <2>4 DEF Label
    <3>2. \A j \in Objects \ {c} : obj'[j].uuid = obj[j].uuid BY <2>3, <3>1
    <3> QED BY <1>2, <3>1, <3>2 DEF ItemsKept
  <2>5. CASE call[c].pc \in {"label", "logNext"}
    <3>1. /\ obj' = Refreshed(call[c].item)
          /\ call' = [call EXCEPT ![c] = [call[c] EXCEPT !.pc = AfterLabel[call[c].pc], !.served = {}]]
      BY <1>0, <1>7, <2>2, <2>5 DEF Label
    <3>2. /\ call'[c] \in CallType /\ Same(c) /\ call'[c].served = {}
          /\ call'[c].pc = AfterLabel[call[c].pc]
      BY <1>0, <2>2, <2>5, <3>1 DEF CallType, Same, Pcs
    <3>3. Shape(c)' BY <1>0, <1>a, <2>2, <2>3, <2>5, <3>1, <3>2 DEF Shape, Same, Holding
    <3> QED BY <1>0, <2>3, <3>1, <3>2, <3>3 DEF Moved, ItemsKept
  <2> QED BY <2>1, <2>4, <2>5
<1>8. CASE LookupSession(c)
  <2>1. /\ call[c].pc = "session" /\ obj' = obj
        /\ Goto(c, "idle") \/ Goto(c, AfterSession[call[c].op])
    BY <1>8 DEF LookupSession, At, itemVars
  <2>2. call[c].served = {} /\ call[c].op \in {"get", "gets", "set"} BY <1>0, <2>1 DEF Shape
  <2>3. /\ call[c].op = "get" => AfterSession[call[c].op] = "read"
        /\ call[c].op = "gets" => AfterSession[call[c].op] = "next"
        /\ call[c].op = "set" => AfterSession[call[c].op] = "refresh"
    BY DEF AfterSession
  <2>4. call[c].op = "get" => obj[call[c].item].uuid \in Uuids BY <1>0 DEF Shape
  <2> QED BY <1>2, <1>3, <2>1, <2>2, <2>3, <2>4 DEF ItemsKept, Pcs
<1>9. CASE Read(c)
  <2>1. PICK v \in Unlocked(obj[call[c].item].cell) :
          call' = [call EXCEPT ![c] = [call[c] EXCEPT
            !.served = {[value |-> v, confirmed |-> call[c].granted, locked |-> ~open]},
            !.pc = IF call[c].op = "get" THEN "log" ELSE "logNext"]]
    BY <1>0, <1>9 DEF Read
  <2>2. call[c].pc = "read" /\ obj' = obj BY <1>9 DEF Read, At, itemVars
  <2>3. v \in Values \cup {Empty, Garbage}
    BY <1>0, <1>1, <1>a, <2>2 DEF Unlocked, TypeOK, ItemType, Cell, Holding
  <2>4. [value |-> v, confirmed |-> call[c].granted, locked |-> ~open] \in Served
    BY <1>0, <2>3 DEF Served, CallType
  <2>5. /\ call'[c] \in CallType /\ Same(c)
        /\ call'[c].pc = IF call[c].op = "get" THEN "log" ELSE "logNext"
    BY <1>0, <2>1, <2>4 DEF CallType, Same, Pcs
  <2>6. Shape(c)' BY <1>0, <1>a, <2>2, <2>5 DEF Shape, Same, Holding
  <2> QED BY <1>0, <2>1, <2>2, <2>5, <2>6 DEF Moved, ItemsKept
<1>10. CASE NextItem(c)
  <2>1. call[c].pc = "next" /\ call[c].op = "gets" /\ call[c].item = c /\ call[c].served = {}
    BY <1>0, <1>10 DEF NextItem, At, Shape
  <2>2. CASE call[c].todo = <<>>
    <3>1. Goto(c, "idle") /\ obj' = [obj EXCEPT ![c] = NoItem] BY <1>10, <2>2 DEF NextItem
    <3> QED BY <1>1, <1>2, <3>1 DEF ItemsKept
  <2>3. CASE call[c].todo # <<>>
    <3> DEFINE u == Head(call[c].todo)
               found == open /\ tree[u] # None
    <3>1. u \in Uuids /\ Tail(call[c].todo) \in Seq(Uuids) BY <1>0, <2>3 DEF CallType
    <3>2. /\ call' = [call EXCEPT ![c] = [call[c] EXCEPT !.todo = Tail(call[c].todo),
                        !.granted = FALSE, !.pc = IF found THEN "auth" ELSE "next"]]
          /\ obj' = IF found THEN [obj EXCEPT ![c] = [uuid |-> u, cell |-> tree[u]]] ELSE obj
      BY <1>0, <1>10, <2>3 DEF NextItem
    <3>3. /\ call'[c] \in CallType /\ Same(c) /\ call'[c].served = {}
          /\ call'[c].pc = IF found THEN "auth" ELSE "next"
      BY <1>0, <2>1, <3>1, <3>2 DEF CallType, Same, Pcs
    <3>4. found => obj'[c].uuid = u BY <1>1, <3>2
    <3>5. Shape(c)' BY <1>0, <2>1, <3>1, <3>3, <3>4 DEF Shape, Same, Holding
    <3>6. \A j \in Objects \ {c} : obj'[j] = obj[j] BY <1>1, <3>2
    <3> QED BY <1>0, <3>2, <3>3, <3>5, <3>6 DEF Moved, ItemsKept
  <2> QED BY <2>2, <2>3
<1>11. CASE BeginUpdate(c) \/ SaveDone(c) \/ SaveFails(c) \/ Unexport(c)
  <2>1. /\ call[c].pc \in {"write", "saving", "unexport"} /\ obj' = obj
        /\ \/ Goto(c, "idle")
           \/ Goto(c, "saving")
           \/ Goto(c, IF call[c].op = "set" THEN "log" ELSE "unexport")
    BY <1>11 DEF BeginUpdate, SaveDone, SaveFails, Unexport, At, itemVars
  <2>2. /\ call[c].served = {} /\ call[c].op \in {"set", "delete"}
    BY <1>0, <2>1 DEF Shape
  <2> QED BY <1>2, <1>3, <2>1, <2>2 DEF ItemsKept, Pcs
<1>12. CASE StoreSession(c) \/ EmitCompleted(c) \/ ClosePrompt(c)
  <2>1. /\ call[c].pc \in {"store", "emit", "emitTrue", "close"} /\ obj' = obj
        /\ \/ Goto(c, "idle")
           \/ Goto(c, "close") /\ call[c].pc # "store"
    BY <1>12 DEF StoreSession, EmitCompleted, ClosePrompt, At, itemVars
  <2>2. call[c].served = {} /\ (call[c].pc # "store" => call[c].op = "prompt")
    BY <1>0, <2>1 DEF Shape
  <2> QED BY <1>2, <1>3, <2>1, <2>2 DEF ItemsKept, Pcs
<1> QED BY <1>4, <1>5, <1>6, <1>7, <1>8, <1>9, <1>10, <1>11, <1>12 DEF CallStep

\* A method is called.
LEMMA CallStarts ==
  ASSUME Types, ShapeInv, NEW c \in Callers, Call(c)
  PROVE  Moved(c) /\ UNCHANGED itemVars /\ UNCHANGED treeVars
<1> USE ItemConstants DEF Objects
<1>0. /\ TypeOK /\ call \in [Callers -> CallType] /\ None \notin Uuids
      /\ \A u \in Uuids : at[u] # None => at[u] \in Items /\ obj[at[u]].uuid = u
  BY DEF Types, ShapeInv, TypeOK
<1>a. Idle \in CallType /\ Idle.served = {} /\ Idle.op = "none"
  BY DEF Idle, CallType, Pcs, Ops
<1>1. UNCHANGED itemVars /\ UNCHANGED treeVars
  BY DEF Call, GetSecret, GetSecrets, SetSecret, Delete, OpenSession, CallPrompt
<1>2. ASSUME NEW r \in CallType, call' = [call EXCEPT ![c] = r], r.served = {},
             \/ r.pc = "refresh" /\ r.op \in {"get", "delete"}
             \/ r.pc = "session" /\ r.op = "set" /\ r.new \in Values
             \/ r.pc = "session" /\ r.op = "gets" /\ r.item = c
             \/ r.pc = "store" /\ r.op = "none" /\ r.sid \in Sids
             \/ r.pc \in {"emit", "emitTrue"} /\ r.op = "prompt" /\ r.item \in Prompts,
             r.op \in {"get", "set", "delete"} => r.item \in Items /\ obj[r.item].uuid \in Uuids
      PROVE  Moved(c)
  <2>1. call' \in [Callers -> CallType] /\ call'[c] = r /\ obj' = obj
    BY <1>0, <1>1, <1>2 DEF itemVars
  <2>2. Shape(c)' BY <1>2, <2>1 DEF Shape, Holding
  <2> QED BY <1>0, <1>2, <2>1, <2>2 DEF Moved, ItemsKept
<1>3. CASE \E u \in Uuids, s \in Sids : GetSecret(c, u, s)
  <2>1. PICK u \in Uuids, s \in Sids : GetSecret(c, u, s) BY <1>3
  <2> DEFINE r == [Idle EXCEPT !.pc = "refresh", !.op = "get", !.item = at[u], !.sid = s]
  <2>2. call' = [call EXCEPT ![c] = r] /\ at[u] # None BY <2>1 DEF GetSecret
  <2>3. /\ r \in CallType /\ r.served = {} /\ r.pc = "refresh" /\ r.op = "get"
        /\ r.item = at[u]
    BY <1>0, <1>a, <2>2 DEF CallType, Pcs, Ops
  <2>4. at[u] \in Items /\ obj[at[u]].uuid \in Uuids BY <1>0, <2>2
  <2> HIDE DEF r
  <2>5. Moved(c) BY <1>2, <2>2, <2>3, <2>4
  <2> QED BY <1>1, <2>5
<1>4. CASE \E us \in [1..MaxRead -> Uuids], s \in Sids : GetSecrets(c, us, s)
  <2>1. PICK us \in [1..MaxRead -> Uuids], s \in Sids : GetSecrets(c, us, s) BY <1>4
  <2>0. us \in Seq(Uuids) OBVIOUS
  <2> DEFINE r == [Idle EXCEPT !.pc = "session", !.op = "gets", !.item = c, !.sid = s,
                               !.todo = us]
  <2>2. call' = [call EXCEPT ![c] = r] BY <2>1 DEF GetSecrets
  <2>3. /\ r \in CallType /\ r.served = {} /\ r.pc = "session" /\ r.op = "gets"
        /\ r.item = c
    BY <1>0, <1>a, <2>0 DEF CallType, Pcs, Ops
  <2> HIDE DEF r
  <2> QED BY <1>1, <1>2, <2>2, <2>3
<1>5. CASE \E u \in Uuids, s \in Sids, v \in Values : SetSecret(c, u, s, v)
  <2>1. PICK u \in Uuids, s \in Sids, v \in Values : SetSecret(c, u, s, v) BY <1>5
  <2> DEFINE r == [Idle EXCEPT !.pc = "session", !.op = "set", !.item = at[u], !.sid = s,
                               !.new = v]
  <2>2. call' = [call EXCEPT ![c] = r] /\ at[u] # None BY <2>1 DEF SetSecret
  <2>3. /\ r \in CallType /\ r.served = {} /\ r.pc = "session" /\ r.op = "set"
        /\ r.item = at[u] /\ r.new = v
    BY <1>0, <1>a, <2>2 DEF CallType, Pcs, Ops
  <2>4. at[u] \in Items /\ obj[at[u]].uuid \in Uuids BY <1>0, <2>2
  <2> HIDE DEF r
  <2>5. Moved(c) BY <1>2, <2>2, <2>3, <2>4
  <2> QED BY <1>1, <2>5
<1>6. CASE \E u \in Uuids : Delete(c, u)
  <2>1. PICK u \in Uuids : Delete(c, u) BY <1>6
  <2> DEFINE r == [Idle EXCEPT !.pc = "refresh", !.op = "delete", !.item = at[u]]
  <2>2. call' = [call EXCEPT ![c] = r] /\ at[u] # None BY <2>1 DEF Delete, Start
  <2>3. /\ r \in CallType /\ r.served = {} /\ r.pc = "refresh" /\ r.op = "delete"
        /\ r.item = at[u]
    BY <1>0, <1>a, <2>2 DEF CallType, Pcs, Ops
  <2>4. at[u] \in Items /\ obj[at[u]].uuid \in Uuids BY <1>0, <2>2
  <2> HIDE DEF r
  <2>5. Moved(c) BY <1>2, <2>2, <2>3, <2>4
  <2> QED BY <1>1, <2>5
<1>7. CASE \E s \in Sids : OpenSession(c, s)
  <2>1. PICK s \in Sids : OpenSession(c, s) BY <1>7
  <2> DEFINE r == [Idle EXCEPT !.pc = "store", !.sid = s]
  <2>2. call' = [call EXCEPT ![c] = r] BY <2>1 DEF OpenSession
  <2>3. r \in CallType /\ r.served = {} /\ r.pc = "store" /\ r.op = "none" /\ r.sid = s
    BY <1>a DEF CallType, Pcs, Ops
  <2> HIDE DEF r
  <2> QED BY <1>1, <1>2, <2>2, <2>3
<1>8. CASE \E p \in Prompts, d \in BOOLEAN : CallPrompt(c, p, d)
  <2>1. PICK p \in Prompts, d \in BOOLEAN : CallPrompt(c, p, d) BY <1>8
  <2> DEFINE l == IF d THEN "emitTrue" ELSE "emit"
             r == [Idle EXCEPT !.pc = l, !.op = "prompt", !.item = p]
  <2>2. call' = [call EXCEPT ![c] = r] BY <2>1 DEF CallPrompt, Start
  <2>3. /\ r \in CallType /\ r.served = {} /\ r.pc \in {"emit", "emitTrue"}
        /\ r.op = "prompt" /\ r.item = p
    BY <1>a DEF CallType, Pcs, Ops
  <2> HIDE DEF r
  <2> QED BY <1>1, <1>2, <2>2, <2>3
<1> QED BY <1>1, <1>3, <1>4, <1>5, <1>6, <1>7, <1>8 DEF Call

\* The tree's variables have their types.
TreeOK ==
  /\ open \in BOOLEAN /\ tree \in [Uuids -> Cell]
  /\ plain \in [Cells -> Values \cup {Empty}]
  /\ writer \in Callers \cup {None}
  /\ backup \in [Uuids -> Password] /\ committed \in [Uuids -> Password]
  /\ unused \subseteq Uuids

ItemsOK == obj \in [Objects -> ItemType] /\ at \in [Uuids -> Items \cup {None}]

SvcOK ==
  /\ confirm \in BOOLEAN /\ down \in BOOLEAN /\ sessions \subseteq Sids
  /\ prompt \in [Prompts -> PromptType]

\* Where an update starts to write.
Begins(c) ==
  LET u == obj[call[c].item].uuid IN
  /\ At(c, "write") /\ Readable /\ open
  /\ u \in Uuids /\ tree[u] \in Cells
  /\ writer' = c /\ backup' = Passwords(tree, plain) /\ Goto(c, "saving")
  /\ \/ /\ call[c].op = "set" /\ call[c].new \in Values
        /\ plain' = [plain EXCEPT ![tree[u]] = call[c].new] /\ tree' = tree
     \/ tree' = [tree EXCEPT ![u] = None] /\ plain' = plain
  /\ UNCHANGED <<open, unused, committed, itemVars>>

LEMMA UpdateBegins ==
  ASSUME Types, ShapeInv, NEW c \in Callers, BeginUpdate(c)
  PROVE  UNCHANGED treeVars \/ Begins(c)
<1>1. Shape(c) /\ TypeOK /\ call[c].pc = "write" BY DEF ShapeInv, Types, BeginUpdate, At
<1>2. /\ call[c].op \in {"set", "delete"} /\ (call[c].op = "set" => call[c].new \in Values)
      /\ obj[call[c].item].uuid \in Uuids
  BY <1>1 DEF Shape
<1>3. tree[obj[call[c].item].uuid] \in Cells \cup {None} BY <1>1, <1>2 DEF TypeOK, Cell
<1> QED BY <1>1, <1>2, <1>3 DEF BeginUpdate, Update, Begins, treeVars, At

\* Only these steps touch the tree.
LEMMA TreeSteps ==
  ASSUME Types, ShapeInv, Next
  PROVE  \/ UNCHANGED treeVars
         \/ LockDatabase
         \/ \E c \in Callers : Begins(c) \/ SaveDone(c) \/ SaveFails(c)
<1>1. CASE Environment
  BY <1>1 DEF Environment, UpdateConfig, ConcurrentMapAccess, ExportItem, nextPrompt
<1>2. ASSUME NEW c \in Callers, Call(c) PROVE UNCHANGED treeVars BY <1>2, CallStarts
<1>3. ASSUME NEW c \in Callers, CallStep(c)
      PROVE  UNCHANGED treeVars \/ BeginUpdate(c) \/ SaveDone(c) \/ SaveFails(c)
  BY <1>3 DEF CallStep, Refresh, Authorise, Label, Polkit, LookupSession, Read, NextItem,
              Unexport, StoreSession, EmitCompleted, ClosePrompt
<1>4. Environment \/ \E c \in Callers : CallStep(c) \/ Call(c) BY DEF Next
<1> QED BY <1>1, <1>2, <1>3, <1>4, UpdateBegins

LEMMA TreeTypes ==
  ASSUME Types, ShapeInv, Next
  PROVE  TreeOK'
<1>0. TypeOK /\ TreeOK BY DEF Types, TypeOK, TreeOK
<1>1. CASE UNCHANGED treeVars BY <1>0, <1>1 DEF TreeOK, treeVars
<1>2. CASE LockDatabase
  <2>1. wipeDatabase \in [Cells -> Values \cup {Empty}] BY <1>0 DEF wipeDatabase, TreeOK
  <2> QED BY <1>0, <1>2, <2>1 DEF LockDatabase, TreeOK
<1>3. ASSUME NEW c \in Callers, Begins(c) PROVE TreeOK'
  <2>1. Passwords(tree, plain) \in [Uuids -> Password] BY <1>0, PasswordsType DEF TreeOK
  <2>2. tree' \in [Uuids -> Cell] BY <1>0, <1>3 DEF Begins, TreeOK, Cell
  <2>3. plain' \in [Cells -> Values \cup {Empty}] BY <1>0, <1>3 DEF Begins, TreeOK
  <2> QED BY <1>0, <1>3, <2>1, <2>2, <2>3 DEF Begins, TreeOK
<1>4. NoBackup \in [Uuids -> Password] BY DEF NoBackup, Password
<1>5. ASSUME NEW c \in Callers, SaveDone(c) PROVE TreeOK'
  <2>1. Passwords(tree, plain) \in [Uuids -> Password] BY <1>0, PasswordsType DEF TreeOK
  <2> QED BY <1>0, <1>4, <1>5, <2>1 DEF SaveDone, TreeOK
<1>6. ASSUME NEW c \in Callers, SaveFails(c) PROVE TreeOK'
  <2>1. tree' \in [Uuids -> Cell] /\ plain' \in [Cells -> Values \cup {Empty}]
        /\ unused' \subseteq Uuids
    BY <1>0, <1>6, Restored DEF TreeOK
  <2>2. Passwords(tree', plain') \in [Uuids -> Password] BY <2>1, PasswordsType
  <2>3. /\ open' = open /\ writer' = None /\ backup' = NoBackup
        /\ committed' = Passwords(tree', plain')
    BY <1>6 DEF SaveFails
  <2> QED BY <1>0, <1>4, <2>1, <2>2, <2>3 DEF TreeOK
<1> QED BY <1>1, <1>2, <1>3, <1>5, <1>6, TreeSteps

\* The object stays or is refreshed.
Kept(j) ==
  \/ obj'[j] = obj[j]
  \/ /\ obj'[j].uuid = obj[j].uuid /\ obj'[j].cell = tree[obj[j].uuid]
     /\ UNCHANGED treeVars

\* A call refreshes objects, and replaces its own when it ends or goes to the
\* next path.
LEMMA CallItems ==
  ASSUME Types, ShapeInv, NEW c \in Callers, CallStep(c)
  PROVE  /\ ItemsOK'
         /\ \A j \in Objects \ {c} : Kept(j)
         /\ call[c].pc \notin {"next", "refused", "log"} => Kept(c)
<1> USE ItemConstants DEF Objects
<1>0. TypeOK /\ ItemsOK /\ Shape(c) /\ call[c] \in CallType
  BY DEF Types, TypeOK, ItemsOK, ItemType, ShapeInv
<1>1. call[c].pc \in Holding => call[c].item \in Objects /\ obj[call[c].item].uuid \in Uuids
  BY <1>0 DEF Shape, Holding, CallType, Pcs
<1>2. NoItem \in ItemType BY DEF NoItem, ItemType, Cell
\* A refresh.
<1>3. ASSUME call[c].pc \in Holding, UNCHANGED treeVars, UNCHANGED at,
             \/ obj' = Refreshed(call[c].item)
             \/ /\ obj' = [Refreshed(call[c].item) EXCEPT ![c] = NoItem]
                /\ call[c].pc \in {"refused", "log"}
      PROVE  /\ ItemsOK'
             /\ \A j \in Objects \ {c} : Kept(j)
             /\ call[c].pc \notin {"next", "refused", "log"} => Kept(c)
  <2> DEFINE i == call[c].item
  <2>1. /\ Refreshed(i) \in [Objects -> ItemType]
        /\ \A j \in Objects : Refreshed(i)[j].uuid = obj[j].uuid
        /\ \A j \in Objects \ {i} : Refreshed(i)[j] = obj[j]
        /\ Refreshed(i)[i].cell = IF open THEN tree[obj[i].uuid] ELSE obj[i].cell
    BY <1>0, <1>1, <1>3, RefreshedFacts
  <2>2. ~open => Refreshed(i) = obj BY DEF Refreshed
  <2>3. ASSUME NEW j \in Objects, obj'[j] = Refreshed(i)[j] PROVE Kept(j)
    BY <1>3, <2>1, <2>2, <2>3 DEF Kept
  <2>4. ItemsOK' BY <1>0, <1>2, <1>3, <2>1 DEF ItemsOK
  <2>5. \A j \in Objects \ {c} : obj'[j] = Refreshed(i)[j] BY <1>3, <2>1
  <2> QED BY <1>3, <2>3, <2>4, <2>5
<1>4. CASE UNCHANGED itemVars BY <1>0, <1>4 DEF itemVars, ItemsOK, Kept
<1>5. CASE Refresh(c) BY <1>3, <1>5 DEF Refresh, At, Holding
<1>6. CASE Label(c)
  <2>1. call[c].pc \in {"label", "refused", "log", "logNext"} BY <1>6 DEF Label, AfterLabel
  <2>2. AfterLabel[call[c].pc] = "idle" => call[c].pc \in {"refused", "log"}
    BY <2>1 DEF AfterLabel
  <2> QED BY <1>3, <1>6, <2>1, <2>2 DEF Label, Holding
<1>7. CASE NextItem(c)
  <2>1. call[c].pc = "next" /\ at' = at BY <1>7 DEF NextItem, At
  <2>2. call[c].todo # <<>> => Head(call[c].todo) \in Uuids BY <1>0 DEF CallType
  <2>3. \/ obj' = obj
        \/ obj' = [obj EXCEPT ![c] = NoItem]
        \/ \E u \in Uuids : obj' = [obj EXCEPT ![c] = [uuid |-> u, cell |-> tree[u]]]
    BY <1>7, <2>2 DEF NextItem
  <2>4. \A u \in Uuids : [uuid |-> u, cell |-> tree[u]] \in ItemType
    BY <1>0 DEF TypeOK, ItemType
  <2>5. \E r \in ItemType : obj' = [obj EXCEPT ![c] = r] \/ obj' = obj
    BY <1>2, <2>3, <2>4
  <2> QED BY <1>0, <2>1, <2>5 DEF ItemsOK, Kept
<1>8. CASE Unexport(c)
  <2>1. /\ at' = [at EXCEPT ![obj[call[c].item].uuid] = None] /\ obj' = obj
    BY <1>8 DEF Unexport
  <2> QED BY <1>0, <2>1 DEF ItemsOK, Kept
<1>9. \/ UNCHANGED itemVars \/ Refresh(c) \/ Label(c) \/ NextItem(c) \/ Unexport(c)
  BY DEF CallStep, Authorise, Polkit, LookupSession, Read, BeginUpdate, SaveDone, SaveFails,
         StoreSession, EmitCompleted, ClosePrompt
<1> QED BY <1>4, <1>5, <1>6, <1>7, <1>8, <1>9

\* The rest of the daemon leaves the calls and the items in use alone.
LEMMA EnvironmentItems ==
  ASSUME Types, ShapeInv, Environment
  PROVE  /\ ItemsOK' /\ call' = call
         /\ \A j \in Objects : obj[j].uuid \in Uuids \/ j \in Callers => obj'[j] = obj[j]
         /\ \A u \in Uuids : at'[u] # None => obj'[at'[u]].uuid = u
<1> USE ItemConstants DEF Objects
<1>0. TypeOK /\ ItemsOK /\ ShapeInv BY DEF Types, TypeOK, ItemsOK, ItemType
<1>1. CASE LockDatabase \/ UpdateConfig \/ ConcurrentMapAccess \/ \E p \in Prompts : nextPrompt(p)
  <2>1. UNCHANGED itemVars /\ call' = call
    BY <1>1 DEF LockDatabase, UpdateConfig, ConcurrentMapAccess, nextPrompt
  <2> QED BY <1>0, <2>1 DEF itemVars, ItemsOK, ShapeInv
<1>2. CASE \E i \in Items, u \in Uuids : ExportItem(i, u)
  <2>1. PICK i \in Items, u \in Uuids : ExportItem(i, u) BY <1>2
  <2>2. /\ obj' = [obj EXCEPT ![i] = [uuid |-> u, cell |-> tree[u]]]
        /\ at' = [at EXCEPT ![u] = i] /\ call' = call /\ obj[i].uuid = None
    BY <2>1 DEF ExportItem, NoItem
  <2>3. [uuid |-> u, cell |-> tree[u]] \in ItemType BY <1>0 DEF TypeOK, ItemType
  <2>4. ItemsOK' BY <1>0, <2>2, <2>3 DEF ItemsOK
  <2>5. obj'[i].uuid = u /\ \A j \in Objects \ {i} : obj'[j] = obj[j]
    BY <1>0, <2>2 DEF ItemsOK
  <2>6. at'[u] = i /\ \A w \in Uuids \ {u} : at'[w] = at[w] BY <1>0, <2>2 DEF ItemsOK
  <2>7. ASSUME NEW w \in Uuids \ {u}, at[w] # None PROVE obj'[at[w]].uuid = w
    <3>1. at[w] \in Items /\ obj[at[w]].uuid = w BY <1>0, <2>7 DEF ItemsOK, ShapeInv
    <3>2. at[w] # i BY <2>2, <3>1
    <3> QED BY <2>5, <3>1, <3>2
  <2> QED BY <2>2, <2>4, <2>5, <2>6, <2>7
<1> QED BY <1>1, <1>2 DEF Environment

\* Prompts, sessions and the configuration.
LEMMA SvcTypes ==
  ASSUME Types, ShapeInv, Next
  PROVE  SvcOK'
<1>0. SvcOK /\ \A c \in Callers : Shape(c) BY DEF Types, TypeOK, SvcOK, ShapeInv
<1>1. CASE UNCHANGED svcVars BY <1>0, <1>1 DEF svcVars, SvcOK
<1>2. CASE UpdateConfig \/ ConcurrentMapAccess
  BY <1>0, <1>2 DEF UpdateConfig, ConcurrentMapAccess, SvcOK
<1>3. ASSUME NEW c \in Callers, StoreSession(c) PROVE SvcOK'
  BY <1>0, <1>3 DEF StoreSession, Shape, At, SvcOK
<1>4. ASSUME NEW p \in Prompts, NEW q \in PromptType, prompt' = [prompt EXCEPT ![p] = q],
             UNCHANGED <<confirm, sessions>>, down' \in BOOLEAN
      PROVE  SvcOK'
  BY <1>0, <1>4 DEF SvcOK
<1>5. ASSUME NEW p \in Prompts, nextPrompt(p) PROVE SvcOK'
  <2> DEFINE q == [prompt[p] EXCEPT !.made = TRUE]
  <2>1. q \in PromptType BY <1>0 DEF SvcOK, PromptType
  <2>2. prompt' = [prompt EXCEPT ![p] = q] /\ UNCHANGED <<confirm, sessions>> /\ down' = down
    BY <1>5 DEF nextPrompt
  <2> HIDE DEF q
  <2> QED BY <1>0, <1>4, <2>1, <2>2 DEF SvcOK
<1>6. ASSUME NEW c \in Callers, NEW p \in Prompts, NEW d \in BOOLEAN, CallPrompt(c, p, d)
      PROVE  SvcOK'
  <2> DEFINE q == [prompt[p] EXCEPT !.dismissed = d, !.calls = Append(prompt[p].calls, d)]
  <2>0. prompt[p] \in PromptType /\ prompt[p].calls \in Seq(BOOLEAN)
    BY <1>0 DEF SvcOK, PromptType
  <2>a. Append(prompt[p].calls, d) \in Seq(BOOLEAN) BY <2>0
  <2>1. q \in PromptType BY <2>0, <2>a DEF PromptType
  <2>2. prompt' = [prompt EXCEPT ![p] = q] /\ UNCHANGED <<confirm, sessions>> /\ down' = down
    BY <1>6 DEF CallPrompt
  <2> HIDE DEF q
  <2> QED BY <1>0, <1>4, <2>1, <2>2 DEF SvcOK
<1>7. ASSUME NEW c \in Callers, EmitCompleted(c) PROVE SvcOK'
  <2> DEFINE p == call[c].item
             q == [prompt[p] EXCEPT !.signals = Append(prompt[p].signals, Reported(c, p))]
             r == [prompt[p] EXCEPT !.unsent = TRUE]
  <2>0. p \in Prompts BY <1>0, <1>7 DEF EmitCompleted, Shape
  <2>1. prompt[p] \in PromptType /\ prompt[p].signals \in Seq(BOOLEAN)
    BY <1>0, <2>0 DEF SvcOK, PromptType
  <2>2. Reported(c, p) \in BOOLEAN BY DEF Reported
  <2>3. Append(prompt[p].signals, Reported(c, p)) \in Seq(BOOLEAN) BY <2>1, <2>2
  <2>4. q \in PromptType /\ r \in PromptType BY <2>1, <2>3 DEF PromptType
  <2>5. /\ prompt' = [prompt EXCEPT ![p] = q] \/ prompt' = [prompt EXCEPT ![p] = r]
        /\ UNCHANGED <<confirm, sessions>> /\ down' = down
    BY <1>7 DEF EmitCompleted
  <2> HIDE DEF p, q, r
  <2> QED BY <1>0, <1>4, <2>0, <2>4, <2>5 DEF SvcOK
<1>8. ASSUME NEW c \in Callers, ClosePrompt(c) PROVE SvcOK'
  <2> DEFINE p == call[c].item
             q == [prompt[p] EXCEPT !.closed = TRUE]
  <2>0. p \in Prompts BY <1>0, <1>8 DEF ClosePrompt, At, Shape
  <2>1. q \in PromptType /\ prompt[p].closed \in BOOLEAN BY <1>0, <2>0 DEF SvcOK, PromptType
  <2>2. /\ prompt' = [prompt EXCEPT ![p] = q] /\ UNCHANGED <<confirm, sessions>>
        /\ down' = prompt[p].closed
    BY <1>8 DEF ClosePrompt
  <2> HIDE DEF p, q
  <2> QED BY <1>0, <1>4, <2>0, <2>1, <2>2 DEF SvcOK
<1>9. ASSUME NEW c \in Callers, CallStep(c) \/ Call(c)
      PROVE  \/ UNCHANGED svcVars
             \/ StoreSession(c) \/ EmitCompleted(c) \/ ClosePrompt(c)
             \/ \E p \in Prompts, d \in BOOLEAN : CallPrompt(c, p, d)
  BY <1>9 DEF CallStep, Call, Refresh, Authorise, Label, Polkit, LookupSession, Read, NextItem,
         BeginUpdate, SaveDone, SaveFails, Unexport, GetSecret, GetSecrets, SetSecret, Delete,
         OpenSession
<1>10. Environment => \/ UNCHANGED svcVars
                      \/ UpdateConfig \/ ConcurrentMapAccess
                      \/ \E p \in Prompts : nextPrompt(p)
  BY DEF Environment, LockDatabase, ExportItem
<1>11. Environment \/ \E c \in Callers : CallStep(c) \/ Call(c) BY DEF Next
<1> QED BY <1>1, <1>2, <1>3, <1>5, <1>6, <1>7, <1>8, <1>9, <1>10, <1>11

\* What is recorded about a call that is reading.
LEMMA HistFacts ==
  ASSUME NEW c \in Callers, hist[c] \in HistType, Observe, Reading(c)',
         call[c].pc \notin {"next", "idle"}
  PROVE  /\ hist'[c].seen = hist[c].seen \cup {committed'[obj'[call'[c].item].uuid]}
         /\ hist'[c].off = (hist[c].off \/ ~confirm')
         /\ hist'[c].wrote = (hist[c].wrote \/ writer' # None)
         /\ hist'[c].locked = (hist[c].locked \/ ~open')
         /\ hist'[c].left = (hist[c].left \/ Live \ {tree'[u] : u \in Uuids} # {})
<1>1. hist'[c] =
         [seen |-> hist[c].seen \cup {committed'[obj'[call'[c].item].uuid]},
          off |-> hist[c].off \/ ~confirm',
          wrote |-> hist[c].wrote \/ writer' # None,
          locked |-> hist[c].locked \/ ~open',
          left |-> hist[c].left \/ Live \ {tree'[u] : u \in Uuids} # {}]
  BY DEF Observe, At
<1> QED BY <1>1

LEMMA HistTypes ==
  ASSUME Types, Observe, TreeOK', ItemsOK', call' \in [Callers -> CallType],
         \A c \in Callers : Shape(c)'
  PROVE  hist' \in [Callers -> HistType]
<1> USE ItemConstants DEF Objects
<1>1. SUFFICES ASSUME NEW c \in Callers PROVE hist'[c] \in HistType
  BY DEF Observe
<1>2. hist[c] \in HistType BY DEF Types
<1>3. CASE ~Reading(c)' \/ At(c, "next") \/ At(c, "idle")
  <2>1. hist'[c] = Blank BY <1>3 DEF Observe
  <2> QED BY <2>1 DEF Blank, HistType
<1>4. CASE Reading(c)' /\ ~At(c, "next") /\ ~At(c, "idle")
  <2>1. call'[c].item \in Objects BY <1>4 DEF Reading, Shape
  <2>2. obj'[call'[c].item].uuid \in Uuids BY <1>4, <2>1 DEF Reading, ItemsOK, ItemType
  <2>3. committed'[obj'[call'[c].item].uuid] \in Password BY <2>2 DEF TreeOK
  <2>4. hist'[c] =
         [seen |-> hist[c].seen \cup {committed'[obj'[call'[c].item].uuid]},
          off |-> hist[c].off \/ ~confirm',
          wrote |-> hist[c].wrote \/ writer' # None,
          locked |-> hist[c].locked \/ ~open',
          left |-> hist[c].left \/ Live \ {tree'[u] : u \in Uuids} # {}]
    BY <1>4 DEF Observe
  <2> QED BY <1>2, <2>3, <2>4 DEF HistType
<1> QED BY <1>3, <1>4

\* Types and shapes are kept by every step.
LEMMA TypeStep ==
  ASSUME Types, ShapeInv, [Next]_vars
  PROVE  Types' /\ ShapeInv'
<1> USE ItemConstants DEF Objects
<1>0. TypeOK /\ ItemsOK BY DEF Types, TypeOK, ItemsOK, ItemType
<1>1. CASE UNCHANGED vars
  <2>1. UNCHANGED <<treeVars, itemVars, call, svcVars, hist>> BY <1>1 DEF vars
  <2> QED BY <2>1 DEF Types, TypeOK, ShapeInv, Shape, At, treeVars, itemVars, svcVars
<1>2. CASE Next
  <2>1. TreeOK' /\ SvcOK' BY <1>2, TreeTypes, SvcTypes
  <2>2. ASSUME NEW c \in Callers, Moved(c), \A u \in Uuids : at'[u] = at[u] \/ at'[u] = None
        PROVE  call' \in [Callers -> CallType] /\ ShapeInv'
    <3>1. \A d \in Callers \ {c} : Shape(d)' BY <2>2, ShapeKept DEF Moved, ShapeInv
    <3>2. ASSUME NEW u \in Uuids, at'[u] # None PROVE obj'[at'[u]].uuid = u
      BY <1>0, <2>2, <3>2 DEF Moved, ItemsKept, ShapeInv, ItemsOK
    <3> QED BY <2>2, <3>1, <3>2 DEF Moved, ShapeInv
  <2>3. ItemsOK' /\ call' \in [Callers -> CallType] /\ ShapeInv'
    <3>1. ASSUME NEW c \in Callers, CallStep(c)
          PROVE  ItemsOK' /\ call' \in [Callers -> CallType] /\ ShapeInv'
      <4>1. \/ at' = at
            \/ \E u : at' = [at EXCEPT ![u] = None]
        BY <3>1 DEF CallStep, Refresh, Authorise, Label, Polkit, LookupSession, Read, NextItem,
           BeginUpdate, SaveDone, SaveFails, Unexport, StoreSession, EmitCompleted, ClosePrompt,
           itemVars
      <4>2. \A u \in Uuids : at'[u] = at[u] \/ at'[u] = None BY <1>0, <4>1 DEF ItemsOK
      <4> QED BY <2>2, <3>1, <4>2, CallMoves, CallItems
    <3>2. ASSUME NEW c \in Callers, Call(c)
          PROVE  ItemsOK' /\ call' \in [Callers -> CallType] /\ ShapeInv'
      <4>1. Moved(c) /\ UNCHANGED itemVars BY <3>2, CallStarts
      <4> QED BY <1>0, <2>2, <4>1 DEF itemVars, ItemsOK
    <3>3. CASE Environment
      <4>1. /\ ItemsOK' /\ call' = call
            /\ \A j \in Objects : obj[j].uuid \in Uuids \/ j \in Callers => obj'[j] = obj[j]
            /\ \A u \in Uuids : at'[u] # None => obj'[at'[u]].uuid = u
        BY <3>3, EnvironmentItems
      <4>2. \A d \in Callers : Shape(d)' BY <4>1, ShapeKept DEF ShapeInv, ItemsKept
      <4> QED BY <4>1, <4>2 DEF Types, ShapeInv
    <3> QED BY <1>2, <3>1, <3>2, <3>3 DEF Next
  <2>4. hist' \in [Callers -> HistType]
    BY <1>2, <2>1, <2>3, HistTypes DEF Next, ShapeInv
  <2>5. \A c \in Callers : call'[c].pc \in Pcs BY <2>3 DEF CallType
  <2>6. \A p \in Prompts : prompt'[p].closed \in BOOLEAN BY <2>1 DEF SvcOK, PromptType
  <2>7. TypeOK' BY <2>1, <2>3, <2>5, <2>6 DEF TypeOK, TreeOK, ItemsOK, SvcOK, ItemType
  <2> QED BY <2>1, <2>3, <2>4, <2>7 DEF Types, SvcOK
<1> QED BY <1>1, <1>2

LEMMA TypeInit == Init => Types /\ ShapeInv
<1> USE ItemConstants DEF Objects
<1> SUFFICES ASSUME Init PROVE Types /\ ShapeInv OBVIOUS
<1>1. Idle \in CallType /\ Blank \in HistType
  BY DEF Idle, CallType, Pcs, Ops, Blank, HistType
<1>2. call \in [Callers -> CallType] /\ hist \in [Callers -> HistType] BY <1>1 DEF Init
<1>3. <<>> \in Seq(BOOLEAN) OBVIOUS
<1>4. prompt \in [Prompts -> PromptType] BY <1>3 DEF Init, PromptType
<1>5. PICK u \in Uuids, k \in Cells, i \in Items, v \in Values :
       /\ tree = [w \in Uuids |-> IF w = u THEN k ELSE None]
       /\ plain = [l \in Cells |-> IF l = k THEN v ELSE Empty]
       /\ unused = Uuids \ {u}
       /\ committed = [w \in Uuids |-> IF w = u THEN v ELSE None]
       /\ obj = [j \in Objects |-> IF j = i THEN [uuid |-> u, cell |-> k] ELSE NoItem]
       /\ at = [w \in Uuids |-> IF w = u THEN i ELSE None]
  BY DEF Init
<1>6. TreeOK BY <1>5 DEF Init, TreeOK, Cell, Password, NoBackup
<1>7. ItemsOK
  <2>1. NoItem \in ItemType /\ [uuid |-> u, cell |-> k] \in ItemType
    BY DEF NoItem, ItemType, Cell
  <2> QED BY <1>5, <2>1 DEF ItemsOK
<1>8. SvcOK
  <2>1. (CHOOSE s \in Sids : TRUE) \in Sids OBVIOUS
  <2> QED BY <1>4, <2>1 DEF Init, SvcOK
<1>9. \A c \in Callers : Shape(c)
  <2>1. \A c \in Callers : call[c] = Idle BY DEF Init
  <2> QED BY <2>1 DEF Shape, Idle, Holding
<1>10. \A w \in Uuids : at[w] # None => obj[at[w]].uuid = w BY <1>5
<1>11. \A p \in Prompts : prompt[p].closed \in BOOLEAN BY <1>4 DEF PromptType
<1>12. \A c \in Callers : call[c].pc \in Pcs BY <1>2 DEF CallType
<1>13. TypeOK BY <1>6, <1>7, <1>8, <1>11, <1>12 DEF TypeOK, TreeOK, ItemsOK, SvcOK, ItemType
<1> QED BY <1>2, <1>4, <1>9, <1>10, <1>13 DEF Types, ShapeInv

\* A call is only ever at a step of its own method, with an object that has
\* an entry.
LEMMA ShapesHold == Spec => [](Types /\ ShapeInv)
<1>1. Types /\ ShapeInv /\ [Next]_vars => (Types /\ ShapeInv)' BY TypeStep
<1> QED BY TypeInit, <1>1, PTL DEF Spec

\* Every variable keeps its type, whatever calls of item.go, service.go and
\* prompt.go run side by side.
THEOREM ItemsTypeCorrect == Spec => []TypeOK
<1>1. Types => TypeOK BY DEF Types
<1> QED BY ShapesHold, <1>1, PTL

-----------------------------------------------------------------------------
(* The ways of a call *)

\* A step of a call that does not end it.
Goes(c) ==
  LET from == call[c].pc to == call'[c].pc op == call[c].op
      same == call'[c].granted = call[c].granted /\ call'[c].served = call[c].served IN
  /\ Same(c)
  /\ \/ from = "refresh" /\ op = "get" /\ to = "auth" /\ Refresh(c) /\ Found(call[c].item) /\ same
     \/ from = "refresh" /\ op # "get" /\ to = "write" /\ same
     \/ from = "auth" /\ to = Authorised(c) /\ ~confirm /\ confirm' = confirm /\ same
     \/ from \in {"auth", "polkit"} /\ to \in {"label", "refused"} /\ same
     \/ from = "label" /\ to = "polkit" /\ call'[c].served = {}
     \/ from = "polkit" /\ to = Authorised(c) /\ call'[c].granted
        /\ call'[c].served = call[c].served
     \/ from = "session" /\ op = "get" /\ to = "read" /\ same
     \/ from = "session" /\ op = "gets" /\ to = "next" /\ same
     \/ from = "session" /\ op = "set" /\ to = "refresh" /\ same
     \/ from = "read" /\ to \in {"log", "logNext"} /\ Read(c)
     \/ from = "logNext" /\ to = "next" /\ call'[c].served = {}
     \/ from = "next" /\ to = "next" /\ call'[c].served = call[c].served
     \/ from = "next" /\ to = "auth" /\ NextItem(c) /\ open
        /\ (\E u \in Uuids : /\ tree[u] # None
                             /\ obj' = [obj EXCEPT ![c] = [uuid |-> u, cell |-> tree[u]]])
        /\ call'[c].served = call[c].served
     \/ from = "write" /\ to = "saving" /\ Begins(c) /\ same
     \/ from = "saving" /\ to \in {"log", "unexport"} /\ SaveDone(c) /\ same
     \/ from \in {"emit", "emitTrue"} /\ to = "close" /\ EmitCompleted(c) /\ same

LEMMA CallGoes ==
  ASSUME Types, ShapeInv, NEW c \in Callers, CallStep(c)
  PROVE  /\ \A d \in Callers \ {c} : call'[d] = call[d]
         /\ call'[c] = Idle \/ Goes(c)
<1>0. /\ call \in [Callers -> CallType] /\ call[c] \in CallType /\ Shape(c)
  BY DEF Types, ShapeInv
<1>1. \A d \in Callers \ {c} : call'[d] = call[d] BY CallMoves DEF Moved
<1>2. ASSUME Goto(c, "idle") PROVE call'[c] = Idle BY <1>0, <1>2 DEF Goto
<1>3. ASSUME NEW l \in Pcs \ {"idle"}, Goto(c, l)
      PROVE  /\ call'[c].pc = l /\ Same(c) /\ call'[c].granted = call[c].granted
             /\ call'[c].served = call[c].served
  BY <1>0, <1>3, GotoFacts
<1>4. CASE Refresh(c)
  <2>1. /\ call[c].pc = "refresh"
        /\ \/ Goto(c, "idle")
           \/ Goto(c, "auth") /\ call[c].op = "get" /\ Found(call[c].item)
           \/ Goto(c, "write") /\ call[c].op # "get"
    BY <1>4 DEF Refresh, At
  <2> QED BY <1>1, <1>2, <1>3, <1>4, <2>1 DEF Goes, Pcs
<1>5. CASE Authorise(c)
  <2>1. /\ call[c].pc = "auth"
        /\ \/ Goto(c, Authorised(c)) /\ ~confirm /\ confirm' = confirm
           \/ Goto(c, "label")
           \/ Goto(c, "refused")
    BY <1>5 DEF Authorise, At, svcVars
  <2>2. Authorised(c) \in Pcs \ {"idle"} BY DEF Authorised, Pcs
  <2> QED BY <1>1, <1>3, <2>1, <2>2 DEF Goes, Pcs
<1>6. CASE Polkit(c)
  <2>1. /\ call[c].pc = "polkit"
        /\ \/ Goto(c, "refused")
           \/ call' = [call EXCEPT ![c] = [call[c] EXCEPT !.granted = TRUE, !.pc = Authorised(c)]]
    BY <1>0, <1>6 DEF Polkit, At
  <2>2. CASE call' = [call EXCEPT ![c] = [call[c] EXCEPT !.granted = TRUE, !.pc = Authorised(c)]]
    <3>1. /\ Same(c) /\ call'[c].served = call[c].served /\ call'[c].pc = Authorised(c)
          /\ call'[c].granted = TRUE
      BY <1>0, <2>2 DEF CallType, Same
    <3> QED BY <1>1, <2>1, <3>1 DEF Goes
  <2> QED BY <1>1, <1>3, <2>1, <2>2 DEF Goes, Pcs
<1>7. CASE Label(c)
  <2>1. call[c].pc \in {"label", "refused", "log", "logNext"} BY <1>7 DEF Label, AfterLabel
  <2>2. /\ AfterLabel[call[c].pc] = "idle" <=> call[c].pc \in {"refused", "log"}
        /\ call[c].pc = "label" => AfterLabel[call[c].pc] = "polkit"
        /\ call[c].pc = "logNext" => AfterLabel[call[c].pc] = "next"
    BY <2>1 DEF AfterLabel
  <2>3. CASE call[c].pc \in {"refused", "log"} BY <1>1, <1>2, <1>7, <2>2, <2>3 DEF Label
  <2>4. CASE call[c].pc \in {"label", "logNext"}
    <3>1. call' = [call EXCEPT ![c] = [call[c] EXCEPT !.pc = AfterLabel[call[c].pc], !.served = {}]]
      BY <1>0, <1>7, <2>2, <2>4 DEF Label
    <3>2. Same(c) /\ call'[c].served = {} /\ call'[c].pc = AfterLabel[call[c].pc]
      BY <1>0, <3>1 DEF CallType, Same
    <3> QED BY <1>1, <2>2, <2>4, <3>2 DEF Goes
  <2> QED BY <2>1, <2>3, <2>4
<1>8. CASE LookupSession(c)
  <2>1. /\ call[c].pc = "session"
        /\ \/ Goto(c, "idle")
           \/ Goto(c, AfterSession[call[c].op])
    BY <1>8 DEF LookupSession, At
  <2>2. call[c].op \in {"get", "gets", "set"} BY <1>0, <2>1 DEF Shape
  <2>3. /\ call[c].op = "get" => AfterSession[call[c].op] = "read"
        /\ call[c].op = "gets" => AfterSession[call[c].op] = "next"
        /\ call[c].op = "set" => AfterSession[call[c].op] = "refresh"
    BY DEF AfterSession
  <2> QED BY <1>1, <1>2, <1>3, <2>1, <2>2, <2>3 DEF Goes, Pcs
<1>9. CASE Read(c)
  <2>1. PICK r :
          call' = [call EXCEPT ![c] = [call[c] EXCEPT !.served = r,
            !.pc = IF call[c].op = "get" THEN "log" ELSE "logNext"]]
    BY <1>0, <1>9 DEF Read
  <2>2. Same(c) /\ call'[c].pc \in {"log", "logNext"} BY <1>0, <2>1 DEF CallType, Same
  <2> QED BY <1>1, <1>9, <2>2 DEF Goes, Read, At
<1>10. CASE NextItem(c)
  <2>1. call[c].pc = "next" BY <1>10 DEF NextItem, At
  <2>2. CASE call[c].todo = <<>> BY <1>1, <1>2, <1>10, <2>2 DEF NextItem
  <2>3. CASE call[c].todo # <<>>
    <3> DEFINE u == Head(call[c].todo)
               found == open /\ tree[u] # None
    <3>1. u \in Uuids BY <1>0, <2>3 DEF CallType
    <3>2. /\ call' = [call EXCEPT ![c] = [call[c] EXCEPT !.todo = Tail(call[c].todo),
                        !.granted = FALSE, !.pc = IF found THEN "auth" ELSE "next"]]
          /\ obj' = IF found THEN [obj EXCEPT ![c] = [uuid |-> u, cell |-> tree[u]]] ELSE obj
      BY <1>0, <1>10, <2>3 DEF NextItem
    <3>3. /\ Same(c) /\ call'[c].served = call[c].served
          /\ call'[c].pc = IF found THEN "auth" ELSE "next"
      BY <1>0, <3>2 DEF CallType, Same
    <3>4. CASE found
      <4>1. /\ open /\ \E w \in Uuids : /\ tree[w] # None
                                       /\ obj' = [obj EXCEPT ![c] = [uuid |-> w, cell |-> tree[w]]]
        BY <3>1, <3>2, <3>4
      <4> QED BY <1>1, <1>10, <2>1, <3>3, <3>4, <4>1 DEF Goes
    <3>5. CASE ~found BY <1>1, <2>1, <3>3, <3>5 DEF Goes
    <3> QED BY <3>4, <3>5
  <2> QED BY <2>2, <2>3
<1>11. CASE BeginUpdate(c)
  <2>1. /\ call[c].pc = "write"
        /\ \/ Goto(c, "idle")
           \/ Goto(c, "saving") /\ writer' = c
    BY <1>11 DEF BeginUpdate, At
  <2>2. writer' = c => Begins(c)
    BY <1>11, <2>1, UpdateBegins, ItemConstants DEF BeginUpdate, Readable, treeVars
  <2> QED BY <1>1, <1>2, <1>3, <2>1, <2>2 DEF Goes, Pcs
<1>12. CASE SaveDone(c)
  <2>1. /\ call[c].pc = "saving"
        /\ \/ Goto(c, "log")
           \/ Goto(c, "unexport")
    BY <1>12 DEF SaveDone, At
  <2> QED BY <1>1, <1>3, <1>12, <2>1 DEF Goes, Pcs
<1>13. CASE SaveFails(c) \/ Unexport(c) \/ StoreSession(c) \/ ClosePrompt(c)
  BY <1>1, <1>2, <1>13 DEF SaveFails, Unexport, StoreSession, ClosePrompt
<1>14. CASE EmitCompleted(c)
  <2>1. call[c].pc \in {"emit", "emitTrue"} /\ Goto(c, "close") BY <1>14 DEF EmitCompleted
  <2> QED BY <1>1, <1>3, <1>14, <2>1 DEF Goes, Pcs
<1> QED BY <1>4, <1>5, <1>6, <1>7, <1>8, <1>9, <1>10, <1>11, <1>12, <1>13, <1>14 DEF CallStep

\* Where a call starts.
LEMMA CallPcs ==
  ASSUME Types, ShapeInv, NEW c \in Callers, Call(c)
  PROVE  /\ call[c].pc = "idle" /\ call'[c].served = {}
         /\ \/ call'[c].pc = "refresh"
            \/ call'[c].pc = "session" /\ call'[c].op # "get"
            \/ call'[c].pc = "store"
            \/ /\ call'[c].pc \in {"emit", "emitTrue"}
               /\ \E p \in Prompts, d \in BOOLEAN : CallPrompt(c, p, d)
<1>0. call \in [Callers -> CallType] BY DEF Types
<1>1. Idle \in CallType /\ Idle.served = {} BY DEF Idle, CallType, Pcs, Ops
<1>2. call[c].pc = "idle"
  BY DEF Call, GetSecret, GetSecrets, SetSecret, Delete, OpenSession, CallPrompt, Start, At
<1>3. ASSUME NEW u \in Uuids, NEW s \in Sids, GetSecret(c, u, s)
      PROVE  call'[c].served = {} /\ call'[c].pc = "refresh"
  BY <1>0, <1>1, <1>3 DEF GetSecret, CallType
<1>4. ASSUME NEW us, NEW s \in Sids, GetSecrets(c, us, s)
      PROVE  call'[c].served = {} /\ call'[c].pc = "session" /\ call'[c].op # "get"
  BY <1>0, <1>1, <1>4 DEF GetSecrets, CallType
<1>5. ASSUME NEW u \in Uuids, NEW s \in Sids, NEW v \in Values, SetSecret(c, u, s, v)
      PROVE  call'[c].served = {} /\ call'[c].pc = "session" /\ call'[c].op # "get"
  BY <1>0, <1>1, <1>5 DEF SetSecret, CallType
<1>6. ASSUME NEW u \in Uuids, Delete(c, u)
      PROVE  call'[c].served = {} /\ call'[c].pc = "refresh"
  BY <1>0, <1>1, <1>6 DEF Delete, Start, CallType
<1>7. ASSUME NEW s \in Sids, OpenSession(c, s)
      PROVE  call'[c].served = {} /\ call'[c].pc = "store"
  BY <1>0, <1>1, <1>7 DEF OpenSession, CallType
<1>8. ASSUME NEW p \in Prompts, NEW d \in BOOLEAN, CallPrompt(c, p, d)
      PROVE  call'[c].served = {} /\ call'[c].pc \in {"emit", "emitTrue"}
  BY <1>0, <1>1, <1>8 DEF CallPrompt, Start, CallType
<1> QED BY <1>2, <1>3, <1>4, <1>5, <1>6, <1>7, <1>8 DEF Call

-----------------------------------------------------------------------------
(* The tree and its writer *)

\* An update has the database to itself and a copy of good passwords to go
\* back to; outside of updates the cells of the tree hold what was committed,
\* and nothing once the database is locked.
DbInv ==
  /\ \A c \in Callers : At(c, "saving") => writer = c
  /\ writer # None => open /\ At(writer, "saving")
  /\ \A u, v \in Uuids : tree[u] # None /\ tree[u] = tree[v] => u = v
  /\ \A u \in Uuids : backup[u] \in Values \cup {None}
  /\ \A u \in Uuids : tree[u] # None =>
       /\ open => plain[tree[u]] \in Values
       /\ open /\ writer = None => committed[u] = plain[tree[u]]
       /\ ~open => plain[tree[u]] = Empty

\* Nobody else comes to, or leaves, the point where an update is saved.
LEMMA SavingSteps ==
  ASSUME Types, ShapeInv, Next
  PROVE  \/ \A d \in Callers : call'[d].pc = "saving" <=> call[d].pc = "saving"
         \/ \E c \in Callers : Begins(c) \/ SaveDone(c) \/ SaveFails(c)
<1>1. ASSUME NEW c \in Callers, CallStep(c), ~(Begins(c) \/ SaveDone(c) \/ SaveFails(c))
      PROVE  \A d \in Callers : call'[d].pc = "saving" <=> call[d].pc = "saving"
  <2>1. (\A d \in Callers \ {c} : call'[d] = call[d]) /\ (call'[c] = Idle \/ Goes(c))
    BY <1>1, CallGoes
  <2>2. CASE Goes(c)
    <3>1. call[c].pc # "saving" /\ call'[c].pc # "saving"
      BY <1>1, <2>2 DEF Goes, Authorised
    <3> QED BY <2>1, <3>1
  <2>3. CASE call'[c] = Idle
    <3>1. call[c].pc # "saving"
      BY <1>1 DEF CallStep, Refresh, Authorise, Label, Polkit, LookupSession, Read, NextItem,
        BeginUpdate, Unexport, StoreSession, EmitCompleted, ClosePrompt, At, AfterLabel
    <3>2. call'[c].pc = "idle" BY <2>3 DEF Idle
    <3> QED BY <2>1, <3>1, <3>2
  <2> QED BY <2>1, <2>2, <2>3
<1>2. ASSUME NEW c \in Callers, Call(c)
      PROVE  \A d \in Callers : call'[d].pc = "saving" <=> call[d].pc = "saving"
  <2>1. \A d \in Callers \ {c} : call'[d] = call[d] BY <1>2, CallStarts DEF Moved
  <2> QED BY <1>2, <2>1, CallPcs
<1>3. CASE Environment BY <1>3, EnvironmentItems
<1> QED BY <1>1, <1>2, <1>3 DEF Next

LEMMA DbStep ==
  ASSUME Types, ShapeInv, DbInv, [Next]_vars
  PROVE  DbInv'
<1> USE ItemConstants
<1>0. TypeOK /\ tree \in [Uuids -> Cells \cup {None}] /\ plain \in [Cells -> Values \cup {Empty}]
      /\ call \in [Callers -> CallType]
  BY DEF Types, TypeOK, Cell
<1>1. CASE UNCHANGED vars
  BY <1>1 DEF DbInv, At, vars, treeVars
<1>2. ASSUME NEW c \in Callers, Begins(c) PROVE DbInv'
  <2> DEFINE x == obj[call[c].item].uuid
  <2>1. /\ x \in Uuids /\ tree[x] \in Cells /\ open /\ writer = None /\ Goto(c, "saving")
        /\ writer' = c /\ backup' = Passwords(tree, plain) /\ open' = open /\ committed' = committed
        /\ \/ /\ call[c].new \in Values /\ tree' = tree
              /\ plain' = [plain EXCEPT ![tree[x]] = call[c].new]
           \/ tree' = [tree EXCEPT ![x] = None] /\ plain' = plain
    BY <1>2 DEF Begins, Readable
  <2>2. call'[c].pc = "saving" /\ \A d \in Callers \ {c} : call'[d] = call[d]
    BY <1>0, <2>1, GotoFacts DEF Pcs
  <2>3. \A d \in Callers : ~At(d, "saving") BY <2>1 DEF DbInv
  <2>4. (\A d \in Callers : At(d, "saving") => writer = d)' BY <2>1, <2>2, <2>3 DEF At
  <2>5. (writer # None => open /\ At(writer, "saving"))' BY <2>1, <2>2 DEF At
  <2>6. \A u \in Uuids : tree'[u] # None => tree'[u] = tree[u] BY <1>0, <2>1
  <2>7. (\A u, v \in Uuids : tree[u] # None /\ tree[u] = tree[v] => u = v)'
    BY <2>6 DEF DbInv
  <2>8. (\A u \in Uuids : backup[u] \in Values \cup {None})'
    BY <2>1 DEF DbInv, Passwords
  <2>9. ASSUME NEW u \in Uuids, tree'[u] # None PROVE plain'[tree'[u]] \in Values
    <3>1. tree[u] \in Cells /\ plain[tree[u]] \in Values /\ tree'[u] = tree[u]
      BY <1>0, <2>1, <2>6, <2>9 DEF DbInv
    <3> QED BY <1>0, <2>1, <3>1
  <2> QED BY <2>1, <2>4, <2>5, <2>7, <2>8, <2>9 DEF DbInv
<1>3. ASSUME NEW c \in Callers, SaveDone(c) PROVE DbInv'
  <2>1. /\ call[c].pc = "saving" /\ writer = c /\ open
    BY <1>3 DEF SaveDone, At, DbInv
  <2>2. /\ writer' = None /\ backup' = NoBackup /\ committed' = Passwords(tree, plain)
        /\ open' = open /\ tree' = tree /\ plain' = plain
        /\ Goto(c, "log") \/ Goto(c, "unexport")
    BY <1>3 DEF SaveDone
  <2>3. call'[c].pc # "saving" /\ \A d \in Callers \ {c} : call'[d] = call[d]
    BY <1>0, <2>2, GotoFacts DEF Pcs
  <2>4. (\A d \in Callers : At(d, "saving") => writer = d)' BY <2>1, <2>3 DEF At, DbInv
  <2> QED BY <2>1, <2>2, <2>4 DEF DbInv, NoBackup, Passwords
<1>4. ASSUME NEW c \in Callers, SaveFails(c) PROVE DbInv'
  <2>1. /\ call[c].pc = "saving" /\ writer = c /\ open
    BY <1>4 DEF SaveFails, At, DbInv
  <2>2. /\ writer' = None /\ backup' = NoBackup /\ committed' = Passwords(tree', plain')
        /\ open' = open /\ Goto(c, "idle")
    BY <1>4 DEF SaveFails
  <2>3. call'[c].pc # "saving" /\ \A d \in Callers \ {c} : call'[d] = call[d]
    BY <1>0, <2>2, GotoFacts DEF Pcs, Idle
  <2>4. (\A d \in Callers : At(d, "saving") => writer = d)' BY <2>1, <2>3 DEF At, DbInv
  <2>5. /\ \A u, v \in Uuids : tree'[u] # None /\ tree'[u] = tree'[v] => u = v
        /\ \A u \in Uuids : tree'[u] # None =>
              \E v \in Uuids : backup[v] # None /\ plain'[tree'[u]] = backup[v]
    BY <1>0, <1>4, Restored
  <2>6. \A u \in Uuids : tree'[u] # None => plain'[tree'[u]] \in Values
    BY <2>5 DEF DbInv
  <2>7. \A u \in Uuids : tree'[u] # None => committed'[u] = plain'[tree'[u]]
    BY <2>2 DEF Passwords
  <2> QED BY <2>1, <2>2, <2>4, <2>5, <2>6, <2>7 DEF DbInv, NoBackup
<1>5. CASE LockDatabase
  <2>1. /\ writer = None /\ writer' = None /\ open' = FALSE /\ plain' = wipeDatabase
        /\ tree' = tree /\ backup' = backup /\ call' = call
    BY <1>5 DEF LockDatabase, Readable
  <2>2. \A u \in Uuids : tree[u] # None => plain'[tree[u]] = Empty
    BY <1>0, <2>1 DEF wipeDatabase, Live
  <2> QED BY <2>1, <2>2 DEF DbInv, At
<1>6. CASE /\ UNCHANGED treeVars
           /\ \A d \in Callers : call'[d].pc = "saving" <=> call[d].pc = "saving"
  <2>1. writer \in Callers \cup {None} BY <1>0 DEF TypeOK
  <2> QED BY <1>6, <2>1 DEF DbInv, At, treeVars
<1> QED BY <1>1, <1>2, <1>3, <1>4, <1>5, <1>6, TreeSteps, SavingSteps

LEMMA DbInit == Init => DbInv
<1> SUFFICES ASSUME Init PROVE DbInv OBVIOUS
<1>1. PICK u \in Uuids, k \in Cells, v \in Values :
       /\ tree = [w \in Uuids |-> IF w = u THEN k ELSE None]
       /\ plain = [l \in Cells |-> IF l = k THEN v ELSE Empty]
       /\ committed = [w \in Uuids |-> IF w = u THEN v ELSE None]
  BY DEF Init
<1>2. \A c \in Callers : call[c] = Idle BY DEF Init
<1>3. \A c \in Callers : ~At(c, "saving") BY <1>2 DEF At, Idle
<1> QED BY <1>1, <1>3, ItemConstants DEF Init, DbInv, NoBackup

-----------------------------------------------------------------------------
(* Reading *)

\* The call has taken up the entry whose secret it is to serve.
Taken(c) ==
  /\ call[c].op \in {"get", "gets"}
  /\ \/ call[c].pc \in {"auth", "label", "polkit", "refused", "read", "log", "logNext"}
     \/ call[c].op = "get" /\ call[c].pc = "session"

\* The call has been authorised.
Passed(c) == call[c].pc = "read" \/ (call[c].op = "get" /\ call[c].pc = "session")

\* The item's cell is the tree's, or it left the tree in an update the call
\* has seen, as it has seen every update under way; and a call is authorised
\* by the user or by a configuration it has seen.
ReadInv ==
  \A c \in Callers : Taken(c) =>
    LET i == call[c].item u == obj[i].uuid IN
    /\ \/ tree[u] # None /\ obj[i].cell = tree[u]
       \/ hist[c].left /\ hist[c].wrote
    /\ writer # None => hist[c].wrote
    /\ Passed(c) => call[c].granted \/ hist[c].off

\* While a call has an entry in hand, its object is that entry's and its
\* history grows.
LEMMA TakenKept ==
  ASSUME Types, ShapeInv, Next, NEW c \in Callers, Taken(c), Taken(c)'
  PROVE  LET i == call[c].item u == obj[i].uuid IN
         /\ call'[c].op = call[c].op /\ call'[c].item = i
         /\ i \in Objects /\ u \in Uuids /\ obj'[i].uuid = u
         /\ Kept(i)
         /\ call'[c] = call[c] \/ (CallStep(c) /\ Goes(c))
         /\ hist'[c].seen = hist[c].seen \cup {committed'[u]}
         /\ hist'[c].off = (hist[c].off \/ ~confirm')
         /\ hist'[c].wrote = (hist[c].wrote \/ writer' # None)
         /\ hist'[c].locked = (hist[c].locked \/ ~open')
         /\ hist'[c].left = (hist[c].left \/ Live \ {tree'[w] : w \in Uuids} # {})
<1> USE ItemConstants DEF Objects
<1> DEFINE i == call[c].item
           u == obj[i].uuid
<1>0. Shape(c) /\ hist[c] \in HistType /\ ItemsOK
  BY DEF Types, ShapeInv, TypeOK, ItemsOK, ItemType
<1>1. i \in Objects /\ u \in Uuids /\ (i \in Items \/ i = c) /\ call[c].pc \notin {"next", "idle"}
  BY <1>0 DEF Taken, Shape, Holding
<1>2. ASSUME NEW d \in Callers, CallStep(d)
      PROVE  Kept(i) /\ (call'[c] = call[c] \/ (CallStep(c) /\ Goes(c)))
  <2>1. CASE d = c
    <3>1. call'[c] # Idle BY DEF Taken, Idle
    <3>2. Goes(c) BY <1>2, <2>1, <3>1, CallGoes
    <3>3. call[c].pc \notin {"next", "refused", "log"}
      BY <3>2 DEF Taken, Goes
    <3> QED BY <1>1, <1>2, <2>1, <3>2, <3>3, CallItems
  <2>2. CASE d # c
    <3>1. call'[c] = call[c] BY <1>2, <2>2, CallGoes
    <3>2. i # d BY <1>1, <2>2
    <3> QED BY <1>1, <1>2, <3>1, <3>2, CallItems
  <2> QED BY <2>1, <2>2
<1>3. ASSUME NEW d \in Callers, Call(d)
      PROVE  Kept(i) /\ call'[c] = call[c]
  <2>1. call[d].pc = "idle" BY <1>3, CallPcs
  <2>2. d # c BY <1>1, <2>1
  <2>3. call'[c] = call[c] /\ UNCHANGED itemVars BY <1>3, <2>2, CallStarts DEF Moved
  <2> QED BY <2>3 DEF Kept, itemVars
<1>4. ASSUME Environment PROVE Kept(i) /\ call'[c] = call[c]
  <2>1. call' = call /\ obj'[i] = obj[i] BY <1>1, <1>4, EnvironmentItems
  <2> QED BY <2>1 DEF Kept
<1>5. Kept(i) /\ (call'[c] = call[c] \/ (CallStep(c) /\ Goes(c)))
  BY <1>2, <1>3, <1>4 DEF Next
<1>6. call'[c].op = call[c].op /\ call'[c].item = i BY <1>5 DEF Goes, Same
<1>7. obj'[i].uuid = u BY <1>5 DEF Kept
<1>8. Reading(c)' BY <1>1, <1>6, <1>7 DEF Reading, Taken
<1>9. Observe BY DEF Next
<1>10. /\ hist'[c].seen = hist[c].seen \cup {committed'[obj'[call'[c].item].uuid]}
       /\ hist'[c].off = (hist[c].off \/ ~confirm')
       /\ hist'[c].wrote = (hist[c].wrote \/ writer' # None)
       /\ hist'[c].locked = (hist[c].locked \/ ~open')
       /\ hist'[c].left = (hist[c].left \/ Live \ {tree'[w] : w \in Uuids} # {})
  BY <1>0, <1>1, <1>8, <1>9, HistFacts
<1> QED BY <1>1, <1>5, <1>6, <1>7, <1>10

\* How a call takes an entry up.
LEMMA TakenUp ==
  ASSUME Types, ShapeInv, Next, NEW c \in Callers, ~Taken(c), Taken(c)'
  PROVE  LET i == call'[c].item u == obj'[i].uuid IN
         /\ tree'[u] # None /\ obj'[i].cell = tree'[u] /\ writer' = None
         /\ ~Passed(c)' /\ call'[c].served = {}
<1> USE ItemConstants DEF Objects
<1>0. Shape(c) /\ ItemsOK /\ TypeOK BY DEF Types, ShapeInv, TypeOK, ItemsOK, ItemType
<1>1. call'[c] # call[c] BY DEF Taken
<1>2. CallStep(c)
  <2>1. \A d \in Callers \ {c} : ~CallStep(d) /\ ~Call(d)
    BY <1>1, CallGoes, CallStarts DEF Moved
  <2>2. ~Environment BY <1>1, EnvironmentItems
  <2>3. ~Call(c) BY CallPcs DEF Taken
  <2> QED BY <2>1, <2>2, <2>3 DEF Next
<1>3. Goes(c) BY <1>2, CallGoes DEF Taken, Idle
<1>4. call'[c].op = call[c].op /\ call'[c].item = call[c].item BY <1>3 DEF Goes, Same
<1>5. \/ /\ call[c].pc = "refresh" /\ call[c].op = "get" /\ call'[c].pc = "auth" /\ Refresh(c)
         /\ Found(call[c].item) /\ call'[c].served = call[c].served
      \/ /\ call[c].pc = "next" /\ call'[c].pc = "auth" /\ NextItem(c)
         /\ call'[c].served = call[c].served
         /\ \E u \in Uuids : /\ tree[u] # None
                            /\ obj' = [obj EXCEPT ![c] = [uuid |-> u, cell |-> tree[u]]]
  BY <1>0, <1>3, <1>4 DEF Goes, Taken, Authorised, Shape
<1>6. call'[c].served = {} /\ ~Passed(c)' BY <1>0, <1>5 DEF Shape, Passed
<1>7. CASE Refresh(c) /\ Found(call[c].item) /\ call[c].op = "get"
  <2> DEFINE i == call[c].item
  <2>1. i \in Objects /\ obj[i].uuid \in Uuids BY <1>0, <1>7 DEF Shape
  <2>2. obj' = Refreshed(i) /\ tree' = tree /\ writer' = None
    BY <1>7 DEF Refresh, treeVars, Readable
  <2>3. open /\ tree[obj[i].uuid] # None BY <1>7 DEF Found
  <2>4. obj'[i].uuid = obj[i].uuid /\ obj'[i].cell = tree[obj[i].uuid]
    BY <1>0, <2>1, <2>2, <2>3, RefreshedFacts
  <2> QED BY <1>4, <1>6, <2>2, <2>3, <2>4
<1>8. CASE /\ call[c].pc = "next" /\ NextItem(c)
           /\ \E u \in Uuids : /\ tree[u] # None
                              /\ obj' = [obj EXCEPT ![c] = [uuid |-> u, cell |-> tree[u]]]
  <2>1. call'[c].item = c BY <1>0, <1>4, <1>8 DEF Shape
  <2>2. PICK u \in Uuids : /\ tree[u] # None
                           /\ obj' = [obj EXCEPT ![c] = [uuid |-> u, cell |-> tree[u]]]
    BY <1>8
  <2>3. tree' = tree /\ writer' = None BY <1>8 DEF NextItem, treeVars, Readable
  <2>4. obj'[c] = [uuid |-> u, cell |-> tree[u]] BY <1>0, <2>2 DEF ItemsOK
  <2>5. obj'[c].uuid = u /\ obj'[c].cell = tree[u] BY <2>4
  <2> QED BY <1>6, <2>1, <2>2, <2>3, <2>5
<1> QED BY <1>5, <1>7, <1>8

\* ReadInv is kept.
LEMMA ReadStep ==
  ASSUME Types, ShapeInv, DbInv, ReadInv, [Next]_vars
  PROVE  ReadInv'
<1> USE ItemConstants
<1>1. CASE UNCHANGED vars
  BY <1>1 DEF ReadInv, Taken, Passed, vars, treeVars, itemVars
<1>2. CASE Next
  <2>0. TypeOK /\ tree \in [Uuids -> Cells \cup {None}] BY DEF Types, TypeOK, Cell
  <2>1. SUFFICES ASSUME NEW c \in Callers, Taken(c)'
                 PROVE  /\ \/ /\ tree'[obj'[call'[c].item].uuid] # None
                              /\ obj'[call'[c].item].cell = tree'[obj'[call'[c].item].uuid]
                           \/ hist'[c].left /\ hist'[c].wrote
                        /\ writer' # None => hist'[c].wrote
                        /\ Passed(c)' => call'[c].granted \/ hist'[c].off
    BY DEF ReadInv
  <2>2. CASE ~Taken(c) BY <1>2, <2>1, <2>2, TakenUp
  <2>3. CASE Taken(c)
    <3> DEFINE i == call[c].item
               u == obj[i].uuid
    <3>1. /\ call'[c].op = call[c].op /\ call'[c].item = i
          /\ i \in Objects /\ u \in Uuids /\ obj'[i].uuid = u
          /\ Kept(i)
          /\ call'[c] = call[c] \/ (CallStep(c) /\ Goes(c))
          /\ hist'[c].off = (hist[c].off \/ ~confirm')
          /\ hist'[c].wrote = (hist[c].wrote \/ writer' # None)
          /\ hist'[c].left = (hist[c].left \/ Live \ {tree'[w] : w \in Uuids} # {})
      BY <1>2, <2>1, <2>3, TakenKept
    <3>2. /\ \/ tree[u] # None /\ obj[i].cell = tree[u]
             \/ hist[c].left /\ hist[c].wrote
          /\ writer # None => hist[c].wrote
          /\ Passed(c) => call[c].granted \/ hist[c].off
      BY <2>3 DEF ReadInv
    <3>3. writer' # None => hist'[c].wrote BY <3>1
    <3>4. Passed(c)' => call'[c].granted \/ hist'[c].off
      <4>1. CASE call'[c] = call[c] BY <3>1, <3>2, <4>1 DEF Passed
      <4>2. CASE Goes(c)
        <5>1. confirm \in BOOLEAN /\ confirm' \in BOOLEAN
          BY <1>2, SvcTypes DEF Types, TypeOK, SvcOK
        <5>2. Passed(c)' => \/ call[c].pc = "session" /\ call'[c].granted = call[c].granted
                            \/ call[c].pc = "auth" /\ ~confirm /\ confirm' = confirm
                            \/ call'[c].granted
          BY <4>2 DEF Goes, Passed, Authorised
        <5>3. call[c].pc = "session" => Passed(c) BY <2>3 DEF Taken, Passed
        <5> QED BY <3>1, <3>2, <5>1, <5>2, <5>3
      <4> QED BY <3>1, <4>1, <4>2
    <3>5. \/ tree'[u] # None /\ obj'[i].cell = tree'[u]
          \/ hist'[c].left /\ hist'[c].wrote
      <4>1. CASE hist[c].left /\ hist[c].wrote BY <3>1, <4>1
      <4>2. CASE tree[u] # None /\ obj[i].cell = tree[u]
        <5>1. obj'[i].cell = tree[u] BY <3>1, <4>2 DEF Kept
        <5>2. CASE tree'[u] = tree[u] BY <4>2, <5>1, <5>2
        <5>3. tree[u] \in Live BY <3>1, <4>2 DEF Live
        <5>4. ASSUME NEW d \in Callers, Begins(d), tree'[u] # tree[u]
              PROVE  hist'[c].left /\ hist'[c].wrote
          <6>1. writer' = d /\ tree' = [tree EXCEPT ![obj[call[d].item].uuid] = None]
            BY <5>4 DEF Begins
          <6>2. \A w \in Uuids : tree'[w] # tree[u]
            BY <2>0, <3>1, <4>2, <5>4, <6>1 DEF DbInv
          <6>3. Live \ {tree'[w] : w \in Uuids} # {} BY <5>3, <6>2
          <6> QED BY <3>1, <6>1, <6>3
        <5>5. ASSUME NEW d \in Callers, SaveFails(d)
              PROVE  hist'[c].left /\ hist'[c].wrote
          <6>0. At(d, "saving") BY <5>5 DEF SaveFails
          <6>1. writer = d /\ d # None BY <6>0 DEF DbInv
          <6>2. \A w \in Uuids : tree'[w] = None \/ tree'[w] \in FreshCells
            BY <2>0, <5>5, Restored
          <6>3. \A w \in Uuids : tree'[w] # tree[u] BY <4>2, <5>3, <6>2 DEF FreshCells
          <6>4. Live \ {tree'[w] : w \in Uuids} # {} BY <5>3, <6>3
          <6> QED BY <3>1, <3>2, <6>1, <6>4
        <5>6. \/ tree' = tree
              \/ \E d \in Callers : Begins(d) \/ SaveFails(d)
          BY <1>2, TreeSteps DEF treeVars, LockDatabase, SaveDone
        <5> QED BY <5>2, <5>4, <5>5, <5>6
      <4> QED BY <3>2, <4>1, <4>2
    <3> QED BY <3>1, <3>3, <3>4, <3>5
  <2> QED BY <2>2, <2>3
<1> QED BY <1>1, <1>2

LEMMA ReadInit == Init => ReadInv
<1> SUFFICES ASSUME Init PROVE ReadInv OBVIOUS
<1>1. \A c \in Callers : call[c] = Idle BY DEF Init
<1> QED BY <1>1 DEF ReadInv, Taken, Idle

\* What a read serves, the rest of the invariant being given.
LEMMA ReadServes ==
  ASSUME Types, ShapeInv, DbInv, ReadInv, NEW c \in Callers, Read(c), Taken(c), Taken(c)', Next,
         NEW r \in call'[c].served
  PROVE  LET h == hist'[c] get == call'[c].op = "get" IN
         /\ \/ r.value \in h.seen
            \/ r.value = Garbage /\ get /\ h.wrote
            \/ r.value = Empty /\ (h.locked \/ h.left)
            \/ r.value \in Values /\ h.wrote /\ (get \/ h.left)
         /\ r.locked => r.value = Empty \/ h.left
         /\ r.confirmed \/ h.off
<1> USE ItemConstants
<1> DEFINE i == call[c].item
           u == obj[i].uuid
           k == obj[i].cell
<1>0. TypeOK /\ ItemsOK /\ call \in [Callers -> CallType] /\ call[c] \in CallType
      /\ plain \in [Cells -> Values \cup {Empty}]
  BY DEF Types, TypeOK, ItemsOK, ItemType
<1>1. /\ call'[c].op = call[c].op /\ i \in Objects /\ u \in Uuids
      /\ hist'[c].seen = hist[c].seen \cup {committed'[u]}
      /\ hist'[c].off = (hist[c].off \/ ~confirm')
      /\ hist'[c].wrote = (hist[c].wrote \/ writer' # None)
      /\ hist'[c].locked = (hist[c].locked \/ ~open')
      /\ hist'[c].left = (hist[c].left \/ Live \ {tree'[w] : w \in Uuids} # {})
  BY TakenKept
<1>2. PICK v \in Unlocked(k) :
          call' = [call EXCEPT ![c] = [call[c] EXCEPT
            !.served = {[value |-> v, confirmed |-> call[c].granted, locked |-> ~open]},
            !.pc = IF call[c].op = "get" THEN "log" ELSE "logNext"]]
  BY <1>0 DEF Read
<1>3. call'[c].served = {[value |-> v, confirmed |-> call[c].granted, locked |-> ~open]}
  BY <1>0, <1>2 DEF CallType
<1>4. r = [value |-> v, confirmed |-> call[c].granted, locked |-> ~open] BY <1>3
<1>5. r.value = v /\ r.confirmed = call[c].granted /\ r.locked = ~open BY <1>4
<1>6. open' = open /\ committed' = committed /\ confirm' = confirm /\ writer' = writer
  BY DEF Read, treeVars, svcVars
<1>7. call[c].pc = "read" /\ (call[c].op = "gets" => writer = None)
      /\ call[c].op \in {"get", "gets"}
  BY DEF Read, At, MayRead, Readable, Taken
<1>8. /\ \/ tree[u] # None /\ k = tree[u]
         \/ hist[c].left /\ hist[c].wrote
      /\ writer # None => hist[c].wrote
      /\ call[c].granted \/ hist[c].off
  BY <1>7 DEF ReadInv, Passed
<1>9. k \in Cells \cup {None} BY <1>0, <1>1 DEF ItemsOK, ItemType, Cell
<1>10. r.confirmed \/ hist'[c].off BY <1>1, <1>5, <1>8
<1>11. CASE k = None
  <2>1. v = Empty /\ hist[c].left BY <1>2, <1>8, <1>11 DEF Unlocked
  <2> QED BY <1>1, <1>5, <1>10, <2>1
<1>12. CASE k # None /\ v = Garbage /\ v # plain[k]
  <2>1. writer # None BY <1>2, <1>12 DEF Unlocked
  <2>2. open /\ hist[c].wrote /\ call[c].op = "get" BY <1>7, <1>8, <2>1 DEF DbInv
  <2> QED BY <1>1, <1>5, <1>10, <1>12, <2>2
<1>13. CASE k # None /\ v = plain[k]
  <2>1. v \in Values \cup {Empty} BY <1>0, <1>9, <1>13
  <2>2. CASE hist[c].left /\ hist[c].wrote BY <1>1, <1>5, <1>10, <2>1, <2>2
  <2>3. CASE tree[u] # None /\ k = tree[u]
    <3>1. CASE ~open
      <4>1. v = Empty BY <1>1, <1>13, <2>3, <3>1 DEF DbInv
      <4> QED BY <1>1, <1>5, <1>6, <1>10, <3>1, <4>1
    <3>2. CASE open /\ writer = None
      <4>1. v = committed[u] BY <1>1, <1>13, <2>3, <3>2 DEF DbInv
      <4> QED BY <1>1, <1>5, <1>6, <1>10, <3>2, <4>1
    <3>3. CASE open /\ writer # None
      <4>1. v \in Values BY <1>1, <1>13, <2>3, <3>3 DEF DbInv
      <4> QED BY <1>1, <1>5, <1>7, <1>8, <1>10, <3>3, <4>1
    <3> QED BY <3>1, <3>2, <3>3
  <2> QED BY <1>8, <2>2, <2>3
<1>14. v = plain[k] \/ v = Garbage \/ k = None BY <1>2 DEF Unlocked
<1> QED BY <1>11, <1>12, <1>13, <1>14

\* A secret, once served, stays justified by what the call has seen.
LEMMA ServedStep ==
  ASSUME Types, ShapeInv, DbInv, ReadInv, [Next]_vars,
         ServedSecret, NothingAfterLock, ConfirmedUnlessOff
  PROVE  ServedSecret' /\ NothingAfterLock' /\ ConfirmedUnlessOff'
<1>1. CASE UNCHANGED vars
  BY <1>1 DEF ServedSecret, NothingAfterLock, ConfirmedUnlessOff, vars
<1>2. CASE Next
  <2>0. ShapeInv' /\ Types' BY <1>2, TypeStep
  <2>1. SUFFICES ASSUME NEW c \in Callers, NEW r \in call'[c].served
        PROVE  LET h == hist'[c] get == call'[c].op = "get" IN
               /\ \/ r.value \in h.seen
                  \/ r.value = Garbage /\ get /\ h.wrote
                  \/ r.value = Empty /\ (h.locked \/ h.left)
                  \/ r.value \in Values /\ h.wrote /\ (get \/ h.left)
               /\ r.locked => r.value = Empty \/ h.left
               /\ r.confirmed \/ h.off
    BY DEF ServedSecret, NothingAfterLock, ConfirmedUnlessOff
  <2>2. call'[c].pc \in {"log", "logNext"} /\ call'[c].op \in {"get", "gets"}
    BY <2>0, <2>1 DEF ShapeInv, Shape
  <2>3. Taken(c)' BY <2>2 DEF Taken
  <2>4. Taken(c) BY <1>2, <2>1, <2>3, TakenUp
  <2>5. /\ call'[c].op = call[c].op
        /\ call'[c] = call[c] \/ Goes(c)
        /\ hist[c].seen \subseteq hist'[c].seen
        /\ hist'[c].off = (hist[c].off \/ ~confirm')
        /\ hist'[c].wrote = (hist[c].wrote \/ writer' # None)
        /\ hist'[c].locked = (hist[c].locked \/ ~open')
        /\ hist'[c].left = (hist[c].left \/ Live \ {tree'[w] : w \in Uuids} # {})
    BY <1>2, <2>3, <2>4, TakenKept
  <2>6. CASE call'[c] = call[c]
    <3>1. r \in call[c].served BY <2>1, <2>6
    <3>2. /\ \/ r.value \in hist[c].seen
             \/ r.value = Garbage /\ call[c].op = "get" /\ hist[c].wrote
             \/ r.value = Empty /\ (hist[c].locked \/ hist[c].left)
             \/ r.value \in Values /\ hist[c].wrote /\ (call[c].op = "get" \/ hist[c].left)
          /\ r.locked => r.value = Empty \/ hist[c].left
          /\ r.confirmed \/ hist[c].off
      BY <3>1 DEF ServedSecret, NothingAfterLock, ConfirmedUnlessOff
    <3> QED BY <2>5, <3>2
  <2>7. CASE Goes(c)
    <3>1. Shape(c) BY DEF ShapeInv
    <3>2. Read(c) BY <2>1, <2>2, <2>7, <3>1 DEF Goes, Shape, Authorised
    <3> QED BY <1>2, <2>1, <2>3, <2>4, <3>2, ReadServes
  <2> QED BY <2>5, <2>6, <2>7
<1> QED BY <1>1, <1>2

LEMMA ServedHolds == Spec => [](ServedSecret /\ NothingAfterLock /\ ConfirmedUnlessOff)
<1> DEFINE Good == ServedSecret /\ NothingAfterLock /\ ConfirmedUnlessOff
           Inv == Types /\ ShapeInv /\ DbInv /\ ReadInv /\ Good
<1>1. Init => Good
  <2>1. ASSUME Init PROVE \A c \in Callers : call[c].served = {} BY <2>1 DEF Init, Idle
  <2> QED BY <2>1 DEF ServedSecret, NothingAfterLock, ConfirmedUnlessOff
<1>2. Init => Inv BY <1>1, TypeInit, DbInit, ReadInit
<1>3. Inv /\ [Next]_vars => Inv' BY TypeStep, DbStep, ReadStep, ServedStep
<1> QED BY <1>2, <1>3, PTL DEF Spec

\* item.go:175: whatever Item.GetSecret or Service.GetSecrets serves is a
\* password its entry had during the call, but for the named ways in which a
\* shared array is read too late.
THEOREM SecretsAreTheEntrys == Spec => []ServedSecret
BY ServedHolds, PTL

\* A secret read after DatabasePool.Lock is the empty string, unless its array
\* had left the tree before.
THEOREM LockWipesWhatIsRead == Spec => []NothingAfterLock
BY ServedHolds, PTL

\* access.go: no secret is served without the user's consent, unless
\* confirmation was off at some time of the call, whatever number of calls
\* waits for polkit.
THEOREM SecretsAreConfirmed == Spec => []ConfirmedUnlessOff
BY ServedHolds, PTL

-----------------------------------------------------------------------------
(* Prompts *)

Ends == {"emit", "emitTrue", "close"}

\* The call is in Prompt or Dismiss of prompt p.
On(c, p) == call[c].pc \in Ends /\ call[c].item = p

Called(p, b) == \E j \in DOMAIN prompt[p].calls : prompt[p].calls[j] = b

\* What is on its way has been asked for, nobody closes the channel but after
\* the signal or its failure, and two closers, or one after the first has
\* closed, are two calls.  Of two calls the second closes a closed channel.
PromptOK(p) ==
  LET q == prompt[p] IN
  /\ \A c \in Callers : On(c, p) =>
       /\ Called(p, q.dismissed)
       /\ At(c, "emitTrue") => Called(p, TRUE)
       /\ At(c, "close") => q.signals # <<>> \/ q.unsent
       /\ q.closed => Len(q.calls) > 1
       /\ \A d \in Callers \ {c} : On(d, p) => Len(q.calls) > 1
  /\ q.closed => (q.signals # <<>> \/ q.unsent) /\ q.calls # <<>>
  /\ q.calls # <<>> => q.closed \/ \E c \in Callers : On(c, p)
  /\ Len(q.calls) > 1 =>
       \/ down
       \/ q.closed /\ \E c \in Callers : On(c, p)
       \/ \E c, d \in Callers : c # d /\ On(c, p) /\ On(d, p)
  /\ \A i \in DOMAIN q.signals : Called(p, q.signals[i])

PromptInv ==
  /\ \A p \in Prompts : PromptOK(p)
  /\ down => MapRace \/ \E p \in Prompts : Len(prompt[p].calls) > 1

LEMMA AppendFacts ==
  ASSUME NEW s \in Seq(BOOLEAN), NEW b \in BOOLEAN
  PROVE  /\ Len(s) \in Nat /\ Len(Append(s, b)) = Len(s) + 1
         /\ DOMAIN s = 1..Len(s) /\ DOMAIN Append(s, b) = 1..(Len(s) + 1)
         /\ \A j \in 1..Len(s) : Append(s, b)[j] = s[j]
         /\ Append(s, b)[Len(s) + 1] = b
         /\ Append(s, b) # <<>>
         /\ s # <<>> => Len(s) > 0
OBVIOUS

\* The other steps leave prompts and their callers alone.
LEMMA PromptSteps ==
  ASSUME Types, ShapeInv, Next
  PROVE  \/ /\ \A d \in Callers : call[d].pc \in Ends \/ call'[d].pc \in Ends => call'[d] = call[d]
            /\ \A p \in Prompts : /\ prompt'[p].dismissed = prompt[p].dismissed
                                  /\ prompt'[p].calls = prompt[p].calls
                                  /\ prompt'[p].signals = prompt[p].signals
                                  /\ prompt'[p].unsent = prompt[p].unsent
                                  /\ prompt'[p].closed = prompt[p].closed
            /\ down' => MapRace'
         \/ \E c \in Callers : EmitCompleted(c) \/ ClosePrompt(c)
         \/ \E c \in Callers, p \in Prompts, d \in BOOLEAN : CallPrompt(c, p, d)
<1>0. ~down BY DEF Next
<1>1. ASSUME NEW c \in Callers, CallStep(c), ~EmitCompleted(c), ~ClosePrompt(c)
      PROVE  /\ \A d \in Callers : call[d].pc \in Ends \/ call'[d].pc \in Ends => call'[d] = call[d]
             /\ prompt' = prompt /\ down' = down
  <2>1. (\A d \in Callers \ {c} : call'[d] = call[d]) /\ (call'[c] = Idle \/ Goes(c))
    BY <1>1, CallGoes
  <2>2. call'[c].pc \notin Ends BY <1>1, <2>1 DEF Ends, Goes, Idle, Authorised
  <2>3. call[c].pc \notin Ends
    BY <1>1 DEF CallStep, Refresh, Authorise, Label, Polkit, LookupSession, Read, NextItem,
        BeginUpdate, SaveDone, SaveFails, Unexport, StoreSession, At, AfterLabel, Ends
  <2>4. prompt' = prompt /\ down' = down
    BY <1>1 DEF CallStep, Refresh, Authorise, Label, Polkit, LookupSession, Read, NextItem,
        BeginUpdate, SaveDone, SaveFails, Unexport, StoreSession, svcVars
  <2> QED BY <2>1, <2>2, <2>3, <2>4
<1>2. ASSUME NEW c \in Callers, Call(c),
             ~\E p \in Prompts, d \in BOOLEAN : CallPrompt(c, p, d)
      PROVE  /\ \A d \in Callers : call[d].pc \in Ends \/ call'[d].pc \in Ends => call'[d] = call[d]
             /\ prompt' = prompt /\ down' = down
  <2>1. \A d \in Callers \ {c} : call'[d] = call[d] BY <1>2, CallStarts DEF Moved
  <2>2. call[c].pc \notin Ends /\ call'[c].pc \notin Ends BY <1>2, CallPcs DEF Ends
  <2>3. prompt' = prompt /\ down' = down
    BY <1>2 DEF Call, GetSecret, GetSecrets, SetSecret, Delete, OpenSession, svcVars
  <2> QED BY <2>1, <2>2, <2>3
<1>3. CASE Environment
  <2>1. call' = call BY <1>3, EnvironmentItems
  <2>2. \/ prompt' = prompt /\ down' = down
        \/ prompt' = prompt /\ MapRace
        \/ \E p \in Prompts : prompt' = [prompt EXCEPT ![p].made = TRUE] /\ down' = down
    BY <1>3 DEF Environment, LockDatabase, UpdateConfig, ConcurrentMapAccess, ExportItem,
       nextPrompt, svcVars
  <2>3. ASSUME NEW p \in Prompts, prompt' = [prompt EXCEPT ![p].made = TRUE], NEW q \in Prompts
        PROVE  /\ prompt'[q].dismissed = prompt[q].dismissed
               /\ prompt'[q].calls = prompt[q].calls
               /\ prompt'[q].signals = prompt[q].signals
               /\ prompt'[q].unsent = prompt[q].unsent
               /\ prompt'[q].closed = prompt[q].closed
    BY <2>3 DEF Types, PromptType
  <2>4. MapRace => MapRace' BY <2>1 DEF MapRace, At
  <2> QED BY <1>0, <2>1, <2>2, <2>3, <2>4
<1>4. Environment \/ \E c \in Callers : CallStep(c) \/ Call(c) BY DEF Next
<1> QED BY <1>0, <1>1, <1>2, <1>3, <1>4

\* A prompt that a step does not touch.
LEMMA PromptKept ==
  ASSUME NEW p \in Prompts, PromptOK(p),
         prompt'[p].dismissed = prompt[p].dismissed, prompt'[p].calls = prompt[p].calls,
         prompt'[p].signals = prompt[p].signals, prompt'[p].closed = prompt[p].closed,
         prompt'[p].unsent = prompt[p].unsent, down => down',
         \A d \in Callers : On(d, p) \/ On(d, p)' => call'[d] = call[d]
  PROVE  PromptOK(p)'
<1>1. \A d \in Callers : On(d, p)' <=> On(d, p) BY DEF On
<1>2. \A b : Called(p, b)' <=> Called(p, b) BY DEF Called
<1>3. \A d \in Callers : On(d, p)' => \A l : At(d, l)' <=> At(d, l) BY DEF At
<1> QED BY <1>1, <1>2, <1>3 DEF PromptOK

LEMMA PromptStep ==
  ASSUME Types, ShapeInv, PromptInv, [Next]_vars
  PROVE  PromptInv'
<1>0. /\ prompt \in [Prompts -> PromptType] /\ call \in [Callers -> CallType]
      /\ \A p \in Prompts : PromptOK(p)
      /\ \A c \in Callers : Shape(c)
      /\ Next => ~down
  BY DEF Types, PromptInv, ShapeInv, Next
<1>1. CASE UNCHANGED vars
  <2>1. prompt' = prompt /\ call' = call /\ down' = down BY <1>1 DEF vars, svcVars
  <2> QED BY <2>1 DEF PromptInv, PromptOK, On, Called, At, MapRace
<1>2. ASSUME NEW c \in Callers, NEW p \in Prompts, NEW b \in BOOLEAN, CallPrompt(c, p, b), Next
      PROVE  PromptInv'
  <2> DEFINE old == prompt[p].calls
             q == [prompt[p] EXCEPT !.dismissed = b, !.calls = Append(old, b)]
             l == IF b THEN "emitTrue" ELSE "emit"
             r == [Idle EXCEPT !.pc = l, !.op = "prompt", !.item = p]
  <2>1. /\ call[c].pc = "idle" /\ call' = [call EXCEPT ![c] = r]
        /\ prompt' = [prompt EXCEPT ![p] = q] /\ down' = down /\ ~down
    BY <1>2 DEF CallPrompt, Start, At, Next
  <2>2. call'[c].pc = l /\ call'[c].item = p BY <1>0, <2>1 DEF Idle
  <2>3. \A d \in Callers \ {c} : call'[d] = call[d] BY <1>0, <2>1
  <2>4. prompt[p] \in PromptType /\ old \in Seq(BOOLEAN) BY <1>0 DEF PromptType
  <2>5. /\ prompt'[p].dismissed = b /\ prompt'[p].calls = Append(old, b)
        /\ prompt'[p].signals = prompt[p].signals /\ prompt'[p].closed = prompt[p].closed
        /\ prompt'[p].unsent = prompt[p].unsent
    BY <1>0, <2>1, <2>4 DEF PromptType
  <2>6. /\ Len(old) \in Nat /\ Len(Append(old, b)) = Len(old) + 1
        /\ DOMAIN old = 1..Len(old) /\ DOMAIN Append(old, b) = 1..(Len(old) + 1)
        /\ \A j \in 1..Len(old) : Append(old, b)[j] = old[j]
        /\ Append(old, b)[Len(old) + 1] = b
        /\ Append(old, b) # <<>>
        /\ old # <<>> => Len(old) > 0
    BY <2>4, AppendFacts
  <2>7. \A x : Called(p, x) => Called(p, x)' BY <2>5, <2>6 DEF Called
  <2>8. Called(p, b)' BY <2>5, <2>6 DEF Called
  <2>9. old # <<>> => Len(prompt'[p].calls) > 1 BY <2>5, <2>6
  <2>10. \A x : Called(p, x) => old # <<>> BY DEF Called
  <2>11. ~On(c, p) /\ On(c, p)' BY <2>1, <2>2 DEF On, Ends
  <2>12. \A d \in Callers \ {c} : On(d, p)' <=> On(d, p) BY <2>3 DEF On
  <2>13. PromptOK(p)'
    <3>1. PromptOK(p) BY <1>0
    <3>2. \A d \in Callers \ {c} : On(d, p)' => old # <<>>
      BY <2>10, <2>12, <3>1 DEF PromptOK
    <3>3. prompt[p].closed => old # <<>> /\ (prompt[p].signals # <<>> \/ prompt[p].unsent)
      BY <3>1 DEF PromptOK
    <3>4. ASSUME NEW d \in Callers, On(d, p)'
          PROVE  /\ Called(p, b)'
                 /\ At(d, "emitTrue")' => Called(p, TRUE)'
                 /\ At(d, "close")' => prompt'[p].signals # <<>> \/ prompt'[p].unsent
                 /\ prompt'[p].closed => Len(prompt'[p].calls) > 1
                 /\ \A e \in Callers \ {d} : On(e, p)' => Len(prompt'[p].calls) > 1
      <4>1. prompt'[p].closed => Len(prompt'[p].calls) > 1 BY <2>5, <2>9, <3>3
      <4>2. \A e \in Callers \ {d} : On(e, p)' => Len(prompt'[p].calls) > 1
        BY <2>9, <3>2, <3>4
      <4>3. CASE d = c
        <5>1. At(c, "emitTrue")' => b BY <2>2 DEF At
        <5>2. ~At(c, "close")' BY <2>2 DEF At
        <5> QED BY <2>8, <4>1, <4>2, <4>3, <5>1, <5>2
      <4>4. CASE d # c
        <5>1. /\ At(d, "emitTrue")' => At(d, "emitTrue")
              /\ At(d, "close")' => At(d, "close")
          BY <2>3, <4>4 DEF At
        <5>2. On(d, p) BY <2>12, <3>4, <4>4
        <5> QED BY <2>5, <2>7, <2>8, <3>1, <4>1, <4>2, <5>1, <5>2 DEF PromptOK
      <4> QED BY <4>3, <4>4
    <3>5. (\A i \in DOMAIN prompt[p].signals : Called(p, prompt[p].signals[i]))'
      BY <2>5, <2>7, <3>1 DEF PromptOK
    <3>6. ASSUME Len(prompt'[p].calls) > 1
          PROVE  \/ prompt'[p].closed
                 \/ \E d, e \in Callers : d # e /\ On(d, p)' /\ On(e, p)'
      <4>1. old # <<>> BY <2>4, <2>5, <2>6, <3>6
      <4>2. prompt[p].closed \/ \E d \in Callers : On(d, p) BY <3>1, <4>1 DEF PromptOK
      <4>3. ASSUME NEW d \in Callers, On(d, p) PROVE d # c /\ On(d, p)' /\ On(c, p)'
        BY <2>11, <2>12, <4>3
      <4> QED BY <2>5, <4>2, <4>3
    <3> QED BY <2>5, <2>6, <2>9, <2>11, <3>3, <3>4, <3>5, <3>6 DEF PromptOK
  <2>14. ASSUME NEW z \in Prompts \ {p} PROVE PromptOK(z)'
    <3>1. prompt'[z] = prompt[z] BY <1>0, <2>1
    <3>2. \A d \in Callers : On(d, z) \/ On(d, z)' => call'[d] = call[d]
      BY <2>1, <2>2, <2>3, <2>14 DEF On, Ends
    <3> QED BY <1>0, <1>2, <3>1, <3>2, PromptKept
  <2> QED BY <2>1, <2>13, <2>14 DEF PromptInv
<1>3. ASSUME NEW c \in Callers, EmitCompleted(c), Next PROVE PromptInv'
  <2>0. PICK p : p = call[c].item OBVIOUS
  <2> DEFINE old == prompt[p].signals
             b == Reported(c, p)
             q == [prompt[p] EXCEPT !.signals = Append(old, b)]
             r == [prompt[p] EXCEPT !.unsent = TRUE]
  <2>1. /\ call[c].pc \in {"emit", "emitTrue"} /\ Goto(c, "close")
        /\ prompt' = [prompt EXCEPT ![p] = q] \/ prompt' = [prompt EXCEPT ![p] = r]
        /\ down' = down /\ ~down
    BY <1>3, <2>0 DEF EmitCompleted, Next
  <2>2. p \in Prompts BY <1>0, <2>0, <2>1 DEF Shape
  <2>3. /\ call'[c].pc = "close" /\ call'[c].item = p
        /\ \A d \in Callers \ {c} : call'[d] = call[d]
    BY <1>0, <2>0, <2>1, GotoFacts DEF Same, Pcs
  <2>4. prompt[p] \in PromptType /\ old \in Seq(BOOLEAN) /\ b \in BOOLEAN
        /\ prompt[p].dismissed \in BOOLEAN
    BY <1>0, <2>2 DEF PromptType, Reported
  <2> HIDE DEF b
  <2>5. /\ prompt'[p].dismissed = prompt[p].dismissed /\ prompt'[p].calls = prompt[p].calls
        /\ \/ prompt'[p].signals = Append(old, b) /\ prompt'[p].unsent = prompt[p].unsent
           \/ prompt'[p].signals = old /\ prompt'[p].unsent
        /\ prompt'[p].closed = prompt[p].closed
    BY <1>0, <2>1, <2>2, <2>4 DEF PromptType
  <2>6. /\ Len(old) \in Nat
        /\ DOMAIN old = 1..Len(old) /\ DOMAIN Append(old, b) = 1..(Len(old) + 1)
        /\ \A j \in 1..Len(old) : Append(old, b)[j] = old[j]
        /\ Append(old, b)[Len(old) + 1] = b
        /\ Append(old, b) # <<>>
    BY <2>4, AppendFacts
  <2>7. PromptOK(p) /\ On(c, p) BY <1>0, <2>0, <2>1, <2>2 DEF On, Ends
  <2>8. Called(p, b)
    <3>1. CASE At(c, "emitTrue")
      <4>1. b = TRUE BY <3>1 DEF b, Reported
      <4> QED BY <2>7, <3>1, <4>1 DEF PromptOK
    <3>2. CASE ~At(c, "emitTrue")
      <4>1. b = prompt[p].dismissed BY <2>4, <3>2 DEF b, Reported
      <4> QED BY <2>7, <4>1 DEF PromptOK
    <3> QED BY <3>1, <3>2
  <2>9. \A x : Called(p, x)' <=> Called(p, x) BY <2>5 DEF Called
  <2>10. \A d \in Callers : On(d, p)' <=> On(d, p) BY <2>3, <2>7 DEF On, Ends
  <2>11. ~At(c, "emitTrue")' /\ \A d \in Callers : At(d, "emitTrue")' => At(d, "emitTrue")
    BY <2>3 DEF At
  <2>12. \A i \in 1..(Len(old) + 1) : Called(p, Append(old, b)[i])
    <3>1. \A i \in DOMAIN old : Called(p, old[i]) BY <2>7 DEF PromptOK
    <3>2. SUFFICES ASSUME NEW i \in 1..(Len(old) + 1) PROVE Called(p, Append(old, b)[i])
      OBVIOUS
    <3>3. CASE i = Len(old) + 1 BY <2>6, <2>8, <3>3
    <3>4. CASE i # Len(old) + 1
      <4>1. i \in 1..Len(old) BY <2>6, <3>4
      <4> QED BY <2>6, <3>1, <4>1
    <3> QED BY <3>3, <3>4
  <2>13. PromptOK(p)'
    <3>1. (\A i \in DOMAIN prompt[p].signals : Called(p, prompt[p].signals[i]))'
      <4>1. \A i \in DOMAIN old : Called(p, old[i]) BY <2>7 DEF PromptOK
      <4> QED BY <2>5, <2>6, <2>9, <2>12, <4>1
    <3>2. prompt'[p].signals # <<>> \/ prompt'[p].unsent BY <2>5, <2>6
    <3>3. ASSUME NEW d \in Callers, On(d, p)'
          PROVE  /\ Called(p, prompt'[p].dismissed)
                 /\ At(d, "emitTrue")' => Called(p, TRUE)
                 /\ prompt'[p].closed => Len(prompt'[p].calls) > 1
                 /\ \A e \in Callers \ {d} : On(e, p)' => Len(prompt'[p].calls) > 1
      BY <2>5, <2>7, <2>10, <2>11, <3>3 DEF PromptOK
    <3>4. (\A d \in Callers : On(d, p) => Called(p, prompt[p].dismissed))'
      BY <2>5, <2>9, <3>3
    <3>5. /\ prompt'[p].closed => prompt'[p].calls # <<>>
          /\ prompt'[p].calls # <<>> => prompt'[p].closed \/ \E d \in Callers : On(d, p)'
      BY <2>5, <2>7, <2>10 DEF PromptOK
    <3>6. Len(prompt'[p].calls) > 1 =>
            \/ prompt'[p].closed /\ \E d \in Callers : On(d, p)'
            \/ \E d, e \in Callers : d # e /\ On(d, p)' /\ On(e, p)'
      BY <2>1, <2>5, <2>7, <2>10 DEF PromptOK
    <3> QED BY <2>9, <3>1, <3>2, <3>3, <3>4, <3>5, <3>6 DEF PromptOK
  <2>14. ASSUME NEW z \in Prompts \ {p} PROVE PromptOK(z)'
    <3>1. prompt'[z] = prompt[z] BY <1>0, <2>1
    <3>2. \A d \in Callers : On(d, z) \/ On(d, z)' => call'[d] = call[d]
      BY <2>0, <2>3, <2>14 DEF On
    <3> QED BY <1>0, <1>3, <3>1, <3>2, PromptKept
  <2> QED BY <2>1, <2>13, <2>14 DEF PromptInv
<1>4. ASSUME NEW c \in Callers, ClosePrompt(c), Next PROVE PromptInv'
  <2>0. PICK p : p = call[c].item OBVIOUS
  <2> DEFINE q == [prompt[p] EXCEPT !.closed = TRUE]
  <2>1. /\ call[c].pc = "close" /\ Goto(c, "idle")
        /\ prompt' = [prompt EXCEPT ![p] = q] /\ down' = prompt[p].closed
    BY <1>4, <2>0 DEF ClosePrompt, At
  <2>2. p \in Prompts BY <1>0, <2>0, <2>1 DEF Shape
  <2>3. call'[c].pc = "idle" /\ \A d \in Callers \ {c} : call'[d] = call[d]
    BY <1>0, <2>1, GotoFacts DEF Pcs, Idle
  <2>4. /\ prompt'[p].dismissed = prompt[p].dismissed /\ prompt'[p].calls = prompt[p].calls
        /\ prompt'[p].signals = prompt[p].signals /\ prompt'[p].closed = TRUE
        /\ prompt'[p].unsent = prompt[p].unsent
    BY <1>0, <2>1, <2>2 DEF PromptType
  <2>5. PromptOK(p) /\ On(c, p) /\ At(c, "close") BY <1>0, <2>0, <2>1, <2>2 DEF On, Ends, At
  <2>6. \A x : Called(p, x)' <=> Called(p, x) BY <2>4 DEF Called
  <2>7. ~On(c, p)' /\ \A d \in Callers \ {c} : On(d, p)' <=> On(d, p) BY <2>3 DEF On, Ends
  <2>8. \A d \in Callers \ {c} : \A l : At(d, l)' <=> At(d, l) BY <2>3 DEF At
  <2>9. Called(p, prompt[p].dismissed) BY <2>5 DEF PromptOK
  <2>10. prompt[p].calls # <<>> BY <2>9 DEF Called
  <2>a. Len(prompt'[p].calls) > 1 => down' \/ \E d \in Callers : On(d, p)'
    <3>0. ~down BY <1>0, <1>4
    <3>1. CASE prompt[p].closed BY <2>1, <3>1
    <3>2. CASE ~prompt[p].closed
      <4>1. Len(prompt[p].calls) > 1 => \E d, e \in Callers : d # e /\ On(d, p) /\ On(e, p)
        BY <2>5, <3>0, <3>2 DEF PromptOK
      <4> QED BY <2>4, <2>7, <4>1
    <3> QED BY <3>1, <3>2
  <2>b. \A d \in Callers : On(d, p)' =>
          /\ Called(p, prompt[p].dismissed)'
          /\ At(d, "emitTrue")' => Called(p, TRUE)'
          /\ Len(prompt'[p].calls) > 1
    BY <2>4, <2>5, <2>6, <2>7, <2>8 DEF PromptOK
  <2>11. PromptOK(p)' BY <2>4, <2>5, <2>6, <2>10, <2>a, <2>b DEF PromptOK
  <2>12. ASSUME NEW z \in Prompts \ {p} PROVE PromptOK(z)'
    <3>1. prompt'[z] = prompt[z] BY <1>0, <2>1
    <3>2. \A d \in Callers : On(d, z) \/ On(d, z)' => call'[d] = call[d]
      BY <2>0, <2>3, <2>12 DEF On, Ends
    <3> QED BY <1>0, <1>4, <3>1, <3>2, PromptKept
  <2>13. down' => Len(prompt'[p].calls) > 1 BY <2>1, <2>4, <2>5 DEF PromptOK
  <2> QED BY <2>2, <2>11, <2>12, <2>13 DEF PromptInv
<1>5. ASSUME /\ \A d \in Callers : call[d].pc \in Ends \/ call'[d].pc \in Ends => call'[d] = call[d]
             /\ \A p \in Prompts : /\ prompt'[p].dismissed = prompt[p].dismissed
                                   /\ prompt'[p].calls = prompt[p].calls
                                   /\ prompt'[p].signals = prompt[p].signals
                                   /\ prompt'[p].unsent = prompt[p].unsent
                                   /\ prompt'[p].closed = prompt[p].closed
             /\ down' => MapRace'
             /\ Next
      PROVE  PromptInv'
  <2>1. \A p \in Prompts : PromptOK(p)' BY <1>0, <1>5, PromptKept DEF On
  <2> QED BY <1>5, <2>1 DEF PromptInv
<1> QED BY <1>1, <1>2, <1>3, <1>4, <1>5, PromptSteps

\* prompt.go: Completed reports what some client asked for, the channel of a
\* prompt whose Emit did not fail is closed after a signal, and a second call
\* ends the process, which nothing else of a prompt does, however many clients
\* call Prompt and Dismiss.
THEOREM PromptsReportTheirCalls == Spec => []PromptReport
<1> DEFINE Inv == Types /\ ShapeInv /\ PromptInv
<1>1. Init => PromptInv
  <2>1. ASSUME Init
        PROVE  /\ ~down /\ \A c \in Callers : call[c].pc = "idle"
               /\ \A p \in Prompts : ~prompt[p].closed /\ prompt[p].calls = <<>>
                                    /\ prompt[p].signals = <<>>
    BY <2>1 DEF Init, Idle
  <2>2. \A i \in DOMAIN <<>> : FALSE OBVIOUS
  <2>3. ASSUME Init, NEW p \in Prompts PROVE PromptOK(p)
    <3>1. /\ \A c \in Callers : ~On(c, p)
          /\ ~prompt[p].closed /\ prompt[p].calls = <<>> /\ prompt[p].signals = <<>>
      BY <2>1, <2>3 DEF On, Ends
    <3>2. \A i \in DOMAIN prompt[p].signals : Called(p, prompt[p].signals[i])
      BY <2>2, <3>1
    <3>3. ~(Len(prompt[p].calls) > 1) BY <3>1
    <3> QED BY <3>1, <3>2, <3>3 DEF PromptOK
  <2> QED BY <2>1, <2>3 DEF PromptInv
<1>2. Init => Inv BY <1>1, TypeInit
<1>3. Inv /\ [Next]_vars => Inv' BY TypeStep, PromptStep
<1>4. ASSUME PromptInv PROVE PromptReport
  <2>1. ASSUME NEW p \in Prompts
        PROVE  /\ \A i \in DOMAIN prompt[p].signals :
                    \E j \in DOMAIN prompt[p].calls : prompt[p].calls[j] = prompt[p].signals[i]
               /\ prompt[p].closed => prompt[p].signals # <<>> \/ prompt[p].unsent
               /\ (\A c \in Callers : call[c].item # p) =>
                    /\ prompt[p].calls # <<>> => prompt[p].closed
                    /\ Len(prompt[p].calls) > 1 => down
    <3>1. PromptOK(p) BY <1>4 DEF PromptInv
    <3>2. \A c \in Callers : On(c, p) => call[c].item = p BY DEF On
    <3> QED BY <3>1, <3>2 DEF PromptOK, Called
  <2> QED BY <1>4, <2>1 DEF PromptInv, PromptReport
<1> QED BY <1>2, <1>3, <1>4, PTL DEF Spec
=============================================================================
