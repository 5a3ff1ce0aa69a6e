--------------------------- MODULE MemSinkProofs ---------------------------
(***************************************************************************)
(* The sink, for every value of its constants: its types, what an operation *)
(* does to the arena, then its totals, lists and error flags, by the         *)
(* inductive invariant IInv of MemSink, and at last the item counts in the   *)
(* reader's terms.                                                          *)
(***************************************************************************)
EXTENDS MemSink, Lemmas

(* What get_id returns, and what it leaves in the table.                     *)
LEMMA GetId ==
  ASSUME NEW dev \in Devs, devices \in Seq(Devs)
  PROVE  /\ DevTable(dev) \in Seq(Devs)
         /\ Len(DevTable(dev)) \in Nat /\ Len(devices) <= Len(DevTable(dev))
         /\ DevId(dev) \in 1..Len(DevTable(dev))
         /\ \A i \in 1..Len(devices) : DevTable(dev)[i] = devices[i]
<1>1. CASE DevKnown(dev)
  <2>1. (CHOOSE i \in 1..Len(devices) : devices[i] = dev) \in 1..Len(devices)
    BY <1>1, Zenon DEF DevKnown
  <2> QED BY <1>1, <2>1 DEF DevTable, DevId
<1>2. CASE ~DevKnown(dev)
  BY <1>2 DEF DevTable, DevId
<1> QED BY <1>1, <1>2

(* Saturating and wrapping results have their width.                         *)
LEMMA Widths ==
  /\ \A n \in Nat : Sat(n) \in 0..MaxU64 /\ SatItems(n) \in 0..MaxU32
  /\ \A n \in Nat : WrapItems(n) \in 0..MaxU32
  /\ \A n \in 0..MaxU32 : SatItems(n) = n /\ WrapItems(n) = n
BY SinkAssumption DEF Sat, SatItems, WrapItems

(* The entries and handles the actions create have their types.              *)
LEMMA NewNodeType ==
  ASSUME NEW e \in {"Dir"} \cup FileTypes \cup Specials,
         NEW b \in 0..MaxU64, NEW p \in Nat, NEW v \in Nat
  PROVE  Node(e, b, p, v) \in NodeType
BY SinkAssumption DEF Node, NodeType

LEMMA NewHandleType == ASSUME NEW i \in Nat PROVE Handle(i) \in HandleType
BY SinkAssumption DEF Handle, HandleType

(* What the type invariant says of the open directory.                       *)
LEMMA TopType ==
  ASSUME TypeOK, Depth > 0
  PROVE  /\ Depth \in 1..Len(open)
         /\ Top \in HandleType
         /\ Top.id \in Ids /\ Ids = 1..Len(nodes) /\ Len(nodes) \in Nat
         /\ nodes[Top.id] \in NodeType
         /\ Len(told) = Len(nodes)
<1>1. Depth \in 1..Len(open) /\ Top \in HandleType
  BY LenProperties, ElementOfSeq DEF TypeOK, Depth, Top
<1>2. Top.id \in Ids
  BY <1>1 DEF TypeOK, Depth, Top
<1>3. Len(nodes) \in Nat /\ nodes[Top.id] \in NodeType
  BY <1>2, LenProperties, ElementOfSeq DEF TypeOK, Ids
<1> QED
  BY <1>1, <1>2, <1>3 DEF TypeOK, Ids

(* Replacing the handle on top keeps the stack's type.                       *)
LEMMA TopReplaced ==
  ASSUME TypeOK, Depth > 0, NEW h \in HandleType
  PROVE  LET os == [open EXCEPT ![Depth] = h]
         IN  /\ os \in Seq(HandleType) /\ Len(os) = Depth
             /\ \A l \in 1..Depth : os[l] = IF l = Depth THEN h ELSE open[l]
BY TopType, ExceptSeq DEF TypeOK, Depth

(* Linking a new entry changes one list.                                     *)
LEMMA Linked ==
  ASSUME TypeOK, Depth > 0, NEW c \in Nat
  PROVE  LET ns == LinkChild(nodes, Top.id, c)
             n == [nodes[Top.id] EXCEPT !.kids = Append(@, c)]
         IN  /\ n \in NodeType
             /\ ns \in Seq(NodeType) /\ Len(ns) = Len(nodes)
             /\ \A i \in Ids : ns[i] = IF i = Top.id THEN n ELSE nodes[i]
<1> DEFINE n == [nodes[Top.id] EXCEPT !.kids = Append(@, c)]
<1>1. nodes[Top.id].kids \in Seq(Nat)
  BY TopType DEF NodeType
<1>2. Append(nodes[Top.id].kids, c) \in Seq(Nat)
  BY <1>1, AppendProperties
<1>3. n \in NodeType
  BY <1>2, TopType DEF NodeType
<1>4. LinkChild(nodes, Top.id, c) = [nodes EXCEPT ![Top.id] = n]
  BY DEF LinkChild
<1> QED
  BY <1>3, <1>4, TopType, ExceptSeq DEF TypeOK

----------------------------------------------------------------------------
(* What the three add_* operations have in common, index by index: an entry  *)
(* of type e, b of whose blocks count, goes at the end of the arena and of   *)
(* the open directory's list, and the open handle counts it.                 *)
TopWith(e) ==
  [nodes[Top.id] EXCEPT !.kids = Append(@, NewId), !.suberr = IF e = "Err" THEN TRUE ELSE @]

EntryAdded(e, b, new) ==
  /\ Len(nodes') = NewId /\ nodes'[NewId] = new
  /\ \A i \in Ids : nodes'[i] = IF i = Top.id THEN TopWith(e) ELSE nodes[i]
  /\ Len(told') = NewId /\ told'[NewId] = Told(told, Len(told)) + b
  /\ \A i \in Ids : told'[i] = told[i]
  /\ \A l \in 1..Depth :
       open'[l] = IF l = Depth THEN Counting(Top, e, b) ELSE open[l]
  /\ Len(open') = IF e = "Dir" THEN Depth + 1 ELSE Depth
  /\ e = "Dir" => open'[Depth + 1] = Handle(NewId)

(* The type invariant needs no more than the types of what changed.          *)
LEMMA TypeFromParts ==
  ASSUME nodes' \in Seq(NodeType), Len(nodes') <= MaxNodes,
         devices' \in Seq(Devs), open' \in Seq(HandleType),
         \A l \in 1..Len(open') : open'[l].id \in 1..Len(nodes'),
         told' \in Seq(Nat), Len(told') = Len(nodes')
  PROVE  TypeOK'
BY DEF TypeOK, Depth, Ids

(* The running total grows by what the new entry counts.                     *)
LEMMA ToldGrows ==
  ASSUME TypeOK, Depth > 0, NEW b \in Nat
  PROVE  LET ts == Append(told, Told(told, Len(told)) + b)
         IN  /\ ts \in Seq(Nat) /\ Len(ts) = NewId
             /\ ts[NewId] = Told(told, Len(told)) + b
             /\ \A i \in Ids : ts[i] = told[i]
<1>1. Told(told, Len(told)) \in Nat
  BY TopType, ElementOfSeq DEF TypeOK, Told
<1>2. Told(told, Len(told)) + b \in Nat
  BY <1>1
<1> QED
  BY <1>2, TopType, AppendProperties DEF TypeOK, NewId

LEMMA ParentFieldType ==
  ASSUME TypeOK, Depth > 0, NEW e PROVE ParentField(e, Top.id) \in Nat
BY TopType DEF ParentField, NoEntry

LEMMA CountingType ==
  ASSUME TypeOK, Depth > 0, NEW e, NEW b \in Nat
  PROVE  Counting(Top, e, b) \in HandleType /\ Counting(Top, e, b).id = Top.id
<1>1. Top.sub_items + 1 \in Nat /\ Top.sub_blocks + b \in Nat
  BY TopType, SinkAssumption DEF HandleType
<1>2. WrapItems(Top.sub_items + 1) \in 0..MaxU32 /\ Sat(Top.sub_blocks + b) \in 0..MaxU64
  BY <1>1, Widths
<1> QED
  BY <1>2, TopType DEF Counting, HandleType

(* Pushing a handle leaves the handles below alone.                          *)
LEMMA HandlePushed ==
  ASSUME NEW os \in Seq(HandleType), NEW h \in HandleType
  PROVE  /\ Append(os, h) \in Seq(HandleType)
         /\ Len(Append(os, h)) = Len(os) + 1
         /\ \A l \in 1..Len(os) : Append(os, h)[l] = os[l]
         /\ Append(os, h)[Len(os) + 1] = h
BY AppendProperties

LEMMA AddEffect ==
  ASSUME TypeOK, CanAdd, NEW e, NEW b \in Nat, NEW new \in NodeType,
         NEW marked \in Seq(NodeType), Len(marked) = Len(nodes),
         \A i \in Ids : marked[i] = IF i = Top.id THEN TopWith(e) ELSE nodes[i],
         nodes' = Append(marked, new), devices' \in Seq(Devs),
         told' = Append(told, Told(told, Len(told)) + b),
         NEW os, os = [open EXCEPT ![Depth] = Counting(Top, e, b)],
         open' = IF e = "Dir" THEN Append(os, Handle(NewId)) ELSE os
  PROVE  EntryAdded(e, b, new) /\ TypeOK'
<1>0. Depth > 0 /\ NewId <= MaxNodes /\ Depth \in Nat /\ NewId \in Nat
  BY TopType, LenProperties DEF CanAdd, NewId, TypeOK, Depth
<1>1. /\ Len(nodes') = NewId /\ nodes'[NewId] = new
      /\ \A i \in Ids : nodes'[i] = IF i = Top.id THEN TopWith(e) ELSE nodes[i]
      /\ nodes' \in Seq(NodeType)
  BY <1>0, TopType, AppendProperties DEF NewId
<1>2. /\ told' \in Seq(Nat) /\ Len(told') = NewId
      /\ told'[NewId] = Told(told, Len(told)) + b
      /\ \A i \in Ids : told'[i] = told[i]
  BY <1>0, ToldGrows
<1>3. /\ os \in Seq(HandleType) /\ Len(os) = Depth
      /\ \A l \in 1..Depth :
           os[l] = IF l = Depth THEN Counting(Top, e, b) ELSE open[l]
  BY <1>0, CountingType, TopReplaced
<1>4. Handle(NewId) \in HandleType /\ Handle(NewId).id = NewId
  BY <1>0, NewHandleType DEF Handle
<1>5. /\ open' \in Seq(HandleType)
      /\ Len(open') = IF e = "Dir" THEN Depth + 1 ELSE Depth
      /\ \A l \in 1..Depth :
           open'[l] = IF l = Depth THEN Counting(Top, e, b) ELSE open[l]
      /\ e = "Dir" => open'[Depth + 1] = Handle(NewId)
  <2>1. CASE e = "Dir"
    <3>1. open' = Append(os, Handle(NewId))
      BY <2>1
    <3>2. /\ open' \in Seq(HandleType) /\ Len(open') = Depth + 1
          /\ \A l \in 1..Depth : open'[l] = os[l]
          /\ open'[Depth + 1] = Handle(NewId)
      BY <1>3, <1>4, <3>1, HandlePushed
    <3> QED
      BY <1>3, <2>1, <3>2
  <2>2. CASE e # "Dir"
    BY <1>3, <2>2
  <2> QED
    BY <2>1, <2>2
<1>6. \A l \in 1..Len(open') : open'[l].id \in 1..Len(nodes')
  <2>1. Counting(Top, e, b).id \in Ids
    BY <1>0, CountingType, TopType
  <2>2. \A l \in 1..Depth : open[l].id \in Ids
    BY DEF TypeOK
  <2>3. \A i \in Ids \cup {NewId} : i \in 1..Len(nodes')
    BY <1>0, <1>1, TopType DEF NewId
  <2>4. \A l \in 1..Len(open') : l \in 1..Depth \/ (e = "Dir" /\ l = Depth + 1)
    BY <1>0, <1>5
  <2> QED
    BY <1>4, <1>5, <2>1, <2>2, <2>3, <2>4
<1>7. TypeOK'
  BY <1>0, <1>1, <1>2, <1>5, <1>6, TypeFromParts
<1> QED
  BY <1>1, <1>2, <1>5, <1>7 DEF EntryAdded

LEMMA AddStatEffect ==
  ASSUME TypeOK, NEW e \in FileTypes, NEW b \in Blocks, AddStat(e, b)
  PROVE  /\ EntryAdded(e, Counted(e, b), Node(e, b, ParentField(e, Top.id), 0))
         /\ TypeOK'
<1> DEFINE c == Counted(e, b)
           new == Node(e, b, ParentField(e, Top.id), 0)
           linked == LinkChild(nodes, Top.id, NewId)
<1>1. CanAdd /\ Depth > 0
  BY DEF AddStat, CanAdd
<1>2. NewId \in Nat /\ c \in Nat /\ b \in 0..MaxU64 /\ e # "Err" /\ e # "Dir"
  BY <1>1, TopType, SinkAssumption DEF NewId, Counted, FileTypes
<1>3. new \in NodeType
  BY <1>1, <1>2, ParentFieldType, NewNodeType
<1>4. TopWith(e) = [nodes[Top.id] EXCEPT !.kids = Append(@, NewId)]
  BY <1>1, <1>2, TopType DEF TopWith, NodeType
<1>5. /\ linked \in Seq(NodeType) /\ Len(linked) = Len(nodes)
      /\ \A i \in Ids : linked[i] = IF i = Top.id THEN TopWith(e) ELSE nodes[i]
  BY <1>1, <1>2, <1>4, Linked
<1>6. /\ nodes' = Append(linked, new) /\ devices' \in Seq(Devs)
      /\ told' = Append(told, Told(told, Len(told)) + c)
      /\ open' = [open EXCEPT ![Depth] = Counting(Top, e, c)]
  BY DEF AddStat, TypeOK, Top
<1> HIDE DEF c, new, linked
<1>7. EntryAdded(e, c, new) /\ TypeOK'
  BY <1>1, <1>2, <1>3, <1>5, <1>6, AddEffect
<1> QED
  BY <1>7 DEF c, new

LEMMA AddSpecialEffect ==
  ASSUME TypeOK, NEW e \in Specials, AddSpecial(e)
  PROVE  /\ EntryAdded(e, 0, Node(e, 0, ParentField(e, Top.id), 0))
         /\ TypeOK'
<1> DEFINE new == Node(e, 0, ParentField(e, Top.id), 0)
           linked == LinkChild(nodes, Top.id, NewId)
           marked == [linked EXCEPT ![Top.id].suberr =
                        IF e = "Err" THEN TRUE ELSE @]
<1>1. CanAdd /\ Depth > 0
  BY DEF AddSpecial, CanAdd
<1>2. NewId \in Nat /\ e # "Dir" /\ 0 \in 0..MaxU64
  BY <1>1, TopType, SinkAssumption DEF NewId, Specials
<1>3. new \in NodeType
  BY <1>1, <1>2, ParentFieldType, NewNodeType
<1>4. /\ marked \in Seq(NodeType) /\ Len(marked) = Len(nodes)
      /\ \A i \in Ids : marked[i] = IF i = Top.id THEN TopWith(e) ELSE nodes[i]
  <2> DEFINE n == [nodes[Top.id] EXCEPT !.kids = Append(@, NewId)]
  <2>1. /\ n \in NodeType /\ linked \in Seq(NodeType) /\ Len(linked) = Len(nodes)
        /\ \A i \in Ids : linked[i] = IF i = Top.id THEN n ELSE nodes[i]
    BY <1>1, <1>2, Linked
  <2>2. TopWith(e) = [n EXCEPT !.suberr = IF e = "Err" THEN TRUE ELSE @]
    BY <1>1, TopType DEF TopWith, NodeType
  <2>3. TopWith(e) \in NodeType
    BY <2>1, <2>2 DEF NodeType
  <2> HIDE DEF n, linked
  <2>4. marked = [linked EXCEPT ![Top.id] = TopWith(e)]
    <3>1. linked[Top.id] = n
      BY <1>1, <2>1, TopType
    <3>2. marked = [linked EXCEPT ![Top.id] =
                      [linked[Top.id] EXCEPT !.suberr =
                         IF e = "Err" THEN TRUE ELSE @]]
      OBVIOUS
    <3> QED
      BY <2>2, <3>1, <3>2
  <2> HIDE DEF marked
  <2> QED
    BY <1>1, <2>1, <2>3, <2>4, TopType, ExceptSeq
<1>5. /\ nodes' = Append(marked, new) /\ devices' \in Seq(Devs)
      /\ told' = Append(told, Told(told, Len(told)) + 0)
      /\ open' = [open EXCEPT ![Depth] = Counting(Top, e, 0)]
  BY DEF AddSpecial, TypeOK, Top
<1> HIDE DEF new, marked
<1>6. EntryAdded(e, 0, new) /\ TypeOK'
  BY <1>1, <1>2, <1>3, <1>4, <1>5, AddEffect
<1> QED
  BY <1>6 DEF new

LEMMA AddDirEffect ==
  ASSUME TypeOK, NEW b \in Blocks, NEW v \in Devs, AddDir(b, v)
  PROVE  /\ EntryAdded("Dir", b, Node("Dir", b, Top.id, DevId(v)))
         /\ TypeOK'
<1> DEFINE new == Node("Dir", b, Top.id, DevId(v))
           linked == LinkChild(nodes, Top.id, NewId)
<1>1. CanAdd /\ Depth > 0
  BY DEF AddDir, CanAdd
<1>2. NewId \in Nat /\ b \in Nat /\ b \in 0..MaxU64 /\ Top.id \in Nat
  BY <1>1, TopType, SinkAssumption DEF NewId
<1>3. DevTable(v) \in Seq(Devs) /\ DevId(v) \in Nat
  BY GetId DEF TypeOK
<1>4. new \in NodeType
  BY <1>2, <1>3, NewNodeType
<1>5. TopWith("Dir") = [nodes[Top.id] EXCEPT !.kids = Append(@, NewId)]
  BY <1>1, TopType DEF TopWith, NodeType
<1>6. /\ linked \in Seq(NodeType) /\ Len(linked) = Len(nodes)
      /\ \A i \in Ids :
           linked[i] = IF i = Top.id THEN TopWith("Dir") ELSE nodes[i]
  BY <1>1, <1>2, <1>5, Linked
<1>7. /\ nodes' = Append(linked, new) /\ devices' \in Seq(Devs)
      /\ told' = Append(told, Told(told, Len(told)) + b)
      /\ open' = Append([open EXCEPT ![Depth] = Counting(Top, "Dir", b)],
                        Handle(NewId))
  BY <1>3 DEF AddDir, Top, ParentField
<1> HIDE DEF new, linked
<1>8. EntryAdded("Dir", b, new) /\ TypeOK'
  BY <1>1, <1>2, <1>4, <1>6, <1>7, AddEffect
<1> QED
  BY <1>8 DEF new

----------------------------------------------------------------------------
(* The other four actions.                                                   *)
LEMMA CreateRootEffect ==
  ASSUME TypeOK, NEW b \in Blocks, NEW v \in Devs, CreateRoot(b, v)
  PROVE  /\ Len(nodes') = 1 /\ nodes'[1] = Node("Dir", b, NoEntry, DevId(v))
         /\ Len(open') = 1 /\ open'[1] = Handle(1)
         /\ Len(told') = 1 /\ told'[1] = b
         /\ TypeOK'
<1> DEFINE new == Node("Dir", b, NoEntry, DevId(v))
<1>1. new \in NodeType /\ b \in Nat /\ DevTable(v) \in Seq(Devs)
  BY NewNodeType, GetId, SinkAssumption DEF TypeOK, NoEntry
<1>2. Handle(1) \in HandleType /\ Handle(1).id = 1
  BY NewHandleType DEF Handle
<1>3. nodes' = <<new>> /\ open' = <<Handle(1)>> /\ told' = <<b>>
  BY DEF CreateRoot
<1> HIDE DEF new
<1>4. Len(nodes') <= MaxNodes
  BY <1>3 DEF CreateRoot, NewId
<1>5. /\ nodes' \in Seq(NodeType) /\ Len(nodes') = 1 /\ nodes'[1] = new
      /\ open' \in Seq(HandleType) /\ Len(open') = 1 /\ open'[1] = Handle(1)
      /\ told' \in Seq(Nat) /\ Len(told') = 1 /\ told'[1] = b
  BY <1>1, <1>2, <1>3
<1>6. TypeOK'
  BY <1>1, <1>2, <1>4, <1>5, TypeFromParts DEF CreateRoot
<1> QED
  BY <1>5, <1>6 DEF new

LEMMA SetReadErrorEffect ==
  ASSUME TypeOK, SetReadError
  PROVE  LET n == [nodes[Top.id] EXCEPT !.err = TRUE]
         IN  /\ Len(nodes') = Len(nodes)
             /\ \A i \in Ids : nodes'[i] = IF i = Top.id THEN n ELSE nodes[i]
             /\ n \in NodeType /\ TypeOK'
<1> DEFINE n == [nodes[Top.id] EXCEPT !.err = TRUE]
<1>1. n \in NodeType /\ Top.id \in 1..Len(nodes)
  BY TopType DEF SetReadError, NodeType
<1>2. nodes' = [nodes EXCEPT ![Top.id] = n]
  BY DEF SetReadError
<1> HIDE DEF n
<1>3. /\ nodes' \in Seq(NodeType) /\ Len(nodes') = Len(nodes)
      /\ \A i \in Ids : nodes'[i] = IF i = Top.id THEN n ELSE nodes[i]
  BY <1>1, <1>2, ExceptSeq DEF TypeOK, Ids
<1>4. TypeOK'
  BY <1>3 DEF TypeOK, SetReadError, Depth, Ids
<1> QED
  BY <1>1, <1>3, <1>4 DEF n

LEMMA FlushEffect ==
  ASSUME TypeOK, Depth > 0
  PROVE  LET n == Flushed(nodes[Top.id], Top)
         IN  /\ n \in NodeType
             /\ Flush(Top) \in Seq(NodeType) /\ Len(Flush(Top)) = Len(nodes)
             /\ \A i \in Ids : Flush(Top)[i] = IF i = Top.id THEN n ELSE nodes[i]
<1> DEFINE old == nodes[Top.id]
           n == Flushed(old, Top)
<1>1. old \in NodeType /\ Top \in HandleType
  BY TopType
<1>2. /\ old.items + Top.sub_items \in Nat
      /\ old.blocks + Top.sub_blocks \in Nat
  BY <1>1, SinkAssumption DEF NodeType, HandleType
<1>3. /\ SatItems(old.items + Top.sub_items) \in 0..MaxU32
      /\ Sat(old.blocks + Top.sub_blocks) \in 0..MaxU64
  BY <1>2, Widths
<1>4. n \in NodeType
  BY <1>1, <1>3 DEF NodeType, Flushed
<1>5. Flush(Top) = [nodes EXCEPT ![Top.id] = n]
  BY DEF Flush
<1> HIDE DEF n
<1>6. nodes \in Seq(NodeType) /\ Top.id \in 1..Len(nodes) /\ Ids = 1..Len(nodes)
  BY TopType DEF TypeOK
<1>7. /\ Flush(Top) \in Seq(NodeType) /\ Len(Flush(Top)) = Len(nodes)
      /\ \A i \in Ids : Flush(Top)[i] = IF i = Top.id THEN n ELSE nodes[i]
  BY <1>4, <1>5, <1>6, ExceptSeq
<1> QED
  BY <1>4, <1>7 DEF n

LEMMA FinalizeRootEffect ==
  ASSUME TypeOK, FinalizeRoot
  PROVE  /\ Len(nodes') = Len(nodes) /\ Len(open') = 0
         /\ \A i \in Ids : nodes'[i] =
              IF i = Top.id THEN Flushed(nodes[Top.id], Top) ELSE nodes[i]
         /\ TypeOK'
<1>1. /\ nodes' \in Seq(NodeType) /\ Len(nodes') = Len(nodes)
      /\ \A i \in Ids : nodes'[i] =
           IF i = Top.id THEN Flushed(nodes[Top.id], Top) ELSE nodes[i]
  BY FlushEffect DEF FinalizeRoot
<1>2. open' \in Seq(HandleType) /\ Len(open') = 0
  BY DEF FinalizeRoot
<1>3. TypeOK'
  BY <1>1, <1>2, TypeFromParts DEF FinalizeRoot, TypeOK
<1> QED
  BY <1>1, <1>2, <1>3

(* In terms of the directory t finalized and the one u that contains it.     *)
LEMMA FinalizeSubEffect ==
  ASSUME TypeOK, FinalizeSub
  PROVE  LET p == open[Depth - 1]
             f == Flush(Top)
         IN  /\ p \in HandleType /\ p.id \in Ids
             /\ Depth - 1 \in 1..Depth /\ Received(p, Top) \in HandleType
             /\ Len(nodes') = Len(nodes)
             /\ \A i \in Ids : nodes'[i] =
                  IF i = p.id THEN [f[i] EXCEPT !.suberr =
                                      IF Top.suberr THEN TRUE ELSE @]
                              ELSE f[i]
             /\ Len(open') = Depth - 1
             /\ \A l \in 1..(Depth - 1) : open'[l] =
                  IF l = Depth - 1 THEN Received(p, Top) ELSE open[l]
             /\ TypeOK'
<1> DEFINE p == open[Depth - 1]
           f == Flush(Top)
           n == [f[p.id] EXCEPT !.suberr = IF Top.suberr THEN TRUE ELSE @]
           os == SubSeq(open, 1, Depth - 1)
<1>0. Depth > 0 /\ Depth \in Nat /\ Depth - 1 \in 1..Depth /\ Depth - 1 \in Nat
  BY LenProperties DEF FinalizeSub, TypeOK, Depth
<1>1. p \in HandleType /\ p.id \in Ids
  BY <1>0, ElementOfSeq DEF TypeOK, Depth
<1>2. Top \in HandleType /\ Ids = 1..Len(nodes) /\ Len(nodes) \in Nat
  BY <1>0, TopType
<1>3. Received(p, Top) \in HandleType
  <2>1. /\ p.sub_blocks + Top.sub_blocks \in Nat
        /\ p.sub_items + Top.sub_items \in Nat
    BY <1>1, <1>2, SinkAssumption DEF HandleType
  <2>2. /\ Sat(p.sub_blocks + Top.sub_blocks) \in 0..MaxU64
        /\ SatItems(p.sub_items + Top.sub_items) \in 0..MaxU32
    BY <2>1, Widths
  <2> QED
    BY <1>1, <1>2, <2>2 DEF HandleType, Received
<1>4. f \in Seq(NodeType) /\ Len(f) = Len(nodes)
  BY <1>0, FlushEffect
<1> HIDE DEF f, p
<1>5. n \in NodeType
  <2>1. f[p.id] \in NodeType
    BY <1>1, <1>2, <1>4, ElementOfSeq
  <2> QED
    BY <1>2, <2>1 DEF NodeType, HandleType
<1>6. nodes' = [f EXCEPT ![p.id] = n]
  BY DEF FinalizeSub, PassedUp, f, p
<1> HIDE DEF n
<1>7. /\ nodes' \in Seq(NodeType) /\ Len(nodes') = Len(nodes)
      /\ \A i \in Ids : nodes'[i] = IF i = p.id THEN n ELSE f[i]
  BY <1>1, <1>2, <1>4, <1>5, <1>6, ExceptSeq
<1>8. /\ os \in Seq(HandleType) /\ Len(os) = Depth - 1
      /\ \A l \in 1..(Depth - 1) : os[l] = open[l]
  <2>1. \A l \in 1..(Depth - 1) : open[l] \in HandleType
    BY <1>0, ElementOfSeq DEF TypeOK, Depth
  <2> QED
    BY <1>0, <2>1, SubSeqProperties
<1>9. open' = [os EXCEPT ![Depth - 1] = Received(p, Top)]
  <2>1. os[Depth - 1] = p
    BY <1>0, <1>8 DEF p
  <2> QED
    BY <2>1 DEF FinalizeSub, PassedUp
<1> HIDE DEF os
<1>10. /\ open' \in Seq(HandleType) /\ Len(open') = Depth - 1
       /\ \A l \in 1..(Depth - 1) :
            open'[l] = IF l = Depth - 1 THEN Received(p, Top) ELSE open[l]
  <2>1. Depth - 1 \in 1..Len(os)
    BY <1>0, <1>8
  <2> QED
    BY <1>3, <1>8, <1>9, <2>1, ExceptSeq
<1>11. TypeOK'
  <2>1. Received(p, Top).id = p.id
    BY <1>1 DEF Received, HandleType
  <2>2. \A l \in 1..Depth : open[l].id \in Ids
    BY DEF TypeOK
  <2>3. \A l \in 1..Len(open') : open'[l].id \in 1..Len(nodes')
    BY <1>0, <1>1, <1>2, <1>7, <1>10, <2>1, <2>2
  <2> QED
    BY <1>7, <1>10, <2>3, TypeFromParts DEF FinalizeSub, TypeOK
<1> QED
  BY <1>0, <1>1, <1>3, <1>7, <1>10, <1>11 DEF f, p, n

----------------------------------------------------------------------------
(* A step of the sink keeps its types.                                       *)
LEMMA TypeStep == TypeOK /\ [Next]_vars => TypeOK'
<1> SUFFICES ASSUME TypeOK, [Next]_vars PROVE TypeOK'
  OBVIOUS
<1>0. CASE UNCHANGED vars
  BY <1>0 DEF TypeOK, vars, Depth, Ids
<1>1. ASSUME NEW b \in Blocks, NEW v \in Devs, CreateRoot(b, v) PROVE TypeOK'
  BY <1>1, CreateRootEffect
<1>2. CASE SetReadError
  BY <1>2, SetReadErrorEffect
<1>3. ASSUME NEW sp \in Specials, AddSpecial(sp) PROVE TypeOK'
  BY <1>3, AddSpecialEffect
<1>4. ASSUME NEW t \in FileTypes, NEW b \in Blocks, AddStat(t, b) PROVE TypeOK'
  BY <1>4, AddStatEffect
<1>5. ASSUME NEW b \in Blocks, NEW v \in Devs, AddDir(b, v) PROVE TypeOK'
  BY <1>5, AddDirEffect
<1>6. CASE FinalizeSub
  BY <1>6, FinalizeSubEffect
<1>7. CASE FinalizeRoot
  BY <1>7, FinalizeRootEffect
<1> QED
  BY <1>0, <1>1, <1>2, <1>3, <1>4, <1>5, <1>6, <1>7 DEF Next

(* The sink's state always has its types: no total, count or id leaves the   *)
(* width its field has in the code.                                          *)
THEOREM TypeCorrect == Spec => []TypeOK
<1>1. Init => TypeOK
  BY SinkAssumption DEF Init, TypeOK, Depth
<1> QED
  BY <1>1, TypeStep, PTL DEF Spec

----------------------------------------------------------------------------
(* Only the innermost open directory, and with finalize the one above it, are   *)
(* ever written.                                                             *)
LEMMA OthersStay ==
  ASSUME TypeOK, Next, NEW d \in Ids, d \notin OpenIds
  PROVE  nodes'[d] = nodes[d]
<1>0. \A l \in 1..Depth : open[l].id # d
  BY DEF OpenIds
<1>1. Depth > 0 => Top.id # d /\ Depth \in 1..Depth
  BY <1>0, TopType DEF Depth, Top
<1>2. ASSUME NEW b \in Blocks, NEW v \in Devs, CreateRoot(b, v)
      PROVE  nodes'[d] = nodes[d]
  <2>1. Ids = {}
    BY <1>2 DEF CreateRoot, Ids
  <2> QED
    BY <2>1
<1>3. CASE SetReadError
  BY <1>1, <1>3, SetReadErrorEffect DEF SetReadError
<1>4. ASSUME NEW sp \in Specials, AddSpecial(sp) PROVE nodes'[d] = nodes[d]
  BY <1>1, <1>4, AddSpecialEffect DEF EntryAdded, AddSpecial, CanAdd
<1>5. ASSUME NEW t \in FileTypes, NEW b \in Blocks, AddStat(t, b)
      PROVE  nodes'[d] = nodes[d]
  BY <1>1, <1>5, AddStatEffect DEF EntryAdded, AddStat, CanAdd
<1>6. ASSUME NEW b \in Blocks, NEW v \in Devs, AddDir(b, v)
      PROVE  nodes'[d] = nodes[d]
  BY <1>1, <1>6, AddDirEffect DEF EntryAdded, AddDir, CanAdd
<1>7. CASE FinalizeSub
  <2>1. Depth > 0 /\ Depth - 1 \in 1..Depth
    BY <1>7, FinalizeSubEffect, LenProperties DEF FinalizeSub, TypeOK, Depth
  <2>2. Flush(Top)[d] = nodes[d]
    BY <1>1, <2>1, FlushEffect
  <2> QED
    BY <1>0, <1>7, <2>1, <2>2, FinalizeSubEffect
<1>8. CASE FinalizeRoot
  BY <1>1, <1>8, FinalizeRootEffect DEF FinalizeRoot
<1>9. CASE UNCHANGED vars
  BY <1>9 DEF vars
<1> QED
  BY <1>2, <1>3, <1>4, <1>5, <1>6, <1>7, <1>8, <1>9 DEF Next

(* A finalized directory never changes again.                                *)
THEOREM ClosedStay == Spec => ClosedNeverChange
<1>1. TypeOK /\ [Next]_vars => [\A d \in Closed : nodes'[d] = nodes[d]]_vars
  BY OthersStay DEF Closed
<1> QED
  BY <1>1, TypeCorrect, PTL DEF Spec, ClosedNeverChange

----------------------------------------------------------------------------
(* What an entry is, where its directory is and which device it is on stay   *)
(* as they were when the entry was made.                                     *)
SameEntry(i) ==
  /\ nodes'[i].etype = nodes[i].etype
  /\ nodes'[i].dev = nodes[i].dev
  /\ nodes'[i].parent = nodes[i].parent

(* The step puts one entry in the arena, or none.                            *)
OneMore(e, v) ==
  /\ Ids' = Ids \cup {NewId} /\ NewId \notin Ids
  /\ nodes'[NewId].etype = e /\ nodes'[NewId].dev = v
  /\ nodes'[NewId].parent = ParentField(e, Top.id) /\ nodes'[NewId].kids = <<>>
  /\ nodes'[NewId].items = 0 /\ nodes'[NewId].err = FALSE
  /\ \A i \in Ids : /\ SameEntry(i)
                    /\ nodes'[i].kids = IF i = Top.id THEN Append(nodes[i].kids, NewId)
                                                      ELSE nodes[i].kids

NoneMore ==
  /\ Ids' = Ids
  /\ \A i \in Ids : SameEntry(i) /\ nodes'[i].kids = nodes[i].kids

LEMMA EntryIsOneMore ==
  ASSUME TypeOK, Depth > 0, NEW e, NEW b, NEW w, NEW v,
         EntryAdded(e, w, Node(e, b, ParentField(e, Top.id), v))
  PROVE  OneMore(e, v)
<1>1. /\ Ids = 1..Len(nodes) /\ Len(nodes) \in Nat /\ Top.id \in Ids
      /\ nodes[Top.id] \in NodeType
  BY TopType
<1>2. /\ TopWith(e).etype = nodes[Top.id].etype
      /\ TopWith(e).dev = nodes[Top.id].dev
      /\ TopWith(e).parent = nodes[Top.id].parent
      /\ TopWith(e).kids = Append(nodes[Top.id].kids, NewId)
  BY <1>1 DEF TopWith, NodeType
<1>3. Ids' = Ids \cup {NewId} /\ NewId \notin Ids
  BY <1>1 DEF EntryAdded, Ids, NewId
<1>4. nodes'[NewId] = Node(e, b, ParentField(e, Top.id), v)
  BY DEF EntryAdded
<1>5. \A i \in Ids : nodes'[i] = IF i = Top.id THEN TopWith(e) ELSE nodes[i]
  BY DEF EntryAdded
<1>6. /\ nodes'[NewId].etype = e /\ nodes'[NewId].dev = v
      /\ nodes'[NewId].parent = ParentField(e, Top.id) /\ nodes'[NewId].kids = <<>>
      /\ nodes'[NewId].items = 0 /\ nodes'[NewId].err = FALSE
  BY <1>4 DEF Node
<1> QED
  BY <1>2, <1>3, <1>5, <1>6 DEF OneMore, SameEntry

LEMMA FlushSame ==
  ASSUME TypeOK, Depth > 0, NEW i \in Ids
  PROVE  /\ Flush(Top)[i] \in NodeType
         /\ Flush(Top)[i].etype = nodes[i].etype
         /\ Flush(Top)[i].dev = nodes[i].dev
         /\ Flush(Top)[i].parent = nodes[i].parent
         /\ Flush(Top)[i].kids = nodes[i].kids
<1>1. nodes[Top.id] \in NodeType /\ nodes[i] \in NodeType
  BY TopType, ElementOfSeq DEF TypeOK
<1>2. LET n == Flushed(nodes[Top.id], Top)
      IN  /\ n.etype = nodes[Top.id].etype /\ n.dev = nodes[Top.id].dev
          /\ n.parent = nodes[Top.id].parent /\ n.kids = nodes[Top.id].kids
  BY <1>1 DEF Flushed, NodeType
<1> QED
  BY <1>1, <1>2, FlushEffect

(* Which of the two a step is, and what it does to the device table.         *)
LEMMA Steps ==
  ASSUME TypeOK, nodes # <<>>, [Next]_vars
  PROVE  \/ NoneMore /\ devices' = devices
         \/ \E e \in FileTypes \cup Specials : /\ OneMore(e, 0) /\ Depth > 0
                                               /\ devices' = devices
         \/ \E v \in Devs : /\ OneMore("Dir", DevId(v)) /\ Depth > 0
                            /\ devices' = DevTable(v)
<1>1. CASE UNCHANGED vars
  BY <1>1 DEF vars, NoneMore, SameEntry, Ids
<1>2. ASSUME NEW b \in Blocks, NEW v \in Devs, CreateRoot(b, v) PROVE FALSE
  BY <1>2 DEF CreateRoot
<1>3. CASE SetReadError
  <2>1. Depth > 0 /\ nodes[Top.id] \in NodeType
    BY <1>3, TopType DEF SetReadError
  <2> QED
    BY <1>3, <2>1, SetReadErrorEffect
       DEF SetReadError, NoneMore, SameEntry, Ids, NodeType
<1>4. ASSUME NEW e \in Specials, AddSpecial(e) PROVE OneMore(e, 0)
  BY <1>4, AddSpecialEffect, EntryIsOneMore DEF AddSpecial, CanAdd
<1>5. ASSUME NEW e \in FileTypes, NEW b \in Blocks, AddStat(e, b)
      PROVE  OneMore(e, 0)
  BY <1>5, AddStatEffect, EntryIsOneMore DEF AddStat, CanAdd
<1>6. ASSUME NEW b \in Blocks, NEW v \in Devs, AddDir(b, v)
      PROVE  OneMore("Dir", DevId(v))
  <2>1. ParentField("Dir", Top.id) = Top.id
    BY DEF ParentField
  <2> QED
    BY <1>6, <2>1, AddDirEffect, EntryIsOneMore DEF AddDir, CanAdd
<1>7. CASE FinalizeSub
  <2> DEFINE f == Flush(Top)
             p == open[Depth - 1]
  <2>1. Depth > 0
    BY <1>7, LenProperties DEF FinalizeSub, TypeOK, Depth
  <2>2. \A i \in Ids : /\ f[i] \in NodeType /\ f[i].etype = nodes[i].etype
                       /\ f[i].dev = nodes[i].dev /\ f[i].parent = nodes[i].parent
                       /\ f[i].kids = nodes[i].kids
    BY <2>1, FlushSame
  <2>3. /\ Len(nodes') = Len(nodes)
        /\ \A i \in Ids : nodes'[i] =
             IF i = p.id THEN [f[i] EXCEPT !.suberr = IF Top.suberr THEN TRUE ELSE @]
                         ELSE f[i]
    BY <1>7, FinalizeSubEffect
  <2> HIDE DEF f, p
  <2>4. NoneMore
    BY <2>2, <2>3 DEF NoneMore, SameEntry, Ids, NodeType
  <2> QED
    BY <1>7, <2>4 DEF FinalizeSub
<1>8. CASE FinalizeRoot
  <2>1. Depth > 0
    BY <1>8 DEF FinalizeRoot
  <2>2. nodes' = Flush(Top) /\ Len(nodes') = Len(nodes)
    BY <1>8, FinalizeRootEffect DEF FinalizeRoot
  <2>3. NoneMore
    BY <2>1, <2>2, FlushSame DEF NoneMore, SameEntry, Ids
  <2> QED
    BY <1>8, <2>3 DEF FinalizeRoot
<1> QED
  BY <1>1, <1>2, <1>3, <1>4, <1>5, <1>6, <1>7, <1>8
     DEF Next, AddSpecial, AddStat, AddDir, CanAdd

(* The first step creates the root.                                          *)
LEMMA FirstStep ==
  ASSUME TypeOK, nodes = <<>>, Next, ~UNCHANGED vars
  PROVE  \E b \in Blocks, v \in Devs : CreateRoot(b, v)
<1>1. ~Finished
  BY DEF Finished
<1>2. Depth \in Nat /\ \A l \in 1..Depth : open[l].id \in Ids
  BY LenProperties DEF TypeOK, Depth
<1>3. Ids = {}
  BY DEF Ids
<1>4. Depth = 0
  BY <1>2, <1>3
<1> QED
  BY <1>1, <1>4 DEF Next, SetReadError, AddSpecial, AddStat, AddDir, CanAdd,
                    FinalizeSub, FinalizeRoot

LEMMA DevicesInit == Init => DevicesInjective
BY DEF Init, DevicesInjective, Ids

LEMMA DevicesStep == TypeOK /\ DevicesInjective /\ [Next]_vars => DevicesInjective'
<1> SUFFICES ASSUME TypeOK, DevicesInjective, [Next]_vars
             PROVE  DevicesInjective'
  OBVIOUS
<1>1. devices \in Seq(Devs) /\ Len(devices) \in Nat
  BY LenProperties DEF TypeOK
<1>2. ASSUME NEW v \in Devs, devices' = DevTable(v)
      PROVE  /\ DevId(v) \in 1..Len(devices') /\ Len(devices) <= Len(devices')
             /\ Len(devices') \in Nat
             /\ \A i, j \in 1..Len(devices') : devices'[i] = devices'[j] => i = j
  <2>1. CASE DevKnown(v)
    BY <1>1, <1>2, <2>1, GetId DEF DevTable, DevicesInjective
  <2>2. CASE ~DevKnown(v)
    <3>1. /\ devices' = Append(devices, v)
          /\ \A i \in 1..Len(devices) : devices[i] # v
      BY <1>2, <2>2 DEF DevTable, DevKnown
    <3>2. \A i, j \in 1..Len(devices') : devices'[i] = devices'[j] => i = j
      BY <1>1, <3>1 DEF DevicesInjective
    <3> QED
      BY <1>1, <1>2, <3>2, GetId
  <2> QED
    BY <2>1, <2>2
<1>3. CASE nodes = <<>> /\ ~UNCHANGED vars
  <2>1. PICK b \in Blocks, v \in Devs : CreateRoot(b, v)
    BY <1>3, FirstStep
  <2>2. Ids' = {1} /\ nodes'[1].dev = DevId(v) /\ devices' = DevTable(v)
    BY <2>1, CreateRootEffect DEF Ids, Node, CreateRoot
  <2> QED
    BY <1>2, <2>2 DEF DevicesInjective
<1>4. CASE nodes # <<>>
  <2>1. CASE NoneMore /\ devices' = devices
    BY <2>1 DEF NoneMore, SameEntry, DevicesInjective, IsDir
  <2>2. ASSUME NEW e \in FileTypes \cup Specials, OneMore(e, 0), devices' = devices
        PROVE  DevicesInjective'
    <3>1. e # "Dir"
      BY DEF FileTypes, Specials
    <3> QED
      BY <2>2, <3>1 DEF OneMore, SameEntry, DevicesInjective, IsDir
  <2>3. ASSUME NEW v \in Devs, OneMore("Dir", DevId(v)), devices' = DevTable(v)
        PROVE  DevicesInjective'
    <3>1. \A d \in Ids : IsDir(d) => nodes[d].dev \in 1..Len(devices')
      BY <1>1, <1>2, <2>3 DEF DevicesInjective
    <3> QED
      BY <1>2, <2>3, <3>1 DEF OneMore, SameEntry, DevicesInjective, IsDir
  <2> QED
    BY <1>4, <2>1, <2>2, <2>3, Steps
<1>5. CASE UNCHANGED vars
  BY <1>5 DEF vars, DevicesInjective, Ids, IsDir
<1> QED
  BY <1>3, <1>4, <1>5

(* Equal device ids always mean equal devices (get_id, create_root,          *)
(* add_dir).                                                                 *)
THEOREM DeviceIdsFaithful == Spec => []DevicesInjective
BY DevicesInit, DevicesStep, TypeCorrect, PTL DEF Spec

(* The entries of a list are in the arena, and have its directory for their       *)
(* parent if their kind has one.                                             *)
KidsLinked ==
  \A d \in Ids : \A k \in 1..Len(nodes[d].kids) :
    LET c == nodes[d].kids[k]
    IN  c \in Ids /\ nodes[c].parent = ParentField(nodes[c].etype, d)

LEMMA KidsLinkedInit == Init => KidsLinked
BY DEF Init, KidsLinked, Ids

LEMMA KidsLinkedStep == TypeOK /\ KidsLinked /\ [Next]_vars => KidsLinked'
<1> SUFFICES ASSUME TypeOK, KidsLinked, [Next]_vars PROVE KidsLinked'
  OBVIOUS
<1>1. ASSUME NoneMore PROVE KidsLinked'
  BY <1>1 DEF NoneMore, SameEntry, KidsLinked
<1>2. ASSUME NEW e, NEW v, OneMore(e, v), Depth > 0 PROVE KidsLinked'
  <2>1. Top.id \in Ids /\ NewId \in Nat /\ NewId \notin Ids
    BY <1>2, TopType DEF NewId, OneMore
  <2>2. \A d \in Ids : Len(nodes[d].kids) \in Nat /\ nodes[d].kids \in Seq(Nat)
    <3> SUFFICES ASSUME NEW d \in Ids
                 PROVE  Len(nodes[d].kids) \in Nat /\ nodes[d].kids \in Seq(Nat)
      OBVIOUS
    <3>1. nodes[d] \in NodeType
      BY ElementOfSeq DEF TypeOK, Ids
    <3>2. nodes[d].kids \in Seq(Nat)
      BY <3>1 DEF NodeType
    <3> QED
      BY <3>2, LenProperties
  <2> SUFFICES ASSUME NEW d \in Ids', NEW k \in 1..Len(nodes'[d].kids)
               PROVE  LET c == nodes'[d].kids[k]
                      IN  c \in Ids' /\ nodes'[c].parent = ParentField(nodes'[c].etype, d)
    BY DEF KidsLinked
  <2>3. CASE d = NewId
    BY <1>2, <2>3 DEF OneMore
  <2>4. CASE d \in Ids /\ k \in 1..Len(nodes[d].kids)
    <3> DEFINE c == nodes[d].kids[k]
    <3>1. c \in Ids /\ nodes[c].parent = ParentField(nodes[c].etype, d)
      BY <2>4 DEF KidsLinked
    <3>2. nodes'[d].kids[k] = c
      <4>1. nodes'[d].kids = IF d = Top.id THEN Append(nodes[d].kids, NewId)
                                           ELSE nodes[d].kids
        BY <1>2, <2>4 DEF OneMore
      <4>2. Append(nodes[d].kids, NewId)[k] = nodes[d].kids[k]
        BY <2>1, <2>2, <2>4, AppendProperties
      <4> QED
        BY <4>1, <4>2
    <3> HIDE DEF c
    <3> QED
      BY <1>2, <3>1, <3>2 DEF OneMore, SameEntry
  <2>5. CASE d \in Ids /\ k \notin 1..Len(nodes[d].kids)
    <3>1. d = Top.id
      BY <1>2, <2>5 DEF OneMore
    <3>2. nodes'[d].kids = Append(nodes[d].kids, NewId)
      BY <1>2, <2>1, <3>1 DEF OneMore
    <3>3. nodes'[d].kids[k] = NewId
      BY <2>1, <2>2, <2>5, <3>2
    <3> QED
      BY <1>2, <3>1, <3>3 DEF OneMore
  <2> QED
    BY <1>2, <2>3, <2>4, <2>5 DEF OneMore
<1>3. CASE nodes = <<>> /\ ~UNCHANGED vars
  <2>1. PICK b \in Blocks, v \in Devs : CreateRoot(b, v)
    BY <1>3, FirstStep
  <2>2. /\ Len(nodes') = 1
        /\ nodes'[1] = Node("Dir", b, NoEntry, DevId(v))
    BY <2>1, CreateRootEffect
  <2>3. Ids' = {1} /\ nodes'[1].kids = <<>>
    BY <2>2 DEF Ids, Node
  <2> QED
    BY <2>3 DEF KidsLinked
<1>4. CASE UNCHANGED vars
  BY <1>4 DEF vars, KidsLinked, Ids
<1> QED
  BY <1>1, <1>2, <1>3, <1>4, Steps

(* A directory or hard link found in a directory's list has that directory   *)
(* for its parent (add_stat, add_dir, link_child).                           *)
THEOREM ParentsMatchLists == Spec => []ParentsAgree
<1>1. KidsLinked => ParentsAgree
  BY DEF KidsLinked, ParentsAgree, ParentField
<1> QED
  BY <1>1, KidsLinkedInit, KidsLinkedStep, TypeCorrect, PTL DEF Spec

----------------------------------------------------------------------------
(* Facts about the parts of the inductive invariant that do not depend on    *)
(* the sink's state.                                                         *)
LEMMA SatAdds ==
  \A a, b \in Nat : /\ Sat(Sat(a) + b) = Sat(a + b)
                    /\ Sat(Sat(a) + Sat(b)) = Sat(a + b)
                    /\ Sat(a + Sat(b)) = Sat(a + b)
BY SinkAssumption DEF Sat

LEMMA NodeFields ==
  ASSUME NEW ns \in Seq(NodeType), NEW i \in 1..Len(ns)
  PROVE  /\ ns[i].items \in Nat /\ ns[i].kids \in Seq(Nat)
         /\ ns[i].blocks \in Nat
<1>1. ns[i] \in NodeType
  BY ElementOfSeq
<1> QED
  BY <1>1, SinkAssumption DEF NodeType

(* A tiling depends on nothing but the ends of its entries.                  *)
LEMMA TilesFrame ==
  ASSUME NEW ns, NEW ms, NEW d \in Nat, NEW ks \in Seq(Nat), NEW x \in Nat,
         Tiles(ns, d, ks, x),
         \A i \in 1..Len(ks) : ms[ks[i]].items = ns[ks[i]].items
  PROVE  Tiles(ms, d, ks, x)
<1>1. Len(ks) \in Nat /\ \A i \in 1..Len(ks) : End(ms, ks[i]) = End(ns, ks[i])
  BY DEF End
<1>2. ks # <<>> => Len(ks) \in 1..Len(ks)
  BY <1>1
<1> QED
  BY <1>1, <1>2 DEF Tiles, Fills

(* An entry put after x, with nothing below it, extends a tiling up to x.    *)
LEMMA TilesAppend ==
  ASSUME NEW ns, NEW d \in Nat, NEW ks \in Seq(Nat), NEW x \in Nat, d <= x,
         Tiles(ns, d, ks, x), ns[x + 1].items = 0,
         \A i \in 1..Len(ks) : ns[ks[i]].items \in Nat
  PROVE  Tiles(ns, d, Append(ks, x + 1), x + 1)
<1> DEFINE n == Len(ks)
           js == Append(ks, x + 1)
<1>1. /\ n \in Nat /\ Len(js) = n + 1 /\ js # <<>>
      /\ js[n + 1] = x + 1 /\ End(ns, x + 1) = x + 1
      /\ \A i \in 1..n : js[i] = ks[i] /\ ks[i] \in Nat
  BY SMTT(30) DEF End
<1>2. \A i \in 1..n : /\ ks[i] \in (d + 1)..x
                      /\ End(ns, ks[i]) \in Nat /\ End(ns, ks[i]) <= x
  BY <1>1 DEF Tiles, End
<1> HIDE DEF js
<1>3. \A i \in 1..(n + 1) : i \in 1..n \/ i = n + 1
  BY <1>1
<1>4. \A i \in 1..(n + 1) : js[i] \in (d + 1)..(x + 1) /\ End(ns, js[i]) <= x + 1
  BY <1>1, <1>2, <1>3
<1>5. \A i, j \in 1..(n + 1) : i < j => End(ns, js[i]) < js[j]
  <2> SUFFICES ASSUME NEW i \in 1..(n + 1), NEW j \in 1..(n + 1), i < j
               PROVE  End(ns, js[i]) < js[j]
    OBVIOUS
  <2>1. i \in 1..n
    BY <1>1
  <2>2. CASE j \in 1..n
    BY <1>1, <2>1, <2>2 DEF Tiles
  <2>3. CASE j = n + 1
    BY <1>1, <1>2, <2>1, <2>3
  <2> QED
    BY <1>3, <2>2, <2>3
<1>6. Fills(ns, d, js, x + 1)
  <2>1. CASE n = 0
    <3>1. ks = <<>>
      BY <2>1
    <3>2. x = d
      BY <3>1 DEF Tiles, Fills
    <3> QED
      BY <1>1, <2>1, <3>2 DEF Fills
  <2>2. CASE n # 0
    <3>1. /\ ks # <<>> /\ ks[1] = d + 1 /\ End(ns, ks[n]) = x
          /\ \A i \in 1..(n - 1) : ks[i + 1] = End(ns, ks[i]) + 1
      BY <2>2 DEF Tiles, Fills
    <3>2. js[1] = d + 1
      BY <1>1, <2>2, <3>1
    <3>3. \A i \in 1..n : js[i + 1] = End(ns, js[i]) + 1
      BY <1>1, <2>2, <3>1
    <3> QED
      BY <1>1, <3>2, <3>3 DEF Fills
  <2> QED
    BY <2>1, <2>2
<1>7. Tiles(ns, d, js, x + 1)
  BY <1>1, <1>4, <1>5, <1>6 DEF Tiles
<1> QED
  BY <1>7 DEF js

(* When the newest entry of a list turns out to reach x, so does the list.   *)
LEMMA TilesGrow ==
  ASSUME NEW ns, NEW ms, NEW d \in Nat, NEW ks \in Seq(Nat), ks # <<>>,
         NEW c \in Nat, NEW x \in Nat, c <= x, ks[Len(ks)] = c,
         Tiles(ns, d, ks, c), ms[c].items = x - c,
         \A i \in 1..Len(ks) :
           /\ ns[ks[i]].items \in Nat
           /\ ks[i] # c => ms[ks[i]].items = ns[ks[i]].items
  PROVE  Tiles(ms, d, ks, x)
<1> DEFINE n == Len(ks)
<1>1. n \in Nat /\ n \in 1..n /\ \A i \in 1..n : ks[i] \in Nat
  BY ElementOfSeq
<1>2. \A i \in 1..n : i # n => End(ns, ks[i]) < c
  BY <1>1 DEF Tiles
<1>3. \A i \in 1..n : i # n => End(ms, ks[i]) = End(ns, ks[i])
  BY <1>1, <1>2 DEF End
<1>4. End(ms, ks[n]) = x
  BY <1>1 DEF End
<1>5. \A i \in 1..n : ks[i] \in (d + 1)..x /\ End(ms, ks[i]) <= x
  <2> SUFFICES ASSUME NEW i \in 1..n
               PROVE  ks[i] \in (d + 1)..x /\ End(ms, ks[i]) <= x
    OBVIOUS
  <2>1. ks[i] \in (d + 1)..c /\ End(ns, ks[i]) \in Nat /\ End(ns, ks[i]) <= c
    BY <1>1 DEF Tiles, End
  <2> QED
    BY <1>1, <1>3, <1>4, <2>1
<1>6. \A i, j \in 1..n : i < j => End(ms, ks[i]) < ks[j]
  BY <1>1, <1>3 DEF Tiles
<1>7. Fills(ms, d, ks, x)
  <2>1. /\ ks[1] = d + 1
        /\ \A i \in 1..(n - 1) : ks[i + 1] = End(ns, ks[i]) + 1
    BY DEF Tiles, Fills
  <2> QED
    BY <1>1, <1>3, <1>4, <2>1 DEF Fills
<1> QED
  BY <1>5, <1>6, <1>7 DEF Tiles

(* What a handle has accounted for does not change when later entries, or    *)
(* directories other than its own, do.                                       *)
LEMMA HandleFrame ==
  ASSUME NEW ns \in Seq(NodeType), NEW ms, NEW ts, NEW us,
         NEW h \in HandleType, NEW x \in Nat, h.id \in 1..x, x <= Len(ns),
         HandleOK(ns, ts, h, x),
         ms[h.id].kids = ns[h.id].kids, ms[h.id].blocks = ns[h.id].blocks,
         ms[h.id].suberr = ns[h.id].suberr,
         \A i \in 1..x : ms[i].etype = ns[i].etype /\ ms[i].items = ns[i].items,
         \A i \in 0..x : Told(us, i) = Told(ts, i)
  PROVE  HandleOK(ms, us, h, x)
<1> DEFINE ks == ns[h.id].kids
<1>1. /\ h.id \in Nat /\ h.id \in 0..x /\ h.id - 1 \in 0..x /\ x \in 0..x
      /\ h.id \in 1..Len(ns) /\ ns[h.id] \in NodeType
  BY ElementOfSeq DEF HandleType
<1>2. ks \in Seq(Nat)
  BY <1>1 DEF NodeType
<1>3. Tiles(ns, h.id, ks, x)
  BY DEF HandleOK
<1>4. \A i \in 1..Len(ks) : ks[i] \in 1..x
  BY <1>1, <1>2, <1>3 DEF Tiles
<1>5. Tiles(ms, h.id, ks, x)
  BY <1>1, <1>2, <1>3, <1>4, TilesFrame
<1>6. ErrIn(ms, h.id + 1, x) <=> ErrIn(ns, h.id + 1, x)
  <2>1. \A j \in (h.id + 1)..x : ms[j].etype = ns[j].etype
    BY <1>1
  <2> QED
    BY <2>1 DEF ErrIn
<1> QED
  BY <1>1, <1>5, <1>6 DEF HandleOK

LEMMA DirFrame ==
  ASSUME NEW ns \in Seq(NodeType), NEW ms, NEW ts, NEW us,
         NEW d \in 1..Len(ns), DirOK(ns, ts, d),
         Len(ms) \in Nat, Len(ns) <= Len(ms), ms[d] = ns[d],
         \A i \in d..End(ns, d) :
           ms[i].etype = ns[i].etype /\ ms[i].items = ns[i].items,
         \A i \in 0..End(ns, d) : Told(us, i) = Told(ts, i)
  PROVE  DirOK(ms, us, d) /\ End(ms, d) = End(ns, d)
<1> DEFINE ks == ns[d].kids
           x == End(ns, d)
<1>1. /\ d \in Nat /\ ns[d] \in NodeType /\ x \in d..Len(ns) /\ x \in Nat
      /\ d - 1 \in 0..x /\ x \in 0..x /\ Len(ns) \in Nat
  BY ElementOfSeq, LenProperties DEF DirOK
<1>2. ks \in Seq(Nat) /\ Tiles(ns, d, ks, x) /\ End(ms, d) = x
  BY <1>1 DEF NodeType, DirOK, End
<1> HIDE DEF x
<1>3. \A i \in 1..Len(ks) : ks[i] \in d..x
  BY <1>1, <1>2 DEF Tiles
<1>4. Tiles(ms, d, ks, x)
  BY <1>1, <1>2, <1>3, TilesFrame DEF x
<1>5. ErrIn(ms, d + 1, x) <=> ErrIn(ns, d + 1, x)
  <2>1. \A j \in (d + 1)..x : ms[j].etype = ns[j].etype
    BY <1>1 DEF x
  <2> QED
    BY <2>1 DEF ErrIn
<1>6. x \in d..Len(ms)
  BY <1>1
<1> QED
  BY <1>1, <1>2, <1>4, <1>5, <1>6 DEF DirOK, x

(* Counting the entry put after x brings a handle that was right up to x     *)
(* right up to x + 1.                                                        *)
LEMMA HandleAdvances ==
  ASSUME NEW ns \in Seq(NodeType), NEW ms, NEW ts, NEW us,
         NEW h \in HandleType, NEW x \in Nat, x = Len(ns), h.id \in 1..x,
         x + 1 <= MaxU32, HandleOK(ns, ts, h, x), NEW e, NEW b \in Nat,
         ms[h.id].kids = Append(ns[h.id].kids, x + 1),
         ms[h.id].blocks = ns[h.id].blocks,
         ms[h.id].suberr = IF e = "Err" THEN TRUE ELSE ns[h.id].suberr,
         \A i \in 1..x : ms[i].etype = ns[i].etype /\ ms[i].items = ns[i].items,
         ms[x + 1].etype = e, ms[x + 1].items = 0,
         \A i \in 0..x : Told(us, i) = Told(ts, i) /\ Told(ts, i) \in Nat,
         Told(us, x + 1) = Told(ts, x) + b, Told(ts, h.id) <= Told(ts, x)
  PROVE  HandleOK(ms, us, Counting(h, e, b), x + 1)
<1> DEFINE ks == ns[h.id].kids
           g == Counting(h, e, b)
<1>1. /\ h.id \in Nat /\ h.id \in 0..x /\ h.id - 1 \in 0..x /\ x \in 0..x
      /\ ns[h.id] \in NodeType
  BY ElementOfSeq DEF HandleType
<1>2. /\ g.id = h.id /\ g.sub_items = WrapItems(h.sub_items + 1)
      /\ g.sub_blocks = Sat(h.sub_blocks + b)
      /\ g.suberr = IF e = "Err" THEN TRUE ELSE h.suberr
  BY DEF Counting, HandleType
<1> HIDE DEF g
<1>3. g.sub_items = (x + 1) - g.id
  <2>1. h.sub_items = x - h.id
    BY DEF HandleOK
  <2>2. (x - h.id) + 1 \in 0..MaxU32
    BY <1>1, SinkAssumption
  <2>3. WrapItems((x - h.id) + 1) = (x - h.id) + 1
    BY <2>2, Widths
  <2>4. (x - h.id) + 1 = (x + 1) - h.id
    BY <1>1
  <2> QED
    BY <1>2, <2>1, <2>3, <2>4
<1>4. g.sub_blocks = Sat(Told(us, x + 1) - Told(us, g.id))
  <2> DEFINE t == Told(ts, x) - Told(ts, h.id)
  <2>1. t \in Nat /\ h.sub_blocks = Sat(t)
    BY <1>1, SMTT(30) DEF HandleOK
  <2>2. Told(us, x + 1) - Told(us, g.id) = t + b
    BY <1>1, <1>2
  <2> HIDE DEF t
  <2> QED
    BY <1>2, <2>1, <2>2, SatAdds
<1>5. ms[g.id].blocks = Told(us, g.id) - Told(us, g.id - 1)
  BY <1>1, <1>2 DEF HandleOK
<1>6. ErrIn(ms, h.id + 1, x + 1) <=> ErrIn(ns, h.id + 1, x) \/ e = "Err"
  <2>1. \A j \in (h.id + 1)..(x + 1) : j \in (h.id + 1)..x \/ j = x + 1
    BY <1>1
  <2>2. \A j \in (h.id + 1)..x : j \in (h.id + 1)..(x + 1) /\ ms[j].etype = ns[j].etype
    BY <1>1
  <2>3. x + 1 \in (h.id + 1)..(x + 1)
    BY <1>1
  <2> QED
    BY <2>1, <2>2, <2>3 DEF ErrIn
<1>7. /\ ns[h.id].suberr <=> ErrIn(ns, h.id + 1, x)
      /\ h.suberr <=> ErrIn(ns, h.id + 1, x)
  BY DEF HandleOK
<1>8. /\ ms[g.id].suberr <=> ErrIn(ms, g.id + 1, x + 1)
      /\ g.suberr <=> ErrIn(ms, g.id + 1, x + 1)
  <2>1. CASE e = "Err"
    BY <1>2, <1>6, <2>1
  <2>2. CASE e # "Err"
    BY <1>2, <1>6, <1>7, <2>2
  <2> QED
    BY <2>1, <2>2
<1>9. Tiles(ms, g.id, ms[g.id].kids, x + 1)
  <2>1. ks \in Seq(Nat) /\ Tiles(ns, h.id, ks, x)
    BY NodeFields DEF HandleOK
  <2> HIDE DEF ks
  <2>2. \A i \in 1..Len(ks) : ks[i] \in 1..x
    BY <1>1, <2>1 DEF Tiles
  <2>3. Tiles(ms, h.id, ks, x)
    BY <1>1, <2>1, <2>2, TilesFrame
  <2>4. \A i \in 1..x : ms[i].items \in Nat
    BY NodeFields
  <2>5. \A i \in 1..Len(ks) : ms[ks[i]].items \in Nat
    BY <2>2, <2>4
  <2>6. h.id <= x
    OBVIOUS
  <2>7. Tiles(ms, h.id, Append(ks, x + 1), x + 1)
    BY <1>1, <2>1, <2>3, <2>5, <2>6, TilesAppend
  <2> QED
    BY <1>2, <2>7 DEF ks
<1>10. HandleOK(ms, us, g, x + 1)
  BY <1>3, <1>4, <1>5, <1>8, <1>9 DEF HandleOK
<1> QED
  BY <1>10 DEF g

(* A directory just added has a handle that is right up to itself.           *)
LEMMA HandleStarts ==
  ASSUME NEW ms, NEW us, NEW c \in Nat, NEW b \in Nat,
         ms[c].kids = <<>>, ms[c].suberr = FALSE, ms[c].blocks = b,
         Told(us, c) \in Nat, Told(us, c - 1) \in Nat,
         Told(us, c) = Told(us, c - 1) + b
  PROVE  HandleOK(ms, us, Handle(c), c)
<1>1. Sat(0) = 0
  BY SinkAssumption DEF Sat
<1>2. ~ErrIn(ms, c + 1, c)
  BY DEF ErrIn
<1>3. Tiles(ms, c, <<>>, c)
  BY DEF Tiles, Fills
<1> QED
  BY <1>1, <1>2, <1>3 DEF HandleOK, Handle

----------------------------------------------------------------------------
LEMMA AppendLast ==
  ASSUME NEW ks \in Seq(Nat), NEW c \in Nat
  PROVE  LET js == Append(ks, c) IN js # <<>> /\ js[Len(js)] = c
<1>1. Len(ks) \in Nat
  BY LenProperties
<1> QED
  BY <1>1, AppendProperties

(* Adding an entry keeps the inductive invariant.                            *)
LEMMA AddKeepsIInv ==
  ASSUME IInv, CanAdd, TypeOK', NEW e, NEW b \in Nat, NEW new,
         EntryAdded(e, b, new), new.etype = e, new.items = 0, new.kids = <<>>,
         new.suberr = FALSE, e = "Dir" => new.blocks = b
  PROVE  IInv'
<1> DEFINE x == Len(nodes)
           c == x + 1
           ms == nodes'
           us == told'
           os == open'
<1>1. /\ Depth \in Nat /\ Depth > 0 /\ Depth = Len(open) /\ x \in Nat
      /\ Top.id \in 1..x /\ Ids = 1..x /\ Len(told) = x /\ NewId = c
      /\ nodes \in Seq(NodeType) /\ Top = open[Depth] /\ x + 1 <= MaxU32
      /\ \A l \in 1..Depth : open[l] \in HandleType /\ open[l].id \in 1..x
  <2>1. /\ TypeOK /\ Depth > 0 /\ NewId <= MaxNodes
    BY DEF IInv, CanAdd
  <2>2. \A l \in 1..Depth : open[l] \in HandleType /\ open[l].id \in Ids
    BY <2>1, ElementOfSeq DEF TypeOK, Depth
  <2>3. /\ nodes \in Seq(NodeType) /\ Len(nodes) \in Nat /\ Ids = 1..Len(nodes)
        /\ Len(told) = Len(nodes) /\ Depth = Len(open) /\ Depth \in Nat
        /\ Top = open[Depth]
    BY <2>1 DEF TypeOK, Depth, Top, Ids
  <2>4. NewId = c /\ x \in Nat /\ x + 1 <= MaxU32
    BY <2>1, <2>3, SinkAssumption DEF NewId
  <2>5. Top.id \in 1..x
    BY <2>1, <2>3, TopType
  <2> QED
    BY <2>1, <2>2, <2>3, <2>4, <2>5
<1>2. /\ Len(ms) = c /\ ms[c] = new /\ Len(us) = c
      /\ \A i \in 1..x : /\ ms[i].etype = nodes[i].etype
                         /\ ms[i].items = nodes[i].items
                         /\ ms[i].blocks = nodes[i].blocks
                         /\ i # Top.id => ms[i] = nodes[i]
      /\ ms[Top.id].kids = Append(nodes[Top.id].kids, c)
      /\ ms[Top.id].suberr = IF e = "Err" THEN TRUE ELSE nodes[Top.id].suberr
  <2>1. nodes[Top.id] \in NodeType
    BY <1>1, ElementOfSeq
  <2>2. /\ TopWith(e).etype = nodes[Top.id].etype
        /\ TopWith(e).items = nodes[Top.id].items
        /\ TopWith(e).blocks = nodes[Top.id].blocks
        /\ TopWith(e).kids = Append(nodes[Top.id].kids, c)
        /\ TopWith(e).suberr = IF e = "Err" THEN TRUE ELSE nodes[Top.id].suberr
    BY <1>1, <2>1 DEF TopWith, NodeType
  <2> QED
    BY <1>1, <2>2 DEF EntryAdded
<1>3. /\ \A i \in 0..x : Told(us, i) = Told(told, i) /\ Told(told, i) \in Nat
      /\ Told(us, c) = Told(told, x) + b
  <2>1. \A i \in 1..x : us[i] = told[i] /\ told[i] \in Nat
    BY <1>1, ElementOfSeq DEF EntryAdded, IInv, TypeOK
  <2>2. us[c] = Told(told, x) + b
    BY <1>1 DEF EntryAdded
  <2> QED
    BY <1>1, <2>1, <2>2 DEF Told
<1>4. Monotone(us)
  <2> SUFFICES ASSUME NEW i \in 0..c, NEW j \in 0..c, i <= j
               PROVE  Told(us, i) <= Told(us, j)
    BY <1>2 DEF Monotone
  <2>1. \A k \in 0..x : k <= x /\ x \in 0..x /\ Told(told, k) <= Told(told, x)
    BY <1>1 DEF IInv, Monotone
  <2>2. CASE j \in 0..x
    <3>1. i \in 0..x
      BY <1>1, <2>2
    <3> QED
      BY <1>1, <1>3, <2>2, <3>1 DEF IInv, Monotone
  <2>3. CASE j = c /\ i \in 0..x
    BY <1>1, <1>3, <2>1, <2>3
  <2>4. CASE j = c /\ i = c
    <3>1. Told(us, c) \in Nat
      BY <1>1, <1>3
    <3> QED
      BY <2>4, <3>1
  <2> QED
    BY <1>1, <2>2, <2>3, <2>4
<1>5. /\ Len(os) = IF e = "Dir" THEN Depth + 1 ELSE Depth
      /\ \A l \in 1..Depth : os[l].id = open[l].id
      /\ \A l \in 1..Depth : l # Depth => os[l] = open[l]
      /\ os[Depth] = Counting(Top, e, b)
      /\ e = "Dir" => os[Depth + 1] = Handle(c) /\ os[Depth + 1].id = c
  <2>1. Counting(Top, e, b).id = Top.id
    BY <1>1, CountingType DEF IInv
  <2> QED
    BY <1>1, <2>1 DEF EntryAdded, Handle
<1> DEFINE D == Len(os)
<1>6. /\ D \in Nat /\ Depth' = D /\ Depth <= D
      /\ \A l \in 1..D : l \in 1..(Depth - 1) \/ l = Depth
                           \/ (e = "Dir" /\ l = Depth + 1)
  BY <1>1, <1>5 DEF Depth
<1> DEFINE before(l) == Reach(open, x, l)
           after(l) == Reach(os, c, l)
<1>7. /\ \A l \in 1..(Depth - 1) : before(l) = open[l + 1].id
                                    /\ after(l) = before(l)
      /\ after(Depth) = c /\ before(Depth) = x
      /\ e = "Dir" => after(Depth + 1) = c
  BY <1>1, <1>5, <1>6 DEF Reach
<1>8. /\ StackOK(nodes, open) /\ Monotone(told)
      /\ \A l \in 1..Depth : HandleOK(nodes, told, open[l], before(l))
  BY <1>1 DEF IInv, HandlesOK
<1> HIDE DEF x, c, ms, us, os, D, before, after
<1>9. StackOK(ms, os)
  <2>1. \A l \in 1..D : ms[os[l].id].etype = "Dir" /\ ms[os[l].id].items = 0
    <3> SUFFICES ASSUME NEW l \in 1..D
                 PROVE  ms[os[l].id].etype = "Dir" /\ ms[os[l].id].items = 0
      OBVIOUS
    <3>1. CASE l \in 1..Depth
      <4>1. /\ nodes[open[l].id].etype = "Dir" /\ nodes[open[l].id].items = 0
            /\ open[l].id \in 1..x
        BY <1>1, <1>8, <3>1 DEF StackOK
      <4> QED
        BY <1>2, <1>5, <3>1, <4>1
    <3>2. CASE e = "Dir" /\ l = Depth + 1
      BY <1>2, <1>5, <3>2
    <3> QED
      BY <1>1, <1>6, <3>1, <3>2
  <2>2. \A l, m \in 1..D : l < m => os[l].id < os[m].id
    <3> SUFFICES ASSUME NEW l \in 1..D, NEW m \in 1..D, l < m
                 PROVE  os[l].id < os[m].id
      OBVIOUS
    <3>1. l \in 1..Depth /\ open[l].id \in 1..x /\ os[l].id = open[l].id
      BY <1>1, <1>5, <1>6
    <3>2. CASE m \in 1..Depth
      BY <1>1, <1>5, <1>8, <3>1, <3>2 DEF StackOK
    <3>3. CASE e = "Dir" /\ m = Depth + 1
      BY <1>1, <1>5, <3>1, <3>3 DEF c
    <3> QED
      BY <1>1, <1>6, <3>2, <3>3
  <2>3. \A l \in 1..(D - 1) : /\ ms[os[l].id].kids # <<>>
                              /\ LET ks == ms[os[l].id].kids
                                 IN  ks[Len(ks)] = os[l + 1].id
    <3> SUFFICES ASSUME NEW l \in 1..(D - 1)
                 PROVE  /\ ms[os[l].id].kids # <<>>
                        /\ LET ks == ms[os[l].id].kids
                           IN  ks[Len(ks)] = os[l + 1].id
      OBVIOUS
    <3>1. CASE l \in 1..(Depth - 1)
      <4>1. /\ l \in 1..Depth /\ l + 1 \in 1..Depth /\ l < Depth
            /\ Depth \in 1..Depth
        BY <1>1, <3>1
      <4>2. open[l].id < Top.id
        BY <1>1, <1>8, <4>1 DEF StackOK
      <4>3. ms[os[l].id] = nodes[open[l].id]
        <5>1. open[l].id \in 1..x /\ open[l].id # Top.id
          BY <1>1, <4>1, <4>2
        <5>2. os[l].id = open[l].id
          BY <1>5, <4>1
        <5> QED
          BY <1>2, <5>1, <5>2
      <4> QED
        BY <1>1, <1>5, <1>8, <3>1, <4>1, <4>3 DEF StackOK
    <3>2. CASE l = Depth /\ e = "Dir"
      <4>1. nodes[Top.id].kids \in Seq(Nat) /\ c \in Nat
        BY <1>1, NodeFields DEF x, c
      <4>2. Depth \in 1..Depth
        BY <1>1
      <4>3. ms[os[l].id].kids = Append(nodes[Top.id].kids, c)
        BY <1>1, <1>2, <1>5, <3>2, <4>2
      <4>4. os[l + 1].id = c
        BY <1>5, <3>2
      <4>5. LET js == Append(nodes[Top.id].kids, c)
            IN  js # <<>> /\ js[Len(js)] = c
        BY <4>1, AppendLast
      <4> QED
        BY <4>3, <4>4, <4>5
    <3> QED
      BY <1>1, <1>5, <1>6, <3>1, <3>2 DEF D
  <2> QED
    BY <2>1, <2>2, <2>3 DEF StackOK, D
<1>10. HandlesOK(ms, us, os)
  <2> SUFFICES ASSUME NEW l \in 1..D PROVE HandleOK(ms, us, os[l], after(l))
    BY <1>2 DEF HandlesOK, D, after
  <2>1. CASE l \in 1..(Depth - 1)
    <3> DEFINE h == open[l]
               y == before(l)
    <3>1. /\ l \in 1..Depth /\ l + 1 \in 1..Depth /\ l < l + 1
          /\ l < Depth /\ Depth \in 1..Depth
      BY <1>1, <2>1
    <3>2. h.id < y /\ h.id < Top.id /\ y = open[l + 1].id
      BY <1>1, <1>7, <1>8, <2>1, <3>1 DEF StackOK
    <3>3. h \in HandleType /\ h.id \in 1..x /\ h.id \in 1..y /\ y \in 1..x /\ y \in Nat
      BY <1>1, <3>1, <3>2
    <3>4. HandleOK(nodes, told, h, y)
      BY <1>8, <3>1
    <3>5. ms[h.id] = nodes[h.id]
      BY <1>1, <1>2, <3>2, <3>3, SMTT(30)
    <3>6. os[l] = h /\ after(l) = y
      BY <1>1, <1>5, <1>7, <2>1, <3>1
    <3> HIDE DEF h, y
    <3>7. \A i \in 1..y : ms[i].etype = nodes[i].etype /\ ms[i].items = nodes[i].items
      BY <1>1, <1>2, <3>3, SMTT(30)
    <3>8. \A i \in 0..y : Told(us, i) = Told(told, i)
      BY <1>1, <1>3, <3>3
    <3>9. y <= Len(nodes)
      BY <1>1, <3>3 DEF x
    <3>10. HandleOK(ms, us, h, y)
      BY <1>1, <3>3, <3>4, <3>5, <3>7, <3>8, <3>9, HandleFrame
    <3> QED
      BY <3>6, <3>10
  <2>2. CASE l = Depth
    <3>1. Depth \in 1..Depth
      BY <1>1
    <3>2. HandleOK(nodes, told, Top, x)
      BY <1>1, <1>7, <1>8, <3>1
    <3>3. Told(told, Top.id) <= Told(told, x)
      BY <1>1, <1>8 DEF Monotone
    <3>4. Top \in HandleType
      BY <1>1, <3>1
    <3>5. HandleOK(ms, us, Counting(Top, e, b), x + 1)
      BY <1>1, <1>2, <1>3, <3>2, <3>3, <3>4, HandleAdvances, ZenonT(60) DEF c, x
    <3> QED
      BY <1>5, <1>7, <2>2, <3>5 DEF c
  <2>3. CASE e = "Dir" /\ l = Depth + 1
    <3>1. c \in Nat /\ x \in 0..x /\ c - 1 = x
      BY <1>1 DEF c
    <3>2. Told(us, x) \in Nat /\ Told(us, c) = Told(us, x) + b /\ Told(us, c) \in Nat
      BY <1>3, <3>1
    <3>3. HandleOK(ms, us, Handle(c), c)
      BY <1>2, <2>3, <3>1, <3>2, HandleStarts
    <3> QED
      BY <1>5, <1>7, <2>3, <3>3
  <2> QED
    BY <1>6, <2>1, <2>2, <2>3
<1>11. ClosedOK'
  <2> SUFFICES ASSUME NEW d \in Closed'
               PROVE  /\ DirOK(ms, us, d)
                      /\ \A l \in 1..D : d < os[l].id => End(ms, d) < os[l].id
    BY <1>6 DEF ClosedOK, ms, us, os
  <2>1. d \in 1..c /\ ms[d].etype = "Dir" /\ \A l \in 1..D : os[l].id # d
    BY <1>2, <1>6 DEF Closed, Ids, IsDir, OpenIds, ms, os
  <2>2. d # c
    BY <1>1, <1>2, <1>5, <1>6, <2>1 DEF D
  <2>3. d \in 1..x
    BY <1>1, <2>1, <2>2 DEF c
  <2>4. \A l \in 1..Depth : l \in 1..D
    BY <1>1, <1>6
  <2>5. \A l \in 1..Depth : open[l].id # d
    BY <1>5, <2>1, <2>4
  <2>6. d \in Closed
    BY <1>1, <1>2, <2>1, <2>3, <2>5 DEF Closed, IsDir, OpenIds
  <2>7. /\ DirOK(nodes, told, d) /\ End(nodes, d) \in d..x
        /\ \A l \in 1..Depth : d < open[l].id => End(nodes, d) < open[l].id
    BY <2>6 DEF IInv, ClosedOK, DirOK, x
  <2>8. ms[d] = nodes[d]
    BY <1>1, <1>2, <2>3, <2>5
  <2>9. /\ \A i \in d..End(nodes, d) : /\ ms[i].etype = nodes[i].etype
                                       /\ ms[i].items = nodes[i].items
        /\ \A i \in 0..End(nodes, d) : Told(us, i) = Told(told, i)
    <3>1. /\ \A i \in d..End(nodes, d) : i \in 1..x
          /\ \A i \in 0..End(nodes, d) : i \in 0..x
      BY <1>1, <2>3, <2>7
    <3> QED
      BY <1>2, <1>3, <3>1
  <2>10. Len(ms) \in Nat /\ Len(nodes) <= Len(ms)
    BY <1>1, <1>2 DEF x, c
  <2>11. DirOK(ms, us, d) /\ End(ms, d) = End(nodes, d)
    BY <1>1, <2>3, <2>7, <2>8, <2>9, <2>10, DirFrame DEF x
  <2>12. \A l \in 1..D : d < os[l].id => End(ms, d) < os[l].id
    <3> SUFFICES ASSUME NEW l \in 1..D, d < os[l].id
                 PROVE  End(nodes, d) < os[l].id
      BY <2>11
    <3>1. CASE l \in 1..Depth
      BY <1>5, <2>7, <3>1
    <3>2. CASE e = "Dir" /\ l = Depth + 1
      <4>1. os[l].id = c
        BY <1>5, <3>2
      <4> QED
        BY <1>1, <2>3, <2>7, <4>1 DEF c
    <3> QED
      BY <1>1, <1>6, <3>1, <3>2
  <2> QED
    BY <2>11, <2>12
<1> QED
  BY <1>4, <1>9, <1>10, <1>11 DEF IInv, ms, us, os

----------------------------------------------------------------------------
(* Flushing a handle that has accounted for everything completes its         *)
(* directory.                                                                *)
LEMMA HandleCloses ==
  ASSUME NEW ns \in Seq(NodeType), NEW ms, NEW ts, NEW h \in HandleType,
         NEW x \in Nat, x = Len(ns), x = Len(ms), x <= MaxU32, h.id \in 1..x,
         HandleOK(ns, ts, h, x), ns[h.id].items = 0,
         ms[h.id].items = SatItems(ns[h.id].items + h.sub_items),
         ms[h.id].blocks = Sat(ns[h.id].blocks + h.sub_blocks),
         ms[h.id].kids = ns[h.id].kids, ms[h.id].suberr = ns[h.id].suberr,
         \A i \in 1..x : ms[i].etype = ns[i].etype,
         \A i \in 1..x : i # h.id => ms[i].items = ns[i].items,
         \A i \in 0..x : Told(ts, i) \in Nat,
         \A i, j \in 0..x : i <= j => Told(ts, i) <= Told(ts, j)
  PROVE  DirOK(ms, ts, h.id) /\ End(ms, h.id) = x
<1> DEFINE d == h.id
           ks == ns[d].kids
<1>1. /\ d \in Nat /\ d \in 0..x /\ d - 1 \in 0..x /\ x \in 0..x
      /\ d \in d..x /\ x \in d..x
  BY DEF HandleType
<1>2. ms[d].items = x - d
  <2>1. h.sub_items = x - d /\ 0 + (x - d) = x - d /\ x - d \in 0..MaxU32
    BY <1>1, SinkAssumption DEF HandleOK
  <2> QED
    BY <2>1, Widths
<1>3. End(ms, d) = x
  BY <1>1, <1>2 DEF End
<1>4. ms[d].blocks = Sat(Told(ts, x) - Told(ts, d - 1))
  <2> DEFINE own == Told(ts, d) - Told(ts, d - 1)
             sub == Told(ts, x) - Told(ts, d)
  <2>1. own \in Nat /\ sub \in Nat /\ own + sub = Told(ts, x) - Told(ts, d - 1)
    BY <1>1
  <2>2. ns[d].blocks = own /\ h.sub_blocks = Sat(sub)
    BY DEF HandleOK
  <2> HIDE DEF own, sub
  <2>3. Sat(own + Sat(sub)) = Sat(own + sub)
    BY <2>1, SatAdds
  <2> QED
    BY <2>1, <2>2, <2>3
<1>5. ms[d].suberr <=> ErrIn(ms, d + 1, x)
  <2>1. \A j \in (d + 1)..x : ms[j].etype = ns[j].etype
    BY <1>1
  <2>2. ns[d].suberr <=> ErrIn(ns, d + 1, x)
    BY DEF HandleOK
  <2> QED
    BY <2>1, <2>2 DEF ErrIn
<1>6. Tiles(ms, d, ks, x)
  <2>1. ks \in Seq(Nat) /\ Tiles(ns, d, ks, x)
    BY NodeFields DEF HandleOK
  <2>2. \A i \in 1..Len(ks) : ks[i] \in 1..x /\ ks[i] # d
    <3> HIDE DEF ks, d
    <3> QED
      BY <1>1, <2>1 DEF Tiles
  <2>3. \A i \in 1..Len(ks) : ms[ks[i]].items = ns[ks[i]].items
    BY <2>2
  <2> QED
    BY <1>1, <2>1, <2>3, TilesFrame, ZenonT(60)
<1> QED
  BY <1>1, <1>3, <1>4, <1>5, <1>6 DEF DirOK

(* ... and what the handle below it receives brings that one up to x.        *)
LEMMA HandleReceives ==
  ASSUME NEW ns \in Seq(NodeType), NEW ms, NEW ts,
         NEW p \in HandleType, NEW h \in HandleType,
         NEW x \in Nat, x = Len(ns), x <= MaxU32,
         p.id \in 1..x, h.id \in 1..x, p.id < h.id,
         HandleOK(ns, ts, p, h.id), HandleOK(ns, ts, h, x),
         ns[p.id].kids # <<>>, ns[p.id].kids[Len(ns[p.id].kids)] = h.id,
         ms[h.id].items = x - h.id,
         ms[p.id].kids = ns[p.id].kids, ms[p.id].blocks = ns[p.id].blocks,
         ms[p.id].suberr = IF h.suberr THEN TRUE ELSE ns[p.id].suberr,
         \A i \in 1..x : ms[i].etype = ns[i].etype,
         \A i \in 1..x : i # h.id => ms[i].items = ns[i].items,
         \A i \in 0..x : Told(ts, i) \in Nat,
         \A i, j \in 0..x : i <= j => Told(ts, i) <= Told(ts, j)
  PROVE  HandleOK(ms, ts, Received(p, h), x)
<1> DEFINE d == p.id
           c == h.id
           g == Received(p, h)
           ks == ns[d].kids
<1>1. /\ d \in Nat /\ c \in Nat /\ d < c /\ c <= x
      /\ d \in 0..x /\ c \in 0..x /\ x \in 0..x /\ d <= c
  BY DEF HandleType
<1>2. /\ g.id = d /\ g.sub_items = SatItems(p.sub_items + h.sub_items)
      /\ g.sub_blocks = Sat(p.sub_blocks + h.sub_blocks)
      /\ g.suberr = IF h.suberr THEN TRUE ELSE p.suberr
  BY DEF Received, HandleType
<1> HIDE DEF g
<1>3. g.sub_items = x - d
  <2>1. p.sub_items = c - d /\ h.sub_items = x - c
    BY DEF HandleOK
  <2>2. (c - d) + (x - c) = x - d /\ x - d \in 0..MaxU32
    BY <1>1, SinkAssumption
  <2> QED
    BY <1>2, <2>1, <2>2, Widths
<1>4. g.sub_blocks = Sat(Told(ts, x) - Told(ts, d))
  <2> DEFINE lo == Told(ts, c) - Told(ts, d)
             hi == Told(ts, x) - Told(ts, c)
  <2>1. lo \in Nat /\ hi \in Nat /\ lo + hi = Told(ts, x) - Told(ts, d)
    BY <1>1
  <2>2. p.sub_blocks = Sat(lo) /\ h.sub_blocks = Sat(hi)
    BY DEF HandleOK
  <2> HIDE DEF lo, hi
  <2>3. Sat(Sat(lo) + Sat(hi)) = Sat(lo + hi)
    BY <2>1, SatAdds
  <2> QED
    BY <1>2, <2>1, <2>2, <2>3
<1>5. ErrIn(ms, d + 1, x) <=> ErrIn(ns, d + 1, c) \/ ErrIn(ns, c + 1, x)
  <2>1. \A j \in (d + 1)..x : /\ j \in (d + 1)..c \/ j \in (c + 1)..x
                              /\ ms[j].etype = ns[j].etype
    BY <1>1
  <2>2. \A j : j \in (d + 1)..c \/ j \in (c + 1)..x => j \in (d + 1)..x
    BY <1>1
  <2> QED
    BY <2>1, <2>2 DEF ErrIn
<1>6. /\ ns[d].suberr <=> ErrIn(ns, d + 1, c)
      /\ p.suberr <=> ErrIn(ns, d + 1, c)
      /\ h.suberr <=> ErrIn(ns, c + 1, x)
  BY DEF HandleOK
<1>7. /\ ms[d].suberr <=> ErrIn(ms, d + 1, x)
      /\ g.suberr <=> ErrIn(ms, d + 1, x)
  <2>1. CASE h.suberr
    BY <1>2, <1>5, <1>6, <2>1
  <2>2. CASE ~h.suberr
    BY <1>2, <1>5, <1>6, <2>2
  <2> QED
    BY <2>1, <2>2
<1>8. Tiles(ms, d, ks, x)
  <2>1. /\ ks \in Seq(Nat) /\ ks # <<>> /\ ks[Len(ks)] = c
        /\ Tiles(ns, d, ks, c)
    BY NodeFields DEF HandleOK
  <2>2. \A i \in 1..Len(ks) : ks[i] \in 1..x
    <3> HIDE DEF ks, d, c
    <3> QED
      BY <1>1, <2>1, SMTT(30) DEF Tiles
  <2>3. \A i \in 1..Len(ks) : /\ ns[ks[i]].items \in Nat
                              /\ ks[i] # c => ms[ks[i]].items = ns[ks[i]].items
    BY <2>2, NodeFields
  <2> HIDE DEF ks
  <2> QED
    BY <1>1, <2>1, <2>3, TilesGrow
<1>9. HandleOK(ms, ts, g, x)
  BY <1>2, <1>3, <1>4, <1>6, <1>7, <1>8 DEF HandleOK
<1> QED
  BY <1>9 DEF g

(* What the two forms of finalize have in common: the directory on top of    *)
(* the stack takes its totals and leaves the stack; of the others, only one  *)
(* that is still open may change, and then only its suberr.                  *)
TopCloses ==
  /\ Depth > 0 /\ Len(nodes') = Len(nodes) /\ told' = told
  /\ \A i \in Ids : /\ nodes'[i].etype = nodes[i].etype
                    /\ nodes'[i].kids = nodes[i].kids
                    /\ i # Top.id => nodes'[i].items = nodes[i].items
                    /\ i \notin OpenIds => nodes'[i] = nodes[i]
  /\ nodes'[Top.id].items = SatItems(nodes[Top.id].items + Top.sub_items)
  /\ nodes'[Top.id].blocks = Sat(nodes[Top.id].blocks + Top.sub_blocks)
  /\ nodes'[Top.id].suberr = nodes[Top.id].suberr
  /\ Len(open') = Depth - 1
  /\ \A l \in 1..(Depth - 1) : open'[l].id = open[l].id

(* The facts about the state that the two forms of finalize start from.      *)
LEMMA StateFacts ==
  ASSUME IInv
  PROVE  LET x == Len(nodes)
         IN  /\ Depth \in Nat /\ Depth = Len(open) /\ x \in Nat /\ Ids = 1..x
             /\ x <= MaxU32 /\ nodes \in Seq(NodeType)
             /\ \A l \in 1..Depth : open[l] \in HandleType /\ open[l].id \in 1..x
             /\ \A i \in 0..x : Told(told, i) \in Nat
             /\ \A i, j \in 0..x : i <= j => Told(told, i) <= Told(told, j)
             /\ Depth > 0 => /\ Depth \in 1..Depth /\ Top = open[Depth]
                             /\ Top \in HandleType /\ Top.id \in 1..x
                             /\ nodes[Top.id].items = 0
                             /\ HandleOK(nodes, told, Top, x)
<1> DEFINE x == Len(nodes)
<1>1. /\ Depth \in Nat /\ Depth = Len(open) /\ x \in Nat /\ Ids = 1..x
      /\ x <= MaxU32 /\ nodes \in Seq(NodeType) /\ Len(told) = x
  BY LenProperties, SinkAssumption DEF IInv, TypeOK, Depth, Ids
<1>2. \A l \in 1..Depth : open[l] \in HandleType /\ open[l].id \in 1..x
  BY <1>1, ElementOfSeq DEF IInv, TypeOK
<1>3. \A i \in 0..x : Told(told, i) \in Nat
  BY <1>1, ElementOfSeq DEF IInv, TypeOK, Told
<1>4. \A i, j \in 0..x : i <= j => Told(told, i) <= Told(told, j)
  BY <1>1 DEF IInv, Monotone
<1>5. ASSUME Depth > 0
      PROVE  /\ Depth \in 1..Depth /\ Top = open[Depth]
             /\ Top \in HandleType /\ Top.id \in 1..x
             /\ nodes[Top.id].items = 0 /\ HandleOK(nodes, told, Top, x)
  <2>1. Depth \in 1..Depth /\ Top = open[Depth] /\ Reach(open, x, Depth) = x
    BY <1>1, <1>5 DEF Top, Reach
  <2> QED
    BY <1>1, <1>2, <2>1 DEF IInv, StackOK, HandlesOK
<1> QED
  BY <1>1, <1>2, <1>3, <1>4, <1>5

LEMMA TopCloseKeeps ==
  ASSUME IInv, TopCloses
  PROVE  /\ ClosedOK' /\ Monotone(told')
         /\ nodes'[Top.id].items = Len(nodes) - Top.id
<1> DEFINE x == Len(nodes)
           t == Top.id
           ms == nodes'
           os == open'
<1>1. /\ Depth \in Nat /\ Depth > 0 /\ x \in Nat /\ Ids = 1..x /\ x <= MaxU32
      /\ nodes \in Seq(NodeType) /\ t \in 1..x /\ nodes[t].items = 0
      /\ Depth = Len(open) /\ Top = open[Depth] /\ Top \in HandleType
      /\ HandleOK(nodes, told, Top, x) /\ Depth \in 1..Depth
      /\ \A l \in 1..Depth : open[l].id \in 1..x
  BY StateFacts DEF TopCloses
<1>2. /\ \A i \in 0..x : Told(told, i) \in Nat
      /\ \A i, j \in 0..x : i <= j => Told(told, i) <= Told(told, j)
  BY StateFacts
<1>3. /\ told' = told /\ Len(ms) = x /\ Len(os) = Depth - 1
      /\ \A i \in 1..x : /\ ms[i].etype = nodes[i].etype
                         /\ ms[i].kids = nodes[i].kids
                         /\ i # t => ms[i].items = nodes[i].items
                         /\ i \notin OpenIds => ms[i] = nodes[i]
      /\ ms[t].items = SatItems(nodes[t].items + Top.sub_items)
      /\ ms[t].blocks = Sat(nodes[t].blocks + Top.sub_blocks)
      /\ ms[t].suberr = nodes[t].suberr
      /\ \A l \in 1..(Depth - 1) : os[l].id = open[l].id
  BY <1>1 DEF TopCloses
<1> HIDE DEF x, t, ms, os
<1>4. DirOK(ms, told, t) /\ End(ms, t) = x
  <2>1. x = Len(nodes) /\ x = Len(ms)
    BY <1>3 DEF x
  <2>2. /\ ms[Top.id].kids = nodes[Top.id].kids
        /\ \A i \in 1..x : ms[i].etype = nodes[i].etype
        /\ \A i \in 1..x : i # Top.id => ms[i].items = nodes[i].items
    BY <1>1, <1>3 DEF t
  <2>3. /\ Top.id \in 1..x /\ nodes[Top.id].items = 0
        /\ ms[Top.id].items = SatItems(nodes[Top.id].items + Top.sub_items)
        /\ ms[Top.id].blocks = Sat(nodes[Top.id].blocks + Top.sub_blocks)
        /\ ms[Top.id].suberr = nodes[Top.id].suberr
    BY <1>1, <1>3 DEF t
  <2>4. /\ nodes \in Seq(NodeType) /\ Top \in HandleType /\ x \in Nat
        /\ x <= MaxU32 /\ HandleOK(nodes, told, Top, x)
    BY <1>1
  <2>5. DirOK(ms, told, Top.id) /\ End(ms, Top.id) = x
    BY <1>2, <2>1, <2>2, <2>3, <2>4, HandleCloses
  <2> QED
    BY <2>5 DEF t
<1>5. ms[t].items = x - t
  <2>1. Top.sub_items = x - t
    BY <1>1 DEF HandleOK, t
  <2>2. 0 + (x - t) = x - t /\ x - t \in 0..MaxU32
    BY <1>1, SinkAssumption
  <2> QED
    BY <1>1, <1>3, <2>1, <2>2, Widths
<1>6. \A l \in 1..(Depth - 1) : open[l].id < t
  BY <1>1 DEF IInv, StackOK, t
<1>7. ASSUME NEW d \in 1..x, ms[d].etype = "Dir",
             \A l \in 1..(Depth - 1) : os[l].id # d
      PROVE  /\ DirOK(ms, told, d)
             /\ \A l \in 1..(Depth - 1) : d < os[l].id => End(ms, d) < os[l].id
  <2>1. CASE d = t
    BY <1>1, <1>3, <1>4, <1>6, <2>1
  <2>2. CASE d # t
    <3>1. \A l \in 1..Depth : l \in 1..(Depth - 1) \/ l = Depth
      BY <1>1
    <3>2. d \notin OpenIds
      <4>1. \A l \in 1..(Depth - 1) : open[l].id # d
        BY <1>3, <1>7
      <4>2. \A l \in 1..Depth : open[l].id # d
        BY <1>1, <2>2, <3>1, <4>1 DEF t
      <4> QED
        BY <4>2 DEF OpenIds
    <3>3. d \in Closed
      BY <1>1, <1>3, <1>7, <3>2 DEF Closed, IsDir
    <3>4. /\ DirOK(nodes, told, d) /\ End(nodes, d) \in d..x
          /\ \A l \in 1..Depth : d < open[l].id => End(nodes, d) < open[l].id
      BY <3>3 DEF IInv, ClosedOK, DirOK, x
    <3>5. ms[d] = nodes[d]
      BY <1>3, <3>2
    <3>6. \A i \in d..End(nodes, d) : i \in 1..x /\ i # t
      BY <1>1, <2>2, <3>4 DEF t
    <3>7. \A i \in d..End(nodes, d) : /\ ms[i].etype = nodes[i].etype
                                      /\ ms[i].items = nodes[i].items
      BY <1>3, <3>6
    <3>8. DirOK(ms, told, d) /\ End(ms, d) = End(nodes, d)
      <4>1. /\ d \in 1..Len(nodes) /\ Len(ms) \in Nat /\ Len(nodes) <= Len(ms)
            /\ DirOK(nodes, told, d)
        BY <1>1, <1>3, <3>4 DEF x
      <4>2. nodes \in Seq(NodeType)
        BY <1>1
      <4>3. \A i \in 0..End(nodes, d) : Told(told, i) = Told(told, i)
        OBVIOUS
      <4> QED
        BY <3>5, <3>7, <4>1, <4>2, <4>3, DirFrame
    <3> QED
      BY <1>1, <1>3, <3>1, <3>4, <3>8
  <2> QED
    BY <2>1, <2>2
<1>8. ClosedOK'
  <2> SUFFICES ASSUME NEW d \in Closed'
               PROVE  /\ DirOK(ms, told, d)
                      /\ \A l \in 1..(Depth - 1) :
                           d < os[l].id => End(ms, d) < os[l].id
    BY <1>1, <1>3 DEF ClosedOK, Depth, ms, os
  <2>1. d \in 1..x /\ ms[d].etype = "Dir" /\ \A l \in 1..(Depth - 1) : os[l].id # d
    BY <1>3 DEF Closed, Ids, IsDir, OpenIds, Depth, ms, os
  <2> QED
    BY <1>7, <2>1
<1> QED
  BY <1>3, <1>5, <1>8 DEF IInv, ms, x, t

LEMMA FinalizeRootKeepsIInv == ASSUME IInv, FinalizeRoot PROVE IInv'
<1>1. /\ TypeOK' /\ Len(nodes') = Len(nodes) /\ Len(open') = 0
      /\ \A i \in Ids : nodes'[i] =
           IF i = Top.id THEN Flushed(nodes[Top.id], Top) ELSE nodes[i]
  BY FinalizeRootEffect DEF IInv
<1>2. Depth = 1 /\ told' = told
  BY DEF FinalizeRoot
<1>3. /\ nodes \in Seq(NodeType) /\ Ids = 1..Len(nodes) /\ Top.id \in Ids
      /\ Top.id \in OpenIds
  BY <1>2, StateFacts DEF OpenIds
<1>4. nodes[Top.id] \in NodeType
  BY <1>3, ElementOfSeq
<1>5. LET n == Flushed(nodes[Top.id], Top)
      IN  /\ n.etype = nodes[Top.id].etype /\ n.kids = nodes[Top.id].kids
          /\ n.suberr = nodes[Top.id].suberr
          /\ n.items = SatItems(nodes[Top.id].items + Top.sub_items)
          /\ n.blocks = Sat(nodes[Top.id].blocks + Top.sub_blocks)
  BY <1>4 DEF Flushed, NodeType
<1>6. TopCloses
  BY <1>1, <1>2, <1>3, <1>5 DEF TopCloses
<1>7. ClosedOK' /\ Monotone(told')
  BY <1>6, TopCloseKeeps
<1>8. StackOK(nodes', open') /\ HandlesOK(nodes', told', open')
  BY <1>1 DEF StackOK, HandlesOK
<1> QED
  BY <1>1, <1>7, <1>8 DEF IInv

LEMMA FinalizeSubKeepsIInv == ASSUME IInv, FinalizeSub PROVE IInv'
<1> DEFINE x == Len(nodes)
           t == Top.id
           p == open[Depth - 1]
           f == Flush(Top)
           ms == nodes'
           os == open'
           u == Depth - 1
<1>1. /\ p \in HandleType /\ Received(p, Top) \in HandleType
      /\ Len(ms) = x /\ Len(os) = u /\ TypeOK' /\ told' = told
      /\ \A i \in Ids : ms[i] =
           IF i = p.id THEN [f[i] EXCEPT !.suberr = IF Top.suberr THEN TRUE ELSE @]
                       ELSE f[i]
      /\ \A l \in 1..u : os[l] = IF l = u THEN Received(p, Top) ELSE open[l]
  BY FinalizeSubEffect DEF IInv, FinalizeSub
<1>2. /\ Depth \in Nat /\ Depth > 1 /\ x \in Nat /\ Ids = 1..x /\ x <= MaxU32
      /\ nodes \in Seq(NodeType) /\ t \in 1..x /\ nodes[t].items = 0
      /\ Depth = Len(open) /\ Top = open[Depth] /\ Top \in HandleType
      /\ HandleOK(nodes, told, Top, x) /\ Depth \in 1..Depth
      /\ u \in Nat /\ u \in 1..Depth /\ u \in 1..u /\ u + 1 = Depth /\ u < Depth
      /\ \A l \in 1..Depth : open[l] \in HandleType /\ open[l].id \in 1..x
  BY StateFacts DEF FinalizeSub
<1>3. /\ \A i \in 0..x : Told(told, i) \in Nat
      /\ \A i, j \in 0..x : i <= j => Told(told, i) <= Told(told, j)
  BY StateFacts
<1>4. StackOK(nodes, open)
  BY DEF IInv
<1>5. p.id \in 1..x /\ p.id < t /\ p.id # t
  BY <1>2, <1>4 DEF StackOK
<1>6. \A i \in 1..x : f[i] = IF i = t THEN Flushed(nodes[t], Top) ELSE nodes[i]
  BY <1>2, FlushEffect DEF IInv
<1>7. /\ nodes[t] \in NodeType /\ nodes[p.id] \in NodeType
      /\ \A i \in 1..x : nodes[i] \in NodeType
  BY <1>2, <1>5, ElementOfSeq
<1>8. LET n == Flushed(nodes[t], Top)
      IN  /\ n.etype = nodes[t].etype /\ n.kids = nodes[t].kids
          /\ n.suberr = nodes[t].suberr
          /\ n.items = SatItems(nodes[t].items + Top.sub_items)
          /\ n.blocks = Sat(nodes[t].blocks + Top.sub_blocks)
  BY <1>7 DEF Flushed, NodeType
<1> HIDE DEF x, t, p, f, ms, os, u
<1>9. /\ ms[p.id].etype = nodes[p.id].etype /\ ms[p.id].kids = nodes[p.id].kids
      /\ ms[p.id].items = nodes[p.id].items /\ ms[p.id].blocks = nodes[p.id].blocks
      /\ ms[p.id].suberr = IF Top.suberr THEN TRUE ELSE nodes[p.id].suberr
  <2>1. ms[p.id] = [nodes[p.id] EXCEPT !.suberr = IF Top.suberr THEN TRUE ELSE @]
    BY <1>1, <1>2, <1>5, <1>6, ZenonT(60)
  <2> QED
    BY <1>7, <2>1 DEF NodeType
<1>10. /\ ms[t] = Flushed(nodes[t], Top)
       /\ \A i \in 1..x : i # t /\ i # p.id => ms[i] = nodes[i]
  BY <1>1, <1>2, <1>5, <1>6
<1>11. \A i \in 1..x : /\ ms[i].etype = nodes[i].etype /\ ms[i].kids = nodes[i].kids
                       /\ i # t => ms[i].items = nodes[i].items
  BY <1>8, <1>9, <1>10
<1>12. Received(p, Top).id = p.id
  BY <1>1 DEF Received, HandleType
<1>13. \A l \in 1..u : l \in 1..Depth /\ os[l].id = open[l].id
  BY <1>1, <1>2, <1>12 DEF p, u
<1>14. TopCloses
  <2>1. t \in OpenIds /\ p.id \in OpenIds
    BY <1>2 DEF OpenIds, t, p, u
  <2>2. \A i \in 1..x : i \notin OpenIds => ms[i] = nodes[i]
    BY <1>10, <2>1
  <2> QED
    BY <1>1, <1>2, <1>8, <1>10, <1>11, <1>13, <2>2 DEF TopCloses, x, t, ms, os, u
<1>15. ClosedOK' /\ Monotone(told') /\ ms[t].items = x - t
  BY <1>14, TopCloseKeeps DEF ms, t, x
<1>16. \A l \in 1..u : open[l].id # t
  BY <1>2, <1>4 DEF StackOK, t, u
<1>17. StackOK(ms, os)
  <2>1. \A l \in 1..u : ms[os[l].id].etype = "Dir" /\ ms[os[l].id].items = 0
    <3> SUFFICES ASSUME NEW l \in 1..u
                 PROVE  ms[os[l].id].etype = "Dir" /\ ms[os[l].id].items = 0
      OBVIOUS
    <3>1. /\ os[l].id = open[l].id /\ open[l].id \in 1..x /\ open[l].id # t
          /\ nodes[open[l].id].etype = "Dir" /\ nodes[open[l].id].items = 0
      BY <1>2, <1>4, <1>13, <1>16 DEF StackOK
    <3> QED
      BY <1>11, <3>1
  <2>2. \A l, m \in 1..u : l < m => os[l].id < os[m].id
    BY <1>2, <1>4, <1>13 DEF StackOK
  <2>3. \A l \in 1..(u - 1) : /\ ms[os[l].id].kids # <<>>
                              /\ LET ks == ms[os[l].id].kids
                                 IN  ks[Len(ks)] = os[l + 1].id
    <3> SUFFICES ASSUME NEW l \in 1..(u - 1)
                 PROVE  /\ ms[os[l].id].kids # <<>>
                        /\ LET ks == ms[os[l].id].kids
                           IN  ks[Len(ks)] = os[l + 1].id
      OBVIOUS
    <3>1. l \in 1..u /\ l + 1 \in 1..u /\ l \in 1..(Depth - 1)
      BY <1>2
    <3>2. ms[os[l].id].kids = nodes[open[l].id].kids /\ os[l + 1].id = open[l + 1].id
      BY <1>2, <1>11, <1>13, <3>1
    <3> QED
      BY <1>2, <1>4, <3>1, <3>2 DEF StackOK
  <2> QED
    BY <1>1, <2>1, <2>2, <2>3 DEF StackOK
<1>18. HandlesOK(ms, told, os)
  <2> SUFFICES ASSUME NEW l \in 1..u
               PROVE  HandleOK(ms, told, os[l], Reach(os, x, l))
    BY <1>1 DEF HandlesOK
  <2>1. l \in 1..Depth /\ l + 1 \in 1..Depth /\ l \in 1..(Depth - 1) /\ l # Depth
    BY <1>2
  <2>2. HandleOK(nodes, told, open[l], open[l + 1].id)
    BY <1>2, <2>1 DEF IInv, HandlesOK, Reach
  <2>3. CASE l = u
    <3>1. os[l] = Received(p, Top) /\ Reach(os, x, l) = x
      BY <1>1, <2>3 DEF Reach
    <3>2. HandleOK(nodes, told, p, Top.id)
      BY <1>2, <2>2, <2>3 DEF p, u
    <3>3. nodes[p.id].kids # <<>> /\ nodes[p.id].kids[Len(nodes[p.id].kids)] = Top.id
      BY <1>2, <1>4, <2>1, <2>3 DEF StackOK, p, u
    <3>4. /\ Top.id \in 1..x /\ p.id < Top.id /\ ms[Top.id].items = x - Top.id
          /\ \A i \in 1..x : ms[i].etype = nodes[i].etype
          /\ \A i \in 1..x : i # Top.id => ms[i].items = nodes[i].items
      BY <1>2, <1>5, <1>11, <1>15 DEF t
    <3>5. /\ nodes \in Seq(NodeType) /\ p \in HandleType /\ Top \in HandleType
          /\ x \in Nat /\ x <= MaxU32 /\ p.id \in 1..x /\ x = Len(nodes)
          /\ HandleOK(nodes, told, Top, x)
      BY <1>1, <1>2, <1>5 DEF x
    <3>6. HandleOK(ms, told, Received(p, Top), x)
      BY <1>3, <1>9, <3>2, <3>3, <3>4, <3>5, HandleReceives
    <3> QED
      BY <3>1, <3>6
  <2>4. CASE l # u
    <3> DEFINE h == open[l]
               y == open[l + 1].id
    <3>1. l + 1 \in 1..u /\ l < l + 1
      BY <1>2, <2>4
    <3>2. os[l] = h /\ Reach(os, x, l) = y
      BY <1>1, <1>13, <2>4, <3>1 DEF Reach
    <3>3. h.id < y /\ y < t /\ h.id # p.id
      BY <1>2, <1>4, <2>1, <2>4, <3>1 DEF StackOK, t, p, u
    <3>4. h \in HandleType /\ h.id \in 1..y /\ y \in 1..x /\ y \in Nat /\ h.id \in 1..x
      BY <1>2, <2>1, <3>3
    <3>5. HandleOK(nodes, told, h, y)
      BY <2>2
    <3> HIDE DEF h, y
    <3>6. ms[h.id] = nodes[h.id]
      BY <1>2, <1>10, <3>3, <3>4
    <3>7. \A i \in 1..y : ms[i].etype = nodes[i].etype /\ ms[i].items = nodes[i].items
      BY <1>2, <1>11, <3>3, <3>4
    <3>8. y <= Len(nodes)
      BY <1>2, <3>4 DEF x
    <3>9. HandleOK(ms, told, h, y)
      BY <1>2, <3>4, <3>5, <3>6, <3>7, <3>8, HandleFrame
    <3> QED
      BY <3>2, <3>9
  <2> QED
    BY <2>3, <2>4
<1> QED
  BY <1>1, <1>15, <1>17, <1>18 DEF IInv, ms, os

LEMMA SetReadErrorKeepsIInv == ASSUME IInv, SetReadError PROVE IInv'
<1> DEFINE x == Len(nodes)
           ms == nodes'
<1>1. /\ Depth > 0 /\ open' = open /\ told' = told
      /\ x \in Nat /\ Ids = 1..x /\ Depth = Len(open)
      /\ nodes \in Seq(NodeType) /\ Top.id \in 1..x
      /\ \A l \in 1..Depth : open[l].id \in 1..x
  BY StateFacts DEF SetReadError
<1>2. nodes[Top.id] \in NodeType
  BY <1>1, ElementOfSeq
<1>3. /\ Len(ms) = x /\ TypeOK'
      /\ \A i \in 1..x : ms[i] = IF i = Top.id THEN [nodes[Top.id] EXCEPT !.err = TRUE]
                                               ELSE nodes[i]
  BY <1>1, SetReadErrorEffect DEF IInv
<1>4. \A i \in 1..x : /\ ms[i].etype = nodes[i].etype /\ ms[i].kids = nodes[i].kids
                      /\ ms[i].items = nodes[i].items
                      /\ ms[i].blocks = nodes[i].blocks
                      /\ ms[i].suberr = nodes[i].suberr
  BY <1>2, <1>3 DEF NodeType
<1> HIDE DEF ms, x
<1>5. StackOK(ms, open)
  <2>1. StackOK(nodes, open)
    BY DEF IInv
  <2>2. \A l \in 1..(Len(open) - 1) : l \in 1..Depth
    BY <1>1, StateFacts
  <2>3. \A l \in 1..(Len(open) - 1) : ms[open[l].id].kids = nodes[open[l].id].kids
    BY <1>1, <1>4, <2>2
  <2> QED
    BY <1>1, <1>4, <2>1, <2>3 DEF StackOK
<1>6. HandlesOK(ms, told, open)
  <2> SUFFICES ASSUME NEW l \in 1..Depth
               PROVE  HandleOK(ms, told, open[l], Reach(open, x, l))
    BY <1>1, <1>3 DEF HandlesOK
  <2> DEFINE h == open[l]
             y == Reach(open, x, l)
  <2>1. h \in HandleType /\ h.id \in 1..y /\ y \in 1..x /\ y \in Nat
    <3>1. CASE l = Depth
      BY <1>1, <3>1, StateFacts DEF Reach
    <3>2. CASE l # Depth
      <4>1. l + 1 \in 1..Depth /\ l < l + 1
        BY <1>1, <3>2, StateFacts
      <4> QED
        BY <1>1, <3>2, <4>1, StateFacts DEF Reach, IInv, StackOK
    <3> QED
      BY <3>1, <3>2
  <2>2. HandleOK(nodes, told, h, y)
    BY <1>1 DEF IInv, HandlesOK, x
  <2>3. h.id \in 1..x /\ y <= Len(nodes) /\ \A i \in 1..y : i \in 1..x
    BY <1>1, <2>1 DEF x
  <2> HIDE DEF h, y
  <2>4. HandleOK(ms, told, h, y)
    BY <1>1, <1>4, <2>1, <2>2, <2>3, HandleFrame
  <2> QED
    BY <2>4 DEF h, y
<1>7. ClosedOK'
  <2> SUFFICES ASSUME NEW d \in Closed'
               PROVE  /\ DirOK(ms, told, d)
                      /\ \A l \in 1..Depth : d < open[l].id => End(ms, d) < open[l].id
    BY <1>1 DEF ClosedOK, Depth, ms
  <2>1. /\ d \in 1..x /\ ms[d].etype = "Dir" /\ \A l \in 1..Depth : open[l].id # d
    BY <1>1, <1>3 DEF Closed, Ids, IsDir, OpenIds, Depth, ms
  <2>2. d \in Closed /\ d # Top.id
    <3>1. Depth \in 1..Depth /\ Top = open[Depth]
      BY <1>1, StateFacts
    <3> QED
      BY <1>1, <1>4, <2>1, <3>1 DEF Closed, IsDir, OpenIds
  <2>3. /\ DirOK(nodes, told, d) /\ End(nodes, d) \in d..x
        /\ \A l \in 1..Depth : d < open[l].id => End(nodes, d) < open[l].id
    BY <2>2 DEF IInv, ClosedOK, DirOK, x
  <2>4. ms[d] = nodes[d]
    BY <1>3, <2>1, <2>2
  <2>5. \A i \in d..End(nodes, d) : ms[i].etype = nodes[i].etype /\ ms[i].items = nodes[i].items
    BY <1>1, <1>4, <2>1, <2>3
  <2>6. d \in 1..Len(nodes) /\ Len(ms) \in Nat /\ Len(nodes) <= Len(ms)
    BY <1>1, <1>3, <2>1 DEF x
  <2>7. DirOK(ms, told, d) /\ End(ms, d) = End(nodes, d)
    BY <1>1, <2>3, <2>4, <2>5, <2>6, DirFrame
  <2> QED
    BY <2>3, <2>7
<1> QED
  BY <1>1, <1>3, <1>5, <1>6, <1>7 DEF IInv, ms

LEMMA CreateRootKeepsIInv ==
  ASSUME IInv, NEW b \in Blocks, NEW v \in Devs, CreateRoot(b, v) PROVE IInv'
<1> DEFINE ms == nodes'
           us == told'
           os == open'
<1>1. /\ Len(ms) = 1 /\ ms[1] = Node("Dir", b, NoEntry, DevId(v))
      /\ Len(os) = 1 /\ os[1] = Handle(1) /\ os[1].id = 1
      /\ Len(us) = 1 /\ us[1] = b /\ TypeOK' /\ b \in Nat
  BY CreateRootEffect, SinkAssumption DEF IInv, Handle
<1>2. /\ ms[1].etype = "Dir" /\ ms[1].items = 0 /\ ms[1].kids = <<>>
      /\ ms[1].suberr = FALSE /\ ms[1].blocks = b
  BY <1>1 DEF Node
<1>3. Told(us, 0) = 0 /\ Told(us, 1) = b
  BY <1>1 DEF Told
<1> HIDE DEF ms, us, os
<1>4. Monotone(us)
  BY <1>1, <1>3 DEF Monotone
<1>5. StackOK(ms, os)
  BY <1>1, <1>2 DEF StackOK
<1>6. HandlesOK(ms, us, os)
  <2>1. HandleOK(ms, us, Handle(1), 1)
    <3>1. 1 \in Nat /\ 1 - 1 = 0 /\ 0 + b = b /\ 0 \in Nat
      BY <1>1
    <3> QED
      BY <1>1, <1>2, <1>3, <3>1, HandleStarts
  <2> QED
    BY <1>1, <2>1 DEF HandlesOK, Reach
<1>7. ClosedOK'
  <2>1. Closed' = {}
    BY <1>1 DEF Closed, Ids, OpenIds, Depth, ms, os
  <2> QED
    BY <2>1 DEF ClosedOK
<1> QED
  BY <1>1, <1>4, <1>5, <1>6, <1>7 DEF IInv, ms, us, os

----------------------------------------------------------------------------
LEMMA IInvInit == Init => IInv
<1> SUFFICES ASSUME Init PROVE IInv
  OBVIOUS
<1>1. TypeOK
  BY SinkAssumption DEF Init, TypeOK, Depth
<1> QED
  BY <1>1 DEF Init, IInv, StackOK, HandlesOK, ClosedOK, Closed, Ids, Monotone, Told

LEMMA IInvStep == IInv /\ [Next]_vars => IInv'
<1> SUFFICES ASSUME IInv, [Next]_vars PROVE IInv'
  OBVIOUS
<1>0. CASE UNCHANGED vars
  BY <1>0 DEF IInv, TypeOK, ClosedOK, Closed, Ids, IsDir, OpenIds, Depth, vars
<1>1. ASSUME NEW b \in Blocks, NEW v \in Devs, CreateRoot(b, v) PROVE IInv'
  BY <1>1, CreateRootKeepsIInv
<1>2. CASE SetReadError
  BY <1>2, SetReadErrorKeepsIInv
<1>3. ASSUME NEW sp \in Specials, AddSpecial(sp) PROVE IInv'
  <2> DEFINE new == Node(sp, 0, ParentField(sp, Top.id), 0)
  <2>1. EntryAdded(sp, 0, new) /\ TypeOK' /\ CanAdd
    BY <1>3, AddSpecialEffect DEF IInv, AddSpecial
  <2>2. /\ new.etype = sp /\ new.items = 0 /\ new.kids = <<>>
        /\ new.suberr = FALSE /\ new.blocks = 0
    BY DEF Node
  <2> HIDE DEF new
  <2> QED
    BY <2>1, <2>2, AddKeepsIInv
<1>4. ASSUME NEW t \in FileTypes, NEW b \in Blocks, AddStat(t, b) PROVE IInv'
  <2> DEFINE new == Node(t, b, ParentField(t, Top.id), 0)
             c == Counted(t, b)
  <2>1. EntryAdded(t, c, new) /\ TypeOK' /\ CanAdd
    BY <1>4, AddStatEffect DEF IInv, AddStat
  <2>2. /\ new.etype = t /\ new.items = 0 /\ new.kids = <<>>
        /\ new.suberr = FALSE /\ t # "Dir"
    BY DEF Node, FileTypes
  <2>3. c \in Nat
    BY SinkAssumption DEF Counted
  <2> HIDE DEF new, c
  <2> QED
    BY <2>1, <2>2, <2>3, AddKeepsIInv
<1>5. ASSUME NEW b \in Blocks, NEW v \in Devs, AddDir(b, v) PROVE IInv'
  <2> DEFINE new == Node("Dir", b, Top.id, DevId(v))
  <2>1. EntryAdded("Dir", b, new) /\ TypeOK' /\ CanAdd
    BY <1>5, AddDirEffect DEF IInv, AddDir
  <2>2. /\ new.etype = "Dir" /\ new.items = 0 /\ new.kids = <<>>
        /\ new.suberr = FALSE /\ new.blocks = b
    BY DEF Node
  <2>3. b \in Nat
    BY SinkAssumption
  <2> HIDE DEF new
  <2> QED
    BY <2>1, <2>2, <2>3, AddKeepsIInv
<1>6. CASE FinalizeSub
  BY <1>6, FinalizeSubKeepsIInv
<1>7. CASE FinalizeRoot
  BY <1>7, FinalizeRootKeepsIInv
<1> QED
  BY <1>0, <1>1, <1>2, <1>3, <1>4, <1>5, <1>6, <1>7 DEF Next

(* The inductive invariant: what the parts of it say of every handle and of  *)
(* every finalized directory holds in every state of the sink.               *)
THEOREM Inductive == Spec => []IInv
BY IInvInit, IInvStep, PTL DEF Spec

(* Every finalized directory's list tiles the range of ids after it, as long *)
(* as its item count (create, link_child, add_*, finalize).                  *)
THEOREM ListsTileSubtrees == Spec => []SubtreeIsRange
<1>1. IInv => SubtreeIsRange
  BY DEF IInv, TypeOK, ClosedOK, DirOK, Tiles, SubtreeIsRange
<1> QED
  BY <1>1, Inductive, PTL

(* Every finalized directory's total is the saturated sum of what was        *)
(* reported for its subtree, hard links excepted (add_stat, add_dir,         *)
(* finalize).                                                                *)
THEOREM TotalsAreSums == Spec => []TotalsExact
<1>1. IInv => TotalsExact
  BY DEF IInv, ClosedOK, DirOK, TotalsExact
<1> QED
  BY <1>1, Inductive, PTL

(* Every finalized directory's suberr tells of the error markers below it    *)
(* (add_special, finalize).                                                  *)
THEOREM SuberrTellsMarkers == Spec => []SuberrExact
<1>1. IInv => SuberrExact
  BY DEF IInv, ClosedOK, DirOK, SuberrExact
<1> QED
  BY <1>1, Inductive, PTL
----------------------------------------------------------------------------
(* The item counts in the reader's terms: the subtree that the child lists    *)
(* span below a finalized directory, a recursive function of the arena, is    *)
(* the range of ids its `items' says.                                        *)

(* Nothing is below an entry that is not a directory, and no read of it failed.  *)
Leafless ==
  \A i \in Ids : ~IsDir(i) => /\ nodes[i].kids = <<>> /\ nodes[i].items = 0
                              /\ nodes[i].err = FALSE

LEMMA LeaflessInit == Init => Leafless
BY DEF Init, Leafless, Ids

LEMMA LeaflessStep == IInv /\ Leafless /\ [Next]_vars => Leafless'
<1> SUFFICES ASSUME IInv, Leafless, Next, ~UNCHANGED vars PROVE Leafless'
  BY DEF Leafless, vars, Ids, IsDir
<1>1. TypeOK /\ \A i \in OpenIds : IsDir(i)
  BY DEF IInv, StackOK, OpenIds, IsDir, Depth
<1>2. ASSUME NEW i \in Ids, SameEntry(i), ~IsDir(i)'
      PROVE  nodes'[i].kids = <<>> /\ nodes'[i].items = 0 /\ nodes'[i].err = FALSE
  <2>1. ~IsDir(i) /\ i \notin OpenIds
    BY <1>1, <1>2 DEF SameEntry, IsDir
  <2>2. nodes'[i] = nodes[i]
    BY <1>1, <2>1, OthersStay
  <2> QED
    BY <2>1, <2>2 DEF Leafless
<1>3. CASE NoneMore
  BY <1>2, <1>3 DEF NoneMore, Leafless
<1>4. ASSUME NEW e, NEW v, OneMore(e, v) PROVE Leafless'
  BY <1>2, <1>4 DEF OneMore, Leafless
<1>5. CASE nodes = <<>>
  <2>1. PICK b \in Blocks, v \in Devs : CreateRoot(b, v)
    BY <1>1, <1>5, FirstStep
  <2>2. Ids' = {1} /\ nodes'[1].etype = "Dir"
    <3>1. Len(nodes') = 1 /\ nodes'[1] = Node("Dir", b, NoEntry, DevId(v))
      BY <1>1, <2>1, CreateRootEffect
    <3>2. Node("Dir", b, NoEntry, DevId(v)).etype = "Dir"
      BY DEF Node
    <3> QED
      BY <3>1, <3>2 DEF Ids
  <2> QED
    BY <2>2 DEF Leafless, IsDir
<1> QED
  BY <1>1, <1>3, <1>4, <1>5, Steps

(* A list only holds entries that were added after its directory.             *)
LEMMA KidsComeLater ==
  ASSUME IInv, Leafless, NEW i \in Ids
  PROVE  /\ nodes[i].kids \in Seq(Nat) /\ nodes[i].items \in Nat
         /\ \A k \in 1..Len(nodes[i].kids) : nodes[i].kids[k] \in (i + 1)..Len(nodes)
<1>1. /\ Depth \in Nat /\ Depth = Len(open) /\ Ids = 1..Len(nodes) /\ Len(nodes) \in Nat
      /\ nodes \in Seq(NodeType)
      /\ \A l \in 1..Depth : open[l].id \in 1..Len(nodes)
  BY StateFacts
<1>2. nodes[i].kids \in Seq(Nat) /\ nodes[i].items \in Nat
  BY <1>1, NodeFields
<1>3. ASSUME NEW x \in Nat, x <= Len(nodes), Tiles(nodes, i, nodes[i].kids, x),
             NEW k \in 1..Len(nodes[i].kids)
      PROVE  nodes[i].kids[k] \in (i + 1)..Len(nodes)
  BY <1>1, <1>3 DEF Tiles
<1>4. CASE ~IsDir(i)
  BY <1>2, <1>4 DEF Leafless
<1>5. CASE i \in OpenIds
  <2>1. PICK l \in 1..Depth : i = open[l].id
    BY <1>5 DEF OpenIds
  <2>2. PICK x \in Nat : x = Reach(open, Len(nodes), l) /\ x <= Len(nodes)
    <3>1. l = Len(open) \/ l + 1 \in 1..Depth
      BY <1>1
    <3> QED
      BY <1>1, <3>1 DEF Reach
  <2>3. Tiles(nodes, i, nodes[i].kids, x)
    BY <1>1, <2>1, <2>2 DEF IInv, HandlesOK, HandleOK
  <2> QED
    BY <1>2, <1>3, <2>2, <2>3
<1>6. CASE i \in Closed
  <2>1. DirOK(nodes, told, i)
    BY <1>6 DEF IInv, ClosedOK
  <2>2. End(nodes, i) \in Nat /\ End(nodes, i) <= Len(nodes)
    BY <1>1, <2>1 DEF DirOK
  <2> QED
    BY <1>2, <1>3, <2>1, <2>2 DEF DirOK
<1> QED
  BY <1>4, <1>5, <1>6 DEF Closed

----------------------------------------------------------------------------
(* The recursive function exists: it can be built from the last entry on.      *)
Below(f, i) ==
  {i} \cup UNION {f[nodes[i].kids[k]] : k \in 1..Len(nodes[i].kids)}

LEMMA BelowLocal ==
  ASSUME IInv, Leafless, NEW i \in Ids, NEW f, NEW g,
         \A j \in (i + 1)..Len(nodes) : f[j] = g[j]
  PROVE  Below(f, i) = Below(g, i)
<1>1. \A k \in 1..Len(nodes[i].kids) : f[nodes[i].kids[k]] = g[nodes[i].kids[k]]
  BY KidsComeLater
<1> QED
  BY <1>1 DEF Below

LEMMA SubtreeUnfolds ==
  ASSUME IInv, Leafless
  PROVE  \A i \in Ids : Subtree[i] = Below(Subtree, i)
<1>n. PICK n \in Nat : n = Len(nodes) /\ Ids = 1..n
  BY StateFacts
<1> DEFINE Solves(f, k) == \A i \in (n + 1 - k)..n : f[i] = Below(f, i)
           Solved == {k \in Nat : k <= n => \E f : Solves(f, k)}
<1>1. 0 \in Solved
  OBVIOUS
<1>2. ASSUME NEW k \in Nat, k \in Solved PROVE k + 1 \in Solved
  <2>1. SUFFICES ASSUME k + 1 <= n PROVE \E g : Solves(g, k + 1)
    OBVIOUS
  <2>2. PICK f : Solves(f, k)
    BY <1>2, <2>1
  <2>3. PICK m \in 1..n : m = n - k /\ m = n + 1 - (k + 1) /\ m + 1 = n + 1 - k
    BY <2>1
  <2> DEFINE g == [i \in m..n |-> IF i = m THEN Below(f, m) ELSE f[i]]
  <2>4. g[m] = Below(f, m) /\ \A i \in (m + 1)..n : g[i] = f[i]
    <3> HIDE DEF Solves
    <3> QED  OBVIOUS
  <2> HIDE DEF g
  <2>5. ASSUME NEW i \in m..n PROVE g[i] = Below(g, i)
    <3>1. i \in Ids /\ \A j \in (i + 1)..Len(nodes) : f[j] = g[j]
      BY <1>n, <2>4
    <3>2. Below(f, i) = Below(g, i)
      <4> HIDE DEF Solves
      <4> QED  BY <3>1, BelowLocal
    <3>3. i = m \/ i \in (m + 1)..n
      OBVIOUS
    <3> QED
      BY <2>2, <2>3, <2>4, <3>2, <3>3
  <2> QED
    BY <2>3, <2>5
<1>3. n \in Solved
  <2> HIDE DEF Solved
  <2> QED  BY <1>1, <1>2, SetInduction
<1>4. PICK f : Solves(f, n)
  BY <1>3
<1> DEFINE h == [i \in Ids |-> f[i]]
<1>5. \A i \in Ids : h[i] = Below(h, i)
  <2> SUFFICES ASSUME NEW i \in Ids PROVE h[i] = Below(h, i)
    OBVIOUS
  <2>1. f[i] = Below(f, i)
    BY <1>4, <1>n
  <2>2. \A j \in (i + 1)..Len(nodes) : f[j] = h[j]
    BY <1>n
  <2> HIDE DEF h, Solves
  <2>3. Below(f, i) = Below(h, i)
    BY <2>2, BelowLocal
  <2> QED
    BY <2>1, <2>3 DEF h
<1>6. h = [i \in Ids |-> Below(h, i)]
  <2>1. \A i \in Ids : h[i] = Below(h, i)
    BY <1>5
  <2> QED
    BY <2>1
<1> HIDE DEF h, Solves, Solved
<1> DEFINE s == CHOOSE sub : sub = [i \in Ids |-> Below(sub, i)]
<1>7. s = [i \in Ids |-> Below(s, i)]
  BY <1>6
<1>8. Subtree = s
  BY DEF Subtree, Below
<1> HIDE DEF s
<1> QED
  BY <1>7, <1>8

----------------------------------------------------------------------------
(* A list that tiles a range covers it with the ranges of its entries.         *)
Ranges(ns, ks) == UNION {ks[i]..End(ns, ks[i]) : i \in 1..Len(ks)}

LEMMA TilesCover ==
  ASSUME NEW ns, NEW d \in Nat, NEW ks \in Seq(Nat), NEW x \in Nat, d <= x,
         Tiles(ns, d, ks, x), \A i \in 1..Len(ks) : ns[ks[i]].items \in Nat
  PROVE  Ranges(ns, ks) = (d + 1)..x
<1>1. PICK n \in Nat : n = Len(ks)
  OBVIOUS
<1>2. \A i \in 1..n : /\ ks[i] \in Nat /\ End(ns, ks[i]) \in Nat
                      /\ d + 1 <= ks[i] /\ End(ns, ks[i]) <= x
  BY <1>1 DEF Tiles, End
<1>3. ASSUME NEW j, NEW i \in 1..n, j \in ks[i]..End(ns, ks[i])
      PROVE  j \in (d + 1)..x
  BY <1>2, <1>3
<1>4. ASSUME NEW j \in (d + 1)..x PROVE \E i \in 1..n : j \in ks[i]..End(ns, ks[i])
  <2> DEFINE Covered == {m \in Nat : m \in 1..n /\ j <= End(ns, ks[m]) =>
                           \E i \in 1..n : j \in ks[i]..End(ns, ks[i])}
  <2>1. ks # <<>> /\ n \in 1..n
    <3>1. ks # <<>>
      BY <1>4 DEF Tiles, Fills
    <3> QED
      BY <1>1, <3>1
  <2>2. /\ ks[1] = d + 1 /\ End(ns, ks[n]) = x
        /\ \A i \in 1..(n - 1) : ks[i + 1] = End(ns, ks[i]) + 1
    BY <1>1, <2>1 DEF Tiles, Fills
  <2>3. 0 \in Covered
    OBVIOUS
  <2>4. ASSUME NEW m \in Nat, m \in Covered PROVE m + 1 \in Covered
    <3>1. SUFFICES ASSUME m + 1 \in 1..n, j <= End(ns, ks[m + 1])
                   PROVE  \E i \in 1..n : j \in ks[i]..End(ns, ks[i])
      OBVIOUS
    <3>2. CASE ks[m + 1] <= j
      BY <1>2, <3>1, <3>2
    <3>3. CASE m \in 1..(n - 1) /\ j < ks[m + 1]
      <4>1. j <= End(ns, ks[m])
        BY <1>2, <2>2, <3>3
      <4> QED
        BY <2>4, <3>3, <4>1
    <3>4. CASE m = 0
      <4>1. ks[m + 1] = d + 1
        BY <2>2, <3>4
      <4> QED
        BY <3>2, <4>1
    <3>5. m = 0 \/ m \in 1..(n - 1)
      BY <3>1
    <3>6. ks[m + 1] <= j \/ j < ks[m + 1]
      BY <1>2, <3>1
    <3> QED
      BY <3>2, <3>3, <3>4, <3>5, <3>6
  <2>5. n \in Covered
    <3> HIDE DEF Covered
    <3> QED  BY <2>3, <2>4, SetInduction
  <2> QED
    BY <2>1, <2>2, <2>5
<1>5. \A j : j \in (d + 1)..x <=> \E i \in 1..n : j \in ks[i]..End(ns, ks[i])
  BY <1>3, <1>4
<1>6. \A j : j \in Ranges(ns, ks) <=> \E i \in 1..n : j \in ks[i]..End(ns, ks[i])
  BY <1>1 DEF Ranges
<1> QED
  BY <1>5, <1>6

(* The subtree of everything that is not open is the range of its ids.         *)
LEMMA SubtreesAreRanges ==
  ASSUME IInv, Leafless
  PROVE  \A i \in Ids : i \notin OpenIds => Subtree[i] = i..End(nodes, i)
<1>n. PICK n \in Nat : n = Len(nodes) /\ Ids = 1..n
  BY StateFacts
<1> DEFINE Full(i) == i \notin OpenIds => Subtree[i] = i..End(nodes, i)
           Done == {k \in Nat : \A i \in Ids : i > n - k => Full(i)}
<1>1. 0 \in Done
  BY <1>n
<1>2. ASSUME NEW k \in Nat, k \in Done PROVE k + 1 \in Done
  <2> SUFFICES ASSUME NEW i \in Ids, i > n - (k + 1), i \notin OpenIds
               PROVE  Subtree[i] = i..End(nodes, i)
    BY DEF Full
  <2>1. \A j \in Ids : j > i => Full(j)
    <3>1. \A j \in Ids : j > i => j > n - k
      BY <1>n
    <3> QED
      BY <1>2, <3>1
  <2>2. Subtree[i] = Below(Subtree, i)
    BY SubtreeUnfolds
  <2>3. CASE ~IsDir(i)
    <3>1. Len(nodes[i].kids) = 0 /\ nodes[i].items = 0
      BY <2>3 DEF Leafless
    <3>2. Below(Subtree, i) = {i}
      BY <3>1 DEF Below
    <3>3. i..End(nodes, i) = {i}
      BY <1>n, <3>1 DEF End
    <3> QED
      BY <2>2, <3>2, <3>3
  <2>4. CASE IsDir(i)
    <3> DEFINE ks == nodes[i].kids
               x == End(nodes, i)
    <3>1. /\ i \in Closed /\ DirOK(nodes, told, i)
          /\ \A l \in 1..Depth : i < open[l].id => x < open[l].id
      BY <2>4 DEF Closed, IInv, ClosedOK
    <3>2. i \in Nat /\ x \in Nat /\ i <= x /\ x <= n /\ Tiles(nodes, i, ks, x)
      BY <1>n, <3>1 DEF DirOK
    <3>3. ks \in Seq(Nat) /\ \A m \in 1..Len(ks) : ks[m] \in (i + 1)..n
      BY <1>n, KidsComeLater
    <3>4. \A m \in 1..Len(ks) : ks[m] \in Ids /\ ks[m] > i /\ nodes[ks[m]].items \in Nat
      BY <1>n, <3>3, KidsComeLater
    <3> HIDE DEF ks, x
    <3>5. \A m \in 1..Len(ks) : ks[m] \notin OpenIds
      <4> SUFFICES ASSUME NEW m \in 1..Len(ks), NEW l \in 1..Depth, ks[m] = open[l].id
                   PROVE  FALSE
        BY DEF OpenIds
      <4>1. End(nodes, ks[m]) <= x /\ ks[m] <= End(nodes, ks[m])
        BY <3>2, <3>3, <3>4 DEF Tiles, End
      <4>2. x < ks[m]
        BY <3>1, <3>4
      <4>3. End(nodes, ks[m]) \in Nat /\ ks[m] \in Nat
        BY <3>3, <3>4 DEF End
      <4> QED
        BY <3>2, <4>1, <4>2, <4>3
    <3>6. \A m \in 1..Len(ks) : Subtree[ks[m]] = ks[m]..End(nodes, ks[m])
      BY <2>1, <3>4, <3>5 DEF Full
    <3>7. Ranges(nodes, ks) = (i + 1)..x
      <4>1. /\ i \in Nat /\ ks \in Seq(Nat) /\ x \in Nat /\ i <= x
            /\ Tiles(nodes, i, ks, x)
            /\ \A m \in 1..Len(ks) : nodes[ks[m]].items \in Nat
        BY <3>2, <3>3, <3>4
      <4> QED
        BY <4>1, TilesCover
    <3>8. Below(Subtree, i) = {i} \cup (i + 1)..x
      <4>1. Below(Subtree, i) = {i} \cup UNION {Subtree[ks[m]] : m \in 1..Len(ks)}
        BY DEF Below, ks
      <4>2. UNION {Subtree[ks[m]] : m \in 1..Len(ks)} = Ranges(nodes, ks)
        BY <3>6 DEF Ranges
      <4> QED
        BY <3>7, <4>1, <4>2
    <3>9. {i} \cup (i + 1)..x = i..x
      BY <3>2
    <3> QED
      BY <2>2, <3>8, <3>9 DEF x
  <2> QED
    BY <2>3, <2>4
<1>3. n \in Done
  <2> HIDE DEF Done
  <2> QED  BY <1>1, <1>2, SetInduction
<1> QED
  BY <1>3, <1>n

----------------------------------------------------------------------------
(* What the walkers know of the sink: the kind, the error mark and the list of   *)
(* every entry, and the directories that are open.                             *)
PutsEntry(k) ==
  /\ Depth > 0 /\ Len(nodes') = NewId /\ ~nodes[Top.id].err
  /\ nodes'[NewId].etype = k /\ nodes'[NewId].kids = <<>> /\ nodes'[NewId].err = FALSE
  /\ \A i \in Ids : /\ nodes'[i].etype = nodes[i].etype
                    /\ nodes'[i].err = nodes[i].err
                    /\ nodes'[i].kids = IF i = Top.id THEN Append(nodes[i].kids, NewId)
                                                      ELSE nodes[i].kids
  /\ Len(open') = IF k = "Dir" THEN Depth + 1 ELSE Depth
  /\ \A l \in 1..Depth : open'[l].id = open[l].id
  /\ k = "Dir" => open'[Depth + 1].id = NewId

LEMMA EntryPut ==
  ASSUME TypeOK, NEW k, NEW b, NEW w \in Nat, NEW v, CanAdd,
         EntryAdded(k, w, Node(k, b, ParentField(k, Top.id), v))
  PROVE  PutsEntry(k)
<1>1. /\ Depth > 0 /\ Depth \in Nat /\ Top.id \in Ids /\ nodes[Top.id] \in NodeType
      /\ Depth \in 1..Depth /\ Top = open[Depth]
  BY TopType, LenProperties DEF CanAdd, TypeOK, Depth, Top
<1>2. OneMore(k, v)
  BY <1>1, EntryIsOneMore
<1>3. TopWith(k).err = nodes[Top.id].err
  BY <1>1 DEF TopWith, NodeType
<1>4. \A i \in Ids : nodes'[i].err = nodes[i].err
  BY <1>3 DEF EntryAdded
<1>5. nodes'[NewId].err = FALSE
  BY DEF EntryAdded, Node
<1>6. Counting(Top, k, w).id = Top.id
  BY <1>1, CountingType
<1>7. \A l \in 1..Depth : open'[l].id = open[l].id
  BY <1>1, <1>6 DEF EntryAdded
<1>8. k = "Dir" => open'[Depth + 1].id = NewId
  BY DEF EntryAdded, Handle
<1> QED
  BY <1>1, <1>2, <1>4, <1>5, <1>7, <1>8
     DEF PutsEntry, OneMore, SameEntry, EntryAdded, CanAdd

LEMMA AddsPut ==
  ASSUME TypeOK, NEW k,
         \/ k \in Specials /\ AddSpecial(k)
         \/ k \in FileTypes /\ \E b \in Blocks : AddStat(k, b)
         \/ k = "Dir" /\ \E b \in Blocks, v \in Devs : AddDir(b, v)
  PROVE  PutsEntry(k) /\ Next
<1>1. ASSUME k \in Specials, AddSpecial(k) PROVE PutsEntry(k) /\ Next
  <2>1. EntryAdded(k, 0, Node(k, 0, ParentField(k, Top.id), 0)) /\ CanAdd
    BY <1>1, AddSpecialEffect DEF AddSpecial
  <2> QED
    BY <1>1, <2>1, EntryPut DEF Next
<1>2. ASSUME k \in FileTypes, NEW b \in Blocks, AddStat(k, b) PROVE PutsEntry(k) /\ Next
  <2>1. EntryAdded(k, Counted(k, b), Node(k, b, ParentField(k, Top.id), 0)) /\ CanAdd
    BY <1>2, AddStatEffect DEF AddStat
  <2>2. Counted(k, b) \in Nat
    BY SinkAssumption DEF Counted
  <2> QED
    BY <1>2, <2>1, <2>2, EntryPut DEF Next
<1>3. ASSUME k = "Dir", NEW b \in Blocks, NEW v \in Devs, AddDir(b, v)
      PROVE  PutsEntry(k) /\ Next
  <2>1. ParentField(k, Top.id) = Top.id /\ b \in Nat
    BY <1>3, SinkAssumption DEF ParentField
  <2>2. EntryAdded(k, b, Node(k, b, ParentField(k, Top.id), DevId(v))) /\ CanAdd
    BY <1>3, <2>1, AddDirEffect DEF AddDir
  <2> QED
    BY <1>3, <2>1, <2>2, EntryPut DEF Next
<1> QED
  BY <1>1, <1>2, <1>3

(* finalize leaves all of this alone, but for the directory that it closes.      *)
SameEntries ==
  /\ Len(nodes') = Len(nodes)
  /\ \A i \in Ids : /\ nodes'[i].etype = nodes[i].etype
                    /\ nodes'[i].err = nodes[i].err
                    /\ nodes'[i].kids = nodes[i].kids

LEMMA FlushErr ==
  ASSUME TypeOK, Depth > 0, NEW i \in Ids
  PROVE  Flush(Top)[i].err = nodes[i].err
<1>1. nodes[Top.id] \in NodeType
  BY TopType
<1>2. Flushed(nodes[Top.id], Top).err = nodes[Top.id].err
  BY <1>1 DEF Flushed, NodeType
<1> QED
  BY <1>2, FlushEffect

LEMMA Closes ==
  ASSUME TypeOK, FinalizeSub \/ FinalizeRoot
  PROVE  /\ SameEntries /\ Depth > 0 /\ Next
         /\ Len(open') = Depth - 1
         /\ \A l \in 1..(Depth - 1) : open'[l].id = open[l].id
<1>0. Depth \in Nat
  BY LenProperties DEF TypeOK, Depth
<1>1. Depth > 0 /\ Depth \in Nat
  BY <1>0 DEF FinalizeSub, FinalizeRoot
<1>2. \A i \in Ids : /\ Flush(Top)[i] \in NodeType
                     /\ Flush(Top)[i].etype = nodes[i].etype
                     /\ Flush(Top)[i].err = nodes[i].err
                     /\ Flush(Top)[i].kids = nodes[i].kids
  BY <1>1, FlushSame, FlushErr
<1>3. CASE FinalizeSub
  <2> DEFINE f == Flush(Top)
             p == open[Depth - 1]
  <2>1. /\ Len(nodes') = Len(nodes)
        /\ \A i \in Ids : nodes'[i] =
             IF i = p.id THEN [f[i] EXCEPT !.suberr = IF Top.suberr THEN TRUE ELSE @]
                         ELSE f[i]
        /\ Len(open') = Depth - 1
        /\ \A l \in 1..(Depth - 1) : open'[l] =
             IF l = Depth - 1 THEN Received(p, Top) ELSE open[l]
        /\ p \in HandleType
    BY <1>3, FinalizeSubEffect
  <2>2. Received(p, Top).id = p.id
    BY <2>1 DEF Received, HandleType
  <2>f. \A i \in Ids : /\ f[i] \in NodeType /\ f[i].etype = nodes[i].etype
                       /\ f[i].err = nodes[i].err /\ f[i].kids = nodes[i].kids
    BY <1>2
  <2> HIDE DEF f, p
  <2>3. SameEntries
    BY <2>f, <2>1 DEF SameEntries, NodeType
  <2>4. \A l \in 1..(Depth - 1) : open'[l].id = open[l].id
    BY <2>1, <2>2 DEF p
  <2> QED
    BY <1>1, <1>3, <2>1, <2>3, <2>4 DEF Next
<1>4. CASE FinalizeRoot
  <2>1. nodes' = Flush(Top) /\ Len(nodes') = Len(nodes) /\ Len(open') = 0 /\ Depth = 1
    BY <1>4, FinalizeRootEffect DEF FinalizeRoot
  <2> QED
    BY <1>1, <1>2, <1>4, <2>1 DEF SameEntries, Next
<1> QED
  BY <1>3, <1>4
=============================================================================
