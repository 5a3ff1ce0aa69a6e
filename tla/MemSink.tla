------------------------------- MODULE MemSink -------------------------------
(***************************************************************************)
(* The in-memory sink (sink.rs) and the arena it fills (model.rs).         *)
(*                                                                         *)
(* Both walkers, scan_dir in scan.rs and emit in scan_parallel.rs, drive   *)
(* the sink depth first: they add entries to the directory they are in,    *)
(* descend with add_dir, and finalize that handle before they touch its    *)
(* parent again.  `open' is the stack of live MemSinkDir handles.          *)
(*                                                                         *)
(* Abstractions.  An EntryId k of the code is k + 1 here, and EntryId::NONE *)
(* is NoEntry.  The sub/next chain of a directory is the sequence `kids'    *)
(* (module ChildChain relates the two).  Names and Ext metadata are not    *)
(* modelled.  `size' is handled statement for statement like `blocks', so  *)
(* blocks stands for both.  aggregate_stats is never set to false.         *)
(***************************************************************************)
EXTENDS Integers, Sequences

CONSTANTS
  Blocks,    (* block counts an lstat may report                           *)
  Devs,      (* st_dev values                                              *)
  MaxU64,    (* where the u64 totals saturate                              *)
  MaxU32,    (* where the u32 item counts saturate or wrap                 *)
  MaxNodes   (* bound: entries one scan puts in the arena                  *)

ASSUME SinkAssumption ==
  /\ MaxU64 \in Nat /\ Blocks \subseteq 0..MaxU64
  /\ MaxU32 \in Nat /\ MaxNodes \in Nat
  /\ MaxNodes <= MaxU32              \* EntryId and the item counts are u32

VARIABLES
  nodes,     (* Tree::nodes                                                *)
  devices,   (* Devices::list; `lookup' is its inverse                     *)
  open,      (* the live MemSinkDir handles, the innermost last            *)
  told       (* history: running total of the blocks the walker reported   *)
             (* and that count, entry by entry                             *)

vars == <<nodes, devices, open, told>>

NoEntry == 0
Specials == {"Err", "Pattern"}           \* the markers the walkers emit
FileTypes == {"Reg", "NonReg", "Link"}

----------------------------------------------------------------------------
(* Numbers of the code's widths.                                            *)
UncheckedAdd(n) == n                                            \* mutant of Sat
Sat(n) == IF n > MaxU64 THEN MaxU64 ELSE n
SatItems(n) == IF n > MaxU32 THEN MaxU32 ELSE n
WrapItems(n) == n % (MaxU32 + 1)

(* Devices::get_id: the position of dev in the list once it is there.       *)
DevKnown(dev) == \E i \in 1..Len(devices) : devices[i] = dev
AlwaysPush(dev) == Append(devices, dev)                    \* mutant of DevTable
DevTable(dev) == IF DevKnown(dev) THEN devices ELSE Append(devices, dev)
DevId(dev) == IF DevKnown(dev)
              THEN CHOOSE i \in 1..Len(devices) : devices[i] = dev
              ELSE Len(devices) + 1

Node(etype, blocks, parent, dev) ==
  [etype |-> etype, blocks |-> blocks, parent |-> parent, dev |-> dev,
   kids |-> <<>>, items |-> 0, err |-> FALSE, suberr |-> FALSE]

Handle(id) == [id |-> id, sub_blocks |-> 0, sub_items |-> 0, suberr |-> FALSE]

Depth == Len(open)
Top == open[Depth]
NewId == Len(nodes) + 1

(* What an added entry contributes to the totals: hard links nothing.       *)
Counted(etype, blocks) == IF etype = "Link" THEN 0 ELSE blocks

Told(ts, n) == IF n = 0 THEN 0 ELSE ts[n]

(* The parent field: File nodes have none.                                  *)
DirParentOnly(etype, d) == IF etype = "Dir" THEN d ELSE NoEntry  \* mutant
ParentField(etype, d) == IF etype \in {"Dir", "Link"} THEN d ELSE NoEntry

(* link_child puts the new entry at the end of the directory's list.        *)
LinkFirst(ns, d, child) == [ns EXCEPT ![d].kids = <<child>> \o @]    \* mutant
LinkNewest(ns, d, child) ==                                         \* mutant
  LET newest == CHOOSE i \in 1..Len(ns) : /\ ns[i].etype = "Dir"
                                          /\ \A j \in 1..Len(ns) :
                                               ns[j].etype = "Dir" => j <= i
  IN  [ns EXCEPT ![newest].kids = Append(@, child)]
LinkChild(ns, d, child) == [ns EXCEPT ![d].kids = Append(@, child)]

----------------------------------------------------------------------------
Init ==
  /\ nodes = <<>> /\ devices = <<>> /\ open = <<>> /\ told = <<>>

CreateRoot(blocks, dev) ==
  /\ nodes = <<>> /\ NewId <= MaxNodes
  /\ devices' = DevTable(dev)
  /\ nodes' = <<Node("Dir", blocks, NoEntry, DevId(dev))>>
  /\ open' = <<Handle(1)>>
  /\ told' = <<blocks>>

(* A walker may add to the innermost directory unless its read_dir failed.  *)
CanAdd == Depth > 0 /\ NewId <= MaxNodes /\ ~nodes[Top.id].err

(* read_dir failed: the caller records it before adding any entry.          *)
SetReadError ==
  /\ Depth > 0 /\ nodes[Top.id].kids = <<>> /\ ~nodes[Top.id].err
  /\ nodes' = [nodes EXCEPT ![Top.id].err = TRUE]
  /\ UNCHANGED <<devices, open, told>>

(* The handle counts one more entry, b of whose blocks count.               *)
Counting(h, e, b) ==
  [h EXCEPT !.sub_items = WrapItems(@ + 1),
            !.sub_blocks = Sat(@ + b),
            !.suberr = IF e = "Err" THEN TRUE ELSE @]

AddSpecial(sp) ==
  /\ CanAdd
  /\ LET linked == LinkChild(nodes, Top.id, NewId)
         marked == [linked EXCEPT ![Top.id].suberr = IF sp = "Err" THEN TRUE ELSE @]
     IN  nodes' = Append(marked, Node(sp, 0, ParentField(sp, Top.id), 0))
  /\ open' = [open EXCEPT ![Depth] = Counting(@, sp, 0)]
  /\ told' = Append(told, Told(told, Len(told)) + 0)
  /\ UNCHANGED devices

AddStat(etype, blocks) ==
  /\ CanAdd
  /\ nodes' = Append(LinkChild(nodes, Top.id, NewId),
                     Node(etype, blocks, ParentField(etype, Top.id), 0))
  /\ open' = [open EXCEPT ![Depth] = Counting(@, etype, Counted(etype, blocks))]
  /\ told' = Append(told, Told(told, Len(told)) + Counted(etype, blocks))
  /\ UNCHANGED devices

AddDir(blocks, dev) ==
  /\ CanAdd
  /\ devices' = DevTable(dev)
  /\ nodes' = Append(LinkChild(nodes, Top.id, NewId),
                     Node("Dir", blocks, ParentField("Dir", Top.id), DevId(dev)))
  /\ open' = Append([open EXCEPT ![Depth] = Counting(@, "Dir", blocks)],
                    Handle(NewId))
  /\ told' = Append(told, Told(told, Len(told)) + blocks)

(* The totals of the handle h go into its own node.                         *)
Flushed(n, h) == [n EXCEPT !.items = SatItems(@ + h.sub_items),
                           !.blocks = Sat(@ + h.sub_blocks)]
Flush(h) == [nodes EXCEPT ![h.id] = Flushed(@, h)]

(* What finalize hands to the parent: the descendants only, since add_dir    *)
(* has already given the parent the directory's own blocks and its +1.       *)
WholeTotal(h) == [h EXCEPT !.sub_blocks = Sat(nodes[h.id].blocks + @)] \* mutant
ErrDropped(h) == [h EXCEPT !.suberr = FALSE]                           \* mutant
PassedUp(h) == h

Received(p, h) == [p EXCEPT !.sub_blocks = Sat(@ + h.sub_blocks),
                           !.sub_items = SatItems(@ + h.sub_items),
                           !.suberr = IF h.suberr THEN TRUE ELSE @]

(* finalize(Some(parent)): also into the handle one level up.               *)
FinalizeSub ==
  /\ Depth > 1
  /\ LET up == Depth - 1
         h == PassedUp(Top)
     IN /\ nodes' = [Flush(Top) EXCEPT ![open[up].id].suberr =
                                          IF h.suberr THEN TRUE ELSE @]
        /\ open' = [SubSeq(open, 1, up) EXCEPT ![up] = Received(@, h)]
  /\ UNCHANGED <<devices, told>>

(* finalize(None) on the root, after which the walker takes the tree.       *)
FinalizeRoot ==
  /\ Depth = 1
  /\ nodes' = Flush(Top)
  /\ open' = <<>>
  /\ UNCHANGED <<devices, told>>

Finished == nodes # <<>> /\ open = <<>>

Next ==
  \/ \E b \in Blocks, v \in Devs : CreateRoot(b, v)
  \/ SetReadError
  \/ \E sp \in Specials : AddSpecial(sp)
  \/ \E t \in FileTypes, b \in Blocks : AddStat(t, b)
  \/ \E b \in Blocks, v \in Devs : AddDir(b, v)
  \/ FinalizeSub
  \/ FinalizeRoot
  \/ Finished /\ UNCHANGED vars          \* into_tree was called

Spec == Init /\ [][Next]_vars

----------------------------------------------------------------------------
(* Vocabulary of the properties.                                            *)
Ids == 1..Len(nodes)
IsDir(i) == nodes[i].etype = "Dir"
OpenIds == {open[l].id : l \in 1..Depth}
Closed == {i \in Ids : IsDir(i) /\ i \notin OpenIds}   \* finalized directories

(* The last id of the subtree of i, going by the item count.                 *)
End(ns, i) == i + ns[i].items

(* The list ks fills the ids after d up to x, each entry's subtree being    *)
(* followed by the next entry.                                              *)
Fills(ns, d, ks, x) ==
  IF ks = <<>> THEN x = d
  ELSE /\ ks[1] = d + 1
       /\ \A i \in 1..(Len(ks) - 1) : ks[i + 1] = End(ns, ks[i]) + 1
       /\ End(ns, ks[Len(ks)]) = x

ErrIn(ns, lo, hi) == \E j \in lo..hi : ns[j].etype = "Err"

NodeType ==
  [etype : {"Dir"} \cup FileTypes \cup Specials, blocks : 0..MaxU64,
   parent : Nat, dev : Nat, kids : Seq(Nat), items : 0..MaxU32,
   err : BOOLEAN, suberr : BOOLEAN]

HandleType ==
  [id : Nat, sub_blocks : 0..MaxU64, sub_items : 0..MaxU32, suberr : BOOLEAN]

(* Type invariant of the arena, the device table and the open handles.      *)
TypeOK ==
  /\ nodes \in Seq(NodeType) /\ Len(nodes) <= MaxNodes
  /\ devices \in Seq(Devs)
  /\ open \in Seq(HandleType) /\ \A l \in 1..Depth : open[l].id \in Ids
  /\ told \in Seq(Nat) /\ Len(told) = Len(nodes)

(* Every finalized directory's subtree is the range of ids after it, as long *)
(* as its item count says: its list of children tiles that range, in the     *)
(* order the walker reported them.  Relates link_child, create and the item  *)
(* bookkeeping of add_* and finalize.                                        *)
SubtreeIsRange ==
  \A d \in Closed : /\ End(nodes, d) <= Len(nodes)
                    /\ Fills(nodes, d, nodes[d].kids, End(nodes, d))

(* A finalized directory's block total is the saturated sum of what was      *)
(* reported for it and for every entry in its range, hard links excepted:    *)
(* no entry is lost or counted twice on the way up through the handles.      *)
TotalsExact ==
  \A d \in Closed :
    nodes[d].blocks = Sat(Told(told, End(nodes, d)) - Told(told, d - 1))

(* A finalized directory has suberr exactly when an error marker was added   *)
(* somewhere in its range (add_special and finalize pass it up).             *)
SuberrExact ==
  \A d \in Closed : nodes[d].suberr <=> ErrIn(nodes, d + 1, End(nodes, d))

(* The device table has no duplicates, so that equal ids mean equal devices, *)
(* and every directory's id is in it.                                        *)
DevicesInjective ==
  /\ \A i, j \in 1..Len(devices) : devices[i] = devices[j] => i = j
  /\ \A d \in Ids : IsDir(d) => nodes[d].dev \in 1..Len(devices)

(* Parent links agree with the child lists: delete_entry climbs the former   *)
(* and edits the latter.                                                     *)
ParentsAgree ==
  \A d \in Ids : \A k \in 1..Len(nodes[d].kids) :
    LET c == nodes[d].kids[k]
    IN  nodes[c].etype \in {"Dir", "Link"} => nodes[c].parent = d

(* Once finalized, a directory's totals, list and flags never change again.  *)
ClosedNeverChange == [][\A d \in Closed : nodes'[d] = nodes[d]]_vars

----------------------------------------------------------------------------
(* The subtree of every node by the child lists.                             *)
Subtree ==
  LET sub[i \in Ids] ==
        {i} \cup UNION {sub[nodes[i].kids[k]] : k \in 1..Len(nodes[i].kids)}
  IN  sub

(* What model.rs:124 says of suberr: an error on a directory below (its      *)
(* read_dir failed) counts like an error marker does.                        *)
SuberrAsDocumented ==
  \A d \in Closed :
    nodes[d].suberr <=>
      \E j \in Subtree[d] \ {d} : nodes[j].etype = "Err" \/ nodes[j].err

----------------------------------------------------------------------------
(* The inductive invariant behind the properties above (MemSinkProofs).      *)

(* The last entry that the handle at level l of the stack os has accounted   *)
(* for: the newest one, x, or the subdirectory it descended into.            *)
Reach(os, x, l) == IF l = Len(os) THEN x ELSE os[l + 1].id

(* The list ks of d lies in the range up to x, in order, and fills it.       *)
Tiles(ns, d, ks, x) ==
  /\ \A i \in 1..Len(ks) : ks[i] \in (d + 1)..x /\ End(ns, ks[i]) <= x
  /\ \A i, j \in 1..Len(ks) : i < j => End(ns, ks[i]) < ks[j]
  /\ Fills(ns, d, ks, x)

(* The open handles are a path of directories, each the newest entry of the  *)
(* one below it on the stack.                                                *)
StackOK(ns, os) ==
  /\ \A l \in 1..Len(os) : /\ ns[os[l].id].etype = "Dir"
                           /\ ns[os[l].id].items = 0
  /\ \A l, m \in 1..Len(os) : l < m => os[l].id < os[m].id
  /\ \A l \in 1..(Len(os) - 1) :
       LET ks == ns[os[l].id].kids
       IN  ks # <<>> /\ ks[Len(ks)] = os[l + 1].id

(* The handle h and its directory agree with the entries up to x.            *)
HandleOK(ns, ts, h, x) ==
  LET n == ns[h.id]
  IN  /\ h.sub_items = x - h.id
      /\ h.sub_blocks = Sat(Told(ts, x) - Told(ts, h.id))
      /\ n.blocks = Told(ts, h.id) - Told(ts, h.id - 1)
      /\ n.suberr <=> ErrIn(ns, h.id + 1, x)
      /\ h.suberr <=> ErrIn(ns, h.id + 1, x)
      /\ Tiles(ns, h.id, n.kids, x)

HandlesOK(ns, ts, os) ==
  \A l \in 1..Len(os) : HandleOK(ns, ts, os[l], Reach(os, Len(ns), l))

(* The finalized directory d is complete.                                    *)
DirOK(ns, ts, d) ==
  /\ End(ns, d) \in d..Len(ns)
  /\ ns[d].blocks = Sat(Told(ts, End(ns, d)) - Told(ts, d - 1))
  /\ ns[d].suberr <=> ErrIn(ns, d + 1, End(ns, d))
  /\ Tiles(ns, d, ns[d].kids, End(ns, d))

(* ... and apart from the directories opened after it.                       *)
ClosedOK ==
  \A d \in Closed :
    /\ DirOK(nodes, told, d)
    /\ \A l \in 1..Depth : d < open[l].id => End(nodes, d) < open[l].id

Monotone(ts) == \A i, j \in 0..Len(ts) : i <= j => Told(ts, i) <= Told(ts, j)

IInv ==
  /\ TypeOK
  /\ StackOK(nodes, open)
  /\ HandlesOK(nodes, told, open)
  /\ ClosedOK
  /\ Monotone(told)
=============================================================================
