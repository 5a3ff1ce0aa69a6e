------------------------------ MODULE Browser ------------------------------
(***************************************************************************)
(* The terminal browser (browser.rs): a scan fills the arena (MemSink),     *)
(* then the user walks the tree and deletes entries (Delete) while other    *)
(* programs remove files behind its back.                                   *)
(*                                                                         *)
(* Abstractions.  An object on disk is named by the node that was scanned   *)
(* for it.  Names have no order here, so entries of equal size may be       *)
(* listed in any order; status_msg is one of four messages; drawing is left *)
(* out.  `selected' counts from 0, as in the code.                          *)
(***************************************************************************)
EXTENDS Delete

CONSTANTS
  Page,        (* how far PageUp and PageDown jump, 10 in the code         *)
  LossyNames   (* may a name that is not UTF-8 turn up in the scan?        *)

ASSUME BrowserAssumption == Page \in Nat \ {0} /\ LossyNames \in BOOLEAN

VARIABLES
  phase,           (* the program scans, browses or has quit               *)
  current_dir, parent_stack, items, selected, confirm_delete, status_msg,
  disk,            (* the objects that are still on disk                    *)
  scanned,         (* history: the arena when the browser started           *)
  denotes,         (* the object a node's name leads to, in its directory   *)
  deleted          (* history: the targets delete_entry pruned              *)

view == <<current_dir, parent_stack, items, selected>>
world == <<disk, scanned, denotes, deleted>>
bvars == <<vars, phase, view, confirm_delete, status_msg, world>>

Messages == {"none", "deleted", "error", "cancelled"}

----------------------------------------------------------------------------
(* load_dir: the children of d, the largest first; the cursor goes to the   *)
(* top.                                                                     *)
Listings(ns, d) ==
  {s \in SetToSeqs(ToSet(ns[d].kids)) :
     \A i, j \in 1..Len(s) : i < j => ns[s[i]].blocks >= ns[s[j]].blocks}

Unsorted(ns, d) == items' = ns[d].kids /\ selected' = 0             \* mutant
KeepCursor(ns, d) == items' \in Listings(ns, d) /\ UNCHANGED selected \* mutant
LoadDir(ns, d) == items' \in Listings(ns, d) /\ selected' = 0

Selected == items[selected + 1]
LastRow == Less(Len(items), 1)

AnyTime == phase = "browse"                          \* mutant of Navigating
Navigating == phase = "browse" /\ confirm_delete = NoEntry

----------------------------------------------------------------------------
BInit ==
  /\ Init
  /\ phase = "scan"
  /\ current_dir = NoEntry /\ parent_stack = <<>> /\ items = <<>>
  /\ selected = 0 /\ confirm_delete = NoEntry /\ status_msg = "none"
  /\ disk = {} /\ scanned = <<>> /\ denotes = <<>> /\ deleted = {}

Scan ==
  /\ phase = "scan" /\ Next
  /\ UNCHANGED <<phase, view, confirm_delete, status_msg, world>>

(* What the name of i may lead to.  An Err marker may carry a name that is  *)
(* not UTF-8 with the bad bytes replaced: that name belongs to no object,   *)
(* or to a sibling.                                                         *)
Siblings(i) == UNION {ToSet(nodes[d].kids) :
                        d \in {p \in Ids : i \in ToSet(nodes[p].kids)}} \ {i}
Meanings(i) == {i} \cup IF LossyNames /\ nodes[i].etype = "Err"
                        THEN {NoEntry} \cup Siblings(i) ELSE {}

(* Browser::new on the tree of a finished scan, then the event loop.        *)
Start ==
  /\ phase = "scan" /\ Finished
  /\ phase' = "browse"
  /\ current_dir' = 1 /\ LoadDir(nodes, 1)
  /\ disk' = Ids /\ scanned' = nodes
  /\ denotes' \in {f \in [Ids -> 0..Len(nodes)] :
                     \A i \in Ids : f[i] \in Meanings(i)}
  /\ UNCHANGED <<vars, parent_stack, confirm_delete, status_msg, deleted>>

----------------------------------------------------------------------------
(* Moving in the list.                                                      *)
Unbounded == selected + 1                               \* mutant of NextRow
NextRow == IF selected + 1 < Len(items) THEN selected + 1 ELSE selected

PageBelow == IF selected + Page < LastRow THEN selected + Page ELSE LastRow

Move ==                 \* Up and k, Down and j, PageUp, PageDown, Home, End
  /\ Navigating
  /\ selected' \in {Less(selected, 1), NextRow, Less(selected, Page),
                    PageBelow, 0, LastRow}
  /\ UNCHANGED <<vars, phase, current_dir, parent_stack, items,
                 confirm_delete, status_msg, world>>

PushTarget(id) == Append(parent_stack, id)                \* mutant of Pushed
Pushed(id) == Append(parent_stack, current_dir)

Enter ==
  /\ Navigating /\ selected < Len(items) /\ nodes[Selected].etype = "Dir"
  /\ parent_stack' = Pushed(Selected)
  /\ current_dir' = Selected
  /\ LoadDir(nodes, Selected)
  /\ status_msg' = "none"
  /\ UNCHANGED <<vars, phase, confirm_delete, world>>

Back ==
  /\ Navigating /\ parent_stack # <<>>
  /\ current_dir' = Last(parent_stack)
  /\ parent_stack' = Front(parent_stack)
  /\ LoadDir(nodes, Last(parent_stack))
  /\ status_msg' = "none"
  /\ UNCHANGED <<vars, phase, confirm_delete, world>>

Quit ==                                        \* run consumes the browser
  /\ Navigating
  /\ phase' = "exit"
  /\ current_dir' = NoEntry /\ parent_stack' = <<>> /\ items' = <<>>
  /\ selected' = 0 /\ status_msg' = "none"
  /\ UNCHANGED <<vars, confirm_delete, world>>

----------------------------------------------------------------------------
(* Deleting.                                                                *)
AskDelete ==
  /\ Navigating /\ selected < Len(items)
  /\ confirm_delete' = Selected
  /\ UNCHANGED <<vars, phase, view, status_msg, world>>

(* The object at a path below the root, NoEntry when there is none.         *)
Lookup(path) ==
  LET dirs == <<1>> \o path
      found == /\ \A k \in 1..Len(path) : path[k] \in ToSet(scanned[dirs[k]].kids)
               /\ \A k \in 1..Len(path) : dirs[k] \in disk
               /\ denotes[Last(dirs)] \in disk
  IN  IF found THEN denotes[Last(dirs)] ELSE NoEntry

(* remove_file or remove_dir_all of x fails: a directory may have lost some  *)
(* of its branches by then.                                                 *)
Partial(x) ==
  {R \in SUBSET (Branch(scanned, x) \ {x}) :
     \A i \in R : Branch(scanned, i) \subseteq R}

(* delete_entry returned an error: the tree stays as it is.                 *)
PruneAnyway(target) ==                                \* mutant of KeepTree
  nodes' = Pruned(nodes, current_dir, target) /\ deleted' = deleted \cup {target}
KeepTree(target) == UNCHANGED <<nodes, deleted>>

ConfirmYes(target) ==
  /\ phase = "browse" /\ target # NoEntry /\ target = confirm_delete
  /\ LET x == Lookup(RelativePath(nodes, current_dir, target))
     IN  \/ /\ x # NoEntry
            /\ disk' = disk \ Branch(scanned, x)
            /\ nodes' = Pruned(nodes, current_dir, target)
            /\ deleted' = deleted \cup {target}
            /\ status_msg' = "deleted"
         \/ /\ \E R \in IF x = NoEntry THEN {{}} ELSE Partial(x) :
                 disk' = disk \ R
            /\ KeepTree(target)
            /\ status_msg' = "error"
  /\ confirm_delete' = NoEntry
  /\ LoadDir(nodes', current_dir)
  /\ UNCHANGED <<devices, open, told, phase, current_dir, parent_stack,
                 scanned, denotes>>

ConfirmNo ==                                   \* any key but y and Y, q too
  /\ phase = "browse" /\ confirm_delete # NoEntry
  /\ confirm_delete' = NoEntry
  /\ status_msg' = "cancelled"
  /\ UNCHANGED <<vars, phase, view, world>>

(* Another program removes x and what is below it.                          *)
Vanish(x) ==
  /\ phase = "browse" /\ x \in disk
  /\ disk' = disk \ Branch(scanned, x)
  /\ UNCHANGED <<vars, phase, view, confirm_delete, status_msg, scanned,
                 denotes, deleted>>

BNext ==
  \/ Scan \/ Start
  \/ Move \/ Enter \/ Back \/ Quit
  \/ AskDelete \/ ConfirmNo \/ \E t \in Ids : ConfirmYes(t)
  \/ \E x \in Ids : Vanish(x)
  \/ phase = "exit" /\ UNCHANGED bvars

BSpec == BInit /\ [][BNext]_bvars

----------------------------------------------------------------------------
Browsing == phase = "browse"
Live == Branch(nodes, 1)
LiveDirs == {i \in Live : IsDir(i)}

(* Type invariant of the browser's fields and of the world around it.       *)
BTypeOK ==
  /\ phase \in {"scan", "browse", "exit"}
  /\ current_dir \in Ids \cup {NoEntry}
  /\ parent_stack \in Seq(Ids) /\ items \in Seq(Ids)
  /\ selected \in 0..MaxNodes
  /\ confirm_delete \in Ids \cup {NoEntry} /\ status_msg \in Messages
  /\ disk \subseteq Ids /\ deleted \subseteq Ids
  /\ Len(scanned) \in {0, Len(nodes)}

(* The list shown holds each child of current_dir once, by descending total, *)
(* after any sequence of moves and deletions (load_dir is called wherever    *)
(* current_dir or the totals change).                                        *)
ViewIsListing ==
  Browsing =>
    /\ ToSet(items) = ToSet(nodes[current_dir].kids)
    /\ Len(items) = Len(nodes[current_dir].kids)
    /\ \A i \in 1..LastRow : nodes[items[i]].blocks >= nodes[items[i + 1]].blocks

(* The cursor is on a row, unless the list is empty; while a confirmation is *)
(* pending it is on the entry that `y' would delete (handle_key).            *)
CursorOnRow ==
  Browsing => /\ selected < Len(items) \/ (items = <<>> /\ selected = 0)
              /\ confirm_delete # NoEntry =>
                   items # <<>> /\ confirm_delete = Selected

(* The directories in the header, parent_stack and current_dir, are a path   *)
(* from the root, and the path delete_entry computes for a listed entry by   *)
(* the parent links is the one shown.                                        *)
PathIsShown ==
  Browsing =>
    LET shown == Append(parent_stack, current_dir)
    IN /\ shown[1] = 1
       /\ \A k \in 1..Len(parent_stack) : shown[k + 1] \in ToSet(nodes[shown[k]].kids)
       /\ \A t \in ToSet(items) :
            RelativePath(nodes, current_dir, t) = Append(Tail(shown), t)

(* The tree has lost the branches of the deleted targets and nothing else    *)
(* (unlink_from_parent).                                                     *)
PrunedExactly ==
  Browsing => Live = Ids \ UNION {Branch(scanned, t) : t \in deleted}

(* `items' stays the number of descendants through deletions (subtree_totals *)
(* and the loop over the ancestors).                                         *)
ItemsExact ==
  Browsing => \A d \in LiveDirs :
                nodes[d].items = Cardinality(Branch(nodes, d)) - 1

(* What the walk reported for i itself, and for the nodes below d that are   *)
(* still in the tree.                                                        *)
Own(i) == Told(told, i) - Told(told, i - 1)
Remaining(d) == SumFunctionOnSet([i \in Ids |-> Own(i)], Branch(nodes, d))

Saturated == Told(told, Len(told)) > MaxU64
LinkDeleted == \E t \in deleted : nodes[t].etype = "Link"

(* The block totals stay the sum over the remaining tree, unless a total had *)
(* saturated or a hard link was itself a target (subtree_totals gives its    *)
(* blocks, which add_stat never counted); and even then none ever exceeds    *)
(* what remains.                                                            *)
TotalsFollowDeletes ==
  Browsing =>
    \A d \in LiveDirs :
      /\ nodes[d].blocks <= Sat(Remaining(d))
      /\ ~Saturated /\ ~LinkDeleted => nodes[d].blocks = Remaining(d)

(* A node leaves the tree only when its object has left the disk: nothing    *)
(* that still takes space is hidden from the user.                           *)
PrunedIsGone == Browsing => disk \subseteq Live

(* An answer to the question removes at most what is shown below the entry   *)
(* asked about.                                                              *)
OnlyTargetRemoved ==
  [][confirm_delete # NoEntry /\ confirm_delete' = NoEntry
       => disk \ disk' \subseteq Branch(scanned, confirm_delete)]_bvars

(* delete.rs:16, "Deletes `target` from disk and prunes it from `tree`".     *)
TargetDeleted == Browsing => deleted \cap disk = {}

(* README.md:58, "recursive disk delete + tree prune + ancestor total         *)
(* recalc": whatever is deleted, the totals are those of the remaining tree. *)
TotalsAsDocumented ==
  Browsing /\ ~Saturated => \A d \in LiveDirs : nodes[d].blocks = Remaining(d)
=============================================================================
