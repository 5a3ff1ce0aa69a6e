------------------------------- MODULE Delete -------------------------------
(***************************************************************************)
(* delete.rs on the arena ns: the path a target is removed at, and the      *)
(* pruning of its node.  The disk side is in Browser, the only caller.      *)
(*                                                                         *)
(* A path component is the id of the node whose name it is; what a name     *)
(* denotes on disk is Browser's `denotes'.                                  *)
(***************************************************************************)
EXTENDS MemSink, FiniteSets, SequencesExt

(* The directories from the root down to dir, by the parent links.          *)
Chain(ns, dir) ==
  LET climb[i \in 0..Len(ns)] ==
        IF i = NoEntry THEN <<>> ELSE Append(climb[ns[i].parent], i)
  IN  climb[dir]

(* relative_path: the root's own name is left out.                          *)
WithRoot(ns, dir, target) == Append(Chain(ns, dir), target)         \* mutant
OfParent(ns, dir, target) == Tail(Chain(ns, dir))                   \* mutant
RelativePath(ns, dir, target) == Append(Tail(Chain(ns, dir)), target)

(* The nodes under i, itself included, by the child lists.                   *)
Branch(ns, i) ==
  LET sub[j \in 1..Len(ns)] ==
        {j} \cup UNION {sub[k] : k \in ToSet(ns[j].kids)}
  IN  sub[i]

(* unlink_from_parent.                                                      *)
CutTail(ns, dir, target) ==                               \* mutant of Unlink
  [ns EXCEPT ![dir].kids = SelectSeq(@, LAMBDA k : k < target)]
Unlink(ns, dir, target) == [ns EXCEPT ![dir].kids = RemoveFirst(@, target)]

(* subtree_totals: the node's own total, and every node of its branch.      *)
KidsOnly(ns, target) ==                            \* mutant of SubtreeTotals
  [blocks |-> ns[target].blocks, items |-> 1 + Len(ns[target].kids)]
SubtreeTotals(ns, target) ==
  [blocks |-> ns[target].blocks,
   items |-> SatItems(Cardinality(Branch(ns, target)))]

(* The footprint t leaves every directory from dir up to the root.          *)
Less(n, k) == IF k > n THEN 0 ELSE n - k                    \* saturating_sub

SubtractNear(ns, dir, t) ==                             \* mutant of Subtract
  [ns EXCEPT ![dir].blocks = Less(@, t.blocks), ![dir].items = Less(@, t.items)]
Subtract(ns, dir, t) ==
  [i \in 1..Len(ns) |->
     IF i \in ToSet(Chain(ns, dir))
     THEN [ns[i] EXCEPT !.blocks = Less(@, t.blocks),
                        !.items = Less(@, t.items)]
     ELSE ns[i]]

(* delete_entry once the object is off the disk.                            *)
Pruned(ns, dir, target) ==
  Subtract(Unlink(ns, dir, target), dir, SubtreeTotals(ns, target))
=============================================================================
