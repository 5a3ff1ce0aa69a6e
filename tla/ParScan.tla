------------------------------ MODULE ParScan ------------------------------
(***************************************************************************)
(* The parallel walker (scan_parallel.rs): workers of a rayon pool walk the  *)
(* directories into a value, then one thread feeds that value to the sink.   *)
(*                                                                         *)
(* walk_dir is called once per directory; walk[d] is what that call has on   *)
(* its stack, and stack[w] the calls worker w is in, the innermost last.     *)
(* Of rayon only this is assumed: the closures of a par_iter may be run by   *)
(* any worker in any order, a worker waiting for its par_iter runs others in *)
(* the meantime, and collect keeps the order of the items.                   *)
(***************************************************************************)
EXTENDS MemSink, FileTree, SequencesExt

CONSTANT Workers

VARIABLES
  walk, stack,
  queue,       (* the subdirectories whose closure no worker has begun      *)
  walked,      (* what walk_dir returned for the root, <<>> until then      *)
  emits,       (* the calls of emit: a stack of [err, rest]                 *)
  names,       (* history: names[i] is the object node i was added for      *)
  failed,
  granted      (* the OS starts the threads of the pool                     *)

walkVars == <<walk, stack, queue, walked>>
pvars == <<vars, treeVars, walkVars, emits, names, failed, granted>>

NoCall == [at |-> "none", pat |-> Ex!NoPatterns, left |-> {},
           children |-> <<>>, pending |-> <<>>, subs |-> <<>>]

Returned == [NoCall EXCEPT !.at = "done"]

(* A Walked: a Dir's `sub' is its children, and err its read_error.          *)
Walked(o, kind) == [obj |-> o, kind |-> kind, err |-> FALSE, sub |-> <<>>]
Placeholder(o) == Walked(o, "Err")

PInit ==
  /\ Init /\ FsInit
  /\ walk = [o \in Objects |-> NoCall]
  /\ stack = [w \in Workers |-> <<>>]
  /\ queue = {} /\ walked = <<>> /\ emits = <<>> /\ names = <<>>
  /\ failed = FALSE /\ granted \in BOOLEAN

----------------------------------------------------------------------------
(* Phase 1.                                                                 *)
Called(d, pat) == [walk EXCEPT ![d].at = "open", ![d].pat = pat]

(* The pool is built, and pool.install runs the root's walk_dir on some worker, *)
(* with the patterns that for_path returns.                                 *)
Install(w) ==
  /\ walk[Root].at = "none" /\ ~failed
  /\ Configured /\ Scannable /\ granted
  /\ stack' = [stack EXCEPT ![w] = <<Root>>]
  /\ walk' = Called(Root, cur)
  /\ UNCHANGED <<vars, treeVars, queue, walked, emits, names, failed, granted>>

(* scan_parallel returns an error: of stat, of its own, or of the pool.       *)
NoScan ==
  /\ walk[Root].at = "none" /\ ~failed
  /\ Configured /\ ~(Scannable /\ granted)
  /\ failed' = TRUE
  /\ UNCHANGED <<vars, treeVars, walkVars, emits, names, granted>>

Busy(w) == stack[w] # <<>>
Call(w) == walk[Last(stack[w])]
Complete(c) == \A k \in 1..Len(c.pending) : c.subs[k] # <<>>

(* w may begin another closure: it is idle, or waits for its par_iter.        *)
OnlyIdle(w) == ~Busy(w)                                    \* mutant of MayTake
MayTake(w) == Busy(w) => Call(w).at = "join" /\ ~Complete(Call(w))

(* The place of subdirectory d among those of its parent's par_iter.          *)
Place(d) == CHOOSE k \in 1..Len(walk[Up[d]].pending) :
              walk[Up[d]].pending[k].obj = d

LeaveQueued(d) == queue                                       \* mutant of Rest
Rest(d) == queue \ {d}

Take(w, d) ==
  /\ d \in queue /\ MayTake(w)
  /\ queue' = Rest(d)
  /\ stack' = [stack EXCEPT ![w] = Append(@, d)]
  /\ walk' = Called(d, walk[Up[d]].pending[Place(d)].pat)
  /\ UNCHANGED <<vars, treeVars, walked, emits, names, failed, granted>>

(* walk_dir returns r for d: to the par_iter of the caller, which keeps the   *)
(* result at the item's place, or to scan_parallel.                           *)
Deliver(w, d, r) ==
  /\ stack' = [stack EXCEPT ![w] = Front(@)]
  /\ IF d = Root
     THEN walked' = <<r>> /\ walk' = [walk EXCEPT ![d] = Returned]
     ELSE /\ walk' = [walk EXCEPT ![d] = Returned,
                                  ![Up[d]].subs[Place(d)] = <<r>>]
          /\ UNCHANGED walked
  /\ UNCHANGED <<vars, treeVars, queue, emits, names, failed, granted>>

OpenDir(w) ==
  /\ Busy(w) /\ Call(w).at = "open"
  /\ LET d == Last(stack[w])
     IN  \/ /\ CanRead(d)
            /\ walk' = [walk EXCEPT ![d].at = "read", ![d].left = Listed(d)]
            /\ UNCHANGED <<vars, treeVars, stack, queue, walked, emits, names, failed, granted>>
         \/ /\ ~CanRead(d)
            /\ Deliver(w, d, [Walked(d, "Dir") EXCEPT !.err = TRUE])

(* One turn of the loop over the entries.                                    *)
Skip(w, e) ==
  /\ Call(w).at = "read" /\ e \in Call(w).left
  /\ NotReturned(e)
  /\ walk' = [walk EXCEPT ![Last(stack[w])].left = @ \ {e}]
  /\ UNCHANGED <<vars, stack, queue, walked, emits, names, failed, granted>>

Subdir(i, c, e) == [idx |-> i, obj |-> e, pat |-> Ex!Enter(c.pat, NameOf[e])]

NoSlot(c, e) ==                                         \* mutant of Classified
  LET k == Class(nature[e], e \in present, Ex!Matches(c.pat, NameOf[e]))
      rest == [c EXCEPT !.left = @ \ {e}, !.children = Append(@, Walked(e, k))]
  IN  IF k = "Dir"
      THEN [rest EXCEPT !.pending = Append(@, Subdir(Len(rest.children), c, e))]
      ELSE rest

Classified(c, e) ==
  LET k == Class(nature[e], e \in present, Ex!Matches(c.pat, NameOf[e]))
      rest == [c EXCEPT !.left = @ \ {e}]
  IN  IF k = "Dir"
      THEN [rest EXCEPT !.children = Append(@, Placeholder(e)),
                        !.pending = Append(@, Subdir(Len(c.children) + 1, c, e)),
                        !.subs = Append(@, <<>>)]
      ELSE [rest EXCEPT !.children = Append(@, Walked(e, k))]

Entry(w, e) ==
  /\ Call(w).at = "read" /\ e \in Call(w).left
  /\ walk' = [walk EXCEPT ![Last(stack[w])] = Classified(@, e)]
  /\ UNCHANGED <<vars, treeVars, stack, queue, walked, emits, names, failed, granted>>

(* par_iter over the pending subdirectories.                                  *)
Fork(w) ==
  /\ Busy(w) /\ Call(w).at = "read" /\ Call(w).left = {}
  /\ walk' = [walk EXCEPT ![Last(stack[w])].at = "join"]
  /\ queue' = queue \cup {p.obj : p \in ToSet(Call(w).pending)}
  /\ UNCHANGED <<vars, treeVars, stack, walked, emits, names, failed, granted>>

(* Every result is in: each replaces its placeholder.                         *)
PatchInOrder(c) ==                                         \* mutant of Patched
  [i \in 1..Len(c.children) |->
     IF i <= Len(c.subs) THEN c.subs[i][1] ELSE c.children[i]]
Patched(c) ==
  [i \in 1..Len(c.children) |->
     IF \E k \in 1..Len(c.pending) : c.pending[k].idx = i
     THEN c.subs[CHOOSE k \in 1..Len(c.pending) : c.pending[k].idx = i][1]
     ELSE c.children[i]]

Join(w) ==
  /\ Busy(w) /\ Call(w).at = "join" /\ Complete(Call(w))
  /\ LET d == Last(stack[w])
     IN  Deliver(w, d, [Walked(d, "Dir") EXCEPT !.sub = Patched(walk[d])])

----------------------------------------------------------------------------
(* Phase 2: build_tree and emit on the caller's thread.                       *)
Emitting(r) == [err |-> r.err, rest |-> r.sub]
Current == emits[Len(emits)]

BuildRoot ==
  /\ walked # <<>>
  /\ \E b \in Blocks, v \in Devs : CreateRoot(b, v)
  /\ emits' = <<Emitting(walked[1])>> /\ names' = <<walked[1].obj>>
  /\ UNCHANGED <<treeVars, walkVars, failed, granted>>

EmitError ==
  /\ Depth > 0 /\ Current.err
  /\ SetReadError
  /\ emits' = [emits EXCEPT ![Depth].err = FALSE]
  /\ UNCHANGED <<treeVars, walkVars, names, failed, granted>>

Emit ==
  /\ Depth > 0 /\ ~Current.err /\ Current.rest # <<>>
  /\ LET r == Head(Current.rest)
         rest == [emits EXCEPT ![Depth].rest = Tail(@)]
     IN  /\ \/ /\ r.kind \in Specials /\ AddSpecial(r.kind)
               /\ emits' = rest
            \/ /\ r.kind \in FileTypes /\ \E b \in Blocks : AddStat(r.kind, b)
               /\ emits' = rest
            \/ /\ r.kind = "Dir" /\ \E b \in Blocks, v \in Devs : AddDir(b, v)
               /\ emits' = Append(rest, Emitting(r))
         /\ names' = Append(names, r.obj)
  /\ UNCHANGED <<treeVars, walkVars, failed, granted>>

EmitReturn ==
  /\ Depth > 0 /\ ~Current.err /\ Current.rest = <<>>
  /\ (FinalizeSub \/ FinalizeRoot)
  /\ emits' = Front(emits)
  /\ UNCHANGED <<treeVars, walkVars, names, failed, granted>>

----------------------------------------------------------------------------
Work(w) ==
  \/ Install(w) \/ OpenDir(w) \/ Fork(w) \/ Join(w)
  \/ \E d \in queue : Take(w, d)
  \/ Busy(w) /\ \E e \in Call(w).left : Skip(w, e) \/ Entry(w, e)

Prepare ==
  /\ Configure /\ walk[Root].at = "none"
  /\ UNCHANGED <<vars, walkVars, emits, names, failed, granted>>

Main == Prepare \/ NoScan \/ BuildRoot \/ EmitError \/ Emit \/ EmitReturn

Others == /\ Interference
          /\ UNCHANGED <<vars, walkVars, emits, names, failed, granted>>

Ended == failed \/ Finished

PNext ==
  \/ \E w \in Workers : Work(w)
  \/ Main
  \/ Others
  \/ Ended /\ UNCHANGED pvars

(* Each thread that can go on is scheduled.                                  *)
PSpec == PInit /\ [][PNext]_pvars /\ WF_pvars(Main)
               /\ \A w \in Workers : WF_pvars(Work(w))

----------------------------------------------------------------------------
(* Type invariant of the calls, the workers and the emission.                *)
PTypeOK ==
  /\ \A d \in Objects : /\ walk[d].pat \in Ex!PatternSets
                        /\ walk[d].at \in {"none", "open", "read", "join", "done"}
                        /\ walk[d].left \subseteq Objects \ {Root}
                        /\ Len(walk[d].pending) = Len(walk[d].subs)
  /\ stack \in [Workers -> Seq(Objects)]
  /\ queue \subseteq Objects \ {Root}
  /\ Len(walked) <= 1 /\ Len(emits) = Depth
  /\ names \in Seq(Objects) /\ Len(names) = Len(nodes)
  /\ failed \in BOOLEAN /\ granted \in BOOLEAN

(* No subdirectory is lost or walked twice: while a par_iter waits, each of   *)
(* its items is queued, being walked by one worker, or has its result, and    *)
(* nothing else is queued or being walked.                                    *)
Walkers(d) == {w \in Workers : d \in ToSet(stack[w])}
Awaited(d) ==
  /\ d # Root /\ walk[Up[d]].at = "join"
  /\ \E k \in 1..Len(walk[Up[d]].pending) :
       walk[Up[d]].pending[k].obj = d /\ walk[Up[d]].subs[k] = <<>>

EachTaskOnce ==
  \A d \in Objects \ {Root} :
    Cardinality(Walkers(d)) + (IF d \in queue THEN 1 ELSE 0)
      = IF Awaited(d) THEN 1 ELSE 0

(* The report, as in Scan.                                                  *)
Rows ==
  {[obj |-> names[i], kind |-> nodes[i].etype, err |-> nodes[i].err,
    dir |-> IF i = 1 THEN Root
            ELSE names[CHOOSE d \in Ids : i \in ToSet(nodes[d].kids)]] : i \in Ids}

ScanReport ==
  IF failed THEN [state |-> "failed", rows |-> {}]
  ELSE IF Finished THEN [state |-> "done", rows |-> Rows]
  ELSE [state |-> "pending", rows |-> {}]

(* The parallel walker implements the same census as the sequential one: no   *)
(* placeholder survives, and every subtree lands below its own directory.     *)
C == INSTANCE Census WITH report <- ScanReport, denied <- ~granted
IsCensus == C!CSpec

(* The pool never comes to a standstill, however few the workers and deep the *)
(* nesting of par_iter, and the tree gets built.                              *)
Terminates == <>Ended
=============================================================================
