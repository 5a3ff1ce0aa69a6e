-------------------------------- MODULE Scan --------------------------------
(***************************************************************************)
(* The sequential walker (scan.rs) driving the sink.  `open', the live sink  *)
(* handles, doubles as the recursion of scan_dir: todo[l] is what the call   *)
(* at level l has left of its directory's entries.                           *)
(*                                                                         *)
(* read_dir returns its entries one by one, in any order; an entry removed   *)
(* after the directory was opened may still be returned.                     *)
(***************************************************************************)
EXTENDS MemSink, FileTree, SequencesExt

VARIABLES
  todo,        (* a stack of [read, left, pat]                              *)
  names,       (* history: names[i] is the object node i was added for      *)
  failed       (* scan returned an error for the root                       *)

svars == <<vars, treeVars, todo, names, failed>>

Unread(pat) == [read |-> FALSE, left |-> {}, pat |-> pat]
Dir == names[Top.id]                              \* the directory being read

SInit ==
  /\ Init /\ FsInit
  /\ todo = <<>> /\ names = <<>> /\ failed = FALSE

(* scan: the root must be a directory, as far as stat can tell.  The walk      *)
(* begins with the patterns that for_path returns.                           *)
Begin ==
  /\ ~failed /\ Configured /\ Scannable
  /\ \E b \in Blocks, v \in Devs : CreateRoot(b, v)
  /\ todo' = <<Unread(cur)>> /\ names' = <<Root>>
  /\ UNCHANGED <<treeVars, failed>>

NoScan ==
  /\ nodes = <<>> /\ ~failed
  /\ Configured /\ ~Scannable
  /\ failed' = TRUE
  /\ UNCHANGED <<vars, treeVars, todo, names>>

(* scan_dir: read_dir on the directory.                                      *)
ReadDir ==
  /\ Depth > 0 /\ ~todo[Depth].read
  /\ \/ /\ CanRead(Dir)
        /\ todo' = [todo EXCEPT ![Depth].read = TRUE, ![Depth].left = Listed(Dir)]
        /\ UNCHANGED vars
     \/ /\ ~CanRead(Dir)
        /\ SetReadError
        /\ todo' = [todo EXCEPT ![Depth].read = TRUE]
  /\ UNCHANGED <<treeVars, names, failed>>

(* The loop goes on without e.                                              *)
Again(e) == todo                                         \* mutant of Without
Without(e) == [todo EXCEPT ![Depth].left = @ \ {e}]

Skip(e) ==
  /\ NotReturned(e)
  /\ todo' = Without(e)
  /\ UNCHANGED <<vars, names, failed>>

SamePat(pat, e) == pat                                   \* mutant of SubPat
SubPat(pat, e) == Ex!Enter(pat, NameOf[e])

(* One turn of the loop, up to the recursive call.                           *)
Entry(e) ==
  /\ LET pat == todo[Depth].pat
         k == Class(nature[e], e \in present, Ex!Matches(pat, NameOf[e]))
     IN  \/ /\ k \in Specials /\ AddSpecial(k)
            /\ todo' = Without(e)
         \/ /\ k \in FileTypes /\ \E b \in Blocks : AddStat(k, b)
            /\ todo' = Without(e)
         \/ /\ k = "Dir" /\ \E b \in Blocks, v \in Devs : AddDir(b, v)
            /\ todo' = Append(Without(e), Unread(SubPat(pat, e)))
  /\ names' = Append(names, e)
  /\ UNCHANGED <<treeVars, failed>>

(* The loop is over: finalize, in the caller.                                *)
StillCalled == todo                                       \* mutant of Caller
Caller == Front(todo)

Return ==
  /\ Depth > 0 /\ todo[Depth].read /\ todo[Depth].left = {}
  /\ (FinalizeSub \/ FinalizeRoot)
  /\ todo' = Caller
  /\ UNCHANGED <<treeVars, names, failed>>

Walk ==
  \/ Begin \/ NoScan \/ ReadDir \/ Return
  \/ Depth > 0 /\ \E e \in todo[Depth].left : Skip(e) \/ Entry(e)

Prepare == Configure /\ nodes = <<>> /\ UNCHANGED <<vars, todo, names, failed>>

Others == Interference /\ UNCHANGED <<vars, todo, names, failed>>

Ended == failed \/ Finished

SNext ==
  \/ Prepare \/ Walk
  \/ Others
  \/ Ended /\ UNCHANGED svars

(* The one thread takes its next step eventually; giving no more patterns is  *)
(* one.                                                                     *)
SSpec == SInit /\ [][SNext]_svars /\ WF_svars(Prepare \/ Walk)

----------------------------------------------------------------------------
(* Type invariant of the walker's own state.                                *)
STypeOK ==
  /\ Len(todo) = Depth
  /\ \A l \in 1..Depth : /\ todo[l].read \in BOOLEAN
                         /\ todo[l].left \subseteq Objects \ {Root}
                         /\ todo[l].pat \in Ex!PatternSets
  /\ names \in Seq(Objects) /\ Len(names) = Len(nodes) /\ failed \in BOOLEAN

(* The rows of the report: a node, by its name, below the directory in whose *)
(* list it is.                                                               *)
Rows ==
  {[obj |-> names[i], kind |-> nodes[i].etype, err |-> nodes[i].err,
    dir |-> IF i = 1 THEN Root
            ELSE names[CHOOSE d \in Ids : i \in ToSet(nodes[d].kids)]] : i \in Ids}

ScanReport ==
  IF failed THEN [state |-> "failed", rows |-> {}]
  ELSE IF Finished THEN [state |-> "done", rows |-> Rows]
  ELSE [state |-> "pending", rows |-> {}]

(* The sequential walker implements the census: whatever is removed while it  *)
(* walks, the finished tree is faithful.                                      *)
C == INSTANCE Census WITH report <- ScanReport, denied <- FALSE
IsCensus == C!CSpec

(* The walk ends, also when the tree changes under it: the recursion follows  *)
(* no link and takes every entry once.                                        *)
Terminates == <>Ended
=============================================================================
