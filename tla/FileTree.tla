------------------------------ MODULE FileTree ------------------------------
(***************************************************************************)
(* What a walk works on: a directory tree which other programs change, an    *)
(* OS that may fail to return an entry, and the exclude patterns given on    *)
(* the command line, which are those of Exclude.  The tree is external to    *)
(* the program: it is what scan.rs and scan_parallel.rs can observe of it    *)
(* through read_dir and symlink_metadata.                                   *)
(***************************************************************************)
EXTENDS Integers, Sequences, FiniteSets

CONSTANTS
  Objects, Root,
  Up,            (* Up[o] is the directory o is in, for every o but Root    *)
  NameOf,        (* NameOf[o] is the name of o there                        *)
  RootPath,      (* the components of the path of Root, as it was typed,     *)
                 (* the empty ones between adjacent slashes included         *)
  Natures,       (* the natures an object may have, see Nature              *)
  ReadErrors,    (* may reading a directory fail at one of its entries?     *)
  Replaced,      (* the objects in whose place something else may be put    *)
  Names, Wild, Fnmatch, Written, MaxPatterns, MaxDepth      \* see Exclude

(* kind: what lstat says; stat: lstat works, which takes more than that the   *)
(* entry is there (a directory that may be searched, a path that is not too   *)
(* long, a disk without errors); readable: read_dir works (of a directory);   *)
(* utf8: the name is.                                                       *)
Nature == [kind : {"Dir", "Reg", "NonReg", "Link"}, stat : BOOLEAN,
           readable : BOOLEAN, utf8 : BOOLEAN]

VARIABLES
  nature,
  present,       (* the objects on disk                                     *)
  excused,       (* history: what was removed, replaced, or never returned, *)
                 (* with all that is below it                               *)
  past,          (* history: the natures an object had                      *)
  storage, root, root_unanchored, given, path, cur, walking    \* see Exclude

fsVars == <<nature, present, excused, past>>
patternVars == <<storage, root, root_unanchored, given, path, cur, walking>>
treeVars == <<fsVars, patternVars>>

Ex == INSTANCE Exclude

ASSUME FileTreeAssumption ==
  /\ Root \in Objects /\ IsFiniteSet(Objects)
  /\ Up \in [Objects \ {Root} -> Objects]
  /\ \E level \in [Objects -> 0..Cardinality(Objects)] :          \* no cycles
       \A o \in Objects \ {Root} : level[Up[o]] < level[o]
  /\ NameOf \in [Objects \ {Root} -> Names]
  /\ \A o, p \in Objects \ {Root} : Up[o] = Up[p] /\ NameOf[o] = NameOf[p] => o = p
  /\ RootPath \in Seq(Ex!PathNames) /\ MaxDepth >= Len(RootPath)
  /\ Natures \subseteq Nature /\ ReadErrors \in BOOLEAN /\ Replaced \subseteq Objects
  /\ Ex!PatternTypes

----------------------------------------------------------------------------
(* o and the directories it is in.                                          *)
Above(o) ==
  LET up[x \in Objects] == IF x = Root THEN {x} ELSE {x} \cup up[Up[x]]
  IN  up[o]
Under(o) == {x \in Objects : o \in Above(x)}

FsInit ==
  /\ nature \in [Objects -> Natures]
  /\ present = {o \in Objects : \A d \in Above(o) \ {o} : nature[d].kind = "Dir"}
  /\ excused = {} /\ past = [o \in Objects |-> {nature[o]}]
  /\ Ex!Init

(* Another program removes o and what is below.                             *)
Vanish(o) ==
  /\ o \in present
  /\ present' = present \ Under(o)
  /\ excused' = excused \cup Under(o)
  /\ UNCHANGED <<nature, past>>

(* Another program, once, puts something else in its place, a file or an      *)
(* empty directory, or changes what is permitted there.                      *)
Replace(o) ==
  /\ o \in (Replaced \cap present) \ excused
  /\ \E n \in Natures :
       /\ n # nature[o] /\ n.utf8 = nature[o].utf8
       /\ nature' = [nature EXCEPT ![o] = n]
       /\ past' = [past EXCEPT ![o] = @ \cup {n}]
       /\ present' = IF n.kind = nature[o].kind THEN present
                     ELSE present \ (Under(o) \ {o})
  /\ excused' = excused \cup Under(o)

Interference == (\E o \in Objects : Vanish(o) \/ Replace(o)) /\ UNCHANGED patternVars

(* The OS does not return the entry o of a directory being read, because it  *)
(* is gone or because reading failed there.                                  *)
NotReturned(o) ==
  /\ o \notin present \/ ReadErrors
  /\ excused' = excused \cup Under(o)
  /\ UNCHANGED <<nature, present, past, patternVars>>

IsDirectory(o) == o \in present /\ nature[o].kind = "Dir"
Listed(d) == {o \in present \ {Root} : Up[o] = d}
CanRead(d) == IsDirectory(d) /\ nature[d].readable

(* scan: stat works on the root, and says that it is a directory.            *)
Scannable == IsDirectory(Root) /\ nature[Root].stat

----------------------------------------------------------------------------
(* run builds the ExcludeSet, and for_path takes it to the scanned directory. *)
Configure ==
  /\ \/ \E w \in Written : Ex!Add(w)
     \/ Ex!Begin
     \/ Len(path) < Len(RootPath) /\ Ex!Descend(RootPath[Len(path) + 1])
  /\ UNCHANGED fsVars

Configured == walking /\ path = RootPath

(* What the walk makes of an entry, in the order of its checks: any error of  *)
(* lstat is marked, and answer is what Patterns::matches says of the name.    *)
Class(n, there, answer) ==
  IF ~n.utf8 THEN "Err"
  ELSE IF answer = "all" THEN "Pattern"
  ELSE IF ~there \/ ~n.stat THEN "Err"
  ELSE IF n.kind = "Dir" /\ answer = "dirs" THEN "Pattern"
  ELSE n.kind
=============================================================================
