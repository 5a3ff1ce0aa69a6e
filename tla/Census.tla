------------------------------- MODULE Census -------------------------------
(***************************************************************************)
(* What a scan promises, whichever walker does it: one report, made in one   *)
(* step, that is faithful to the directory tree and to the meaning of the    *)
(* exclude patterns.  Scan and ParScan implement this specification.         *)
(***************************************************************************)
EXTENDS FileTree

VARIABLES
  report,
  denied         (* the OS denies the walker something else it needs: the     *)
                 (* threads of its pool                                      *)

cvars == <<treeVars, report, denied>>

Pending == [state |-> "pending", rows |-> {}]
Failed == [state |-> "failed", rows |-> {}]

PathTo(d) ==
  LET to[x \in Objects] ==
        IF x = Root THEN RootPath ELSE Append(to[Up[x]], NameOf[x])
  IN  to[d]

(* The kind the user is promised to see for o, were it of the nature n: what  *)
(* the patterns mean for its whole path comes before what it is, and nobody    *)
(* can tell what an entry is whose lstat fails.                             *)
Promised(o, n) ==
  IF ~n.utf8 THEN "Err"
  ELSE LET m == Ex!Meaning(PathTo(Up[o]), NameOf[o])
       IN  IF m = "all" \/ (m = "dirs" /\ n.stat /\ n.kind = "Dir") THEN "Pattern"
           ELSE IF n.stat THEN n.kind ELSE "Err"

Opened(rows) == {r.obj : r \in {x \in rows : x.kind = "Dir" /\ ~x.err}}

(* Every object is reported at most once, below its own directory, as what   *)
(* it is, or if it was interfered with as an error or as what it was; and    *)
(* nothing is missing from a directory that could be read unless it was       *)
(* interfered with.                                                         *)
Faithful(rows) ==
  /\ \A r, s \in rows : r.obj = s.obj => r = s
  /\ \A r \in rows :
       IF r.obj = Root THEN r.kind = "Dir"
       ELSE /\ r.dir = Up[r.obj] /\ r.dir \in Opened(rows)
            /\ \/ \E n \in past[r.obj] : r.kind = Promised(r.obj, n)
               \/ r.kind = "Err" /\ r.obj \in excused
  /\ \A r \in rows :
       r.kind = "Dir" /\ r.obj \notin excused => r.err = ~nature[r.obj].readable
  /\ \A o \in Objects \ ({Root} \cup excused) :
       Up[o] \in Opened(rows) => \E r \in rows : r.obj = o
  /\ \E r \in rows : r.obj = Root

CInit == FsInit /\ report = Pending /\ denied \in BOOLEAN

(* The file system may be interfered with at any time.                      *)
Interfere ==
  /\ excused \subseteq excused' /\ present' \subseteq present
  /\ present \ present' \subseteq excused'
  /\ \A o \in Objects : nature'[o] # nature[o] => o \in excused' \ excused
  /\ past' = [o \in Objects |-> past[o] \cup {nature'[o]}]
  /\ UNCHANGED <<patternVars, report, denied>>

(* The patterns are given before the scan.                                  *)
Prepare == Configure /\ report = Pending /\ UNCHANGED <<report, denied>>

Answer ==
  /\ report = Pending /\ report'.state = "done"
  /\ ~denied /\ Configured /\ Faithful(report'.rows)
  /\ UNCHANGED <<treeVars, denied>>

(* The root is not a directory, cannot be looked at or is gone, or the walker  *)
(* is denied what it needs.                                                 *)
Refuse ==
  /\ report = Pending /\ report' = Failed
  /\ Root \in excused \/ nature[Root].kind # "Dir" \/ ~nature[Root].stat \/ denied
  /\ UNCHANGED <<treeVars, denied>>

CSpec == CInit /\ [][Interfere \/ Prepare \/ Answer \/ Refuse]_cvars
=============================================================================
