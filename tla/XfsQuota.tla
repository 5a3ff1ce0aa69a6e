------------------------------ MODULE XfsQuota ------------------------------
(***************************************************************************)
(* The quota fast path (xfs_quota.rs): what its two parsers make of          *)
(* /etc/projects and of the output of `xfs_quota report'.                    *)
(*                                                                         *)
(* A line of /etc/projects is <<>> if the loop skips it (empty, a comment, no *)
(* number or no colon), or <<id, path>>.  A line of the report is its words:  *)
(* <<>> when it is blank, <<id, used>> for the row of a project, <<Text>> for *)
(* anything else; used is Garbled when it is not a number.                   *)
(***************************************************************************)
EXTENDS Integers, Sequences

CONSTANTS
  Projects,                \* project ids
  Paths,                   \* canonical paths in /etc/projects
  Unit,                    \* bytes in a KiB of the report, 1024 in the code
  MaxU64                   \* u64::MAX

ASSUME QuotaAssumption ==
  Unit \in Nat \ {0} /\ MaxU64 \in Nat /\ Projects \subseteq Nat \ {0}

Text == 0                  \* a first word that is no project's
Garbled == -1
Nothing == <<>>            \* Rust's None

ProjectLines == {<<>>} \cup Projects \X Paths
ReportLines == {<<>>, <<Text>>} \cup Projects \X (Nat \cup {Garbled})

First(lines, hits) ==            \* the first of the lines with a place in hits
  IF hits = {} THEN Nothing
  ELSE lines[CHOOSE i \in hits : \A j \in hits : i <= j]

(* project_id_for: the first line for the path.                              *)
ProjectIdFor(lines, path) ==
  LET line == First(lines, {i \in 1..Len(lines) : lines[i] # <<>> /\ lines[i][2] = path})
  IN  IF line = Nothing THEN Nothing ELSE <<line[1]>>

UncheckedBytes(kib) == kib * Unit                           \* mutant of Bytes
Bytes(kib) == IF kib * Unit > MaxU64 THEN MaxU64 ELSE kib * Unit

(* parse_xfs_quota_report: up to the row of the project, or a blank line,      *)
(* whose missing first word ends the search.                                  *)
AnyRow(l, id) == l = <<>> \/ l[1] # Text                       \* mutant of Stops
Stops(l, id) == l = <<>> \/ l[1] = id

ParseReport(lines, id) ==
  LET line == First(lines, {i \in 1..Len(lines) : Stops(lines[i], id)})
  IN  IF line = Nothing \/ line[2] = Garbled THEN Nothing ELSE <<Bytes(line[2])>>
=============================================================================
