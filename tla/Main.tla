-------------------------------- MODULE Main --------------------------------
(***************************************************************************)
(* The command line (main.rs): quota fast path, scan, then the browser or an *)
(* export through a BufWriter to standard output or to a file.               *)
(*                                                                         *)
(* Every call to the system may fail where the code looks at its result, and *)
(* the process may be killed between any two of its steps.  What the scan    *)
(* does is in Scan and ParScan, what the keys do in the browser in Browser;   *)
(* here they succeed or fail.  The dump is Pieces writes, a buffer holds at most Buffered of them. *)
(***************************************************************************)
EXTENDS XfsQuota

CONSTANTS
  Here,                     \* the canonical path of the directory to scan
  ProjectFiles,             \* what may be in /etc/projects
  Reports,                  \* what xfs_quota may print
  Pieces, Buffered

ASSUME MainAssumption ==
  /\ Here \in Paths /\ Pieces \in Nat /\ Buffered \in Nat \ {0}
  /\ ProjectFiles \subseteq Seq(ProjectLines) /\ Reports \subseteq Seq(ReportLines)

VARIABLES
  option,       (* the command line: [quota, output]                        *)
  pc,           (* the step of run that comes next, "end" when it returned    *)
  exit,         (* "none" while it runs                                     *)
  pid,          (* the project of the path, once found                       *)
  printed,      (* the total printed by the fast path, or Nothing             *)
  scanned,      (* scan was called and returned a tree                       *)
  earlier,      (* the output file still has what an earlier run left there   *)
  out, buf,     (* pieces of the dump written out; in the BufWriter            *)
  raw,          (* the terminal is in raw mode                              *)
  result,       (* what event_loop returned: "none", "ok" or "err"           *)
  unable,       (* history: disable_raw_mode failed                          *)
  asked, got    (* history: the project file and the report that were read    *)

quotaVars == <<pid, printed, asked, got>>
writerVars == <<earlier, out, buf>>
terminalVars == <<raw, result, unable>>
mvars == <<option, pc, exit, scanned, quotaVars, writerVars, terminalVars>>

MInit ==
  /\ option \in [quota : BOOLEAN, output : {"browser", "stdout", "file"}]
  /\ pc = IF option.quota THEN "is_xfs" ELSE "scan"
  /\ exit = "none" /\ scanned = FALSE
  /\ pid = Nothing /\ printed = Nothing /\ asked = Nothing /\ got = Nothing
  /\ earlier = TRUE /\ out = 0 /\ buf = 0
  /\ raw = FALSE /\ result = "none" /\ unable = FALSE

Goto(step) == pc' = step /\ UNCHANGED exit
Leave(code) == pc' = "end" /\ exit' = code
At(step) == pc = step /\ UNCHANGED option

----------------------------------------------------------------------------
(* try_quota_total.  An error of is_xfs or project_id_for ends the run.       *)
IsXfs ==
  /\ At("is_xfs")
  /\ Goto("project_id_for") \/ Goto("scan") \/ Leave("failure")
  /\ UNCHANGED <<quotaVars, scanned, writerVars, terminalVars>>

ProjectFor ==
  /\ At("project_id_for")
  /\ \/ \E lines \in ProjectFiles :
          /\ asked' = lines
          /\ pid' = ProjectIdFor(lines, Here)
          /\ Goto(IF pid' = Nothing THEN "scan" ELSE "quota_usage_bytes")
     \/ UNCHANGED <<asked, pid>> /\ (Goto("scan") \/ Leave("failure"))
  /\ UNCHANGED <<printed, got, scanned, writerVars, terminalVars>>

(* quota_usage_bytes: no failure of the command is an error of run.           *)
QuotaUsage ==
  /\ At("quota_usage_bytes")
  /\ \/ \E lines \in Reports :
          /\ got' = lines
          /\ printed' = ParseReport(lines, pid[1])
          /\ IF printed' = Nothing THEN Goto("scan") ELSE Leave("success")
     \/ UNCHANGED <<got, printed>> /\ Goto("scan")
  /\ UNCHANGED <<asked, pid, scanned, writerVars, terminalVars>>

----------------------------------------------------------------------------
(* The scan, and which way the output goes.                                  *)
Ways == [browser |-> "browse", stdout |-> "write", file |-> "create"]

EmptyTree == Goto(Ways[option.output])                     \* mutant of ScanFailed
ScanFailed == Leave("failure")

ScanTree ==
  /\ At("scan")
  /\ \/ scanned' = TRUE /\ Goto(Ways[option.output])
     \/ ScanFailed /\ UNCHANGED scanned
  /\ UNCHANGED <<quotaVars, writerVars, terminalVars>>

(* canonicalize, then the set-up of the terminal: raw mode, the alternate      *)
(* screen, the backend.  A failure returns at once.                           *)
EnableRaw ==
  /\ At("browse")
  /\ \/ raw' = TRUE /\ Goto("setup")
     \/ UNCHANGED raw /\ Leave("failure")
  /\ UNCHANGED <<quotaVars, scanned, writerVars, result, unable>>

SetUp ==
  /\ At("setup")
  /\ Goto("event_loop") \/ Leave("failure")
  /\ UNCHANGED <<quotaVars, scanned, writerVars, terminalVars>>

(* event_loop ends when the user quits or a draw or a read fails; in both      *)
(* cases the terminal is restored next.                                      *)
FailsAtOnce ==                                             \* mutant of LoopEnds
  \/ result' = "ok" /\ Goto("restore")
  \/ result' = "err" /\ Leave("failure")
LoopEnds == result' \in {"ok", "err"} /\ Goto("restore")

EventLoop ==
  /\ At("event_loop")
  /\ LoopEnds
  /\ UNCHANGED <<quotaVars, scanned, writerVars, raw, unable>>

(* disable_raw_mode; whether the alternate screen can be left is ignored.      *)
Restore ==
  /\ At("restore")
  /\ \/ raw' = FALSE /\ UNCHANGED unable
        /\ Leave(IF result = "ok" THEN "success" ELSE "failure")
     \/ unable' = TRUE /\ UNCHANGED raw /\ Leave("failure")
  /\ UNCHANGED <<quotaVars, scanned, writerVars, result>>

(* File::create truncates the file.                                          *)
CreateFile ==
  /\ At("create")
  /\ \/ earlier' = FALSE /\ Goto("write")
     \/ UNCHANGED earlier /\ Leave("failure")
  /\ UNCHANGED <<quotaVars, scanned, out, buf, terminalVars>>

(* Dropping the BufWriter writes what it holds, and ignores a failure.        *)
Dropped == buf' = 0 /\ \E k \in 0..buf : out' = out + k

(* export_tree: one write; a full buffer is written out first.                *)
Write ==
  /\ At("write") /\ out + buf < Pieces
  /\ \/ /\ buf < Buffered
        /\ buf' = buf + 1 /\ UNCHANGED <<out, pc, exit>>
     \/ /\ buf = Buffered
        /\ out' = out + buf /\ buf' = 1 /\ UNCHANGED <<pc, exit>>
     \/ /\ buf = Buffered
        /\ Dropped /\ Leave("failure")
  /\ UNCHANGED <<quotaVars, scanned, earlier, terminalVars>>

FlushIgnored == Dropped /\ Leave("success")                   \* mutant of FlushAll
FlushAll ==
  \/ out' = out + buf /\ buf' = 0 /\ Leave("success")
  \/ Dropped /\ Leave("failure")

Flush ==
  /\ At("write") /\ out + buf = Pieces
  /\ FlushAll
  /\ UNCHANGED <<quotaVars, scanned, earlier, terminalVars>>

(* The process is killed: what the buffer holds is lost.                      *)
Killed ==
  /\ exit = "none"
  /\ Leave("killed") /\ buf' = 0
  /\ UNCHANGED <<option, quotaVars, scanned, earlier, out, terminalVars>>

MNext ==
  \/ IsXfs \/ ProjectFor \/ QuotaUsage
  \/ ScanTree \/ EnableRaw \/ SetUp \/ EventLoop \/ Restore \/ CreateFile \/ Write \/ Flush
  \/ Killed
  \/ pc = "end" /\ UNCHANGED mvars

MSpec == MInit /\ [][MNext]_mvars

----------------------------------------------------------------------------
(* Type invariant.                                                          *)
MTypeOK ==
  /\ pc \in {"is_xfs", "project_id_for", "quota_usage_bytes", "scan", "browse",
             "setup", "event_loop", "restore", "create", "write", "end"}
  /\ exit \in {"none", "success", "failure", "killed"}
  /\ pid \in {Nothing} \cup {<<p>> : p \in Projects}
  /\ printed \in {Nothing} \cup {<<n>> : n \in 0..MaxU64}
  /\ scanned \in BOOLEAN /\ earlier \in BOOLEAN
  /\ raw \in BOOLEAN /\ result \in {"none", "ok", "err"} /\ unable \in BOOLEAN
  /\ out \in 0..Pieces /\ buf \in 0..Buffered /\ out + buf <= Pieces

(* A total the fast path prints is the one the report gives for a project     *)
(* that /etc/projects maps to the directory, whatever other rows and lines     *)
(* the two have.                                                             *)
TotalIsOfProject ==
  printed # Nothing =>
    \E i \in 1..Len(asked), j \in 1..Len(got) :
      /\ asked[i] # <<>> /\ asked[i][2] = Here
      /\ got[j] # <<>> /\ got[j][1] = asked[i][1] /\ got[j][2] \in Nat
      /\ printed = <<Bytes(got[j][2])>>

(* The dump an earlier run left in the output file is given up only for the    *)
(* tree of a completed scan: no failure before that costs the user the file.   *)
KeptUntilScanned == ~earlier => scanned

(* The exit code tells scripts what they have got: a run that succeeds without *)
(* a quota total or a browser has written the whole dump, and a file that was  *)
(* left incomplete comes with another exit code.                              *)
SuccessIsWhole ==
  exit = "success" /\ printed = Nothing /\ option.output # "browser" =>
    /\ out = Pieces
    /\ option.output = "file" => ~earlier

(* A run that got as far as the event loop gives the user a working shell back, *)
(* however the loop ended, unless the terminal itself refuses; and the error     *)
(* that ended the loop is not lost over the restoring.                        *)
TerminalRestored ==
  exit \in {"success", "failure"} =>
    /\ raw => result = "none" \/ unable
    /\ exit = "success" => result # "err"

(* "Any failure (not XFS / no quota / parse error / xfs_quota missing) is       *)
(* silently reported as None so the caller can fall back to a walk"            *)
(* (xfs_quota.rs:16): no run ends with an error in the fast path.              *)
FastPath == {"is_xfs", "project_id_for", "quota_usage_bytes"}
FallsBack == [][exit' = "failure" => pc \notin FastPath]_mvars
=============================================================================
