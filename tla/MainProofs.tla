---------------------------- MODULE MainProofs ----------------------------
(***************************************************************************)
(* The safety of main.rs and xfs_quota.rs for files and reports of any        *)
(* length, any buffer and any dump.                                         *)
(***************************************************************************)
EXTENDS Main, Lemmas, TLAPS

----------------------------------------------------------------------------
(* The two parsers look for the first line of a kind.                          *)
LEMMA ProjectFound ==
  ASSUME NEW lines \in Seq(ProjectLines), ProjectIdFor(lines, Here) # Nothing
  PROVE  \E i \in 1..Len(lines) :
           /\ lines[i] # <<>> /\ lines[i][2] = Here
           /\ ProjectIdFor(lines, Here) = <<lines[i][1]>> /\ lines[i][1] \in Projects
<1> DEFINE hits == {i \in 1..Len(lines) : lines[i] # <<>> /\ lines[i][2] = Here}
           first == CHOOSE i \in hits : \A j \in hits : i <= j
           line == IF hits = {} THEN Nothing ELSE lines[first]
<1>1. ProjectIdFor(lines, Here) = IF line = Nothing THEN Nothing ELSE <<line[1]>>
  BY DEF ProjectIdFor, First
<1>2. hits # {}
  BY <1>1
<1>3. hits \in SUBSET Nat
  OBVIOUS
<1> HIDE DEF hits
<1>4. first \in hits
  BY <1>2, <1>3, LeastExists
<1> HIDE DEF first
<1>5. first \in 1..Len(lines) /\ lines[first] # <<>> /\ lines[first][2] = Here
  BY <1>4 DEF hits
<1>6. lines[first] \in Projects \X Paths
  BY <1>5 DEF ProjectLines
<1> QED
  BY <1>1, <1>2, <1>5, <1>6 DEF Nothing

LEMMA UsageFound ==
  ASSUME NEW lines \in Seq(ReportLines), NEW id \in Projects,
         ParseReport(lines, id) # Nothing
  PROVE  \E j \in 1..Len(lines) :
           /\ lines[j] # <<>> /\ lines[j][1] = id /\ lines[j][2] \in Nat
           /\ ParseReport(lines, id) = <<Bytes(lines[j][2])>>
<1> DEFINE hits == {i \in 1..Len(lines) : Stops(lines[i], id)}
           first == CHOOSE i \in hits : \A j \in hits : i <= j
           line == IF hits = {} THEN Nothing ELSE lines[first]
<1>1. ParseReport(lines, id) =
        IF line = Nothing \/ line[2] = Garbled THEN Nothing ELSE <<Bytes(line[2])>>
  BY DEF ParseReport, First
<1>2. hits # {}
  BY <1>1
<1>3. hits \in SUBSET Nat
  OBVIOUS
<1> HIDE DEF hits
<1>4. first \in hits
  BY <1>2, <1>3, LeastExists
<1> HIDE DEF first
<1>5. first \in 1..Len(lines) /\ Stops(lines[first], id)
  BY <1>4 DEF hits
<1>6. lines[first] # <<>> /\ lines[first][2] # Garbled
  BY <1>1, <1>2 DEF Nothing
<1>7. lines[first][1] = id
  BY <1>5, <1>6 DEF Stops
<1>8. lines[first] \in Projects \X (Nat \cup {Garbled})
  <2>1. lines[first] \in ReportLines
    BY <1>5
  <2>2. lines[first] # <<Text>>
    BY <1>7, QuotaAssumption DEF Text
  <2> QED
    BY <2>1, <2>2, <1>6 DEF ReportLines
<1> QED
  BY <1>1, <1>2, <1>5, <1>6, <1>7, <1>8 DEF Nothing

LEMMA BytesType == ASSUME NEW n \in Nat PROVE Bytes(n) \in 0..MaxU64
<1>1. n * Unit \in Nat
  BY QuotaAssumption
<1> QED
  BY <1>1, QuotaAssumption DEF Bytes

----------------------------------------------------------------------------
(* A total is of the right project because the project was found in a line    *)
(* for the directory, and is there whenever the report is read; a run is       *)
(* successful only at three of its steps, and what each needs is said here.    *)
ForHere(lines, id) ==
  \E i \in 1..Len(lines) : lines[i] # <<>> /\ lines[i][2] = Here /\ id = lines[i][1]

Browsing == {"browse", "setup", "event_loop", "restore"}

Steps ==
  /\ option \in [quota : BOOLEAN, output : {"browser", "stdout", "file"}]
  /\ pc # "end" => exit = "none"
  /\ pc = "quota_usage_bytes" => pid # Nothing
  /\ pc \in FastPath \cup {"scan"} => printed = Nothing
  /\ pc \in Browsing \cup {"create", "write"} => scanned
  /\ pc \in Browsing => option.output = "browser"
  /\ pc # "end" /\ raw => pc \in Browsing
  /\ result # "none" => pc \in {"restore", "end"}
  /\ pc = "restore" => result # "none"
  /\ unable => pc = "end"
  /\ pc = "write" /\ option.output = "file" => ~earlier

Quota ==
  /\ asked \in Seq(ProjectLines) /\ got \in Seq(ReportLines)
  /\ pid # Nothing => ForHere(asked, pid[1])
  /\ TotalIsOfProject

IInv ==
  /\ MTypeOK /\ Steps /\ Quota
  /\ KeptUntilScanned /\ SuccessIsWhole /\ TerminalRestored

LEMMA InitInv == MInit => IInv
<1> SUFFICES ASSUME MInit PROVE IInv
  OBVIOUS
<1>1. pc \in {"is_xfs", "scan"}
  BY DEF MInit
<1>2. MTypeOK
  <2>1. out \in 0..Pieces /\ buf \in 0..Buffered /\ out + buf <= Pieces
    BY MainAssumption DEF MInit
  <2>2. exit = "none" /\ pid = Nothing /\ printed = Nothing
    BY DEF MInit
  <2>3. /\ scanned \in BOOLEAN /\ earlier \in BOOLEAN
        /\ raw \in BOOLEAN /\ unable \in BOOLEAN /\ result = "none"
    BY DEF MInit
  <2> QED
    BY <1>1, <2>1, <2>2, <2>3 DEF MTypeOK
<1>3. Quota
  BY DEF MInit, Quota, TotalIsOfProject, Nothing
<1> QED
  BY <1>1, <1>2, <1>3
     DEF MInit, IInv, Steps, Browsing, KeptUntilScanned, SuccessIsWhole, TerminalRestored

(* The fast path: what it reads and prints.                                    *)
LEMMA QuotaInv ==
  ASSUME IInv, [MNext]_mvars
  PROVE  Quota' /\ pid' \in {Nothing} \cup {<<p>> : p \in Projects}
                /\ printed' \in {Nothing} \cup {<<n>> : n \in 0..MaxU64}
<1> USE DEF IInv, MTypeOK
<1>1. CASE UNCHANGED quotaVars
  BY <1>1 DEF Quota, quotaVars, TotalIsOfProject, ForHere
<1>2. CASE ProjectFor
  <2>1. printed = Nothing /\ printed' = printed /\ got' = got
    BY <1>2 DEF ProjectFor, At, Steps, FastPath
  <2>2. CASE UNCHANGED <<asked, pid>>
    BY <2>1, <2>2 DEF Quota, TotalIsOfProject, ForHere
  <2>3. ASSUME NEW lines \in ProjectFiles, asked' = lines,
               pid' = ProjectIdFor(lines, Here)
        PROVE  Quota' /\ pid' \in {Nothing} \cup {<<p>> : p \in Projects}
    <3>1. lines \in Seq(ProjectLines)
      BY MainAssumption
    <3>2. CASE pid' = Nothing
      BY <2>1, <2>3, <3>1, <3>2 DEF Quota, TotalIsOfProject
    <3>3. CASE pid' # Nothing
      <4>1. PICK i \in 1..Len(lines) :
              /\ lines[i] # <<>> /\ lines[i][2] = Here
              /\ pid' = <<lines[i][1]>> /\ lines[i][1] \in Projects
        BY <2>3, <3>1, <3>3, ProjectFound
      <4>2. ForHere(lines, pid'[1])
        BY <4>1 DEF ForHere
      <4> QED
        BY <2>1, <2>3, <3>1, <4>1, <4>2 DEF Quota, TotalIsOfProject
    <3> QED
      BY <3>2, <3>3
  <2> QED
    BY <1>2, <2>1, <2>2, <2>3 DEF ProjectFor
<1>3. CASE QuotaUsage
  <2>1. asked' = asked /\ pid' = pid /\ pid # Nothing /\ printed = Nothing
    BY <1>3 DEF QuotaUsage, At, Steps, FastPath
  <2>2. CASE UNCHANGED <<got, printed>>
    BY <2>1, <2>2 DEF Quota, TotalIsOfProject, ForHere
  <2>3. ASSUME NEW lines \in Reports, got' = lines,
               printed' = ParseReport(lines, pid[1])
        PROVE  Quota' /\ printed' \in {Nothing} \cup {<<n>> : n \in 0..MaxU64}
    <3>1. lines \in Seq(ReportLines) /\ pid[1] \in Projects
      BY <2>1, MainAssumption
    <3>2. CASE printed' = Nothing
      BY <2>1, <2>3, <3>1, <3>2 DEF Quota, TotalIsOfProject, ForHere
    <3>3. CASE printed' # Nothing
      <4>1. PICK j \in 1..Len(lines) :
              /\ lines[j] # <<>> /\ lines[j][1] = pid[1] /\ lines[j][2] \in Nat
              /\ printed' = <<Bytes(lines[j][2])>>
        BY <2>3, <3>1, <3>3, UsageFound
      <4>2. PICK i \in 1..Len(asked) :
              asked[i] # <<>> /\ asked[i][2] = Here /\ pid[1] = asked[i][1]
        BY <2>1 DEF Quota, ForHere
      <4>3. TotalIsOfProject'
        BY <2>1, <2>3, <4>1, <4>2 DEF TotalIsOfProject
      <4>4. Bytes(lines[j][2]) \in 0..MaxU64
        BY <4>1, BytesType
      <4> QED
        BY <2>1, <2>3, <3>1, <4>1, <4>3, <4>4 DEF Quota, ForHere
    <3> QED
      BY <3>2, <3>3
  <2> QED
    BY <1>3, <2>1, <2>2, <2>3 DEF QuotaUsage
<1> QED
  BY <1>1, <1>2, <1>3
     DEF MNext, mvars, IsXfs, ScanTree, EnableRaw, SetUp, EventLoop, Restore,
         CreateFile, Write, Flush, Killed

(* The rest: where each step leads, and what it needs there.                    *)
LEMMA StepInv ==
  ASSUME IInv, [MNext]_mvars
  PROVE  MTypeOK' /\ Steps' /\ KeptUntilScanned' /\ SuccessIsWhole' /\ TerminalRestored'
<1> USE DEF IInv, MTypeOK, Steps, KeptUntilScanned, SuccessIsWhole, TerminalRestored,
            FastPath, Browsing, Goto, Leave, At
<1>q. /\ pid' \in {Nothing} \cup {<<p>> : p \in Projects}
      /\ printed' \in {Nothing} \cup {<<n>> : n \in 0..MaxU64}
  BY QuotaInv
<1>w. /\ Ways["browser"] = "browse" /\ Ways["stdout"] = "write" /\ Ways["file"] = "create"
      /\ option.output \in {"browser", "stdout", "file"}
  BY DEF Ways
<1>1. CASE IsXfs
  BY <1>1, <1>q DEF IsXfs, quotaVars, writerVars, terminalVars
<1>2. CASE ProjectFor
  BY <1>2, <1>q DEF ProjectFor, writerVars, terminalVars
<1>3. CASE QuotaUsage
  BY <1>3, <1>q DEF QuotaUsage, writerVars, terminalVars
<1>4. CASE ScanTree
  BY <1>4, <1>q, <1>w DEF ScanTree, ScanFailed, quotaVars, writerVars, terminalVars
<1>5. CASE EnableRaw
  BY <1>5, <1>q DEF EnableRaw, quotaVars, writerVars
<1>6. CASE SetUp
  BY <1>6, <1>q DEF SetUp, quotaVars, writerVars, terminalVars
<1>7. CASE EventLoop
  BY <1>7, <1>q DEF EventLoop, LoopEnds, quotaVars, writerVars
<1>8. CASE Restore
  BY <1>8, <1>q DEF Restore, quotaVars, writerVars
<1>9. CASE CreateFile
  BY <1>9, <1>q DEF CreateFile, quotaVars, terminalVars
<1>10. CASE Write
  BY <1>10, <1>q, MainAssumption DEF Write, Dropped, quotaVars, terminalVars
<1>11. CASE Flush
  BY <1>11, <1>q, MainAssumption DEF Flush, FlushAll, Dropped, quotaVars, terminalVars
<1>12. CASE Killed
  BY <1>12, <1>q, MainAssumption DEF Killed, quotaVars, terminalVars
<1>13. CASE UNCHANGED mvars
  BY <1>13, <1>q DEF mvars, quotaVars, writerVars, terminalVars
<1> QED
  BY <1>1, <1>2, <1>3, <1>4, <1>5, <1>6, <1>7, <1>8, <1>9, <1>10, <1>11, <1>12,
     <1>13 DEF MNext

LEMMA Invariant == MSpec => []IInv
<1>1. IInv /\ [MNext]_mvars => IInv'
  BY QuotaInv, StepInv DEF IInv
<1> QED
  BY <1>1, InitInv, PTL DEF MSpec

----------------------------------------------------------------------------
(* The program counter, the buffer and what was found keep their types.        *)
THEOREM MainTypes == MSpec => []MTypeOK
<1>1. IInv => MTypeOK
  BY DEF IInv
<1> QED
  BY <1>1, Invariant, PTL

(* A total the fast path prints is that of a project of the directory, for     *)
(* every /etc/projects and every report (xfs_quota.rs).                        *)
THEOREM QuotaIsRight == MSpec => []TotalIsOfProject
<1>1. IInv => TotalIsOfProject
  BY DEF IInv, Quota
<1> QED
  BY <1>1, Invariant, PTL

(* The output file is truncated only after a completed scan (main.rs).          *)
THEOREM FileIsKept == MSpec => []KeptUntilScanned
<1>1. IInv => KeptUntilScanned
  BY DEF IInv
<1> QED
  BY <1>1, Invariant, PTL

(* Exit code 0 of an export means the whole dump is written (main.rs).          *)
THEOREM ExitMeansWhole == MSpec => []SuccessIsWhole
<1>1. IInv => SuccessIsWhole
  BY DEF IInv
<1> QED
  BY <1>1, Invariant, PTL

(* Once the event loop was reached, a run that returns leaves raw mode unless    *)
(* the terminal refuses, and reports the error that ended the loop (browser.rs). *)
THEOREM TerminalIsRestored == MSpec => []TerminalRestored
<1>1. IInv => TerminalRestored
  BY DEF IInv
<1> QED
  BY <1>1, Invariant, PTL
=============================================================================
