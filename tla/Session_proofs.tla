--------------------------- MODULE Session_proofs ---------------------------
(***************************************************************************)
(* Proofs about invocations of weft-chaos, for any number of them,         *)
(* whatever they are given and however their lives overlap.                *)
(***************************************************************************)
EXTENDS Session, TLAPS

-----------------------------------------------------------------------------
(* Churn *)

\* What has been checked by the time an invocation is at each step.
Checked(p) ==
  /\ pc[p] \in {"guarding", "listening", "building"} =>
       /\ flags[p].cluster \in {"test", "production"}
       /\ flags[p].scenario \in {"unbuildable", "good"}
  /\ pc[p] \in {"listening", "building"} => Confirmed(p)
  /\ pc[p] \in {"guarding", "listening", "building"} => flags[p].command = "run"

ChurnInv == TypeOK /\ (\A p \in Invocations : Checked(p)) /\ ChurnIsDeliberate

-----------------------------------------------------------------------------
(* The report file *)

BeforeWrite == {"notStarted", "loading", "guarding", "listening", "building",
                "churning", "opening"}

\* Until p opens its file nothing on the disk is of p.
Fresh(p) ==
  pc[p] \in BeforeWrite =>
    /\ tmp # p /\ report # p
    /\ \A i \in Inodes \ {p} : content[i].by # p

\* The report at the path is not the one of p.
NotOurs(p) == report # None => content[report].by # p

Exclusive == \A p, q \in Invocations : HasTmp(p) /\ HasTmp(q) => p = q

Writing(p) ==
  /\ HasTmp(p) => tmp # None /\ NotOurs(p)
  /\ pc[p] = "writing" => fd[p] = tmp /\ ~content[tmp].whole
  /\ pc[p] = "renaming" => content[tmp] = [by |-> p, whole |-> TRUE]

\* The disk as long as no two invocations have had the temporary file at once.
Disk ==
  /\ Exclusive
  /\ tmp # None => tmp # report
  /\ report # None => content[report].whole
  /\ \A p \in Invocations : Writing(p)

FileInv ==
  /\ TypeOK
  /\ \A p \in Invocations : Fresh(p)
  /\ ~clashed => Disk

-----------------------------------------------------------------------------
(* Types *)

LEMMA TypeInit == Init => TypeOK
<1> SUFFICES ASSUME Init PROVE TypeOK
  OBVIOUS
<1>1. flags \in [Invocations -> Flags] /\ churned \subseteq Invocations
  BY DEF Init
<1>2. /\ pc \in [Invocations -> Steps]
      /\ listening \in [Invocations -> BOOLEAN]
      /\ \A p \in Invocations : listening[p] => Alive(p)
      /\ result \in [Invocations -> {"", "ok", "error"}]
  BY DEF Init, Steps
<1>3. tmp \in Inodes \cup {None} /\ report \in Inodes \cup {None}
  BY DEF Init, Inodes
<1>4. content \in [Inodes -> [by : Inodes, whole : BOOLEAN]]
  BY DEF Init
<1>5. fd \in [Invocations -> Inodes \cup {None}] /\ clashed \in BOOLEAN
  BY DEF Init
<1>6. QED BY <1>1, <1>2, <1>3, <1>4, <1>5 DEF TypeOK


\* One step of doRun, one call of report.Write or the death of the process
\* leaves every variable in its type.
LEMMA TypeNext == TypeOK /\ [Next]_vars => TypeOK'
<1> USE DEF TypeOK, Steps, Goto, Return, Alive, fileVars
<1> SUFFICES ASSUME TypeOK, [Next]_vars PROVE TypeOK'
  OBVIOUS
<1>1. ASSUME NEW p \in Invocations, Start(p) PROVE TypeOK'
  BY <1>1 DEF Start
<1>2. ASSUME NEW p \in Invocations, Plan(p) \/ LoadFiles(p) PROVE TypeOK'
  BY <1>2 DEF Plan, LoadFiles
<1>3. ASSUME NEW p \in Invocations, Guard(p) PROVE TypeOK'
  BY <1>3 DEF Guard
<1>4. ASSUME NEW p \in Invocations, Listen(p) PROVE TypeOK'
  BY <1>4 DEF Listen
<1>5. ASSUME NEW p \in Invocations, BuildAndSpawn(p) PROVE TypeOK'
  BY <1>5 DEF BuildAndSpawn
<1>6. ASSUME NEW p \in Invocations, ChurnEnds(p) PROVE TypeOK'
  BY <1>6 DEF ChurnEnds
<1>7. ASSUME NEW p \in Invocations, OpenTmp(p) PROVE TypeOK'
  BY <1>7 DEF OpenTmp, Inodes
<1>8. ASSUME NEW p \in Invocations, WriteTmp(p) PROVE TypeOK'
  <2>1. PICK whole \in BOOLEAN :
          content' = [content EXCEPT ![fd[p]] = [by |-> p, whole |-> whole]]
    BY <1>8 DEF WriteTmp
  <2>2. content' \in [Inodes -> [by : Inodes, whole : BOOLEAN]]
    BY <2>1 DEF Inodes
  <2>3. /\ pc' = [pc EXCEPT ![p] = "renaming"] /\ pc[p] = "writing"
        /\ UNCHANGED <<flags, listening, churned, result, tmp, report, fd, clashed>>
    BY <1>8 DEF WriteTmp
  <2>4. QED BY <2>2, <2>3
<1>9. ASSUME NEW p \in Invocations, WriteFails(p) PROVE TypeOK'
  BY <1>9 DEF WriteFails, OnWriteError
<1>10. ASSUME NEW p \in Invocations, Rename(p) \/ RenameFails(p) PROVE TypeOK'
  BY <1>10 DEF Rename, RenameFails, OnRenameError
<1>11. ASSUME NEW p \in Invocations, Deferred(p) \/ Kill(p) PROVE TypeOK'
  BY <1>11 DEF Deferred, StopsListener, Kill
<1>12. CASE UNCHANGED vars
  BY <1>12 DEF vars
<1>13. QED
  BY <1>1, <1>2, <1>3, <1>4, <1>5, <1>6, <1>7, <1>8, <1>9, <1>10, <1>11, <1>12
     DEF Next, Step, Terminated

\* Every variable of doRun and of the file it writes keeps its type, and only
\* a live process holds the metrics address.
THEOREM TypeCorrect == Spec => []TypeOK
<1>1. QED BY TypeInit, TypeNext, PTL DEF Spec

-----------------------------------------------------------------------------
(* Churn is deliberate *)

LEMMA ChurnInit == Init => ChurnInv
  BY TypeInit DEF Init, ChurnInv, Checked, ChurnIsDeliberate

\* No step of doRun goes past a check that has not been made.
LEMMA ChurnNext == ChurnInv /\ [Next]_vars => ChurnInv'
<1> USE DEF ChurnInv, Checked, ChurnIsDeliberate, Confirmed, Goto, Return
<1> SUFFICES ASSUME ChurnInv, [Next]_vars
             PROVE  (\A p \in Invocations : Checked(p)') /\ ChurnIsDeliberate'
  BY TypeNext
<1>1. flags \in [Invocations -> Flags] /\ pc \in [Invocations -> Steps]
      /\ churned \subseteq Invocations
  BY DEF TypeOK
<1>2. \A p \in Invocations :
        /\ flags[p].cluster \in {"none", "unreadable", "test", "production"}
        /\ flags[p].command = "run" => flags[p].cluster # "none"
        /\ flags[p].scenario \in {"unreadable", "unchecked", "unbuildable", "good"}
  BY <1>1, SessionAssumption
<1>3. CASE UNCHANGED <<flags, pc, churned>>
  BY <1>3
<1>4. ASSUME NEW p \in Invocations, LoadFiles(p)
      PROVE  (\A q \in Invocations : Checked(q)') /\ ChurnIsDeliberate'
  BY <1>1, <1>2, <1>4 DEF LoadFiles, Unloadable, Validates
<1>5. ASSUME NEW p \in Invocations, Guard(p)
      PROVE  (\A q \in Invocations : Checked(q)') /\ ChurnIsDeliberate'
  BY <1>1, <1>2, <1>5 DEF Guard
<1>6. ASSUME NEW p \in Invocations, Listen(p)
      PROVE  (\A q \in Invocations : Checked(q)') /\ ChurnIsDeliberate'
  BY <1>1, <1>2, <1>6 DEF Listen
<1>7. ASSUME NEW p \in Invocations, BuildAndSpawn(p)
      PROVE  (\A q \in Invocations : Checked(q)') /\ ChurnIsDeliberate'
  BY <1>1, <1>2, <1>7 DEF BuildAndSpawn
<1>8. ASSUME NEW p \in Invocations, NEW step, Goto(p, step),
             step \notin {"guarding", "listening", "building"},
             UNCHANGED <<flags, churned>>
      PROVE  (\A q \in Invocations : Checked(q)') /\ ChurnIsDeliberate'
  BY <1>1, <1>8
<1>9. ASSUME NEW p \in Invocations,
             Start(p) \/ Plan(p) \/ ChurnEnds(p) \/ OpenTmp(p) \/ WriteTmp(p) \/ WriteFails(p)
               \/ Rename(p) \/ RenameFails(p) \/ Deferred(p) \/ Kill(p)
      PROVE  \E step : /\ Goto(p, step)
                       /\ step \notin {"guarding", "listening", "building"}
                       /\ UNCHANGED <<flags, churned>>
  <2>1. CASE Start(p)
    <3>1. Goto(p, "loading") /\ UNCHANGED <<flags, churned>> BY <2>1 DEF Start
    <3>2. QED BY <3>1
  <2>2. CASE ChurnEnds(p)
    <3>1. Goto(p, "opening") /\ UNCHANGED <<flags, churned>> BY <2>2 DEF ChurnEnds
    <3>2. QED BY <3>1
  <2>3. CASE OpenTmp(p)
    <3>1. Goto(p, "writing") /\ UNCHANGED <<flags, churned>> BY <2>3 DEF OpenTmp
    <3>2. QED BY <3>1
  <2>4. CASE WriteTmp(p)
    <3>1. Goto(p, "renaming") /\ UNCHANGED <<flags, churned>> BY <2>4 DEF WriteTmp
    <3>2. QED BY <3>1
  <2>5. CASE Plan(p) \/ WriteFails(p) \/ Rename(p) \/ RenameFails(p)
    <3>1. Goto(p, "deferred") /\ UNCHANGED <<flags, churned>>
      BY <2>5 DEF Plan, WriteFails, OnWriteError, Rename, RenameFails, OnRenameError
    <3>2. QED BY <3>1
  <2>6. CASE Deferred(p)
    <3>1. Goto(p, "ended") /\ UNCHANGED <<flags, churned>> BY <2>6 DEF Deferred
    <3>2. QED BY <3>1
  <2>7. CASE Kill(p)
    <3>1. Goto(p, "killed") /\ UNCHANGED <<flags, churned>> BY <2>7 DEF Kill
    <3>2. QED BY <3>1
  <2>8. QED BY <1>9, <2>1, <2>2, <2>3, <2>4, <2>5, <2>6, <2>7
<1>10. QED
  BY <1>3, <1>4, <1>5, <1>6, <1>7, <1>8, <1>9 DEF Next, Step, Terminated, vars

\* No invocation, however many run at once, churns a cluster it has not been
\* allowed to, for a plan, or without invariants, or with a block that fails to build.
THEOREM ChurnIsDeliberateHolds == Spec => []ChurnIsDeliberate
<1>1. ChurnInv => ChurnIsDeliberate BY DEF ChurnInv
<1>2. QED BY ChurnInit, ChurnNext, <1>1, PTL DEF Spec

-----------------------------------------------------------------------------
(* The report file *)

LEMMA FileInit == Init => FileInv
<1> SUFFICES ASSUME Init PROVE FileInv
  OBVIOUS
<1>1. \A p \in Invocations : Fresh(p)
  BY SessionAssumption DEF Init, Fresh, Inodes
<1>2. Exclusive /\ \A p \in Invocations : Writing(p)
  BY DEF Init, Exclusive, Writing, HasTmp
<1>3. (tmp # None => tmp # report) /\ (report # None => content[report].whole)
  BY SessionAssumption DEF Init, Inodes
<1>4. QED BY TypeInit, <1>1, <1>2, <1>3 DEF FileInv, Disk

\* A step that leaves the files alone, and does not bring p nearer to them than
\* it was.
LEMMA QuietKept ==
  ASSUME FileInv, TypeOK', NEW p \in Invocations, NEW step, Goto(p, step),
         step \notin {"writing", "renaming"},
         step \in BeforeWrite => pc[p] \in BeforeWrite,
         UNCHANGED fileVars
  PROVE  FileInv'
<1>1. /\ pc'[p] = step
      /\ \A q \in Invocations \ {p} : pc'[q] = pc[q]
      /\ UNCHANGED <<tmp, report, content, fd, clashed>>
  BY DEF FileInv, TypeOK, Goto, fileVars
<1>2. \A q \in Invocations : Fresh(q)'
  BY <1>1 DEF FileInv, Fresh
<1>3. ASSUME ~clashed' PROVE Disk'
  <2>1. Disk
    BY <1>1, <1>3 DEF FileInv
  <2>2. \A q \in Invocations : HasTmp(q)' => HasTmp(q) /\ pc'[q] = pc[q]
    BY <1>1 DEF HasTmp
  <2>3. Exclusive'
    BY <2>1, <2>2 DEF Disk, Exclusive
  <2>4. ASSUME NEW q \in Invocations PROVE Writing(q)'
    BY <1>1, <2>1, <2>2 DEF Disk, Writing, NotOurs, HasTmp
  <2>5. QED BY <1>1, <2>1, <2>3, <2>4 DEF Disk
<1>4. QED BY <1>2, <1>3 DEF FileInv

LEMMA OpenTmpKept ==
  ASSUME FileInv, TypeOK', NEW p \in Invocations, OpenTmp(p) PROVE FileInv'
<1> DEFINE i == IF tmp = None THEN p ELSE tmp
<1>1. /\ tmp' = i /\ fd'[p] = i /\ report' = report
      /\ content' = [content EXCEPT ![i] = [by |-> p, whole |-> FALSE]]
      /\ pc[p] = "opening" /\ pc'[p] = "writing"
      /\ \A q \in Invocations \ {p} : pc'[q] = pc[q]
  <2>1. /\ tmp' = i /\ report' = report /\ fd' = [fd EXCEPT ![p] = i]
        /\ content' = [content EXCEPT ![i] = [by |-> p, whole |-> FALSE]]
        /\ pc[p] = "opening" /\ Goto(p, "writing")
    BY DEF OpenTmp
  <2>2. /\ fd \in [Invocations -> Inodes \cup {None}]
        /\ pc \in [Invocations -> Steps]
    BY DEF FileInv, TypeOK
  <2>3. QED BY <2>1, <2>2 DEF Goto
<1>2. tmp # p /\ report # p /\ \A j \in Inodes \ {p} : content[j].by # p
  BY <1>1 DEF FileInv, Fresh, BeforeWrite
<1>3. i \in Inodes /\ i # None
  BY SessionAssumption DEF FileInv, TypeOK, Inodes
<1>4. /\ content'[i] = [by |-> p, whole |-> FALSE]
      /\ \A j \in Inodes \ {i} : content'[j] = content[j]
  BY <1>1, <1>3 DEF FileInv, TypeOK
<1>5. ASSUME NEW q \in Invocations PROVE Fresh(q)'
  <2>1. CASE q = p
    BY <1>1, <2>1 DEF Fresh, BeforeWrite
  <2>2. CASE q # p
    <3>1. Fresh(q)
      BY DEF FileInv
    <3>2. QED BY <1>1, <1>4, <2>2, <3>1 DEF Fresh
  <2>3. QED BY <2>1, <2>2
<1>6. ASSUME ~clashed' PROVE Disk'
  <2>1. ~clashed /\ \A q \in Invocations \ {p} : ~HasTmp(q)
    BY <1>6 DEF OpenTmp
  <2>2. Disk
    BY <2>1 DEF FileInv
  <2>3. i # report
    BY <1>2, <2>2 DEF Disk
  <2>4. report # None => /\ report \in Inodes \ {i} /\ report # p
                         /\ content'[report] = content[report]
    BY <1>2, <1>4, <2>3 DEF FileInv, TypeOK
  <2>5. \A q \in Invocations \ {p} : ~HasTmp(q)'
    BY <1>1, <2>1 DEF HasTmp
  <2>6. Exclusive' /\ \A q \in Invocations \ {p} : Writing(q)'
    BY <2>5 DEF Exclusive, Writing, HasTmp
  <2>7. NotOurs(p)'
    BY <1>1, <1>2, <2>4 DEF NotOurs
  <2>8. Writing(p)'
    BY <1>1, <1>3, <1>4, <2>7 DEF Writing
  <2>9. (tmp # None => tmp # report)' /\ (report # None => content[report].whole)'
    BY <1>1, <2>2, <2>3, <2>4 DEF Disk
  <2>10. QED BY <2>6, <2>8, <2>9 DEF Disk
<1>7. QED BY <1>5, <1>6 DEF FileInv

LEMMA WriteTmpKept ==
  ASSUME FileInv, TypeOK', NEW p \in Invocations, WriteTmp(p) PROVE FileInv'
<1>1. /\ pc[p] = "writing" /\ pc'[p] = "renaming"
      /\ \A q \in Invocations \ {p} : pc'[q] = pc[q]
      /\ UNCHANGED <<tmp, report, fd, clashed>>
  BY DEF WriteTmp, FileInv, TypeOK, Goto
<1>2. PICK whole \in BOOLEAN :
        /\ content' = [content EXCEPT ![fd[p]] = [by |-> p, whole |-> whole]]
        /\ ~content[fd[p]].whole => whole
  BY DEF WriteTmp
<1>3. content \in [Inodes -> [by : Inodes, whole : BOOLEAN]]
  BY DEF FileInv, TypeOK
<1>4. ASSUME NEW q \in Invocations PROVE Fresh(q)'
  <2>1. Fresh(q)
    BY DEF FileInv
  <2>2. \A j \in Inodes : content'[j] = content[j] \/ content'[j].by = p
    BY <1>2, <1>3
  <2>3. CASE q = p
    BY <1>1, <2>3 DEF Fresh, BeforeWrite
  <2>4. CASE q # p
    BY <1>1, <2>1, <2>2, <2>4 DEF Fresh
  <2>5. QED BY <2>3, <2>4
<1>5. ASSUME ~clashed' PROVE Disk'
  <2>1. Disk /\ Writing(p) /\ HasTmp(p)
    BY <1>1, <1>5 DEF FileInv, Disk, HasTmp
  <2>2. fd[p] = tmp /\ tmp # None /\ tmp # report /\ NotOurs(p) /\ whole
    BY <1>1, <1>2, <2>1 DEF Writing, Disk
  <2>3. tmp \in Inodes
    BY <2>2 DEF FileInv, TypeOK
  <2>4. /\ content'[tmp] = [by |-> p, whole |-> TRUE]
        /\ \A j \in Inodes \ {tmp} : content'[j] = content[j]
    BY <1>2, <1>3, <2>2, <2>3
  <2>5. \A q \in Invocations \ {p} : ~HasTmp(q)'
    BY <1>1, <2>1 DEF Disk, Exclusive, HasTmp
  <2>6. Exclusive' /\ \A q \in Invocations \ {p} : Writing(q)'
    BY <2>5 DEF Exclusive, Writing, HasTmp
  <2>7. report # None => report \in Inodes \ {tmp}
    BY <2>2 DEF FileInv, TypeOK
  <2>8. Writing(p)'
    BY <1>1, <2>2, <2>4, <2>7 DEF Writing, NotOurs
  <2>9. (tmp # None => tmp # report)' /\ (report # None => content[report].whole)'
    BY <1>1, <2>1, <2>2, <2>4, <2>7 DEF Disk
  <2>10. QED BY <2>6, <2>8, <2>9 DEF Disk
<1>6. QED BY <1>4, <1>5 DEF FileInv

LEMMA RenameKept ==
  ASSUME FileInv, TypeOK', NEW p \in Invocations, Rename(p) \/ RenameFails(p)
  PROVE  FileInv'
<1>1. /\ pc[p] = "renaming" /\ pc'[p] = "deferred"
      /\ \A q \in Invocations \ {p} : pc'[q] = pc[q]
      /\ tmp' = None /\ UNCHANGED <<content, fd, clashed>>
      /\ (report' = tmp /\ tmp # None) \/ report' = report
  BY DEF Rename, RenameFails, OnRenameError, Return, FileInv, TypeOK, Goto
<1>2. ASSUME NEW q \in Invocations PROVE Fresh(q)'
  <2>1. Fresh(q)
    BY DEF FileInv
  <2>2. CASE q = p
    BY <1>1, <2>2 DEF Fresh, BeforeWrite
  <2>3. CASE q # p
    BY <1>1, <2>1, <2>3, SessionAssumption DEF Fresh
  <2>4. QED BY <2>2, <2>3
<1>3. ASSUME ~clashed' PROVE Disk'
  <2>1. Disk /\ Writing(p) /\ HasTmp(p)
    BY <1>1, <1>3 DEF FileInv, Disk, HasTmp
  <2>2. content[tmp].whole
    BY <1>1, <2>1 DEF Writing
  <2>3. \A q \in Invocations : ~HasTmp(q)'
    BY <1>1, <2>1 DEF Disk, Exclusive, HasTmp
  <2>4. Exclusive' /\ \A q \in Invocations : Writing(q)'
    BY <2>3 DEF Exclusive, Writing, HasTmp
  <2>5. QED BY <1>1, <2>1, <2>2, <2>4 DEF Disk
<1>4. QED BY <1>2, <1>3 DEF FileInv

\* Every step of an invocation keeps the invariant.
LEMMA FileNext == FileInv /\ [Next]_vars => FileInv'
<1> SUFFICES ASSUME FileInv, [Next]_vars PROVE FileInv'
  OBVIOUS
<1>1. TypeOK'
  BY TypeNext DEF FileInv
<1>2. ASSUME NEW p \in Invocations,
             Start(p) \/ Plan(p) \/ LoadFiles(p) \/ Guard(p) \/ Listen(p)
               \/ BuildAndSpawn(p) \/ ChurnEnds(p) \/ WriteFails(p)
               \/ Deferred(p) \/ Kill(p)
      PROVE  FileInv'
  <2> DEFINE Quiet(step) == /\ Goto(p, step) /\ UNCHANGED fileVars
                            /\ step \notin {"writing", "renaming"}
                            /\ step \in BeforeWrite => pc[p] \in BeforeWrite
  <2>1. CASE Start(p) \/ Plan(p) \/ ChurnEnds(p)
    <3>1. Quiet("loading") \/ Quiet("deferred") \/ Quiet("opening")
      BY <2>1 DEF Start, Plan, ChurnEnds, Return, BeforeWrite
    <3>2. QED BY <1>1, <3>1, QuietKept
  <2>2. CASE LoadFiles(p) \/ Guard(p)
    <3>1. Quiet("guarding") \/ Quiet("listening") \/ Quiet("building") \/ Quiet("deferred")
      BY <2>2 DEF LoadFiles, Guard, Return, BeforeWrite
    <3>2. QED BY <1>1, <3>1, QuietKept
  <2>3. CASE Listen(p) \/ BuildAndSpawn(p)
    <3>1. Quiet("building") \/ Quiet("churning") \/ Quiet("deferred")
      BY <2>3 DEF Listen, BuildAndSpawn, Return, BeforeWrite
    <3>2. QED BY <1>1, <3>1, QuietKept
  <2>4. CASE WriteFails(p) \/ Deferred(p) \/ Kill(p)
    <3>1. Quiet("deferred") \/ Quiet("ended") \/ Quiet("killed")
      BY <2>4 DEF WriteFails, OnWriteError, Deferred, Kill, Return, BeforeWrite
    <3>2. QED BY <1>1, <3>1, QuietKept
  <2>5. QED BY <1>2, <2>1, <2>2, <2>3, <2>4
<1>3. ASSUME NEW p \in Invocations,
             OpenTmp(p) \/ WriteTmp(p) \/ Rename(p) \/ RenameFails(p)
      PROVE  FileInv'
  BY <1>1, <1>3, OpenTmpKept, WriteTmpKept, RenameKept
<1>4. CASE UNCHANGED vars
  BY <1>1, <1>4 DEF vars, fileVars, FileInv, Fresh, Disk, Exclusive, Writing, NotOurs, HasTmp
<1>5. QED BY <1>2, <1>3, <1>4 DEF Next, Step, Terminated

\* The report at the path is one run's report from end to end at every moment,
\* whenever a process is killed and however lives overlap, until two of them
\* have had the temporary file at once.
THEOREM ReportNeverTornHolds == Spec => []ReportNeverTorn
<1>1. FileInv => ReportNeverTorn BY DEF FileInv, Disk, ReportNeverTorn
<1>2. QED BY FileInit, FileNext, <1>1, PTL DEF Spec

\* What a return of run says of the disk, of one invocation.
LEMMA ReturnTells ==
  ASSUME FileInv, [Next]_vars, NEW p \in Invocations, ~clashed,
         flags[p].command = "run", pc[p] # "deferred", pc'[p] = "deferred"
  PROVE  /\ result'[p] = "ok" => /\ report' # None /\ tmp' = None
                                 /\ content'[report'] = [by |-> p, whole |-> TRUE]
         /\ result'[p] = "error" => /\ report' = report
                                    /\ report # None => content'[report].by # p
<1> USE DEF Goto, Return
<1>1. TypeOK /\ Disk /\ Writing(p) /\ Fresh(p)
  BY DEF FileInv, Disk
<1>2. pc \in [Invocations -> Steps] /\ result \in [Invocations -> {"", "ok", "error"}]
  BY <1>1 DEF TypeOK
<1>3. pc[p] \in BeforeWrite => NotOurs(p)
  BY <1>1 DEF Fresh, NotOurs, TypeOK
<1>4. ASSUME NEW q \in Invocations, Start(q) \/ Step(q) \/ Kill(q) PROVE q = p
  <2>1. \E step : Goto(q, step)
    <3>1. CASE Start(q) BY <3>1 DEF Start
    <3>2. CASE Plan(q) BY <3>2 DEF Plan
    <3>3. CASE LoadFiles(q) BY <3>3 DEF LoadFiles
    <3>4. CASE Guard(q) BY <3>4 DEF Guard
    <3>5. CASE Listen(q) BY <3>5 DEF Listen
    <3>6. CASE BuildAndSpawn(q) BY <3>6 DEF BuildAndSpawn
    <3>7. CASE ChurnEnds(q) BY <3>7 DEF ChurnEnds
    <3>8. CASE OpenTmp(q) BY <3>8 DEF OpenTmp
    <3>9. CASE WriteTmp(q) BY <3>9 DEF WriteTmp
    <3>10. CASE WriteFails(q) BY <3>10 DEF WriteFails, OnWriteError
    <3>11. CASE Rename(q) BY <3>11 DEF Rename
    <3>12. CASE RenameFails(q) BY <3>12 DEF RenameFails, OnRenameError
    <3>13. CASE Deferred(q) BY <3>13 DEF Deferred
    <3>14. CASE Kill(q) BY <3>14 DEF Kill
    <3>15. QED BY <1>4, <3>1, <3>2, <3>3, <3>4, <3>5, <3>6, <3>7, <3>8, <3>9, <3>10,
                  <3>11, <3>12, <3>13, <3>14 DEF Step
  <2>2. QED BY <1>2, <2>1
<1>5. Start(p) \/ Step(p) \/ Kill(p)
  <2>1. ~UNCHANGED vars
    BY DEF vars
  <2>2. QED BY <1>4, <2>1 DEF Next, Terminated
<1>6. CASE LoadFiles(p) \/ Guard(p) \/ Listen(p) \/ BuildAndSpawn(p)
  <2>1. result'[p] = "error" /\ UNCHANGED fileVars /\ pc[p] \in BeforeWrite
    BY <1>2, <1>6 DEF LoadFiles, Guard, Listen, BuildAndSpawn, BeforeWrite
  <2>2. QED BY <1>3, <2>1 DEF NotOurs, fileVars
<1>7. CASE WriteFails(p)
  <2>1. result'[p] = "error" /\ UNCHANGED fileVars /\ pc[p] \in {"opening", "writing"}
    BY <1>2, <1>7 DEF WriteFails, OnWriteError
  <2>2. NotOurs(p)
    BY <1>1, <1>3, <2>1 DEF BeforeWrite, Writing, HasTmp
  <2>3. QED BY <2>1, <2>2 DEF NotOurs, fileVars
<1>8. CASE Rename(p) \/ RenameFails(p)
  <2>1. NotOurs(p) /\ content[tmp] = [by |-> p, whole |-> TRUE]
    BY <1>1, <1>8 DEF Rename, RenameFails, Writing, HasTmp
  <2>2. CASE Rename(p)
    <3>1. /\ result'[p] = "ok" /\ report' = tmp /\ tmp # None /\ tmp' = None
          /\ content' = content
      BY <1>2, <2>2 DEF Rename
    <3>2. QED BY <2>1, <3>1
  <2>3. CASE RenameFails(p)
    <3>1. result'[p] = "error" /\ report' = report /\ content' = content
      BY <1>2, <2>3 DEF RenameFails, OnRenameError
    <3>2. QED BY <2>1, <3>1 DEF NotOurs
  <2>4. QED BY <1>8, <2>2, <2>3
<1>9. CASE Start(p) \/ Plan(p) \/ ChurnEnds(p) \/ OpenTmp(p) \/ WriteTmp(p)
             \/ Deferred(p) \/ Kill(p)
  BY <1>2, <1>9 DEF Start, Plan, ChurnEnds, OpenTmp, WriteTmp, Deferred, Kill
<1>10. QED BY <1>5, <1>6, <1>7, <1>8, <1>9 DEF Step

\* A run that returns no error has put the whole of its own report at the path
\* and left nothing beside it; one that returns an error has left the report
\* of another run where it was.
THEOREM ExitCodeTellsReportHolds == Spec => ExitCodeTellsReport
<1>1. FileInv /\ [Next]_vars =>
        [\A p \in Invocations :
           /\ flags[p].command = "run" /\ ~clashed
           /\ pc[p] # "deferred" /\ pc'[p] = "deferred"
           => /\ result'[p] = "ok" => /\ report' # None /\ tmp' = None
                                      /\ content'[report'] = [by |-> p, whole |-> TRUE]
              /\ result'[p] = "error" => /\ report' = report
                                         /\ report # None => content'[report].by # p]_vars
  BY ReturnTells
<1>2. QED BY FileInit, FileNext, <1>1, PTL DEF Spec, ExitCodeTellsReport
=============================================================================
