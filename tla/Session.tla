------------------------------- MODULE Session -------------------------------
(***************************************************************************)
(* Invocations of weft-chaos, one after the other or at the same time:     *)
(* `plan`, and `run`, which is doRun of cmd/weft-chaos/main.go from its    *)
(* first check to its deferred calls, with report.Write at its end, all on *)
(* one report path.  orchestrate.Run is seen from outside here: its        *)
(* builders succeed or fail, the churn ends some time after the deadline   *)
(* or a signal (Orchestrate has the inside), then it writes the report.    *)
(*                                                                         *)
(* SIGINT and SIGTERM only cancel the run context and so end the churn     *)
(* early; SIGKILL or a panic of a dependency ends the process between any  *)
(* two steps.  The machine lives on, and what was written is there, synced *)
(* or not.  A file is an inode, named after the invocation that created    *)
(* it, so that a write through an open descriptor reaches the file         *)
(* wherever it has been renamed to.                                        *)
(***************************************************************************)
EXTENDS Integers

CONSTANTS Invocations,  \* the invocations of the command
          Flags,        \* what an invocation can be given
          Earlier,      \* the run whose report may be there already
          None          \* no file

ASSUME SessionAssumption ==
  /\ Flags \subseteq [command : {"run", "plan"},
                      cluster : {"none", "unreadable", "test", "production"},
                      scenario : {"unreadable", "unchecked", "unbuildable", "good"},
                      yolo : BOOLEAN, listen : BOOLEAN]
  /\ \A f \in Flags : f.command = "run" => f.cluster # "none"   \* a required flag
  /\ Earlier \notin Invocations
  /\ None \notin Invocations \cup {Earlier}

VARIABLES flags,      \* flags[p]: the command, files and flags p was given
          pc,         \* where p is
          listening,  \* does the metrics listener of p hold its address?
          churned,    \* the invocations that have spawned their agents and injectors
          result,     \* result[p]: what RunE returns: "", ok or error
          tmp,        \* the inode at <report path>.tmp
          report,     \* the inode at the report path
          content,    \* content[i]: whose report inode i holds, and is it whole?
          fd,         \* the inode that WriteFile of p has open
          clashed     \* have two invocations had the temporary file at once?

fileVars == <<tmp, report, content, fd, clashed>>
vars == <<flags, pc, listening, churned, result, fileVars>>

Inodes == Invocations \cup {Earlier}

Steps == {"notStarted", "loading", "guarding", "listening", "building", "churning",
          "opening", "writing", "renaming", "deferred", "ended", "killed"}

Alive(p) == pc[p] \notin {"notStarted", "ended", "killed"}

Init ==
  /\ flags \in [Invocations -> Flags]
  /\ pc = [p \in Invocations |-> "notStarted"]
  /\ listening = [p \in Invocations |-> FALSE]
  /\ churned = {}
  /\ result = [p \in Invocations |-> ""]
  /\ tmp = None
  /\ report \in {None, Earlier}
  /\ content = [i \in Inodes |-> [by |-> i, whole |-> i = Earlier]]
  /\ fd = [p \in Invocations |-> None]
  /\ clashed = FALSE

Goto(p, step) == pc' = [pc EXCEPT ![p] = step]

\* Every return goes through the deferred calls, if there are any.
Return(p, r) == Goto(p, "deferred") /\ result' = [result EXCEPT ![p] = r]

-----------------------------------------------------------------------------
(* plan, and doRun up to orchestrate.Run *)

\* cluster.Load or scenario.Load returns an error; plan may do without a
\* cluster.hcl.
Unloadable(p) == flags[p].cluster = "unreadable" \/ flags[p].scenario = "unreadable"

\* Validate returns nil: there is an invariant block.
Validates(p) == flags[p].scenario # "unchecked"

Start(p) ==
  /\ pc[p] = "notStarted"
  /\ Goto(p, "loading")
  /\ UNCHANGED <<flags, listening, churned, result, fileVars>>

\* It prints the scenario, an incomplete draft too, and is done.
Plan(p) ==
  /\ pc[p] = "loading" /\ flags[p].command = "plan"
  /\ Return(p, IF Unloadable(p) THEN "error" ELSE "ok")
  /\ UNCHANGED <<flags, listening, churned, fileVars>>

LoadFiles(p) ==
  /\ pc[p] = "loading" /\ flags[p].command = "run"
  /\ IF Unloadable(p) \/ ~Validates(p)
     THEN Return(p, "error")
     ELSE Goto(p, "guarding") /\ UNCHANGED result
  /\ UNCHANGED <<flags, listening, churned, fileVars>>

GuardInverted(p) ==   \* mutant: the flag read the wrong way round
  flags[p].cluster = "production" => ~flags[p].yolo

\* ConfirmDestructive returns nil.
Confirmed(p) == flags[p].cluster = "production" => flags[p].yolo

Guard(p) ==
  /\ pc[p] = "guarding"
  /\ IF Confirmed(p)
     THEN Goto(p, IF flags[p].listen THEN "listening" ELSE "building") /\ UNCHANGED result
     ELSE Return(p, "error")
  /\ UNCHANGED <<flags, listening, churned, fileVars>>

\* ServeBackground: the address is free, or somebody else has it.
Listen(p) ==
  /\ pc[p] = "listening"
  /\ \/ Goto(p, "building") /\ listening' = [listening EXCEPT ![p] = TRUE] /\ UNCHANGED result
     \/ Return(p, "error") /\ UNCHANGED listening
  /\ UNCHANGED <<flags, churned, fileVars>>

\* The builders of orchestrate.Run come before the first goroutine.
BuildAndSpawn(p) ==
  /\ pc[p] = "building"
  /\ IF flags[p].scenario = "unbuildable"
     THEN Return(p, "error") /\ UNCHANGED churned
     ELSE Goto(p, "churning") /\ churned' = churned \cup {p} /\ UNCHANGED result
  /\ UNCHANGED <<flags, listening, fileVars>>

\* Every goroutine has returned; the report is assembled.
ChurnEnds(p) ==
  /\ pc[p] = "churning"
  /\ Goto(p, "opening")
  /\ UNCHANGED <<flags, listening, churned, result, fileVars>>

-----------------------------------------------------------------------------
(* report.Write *)

\* The file is being written, or is about to be renamed.
HasTmp(p) == pc[p] \in {"writing", "renaming"}

\* os.WriteFile opens the temporary file: it creates it, or truncates the one
\* that an invocation that was killed has left, or that another one has open.
OpenTmp(p) ==
  /\ pc[p] = "opening"
  /\ LET i == IF tmp = None THEN p ELSE tmp IN
       /\ tmp' = i
       /\ fd' = [fd EXCEPT ![p] = i]
       /\ content' = [content EXCEPT ![i] = [by |-> p, whole |-> FALSE]]
  /\ clashed' = (clashed \/ \E q \in Invocations \ {p} : HasTmp(q))
  /\ Goto(p, "writing")
  /\ UNCHANGED <<flags, listening, churned, result, report>>

\* One write from offset 0; the bytes of a longer report that was there stay
\* behind it.
WriteTmp(p) ==
  /\ pc[p] = "writing"
  /\ \E whole \in IF content[fd[p]].whole THEN BOOLEAN ELSE {TRUE} :
       content' = [content EXCEPT ![fd[p]] = [by |-> p, whole |-> whole]]
  /\ Goto(p, "renaming")
  /\ UNCHANGED <<flags, listening, churned, result, tmp, report, fd, clashed>>

WriteErrorIgnored(p) == Goto(p, "renaming") /\ UNCHANGED result   \* mutant

OnWriteError(p) == Return(p, "error")

\* The disk is full, or the directory is not ours: the temporary file stays as
\* it is.
WriteFails(p) ==
  /\ pc[p] \in {"opening", "writing"}
  /\ OnWriteError(p)
  /\ UNCHANGED <<flags, listening, churned, fileVars>>

Rename(p) ==
  /\ pc[p] = "renaming" /\ tmp # None
  /\ report' = tmp
  /\ tmp' = None
  /\ Return(p, "ok")
  /\ UNCHANGED <<flags, listening, churned, content, fd, clashed>>

RenameErrorIgnored(p) == Return(p, "ok")   \* mutant

OnRenameError(p) == Return(p, "error")

\* The report path is a directory, or the temporary file is gone.
RenameFails(p) ==
  /\ pc[p] = "renaming"
  /\ tmp' = None
  /\ OnRenameError(p)
  /\ UNCHANGED <<flags, listening, churned, report, content, fd, clashed>>

-----------------------------------------------------------------------------
(* The deferred calls, and a process that is killed *)

StopsOnSuccess(p) ==   \* mutant: stopFn called after Run, not deferred
  listening' = [listening EXCEPT ![p] = @ /\ result[p] = "error"]

\* Shutdown has two seconds, after which doRun returns all the same: in both
\* cases the address is free.
StopsListener(p) == listening' = [listening EXCEPT ![p] = FALSE]

Deferred(p) ==
  /\ pc[p] = "deferred"
  /\ StopsListener(p)
  /\ Goto(p, "ended")
  /\ UNCHANGED <<flags, churned, result, fileVars>>

Kill(p) ==
  /\ Alive(p)
  /\ Goto(p, "killed")
  /\ listening' = [listening EXCEPT ![p] = FALSE]
  /\ UNCHANGED <<flags, churned, result, fileVars>>

Step(p) ==
  \/ Plan(p) \/ LoadFiles(p) \/ Guard(p) \/ Listen(p) \/ BuildAndSpawn(p) \/ ChurnEnds(p)
  \/ OpenTmp(p) \/ WriteTmp(p) \/ WriteFails(p) \/ Rename(p) \/ RenameFails(p)
  \/ Deferred(p)

Terminated == (\A p \in Invocations : pc[p] \in {"ended", "killed"}) /\ UNCHANGED vars

Next == (\E p \in Invocations : Start(p) \/ Step(p) \/ Kill(p)) \/ Terminated

Spec == Init /\ [][Next]_vars /\ \A p \in Invocations : WF_vars(Step(p))

-----------------------------------------------------------------------------
(* Properties *)

TypeOK ==
  /\ flags \in [Invocations -> Flags]
  /\ pc \in [Invocations -> Steps]
  /\ listening \in [Invocations -> BOOLEAN]
  /\ \A p \in Invocations : listening[p] => Alive(p)
  /\ churned \subseteq Invocations
  /\ result \in [Invocations -> {"", "ok", "error"}]
  /\ tmp \in Inodes \cup {None} /\ report \in Inodes \cup {None}
  /\ content \in [Inodes -> [by : Inodes, whole : BOOLEAN]]
  /\ fd \in [Invocations -> Inodes \cup {None}]
  /\ clashed \in BOOLEAN

\* What is at the report path is always one run's report from its first byte
\* to its last, whenever a run is killed, whatever temporary file a killed run
\* has left and whichever call of report.Write fails (report.go:107-123) - as
\* long as no two invocations have had the one temporary path at once.
ReportNeverTorn == ~clashed => (report # None => content[report].whole)

\* The exit code can be relied on, under the same condition: when a run
\* returns no error the whole of its own report is at the path and nothing of
\* the write is left beside it; when it returns an error the report of another
\* run is there still.
ExitCodeTellsReport ==
  [][\A p \in Invocations :
       /\ flags[p].command = "run" /\ ~clashed
       /\ pc[p] # "deferred" /\ pc'[p] = "deferred"
       => /\ result'[p] = "ok" => /\ report' # None /\ tmp' = None
                                  /\ content'[report'] = [by |-> p, whole |-> TRUE]
          /\ result'[p] = "error" => /\ report' = report
                                     /\ report # None => content'[report].by # p]_vars

\* Agents and injectors are spawned only by run, never by plan, and only against
\* a cluster that may be churned, with invariants to judge the outcome and
\* nothing left that could fail to build: a run that returns an error after
\* churn failed to write its report (cluster.go:48-51, scenario.go:57-65,
\* orchestrate.go:62-64).
ChurnIsDeliberate ==
  \A p \in churned :
    /\ flags[p].command = "run"
    /\ flags[p].cluster = "test" \/ (flags[p].cluster = "production" /\ flags[p].yolo)
    /\ flags[p].scenario = "good"

\* Every invocation comes to its end, its address free for the next one, no
\* matter what an earlier one has left at the temporary path.
Ends ==
  \A p \in Invocations : Alive(p) ~> (pc[p] \in {"ended", "killed"} /\ ~listening[p])
=============================================================================
