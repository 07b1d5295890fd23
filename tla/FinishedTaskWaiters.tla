------------------------ MODULE FinishedTaskWaiters ------------------------
(***************************************************************************)
(* Claude Code tells an agent that its background task has finished only   *)
(* between two of its tool calls.  An agent whose foreground command       *)
(* watches the task's output file never gets there, so the reader keeps a  *)
(* list of the running foreground commands and asks Claude Code to stop    *)
(* the ones that name the file of a task that has finished.  The requests  *)
(* travel on stdin while frames travel on stdout.  The same frames become  *)
(* the task statuses bridge-server sees.                                   *)
(***************************************************************************)
EXTENDS Naturals, Sequences

CONSTANTS Job,    \* background tasks that write an output file
          Cmd,    \* Bash commands of the agents: one tool_use, one task each
          MaxOut  \* bound: frames on stdout before Claude Code waits

ASSUME WaiterAssumption == MaxOut \in Nat /\ Job \cap Cmd = {}

Task == Job \cup Cmd

VARIABLES job,     \* each job (external): none, running, or how it finished
          cmd,     \* each command (external): none, used, foreground, background, ended
          names,   \* the jobs whose output file the command names
          out,     \* frames on stdout the reader has not read
          stops,   \* stop_task requests Claude Code has not read
          bashCommandByToolUseID, runningForegroundBashTasks,
          asked,   \* stop_task requests sent for a command
          status,  \* per task: the TaskStatus emitted last
          doomed   \* commands that watched a job when it finished

claude  == <<job, cmd, names, doomed>>
stopper == <<bashCommandByToolUseID, runningForegroundBashTasks>>
vars    == <<claude, out, stops, stopper, asked, status>>

Finished == {"completed", "failed"}
Frame == [kind : {"use", "result", "started", "updated", "notice", "refused"},
          task : Task, status : {"", "foreground", "background", "running", "completed",
                                 "failed", "stopped", "killed"}]
frame(kind, t, s) == [kind |-> kind, task |-> t, status |-> s]

\* A status that goes out is a word bridge-server knows, for the words Claude Code
\* is measured to use.
TypeOK ==
  /\ job \in [Job -> {"none", "running", "stopped"} \cup Finished]
  /\ cmd \in [Cmd -> {"none", "used", "foreground", "background", "ended"}]
  /\ names \in [Cmd -> SUBSET Job] /\ doomed \subseteq Cmd
  /\ out \in Seq(Frame) /\ stops \subseteq Cmd
  /\ bashCommandByToolUseID \subseteq Cmd /\ runningForegroundBashTasks \subseteq Cmd
  /\ asked \in [Cmd -> Nat]
  /\ status \in [Task -> {"", "running", "cancelled"} \cup Finished]

Init ==
  /\ job = [j \in Job |-> "none"] /\ cmd = [c \in Cmd |-> "none"]
  /\ names = [c \in Cmd |-> {}] /\ doomed = {}
  /\ out = <<>> /\ stops = {}
  /\ bashCommandByToolUseID = {} /\ runningForegroundBashTasks = {}
  /\ asked = [c \in Cmd |-> 0] /\ status = [t \in Task |-> ""]

-----------------------------------------------------------------------------
(* Claude Code (external).                                                 *)

harness == <<stopper, asked, status>>

Emits(frames) == Len(out) + Len(frames) <= MaxOut /\ out' = out \o frames

StartJob(j) ==
  /\ job[j] = "none" /\ job' = [job EXCEPT ![j] = "running"]
  /\ Emits(<<frame("started", j, "background")>>)
  /\ UNCHANGED <<cmd, names, doomed, stops, harness>>

\* The outcome is narrated twice, and a stop in two words.
FinishJob(j) ==
  /\ job[j] = "running"
  /\ \E s \in Finished \cup {"stopped"} :
       /\ job' = [job EXCEPT ![j] = s]
       /\ Emits(<<frame("notice", j, s),
                  frame("updated", j, IF s = "stopped" THEN "killed" ELSE s)>>)
       /\ doomed' = IF s \in Finished
                    THEN doomed \cup {c \in Cmd : cmd[c] = "foreground" /\ j \in names[c]}
                    ELSE doomed
  /\ UNCHANGED <<cmd, names, stops, harness>>

\* A command names the files of jobs that run or have run.
Use(c) ==
  /\ cmd[c] = "none" /\ cmd' = [cmd EXCEPT ![c] = "used"]
  /\ \E files \in SUBSET {j \in Job : job[j] # "none"} : names' = [names EXCEPT ![c] = files]
  /\ Emits(<<frame("use", c, "")>>)
  /\ UNCHANGED <<job, doomed, stops, harness>>

\* One started in the background returns at once.
StartCmd(c) ==
  /\ cmd[c] = "used"
  /\ \/ /\ cmd' = [cmd EXCEPT ![c] = "foreground"]
        /\ Emits(<<frame("started", c, "foreground")>>)
     \/ /\ cmd' = [cmd EXCEPT ![c] = "background"]
        /\ Emits(<<frame("started", c, "background"), frame("result", c, "")>>)
  /\ UNCHANGED <<job, names, doomed, stops, harness>>

Progress(c) ==
  /\ cmd[c] \in {"foreground", "background"}
  /\ Emits(<<frame("updated", c, "running")>>)
  /\ UNCHANGED <<claude, stops, harness>>

MoveToBackground(c) ==
  /\ cmd[c] = "foreground" /\ cmd' = [cmd EXCEPT ![c] = "background"]
  /\ Emits(<<frame("updated", c, "background"), frame("result", c, "")>>)
  /\ UNCHANGED <<job, names, doomed, stops, harness>>

\* A command so short that it never is a task has only a result.
EndCmd(c) ==
  /\ \E s \in Finished :
       \/ cmd[c] = "used" /\ Emits(<<frame("result", c, "")>>)
       \/ cmd[c] = "foreground" /\ Emits(<<frame("updated", c, s), frame("result", c, "")>>)
       \/ cmd[c] = "foreground" /\ Emits(<<frame("result", c, ""), frame("updated", c, s)>>)
       \/ cmd[c] = "background" /\ Emits(<<frame("notice", c, s), frame("updated", c, s)>>)
  /\ cmd' = [cmd EXCEPT ![c] = "ended"]
  /\ UNCHANGED <<job, names, doomed, stops, harness>>

\* A stop_task ends a task, or is refused.  Claude Code reads stdin although
\* stdout is full.
ReadStop(c) ==
  /\ c \in stops /\ stops' = stops \ {c}
  /\ IF cmd[c] \in {"foreground", "background"}
     THEN /\ LET n == frame("notice", c, "stopped")
                 u == frame("updated", c, "killed")
             IN out' = out \o (IF cmd[c] = "foreground" THEN <<n, u, frame("result", c, "")>>
                               ELSE <<n, u>>)
          /\ cmd' = [cmd EXCEPT ![c] = "ended"]
     ELSE /\ out' = out \o <<frame("refused", c, "")>>
          /\ UNCHANGED cmd
  /\ UNCHANGED <<job, names, doomed, harness>>

-----------------------------------------------------------------------------
(* The reader: observe, then translateEvent.                               *)

\* Seeded fault: Claude Code's own words go out.
taskStatusOf_Verbatim(topLevel, patched) == IF topLevel = "" THEN patched ELSE topLevel

\* Either spelling of the status; stopped and killed are one outcome.
taskStatusOf(topLevel, patched) ==
  LET word == IF topLevel = "" THEN patched ELSE topLevel
  IN IF word \in {"stopped", "killed"} THEN "cancelled" ELSE word

Reads(kind) == out # <<>> /\ Head(out).kind = kind /\ out' = Tail(out)
task == Head(out).task
word == Head(out).status

ReadUse ==
  /\ Reads("use")
  /\ bashCommandByToolUseID' = bashCommandByToolUseID \cup {task}
  /\ UNCHANGED <<claude, stops, runningForegroundBashTasks, asked, status>>

ReadResult ==
  /\ Reads("result")
  /\ bashCommandByToolUseID' = bashCommandByToolUseID \ {task}
  /\ UNCHANGED <<claude, stops, runningForegroundBashTasks, asked, status>>

ReadStarted ==
  /\ Reads("started")
  /\ runningForegroundBashTasks' =
       IF word = "foreground" THEN runningForegroundBashTasks \cup {task}
       ELSE runningForegroundBashTasks
  /\ UNCHANGED <<claude, stops, bashCommandByToolUseID, asked, status>>

\* Seeded fault: only an end takes a task off the list.
ReadUpdated_KeepsBackgrounded ==
  /\ Reads("updated")
  /\ runningForegroundBashTasks' =
       IF word \in {"running", "background"} THEN runningForegroundBashTasks
       ELSE runningForegroundBashTasks \ {task}
  /\ status' = [status EXCEPT ![task] = taskStatusOf("", IF word = "background" THEN "" ELSE word)]
  /\ UNCHANGED <<claude, stops, bashCommandByToolUseID, asked>>

\* Seeded fault: the flag of a move is taken for a status.
ReadUpdated_FlagIsStatus ==
  /\ Reads("updated")
  /\ runningForegroundBashTasks' =
       IF word = "running" THEN runningForegroundBashTasks
       ELSE runningForegroundBashTasks \ {task}
  /\ status' = [status EXCEPT ![task] = taskStatusOf("", word)]
  /\ UNCHANGED <<claude, stops, bashCommandByToolUseID, asked>>

\* A task that ended or moved to the background is no foreground command.
ReadUpdated ==
  /\ Reads("updated")
  /\ runningForegroundBashTasks' =
       IF word = "running" THEN runningForegroundBashTasks
       ELSE runningForegroundBashTasks \ {task}
  /\ status' = [status EXCEPT ![task] = taskStatusOf("", IF word = "background" THEN "" ELSE word)]
  /\ UNCHANGED <<claude, stops, bashCommandByToolUseID, asked>>

\* Seeded faults: every foreground command is taken for a watcher; a failed
\* task stops nobody.
Waiters_Anyone ==
  {c \in runningForegroundBashTasks \ {task} :
     word \in Finished /\ c \in bashCommandByToolUseID}

Waiters_OnlyCompleted ==
  {c \in runningForegroundBashTasks \ {task} :
     word = "completed" /\ c \in bashCommandByToolUseID /\ task \in names[c]}

\* The other foreground commands that name the finished task's output file.
Waiters ==
  {c \in runningForegroundBashTasks \ {task} :
     word \in Finished /\ c \in bashCommandByToolUseID /\ task \in names[c]}

\* Seeded fault: a stopped command stays on the list.
ReadNotice_KeepsOnList ==
  /\ Reads("notice")
  /\ runningForegroundBashTasks' = runningForegroundBashTasks \ {task}
  /\ stops' = stops \cup Waiters
  /\ asked' = [c \in Cmd |-> IF c \in Waiters THEN asked[c] + 1 ELSE asked[c]]
  /\ status' = [status EXCEPT ![task] = taskStatusOf(word, "")]
  /\ UNCHANGED <<claude, bashCommandByToolUseID>>

\* task_notification: stopFinishedTaskWaiter for each of them.
ReadNotice ==
  /\ Reads("notice")
  /\ runningForegroundBashTasks' = runningForegroundBashTasks \ ({task} \cup Waiters)
  /\ stops' = stops \cup Waiters
  /\ asked' = [c \in Cmd |-> IF c \in Waiters THEN asked[c] + 1 ELSE asked[c]]
  /\ status' = [status EXCEPT ![task] = taskStatusOf(word, "")]
  /\ UNCHANGED <<claude, bashCommandByToolUseID>>

\* stopTaskRefusal: logged.
ReadRefusal ==
  /\ Reads("refused")
  /\ UNCHANGED <<claude, stops, stopper, asked, status>>

ReadFrame == ReadUse \/ ReadResult \/ ReadStarted \/ ReadUpdated \/ ReadNotice \/ ReadRefusal

Next ==
  \/ \E j \in Job : StartJob(j) \/ FinishJob(j)
  \/ \E c \in Cmd : \/ Use(c) \/ StartCmd(c) \/ Progress(c) \/ MoveToBackground(c)
                    \/ EndCmd(c) \/ ReadStop(c)
  \/ ReadFrame

Spec == Init /\ [][Next]_vars

\* The reader reads and Claude Code obeys its stdin.  No command ends by itself.
FairSpec == Spec /\ WF_vars(ReadFrame) /\ \A c \in Cmd : WF_vars(ReadStop(c))

-----------------------------------------------------------------------------
(* Properties.                                                             *)

\* Only watchers are stopped, and once: whatever order frames come in, a stop_task
\* names a command that names the output file of a task that completed or failed
\* ("any other foreground command is left alone"), and a command that watches two
\* files costs one request.
OnlyWatchersStopped ==
  \A c \in Cmd :
    /\ asked[c] > 0 => \E j \in names[c] : job[j] \in Finished
    /\ asked[c] <= 1

\* When every frame is read, the stopper knows exactly the commands that run in
\* the foreground and were not asked to stop, and the tool calls not answered:
\* nothing an earlier frame said survives the frame that took it back.
CaughtUp ==
  out = <<>> =>
    /\ runningForegroundBashTasks = {c \in Cmd : cmd[c] = "foreground" /\ asked[c] = 0}
    /\ bashCommandByToolUseID = {c \in Cmd : cmd[c] \in {"used", "foreground"}}

\* ... and bridge-server sees a task as over exactly when it is, however it
\* ended, so that no session waits for a task that was stopped.
Terminal == {"completed", "failed", "cancelled"}
TasksSettle ==
  out = <<>> =>
    /\ \A j \in Job : status[j] \in Terminal <=> job[j] \notin {"none", "running"}
    /\ \A c \in Cmd : status[c] \in Terminal => cmd[c] = "ended"
    /\ \A c \in Cmd : cmd[c] = "ended" => status[c] \in Terminal \cup {""}

\* A command that watches a task when it finishes is let go, although it would
\* wait for ever by itself: its own start is read before the notice.
WatcherFreed == \A c \in Cmd : c \in doomed ~> cmd[c] # "foreground"
=============================================================================
