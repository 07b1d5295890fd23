---------------------- MODULE FinishedTaskWaitersProofs ----------------------
(***************************************************************************)
(* Only watchers are stopped, and once, for any jobs and commands, any     *)
(* names in their text and any length of stdout.  The stopper knows what   *)
(* the frames said, so the argument is about the frames not yet read; once *)
(* all are read its lists and the tasks' statuses are up to date.          *)
(***************************************************************************)
EXTENDS FinishedTaskWaiters, TLAPS

\* A frame that puts a command on the list.
Lists(f, c) == f.kind = "started" /\ f.status = "foreground" /\ f.task = c

\* What Claude Code writes: only commands are used, answered or run in the
\* foreground, a status is in the words of its kind, and the notice of a finished
\* job is true.
Sound(f, jobs) ==
  /\ f \in Frame
  /\ f.kind \in {"use", "result", "refused"} => f.task \in Cmd
  /\ f.kind = "started" /\ f.status = "foreground" => f.task \in Cmd
  /\ f.kind = "updated" => f.status # "foreground"
  /\ f.kind = "notice" => /\ f.status \notin {"foreground", "background"}
                          /\ f.status \in Finished /\ f.task \in Job => jobs[f.task] \in Finished

FramesSound == out \in Seq(Frame) /\ \A i \in 1..Len(out) : Sound(out[i], job)

\* Before a command runs nothing says that it does.
NotYet ==
  \A c \in Cmd : cmd[c] \in {"none", "used"} =>
    /\ c \notin runningForegroundBashTasks /\ asked[c] = 0
    /\ \A i \in 1..Len(out) : ~Lists(out[i], c)

\* A command is put on the list once, and leaves it when it is asked to stop.
ListedOnce ==
  \A c \in Cmd :
    /\ asked[c] <= 1
    /\ c \in runningForegroundBashTasks \/ asked[c] = 1 =>
         \A i \in 1..Len(out) : ~Lists(out[i], c)
    /\ c \in runningForegroundBashTasks => asked[c] = 0
    /\ \A i, j \in 1..Len(out) : Lists(out[i], c) /\ Lists(out[j], c) => i = j

\* Who was asked names a job that has finished.
AskedWatches ==
  \A c \in Cmd : asked[c] > 0 => \E j \in names[c] : job[j] \in Finished

WaiterInv == TypeOK /\ FramesSound /\ NotYet /\ ListedOnce /\ AskedWatches

-----------------------------------------------------------------------------
(* Sequences of frames.                                                    *)

\* A frame of out \o frames is one of either.
LEMMA Appended ==
  ASSUME NEW s \in Seq(Frame), NEW fs \in Seq(Frame)
  PROVE  /\ s \o fs \in Seq(Frame) /\ Len(s \o fs) = Len(s) + Len(fs)
         /\ Len(s) \in Nat /\ Len(fs) \in Nat
         /\ \A i \in 1..Len(s) : (s \o fs)[i] = s[i]
         /\ \A i \in 1..Len(s \o fs) :
              i \in 1..Len(s) \/ (i - Len(s) \in 1..Len(fs) /\ (s \o fs)[i] = fs[i - Len(s)])
  OBVIOUS

\* A frame that is read leaves the others in their order.
LEMMA HeadTail ==
  ASSUME NEW s \in Seq(Frame), s # <<>>
  PROVE  /\ Len(s) \in Nat /\ 1 \in 1..Len(s) /\ Head(s) = s[1]
         /\ Tail(s) \in Seq(Frame) /\ Len(Tail(s)) = Len(s) - 1
         /\ \A i \in 1..Len(Tail(s)) : i + 1 \in 1..Len(s) /\ Tail(s)[i] = s[i + 1]
  OBVIOUS

\* The frame about to be read is sound.
LEMMA HeadSound ==
  ASSUME FramesSound, out # <<>>
  PROVE  Sound(Head(out), job) /\ task \in Task
<1>1. Head(out) = out[1] /\ 1 \in 1..Len(out)
  BY HeadTail DEF FramesSound
<1>2. Sound(Head(out), job)
  BY <1>1 DEF FramesSound
<1> QED
  BY <1>2 DEF Sound, Frame, task

-----------------------------------------------------------------------------
(* Claude Code's steps: they only write frames.                            *)

\* What a step of Claude Code does to the part the invariant speaks of: it writes
\* sound frames that put on the list none, or one command that starts, and turns
\* no end back.
Writes(fs) ==
  /\ fs \in Seq(Frame) /\ out' = out \o fs
  /\ UNCHANGED <<runningForegroundBashTasks, asked>>
  /\ \A j \in Job : job[j] \in Finished => job'[j] \in Finished
  /\ \A i \in 1..Len(fs) : Sound(fs[i], job')
  /\ \A c \in Cmd : asked[c] > 0 => names'[c] = names[c]
  /\ \A c \in Cmd, i \in 1..Len(fs) :
       Lists(fs[i], c) => cmd[c] = "used" /\ cmd'[c] \notin {"none", "used"} /\ i = 1
  /\ \A c \in Cmd : cmd'[c] \in {"none", "used"} => cmd[c] \in {"none", "used"}

\* A step that only writes frames keeps the invariant.
LEMMA WritesKeep ==
  ASSUME WaiterInv, TypeOK', NEW fs, Writes(fs)
  PROVE  WaiterInv'
<1>0. out \in Seq(Frame) /\ fs \in Seq(Frame) /\ out' = out \o fs
  BY DEF WaiterInv, FramesSound, Writes
<1>1. /\ out' \in Seq(Frame) /\ Len(out) \in Nat
      /\ \A i \in 1..Len(out') : \/ i \in 1..Len(out) /\ out'[i] = out[i]
                                 \/ i - Len(out) \in 1..Len(fs) /\ out'[i] = fs[i - Len(out)]
  BY <1>0, Appended
<1>2. FramesSound'
  <2>1. ASSUME NEW i \in 1..Len(out) PROVE Sound(out[i], job')
    <3>1. Sound(out[i], job)
      BY DEF WaiterInv, FramesSound
    <3>2. \A j \in Job : job[j] \in Finished => job'[j] \in Finished
      BY DEF Writes
    <3> QED
      BY <3>1, <3>2 DEF Sound
  <2> QED
    BY <1>1, <2>1 DEF FramesSound, Writes
<1>3. ASSUME NEW c \in Cmd, NEW i \in 1..Len(out'), Lists(out'[i], c)
      PROVE  \/ i \in 1..Len(out) /\ Lists(out[i], c)
             \/ i = Len(out) + 1 /\ cmd[c] = "used" /\ cmd'[c] \notin {"none", "used"}
  <2>1. CASE i \in 1..Len(out) /\ out'[i] = out[i]
    BY <1>3, <2>1
  <2>2. CASE i - Len(out) \in 1..Len(fs) /\ out'[i] = fs[i - Len(out)]
    <3> DEFINE k == i - Len(out)
    <3>1. k \in 1..Len(fs) /\ Lists(fs[k], c)
      BY <1>3, <2>2
    <3>2. cmd[c] = "used" /\ cmd'[c] \notin {"none", "used"} /\ k = 1
      BY <3>1 DEF Writes
    <3>3. i = Len(out) + 1
      BY <1>1, <3>2
    <3> QED
      BY <3>2, <3>3
  <2> QED
    BY <1>1, <2>1, <2>2
<1>4. NotYet'
  BY <1>3 DEF WaiterInv, NotYet, Writes
<1>5. ListedOnce'
  <2> SUFFICES ASSUME NEW c \in Cmd
               PROVE  /\ asked'[c] <= 1
                      /\ c \in runningForegroundBashTasks' \/ asked'[c] = 1 =>
                           \A i \in 1..Len(out') : ~Lists(out'[i], c)
                      /\ c \in runningForegroundBashTasks' => asked'[c] = 0
                      /\ \A i, j \in 1..Len(out') :
                           Lists(out'[i], c) /\ Lists(out'[j], c) => i = j
    BY DEF ListedOnce
  <2>1. asked'[c] = asked[c] /\ (c \in runningForegroundBashTasks' <=> c \in runningForegroundBashTasks)
    BY DEF Writes
  <2>2. CASE \A i \in 1..Len(out') : Lists(out'[i], c) => i \in 1..Len(out) /\ Lists(out[i], c)
    BY <2>1, <2>2 DEF WaiterInv, ListedOnce
  <2>3. CASE cmd[c] = "used"
    <3>1. /\ c \notin runningForegroundBashTasks /\ asked[c] = 0
          /\ \A i \in 1..Len(out) : ~Lists(out[i], c)
      BY <2>3 DEF WaiterInv, NotYet
    <3>2. \A i \in 1..Len(out') : Lists(out'[i], c) => i = Len(out) + 1
      BY <1>3, <3>1
    <3> QED
      BY <2>1, <3>1, <3>2
  <2> QED
    BY <1>3, <2>2, <2>3
<1>6. AskedWatches'
  <2> SUFFICES ASSUME NEW c \in Cmd, asked'[c] > 0
               PROVE  \E j \in names'[c] : job'[j] \in Finished
    BY DEF AskedWatches
  <2>1. asked[c] > 0 /\ names'[c] = names[c]
    BY DEF Writes
  <2>2. PICK j \in names[c] : job[j] \in Finished
    BY <2>1 DEF WaiterInv, AskedWatches
  <2>3. j \in Job
    BY <2>2 DEF WaiterInv, TypeOK
  <2> QED
    BY <2>1, <2>2, <2>3 DEF Writes
<1> QED
  BY <1>2, <1>4, <1>5, <1>6 DEF WaiterInv

\* No job is a command, so no frame about a job lists a command.
LEMMA TasksDiffer ==
  /\ \A j \in Job : j \in Task /\ j \notin Cmd
  /\ \A c \in Cmd : c \in Task /\ c \notin Job
  BY WaiterAssumption DEF Task

\* What a step that writes one, two or three frames adds to stdout.
LEMMA OneFrame ==
  ASSUME NEW f \in Frame
  PROVE  /\ <<f>> \in Seq(Frame) /\ 1..Len(<<f>>) = {1} /\ <<f>>[1] = f
  OBVIOUS

LEMMA TwoFrames ==
  ASSUME NEW f \in Frame, NEW g \in Frame
  PROVE  /\ <<f, g>> \in Seq(Frame) /\ 1..Len(<<f, g>>) = {1, 2}
         /\ <<f, g>>[1] = f /\ <<f, g>>[2] = g
  OBVIOUS

LEMMA ThreeFrames ==
  ASSUME NEW f \in Frame, NEW g \in Frame, NEW h \in Frame
  PROVE  /\ <<f, g, h>> \in Seq(Frame) /\ 1..Len(<<f, g, h>>) = {1, 2, 3}
         /\ <<f, g, h>>[1] = f /\ <<f, g, h>>[2] = g /\ <<f, g, h>>[3] = h
  OBVIOUS

\* Frames that list nobody may be written by a step that starts nobody.
Plain(f) == Sound(f, job') /\ \A c \in Cmd : ~Lists(f, c)

Quiet ==
  /\ UNCHANGED <<runningForegroundBashTasks, asked>>
  /\ \A j \in Job : job[j] \in Finished => job'[j] \in Finished
  /\ \A c \in Cmd : asked[c] > 0 => names'[c] = names[c]
  /\ \A c \in Cmd : cmd'[c] \in {"none", "used"} => cmd[c] \in {"none", "used"}

\* Frames that list nobody may be written whatever the lists hold.
LEMMA PlainWrites ==
  ASSUME WaiterInv, Quiet, NEW fs, out' = out \o fs, fs \in Seq(Frame),
         \A i \in 1..Len(fs) : Plain(fs[i])
  PROVE  out' \in Seq(Frame) /\ Writes(fs)
<1>1. out' \in Seq(Frame)
  BY Appended DEF WaiterInv, TypeOK
<1> QED
  BY <1>1 DEF Quiet, Plain, Writes

\* The two frames that narrate an end, in either order, are such frames.
LEMMA PlainTwo ==
  ASSUME WaiterInv, Quiet, NEW f \in Frame, NEW g \in Frame, Plain(f), Plain(g),
         out' = out \o <<f, g>>
  PROVE  out' \in Seq(Frame) /\ Writes(<<f, g>>)
<1> DEFINE fs == <<f, g>>
<1>1. fs \in Seq(Frame) /\ 1..Len(fs) = {1, 2} /\ fs[1] = f /\ fs[2] = g
  BY TwoFrames
<1>2. out' = out \o fs
  OBVIOUS
<1> HIDE DEF fs
<1>3. \A i \in 1..Len(fs) : Plain(fs[i])
  BY <1>1
<1>4. out' \in Seq(Frame) /\ Writes(fs)
  BY <1>1, <1>2, <1>3, PlainWrites
<1> QED
  BY <1>4 DEF fs

\* Claude Code's actions, one lemma each.
LEMMA StartJobStep ==
  ASSUME WaiterInv, NEW j \in Job, StartJob(j)
  PROVE  WaiterInv'
<1> DEFINE f == frame("started", j, "background")
<1>1. Plain(f) /\ f \in Frame
  BY TasksDiffer DEF frame, Frame, Plain, Sound, Lists
<1>2. out' = out \o <<f>>
  BY DEF StartJob, Emits
<1> HIDE DEF f
<1>3. Quiet
  BY DEF StartJob, harness, stopper, Quiet, WaiterInv, TypeOK, Finished
<1>4. out' \in Seq(Frame) /\ Writes(<<f>>)
  BY <1>1, <1>2, <1>3, OneFrame, PlainWrites
<1>5. TypeOK'
  BY <1>4 DEF StartJob, harness, stopper, WaiterInv, TypeOK
<1> QED
  BY <1>4, <1>5, WritesKeep

LEMMA FinishJobStep ==
  ASSUME WaiterInv, NEW j \in Job, FinishJob(j)
  PROVE  WaiterInv'
<1>1. PICK s \in Finished \cup {"stopped"} :
        /\ job' = [job EXCEPT ![j] = s]
        /\ Emits(<<frame("notice", j, s),
                   frame("updated", j, IF s = "stopped" THEN "killed" ELSE s)>>)
        /\ doomed' = IF s \in Finished
                     THEN doomed \cup {c \in Cmd : cmd[c] = "foreground" /\ j \in names[c]}
                     ELSE doomed
  BY DEF FinishJob
<1> DEFINE f == frame("notice", j, s)
           g == frame("updated", j, IF s = "stopped" THEN "killed" ELSE s)
<1>2. job'[j] = s /\ job[j] = "running" /\ \A k \in Job : k # j => job'[k] = job[k]
  BY <1>1 DEF FinishJob, WaiterInv, TypeOK
<1>3. Plain(f) /\ f \in Frame
  BY <1>2, TasksDiffer DEF frame, Frame, Plain, Sound, Lists, Finished
<1>4. Plain(g) /\ g \in Frame
  BY TasksDiffer DEF frame, Frame, Plain, Sound, Lists, Finished
<1>5. out' = out \o <<f, g>>
  BY <1>1 DEF Emits
<1> HIDE DEF f, g
<1>6. Quiet
  BY <1>2 DEF FinishJob, harness, stopper, Quiet, Finished
<1>7. out' \in Seq(Frame) /\ Writes(<<f, g>>)
  BY <1>3, <1>4, <1>5, <1>6, PlainTwo
<1>8. TypeOK'
  BY <1>1, <1>7 DEF FinishJob, harness, stopper, WaiterInv, TypeOK
<1> QED
  BY <1>7, <1>8, WritesKeep

LEMMA UseStep ==
  ASSUME WaiterInv, NEW c \in Cmd, Use(c)
  PROVE  WaiterInv'
<1> DEFINE f == frame("use", c, "")
<1>1. Plain(f) /\ f \in Frame
  BY TasksDiffer DEF frame, Frame, Plain, Sound, Lists
<1>2. out' = out \o <<f>>
  BY DEF Use, Emits
<1>3. PICK files \in SUBSET {j \in Job : job[j] # "none"} : names' = [names EXCEPT ![c] = files]
  BY DEF Use
<1> HIDE DEF f
<1>4. asked[c] = 0
  BY DEF Use, WaiterInv, NotYet
<1>5. Quiet
  <2>1. /\ UNCHANGED <<runningForegroundBashTasks, asked, job>>
        /\ cmd[c] = "none" /\ cmd' = [cmd EXCEPT ![c] = "used"]
    BY DEF Use, harness, stopper
  <2>2. \A d \in Cmd : d # c => names'[d] = names[d]
    BY <1>3 DEF WaiterInv, TypeOK
  <2>3. \A d \in Cmd : d # c => cmd'[d] = cmd[d]
    BY <2>1 DEF WaiterInv, TypeOK
  <2> QED
    BY <1>4, <2>1, <2>2, <2>3 DEF Quiet
<1>6. out' \in Seq(Frame) /\ Writes(<<f>>)
  BY <1>1, <1>2, <1>5, OneFrame, PlainWrites
<1>7. TypeOK'
  BY <1>3, <1>6 DEF Use, harness, stopper, WaiterInv, TypeOK
<1> QED
  BY <1>6, <1>7, WritesKeep

LEMMA StartCmdStep ==
  ASSUME WaiterInv, NEW c \in Cmd, StartCmd(c)
  PROVE  WaiterInv'
<1> DEFINE f == frame("started", c, "foreground")
           g == frame("started", c, "background")
           h == frame("result", c, "")
<1>0. /\ cmd[c] = "used" /\ UNCHANGED <<job, names, doomed, stops, stopper, asked, status>>
  BY DEF StartCmd, harness
<1>1. Sound(f, job') /\ f \in Frame /\ \A d \in Cmd : Lists(f, d) => d = c
  BY TasksDiffer DEF frame, Frame, Sound, Lists
<1>2. Plain(g) /\ g \in Frame /\ Plain(h) /\ h \in Frame
  BY TasksDiffer DEF frame, Frame, Plain, Sound, Lists
<1>3. \/ cmd' = [cmd EXCEPT ![c] = "foreground"] /\ out' = out \o <<f>>
      \/ cmd' = [cmd EXCEPT ![c] = "background"] /\ out' = out \o <<g, h>>
  BY DEF StartCmd, Emits
<1> HIDE DEF f, g, h
<1>4. Quiet
  BY <1>0, <1>3 DEF stopper, Quiet, WaiterInv, TypeOK
<1>5. CASE cmd' = [cmd EXCEPT ![c] = "foreground"] /\ out' = out \o <<f>>
  <2>1. out' \in Seq(Frame)
    BY <1>1, <1>5, OneFrame, Appended DEF WaiterInv, TypeOK
  <2>2. cmd'[c] = "foreground"
    BY <1>5 DEF WaiterInv, TypeOK
  <2>3. Writes(<<f>>)
    BY <1>0, <1>1, <1>4, <1>5, <2>2, OneFrame DEF Quiet, Writes
  <2>4. TypeOK'
    BY <1>0, <1>5, <2>1 DEF stopper, WaiterInv, TypeOK
  <2> QED
    BY <2>3, <2>4, WritesKeep
<1>6. CASE cmd' = [cmd EXCEPT ![c] = "background"] /\ out' = out \o <<g, h>>
  <2>1. out' \in Seq(Frame) /\ Writes(<<g, h>>)
    BY <1>2, <1>4, <1>6, PlainTwo
  <2>2. TypeOK'
    BY <1>0, <1>6, <2>1 DEF stopper, WaiterInv, TypeOK
  <2> QED
    BY <2>1, <2>2, WritesKeep
<1> QED
  BY <1>3, <1>5, <1>6

LEMMA ProgressStep ==
  ASSUME WaiterInv, NEW c \in Cmd, Progress(c)
  PROVE  WaiterInv'
<1> DEFINE f == frame("updated", c, "running")
<1>1. Plain(f) /\ f \in Frame
  BY TasksDiffer DEF frame, Frame, Plain, Sound, Lists
<1>2. out' = out \o <<f>> /\ UNCHANGED <<claude, stops, harness>>
  BY DEF Progress, Emits
<1> HIDE DEF f
<1>3. Quiet
  BY <1>2 DEF claude, harness, stopper, Quiet
<1>4. out' \in Seq(Frame) /\ Writes(<<f>>)
  BY <1>1, <1>2, <1>3, OneFrame, PlainWrites
<1>5. TypeOK'
  BY <1>2, <1>4 DEF claude, harness, stopper, WaiterInv, TypeOK
<1> QED
  BY <1>4, <1>5, WritesKeep

LEMMA MoveToBackgroundStep ==
  ASSUME WaiterInv, NEW c \in Cmd, MoveToBackground(c)
  PROVE  WaiterInv'
<1> DEFINE f == frame("updated", c, "background")
           g == frame("result", c, "")
<1>1. Plain(f) /\ f \in Frame /\ Plain(g) /\ g \in Frame
  BY TasksDiffer DEF frame, Frame, Plain, Sound, Lists
<1>2. /\ out' = out \o <<f, g>> /\ cmd' = [cmd EXCEPT ![c] = "background"]
      /\ cmd[c] = "foreground" /\ UNCHANGED <<job, names, doomed, stops, harness>>
  BY DEF MoveToBackground, Emits
<1> HIDE DEF f, g
<1>3. Quiet
  BY <1>2 DEF harness, stopper, Quiet, WaiterInv, TypeOK
<1>4. out' \in Seq(Frame) /\ Writes(<<f, g>>)
  BY <1>1, <1>2, <1>3, PlainTwo
<1>5. TypeOK'
  BY <1>2, <1>4 DEF harness, stopper, WaiterInv, TypeOK
<1> QED
  BY <1>4, <1>5, WritesKeep

LEMMA EndCmdStep ==
  ASSUME WaiterInv, NEW c \in Cmd, EndCmd(c)
  PROVE  WaiterInv'
<1>1. PICK s \in Finished :
        \/ cmd[c] = "used" /\ Emits(<<frame("result", c, "")>>)
        \/ cmd[c] = "foreground" /\ Emits(<<frame("updated", c, s), frame("result", c, "")>>)
        \/ cmd[c] = "foreground" /\ Emits(<<frame("result", c, ""), frame("updated", c, s)>>)
        \/ cmd[c] = "background" /\ Emits(<<frame("notice", c, s), frame("updated", c, s)>>)
  BY DEF EndCmd
<1> DEFINE r == frame("result", c, "")
           u == frame("updated", c, s)
           n == frame("notice", c, s)
<1>2. /\ Plain(r) /\ r \in Frame /\ Plain(u) /\ u \in Frame /\ Plain(n) /\ n \in Frame
  BY TasksDiffer DEF frame, Frame, Plain, Sound, Lists, Finished
<1>3. /\ cmd' = [cmd EXCEPT ![c] = "ended"] /\ cmd[c] # "none"
      /\ UNCHANGED <<job, names, doomed, stops, harness>>
  BY <1>1 DEF EndCmd
<1>4. \/ out' = out \o <<r>> \/ out' = out \o <<u, r>>
      \/ out' = out \o <<r, u>> \/ out' = out \o <<n, u>>
  BY <1>1 DEF Emits
<1> HIDE DEF r, u, n
<1>5. Quiet
  BY <1>3 DEF harness, stopper, Quiet, WaiterInv, TypeOK
<1>6. PICK fs : out' \in Seq(Frame) /\ Writes(fs)
  BY <1>2, <1>4, <1>5, OneFrame, PlainWrites, PlainTwo
<1>7. TypeOK'
  BY <1>3, <1>6 DEF harness, stopper, WaiterInv, TypeOK
<1> QED
  BY <1>6, <1>7, WritesKeep

\* Types after a stop_task was read, whatever was written.
LEMMA StopTypes ==
  ASSUME WaiterInv, NEW c \in Cmd, ReadStop(c), out' \in Seq(Frame)
  PROVE  TypeOK'
  BY DEF ReadStop, harness, stopper, WaiterInv, TypeOK

\* A stop_task is obeyed or refused: both only write.
LEMMA ReadStopStep ==
  ASSUME WaiterInv, NEW c \in Cmd, ReadStop(c)
  PROVE  WaiterInv'
<1> DEFINE n == frame("notice", c, "stopped")
           u == frame("updated", c, "killed")
           r == frame("result", c, "")
           x == frame("refused", c, "")
<1>1. /\ Plain(n) /\ n \in Frame /\ Plain(u) /\ u \in Frame
      /\ Plain(r) /\ r \in Frame /\ Plain(x) /\ x \in Frame
  BY TasksDiffer DEF frame, Frame, Plain, Sound, Lists, Finished
<1>2. /\ \/ cmd' = [cmd EXCEPT ![c] = "ended"] /\ cmd[c] \in {"foreground", "background"}
         \/ cmd' = cmd
      /\ stops' = stops \ {c} /\ UNCHANGED <<job, names, doomed, harness>>
  BY DEF ReadStop
<1>3. \/ out' = out \o <<n, u, r>> \/ out' = out \o <<n, u>> \/ out' = out \o <<x>>
  BY DEF ReadStop
<1> HIDE DEF n, u, r, x
<1>4. Quiet
  BY <1>2 DEF harness, stopper, Quiet, WaiterInv, TypeOK
<1>5. CASE out' = out \o <<n, u, r>>
  <2> DEFINE fs == <<n, u, r>>
  <2>1. /\ fs \in Seq(Frame) /\ 1..Len(fs) = {1, 2, 3}
        /\ fs[1] = n /\ fs[2] = u /\ fs[3] = r
    BY <1>1, ThreeFrames
  <2>2. out' = out \o fs
    BY <1>5
  <2> HIDE DEF fs
  <2>3. \A i \in 1..Len(fs) : Plain(fs[i])
    BY <1>1, <2>1
  <2> QED
    BY <1>4, <2>1, <2>2, <2>3, PlainWrites, StopTypes, WritesKeep
<1>6. CASE out' = out \o <<n, u>>
  BY <1>1, <1>4, <1>6, PlainTwo, StopTypes, WritesKeep
<1>7. CASE out' = out \o <<x>>
  BY <1>1, <1>4, <1>7, OneFrame, PlainWrites, StopTypes, WritesKeep
<1> QED
  BY <1>3, <1>5, <1>6, <1>7

-----------------------------------------------------------------------------
(* The reader's steps: they take the first frame.                          *)

\* Nobody is listed but by the frame read, and who is asked was listed, is taken
\* off, and names a finished job.
LEMMA ReadKeeps ==
  ASSUME WaiterInv, TypeOK', out # <<>>, out' = Tail(out), UNCHANGED <<job, cmd, names>>,
         \A c \in Cmd : c \in runningForegroundBashTasks' =>
           c \in runningForegroundBashTasks \/ Lists(Head(out), c),
         \A c \in Cmd : \/ asked'[c] = asked[c]
                        \/ /\ asked'[c] = asked[c] + 1
                          /\ c \in runningForegroundBashTasks
                          /\ c \notin runningForegroundBashTasks'
                          /\ \E j \in names[c] : job[j] \in Finished
  PROVE  WaiterInv'
<1>1. /\ Len(out) \in Nat /\ 1 \in 1..Len(out) /\ Head(out) = out[1]
      /\ out' \in Seq(Frame) /\ Len(out') = Len(out) - 1
      /\ \A i \in 1..Len(out') : i + 1 \in 1..Len(out) /\ out'[i] = out[i + 1] /\ i \in 1..Len(out)
  BY HeadTail DEF WaiterInv, FramesSound
<1>2. FramesSound'
  BY <1>1 DEF WaiterInv, FramesSound
<1>3. NotYet'
  <2> SUFFICES ASSUME NEW c \in Cmd, cmd[c] \in {"none", "used"}
               PROVE  /\ c \notin runningForegroundBashTasks' /\ asked'[c] = 0
                      /\ \A i \in 1..Len(out') : ~Lists(out'[i], c)
    BY DEF NotYet
  <2>1. /\ c \notin runningForegroundBashTasks /\ asked[c] = 0
        /\ \A i \in 1..Len(out) : ~Lists(out[i], c)
    BY DEF WaiterInv, NotYet
  <2> QED
    BY <1>1, <2>1
<1>4. ListedOnce'
  <2> SUFFICES ASSUME NEW c \in Cmd
               PROVE  /\ asked'[c] <= 1
                      /\ c \in runningForegroundBashTasks' \/ asked'[c] = 1 =>
                           \A i \in 1..Len(out') : ~Lists(out'[i], c)
                      /\ c \in runningForegroundBashTasks' => asked'[c] = 0
                      /\ \A i, j \in 1..Len(out') :
                           Lists(out'[i], c) /\ Lists(out'[j], c) => i = j
    BY DEF ListedOnce
  <2>1. /\ asked[c] <= 1 /\ asked[c] \in Nat
        /\ c \in runningForegroundBashTasks \/ asked[c] = 1 =>
             \A i \in 1..Len(out) : ~Lists(out[i], c)
        /\ c \in runningForegroundBashTasks => asked[c] = 0
        /\ \A i, j \in 1..Len(out) : Lists(out[i], c) /\ Lists(out[j], c) => i = j
    BY DEF WaiterInv, ListedOnce, TypeOK
  <2>2. \A i \in 1..Len(out') : i + 1 # 1
    BY <1>1
  <2>3. CASE c \in runningForegroundBashTasks
    BY <1>1, <2>1, <2>3
  <2>4. CASE c \notin runningForegroundBashTasks /\ Lists(out[1], c)
    <3>1. asked[c] = 0 /\ asked'[c] = 0
      BY <1>1, <2>1, <2>4
    <3>2. \A i \in 1..Len(out') : ~Lists(out'[i], c)
      BY <1>1, <2>1, <2>2, <2>4
    <3> QED
      BY <3>1, <3>2
  <2>5. CASE c \notin runningForegroundBashTasks /\ ~Lists(out[1], c)
    <3>1. c \notin runningForegroundBashTasks' /\ asked'[c] = asked[c]
      BY <1>1, <2>5
    <3>2. \A i, j \in 1..Len(out') : Lists(out'[i], c) /\ Lists(out'[j], c) => i = j
      <4>1. \A i, j \in 1..Len(out') : i + 1 = j + 1 => i = j
        BY <1>1
      <4> QED
        BY <1>1, <2>1, <4>1
    <3> QED
      BY <1>1, <2>1, <3>1, <3>2
  <2> QED
    BY <2>3, <2>4, <2>5
<1>5. AskedWatches'
  BY DEF WaiterInv, AskedWatches
<1> QED
  BY <1>2, <1>3, <1>4, <1>5 DEF WaiterInv

\* taskStatusOf yields a word bridge-server knows.
LEMMA StatusWord ==
  ASSUME NEW s \in {"", "running", "completed", "failed", "stopped", "killed"}
  PROVE  /\ taskStatusOf(s, "") \in {"", "running", "cancelled"} \cup Finished
         /\ taskStatusOf("", s) \in {"", "running", "cancelled"} \cup Finished
  BY DEF taskStatusOf, Finished

\* The reader's actions, one lemma each.
LEMMA ReadUseStep ==
  ASSUME WaiterInv, ReadUse
  PROVE  WaiterInv'
<1>1. /\ out # <<>> /\ out' = Tail(out) /\ Head(out).kind = "use"
      /\ UNCHANGED <<claude, stops, runningForegroundBashTasks, asked, status>>
      /\ bashCommandByToolUseID' = bashCommandByToolUseID \cup {task}
  BY DEF ReadUse, Reads
<1>2. task \in Cmd
  BY <1>1, HeadSound DEF WaiterInv, Sound, task
<1>3. TypeOK'
  BY <1>1, <1>2, HeadTail DEF WaiterInv, TypeOK, claude
<1> QED
  BY <1>1, <1>3, ReadKeeps DEF claude

LEMMA ReadResultStep ==
  ASSUME WaiterInv, ReadResult
  PROVE  WaiterInv'
<1>1. /\ out # <<>> /\ out' = Tail(out)
      /\ UNCHANGED <<claude, stops, runningForegroundBashTasks, asked, status>>
      /\ bashCommandByToolUseID' = bashCommandByToolUseID \ {task}
  BY DEF ReadResult, Reads
<1>2. TypeOK'
  BY <1>1, HeadTail DEF WaiterInv, TypeOK, claude
<1> QED
  BY <1>1, <1>2, ReadKeeps DEF claude

LEMMA ReadStartedStep ==
  ASSUME WaiterInv, ReadStarted
  PROVE  WaiterInv'
<1>1. /\ out # <<>> /\ out' = Tail(out) /\ Head(out).kind = "started"
      /\ UNCHANGED <<claude, stops, bashCommandByToolUseID, asked, status>>
      /\ runningForegroundBashTasks' =
           IF word = "foreground" THEN runningForegroundBashTasks \cup {task}
           ELSE runningForegroundBashTasks
  BY DEF ReadStarted, Reads
<1>2. word = "foreground" => task \in Cmd
  BY <1>1, HeadSound DEF WaiterInv, Sound, task, word
<1>3. TypeOK'
  BY <1>1, <1>2, HeadTail DEF WaiterInv, TypeOK, claude
<1>4. \A c \in Cmd : c \in runningForegroundBashTasks' =>
        c \in runningForegroundBashTasks \/ Lists(Head(out), c)
  BY <1>1 DEF Lists, task, word
<1> QED
  BY <1>1, <1>3, <1>4, ReadKeeps DEF claude

LEMMA ReadUpdatedStep ==
  ASSUME WaiterInv, ReadUpdated
  PROVE  WaiterInv'
<1> DEFINE w == IF word = "background" THEN "" ELSE word
<1>1. /\ out # <<>> /\ out' = Tail(out) /\ Head(out).kind = "updated"
      /\ UNCHANGED <<claude, stops, bashCommandByToolUseID, asked>>
      /\ runningForegroundBashTasks' \subseteq runningForegroundBashTasks
      /\ status' = [status EXCEPT ![task] = taskStatusOf("", w)]
  BY DEF ReadUpdated, Reads
<1>2. w \in {"", "running", "completed", "failed", "stopped", "killed"}
  BY <1>1, HeadSound DEF WaiterInv, Sound, Frame, word
<1> HIDE DEF w
<1>3. taskStatusOf("", w) \in {"", "running", "cancelled"} \cup Finished
  BY <1>2, StatusWord
<1>4. TypeOK'
  BY <1>1, <1>3, HeadTail DEF WaiterInv, TypeOK, claude
<1> QED
  BY <1>1, <1>4, ReadKeeps DEF claude

LEMMA ReadNoticeStep ==
  ASSUME WaiterInv, ReadNotice
  PROVE  WaiterInv'
<1>1. /\ out # <<>> /\ out' = Tail(out) /\ Head(out).kind = "notice"
      /\ UNCHANGED <<claude, bashCommandByToolUseID>>
      /\ runningForegroundBashTasks' = runningForegroundBashTasks \ ({task} \cup Waiters)
      /\ stops' = stops \cup Waiters
      /\ asked' = [c \in Cmd |-> IF c \in Waiters THEN asked[c] + 1 ELSE asked[c]]
      /\ status' = [status EXCEPT ![task] = taskStatusOf(word, "")]
  BY DEF ReadNotice, Reads
<1>2. word \in {"", "running", "completed", "failed", "stopped", "killed"}
  BY <1>1, HeadSound DEF WaiterInv, Sound, Frame, word
<1>3. word \in Finished /\ task \in Job => job[task] \in Finished
  BY <1>1, HeadSound DEF WaiterInv, Sound, word, task
<1>4. Waiters \subseteq runningForegroundBashTasks /\ Waiters \subseteq Cmd
  BY DEF Waiters, WaiterInv, TypeOK
<1>5. \A c \in Waiters : \E j \in names[c] : job[j] \in Finished
  <2> SUFFICES ASSUME NEW c \in Waiters
               PROVE  \E j \in names[c] : job[j] \in Finished
    OBVIOUS
  <2>1. task \in names[c] /\ word \in Finished
    BY DEF Waiters
  <2>2. task \in Job
    BY <1>4, <2>1 DEF WaiterInv, TypeOK
  <2> QED
    BY <1>3, <2>1, <2>2
<1>6. taskStatusOf(word, "") \in {"", "running", "cancelled"} \cup Finished
  BY <1>2, StatusWord
<1>7. TypeOK'
  <2>1. asked' \in [Cmd -> Nat]
    <3>1. asked \in [Cmd -> Nat]
      BY DEF WaiterInv, TypeOK
    <3>2. \A c \in Cmd : asked[c] \in Nat /\ asked[c] + 1 \in Nat
      BY <3>1
    <3>3. asked' = [c \in Cmd |-> IF c \in Waiters THEN asked[c] + 1 ELSE asked[c]]
      BY <1>1
    <3> QED
      BY <3>2, <3>3
  <2>2. status' \in [Task -> {"", "running", "cancelled"} \cup Finished]
    BY <1>1, <1>6 DEF WaiterInv, TypeOK
  <2>3. stops' \subseteq Cmd /\ runningForegroundBashTasks' \subseteq Cmd
    BY <1>1, <1>4 DEF WaiterInv, TypeOK
  <2>4. out' \in Seq(Frame)
    BY <1>1, HeadTail DEF WaiterInv, TypeOK
  <2> QED
    BY <1>1, <2>1, <2>2, <2>3, <2>4 DEF WaiterInv, TypeOK, claude
<1>8. \A c \in Cmd : \/ asked'[c] = asked[c]
                     \/ /\ asked'[c] = asked[c] + 1
                       /\ c \in runningForegroundBashTasks
                       /\ c \notin runningForegroundBashTasks'
                       /\ \E j \in names[c] : job[j] \in Finished
  BY <1>1, <1>4, <1>5
<1> QED
  BY <1>1, <1>7, <1>8, ReadKeeps DEF claude

LEMMA ReadRefusalStep ==
  ASSUME WaiterInv, ReadRefusal
  PROVE  WaiterInv'
<1>1. out # <<>> /\ out' = Tail(out) /\ UNCHANGED <<claude, stops, stopper, asked, status>>
  BY DEF ReadRefusal, Reads
<1>2. TypeOK'
  BY <1>1, HeadTail DEF WaiterInv, TypeOK, claude, stopper
<1> QED
  BY <1>1, <1>2, ReadKeeps DEF claude, stopper

-----------------------------------------------------------------------------
(* The theorems.                                                           *)

\* The invariant holds at first, and every step keeps it.
LEMMA InitWaiters == Init => WaiterInv
<1> SUFFICES ASSUME Init PROVE WaiterInv
  OBVIOUS
<1>1. out \in Seq(Frame) /\ Len(out) = 0
  <2>1. <<>> \in Seq(Frame) /\ Len(<<>>) = 0
    OBVIOUS
  <2>2. out = <<>>
    BY DEF Init
  <2> QED
    BY <2>1, <2>2
<1>2. \A i \in 1..Len(out) : FALSE
  BY <1>1
<1>3. \A c \in Cmd : asked[c] = 0 /\ c \notin runningForegroundBashTasks
  BY DEF Init
<1>4. TypeOK
  BY <1>1 DEF Init, TypeOK, Task
<1>5. FramesSound
  BY <1>1, <1>2 DEF FramesSound
<1>6. NotYet
  BY <1>2, <1>3 DEF NotYet
<1>7. ListedOnce
  BY <1>2, <1>3 DEF ListedOnce
<1>8. AskedWatches
  BY <1>3 DEF AskedWatches
<1> QED
  BY <1>4, <1>5, <1>6, <1>7, <1>8 DEF WaiterInv

LEMMA NextWaiters == WaiterInv /\ [Next]_vars => WaiterInv'
<1> SUFFICES ASSUME WaiterInv, [Next]_vars PROVE WaiterInv'
  OBVIOUS
<1>1. CASE \E j \in Job : StartJob(j) \/ FinishJob(j)
  BY <1>1, StartJobStep, FinishJobStep
<1>2. CASE \E c \in Cmd : \/ Use(c) \/ StartCmd(c) \/ Progress(c) \/ MoveToBackground(c)
                          \/ EndCmd(c) \/ ReadStop(c)
  BY <1>2, UseStep, StartCmdStep, ProgressStep, MoveToBackgroundStep, EndCmdStep, ReadStopStep
<1>3. CASE ReadFrame
  BY <1>3, ReadUseStep, ReadResultStep, ReadStartedStep, ReadUpdatedStep, ReadNoticeStep,
     ReadRefusalStep DEF ReadFrame
<1>4. CASE UNCHANGED vars
  BY <1>4 DEF vars, claude, stopper, WaiterInv, TypeOK, FramesSound, NotYet, ListedOnce, AskedWatches
<1> QED
  BY <1>1, <1>2, <1>3, <1>4 DEF Next

LEMMA WaitersAlways == Spec => []WaiterInv
<1>1. Init => WaiterInv
  BY InitWaiters
<1>2. WaiterInv /\ [Next]_vars => WaiterInv'
  BY NextWaiters
<1> QED
  BY <1>1, <1>2, PTL DEF Spec

\* Every variable keeps its type: the lists hold commands only, and no status goes
\* out in a word of Claude Code's own, stopped or killed (canonicalTaskStatus).
THEOREM WaiterTypes == Spec => []TypeOK
<1>1. WaiterInv => TypeOK
  BY DEF WaiterInv
<1> QED
  BY <1>1, WaitersAlways, PTL

\* A command is asked to stop at most once, and only if it names the output file
\* of a job that has finished, in every order of frames and requests (observe:
\* "any other foreground command is left alone").
THEOREM StopsWatchersOnly == Spec => []OnlyWatchersStopped
<1>1. WaiterInv => OnlyWatchersStopped
  BY DEF WaiterInv, ListedOnce, AskedWatches, OnlyWatchersStopped
<1> QED
  BY <1>1, WaitersAlways, PTL
-----------------------------------------------------------------------------
(* What is left to read brings the lists and the statuses up to date.       *)

\* Frames about a command's tool call, frames that take a task off the list, and
\* frames that give a task a status.
Uses(f, c)    == f.kind = "use" /\ f.task = c
Answers(f, c) == f.kind = "result" /\ f.task = c
Says(f, t)    == f.kind \in {"updated", "notice"} /\ f.task = t
Unlists(f, t) == Says(f, t) /\ f.status # "running"

Early == {"none", "used", "foreground"}
Late  == {"background", "ended"}

\* A tool call without an answer is known, or will be; an answered one is not, or
\* will not be.
CallsFollowed ==
  \A c \in Cmd :
    /\ cmd[c] = "none" =>
         c \notin bashCommandByToolUseID /\ \A i \in 1..Len(out) : ~Uses(out[i], c)
    /\ cmd[c] \in Early => \A i \in 1..Len(out) : ~Answers(out[i], c)
    /\ cmd[c] \in {"used", "foreground"} =>
         c \in bashCommandByToolUseID \/ \E i \in 1..Len(out) : Uses(out[i], c)
    /\ cmd[c] \in Late /\ c \in bashCommandByToolUseID =>
         \E i \in 1..Len(out) : Answers(out[i], c)
    /\ cmd[c] \in Late => \A i \in 1..Len(out) :
         Uses(out[i], c) => \E k \in 1..Len(out) : k > i /\ Answers(out[k], c)

\* A command in the foreground is on the list, will be, or was asked to stop; one
\* that left it is not, or will not be.
ListFollowed ==
  \A c \in Cmd :
    /\ cmd[c] \in Early => \A i \in 1..Len(out) : ~Unlists(out[i], c)
    /\ cmd[c] = "foreground" =>
         \/ c \in runningForegroundBashTasks \/ asked[c] > 0
         \/ \E i \in 1..Len(out) : Lists(out[i], c)
    /\ cmd[c] \in Late /\ c \in runningForegroundBashTasks =>
         \E i \in 1..Len(out) : Unlists(out[i], c)
    /\ cmd[c] \in Late => \A i \in 1..Len(out) :
         Lists(out[i], c) => \E k \in 1..Len(out) : k > i /\ Unlists(out[k], c)

\* What frames say of a status is in the words of an end but for what a command
\* says under way.
Over == Finished \cup {"stopped", "killed"}

\* A job's status is final once it has finished, or will be.
JobsFollowed ==
  \A j \in Job :
    /\ job[j] \in {"none", "running"} =>
         status[j] \notin Terminal /\ \A i \in 1..Len(out) : ~Says(out[i], j)
    /\ job[j] \notin {"none", "running"} =>
         status[j] \in Terminal \/ \E i \in 1..Len(out) : Says(out[i], j)
    /\ \A i \in 1..Len(out) : Says(out[i], j) => out[i].status \in Over

\* A command's is not before it has ended, and then whatever else was said is
\* followed by the end.
CommandsFollowed ==
  \A c \in Cmd :
    /\ cmd[c] \in {"none", "used"} =>
         status[c] = "" /\ \A i \in 1..Len(out) : ~Says(out[i], c)
    /\ cmd[c] \in {"foreground", "background"} =>
         /\ status[c] \notin Terminal
         /\ \A i \in 1..Len(out) : Says(out[i], c) =>
              out[i].kind = "updated" /\ out[i].status \in {"running", "background"}
    /\ cmd[c] = "ended" =>
         /\ status[c] = "running" => \E i \in 1..Len(out) : Unlists(out[i], c)
         /\ \A i \in 1..Len(out) : Says(out[i], c) /\ ~Unlists(out[i], c) =>
              \E k \in 1..Len(out) : k > i /\ Unlists(out[k], c)

Words == {"", "running", "cancelled"} \cup Finished
StatusWords ==
  /\ \A t \in Task : status[t] \in Words
  /\ \A i \in 1..Len(out) :
       /\ out[i].kind = "notice" => out[i].status \in Over
       /\ out[i].kind = "updated" => out[i].status \in Over \cup {"running", "background"}

SettleInv == CallsFollowed /\ ListFollowed /\ JobsFollowed /\ CommandsFollowed /\ StatusWords

-----------------------------------------------------------------------------
(* Claude Code's steps, again: what they write agrees with what they do.    *)

\* For a command: its start, its answer and its end are written when they happen.
Tells(c, fs) ==
  /\ cmd'[c] = "none" => cmd[c] = "none" /\ \A k \in 1..Len(fs) : ~Uses(fs[k], c)
  /\ cmd'[c] \in Early => /\ cmd[c] \in Early
                          /\ \A k \in 1..Len(fs) : ~Answers(fs[k], c) /\ ~Unlists(fs[k], c)
  /\ cmd'[c] \in {"used", "foreground"} =>
       cmd[c] \in {"used", "foreground"} \/ \E k \in 1..Len(fs) : Uses(fs[k], c)
  /\ cmd'[c] = "foreground" => cmd[c] = "foreground" \/ \E k \in 1..Len(fs) : Lists(fs[k], c)
  /\ cmd'[c] \in Late =>
       /\ \A k \in 1..Len(fs) : ~Uses(fs[k], c) /\ ~Lists(fs[k], c)
       /\ cmd[c] \in Late \/ \E k \in 1..Len(fs) : Answers(fs[k], c)
       /\ cmd[c] \in Late \cup {"used"} \/ \E k \in 1..Len(fs) : Unlists(fs[k], c)
  /\ cmd'[c] \in {"none", "used"} =>
       cmd[c] \in {"none", "used"} /\ \A k \in 1..Len(fs) : ~Says(fs[k], c)
  /\ cmd'[c] \in {"foreground", "background"} =>
       /\ cmd[c] # "ended"
       /\ \A k \in 1..Len(fs) : Says(fs[k], c) =>
            fs[k].kind = "updated" /\ fs[k].status \in {"running", "background"}
  /\ cmd'[c] = "ended" =>
       \/ cmd[c] \in {"used", "ended"} /\ \A k \in 1..Len(fs) : ~Says(fs[k], c)
       \/ /\ \E k \in 1..Len(fs) : Unlists(fs[k], c)
          /\ \A k \in 1..Len(fs) : Says(fs[k], c) => Unlists(fs[k], c)

\* For a job: its end is.
JobTells(j, fs) ==
  /\ job'[j] \in {"none", "running"} =>
       job[j] \in {"none", "running"} /\ \A k \in 1..Len(fs) : ~Says(fs[k], j)
  /\ job'[j] \notin {"none", "running"} =>
       job[j] \notin {"none", "running"} \/ \E k \in 1..Len(fs) : Says(fs[k], j)
  /\ \A k \in 1..Len(fs) : Says(fs[k], j) => fs[k].status \in Over

Worded(f) ==
  /\ f.kind = "notice" => f.status \in Over
  /\ f.kind = "updated" => f.status \in Over \cup {"running", "background"}

\* Where the frames of out and those written are in out'.
Places(fs) ==
  /\ \A i \in 1..Len(out) : i \in 1..Len(out') /\ out'[i] = out[i]
  /\ \A k \in 1..Len(fs) : \E i \in 1..Len(out') :
       out'[i] = fs[k] /\ \A h \in 1..Len(out) : i > h
  /\ \A i \in 1..Len(out') :
       \/ i \in 1..Len(out) /\ out'[i] = out[i]
       \/ \E k \in 1..Len(fs) : out'[i] = fs[k]

\* Where the frames of out are after some more are written.
LEMMA Placed ==
  ASSUME out \in Seq(Frame), NEW fs \in Seq(Frame), out' = out \o fs
  PROVE  Places(fs)
<1>1. /\ Len(out') = Len(out) + Len(fs) /\ Len(out) \in Nat /\ Len(fs) \in Nat
      /\ \A i \in 1..Len(out) : out'[i] = out[i]
      /\ \A i \in 1..Len(out') :
           i \in 1..Len(out) \/ (i - Len(out) \in 1..Len(fs) /\ out'[i] = fs[i - Len(out)])
  BY Appended
<1>2. \A k \in 1..Len(fs) :
        Len(out) + k \in 1..Len(out') /\ out'[Len(out) + k] = fs[k] /\ Len(out) + k > Len(out)
  OBVIOUS
<1>3. ASSUME NEW k \in 1..Len(fs)
      PROVE  \E i \in 1..Len(out') : out'[i] = fs[k] /\ \A h \in 1..Len(out) : i > h
  <2>1. PICK i \in Nat : i = Len(out) + k
    BY <1>1
  <2> QED
    BY <1>1, <1>2, <2>1
<1>4. \A i \in 1..Len(out) : i \in 1..Len(out')
  BY <1>1
<1> QED
  BY <1>1, <1>3, <1>4 DEF Places

\* A step that tells what it does keeps what follows from the frames.
LEMMA TellsKeep ==
  ASSUME WaiterInv, SettleInv, NEW fs \in Seq(Frame), out' = out \o fs,
         UNCHANGED <<bashCommandByToolUseID, runningForegroundBashTasks, asked, status>>,
         cmd' \in [Cmd -> {"none", "used", "foreground", "background", "ended"}],
         \A c \in Cmd : Tells(c, fs), \A j \in Job : JobTells(j, fs),
         \A k \in 1..Len(fs) : Worded(fs[k])
  PROVE  SettleInv'
<1>1. Places(fs)
  BY Placed DEF WaiterInv, FramesSound
<1>2. /\ cmd \in [Cmd -> {"none", "used", "foreground", "background", "ended"}]
      /\ cmd' \in [Cmd -> {"none", "used", "foreground", "background", "ended"}]
  BY DEF WaiterInv, TypeOK
<1>3. CallsFollowed'
  <2> SUFFICES ASSUME NEW c \in Cmd
               PROVE  /\ cmd'[c] = "none" =>
                           /\ c \notin bashCommandByToolUseID
                           /\ \A i \in 1..Len(out') : ~Uses(out'[i], c)
                      /\ cmd'[c] \in Early => \A i \in 1..Len(out') : ~Answers(out'[i], c)
                      /\ cmd'[c] \in {"used", "foreground"} =>
                           c \in bashCommandByToolUseID \/ \E i \in 1..Len(out') : Uses(out'[i], c)
                      /\ cmd'[c] \in Late /\ c \in bashCommandByToolUseID =>
                           \E i \in 1..Len(out') : Answers(out'[i], c)
                      /\ cmd'[c] \in Late => \A i \in 1..Len(out') : Uses(out'[i], c) =>
                           \E k \in 1..Len(out') : k > i /\ Answers(out'[k], c)
    BY DEF CallsFollowed
  <2>1. CASE cmd'[c] \in Early
    BY <1>1, <1>2, <2>1 DEF SettleInv, CallsFollowed, Tells, Places, Early, Late
  <2>2. CASE cmd'[c] \in Late /\ cmd[c] \in Late
    <3>1. \A i \in 1..Len(out') : Uses(out'[i], c) => i \in 1..Len(out) /\ Uses(out[i], c)
      BY <1>1, <2>2 DEF Tells, Places
    <3> QED
      BY <1>1, <2>2, <3>1 DEF SettleInv, CallsFollowed, Places, Early, Late
  <2>3. CASE cmd'[c] \in Late /\ cmd[c] \notin Late
    <3>1. \A i \in 1..Len(out') : Uses(out'[i], c) => i \in 1..Len(out)
      BY <1>1, <2>3 DEF Tells, Places
    <3>2. PICK k \in 1..Len(fs) : Answers(fs[k], c)
      BY <2>3 DEF Tells
    <3>3. PICK i \in 1..Len(out') : out'[i] = fs[k] /\ \A h \in 1..Len(out) : i > h
      BY <1>1 DEF Places
    <3> QED
      BY <2>3, <3>1, <3>2, <3>3 DEF Early, Late
  <2> QED
    BY <1>2, <2>1, <2>2, <2>3 DEF Early, Late
<1>4. ListFollowed'
  <2> SUFFICES ASSUME NEW c \in Cmd
               PROVE  /\ cmd'[c] \in Early => \A i \in 1..Len(out') : ~Unlists(out'[i], c)
                      /\ cmd'[c] = "foreground" =>
                           \/ c \in runningForegroundBashTasks \/ asked[c] > 0
                           \/ \E i \in 1..Len(out') : Lists(out'[i], c)
                      /\ cmd'[c] \in Late /\ c \in runningForegroundBashTasks =>
                           \E i \in 1..Len(out') : Unlists(out'[i], c)
                      /\ cmd'[c] \in Late => \A i \in 1..Len(out') : Lists(out'[i], c) =>
                           \E k \in 1..Len(out') : k > i /\ Unlists(out'[k], c)
    BY DEF ListFollowed
  <2>1. CASE cmd'[c] \in Early
    <3>1. \A i \in 1..Len(out') : ~Unlists(out'[i], c)
      BY <1>1, <2>1 DEF SettleInv, ListFollowed, Tells, Places
    <3>2. CASE cmd'[c] = "foreground" /\ cmd[c] = "foreground"
      BY <1>1, <2>1, <3>1, <3>2 DEF SettleInv, ListFollowed, Places, Early, Late
    <3>3. CASE cmd'[c] = "foreground" /\ cmd[c] # "foreground"
      <4>1. PICK k \in 1..Len(fs) : Lists(fs[k], c)
        BY <3>3 DEF Tells
      <4>2. \E i \in 1..Len(out') : Lists(out'[i], c)
        BY <1>1, <4>1 DEF Places
      <4> QED
        BY <2>1, <3>1, <4>2 DEF Early, Late
    <3> QED
      BY <2>1, <3>1, <3>2, <3>3 DEF Early, Late
  <2>2. cmd'[c] \in Late => \A i \in 1..Len(out') : Lists(out'[i], c) => i \in 1..Len(out) /\ Lists(out[i], c)
    BY <1>1 DEF Tells, Places
  <2>3. CASE cmd'[c] \in Late /\ cmd[c] \in Late
    BY <1>1, <2>2, <2>3 DEF SettleInv, ListFollowed, Places, Early, Late
  <2>4. CASE cmd'[c] \in Late /\ cmd[c] = "used"
    BY <1>1, <2>2, <2>4 DEF WaiterInv, NotYet, Early, Late
  <2>5. CASE cmd'[c] \in Late /\ cmd[c] \notin Late \cup {"used"}
    <3>1. PICK k \in 1..Len(fs) : Unlists(fs[k], c)
      BY <2>5 DEF Tells
    <3>2. PICK i \in 1..Len(out') : out'[i] = fs[k] /\ \A h \in 1..Len(out) : i > h
      BY <1>1 DEF Places
    <3> QED
      BY <2>2, <2>5, <3>1, <3>2 DEF Early, Late
  <2> QED
    BY <1>2, <2>1, <2>3, <2>4, <2>5 DEF Early, Late
<1>5. JobsFollowed'
  <2> SUFFICES ASSUME NEW j \in Job
               PROVE  /\ job'[j] \in {"none", "running"} =>
                           status[j] \notin Terminal /\ \A i \in 1..Len(out') : ~Says(out'[i], j)
                      /\ job'[j] \notin {"none", "running"} =>
                           status[j] \in Terminal \/ \E i \in 1..Len(out') : Says(out'[i], j)
                      /\ \A i \in 1..Len(out') : Says(out'[i], j) => out'[i].status \in Over
    BY DEF JobsFollowed
  <2>1. /\ job[j] \in {"none", "running"} =>
             status[j] \notin Terminal /\ \A i \in 1..Len(out) : ~Says(out[i], j)
        /\ job[j] \notin {"none", "running"} =>
             status[j] \in Terminal \/ \E i \in 1..Len(out) : Says(out[i], j)
        /\ \A i \in 1..Len(out) : Says(out[i], j) => out[i].status \in Over
    BY DEF SettleInv, JobsFollowed
  <2>2. CASE job'[j] \in {"none", "running"}
    <3>1. job[j] \in {"none", "running"} /\ \A k \in 1..Len(fs) : ~Says(fs[k], j)
      BY <2>2 DEF JobTells
    <3> QED
      BY <1>1, <2>1, <2>2, <3>1 DEF Places
  <2>3. CASE job'[j] \notin {"none", "running"}
    <3>1. job[j] \notin {"none", "running"} \/ \E k \in 1..Len(fs) : Says(fs[k], j)
      BY <2>3 DEF JobTells
    <3>2. \A k \in 1..Len(fs) : Says(fs[k], j) => fs[k].status \in Over
      BY DEF JobTells
    <3>3. \A i \in 1..Len(out') : Says(out'[i], j) => out'[i].status \in Over
      BY <1>1, <2>1, <3>2 DEF Places
    <3>4. status[j] \in Terminal \/ \E i \in 1..Len(out') : Says(out'[i], j)
      BY <1>1, <2>1, <3>1 DEF Places
    <3> QED
      BY <2>3, <3>3, <3>4
  <2> QED
    BY <2>2, <2>3
<1>6. CommandsFollowed'
  <2> SUFFICES ASSUME NEW c \in Cmd
               PROVE  /\ cmd'[c] \in {"none", "used"} =>
                           status[c] = "" /\ \A i \in 1..Len(out') : ~Says(out'[i], c)
                      /\ cmd'[c] \in {"foreground", "background"} =>
                           /\ status[c] \notin Terminal
                           /\ \A i \in 1..Len(out') : Says(out'[i], c) =>
                                out'[i].kind = "updated" /\ out'[i].status \in {"running", "background"}
                      /\ cmd'[c] = "ended" =>
                           /\ status[c] = "running" => \E i \in 1..Len(out') : Unlists(out'[i], c)
                           /\ \A i \in 1..Len(out') : Says(out'[i], c) /\ ~Unlists(out'[i], c) =>
                                \E k \in 1..Len(out') : k > i /\ Unlists(out'[k], c)
    BY DEF CommandsFollowed
  <2>0. cmd[c] \in {"none", "used"} => status[c] = "" /\ \A i \in 1..Len(out) : ~Says(out[i], c)
    BY DEF SettleInv, CommandsFollowed
  <2>1. CASE cmd'[c] \in {"none", "used"}
    <3>1. cmd[c] \in {"none", "used"} /\ \A k \in 1..Len(fs) : ~Says(fs[k], c)
      BY <2>1 DEF Tells
    <3>2. \A i \in 1..Len(out') : ~Says(out'[i], c)
      BY <1>1, <2>0, <3>1 DEF Places
    <3> QED
      BY <2>0, <2>1, <3>1, <3>2
  <2>2. CASE cmd'[c] \in {"foreground", "background"}
    <3>1. status[c] \notin Terminal
      BY <1>2, <2>0, <2>2 DEF SettleInv, CommandsFollowed, Tells, Terminal
    <3>2. \A i \in 1..Len(out) : Says(out[i], c) =>
            out[i].kind = "updated" /\ out[i].status \in {"running", "background"}
      BY <1>2, <2>0, <2>2 DEF SettleInv, CommandsFollowed, Tells
    <3>3. \A k \in 1..Len(fs) : Says(fs[k], c) =>
            fs[k].kind = "updated" /\ fs[k].status \in {"running", "background"}
      BY <2>2 DEF Tells
    <3>4. \A i \in 1..Len(out') : Says(out'[i], c) =>
            out'[i].kind = "updated" /\ out'[i].status \in {"running", "background"}
      BY <1>1, <3>2, <3>3 DEF Places
    <3> QED
      BY <2>2, <3>1, <3>4
  <2>3. CASE cmd'[c] = "ended" /\ \A k \in 1..Len(fs) : ~Says(fs[k], c)
    <3>1. cmd[c] \in {"used", "ended"}
      BY <2>3 DEF Tells, Unlists
    <3>2. \A i \in 1..Len(out') : Says(out'[i], c) => i \in 1..Len(out) /\ out'[i] = out[i]
      BY <1>1, <2>3 DEF Places
    <3>3. CASE cmd[c] = "used"
      BY <2>0, <2>3, <3>2, <3>3
    <3>4. CASE cmd[c] = "ended"
      <4>1. /\ status[c] = "running" => \E i \in 1..Len(out) : Unlists(out[i], c)
            /\ \A i \in 1..Len(out) : Says(out[i], c) /\ ~Unlists(out[i], c) =>
                 \E k \in 1..Len(out) : k > i /\ Unlists(out[k], c)
        BY <3>4 DEF SettleInv, CommandsFollowed
      <4>2. \A i \in 1..Len(out) : i \in 1..Len(out') /\ out'[i] = out[i]
        BY <1>1 DEF Places
      <4>3. status[c] = "running" => \E i \in 1..Len(out') : Unlists(out'[i], c)
        BY <4>1, <4>2
      <4>4. ASSUME NEW i \in 1..Len(out'), Says(out'[i], c), ~Unlists(out'[i], c)
            PROVE  \E k \in 1..Len(out') : k > i /\ Unlists(out'[k], c)
        BY <3>2, <4>1, <4>2, <4>4
      <4> QED
        BY <2>3, <4>3, <4>4
    <3> QED
      BY <3>1, <3>3, <3>4
  <2>4. CASE /\ cmd'[c] = "ended"
             /\ \E k \in 1..Len(fs) : Unlists(fs[k], c)
             /\ \A k \in 1..Len(fs) : Says(fs[k], c) => Unlists(fs[k], c)
    <3>1. PICK k \in 1..Len(fs) : Unlists(fs[k], c)
      BY <2>4
    <3>2. PICK i \in 1..Len(out') : out'[i] = fs[k] /\ \A h \in 1..Len(out) : i > h
      BY <1>1 DEF Places
    <3>3. \A h \in 1..Len(out') : Says(out'[h], c) /\ ~Unlists(out'[h], c) => h \in 1..Len(out)
      BY <1>1, <2>4 DEF Places
    <3> QED
      BY <2>4, <3>1, <3>2, <3>3
  <2> QED
    BY <1>2, <2>1, <2>2, <2>3, <2>4 DEF Tells
<1>7. StatusWords'
  BY <1>1 DEF SettleInv, StatusWords, Places, Worded
<1> QED
  BY <1>3, <1>4, <1>5, <1>6, <1>7 DEF SettleInv

\* A command no frame is about, and a job, go on as they were.
About(fs, t) == \A k \in 1..Len(fs) : fs[k].task = t

\* A step about one command tells nothing of the others ...
LEMMA OthersTell ==
  ASSUME NEW c, NEW fs, \A k \in 1..Len(fs) : fs[k].task # c, cmd'[c] = cmd[c]
  PROVE  Tells(c, fs)
BY DEF Tells, Uses, Answers, Says, Lists, Unlists, Early, Late

\* ... and nothing of the other jobs.
LEMMA OtherJobsTell ==
  ASSUME NEW j, NEW fs, \A k \in 1..Len(fs) : fs[k].task # j, job'[j] = job[j]
  PROVE  JobTells(j, fs)
BY DEF JobTells, Says

\* So a step about one command has to tell of it only ...
LEMMA CommandStep ==
  ASSUME WaiterInv, SettleInv, WaiterInv', NEW c \in Cmd, NEW fs \in Seq(Frame), out' = out \o fs,
         About(fs, c), UNCHANGED <<job, harness>>,
         \A d \in Cmd : d # c => cmd'[d] = cmd[d], Tells(c, fs),
         \A k \in 1..Len(fs) : Worded(fs[k])
  PROVE  SettleInv'
<1>1. \A d \in Cmd : Tells(d, fs)
  BY OthersTell DEF About
<1>2. \A j \in Job : JobTells(j, fs)
  BY TasksDiffer, OtherJobsTell DEF About
<1>3. cmd' \in [Cmd -> {"none", "used", "foreground", "background", "ended"}]
  BY DEF WaiterInv, TypeOK
<1> QED
  BY <1>1, <1>2, <1>3, TellsKeep DEF harness, stopper

\* ... and one about a job of that job.
LEMMA JobStep ==
  ASSUME WaiterInv, SettleInv, NEW j \in Job, NEW fs \in Seq(Frame), out' = out \o fs,
         About(fs, j), UNCHANGED <<cmd, harness>>,
         \A i \in Job : i # j => job'[i] = job[i], JobTells(j, fs),
         \A k \in 1..Len(fs) : Worded(fs[k])
  PROVE  SettleInv'
<1>1. \A d \in Cmd : Tells(d, fs)
  BY TasksDiffer, OthersTell DEF About
<1>2. \A i \in Job : JobTells(i, fs)
  BY OtherJobsTell DEF About
<1>3. cmd' \in [Cmd -> {"none", "used", "foreground", "background", "ended"}]
  BY DEF WaiterInv, TypeOK
<1> QED
  BY <1>1, <1>2, <1>3, TellsKeep DEF harness, stopper

\* The jobs' actions.
LEMMA StartJobTells ==
  ASSUME WaiterInv, SettleInv, NEW j \in Job, StartJob(j)
  PROVE  SettleInv'
<1> DEFINE f  == frame("started", j, "background")
           fs == <<f>>
<1>1. f \in Frame /\ f.kind = "started" /\ f.task = j
  BY TasksDiffer DEF frame, Frame
<1> HIDE DEF f
<1>2. fs \in Seq(Frame) /\ 1..Len(fs) = {1} /\ fs[1] = f
  BY <1>1, OneFrame
<1>3. out' = out \o fs /\ UNCHANGED <<cmd, harness>>
  BY DEF StartJob, Emits, f
<1> HIDE DEF fs
<1>4. /\ job'[j] = "running" /\ job[j] = "none"
      /\ \A i \in Job : i # j => job'[i] = job[i]
  BY DEF StartJob, WaiterInv, TypeOK
<1>5. \A k \in 1..Len(fs) : fs[k].kind = "started" /\ fs[k].task = j
  BY <1>1, <1>2
<1>6. JobTells(j, fs)
  BY <1>4, <1>5 DEF JobTells, Says
<1>7. About(fs, j) /\ \A k \in 1..Len(fs) : Worded(fs[k])
  BY <1>5 DEF About, Worded
<1> QED
  BY <1>2, <1>3, <1>4, <1>6, <1>7, JobStep

LEMMA FinishJobTells ==
  ASSUME WaiterInv, SettleInv, NEW j \in Job, FinishJob(j)
  PROVE  SettleInv'
<1>1. PICK s \in Finished \cup {"stopped"} :
        /\ job' = [job EXCEPT ![j] = s]
        /\ out' = out \o <<frame("notice", j, s),
                           frame("updated", j, IF s = "stopped" THEN "killed" ELSE s)>>
  BY DEF FinishJob, Emits
<1> DEFINE w  == IF s = "stopped" THEN "killed" ELSE s
           f  == frame("notice", j, s)
           g  == frame("updated", j, w)
           fs == <<f, g>>
<1>2. s \in Over /\ w \in Over /\ s \notin {"none", "running"}
  BY DEF Over, Finished
<1>3. f \in Frame /\ f.kind = "notice" /\ f.task = j /\ f.status = s
  BY TasksDiffer DEF frame, Frame, Finished
<1>4. g \in Frame /\ g.kind = "updated" /\ g.task = j /\ g.status = w
  BY TasksDiffer DEF frame, Frame, Finished
<1>5. out' = out \o fs
  BY <1>1
<1> HIDE DEF w, f, g
<1>6. fs \in Seq(Frame) /\ 1..Len(fs) = {1, 2} /\ fs[1] = f /\ fs[2] = g
  BY <1>3, <1>4, TwoFrames
<1> HIDE DEF fs
<1>7. /\ job'[j] = s /\ \A i \in Job : i # j => job'[i] = job[i]
      /\ UNCHANGED <<cmd, harness>>
  BY <1>1 DEF FinishJob, WaiterInv, TypeOK
<1>8. \A k \in 1..Len(fs) : fs[k].task = j /\ fs[k].status \in Over /\ Says(fs[k], j)
  BY <1>2, <1>3, <1>4, <1>6 DEF Says
<1>9. JobTells(j, fs)
  BY <1>2, <1>6, <1>7, <1>8 DEF JobTells
<1>10. About(fs, j) /\ \A k \in 1..Len(fs) : Worded(fs[k])
  BY <1>8 DEF About, Worded
<1> QED
  BY <1>5, <1>6, <1>7, <1>9, <1>10, JobStep

\* The commands' actions, by what they write.
LEMMA WritesOne ==
  ASSUME WaiterInv, SettleInv, WaiterInv', NEW c \in Cmd, NEW f \in Frame, f.task = c,
         out' = out \o <<f>>, UNCHANGED <<job, harness>>,
         \A d \in Cmd : d # c => cmd'[d] = cmd[d], Worded(f),
         \A fs : 1..Len(fs) = {1} /\ fs[1] = f => Tells(c, fs)
  PROVE  SettleInv'
<1> DEFINE fs == <<f>>
<1>1. fs \in Seq(Frame) /\ 1..Len(fs) = {1} /\ fs[1] = f /\ out' = out \o fs
  BY OneFrame
<1> HIDE DEF fs
<1>2. Tells(c, fs)
  BY <1>1
<1>3. About(fs, c) /\ \A k \in 1..Len(fs) : Worded(fs[k])
  BY <1>1 DEF About
<1> QED
  BY <1>1, <1>2, <1>3, CommandStep

\* Two frames.
LEMMA WritesTwo ==
  ASSUME WaiterInv, SettleInv, WaiterInv', NEW c \in Cmd, NEW f \in Frame, NEW g \in Frame,
         f.task = c, g.task = c, out' = out \o <<f, g>>, UNCHANGED <<job, harness>>,
         \A d \in Cmd : d # c => cmd'[d] = cmd[d], Worded(f), Worded(g),
         \A fs : 1..Len(fs) = {1, 2} /\ fs[1] = f /\ fs[2] = g => Tells(c, fs)
  PROVE  SettleInv'
<1> DEFINE fs == <<f, g>>
<1>1. fs \in Seq(Frame) /\ 1..Len(fs) = {1, 2} /\ fs[1] = f /\ fs[2] = g /\ out' = out \o fs
  BY TwoFrames
<1> HIDE DEF fs
<1>2. Tells(c, fs)
  BY <1>1
<1>3. About(fs, c) /\ \A k \in 1..Len(fs) : Worded(fs[k])
  BY <1>1 DEF About
<1> QED
  BY <1>1, <1>2, <1>3, CommandStep

\* Three frames.
LEMMA WritesThree ==
  ASSUME WaiterInv, SettleInv, WaiterInv', NEW c \in Cmd,
         NEW f \in Frame, NEW g \in Frame, NEW h \in Frame,
         f.task = c, g.task = c, h.task = c, out' = out \o <<f, g, h>>, UNCHANGED <<job, harness>>,
         \A d \in Cmd : d # c => cmd'[d] = cmd[d], Worded(f), Worded(g), Worded(h),
         \A fs : 1..Len(fs) = {1, 2, 3} /\ fs[1] = f /\ fs[2] = g /\ fs[3] = h => Tells(c, fs)
  PROVE  SettleInv'
<1> DEFINE fs == <<f, g, h>>
<1>1. /\ fs \in Seq(Frame) /\ 1..Len(fs) = {1, 2, 3} /\ out' = out \o fs
      /\ fs[1] = f /\ fs[2] = g /\ fs[3] = h
  BY ThreeFrames
<1> HIDE DEF fs
<1>2. Tells(c, fs)
  BY <1>1
<1>3. About(fs, c) /\ \A k \in 1..Len(fs) : Worded(fs[k])
  BY <1>1 DEF About
<1> QED
  BY <1>1, <1>2, <1>3, CommandStep

\* A tool call is written before anything else of its command.
LEMMA UseTells ==
  ASSUME WaiterInv, SettleInv, WaiterInv', NEW c \in Cmd, Use(c)
  PROVE  SettleInv'
<1> DEFINE f == frame("use", c, "")
<1>1. f \in Frame /\ f.kind = "use" /\ f.task = c
  BY TasksDiffer DEF frame, Frame
<1>2. out' = out \o <<f>> /\ UNCHANGED <<job, harness>>
  BY DEF Use, Emits
<1> HIDE DEF f
<1>3. cmd[c] = "none" /\ cmd'[c] = "used" /\ \A d \in Cmd : d # c => cmd'[d] = cmd[d]
  BY DEF Use, WaiterInv, TypeOK
<1>4. ASSUME NEW fs, 1..Len(fs) = {1}, fs[1] = f
      PROVE  Tells(c, fs)
  BY <1>1, <1>3, <1>4 DEF Tells, Uses, Answers, Lists, Says, Unlists, Early, Late
<1> QED
  BY <1>1, <1>2, <1>3, <1>4, WritesOne DEF Worded

\* The command starts in the foreground or in the background.
LEMMA StartCmdTells ==
  ASSUME WaiterInv, SettleInv, WaiterInv', NEW c \in Cmd, StartCmd(c)
  PROVE  SettleInv'
<1> DEFINE f == frame("started", c, "foreground")
           g == frame("started", c, "background")
           h == frame("result", c, "")
<1>1. /\ f \in Frame /\ f.kind = "started" /\ f.task = c /\ f.status = "foreground"
      /\ g \in Frame /\ g.kind = "started" /\ g.task = c /\ g.status = "background"
      /\ h \in Frame /\ h.kind = "result" /\ h.task = c
  BY TasksDiffer DEF frame, Frame
<1>2. \/ cmd' = [cmd EXCEPT ![c] = "foreground"] /\ out' = out \o <<f>>
      \/ cmd' = [cmd EXCEPT ![c] = "background"] /\ out' = out \o <<g, h>>
  BY DEF StartCmd, Emits
<1>3. cmd[c] = "used" /\ UNCHANGED <<job, harness>>
  BY DEF StartCmd
<1> HIDE DEF f, g, h
<1>4. CASE cmd' = [cmd EXCEPT ![c] = "foreground"] /\ out' = out \o <<f>>
  <2>1. cmd'[c] = "foreground" /\ \A d \in Cmd : d # c => cmd'[d] = cmd[d]
    BY <1>4 DEF WaiterInv, TypeOK
  <2>2. ASSUME NEW fs, 1..Len(fs) = {1}, fs[1] = f
        PROVE  Tells(c, fs)
    BY <1>1, <1>3, <2>1, <2>2 DEF Tells, Uses, Answers, Lists, Says, Unlists, Early, Late
  <2> QED
    BY <1>1, <1>3, <1>4, <2>1, <2>2, WritesOne DEF Worded
<1>5. CASE cmd' = [cmd EXCEPT ![c] = "background"] /\ out' = out \o <<g, h>>
  <2>1. cmd'[c] = "background" /\ \A d \in Cmd : d # c => cmd'[d] = cmd[d]
    BY <1>5 DEF WaiterInv, TypeOK
  <2>2. ASSUME NEW fs, 1..Len(fs) = {1, 2}, fs[1] = g, fs[2] = h
        PROVE  Tells(c, fs)
    BY <1>1, <1>3, <2>1, <2>2 DEF Tells, Uses, Answers, Lists, Says, Unlists, Early, Late
  <2> QED
    BY <1>1, <1>3, <1>5, <2>1, <2>2, WritesTwo DEF Worded
<1> QED
  BY <1>2, <1>4, <1>5

\* What is said under way ends nothing.
LEMMA ProgressTells ==
  ASSUME WaiterInv, SettleInv, WaiterInv', NEW c \in Cmd, Progress(c)
  PROVE  SettleInv'
<1> DEFINE f == frame("updated", c, "running")
<1>1. f \in Frame /\ f.kind = "updated" /\ f.task = c /\ f.status = "running"
  BY TasksDiffer DEF frame, Frame
<1>2. out' = out \o <<f>> /\ UNCHANGED <<job, harness>> /\ cmd' = cmd /\ cmd[c] \in {"foreground", "background"}
  BY DEF Progress, Emits, claude
<1> HIDE DEF f
<1>3. ASSUME NEW fs, 1..Len(fs) = {1}, fs[1] = f
      PROVE  Tells(c, fs)
  BY <1>1, <1>2, <1>3 DEF Tells, Uses, Answers, Lists, Says, Unlists, Early, Late
<1> QED
  BY <1>1, <1>2, <1>3, WritesOne DEF Worded

\* A command leaves the foreground: answered, and said to.
LEMMA MoveToBackgroundTells ==
  ASSUME WaiterInv, SettleInv, WaiterInv', NEW c \in Cmd, MoveToBackground(c)
  PROVE  SettleInv'
<1> DEFINE f == frame("updated", c, "background")
           g == frame("result", c, "")
<1>1. /\ f \in Frame /\ f.kind = "updated" /\ f.task = c /\ f.status = "background"
      /\ g \in Frame /\ g.kind = "result" /\ g.task = c
  BY TasksDiffer DEF frame, Frame
<1>2. out' = out \o <<f, g>> /\ UNCHANGED <<job, harness>>
  BY DEF MoveToBackground, Emits
<1> HIDE DEF f, g
<1>3. /\ cmd[c] = "foreground" /\ cmd'[c] = "background"
      /\ \A d \in Cmd : d # c => cmd'[d] = cmd[d]
  BY DEF MoveToBackground, WaiterInv, TypeOK
<1>4. ASSUME NEW fs, 1..Len(fs) = {1, 2}, fs[1] = f, fs[2] = g
      PROVE  Tells(c, fs)
  BY <1>1, <1>3, <1>4 DEF Tells, Uses, Answers, Lists, Says, Unlists, Early, Late
<1>5. Worded(f) /\ Worded(g)
  BY <1>1 DEF Worded
<1> QED
  BY <1>1, <1>2, <1>3, <1>4, <1>5, WritesTwo

\* A command ends, answered if it was not yet, and said to.
LEMMA EndCmdTells ==
  ASSUME WaiterInv, SettleInv, WaiterInv', NEW c \in Cmd, EndCmd(c)
  PROVE  SettleInv'
<1>1. PICK s \in Finished :
        \/ cmd[c] = "used" /\ out' = out \o <<frame("result", c, "")>>
        \/ /\ cmd[c] = "foreground"
           /\ out' = out \o <<frame("updated", c, s), frame("result", c, "")>>
        \/ /\ cmd[c] = "foreground"
           /\ out' = out \o <<frame("result", c, ""), frame("updated", c, s)>>
        \/ /\ cmd[c] = "background"
           /\ out' = out \o <<frame("notice", c, s), frame("updated", c, s)>>
  BY DEF EndCmd, Emits
<1> DEFINE r == frame("result", c, "")
           u == frame("updated", c, s)
           n == frame("notice", c, s)
<1>2. /\ r \in Frame /\ r.kind = "result" /\ r.task = c
      /\ u \in Frame /\ u.kind = "updated" /\ u.task = c /\ u.status = s
      /\ n \in Frame /\ n.kind = "notice" /\ n.task = c /\ n.status = s
  BY TasksDiffer DEF frame, Frame, Finished
<1>3. \/ cmd[c] = "used" /\ out' = out \o <<r>>
      \/ cmd[c] = "foreground" /\ out' = out \o <<u, r>>
      \/ cmd[c] = "foreground" /\ out' = out \o <<r, u>>
      \/ cmd[c] = "background" /\ out' = out \o <<n, u>>
  BY <1>1
<1> HIDE DEF r, u, n
<1>4. cmd'[c] = "ended" /\ UNCHANGED <<job, harness>> /\ \A d \in Cmd : d # c => cmd'[d] = cmd[d]
  BY DEF EndCmd, WaiterInv, TypeOK
<1>5. s \in Over /\ s # "running"
  BY DEF Over, Finished
<1>w. Worded(r) /\ Worded(u) /\ Worded(n)
  BY <1>2, <1>5 DEF Worded
<1>6. CASE cmd[c] = "used" /\ out' = out \o <<r>>
  <2>1. ASSUME NEW fs, 1..Len(fs) = {1}, fs[1] = r
        PROVE  Tells(c, fs)
    BY <1>2, <1>4, <1>6, <2>1 DEF Tells, Uses, Answers, Lists, Says, Unlists, Early, Late
  <2> QED
    BY <1>2, <1>4, <1>6, <2>1, WritesOne DEF Worded
<1>7. CASE cmd[c] = "foreground" /\ out' = out \o <<u, r>>
  <2>1. ASSUME NEW fs, 1..Len(fs) = {1, 2}, fs[1] = u, fs[2] = r
        PROVE  Tells(c, fs)
    BY <1>2, <1>4, <1>5, <1>7, <2>1 DEF Tells, Uses, Answers, Lists, Says, Unlists, Early, Late
  <2> QED
    BY <1>2, <1>4, <1>7, <1>w, <2>1, WritesTwo
<1>8. CASE cmd[c] = "foreground" /\ out' = out \o <<r, u>>
  <2>1. ASSUME NEW fs, 1..Len(fs) = {1, 2}, fs[1] = r, fs[2] = u
        PROVE  Tells(c, fs)
    BY <1>2, <1>4, <1>5, <1>8, <2>1 DEF Tells, Uses, Answers, Lists, Says, Unlists, Early, Late
  <2> QED
    BY <1>2, <1>4, <1>8, <1>w, <2>1, WritesTwo
<1>9. CASE cmd[c] = "background" /\ out' = out \o <<n, u>>
  <2>1. ASSUME NEW fs, 1..Len(fs) = {1, 2}, fs[1] = n, fs[2] = u
        PROVE  Tells(c, fs)
    BY <1>2, <1>4, <1>5, <1>9, <2>1 DEF Tells, Uses, Answers, Lists, Says, Unlists, Early, Late
  <2> QED
    BY <1>2, <1>4, <1>9, <1>w, <2>1, WritesTwo
<1> QED
  BY <1>3, <1>6, <1>7, <1>8, <1>9

\* A command asked to stop ends, or the request is refused.
LEMMA ReadStopTells ==
  ASSUME WaiterInv, SettleInv, WaiterInv', NEW c \in Cmd, ReadStop(c)
  PROVE  SettleInv'
<1> DEFINE n == frame("notice", c, "stopped")
           u == frame("updated", c, "killed")
           r == frame("result", c, "")
           x == frame("refused", c, "")
<1>1. /\ n \in Frame /\ n.kind = "notice" /\ n.task = c /\ n.status = "stopped"
      /\ u \in Frame /\ u.kind = "updated" /\ u.task = c /\ u.status = "killed"
      /\ r \in Frame /\ r.kind = "result" /\ r.task = c
      /\ x \in Frame /\ x.kind = "refused" /\ x.task = c
  BY TasksDiffer DEF frame, Frame
<1>2. \/ /\ cmd[c] = "foreground" /\ out' = out \o <<n, u, r>>
         /\ cmd' = [cmd EXCEPT ![c] = "ended"]
      \/ /\ cmd[c] = "background" /\ out' = out \o <<n, u>>
         /\ cmd' = [cmd EXCEPT ![c] = "ended"]
      \/ cmd' = cmd /\ out' = out \o <<x>>
  BY DEF ReadStop
<1> HIDE DEF n, u, r, x
<1>3. UNCHANGED <<job, harness>> /\ \A d \in Cmd : d # c => cmd'[d] = cmd[d]
  BY DEF ReadStop, WaiterInv, TypeOK
<1>4. Worded(n) /\ Worded(u) /\ Worded(r) /\ Worded(x)
  BY <1>1 DEF Worded, Over
<1>5. cmd' = [cmd EXCEPT ![c] = "ended"] => cmd'[c] = "ended"
  BY DEF WaiterInv, TypeOK
<1>6. CASE /\ cmd[c] = "foreground" /\ out' = out \o <<n, u, r>>
           /\ cmd' = [cmd EXCEPT ![c] = "ended"]
  <2>1. ASSUME NEW fs, 1..Len(fs) = {1, 2, 3}, fs[1] = n, fs[2] = u, fs[3] = r
        PROVE  Tells(c, fs)
    BY <1>1, <1>5, <1>6, <2>1 DEF Tells, Uses, Answers, Lists, Says, Unlists, Early, Late
  <2> QED
    BY <1>1, <1>3, <1>4, <1>6, <2>1, WritesThree
<1>7. CASE /\ cmd[c] = "background" /\ out' = out \o <<n, u>>
           /\ cmd' = [cmd EXCEPT ![c] = "ended"]
  <2>1. ASSUME NEW fs, 1..Len(fs) = {1, 2}, fs[1] = n, fs[2] = u
        PROVE  Tells(c, fs)
    BY <1>1, <1>5, <1>7, <2>1 DEF Tells, Uses, Answers, Lists, Says, Unlists, Early, Late
  <2> QED
    BY <1>1, <1>3, <1>4, <1>7, <2>1, WritesTwo
<1>8. CASE cmd' = cmd /\ out' = out \o <<x>>
  <2>1. ASSUME NEW fs, 1..Len(fs) = {1}, fs[1] = x
        PROVE  Tells(c, fs)
    BY <1>1, <1>8, <2>1 DEF Tells, Uses, Answers, Lists, Says, Unlists, Early, Late
  <2> QED
    BY <1>1, <1>3, <1>8, <2>1, WritesOne DEF Worded
<1> QED
  BY <1>2, <1>6, <1>7, <1>8

-----------------------------------------------------------------------------
(* The reader's steps, again: each does what the frame it takes says.       *)

\* What the frame at the head of stdout does to the stopper and to the statuses.
Heeds(h) ==
  /\ \A c \in Cmd : c \in bashCommandByToolUseID' <=>
       Uses(h, c) \/ (c \in bashCommandByToolUseID /\ ~Answers(h, c))
  /\ \A c \in Cmd :
       /\ c \in runningForegroundBashTasks' =>
            Lists(h, c) \/ (c \in runningForegroundBashTasks /\ ~Unlists(h, c))
       /\ Lists(h, c) => c \in runningForegroundBashTasks'
       /\ c \in runningForegroundBashTasks /\ ~Unlists(h, c) =>
            c \in runningForegroundBashTasks' \/ asked'[c] > 0
       /\ asked[c] > 0 => asked'[c] > 0
  /\ \A t \in Task :
       /\ ~Says(h, t) => status'[t] = status[t]
       /\ Says(h, t) => /\ status'[t] \in Words
                        /\ h.status \in Over => status'[t] \in Terminal
                        /\ h.status = "running" => status'[t] = "running"
                        /\ h.status = "background" => status'[t] = ""

\* Where the frames of out are in what is left.
Shifted ==
  /\ 1 \in 1..Len(out) /\ Head(out) = out[1]
  /\ \A i \in 1..Len(out) : \A k \in 1..Len(out) : k > i => k # 1
  /\ \A i \in 1..Len(out) : i # 1 =>
       \E k \in 1..Len(out') : /\ out'[k] = out[i]
                               /\ \A h \in 1..Len(out') : i > h + 1 => k > h
  /\ \A i \in 1..Len(out') : i + 1 \in 1..Len(out) /\ out'[i] = out[i + 1]

\* What followed a frame still does once the first is read.
LEMMA ShiftedAfter ==
  ASSUME out \in Seq(Frame), out # <<>>, out' = Tail(out)
  PROVE  Shifted
<1>1. /\ Len(out) \in Nat /\ 1 \in 1..Len(out) /\ Head(out) = out[1] /\ Len(out') = Len(out) - 1
      /\ \A i \in 1..Len(out') : i + 1 \in 1..Len(out) /\ out'[i] = out[i + 1]
  BY HeadTail
<1>2. ASSUME NEW i \in 1..Len(out), i # 1
      PROVE  \E k \in 1..Len(out') : /\ out'[k] = out[i]
                                     /\ \A h \in 1..Len(out') : i > h + 1 => k > h
  <2>1. PICK k \in 1..Len(out') : k + 1 = i
    BY <1>1, <1>2
  <2> QED
    BY <1>1, <2>1
<1> QED
  BY <1>1, <1>2 DEF Shifted

\* A step that heeds the frame it takes keeps what follows from the others.
LEMMA HeedsKeep ==
  ASSUME WaiterInv, SettleInv, out # <<>>, out' = Tail(out), UNCHANGED <<job, cmd>>,
         Heeds(Head(out))
  PROVE  SettleInv'
<1> DEFINE h == Head(out)
<1>1. Shifted
  BY ShiftedAfter DEF WaiterInv, FramesSound
<1>2. /\ h = out[1] /\ 1 \in 1..Len(out) /\ Heeds(h)
      /\ cmd \in [Cmd -> {"none", "used", "foreground", "background", "ended"}]
  BY <1>1 DEF Shifted, WaiterInv, TypeOK
<1> HIDE DEF h
<1>3. CallsFollowed'
  <2> SUFFICES ASSUME NEW c \in Cmd
               PROVE  /\ cmd[c] = "none" =>
                           /\ c \notin bashCommandByToolUseID'
                           /\ \A i \in 1..Len(out') : ~Uses(out'[i], c)
                      /\ cmd[c] \in Early => \A i \in 1..Len(out') : ~Answers(out'[i], c)
                      /\ cmd[c] \in {"used", "foreground"} =>
                           c \in bashCommandByToolUseID' \/ \E i \in 1..Len(out') : Uses(out'[i], c)
                      /\ cmd[c] \in Late /\ c \in bashCommandByToolUseID' =>
                           \E i \in 1..Len(out') : Answers(out'[i], c)
                      /\ cmd[c] \in Late => \A i \in 1..Len(out') : Uses(out'[i], c) =>
                           \E k \in 1..Len(out') : k > i /\ Answers(out'[k], c)
    BY DEF CallsFollowed
  <2>0. /\ c \in bashCommandByToolUseID' <=> Uses(h, c) \/ (c \in bashCommandByToolUseID /\ ~Answers(h, c))
        /\ \A i \in 1..Len(out) : i # 1 => \E k \in 1..Len(out') : out'[k] = out[i]
        /\ \A i \in 1..Len(out') : i + 1 \in 1..Len(out) /\ out'[i] = out[i + 1]
    BY <1>1, <1>2 DEF Heeds, Shifted
  <2>1. CASE cmd[c] = "none"
    BY <1>2, <2>0, <2>1 DEF SettleInv, CallsFollowed, Early, Late
  <2>2. CASE cmd[c] \in {"used", "foreground"}
    <3>1. \A i \in 1..Len(out) : ~Answers(out[i], c)
      BY <2>2 DEF SettleInv, CallsFollowed, Early
    <3>2. c \in bashCommandByToolUseID \/ \E i \in 1..Len(out) : Uses(out[i], c)
      BY <2>2 DEF SettleInv, CallsFollowed
    <3>3. \A i \in 1..Len(out') : ~Answers(out'[i], c)
      BY <2>0, <3>1
    <3>4. c \in bashCommandByToolUseID' \/ \E i \in 1..Len(out') : Uses(out'[i], c)
      BY <1>2, <2>0, <3>1, <3>2
    <3> QED
      BY <2>2, <3>3, <3>4 DEF Early, Late
  <2>3. CASE cmd[c] \in Late
    <3>1. /\ c \in bashCommandByToolUseID => \E i \in 1..Len(out) : Answers(out[i], c)
          /\ \A i \in 1..Len(out) :
               Uses(out[i], c) => \E k \in 1..Len(out) : k > i /\ Answers(out[k], c)
      BY <2>3 DEF SettleInv, CallsFollowed
    <3>2. c \in bashCommandByToolUseID' => \E i \in 1..Len(out) : i # 1 /\ Answers(out[i], c)
      BY <1>1, <1>2, <2>0, <3>1 DEF Shifted
    <3>3. ASSUME NEW i \in 1..Len(out'), Uses(out'[i], c)
          PROVE  \E k \in 1..Len(out') : k > i /\ Answers(out'[k], c)
      <4>1. PICK k \in 1..Len(out) : k > i + 1 /\ Answers(out[k], c)
        BY <2>0, <3>1, <3>3
      <4>2. k # 1
        BY <1>1, <2>0, <4>1 DEF Shifted
      <4> QED
        BY <1>1, <4>1, <4>2 DEF Shifted
    <3> QED
      BY <2>0, <2>3, <3>2, <3>3 DEF Early, Late
  <2> QED
    BY <1>2, <2>1, <2>2, <2>3 DEF Late
<1>4. ListFollowed'
  <2> SUFFICES ASSUME NEW c \in Cmd
               PROVE  /\ cmd[c] \in Early => \A i \in 1..Len(out') : ~Unlists(out'[i], c)
                      /\ cmd[c] = "foreground" =>
                           \/ c \in runningForegroundBashTasks' \/ asked'[c] > 0
                           \/ \E i \in 1..Len(out') : Lists(out'[i], c)
                      /\ cmd[c] \in Late /\ c \in runningForegroundBashTasks' =>
                           \E i \in 1..Len(out') : Unlists(out'[i], c)
                      /\ cmd[c] \in Late => \A i \in 1..Len(out') : Lists(out'[i], c) =>
                           \E k \in 1..Len(out') : k > i /\ Unlists(out'[k], c)
    BY DEF ListFollowed
  <2>0. /\ c \in runningForegroundBashTasks' =>
             Lists(h, c) \/ (c \in runningForegroundBashTasks /\ ~Unlists(h, c))
        /\ Lists(h, c) => c \in runningForegroundBashTasks'
        /\ c \in runningForegroundBashTasks /\ ~Unlists(h, c) =>
             c \in runningForegroundBashTasks' \/ asked'[c] > 0
        /\ asked[c] > 0 => asked'[c] > 0
        /\ \A i \in 1..Len(out) : i # 1 => \E k \in 1..Len(out') : out'[k] = out[i]
        /\ \A i \in 1..Len(out') : i + 1 \in 1..Len(out) /\ out'[i] = out[i + 1]
    BY <1>1, <1>2 DEF Heeds, Shifted
  <2>1. CASE cmd[c] \in Early
    <3>1. \A i \in 1..Len(out) : ~Unlists(out[i], c)
      BY <2>1 DEF SettleInv, ListFollowed
    <3>2. \A i \in 1..Len(out') : ~Unlists(out'[i], c)
      BY <2>0, <3>1
    <3>3. CASE cmd[c] = "foreground"
      <4>1. \/ c \in runningForegroundBashTasks \/ asked[c] > 0
            \/ \E i \in 1..Len(out) : Lists(out[i], c)
        BY <3>3 DEF SettleInv, ListFollowed
      <4>2. \/ c \in runningForegroundBashTasks' \/ asked'[c] > 0
            \/ \E i \in 1..Len(out') : Lists(out'[i], c)
        BY <1>2, <2>0, <3>1, <4>1
      <4> QED
        BY <2>1, <3>2, <4>2 DEF Early, Late
    <3> QED
      BY <2>1, <3>2, <3>3 DEF Early, Late
  <2>2. CASE cmd[c] \in Late
    <3>1. /\ c \in runningForegroundBashTasks => \E i \in 1..Len(out) : Unlists(out[i], c)
          /\ \A i \in 1..Len(out) :
               Lists(out[i], c) => \E k \in 1..Len(out) : k > i /\ Unlists(out[k], c)
      BY <2>2 DEF SettleInv, ListFollowed
    <3>2. c \in runningForegroundBashTasks' => \E i \in 1..Len(out) : i # 1 /\ Unlists(out[i], c)
      BY <1>1, <1>2, <2>0, <3>1 DEF Shifted
    <3>3. ASSUME NEW i \in 1..Len(out'), Lists(out'[i], c)
          PROVE  \E k \in 1..Len(out') : k > i /\ Unlists(out'[k], c)
      <4>1. PICK k \in 1..Len(out) : k > i + 1 /\ Unlists(out[k], c)
        BY <2>0, <3>1, <3>3
      <4>2. k # 1
        BY <1>1, <2>0, <4>1 DEF Shifted
      <4> QED
        BY <1>1, <4>1, <4>2 DEF Shifted
    <3> QED
      BY <2>0, <2>2, <3>2, <3>3 DEF Early, Late
  <2> QED
    BY <1>2, <2>1, <2>2 DEF Early, Late
<1>5. JobsFollowed'
  <2> SUFFICES ASSUME NEW j \in Job
               PROVE  /\ job[j] \in {"none", "running"} =>
                           status'[j] \notin Terminal /\ \A i \in 1..Len(out') : ~Says(out'[i], j)
                      /\ job[j] \notin {"none", "running"} =>
                           status'[j] \in Terminal \/ \E i \in 1..Len(out') : Says(out'[i], j)
                      /\ \A i \in 1..Len(out') : Says(out'[i], j) => out'[i].status \in Over
    BY DEF JobsFollowed
  <2>0. /\ ~Says(h, j) => status'[j] = status[j]
        /\ Says(h, j) /\ h.status \in Over => status'[j] \in Terminal
        /\ \A i \in 1..Len(out) : i # 1 => \E k \in 1..Len(out') : out'[k] = out[i]
        /\ \A i \in 1..Len(out') : i + 1 \in 1..Len(out) /\ out'[i] = out[i + 1]
    BY <1>1, <1>2, TasksDiffer DEF Heeds, Shifted
  <2>1. \A i \in 1..Len(out) : Says(out[i], j) => out[i].status \in Over
    BY DEF SettleInv, JobsFollowed
  <2>2. CASE job[j] \in {"none", "running"}
    <3>1. status[j] \notin Terminal /\ \A i \in 1..Len(out) : ~Says(out[i], j)
      BY <2>2 DEF SettleInv, JobsFollowed
    <3> QED
      BY <1>2, <2>0, <2>2, <3>1
  <2>3. CASE job[j] \notin {"none", "running"}
    <3>1. status[j] \in Terminal \/ \E i \in 1..Len(out) : Says(out[i], j)
      BY <2>3 DEF SettleInv, JobsFollowed
    <3>2. status'[j] \in Terminal \/ \E i \in 1..Len(out') : Says(out'[i], j)
      BY <1>2, <2>0, <2>1, <3>1
    <3> QED
      BY <2>0, <2>1, <2>3, <3>2
  <2> QED
    BY <2>2, <2>3
<1>6. CommandsFollowed'
  <2> SUFFICES ASSUME NEW c \in Cmd
               PROVE  /\ cmd[c] \in {"none", "used"} =>
                           status'[c] = "" /\ \A i \in 1..Len(out') : ~Says(out'[i], c)
                      /\ cmd[c] \in {"foreground", "background"} =>
                           /\ status'[c] \notin Terminal
                           /\ \A i \in 1..Len(out') : Says(out'[i], c) =>
                                out'[i].kind = "updated" /\ out'[i].status \in {"running", "background"}
                      /\ cmd[c] = "ended" =>
                           /\ status'[c] = "running" => \E i \in 1..Len(out') : Unlists(out'[i], c)
                           /\ \A i \in 1..Len(out') : Says(out'[i], c) /\ ~Unlists(out'[i], c) =>
                                \E k \in 1..Len(out') : k > i /\ Unlists(out'[k], c)
    BY DEF CommandsFollowed
  <2>0. /\ ~Says(h, c) => status'[c] = status[c]
        /\ Says(h, c) /\ h.status \in Over => status'[c] \in Terminal
        /\ Says(h, c) /\ h.status = "running" => status'[c] = "running"
        /\ Says(h, c) /\ h.status = "background" => status'[c] = ""
        /\ \A i \in 1..Len(out) : i # 1 => \E k \in 1..Len(out') : out'[k] = out[i]
        /\ \A i \in 1..Len(out') : i + 1 \in 1..Len(out) /\ out'[i] = out[i + 1]
    BY <1>1, <1>2, TasksDiffer DEF Heeds, Shifted
  <2>1. CASE cmd[c] \in {"none", "used"}
    <3>1. status[c] = "" /\ \A i \in 1..Len(out) : ~Says(out[i], c)
      BY <2>1 DEF SettleInv, CommandsFollowed
    <3> QED
      BY <1>2, <2>0, <2>1, <3>1
  <2>2. CASE cmd[c] \in {"foreground", "background"}
    <3>1. /\ status[c] \notin Terminal
          /\ \A i \in 1..Len(out) : Says(out[i], c) =>
               out[i].kind = "updated" /\ out[i].status \in {"running", "background"}
      BY <2>2 DEF SettleInv, CommandsFollowed
    <3>2. status'[c] \notin Terminal
      <4>1. CASE Says(h, c)
        <5>1. h.status \in {"running", "background"}
          BY <1>2, <3>1, <4>1
        <5>2. status'[c] \in {"running", ""}
          BY <2>0, <4>1, <5>1
        <5> QED
          BY <5>2 DEF Terminal
      <4> QED
        BY <2>0, <3>1, <4>1
    <3>3. \A i \in 1..Len(out') : Says(out'[i], c) =>
            out'[i].kind = "updated" /\ out'[i].status \in {"running", "background"}
      <4> SUFFICES ASSUME NEW i \in 1..Len(out'), Says(out'[i], c)
                   PROVE  out'[i].kind = "updated" /\ out'[i].status \in {"running", "background"}
        OBVIOUS
      <4>1. PICK k \in 1..Len(out) : out'[i] = out[k]
        BY <2>0
      <4> QED
        BY <3>1, <4>1
    <3> QED
      BY <2>2, <3>2, <3>3
  <2>3. CASE cmd[c] = "ended"
    <3>1. /\ status[c] = "running" => \E i \in 1..Len(out) : Unlists(out[i], c)
          /\ \A i \in 1..Len(out) : Says(out[i], c) /\ ~Unlists(out[i], c) =>
               \E k \in 1..Len(out) : k > i /\ Unlists(out[k], c)
      BY <2>3 DEF SettleInv, CommandsFollowed
    <3>2. Unlists(h, c) => status'[c] # "running"
      <4> SUFFICES ASSUME Says(h, c), h.status # "running"
                   PROVE  status'[c] # "running"
        BY DEF Unlists
      <4>1. h.status \in Over \cup {"background"}
        BY <1>2 DEF SettleInv, StatusWords, Says
      <4>2. status'[c] \in Terminal \cup {""}
        BY <2>0, <4>1
      <4> QED
        BY <4>2 DEF Terminal
    <3>3. status'[c] = "running" => \E i \in 1..Len(out) : i # 1 /\ Unlists(out[i], c)
      <4>1. CASE Says(h, c)
        BY <1>1, <1>2, <3>1, <3>2, <4>1 DEF Shifted
      <4>2. CASE ~Says(h, c)
        BY <1>2, <2>0, <3>1, <4>2 DEF Unlists
      <4> QED
        BY <4>1, <4>2
    <3>4. ASSUME NEW i \in 1..Len(out'), Says(out'[i], c), ~Unlists(out'[i], c)
          PROVE  \E k \in 1..Len(out') : k > i /\ Unlists(out'[k], c)
      <4>1. PICK k \in 1..Len(out) : k > i + 1 /\ Unlists(out[k], c)
        BY <2>0, <3>1, <3>4
      <4>2. k # 1
        BY <1>1, <2>0, <4>1 DEF Shifted
      <4> QED
        BY <1>1, <4>1, <4>2 DEF Shifted
    <3> QED
      BY <2>0, <2>3, <3>3, <3>4
  <2> QED
    BY <1>2, <2>1, <2>2, <2>3
<1>7. StatusWords'
  <2>1. \A t \in Task : status'[t] \in Words
    BY <1>2 DEF Heeds, SettleInv, StatusWords
  <2> QED
    BY <1>1, <2>1 DEF Shifted, SettleInv, StatusWords
<1> QED
  BY <1>3, <1>4, <1>5, <1>6, <1>7 DEF SettleInv

\* The reader's actions: a tool call is known once read,
LEMMA ReadUseHeeds ==
  ASSUME WaiterInv, SettleInv, ReadUse
  PROVE  SettleInv'
<1>1. /\ out # <<>> /\ out' = Tail(out) /\ Head(out).kind = "use"
      /\ bashCommandByToolUseID' = bashCommandByToolUseID \cup {Head(out).task}
      /\ UNCHANGED <<job, cmd, runningForegroundBashTasks, asked, status>>
  BY DEF ReadUse, Reads, task, claude
<1>2. Heeds(Head(out))
  BY <1>1 DEF Heeds, Uses, Answers, Lists, Says, Unlists
<1> QED
  BY <1>1, <1>2, HeedsKeep

\* and no longer once its answer is;
LEMMA ReadResultHeeds ==
  ASSUME WaiterInv, SettleInv, ReadResult
  PROVE  SettleInv'
<1>1. /\ out # <<>> /\ out' = Tail(out) /\ Head(out).kind = "result"
      /\ bashCommandByToolUseID' = bashCommandByToolUseID \ {Head(out).task}
      /\ UNCHANGED <<job, cmd, runningForegroundBashTasks, asked, status>>
  BY DEF ReadResult, Reads, task, claude
<1>2. Heeds(Head(out))
  BY <1>1 DEF Heeds, Uses, Answers, Lists, Says, Unlists
<1> QED
  BY <1>1, <1>2, HeedsKeep

\* a command is listed once it is said to run in the foreground.
LEMMA ReadStartedHeeds ==
  ASSUME WaiterInv, SettleInv, ReadStarted
  PROVE  SettleInv'
<1>1. /\ out # <<>> /\ out' = Tail(out) /\ Head(out).kind = "started"
      /\ runningForegroundBashTasks' =
           IF Head(out).status = "foreground"
           THEN runningForegroundBashTasks \cup {Head(out).task}
           ELSE runningForegroundBashTasks
      /\ UNCHANGED <<job, cmd, bashCommandByToolUseID, asked, status>>
  BY DEF ReadStarted, Reads, task, word, claude
<1>2. Heeds(Head(out))
  BY <1>1 DEF Heeds, Uses, Answers, Lists, Says, Unlists
<1> QED
  BY <1>1, <1>2, HeedsKeep

\* What is emitted for the words of an end, and for those of a command under way.
LEMMA StatusEmitted ==
  ASSUME NEW s
  PROVE  /\ s \in Over => /\ taskStatusOf(s, "") \in Terminal /\ taskStatusOf(s, "") \in Words
                          /\ taskStatusOf("", s) \in Terminal /\ taskStatusOf("", s) \in Words
         /\ taskStatusOf("", "running") = "running" /\ taskStatusOf("", "") = ""
<1>1. s \in Over => s \in {"completed", "failed", "stopped", "killed"}
  BY DEF Over, Finished
<1>2. /\ taskStatusOf("", "running") = "running" /\ taskStatusOf("", "") = ""
  BY DEF taskStatusOf
<1>3. ASSUME s \in {"completed", "failed", "stopped", "killed"}
      PROVE  /\ taskStatusOf(s, "") \in Terminal /\ taskStatusOf(s, "") \in Words
             /\ taskStatusOf("", s) \in Terminal /\ taskStatusOf("", s) \in Words
  BY <1>3 DEF taskStatusOf, Terminal, Words, Finished
<1> QED
  BY <1>1, <1>2, <1>3

\* An update ends the listing and says the status, unless it is of one under way;
LEMMA ReadUpdatedHeeds ==
  ASSUME WaiterInv, SettleInv, ReadUpdated
  PROVE  SettleInv'
<1> DEFINE h == Head(out)
           w == IF h.status = "background" THEN "" ELSE h.status
<1>1. /\ out # <<>> /\ out' = Tail(out) /\ h.kind = "updated"
      /\ runningForegroundBashTasks' =
           IF h.status = "running" THEN runningForegroundBashTasks
           ELSE runningForegroundBashTasks \ {h.task}
      /\ status' = [status EXCEPT ![h.task] = taskStatusOf("", w)]
      /\ UNCHANGED <<job, cmd, bashCommandByToolUseID, asked>>
  BY DEF ReadUpdated, Reads, task, word, claude
<1>2. h = out[1] /\ 1 \in 1..Len(out)
  BY <1>1, HeadTail DEF WaiterInv, FramesSound
<1>3. h.status \in Over \cup {"running", "background"}
  BY <1>1, <1>2 DEF SettleInv, StatusWords
<1>4. /\ taskStatusOf("", w) \in Words
      /\ h.status \in Over => taskStatusOf("", w) \in Terminal
      /\ h.status = "running" => taskStatusOf("", w) = "running"
      /\ h.status = "background" => taskStatusOf("", w) = ""
  <2>1. CASE h.status = "background"
    <3>1. h.status \notin Over
      BY <2>1 DEF Over, Finished
    <3> QED
      BY <2>1, <3>1, StatusEmitted DEF Words
  <2>2. CASE h.status = "running"
    <3>1. h.status \notin Over /\ w = "running"
      BY <2>2 DEF Over, Finished
    <3> QED
      BY <2>2, <3>1, StatusEmitted DEF Words
  <2>3. CASE h.status \in Over
    <3>1. w = h.status /\ h.status # "running" /\ h.status # "background"
      BY <2>3 DEF Over, Finished
    <3> QED
      BY <2>3, <3>1, StatusEmitted
  <2> QED
    BY <1>3, <2>1, <2>2, <2>3
<1> HIDE DEF h, w
<1>5. \A t \in Task : status'[t] = IF t = h.task THEN taskStatusOf("", w) ELSE status[t]
  BY <1>1 DEF WaiterInv, TypeOK
<1>6. Heeds(h)
  <2>1. \A c \in Cmd : c \in bashCommandByToolUseID' <=>
          Uses(h, c) \/ (c \in bashCommandByToolUseID /\ ~Answers(h, c))
    BY <1>1 DEF Uses, Answers
  <2>2. \A c \in Cmd :
          /\ c \in runningForegroundBashTasks' =>
               Lists(h, c) \/ (c \in runningForegroundBashTasks /\ ~Unlists(h, c))
          /\ Lists(h, c) => c \in runningForegroundBashTasks'
          /\ c \in runningForegroundBashTasks /\ ~Unlists(h, c) =>
               c \in runningForegroundBashTasks' \/ asked'[c] > 0
          /\ asked[c] > 0 => asked'[c] > 0
    BY <1>1 DEF Lists, Says, Unlists
  <2>3. \A t \in Task :
          /\ ~Says(h, t) => status'[t] = status[t]
          /\ Says(h, t) => /\ status'[t] \in Words
                           /\ h.status \in Over => status'[t] \in Terminal
                           /\ h.status = "running" => status'[t] = "running"
                           /\ h.status = "background" => status'[t] = ""
    BY <1>1, <1>4, <1>5 DEF Says
  <2> QED
    BY <2>1, <2>2, <2>3 DEF Heeds
<1> QED
  BY <1>1, <1>6, HeedsKeep DEF h

\* a notice ends the listing, says the status and stops watchers;
LEMMA ReadNoticeHeeds ==
  ASSUME WaiterInv, SettleInv, ReadNotice
  PROVE  SettleInv'
<1> DEFINE h == Head(out)
<1>1. /\ out # <<>> /\ out' = Tail(out) /\ h.kind = "notice"
      /\ runningForegroundBashTasks' = runningForegroundBashTasks \ ({h.task} \cup Waiters)
      /\ asked' = [c \in Cmd |-> IF c \in Waiters THEN asked[c] + 1 ELSE asked[c]]
      /\ status' = [status EXCEPT ![h.task] = taskStatusOf(h.status, "")]
      /\ UNCHANGED <<job, cmd, bashCommandByToolUseID>>
  BY DEF ReadNotice, Reads, task, word, claude
<1>2. h = out[1] /\ 1 \in 1..Len(out)
  BY <1>1, HeadTail DEF WaiterInv, FramesSound
<1>3. h.status \in Over /\ h.status # "running" /\ h.status # "background"
  <2>1. h.status \in Over
    BY <1>1, <1>2 DEF SettleInv, StatusWords
  <2> QED
    BY <2>1 DEF Over, Finished
<1>4. taskStatusOf(h.status, "") \in Terminal /\ taskStatusOf(h.status, "") \in Words
  BY <1>3, StatusEmitted
<1> HIDE DEF h
<1>5. \A t \in Task : status'[t] = IF t = h.task THEN taskStatusOf(h.status, "") ELSE status[t]
  BY <1>1 DEF WaiterInv, TypeOK
<1>6. \A c \in Cmd : /\ asked[c] \in Nat
                     /\ asked'[c] = IF c \in Waiters THEN asked[c] + 1 ELSE asked[c]
  BY <1>1 DEF WaiterInv, TypeOK
<1>7. \A c \in Cmd : (asked[c] > 0 => asked'[c] > 0) /\ (c \in Waiters => asked'[c] > 0)
  BY <1>6
<1>8. Heeds(h)
  <2>1. \A c \in Cmd : c \in bashCommandByToolUseID' <=>
          Uses(h, c) \/ (c \in bashCommandByToolUseID /\ ~Answers(h, c))
    BY <1>1 DEF Uses, Answers
  <2>2. \A c \in Cmd :
          /\ c \in runningForegroundBashTasks' =>
               Lists(h, c) \/ (c \in runningForegroundBashTasks /\ ~Unlists(h, c))
          /\ Lists(h, c) => c \in runningForegroundBashTasks'
          /\ c \in runningForegroundBashTasks /\ ~Unlists(h, c) =>
               c \in runningForegroundBashTasks' \/ asked'[c] > 0
          /\ asked[c] > 0 => asked'[c] > 0
    BY <1>1, <1>3, <1>7 DEF Lists, Says, Unlists
  <2>3. \A t \in Task :
          /\ ~Says(h, t) => status'[t] = status[t]
          /\ Says(h, t) => /\ status'[t] \in Words
                           /\ h.status \in Over => status'[t] \in Terminal
                           /\ h.status = "running" => status'[t] = "running"
                           /\ h.status = "background" => status'[t] = ""
    BY <1>1, <1>3, <1>4, <1>5 DEF Says
  <2> QED
    BY <2>1, <2>2, <2>3 DEF Heeds
<1> QED
  BY <1>1, <1>8, HeedsKeep DEF h

\* and a refusal changes nothing.
LEMMA ReadRefusalHeeds ==
  ASSUME WaiterInv, SettleInv, ReadRefusal
  PROVE  SettleInv'
<1>1. /\ out # <<>> /\ out' = Tail(out) /\ Head(out).kind = "refused"
      /\ UNCHANGED <<job, cmd, bashCommandByToolUseID, runningForegroundBashTasks, asked, status>>
  BY DEF ReadRefusal, Reads, claude, stopper
<1>2. Heeds(Head(out))
  BY <1>1 DEF Heeds, Uses, Answers, Lists, Says, Unlists
<1> QED
  BY <1>1, <1>2, HeedsKeep

-----------------------------------------------------------------------------
(* Lists and statuses are up to date when all is read.                      *)

\* Nothing runs and nothing is written at first.
LEMMA InitSettle == Init => SettleInv
<1> SUFFICES ASSUME Init PROVE SettleInv
  OBVIOUS
<1>1. \A i \in 1..Len(out) : FALSE
  <2>1. Len(<<>>) = 0
    OBVIOUS
  <2>2. out = <<>>
    BY DEF Init
  <2>3. Len(out) = 0
    BY <2>1, <2>2
  <2> QED
    BY <2>3
<1>2. /\ \A c \in Cmd : cmd[c] = "none" /\ c \notin bashCommandByToolUseID
      /\ \A j \in Job : job[j] = "none"
      /\ \A t \in Task : status[t] = "" /\ status[t] \notin Terminal
  BY DEF Init, Terminal
<1>3. CallsFollowed /\ ListFollowed
  BY <1>1, <1>2 DEF CallsFollowed, ListFollowed, Early, Late
<1>4. JobsFollowed /\ CommandsFollowed
  BY <1>1, <1>2, TasksDiffer DEF JobsFollowed, CommandsFollowed
<1>5. StatusWords
  BY <1>1, <1>2 DEF StatusWords, Words
<1> QED
  BY <1>3, <1>4, <1>5 DEF SettleInv

\* Every step of Claude Code tells, every step of the reader heeds.
LEMMA NextSettle == WaiterInv /\ WaiterInv' /\ SettleInv /\ [Next]_vars => SettleInv'
<1> SUFFICES ASSUME WaiterInv, WaiterInv', SettleInv, [Next]_vars PROVE SettleInv'
  OBVIOUS
<1>1. CASE \E j \in Job : StartJob(j) \/ FinishJob(j)
  BY <1>1, StartJobTells, FinishJobTells
<1>2. CASE \E c \in Cmd : \/ Use(c) \/ StartCmd(c) \/ Progress(c) \/ MoveToBackground(c)
                          \/ EndCmd(c) \/ ReadStop(c)
  BY <1>2, UseTells, StartCmdTells, ProgressTells, MoveToBackgroundTells, EndCmdTells, ReadStopTells
<1>3. CASE ReadFrame
  BY <1>3, ReadUseHeeds, ReadResultHeeds, ReadStartedHeeds, ReadUpdatedHeeds, ReadNoticeHeeds,
     ReadRefusalHeeds DEF ReadFrame
<1>4. CASE UNCHANGED vars
  BY <1>4 DEF vars, claude, stopper, SettleInv, CallsFollowed, ListFollowed, JobsFollowed,
     CommandsFollowed, StatusWords
<1> QED
  BY <1>1, <1>2, <1>3, <1>4 DEF Next

\* So the lists and the statuses are up to date, or unread frames make them so.
LEMMA SettleAlways == Spec => []SettleInv
<1>1. Init => SettleInv
  BY InitSettle
<1>2. WaiterInv /\ WaiterInv' /\ SettleInv /\ [Next]_vars => SettleInv'
  BY NextSettle
<1> QED
  BY <1>1, <1>2, WaitersAlways, PTL DEF Spec

\* With every frame read, the stopper's lists hold exactly the commands that run in
\* the foreground and were not asked to stop, and the tool calls without an answer,
\* for any jobs and commands (observe, stopFinishedTaskWaiter).
THEOREM ListsCatchUp == Spec => []CaughtUp
<1>1. WaiterInv /\ SettleInv => CaughtUp
  <2> SUFFICES ASSUME WaiterInv, SettleInv, out = <<>>
               PROVE  /\ runningForegroundBashTasks =
                           {c \in Cmd : cmd[c] = "foreground" /\ asked[c] = 0}
                      /\ bashCommandByToolUseID =
                           {c \in Cmd : cmd[c] \in {"used", "foreground"}}
    BY DEF CaughtUp
  <2>1. \A i \in 1..Len(out) : FALSE
    OBVIOUS
  <2>2. /\ runningForegroundBashTasks \subseteq Cmd /\ bashCommandByToolUseID \subseteq Cmd
        /\ cmd \in [Cmd -> {"none", "used", "foreground", "background", "ended"}]
        /\ \A c \in Cmd : asked[c] \in Nat
    BY DEF WaiterInv, TypeOK
  <2>3. ASSUME NEW c \in Cmd
        PROVE  c \in runningForegroundBashTasks <=> cmd[c] = "foreground" /\ asked[c] = 0
    <3>1. c \in runningForegroundBashTasks => asked[c] = 0 /\ cmd[c] \notin {"none", "used"}
      BY DEF WaiterInv, ListedOnce, NotYet
    <3>2. c \in runningForegroundBashTasks => cmd[c] \notin Late
      BY <2>1 DEF SettleInv, ListFollowed
    <3>3. cmd[c] = "foreground" => c \in runningForegroundBashTasks \/ asked[c] > 0
      BY <2>1 DEF SettleInv, ListFollowed
    <3>4. asked[c] > 0 => asked[c] # 0
      BY <2>2
    <3> QED
      BY <2>2, <3>1, <3>2, <3>3, <3>4 DEF Late
  <2>4. ASSUME NEW c \in Cmd
        PROVE  c \in bashCommandByToolUseID <=> cmd[c] \in {"used", "foreground"}
    BY <2>1, <2>2 DEF SettleInv, CallsFollowed, Late
  <2> QED
    BY <2>2, <2>3, <2>4
<1> QED
  BY <1>1, WaitersAlways, SettleAlways, PTL

\* With every frame read, bridge-server sees a task as over exactly when it is,
\* however it ended and whatever was said of it before (taskStatusOf, translateSystem).
THEOREM StatusesSettle == Spec => []TasksSettle
<1>1. WaiterInv /\ SettleInv => TasksSettle
  <2> SUFFICES ASSUME WaiterInv, SettleInv, out = <<>>
               PROVE  /\ \A j \in Job : status[j] \in Terminal <=> job[j] \notin {"none", "running"}
                      /\ \A c \in Cmd : status[c] \in Terminal => cmd[c] = "ended"
                      /\ \A c \in Cmd : cmd[c] = "ended" => status[c] \in Terminal \cup {""}
    BY DEF TasksSettle
  <2>1. \A i \in 1..Len(out) : FALSE
    OBVIOUS
  <2>2. \A j \in Job : status[j] \in Terminal <=> job[j] \notin {"none", "running"}
    BY <2>1 DEF SettleInv, JobsFollowed
  <2>3. ASSUME NEW c \in Cmd, status[c] \in Terminal
        PROVE  cmd[c] = "ended"
    BY <2>3 DEF WaiterInv, TypeOK, SettleInv, CommandsFollowed, Terminal
  <2>4. ASSUME NEW c \in Cmd, cmd[c] = "ended"
        PROVE  status[c] \in Terminal \cup {""}
    <3>1. status[c] # "running"
      BY <2>1, <2>4 DEF SettleInv, CommandsFollowed
    <3>2. status[c] \in Words
      BY TasksDiffer DEF SettleInv, StatusWords
    <3> QED
      BY <3>1, <3>2 DEF Words, Terminal, Finished
  <2> QED
    BY <2>2, <2>3, <2>4
<1> QED
  BY <1>1, WaitersAlways, SettleAlways, PTL
=============================================================================
