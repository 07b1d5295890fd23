---------------------------- MODULE SessionConfig ----------------------------
(***************************************************************************)
(* The configuration of a session over respawns and live changes.  The     *)
(* server starts a session with its flags; a message or a resume that      *)
(* finds the process dead builds a start of its own, which carries none of *)
(* them; set_model and config requests run on goroutines of their own,     *)
(* change the running process through a control request and record the     *)
(* choice for the next spawn; the reader asks each process for the effort  *)
(* it resolved.  A start also decides where Claude Code must run to find   *)
(* the conversation it continues.                                          *)
(***************************************************************************)
EXTENDS Naturals, Sequences

CONSTANTS Model, Effort,  \* the values starts and requests may name
          Settings, Mode, \* the permission gates the server may give
          StartFlags,     \* the combinations of these the server starts with
          Dir,            \* working directories
          Conv,           \* Claude Code conversations (session UUIDs)
          Job,            \* requests dispatched on goroutines of their own
          MaxSpawns,      \* bound: processes spawned
          MaxStarts,      \* bound: starts the server sends
          MaxRequests,    \* bound: messages and asynchronous requests
          Dies,           \* TRUE: Claude Code may exit, by itself or killed
          None            \* nothing given, the empty string

ASSUME ConfigAssumption ==
  /\ MaxSpawns \in Nat /\ MaxStarts \in Nat /\ MaxRequests \in Nat
  /\ Dies \in BOOLEAN
  /\ None \notin Model \cup Effort \cup Settings \cup Mode
  /\ None \notin Dir \cup Conv \cup {"torn", "agent"}
  /\ "torn" \notin Model \cup Effort /\ "agent" \notin Conv
  /\ StartFlags \subseteq [settings : Settings \cup {None}, mode : Mode \cup {None},
                           model : Model \cup {None}, effort : Effort \cup {None}]

Gen   == 1..MaxSpawns
NoGen == 0
Agent == "agent"   \* an id that is no session UUID: a sub-agent's rollout
Torn  == "torn"    \* what a goroutine may read of a string another one writes

VARIABLES
  kept,      \* the Harness fields a respawn takes its flags from
  sid,       \* h.sessionID; None is no id, or the bridge's own, no UUID either
  proc,      \* h.proc
  pc,        \* the dispatcher: idle, args, exec
  params,    \* StartParams of the start it is in
  args,      \* the command line it has built
  cc,        \* each process: none, running, dying, exited (done is closed)
  flags,     \* the command line it was spawned with
  live,      \* the model and the effort level it runs with
  conv,      \* the conversation it is in
  stdin, stdout, \* what it, and its reader, have not read
  saved,     \* the directory each conversation's transcript is kept in
  info,      \* h.sessionInfo, with the process whose init it answers
  job,       \* the asynchronous requests
  asked,     \* history: gate and model as last given or recorded
  starts, requests

harness == <<kept, sid, proc, pc, params, args>>
claude  == <<cc, flags, live, conv, stdin, stdout, saved>>
bounds  == <<starts, requests>>
vars    == <<harness, claude, info, job, asked, bounds>>

\* The modes the bridge names that are none of Claude Code's own.
BridgeMode == {"ask", "bypass", "block_all", "read", "ask_all", "custom"}

Opt(S)   == S \cup {None}
ModelId  == Model \cup {None, Torn}
EffortId == Effort \cup {None, Torn}
Id       == Conv \cup {None, Agent}
Kept     == [settings : Opt(Settings), mode : Opt(Mode), model : ModelId, effort : EffortId,
             dir : Opt(Dir)]
Params   == [kind : {"cold", "resume", "fork"}, id : Id, message : BOOLEAN,
             override : BOOLEAN]  \* SessionIDOverride is given
Args     == [cont : {"fresh", "resume", "session-id", "fork"}, id : Id,
             model : ModelId, effort : EffortId, settings : Opt(Settings),
             mode : {"default", "bypassPermissions"} \cup (Mode \ BridgeMode), dir : Opt(Dir),
             found : BOOLEAN]  \* history: the transcript named the directory
Level    == [model : ModelId, effort : EffortId]
Change   == [what : {"model"}, value : Model] \cup [what : {"effort"}, value : Effort]
Control  == Change \cup [what : {"get", "message"}, value : {None}]
Frame    == [type : {"init"}, effort : {None}] \cup [type : {"settings"}, effort : Level]
NoParams == [kind |-> "cold", id |-> None, message |-> FALSE, override |-> FALSE]
NoArgs   == [cont |-> "fresh", id |-> None, model |-> None, effort |-> None, settings |-> None,
             mode |-> "bypassPermissions", dir |-> None, found |-> FALSE]
NoLevel  == [model |-> None, effort |-> None]
NoInfo   == [gen |-> NoGen, effort |-> None]
NoJob    == [pc |-> "none", todo |-> <<>>, met |-> FALSE]

TypeOK ==
  /\ kept \in Kept /\ sid \in Id
  /\ proc \in Gen \cup {NoGen} /\ pc \in {"idle", "args", "exec"}
  /\ params \in Params /\ args \in Args
  /\ cc \in [Gen -> {"none", "running", "dying", "exited"}]
  /\ flags \in [Gen -> Args] /\ live \in [Gen -> Level]
  /\ conv \in [Gen -> Opt(Conv)]
  /\ stdin \in [Gen -> Seq(Control)] /\ stdout \in [Gen -> Seq(Frame)]
  /\ saved \in [Conv -> Opt(Dir)]
  /\ info \in [gen : Gen \cup {NoGen}, effort : Opt(Level)]
  /\ job \in [Job -> [pc : {"none", "check", "write", "record", "recorded", "ask"},
                      todo : Seq(Change), met : BOOLEAN]]
  /\ asked \in [settings : Opt(Settings), mode : Opt(Mode), model : ModelId]
  /\ starts \in 0..MaxStarts /\ requests \in 0..MaxRequests

Init ==
  /\ kept = [settings |-> None, mode |-> None, model |-> None, effort |-> None,
             dir |-> None]
  /\ sid = None /\ proc = NoGen /\ pc = "idle" /\ params = NoParams /\ args = NoArgs
  /\ cc = [g \in Gen |-> "none"] /\ flags = [g \in Gen |-> NoArgs]
  /\ live = [g \in Gen |-> NoLevel]
  /\ conv = [g \in Gen |-> None]
  /\ stdin = [g \in Gen |-> <<>>] /\ stdout = [g \in Gen |-> <<>>]
  /\ saved = [c \in Conv |-> None] /\ info = NoInfo /\ job = [j \in Job |-> NoJob]
  /\ asked = [settings |-> None, mode |-> None, model |-> None]
  /\ starts = 0 /\ requests = 0

-----------------------------------------------------------------------------
(* The dispatcher: handleStart in three steps, between which the other     *)
(* goroutines run: the fields, the command line, the process.              *)

Alive == proc # NoGen /\ cc[proc] # "exited"

Given(new, old) == IF new = None THEN old ELSE new

Begin(p, given) ==
  /\ pc = "idle" /\ ~Alive
  /\ kept' = [f \in DOMAIN kept |-> Given(given[f], kept[f])]
  /\ sid' = IF p.kind = "resume" THEN p.id ELSE None
  /\ params' = p /\ pc' = "args"
  /\ UNCHANGED <<proc, args, claude, info, job>>

\* The server's start, with the flags it gives; it resumes the id it was told
\* last, which may be a sub-agent's, and forks a conversation that has a turn.
\* An override matters to a resume; elsewhere it is the name of a new conversation.
Start ==
  /\ starts < MaxStarts /\ starts' = starts + 1
  /\ \E given \in StartFlags, dir \in Dir, p \in Params :
       /\ p.message => requests < MaxRequests
       /\ p.override => p.kind = "resume"
       /\ requests' = requests + (IF p.message THEN 1 ELSE 0)
       /\ \/ p.kind = "cold" /\ p.id = None
          \/ p.kind = "resume" /\ p.id \in {sid, Agent}
          \/ p.kind = "fork" /\ p.id \in {c \in Conv : saved[c] # None}
       /\ Begin(p, [f \in DOMAIN kept |-> IF f = "dir" THEN dir ELSE given[f]])
       /\ asked' = [settings |-> Given(given.settings, asked.settings),
                    mode |-> Given(given.mode, asked.mode),
                    model |-> Given(given.model, asked.model)]

\* handleMessage and handleResume find no live process: a start of their own,
\* which names only the conversation and the directory.  A resume that has no
\* id takes the one of the store's session row, written at the last init.
NothingGiven == [f \in DOMAIN kept |-> None]
Respawn ==
  /\ starts > 0
  /\ \E m \in BOOLEAN, id \in Id :
       /\ m => requests < MaxRequests
       /\ requests' = requests + (IF m THEN 1 ELSE 0)
       /\ \/ id = sid
          \/ ~m /\ sid = None /\ info.gen # NoGen /\ id = conv[info.gen]
       /\ Begin([kind |-> "resume", id |-> id, message |-> m, override |-> FALSE],
             NothingGiven)
  /\ UNCHANGED <<asked, starts>>

translateCanonicalPermissionMode(mode) ==
  CASE mode = "ask" -> "default"
    [] mode \in {"bypass", "block_all", "read", "ask_all", "custom"} -> "bypassPermissions"
    [] OTHER -> mode

\* Seeded fault: the bridge's word reaches the command line.
ModeFlag_Untranslated(mode) == IF mode = None THEN "bypassPermissions" ELSE mode

\* The flag: with no mode given, no prompt of Claude Code's own.
ModeFlag(mode) ==
  IF mode = None THEN "bypassPermissions" ELSE translateCanonicalPermissionMode(mode)

\* Which conversation flag the command line gets.  An id that is no UUID is
\* dropped; a UUID with no saved conversation is started, not resumed, unless the
\* caller overrides the id.
Continue(p) ==
  CASE p.kind = "resume" /\ p.id \in Conv ->
         IF saved[p.id] = None /\ ~p.override THEN "session-id" ELSE "resume"
    [] p.kind = "fork" /\ p.id \in Conv -> "fork"
    [] OTHER -> "fresh"

\* Seeded fault: the gate and the model are read off the start's parameters,
\* which a respawn does not carry.
BuildArgs_FromParams ==
  /\ pc = "args" /\ pc' = "exec"
  /\ args' = [NoArgs EXCEPT !.cont = Continue(params), !.id = params.id,
                            !.dir = kept.dir]
  /\ UNCHANGED <<kept, sid, proc, params, claude, info, job, asked, bounds>>

\* transcriptWorkingDir: the directory a transcript names, or none, of a
\* transcript there is not, and of one that cannot be opened or whose opening
\* lines name none.
transcriptWorkingDir(id) == {saved[id], None}

\* Seeded fault: a resume runs in the directory the caller configured.
BuildArgs_WhereAsked ==
  LET c == Continue(params) IN
  /\ pc = "args" /\ pc' = "exec"
  /\ \E named \in IF c \in {"resume", "fork"} THEN transcriptWorkingDir(params.id) ELSE {None} :
       args' = [cont |-> c, id |-> params.id, model |-> kept.model,
                effort |-> kept.effort, settings |-> kept.settings,
                mode |-> ModeFlag(kept.mode), dir |-> kept.dir, found |-> named # None]
  /\ UNCHANGED <<kept, sid, proc, params, claude, info, job, asked, bounds>>

\* Run where the conversation is; where that is not found, where asked.
BuildArgs ==
  LET c == Continue(params) IN
  /\ pc = "args" /\ pc' = "exec"
  /\ \E named \in IF c \in {"resume", "fork"} THEN transcriptWorkingDir(params.id) ELSE {None} :
       LET dir == Given(named, kept.dir) IN
       /\ kept' = [kept EXCEPT !.dir = dir]
       /\ args' = [cont |-> c, id |-> params.id, model |-> kept.model,
                   effort |-> kept.effort, settings |-> kept.settings,
                   mode |-> ModeFlag(kept.mode), dir |-> dir, found |-> named # None]
  /\ UNCHANGED <<sid, proc, params, claude, info, job, asked, bounds>>

\* Claude Code finds a conversation only from the directory it was created in.
Finds(a) == a.cont \in {"resume", "fork"} => saved[a.id] = a.dir

Spawned == {g \in Gen : cc[g] # "none"}
Fresh   == {c \in Conv : saved[c] = None /\ \A g \in Gen : conv[g] # c}
Message == [what |-> "message", value |-> None]

Spawn(g) ==
  /\ pc = "exec" /\ pc' = "idle"
  /\ cc[g] = "none" /\ Spawned = 1..(g - 1)
  /\ \E c \in IF args.cont \in {"resume", "session-id"} THEN {args.id} ELSE Fresh :
       conv' = [conv EXCEPT ![g] = c]
  /\ cc' = [cc EXCEPT ![g] = "running"]
  /\ flags' = [flags EXCEPT ![g] = args]
  /\ live' = [live EXCEPT ![g] = [model |-> args.model, effort |-> args.effort]]
  /\ stdin' = [stdin EXCEPT ![g] = IF params.message THEN <<Message>> ELSE <<>>]
  /\ proc' = g
  /\ params' = NoParams /\ args' = NoArgs
  /\ UNCHANGED <<kept, sid, stdout, saved, info, job, asked, bounds>>

SpawnFails ==
  /\ pc = "exec" /\ pc' = "idle"
  /\ params' = NoParams /\ args' = NoArgs
  /\ UNCHANGED <<kept, sid, proc, claude, info, job, asked, bounds>>

\* A write to a process that is going away is lost, or refused by the pipe.
Writes(g, c, ok) ==
  /\ \/ cc[g] = "running" /\ ok /\ stdin' = [stdin EXCEPT ![g] = Append(@, c)]
     \/ cc[g] = "dying" /\ UNCHANGED stdin
     \/ cc[g] = "exited" /\ ~ok /\ UNCHANGED stdin
  /\ UNCHANGED <<cc, flags, live, conv, stdout, saved>>

SendMessage ==
  /\ pc = "idle" /\ Alive /\ requests < MaxRequests /\ requests' = requests + 1
  /\ \E ok \in BOOLEAN : Writes(proc, Message, ok)
  /\ UNCHANGED <<harness, info, job, asked, starts>>

-----------------------------------------------------------------------------
(* Asynchronous requests: handleConfig's changes, each the check, the      *)
(* control request, the record and the question for the effort.            *)

Request(j) ==
  /\ starts > 0 /\ requests < MaxRequests /\ requests' = requests + 1
  /\ job[j].pc = "none"
  /\ \E m \in Opt(Model), e \in Opt(Effort) :
       LET model  == IF m = None THEN <<>> ELSE <<[what |-> "model", value |-> m]>>
           effort == IF e = None THEN <<>> ELSE <<[what |-> "effort", value |-> e]>>
       IN /\ model \o effort # <<>>
          /\ job' = [job EXCEPT ![j] = [pc |-> "check", todo |-> model \o effort, met |-> FALSE]]
  /\ UNCHANGED <<harness, claude, info, asked, starts>>

handleControl(j) ==
  /\ job[j].pc = "check"
  /\ job' = [job EXCEPT ![j] = IF Alive THEN [@ EXCEPT !.pc = "write"] ELSE NoJob]
  /\ UNCHANGED <<harness, claude, info, asked, bounds>>

\* h.proc is read again: a respawn may have replaced it.
WriteControl(j) ==
  /\ job[j].pc = "write"
  /\ \E ok \in BOOLEAN :
       /\ Writes(proc, Head(job[j].todo), ok)
       /\ job' = [job EXCEPT ![j] = IF ok THEN [@ EXCEPT !.pc = "record"] ELSE NoJob]
  /\ UNCHANGED <<harness, info, asked, bounds>>

\* Seeded fault: the change is made but not recorded.
Recorded_Forgets(j) ==
  /\ job[j].pc = "recorded"
  /\ kept' = [kept EXCEPT ![Head(job[j].todo).what] = None]
  /\ asked' = IF Head(job[j].todo).what = "model"
              THEN [asked EXCEPT !.model = Head(job[j].todo).value] ELSE asked
  /\ job' = [job EXCEPT ![j].pc = "ask", ![j].met = FALSE]
  /\ UNCHANGED <<sid, proc, pc, params, args, claude, info, bounds>>

\* h.model = params.Model, two words that no lock guards: the dispatcher may
\* read the string half written, and two writers may leave it so.
Writing(j) == {k \in Job \ {j} : job[k].pc = "recorded"
                                /\ Head(job[k].todo).what = Head(job[j].todo).what
                                /\ Head(job[k].todo).value # Head(job[j].todo).value}

Record(j) ==
  /\ job[j].pc = "record"
  /\ kept' = [kept EXCEPT ![Head(job[j].todo).what] = Torn]
  /\ job' = [k \in Job |->
       IF k = j THEN [job[k] EXCEPT !.pc = "recorded", !.met = Writing(j) # {}]
       ELSE [job[k] EXCEPT !.met = @ \/ k \in Writing(j)]]
  /\ UNCHANGED <<sid, proc, pc, params, args, claude, info, asked, bounds>>

Recorded(j) ==
  LET c == Head(job[j].todo) IN
  /\ job[j].pc = "recorded"
  /\ \E v \in {c.value} \cup (IF job[j].met THEN {Torn} ELSE {}) :
       /\ kept' = [kept EXCEPT ![c.what] = v]
       /\ asked' = IF c.what = "model" THEN [asked EXCEPT !.model = v] ELSE asked
  /\ job' = [job EXCEPT ![j].pc = "ask", ![j].met = FALSE]
  /\ UNCHANGED <<sid, proc, pc, params, args, claude, info, bounds>>

Get == [what |-> "get", value |-> None]

\* Seeded fault: nobody asks for the effort the new model resolves to.
requestReportedEffort_Never(j) ==
  /\ job[j].pc = "ask"
  /\ job' = [job EXCEPT ![j] = IF Len(@.todo) > 1
                                THEN [@ EXCEPT !.pc = "check", !.todo = Tail(@)] ELSE NoJob]
  /\ UNCHANGED <<harness, claude, info, asked, bounds>>

\* The last step of a change.
requestReportedEffort(j) ==
  /\ job[j].pc = "ask"
  /\ \E ok \in BOOLEAN :
       /\ Writes(proc, Get, ok)
       /\ job' = [job EXCEPT ![j] = IF ok /\ Len(@.todo) > 1
                                     THEN [@ EXCEPT !.pc = "check", !.todo = Tail(job[j].todo)]
                                     ELSE NoJob]
  /\ UNCHANGED <<harness, info, asked, bounds>>

-----------------------------------------------------------------------------
(* Claude Code (external).                                                 *)

\* It reads its input in order and may refuse a change.  A process takes a second
\* to start: it answers its first message after the readers of its predecessors
\* have drained, and may end before it has saved the conversation.
Reads(g) ==
  LET c == Head(stdin[g]) IN
  /\ cc[g] = "running" /\ stdin[g] # <<>>
  /\ stdin' = [stdin EXCEPT ![g] = Tail(@)]
  /\ \/ /\ c.what \in {"model", "effort"}
        /\ \/ live' = [live EXCEPT ![g][c.what] = c.value]
           \/ UNCHANGED live
        /\ UNCHANGED <<stdout, saved>>
     \/ /\ c.what = "get"
        /\ stdout' = [stdout EXCEPT ![g] = Append(@, [type |-> "settings", effort |-> live[g]])]
        /\ UNCHANGED <<live, saved>>
     \/ /\ c.what = "message" /\ Finds(flags[g]) /\ \A k \in 1..(g - 1) : stdout[k] = <<>>
        /\ stdout' = [stdout EXCEPT ![g] = Append(@, [type |-> "init", effort |-> None])]
        /\ saved' \in {saved, [saved EXCEPT ![conv[g]] = Given(@, flags[g].dir)]}
        /\ UNCHANGED live
  /\ UNCHANGED <<harness, cc, flags, conv, info, job, asked, bounds>>

\* It ends, or aborts where its conversation is not.
Dying(g) ==
  /\ Dies \/ ~Finds(flags[g])
  /\ cc[g] = "running"
  /\ cc' = [cc EXCEPT ![g] = "dying"] /\ stdin' = [stdin EXCEPT ![g] = <<>>]
  /\ UNCHANGED <<harness, flags, live, conv, stdout, saved, info, job, asked, bounds>>

Exits(g) ==
  /\ cc[g] = "dying"
  /\ cc' = [cc EXCEPT ![g] = "exited"]
  /\ flags' = [flags EXCEPT ![g] = NoArgs] /\ live' = [live EXCEPT ![g] = NoLevel]
  /\ UNCHANGED <<harness, conv, stdin, stdout, saved, info, job, asked, bounds>>

-----------------------------------------------------------------------------
(* The reader of process g.                                                *)

ReadInit(g) ==
  /\ stdout[g] # <<>> /\ Head(stdout[g]).type = "init"
  /\ stdout' = [stdout EXCEPT ![g] = Tail(@)]
  /\ sid' = conv[g]
  /\ info' = [gen |-> g, effort |-> None]
  /\ stdin' = IF cc[g] = "running" THEN [stdin EXCEPT ![g] = Append(@, Get)] ELSE stdin
  /\ UNCHANGED <<kept, proc, pc, params, args, cc, flags, live, conv, saved, job, asked, bounds>>

reportedEffort(g) ==
  /\ stdout[g] # <<>> /\ Head(stdout[g]).type = "settings"
  /\ stdout' = [stdout EXCEPT ![g] = Tail(@)]
  /\ info' = IF info.gen = NoGen THEN info ELSE [info EXCEPT !.effort = Head(stdout[g]).effort]
  /\ UNCHANGED <<harness, cc, flags, live, conv, stdin, saved, job, asked, bounds>>

-----------------------------------------------------------------------------
Dispatcher == Start \/ Respawn \/ BuildArgs \/ SpawnFails \/ SendMessage
              \/ \E g \in Gen : Spawn(g)
Async(j)   == Request(j) \/ handleControl(j) \/ WriteControl(j) \/ Record(j)
              \/ Recorded(j) \/ requestReportedEffort(j)
Process(g) == Reads(g) \/ Dying(g) \/ Exits(g) \/ ReadInit(g) \/ reportedEffort(g)

Next == \/ Dispatcher
        \/ \E j \in Job : Async(j)
        \/ \E g \in Gen : Process(g)

Spec == Init /\ [][Next]_vars

-----------------------------------------------------------------------------
(* Properties.                                                             *)

\* Whatever respawned it, the running process has the permission gate the
\* server gave last: the hook's settings and the mode (handler_permission_gate_test.go).
GateSurvives ==
  Alive /\ pc = "idle" =>
    /\ flags[proc].settings = asked.settings
    /\ flags[proc].mode = ModeFlag(asked.mode)

\* A command line built while no request is recording names the model recorded
\* last, by a start or by set_model, however many processes ago.
ModelSurvives ==
  [][pc = "args" /\ pc' = "exec" /\ (\A j \in Job : job[j].pc # "recorded")
       => args'.model = asked.model]_vars

\* Claude Code aborts on a conversation only if its transcript named no directory:
\* a process told to resume or fork one whose transcript did runs where it is kept,
\* and one told to start it under its id finds none elsewhere, whatever directories
\* the server names and whatever was saved in between.
FindsConversation ==
  \A g \in Gen : cc[g] = "running" =>
    /\ flags[g].found => Finds(flags[g])
    /\ flags[g].cont = "session-id" => saved[flags[g].id] \in {None, flags[g].dir}

\* When everything is read, the session info shows the effort the running
\* process resolves for its model and level.
Quiet ==
  /\ pc = "idle" /\ proc # NoGen /\ cc[proc] = "running" /\ stdin[proc] = <<>>
  /\ \A g \in Gen : stdout[g] = <<>>
  /\ \A j \in Job : job[j] = NoJob
EffortReported == Quiet /\ info.gen = proc => info.effort = live[proc]
=============================================================================
