------------------------- MODULE SessionConfigProofs -------------------------
(***************************************************************************)
(* Gate, model, directory and reported effort over respawns, for any       *)
(* models, efforts, gates, directories, conversations and concurrent       *)
(* requests and any number of processes.                                   *)
(***************************************************************************)
EXTENDS SessionConfig, TLAPS

-----------------------------------------------------------------------------
(* The invariant.                                                          *)

\* Processes are spawned in order and only the last may live; a start is under
\* way only if it does not; a process not spawned has written nothing.
OneAlive ==
  /\ \A g \in Gen : cc[g] \in {"running", "dying"} => g = proc
  /\ \A g \in Gen : g > proc => cc[g] = "none"
  /\ pc # "idle" => ~Alive
  /\ \A g \in Gen : cc[g] = "none" => stdout[g] = <<>> /\ info.gen # g

\* A job under way has a change to make.
HasChange == \A j \in Job : job[j].pc # "none" => job[j].todo # <<>>

\* The fields hold what was given last, and so do the command line and the
\* process made from them.
GateKept ==
  /\ kept.settings = asked.settings /\ kept.mode = asked.mode
  /\ pc = "exec" => args.settings = asked.settings /\ args.mode = ModeFlag(asked.mode)
  /\ Alive => flags[proc].settings = asked.settings /\ flags[proc].mode = ModeFlag(asked.mode)

\* While no request is recording a model, the field is the model recorded last.
Recording(j) == job[j].pc = "recorded" /\ Head(job[j].todo).what = "model"
ModelKept == (\A j \in Job : ~Recording(j)) => kept.model = asked.model

\* The command line names a directory fit for its conversation, and the process
\* made from it is in that conversation.
Fits(a) ==
  /\ a.cont # "fresh" => a.id \in Conv
  /\ a.cont = "fork" => saved[a.id] # None
  /\ a.found => Finds(a) /\ (a.cont \in {"resume", "fork"} => saved[a.id] # None)
DirFits ==
  /\ pc # "idle" /\ params.kind = "fork" => params.id \in Conv /\ saved[params.id] # None
  /\ pc = "exec" => Fits(args) /\ (args.cont = "session-id" => saved[args.id] = None)
  /\ \A g \in Gen : cc[g] = "running" =>
       /\ Fits(flags[g])
       /\ flags[g].cont = "session-id" =>
            conv[g] = flags[g].id /\ saved[flags[g].id] \in {None, flags[g].dir}

\* What is on the way to Claude Code: no change, or a question that none follows.
Changes(c) == c.what \in {"model", "effort"}
Still(s)   == \A i \in 1..Len(s) : ~Changes(s[i])
Asked(s)   == \E i \in 1..Len(s) :
                s[i] = Get /\ \A k \in 1..Len(s) : k > i => ~Changes(s[k])

\* What is on the way back: an init, no answer, or a last one that names a level.
InitDue(s)   == \E i \in 1..Len(s) : s[i].type = "init"
NoAnswer(s)  == \A i \in 1..Len(s) : s[i].type # "settings"
Answer(s, l) == \E i \in 1..Len(s) :
                  /\ s[i].type = "settings" /\ s[i].effort = l
                  /\ \A k \in 1..Len(s) : k > i => s[k].type # "settings"

\* No process writes once the init of a later one is written.
Drained ==
  /\ info.gen # NoGen => \A k \in 1..(info.gen - 1) : stdout[k] = <<>>
  /\ \A g \in Gen : InitDue(stdout[g]) => \A k \in 1..(g - 1) : stdout[k] = <<>>

\* The effort shown is the process's, or a report of it is due: a request has
\* still to ask, an init has still to be read, or a question or an answer is
\* under way that no change follows.
WillAsk   == \E j \in Job : job[j].pc \in {"record", "recorded", "ask"}
ReportDue ==
  info.gen = proc /\ proc # NoGen /\ cc[proc] = "running" =>
    \/ WillAsk \/ InitDue(stdout[proc]) \/ Asked(stdin[proc])
    \/ Still(stdin[proc]) /\ Answer(stdout[proc], live[proc])
    \/ Still(stdin[proc]) /\ NoAnswer(stdout[proc]) /\ info.effort = live[proc]

ConfigInv ==
  /\ TypeOK /\ OneAlive /\ HasChange /\ GateKept /\ ModelKept /\ DirFits
  /\ Drained /\ ReportDue

-----------------------------------------------------------------------------
(* Sequences.                                                              *)

\* Where the elements of Tail are,
LEMMA Tailed ==
  ASSUME NEW S, NEW s \in Seq(S)
  PROVE  /\ s # <<>> =>
             /\ 1 \in 1..Len(s) /\ Head(s) = s[1] /\ Head(s) \in S /\ Tail(s) \in Seq(S)
             /\ Len(Tail(s)) = Len(s) - 1
             /\ \A i \in 1..Len(Tail(s)) : i + 1 \in 1..Len(s) /\ Tail(s)[i] = s[i + 1]
             /\ \A i \in 1..Len(s) : i # 1 => i - 1 \in 1..Len(Tail(s)) /\ Tail(s)[i - 1] = s[i]
         /\ Len(s) > 1 => Tail(s) # <<>>
<1>1. ASSUME s # <<>>
      PROVE  /\ 1 \in 1..Len(s) /\ Head(s) = s[1] /\ Head(s) \in S /\ Tail(s) \in Seq(S)
             /\ Len(Tail(s)) = Len(s) - 1
             /\ \A i \in 1..Len(Tail(s)) : i + 1 \in 1..Len(s) /\ Tail(s)[i] = s[i + 1]
  BY <1>1
<1>2. ASSUME s # <<>>, NEW i \in 1..Len(s), i # 1
      PROVE  i - 1 \in 1..Len(Tail(s)) /\ Tail(s)[i - 1] = s[i]
  <2>1. i - 1 \in 1..Len(Tail(s)) /\ (i - 1) + 1 = i
    BY <1>1, <1>2
  <2> QED
    BY <1>1, <1>2, <2>1
<1>3. Len(s) > 1 => s # <<>>
  OBVIOUS
<1>4. Len(s) > 1 => Len(Tail(s)) > 0
  BY <1>1, <1>3
<1>5. Len(s) > 1 => Tail(s) # <<>>
  <2> DEFINE t == Tail(s)
  <2>1. Len(s) > 1 => Len(t) > 0
    BY <1>4
  <2> HIDE DEF t
  <2>2. t = <<>> => ~(Len(t) > 0)
    OBVIOUS
  <2>3. Len(s) > 1 => t # <<>>
    BY <2>1, <2>2
  <2> QED
    BY <2>3 DEF t
<1> QED
  BY <1>1, <1>2, <1>5

\* ... and those of Append.
LEMMA Appended ==
  ASSUME NEW S, NEW s \in Seq(S), NEW e \in S
  PROVE  /\ Append(s, e) \in Seq(S) /\ Len(Append(s, e)) = Len(s) + 1 /\ Len(s) \in Nat
         /\ \A i \in 1..Len(s) : Append(s, e)[i] = s[i]
         /\ Append(s, e)[Len(s) + 1] = e
OBVIOUS

\* Claude Code reads one line,
LEMMA LineRead ==
  ASSUME NEW s \in Seq(Control), s # <<>>
  PROVE  /\ Still(s) => Still(Tail(s)) /\ ~Changes(Head(s))
         /\ Asked(s) => Asked(Tail(s)) \/ (Head(s) = Get /\ Still(Tail(s)))
<1>1. Still(s) => Still(Tail(s)) /\ ~Changes(Head(s))
  BY Tailed DEF Still
<1>2. ASSUME NEW i \in 1..Len(s), s[i] = Get, \A k \in 1..Len(s) : k > i => ~Changes(s[k])
      PROVE  Asked(Tail(s)) \/ (Head(s) = Get /\ Still(Tail(s)))
  <2>1. \A k \in 1..Len(Tail(s)) : k + 1 > i => ~Changes(Tail(s)[k])
    BY <1>2, Tailed
  <2>2. CASE i = 1
    BY <1>2, <2>1, <2>2, Tailed DEF Still
  <2>3. CASE i # 1
    <3>1. i - 1 \in 1..Len(Tail(s)) /\ Tail(s)[i - 1] = Get
      BY <1>2, <2>3, Tailed
    <3>2. \A k \in 1..Len(Tail(s)) : k > i - 1 => k + 1 > i
      OBVIOUS
    <3> QED
      BY <2>1, <3>1, <3>2 DEF Asked
  <2> QED
    BY <2>2, <2>3
<1> QED
  BY <1>1, <1>2 DEF Asked

\* ... is sent one that changes nothing,
LEMMA LineWritten ==
  ASSUME NEW s \in Seq(Control), NEW c \in Control, ~Changes(c)
  PROVE  /\ Still(s) => Still(Append(s, c))
         /\ Asked(s) \/ c = Get => Asked(Append(s, c))
<1>1. \A k \in 1..Len(Append(s, c)) : k \in 1..Len(s) \/ k = Len(s) + 1
  BY Appended
<1>2. Still(s) => Still(Append(s, c))
  BY <1>1, Appended DEF Still
<1>3. c = Get => Asked(Append(s, c))
  BY <1>1, Appended DEF Asked
<1>4. Asked(s) => Asked(Append(s, c))
  BY <1>1, Appended DEF Asked
<1> QED
  BY <1>2, <1>3, <1>4

\* ... a reader reads one line,
LEMMA FrameRead ==
  ASSUME NEW s \in Seq(Frame), s # <<>>
  PROVE  /\ InitDue(Tail(s)) => InitDue(s)
         /\ Head(s).type = "init" => InitDue(s)
         /\ InitDue(s) => InitDue(Tail(s)) \/ Head(s).type = "init"
         /\ NoAnswer(s) => NoAnswer(Tail(s)) /\ Head(s).type # "settings"
         /\ \A l : Answer(s, l) => Answer(Tail(s), l)
                     \/ (Head(s).type = "settings" /\ Head(s).effort = l /\ NoAnswer(Tail(s)))
<1>1. InitDue(Tail(s)) => InitDue(s)
  BY Tailed DEF InitDue
<1>2. Head(s).type = "init" => InitDue(s)
  BY Tailed DEF InitDue
<1>3. ASSUME NEW i \in 1..Len(s), s[i].type = "init"
      PROVE  InitDue(Tail(s)) \/ Head(s).type = "init"
  <2>1. CASE i = 1
    BY <1>3, <2>1, Tailed
  <2>2. CASE i # 1
    <3>1. i - 1 \in 1..Len(Tail(s)) /\ Tail(s)[i - 1] = s[i]
      BY <1>3, <2>2, Tailed
    <3> QED
      BY <1>3, <3>1 DEF InitDue
  <2> QED
    BY <2>1, <2>2
<1>4. NoAnswer(s) => NoAnswer(Tail(s)) /\ Head(s).type # "settings"
  BY Tailed DEF NoAnswer
<1>5. ASSUME NEW l, NEW i \in 1..Len(s), s[i].type = "settings", s[i].effort = l,
             \A k \in 1..Len(s) : k > i => s[k].type # "settings"
      PROVE  Answer(Tail(s), l)
               \/ (Head(s).type = "settings" /\ Head(s).effort = l /\ NoAnswer(Tail(s)))
  <2>1. \A k \in 1..Len(Tail(s)) : k + 1 > i => Tail(s)[k].type # "settings"
    BY <1>5, Tailed
  <2>2. CASE i = 1
    BY <1>5, <2>1, <2>2, Tailed DEF NoAnswer
  <2>3. CASE i # 1
    <3>1. i - 1 \in 1..Len(Tail(s)) /\ Tail(s)[i - 1] = s[i]
      BY <1>5, <2>3, Tailed
    <3>2. \A k \in 1..Len(Tail(s)) : k > i - 1 => k + 1 > i
      OBVIOUS
    <3>3. \A k \in 1..Len(Tail(s)) : k > i - 1 => Tail(s)[k].type # "settings"
      BY <2>1, <3>2
    <3>4. Tail(s)[i - 1].type = "settings" /\ Tail(s)[i - 1].effort = l
      BY <1>5, <3>1
    <3> QED
      BY <3>1, <3>3, <3>4 DEF Answer
  <2> QED
    BY <2>2, <2>3
<1> QED
  BY <1>1, <1>2, <1>3, <1>4, <1>5 DEF Answer, InitDue

\* ... and is sent one.
LEMMA FrameWritten ==
  ASSUME NEW s \in Seq(Frame), NEW f \in Frame
  PROVE  /\ InitDue(s) \/ f.type = "init" <=> InitDue(Append(s, f))
         /\ f.type = "settings" => Answer(Append(s, f), f.effort)
<1>1. \A k \in 1..Len(Append(s, f)) : k \in 1..Len(s) \/ k = Len(s) + 1
  BY Appended
<1>2. InitDue(s) \/ f.type = "init" => InitDue(Append(s, f))
  BY Appended DEF InitDue
<1>3. InitDue(Append(s, f)) => InitDue(s) \/ f.type = "init"
  BY <1>1, Appended DEF InitDue
<1>4. f.type = "settings" => Answer(Append(s, f), f.effort)
  BY <1>1, Appended DEF Answer
<1> QED
  BY <1>2, <1>3, <1>4

-----------------------------------------------------------------------------
(* The fields a start changes.                                             *)

\* A start gives the flags it names, and a directory,
LEMMA StartGives ==
  ASSUME kept \in Kept, NEW given \in StartFlags, NEW dir \in Dir,
         NEW all, all = [f \in DOMAIN kept |-> IF f = "dir" THEN dir ELSE given[f]]
  PROVE  /\ all.settings = given.settings /\ given.settings \in Opt(Settings)
         /\ all.mode = given.mode /\ given.mode \in Opt(Mode)
         /\ all.model = given.model /\ given.model \in Opt(Model)
         /\ all.effort = given.effort /\ given.effort \in Opt(Effort)
         /\ all.dir = dir
<1>1. given \in [settings : Settings \cup {None}, mode : Mode \cup {None},
                 model : Model \cup {None}, effort : Effort \cup {None}]
  BY ConfigAssumption
<1>2. DOMAIN kept = {"settings", "mode", "model", "effort", "dir"}
  BY DEF Kept
<1>3. /\ all.settings = given.settings /\ all.mode = given.mode /\ all.model = given.model
      /\ all.effort = given.effort /\ all.dir = dir
  BY <1>2
<1> QED
  BY <1>1, <1>3 DEF Opt

\* ... and the fields keep what it does not name.
LEMMA FieldsGiven ==
  ASSUME kept \in Kept, NEW given,
         kept' = [f \in DOMAIN kept |-> Given(given[f], kept[f])],
         given.settings \in Opt(Settings), given.mode \in Opt(Mode),
         given.model \in Opt(Model), given.effort \in Opt(Effort), given.dir \in Opt(Dir)
  PROVE  /\ kept' \in Kept
         /\ kept'.settings = Given(given.settings, kept.settings)
         /\ kept'.mode = Given(given.mode, kept.mode)
         /\ kept'.model = Given(given.model, kept.model)
<1>1. DOMAIN kept = {"settings", "mode", "model", "effort", "dir"}
  BY DEF Kept
<1>2. kept' = [settings |-> Given(given.settings, kept.settings),
               mode |-> Given(given.mode, kept.mode),
               model |-> Given(given.model, kept.model),
               effort |-> Given(given.effort, kept.effort),
               dir |-> Given(given.dir, kept.dir)]
  BY <1>1
<1> QED
  BY <1>2 DEF Kept, Given, Opt, ModelId, EffortId

\* The mode Claude Code is given is never a word of the bridge's.
LEMMA ModeFlags ==
  ASSUME NEW m \in Opt(Mode)
  PROVE  ModeFlag(m) \in {"default", "bypassPermissions"} \cup (Mode \ BridgeMode)
BY DEF ModeFlag, translateCanonicalPermissionMode, BridgeMode, Opt

\* A start keeps the types.
LEMMA BeginTypes ==
  ASSUME TypeOK, NEW p \in Params, NEW given, Begin(p, given),
         given.settings \in Opt(Settings), given.mode \in Opt(Mode),
         given.model \in Opt(Model), given.effort \in Opt(Effort), given.dir \in Opt(Dir)
  PROVE  /\ kept' \in Kept /\ sid' \in Id /\ params' \in Params /\ pc' = "args"
         /\ UNCHANGED <<proc, args, claude, info, job>>
<1>1. kept' \in Kept
  BY FieldsGiven DEF TypeOK, Begin
<1>2. sid' \in Id
  BY DEF Begin, Params, Id
<1> QED
  BY <1>1, <1>2 DEF Begin

\* A command line is built with the directory a transcript names, or none.
LEMMA NamedDir ==
  ASSUME TypeOK, BuildArgs
  PROVE  \E named \in Opt(Dir) :
           /\ kept' = [kept EXCEPT !.dir = Given(named, kept.dir)]
           /\ args' = [cont |-> Continue(params), id |-> params.id, model |-> kept.model,
                       effort |-> kept.effort, settings |-> kept.settings,
                       mode |-> ModeFlag(kept.mode), dir |-> Given(named, kept.dir),
                       found |-> named # None]
           /\ named # None => /\ Continue(params) \in {"resume", "fork"}
                              /\ named = saved[params.id]
<1>1. Continue(params) \in {"resume", "fork"} => params.id \in Conv
  BY DEF Continue
<1>2. Continue(params) \in {"resume", "fork"} => transcriptWorkingDir(params.id) \subseteq Opt(Dir)
  BY <1>1 DEF transcriptWorkingDir, TypeOK, Opt
<1> QED
  BY <1>2 DEF BuildArgs, transcriptWorkingDir, Opt

\* A request under way, or none.
Work == [pc : {"none", "check", "write", "record", "recorded", "ask"},
         todo : Seq(Change), met : BOOLEAN]

\* A step of a request leaves a request.
LEMMA Steps ==
  ASSUME NEW w \in Work
  PROVE  /\ \A q \in {"check", "write", "record", "recorded", "ask"} :
              /\ [w EXCEPT !.pc = q] \in Work
              /\ \A b \in BOOLEAN : [w EXCEPT !.pc = q, !.met = b] \in Work
              /\ Tail(w.todo) \in Seq(Change) => [w EXCEPT !.pc = q, !.todo = Tail(w.todo)] \in Work
         /\ \A b \in BOOLEAN : [w EXCEPT !.met = b] \in Work
BY DEF Work

\* A change of a level is one.
LEMMA Levels ==
  ASSUME NEW l \in Level, NEW f \in {"model", "effort"}, NEW v,
         f = "model" => v \in ModelId, f = "effort" => v \in EffortId
  PROVE  [l EXCEPT ![f] = v] \in Level
BY DEF Level

\* The change under way is one.
LEMMA ChangeUnderWay ==
  ASSUME TypeOK, HasChange, NEW j \in Job, job[j].pc # "none"
  PROVE  /\ Head(job[j].todo) \in Change /\ Tail(job[j].todo) \in Seq(Change)
         /\ Head(job[j].todo) \in Control /\ Head(job[j].todo).what \in {"model", "effort"}
         /\ Head(job[j].todo).what = "model" => Head(job[j].todo).value \in Model
         /\ Head(job[j].todo).what = "effort" => Head(job[j].todo).value \in Effort
<1>1. job[j].todo \in Seq(Change) /\ job[j].todo # <<>>
  BY DEF TypeOK, HasChange
<1>2. Head(job[j].todo) \in Change /\ Tail(job[j].todo) \in Seq(Change)
  BY <1>1
<1> QED
  BY <1>2 DEF Change, Control

\* What a write leaves on standard input.
LEMMA WriteTypes ==
  ASSUME TypeOK, NEW g, NEW c \in Control, NEW ok, Writes(g, c, ok)
  PROVE  stdin' \in [Gen -> Seq(Control)]
<1>1. stdin \in [Gen -> Seq(Control)]
  BY DEF TypeOK
<1>2. CASE stdin' = [stdin EXCEPT ![g] = Append(@, c)]
  <2>1. \A k \in Gen : stdin[k] \in Seq(Control) /\ Append(stdin[k], c) \in Seq(Control)
    BY <1>1
  <2> QED
    BY <1>1, <1>2, <2>1
<1>3. CASE UNCHANGED stdin
  BY <1>1, <1>3
<1> QED
  BY <1>2, <1>3 DEF Writes

-----------------------------------------------------------------------------
(* Types.                                                                  *)

\* Every action keeps the types.
LEMMA TypesKept ==
  ASSUME TypeOK, HasChange, DirFits, Next
  PROVE  TypeOK'
<1> USE ConfigAssumption
<1>a. /\ Message \in Control /\ Get \in Control
      /\ NoJob \in Work
      /\ NoParams \in Params /\ NoArgs \in Args /\ NoLevel \in Level
  BY DEF Message, Get, Control, Work, NoJob, NoParams, NoArgs, NoLevel, Params, Args, Level, Id, Opt,
         ModelId, EffortId
<1>b. job \in [Job -> Work] /\ live \in [Gen -> Level]
  BY DEF TypeOK, Work
<1>1. CASE Start
  <2>1. PICK given \in StartFlags, dir \in Dir, p \in Params :
          /\ p.message => requests < MaxRequests
          /\ requests' = requests + (IF p.message THEN 1 ELSE 0)
          /\ Begin(p, [f \in DOMAIN kept |-> IF f = "dir" THEN dir ELSE given[f]])
          /\ asked' = [settings |-> Given(given.settings, asked.settings),
                       mode |-> Given(given.mode, asked.mode),
                       model |-> Given(given.model, asked.model)]
    BY <1>1 DEF Start
  <2> DEFINE all == [f \in DOMAIN kept |-> IF f = "dir" THEN dir ELSE given[f]]
  <2>2. /\ all.settings = given.settings /\ given.settings \in Opt(Settings)
        /\ all.mode = given.mode /\ given.mode \in Opt(Mode)
        /\ all.model = given.model /\ given.model \in Opt(Model)
        /\ all.effort = given.effort /\ given.effort \in Opt(Effort)
        /\ all.dir = dir
    BY StartGives DEF TypeOK
  <2>3. all.dir \in Opt(Dir)
    BY <2>2 DEF Opt
  <2>4. Begin(p, all)
    BY <2>1
  <2> HIDE DEF all
  <2>5. /\ kept' \in Kept /\ sid' \in Id /\ params' \in Params /\ pc' = "args"
        /\ UNCHANGED <<proc, args, claude, info, job>>
    BY <2>2, <2>3, <2>4, BeginTypes
  <2>6. asked' \in [settings : Opt(Settings), mode : Opt(Mode), model : ModelId]
    BY <2>1, <2>2 DEF TypeOK, Given, Opt, ModelId
  <2>7. starts' \in 0..MaxStarts /\ requests' \in 0..MaxRequests
    BY <1>1, <2>1 DEF Start, TypeOK, Params
  <2> QED
    BY <2>5, <2>6, <2>7 DEF TypeOK, claude
<1>2. CASE Respawn
  <2>1. PICK m \in BOOLEAN, id \in Id :
          /\ m => requests < MaxRequests
          /\ requests' = requests + (IF m THEN 1 ELSE 0)
          /\ Begin([kind |-> "resume", id |-> id, message |-> m, override |-> FALSE],
                   NothingGiven)
    BY <1>2 DEF Respawn
  <2>2. [kind |-> "resume", id |-> id, message |-> m, override |-> FALSE] \in Params
    BY DEF Params
  <2>3. DOMAIN kept = {"settings", "mode", "model", "effort", "dir"}
    BY DEF TypeOK, Kept
  <2>4. /\ NothingGiven.settings = None /\ NothingGiven.mode = None /\ NothingGiven.dir = None
        /\ NothingGiven.model = None /\ NothingGiven.effort = None
    BY <2>3 DEF NothingGiven
  <2>5. /\ kept' \in Kept /\ sid' \in Id /\ params' \in Params /\ pc' = "args"
        /\ UNCHANGED <<proc, args, claude, info, job>>
    BY <2>1, <2>2, <2>4, BeginTypes DEF Opt
  <2>6. requests' \in 0..MaxRequests
    BY <2>1 DEF TypeOK
  <2> QED
    BY <1>2, <2>5, <2>6 DEF TypeOK, claude, Respawn
<1>3. CASE BuildArgs
  <2>1. ModeFlag(kept.mode) \in {"default", "bypassPermissions"} \cup (Mode \ BridgeMode)
    BY ModeFlags DEF TypeOK, Kept
  <2>2. PICK named \in Opt(Dir) :
          /\ kept' = [kept EXCEPT !.dir = Given(named, kept.dir)]
          /\ args' = [cont |-> Continue(params), id |-> params.id, model |-> kept.model,
                      effort |-> kept.effort, settings |-> kept.settings,
                      mode |-> ModeFlag(kept.mode), dir |-> Given(named, kept.dir),
                      found |-> named # None]
    BY <1>3, NamedDir
  <2>3. Continue(params) \in {"fresh", "resume", "session-id", "fork"}
    BY DEF Continue
  <2>4. Given(named, kept.dir) \in Opt(Dir)
    BY DEF Given, TypeOK, Kept
  <2>5. args' \in Args
    BY <2>1, <2>2, <2>3, <2>4 DEF TypeOK, Args, Kept, Params
  <2>6. kept' \in Kept
    BY <2>2, <2>4 DEF TypeOK, Kept
  <2> QED
    BY <1>3, <2>5, <2>6 DEF BuildArgs, TypeOK, claude, bounds
<1>4. CASE SpawnFails
  BY <1>4, <1>a DEF SpawnFails, TypeOK, claude, bounds
<1>5. CASE SendMessage
  <2>1. stdin' \in [Gen -> Seq(Control)]
    BY <1>5, <1>a, WriteTypes DEF SendMessage
  <2> QED
    BY <1>5, <2>1 DEF SendMessage, Writes, TypeOK, harness
<1>6. ASSUME NEW g \in Gen, Spawn(g)
      PROVE  TypeOK'
  <2>1. conv' \in [Gen -> Opt(Conv)]
    BY <1>6 DEF Spawn, TypeOK, DirFits, Fits, Fresh, Opt
  <2>2. live' \in [Gen -> Level]
    BY <1>6 DEF Spawn, TypeOK, Args, Level
  <2>3. stdin' \in [Gen -> Seq(Control)]
    <3>1. <<Message>> \in Seq(Control) /\ <<>> \in Seq(Control)
      BY <1>a
    <3> QED
      BY <1>6, <3>1 DEF Spawn, TypeOK
  <2> QED
    BY <1>6, <1>a, <2>1, <2>2, <2>3 DEF Spawn, TypeOK, bounds
<1>7. ASSUME NEW j \in Job, Request(j)
      PROVE  TypeOK'
  <2>1. PICK m \in Opt(Model), e \in Opt(Effort) :
          LET model  == IF m = None THEN <<>> ELSE <<[what |-> "model", value |-> m]>>
              effort == IF e = None THEN <<>> ELSE <<[what |-> "effort", value |-> e]>>
          IN  job' = [job EXCEPT ![j] = [pc |-> "check", todo |-> model \o effort, met |-> FALSE]]
    BY <1>7 DEF Request
  <2> DEFINE model  == IF m = None THEN <<>> ELSE <<[what |-> "model", value |-> m]>>
             effort == IF e = None THEN <<>> ELSE <<[what |-> "effort", value |-> e]>>
  <2>2. m # None => [what |-> "model", value |-> m] \in Change
    BY DEF Change, Opt
  <2>3. e # None => [what |-> "effort", value |-> e] \in Change
    BY DEF Change, Opt
  <2>4. model \in Seq(Change) /\ effort \in Seq(Change)
    BY <2>2, <2>3
  <2> HIDE DEF model, effort
  <2>5. model \o effort \in Seq(Change)
    BY <2>4
  <2>6. job' = [job EXCEPT ![j] = [pc |-> "check", todo |-> model \o effort, met |-> FALSE]]
    BY <2>1 DEF model, effort
  <2> HIDE <2>1
  <2>7. job' \in [Job -> Work]
    BY <2>5, <2>6 DEF TypeOK, Work
  <2> QED
    BY <1>7, <2>7 DEF Request, TypeOK, Work, harness, claude
<1>8. ASSUME NEW j \in Job, handleControl(j)
      PROVE  TypeOK'
  <2>1. [job[j] EXCEPT !.pc = "write"] \in Work
    BY <1>b, Steps
  <2>2. job' \in [Job -> Work]
    BY <1>8, <1>a, <2>1 DEF handleControl, TypeOK, Work
  <2> QED
    BY <1>8, <2>2 DEF handleControl, TypeOK, Work, harness, claude, bounds
<1>9. ASSUME NEW j \in Job, WriteControl(j)
      PROVE  TypeOK'
  <2>1. stdin' \in [Gen -> Seq(Control)]
    BY <1>9, ChangeUnderWay, WriteTypes DEF WriteControl
  <2>2. [job[j] EXCEPT !.pc = "record"] \in Work
    BY <1>b, Steps
  <2>3. job' \in [Job -> Work]
    BY <1>9, <1>a, <2>2 DEF WriteControl, TypeOK, Work
  <2> QED
    BY <1>9, <2>1, <2>3 DEF WriteControl, Writes, TypeOK, Work, harness, bounds
<1>10. ASSUME NEW j \in Job, Record(j)
       PROVE  TypeOK'
  <2>1. kept' \in Kept
    BY <1>10, ChangeUnderWay DEF Record, TypeOK, Kept, ModelId, EffortId
  <2>2. job' \in [Job -> Work]
    <3>1. \A k \in Job : /\ [job[k] EXCEPT !.pc = "recorded", !.met = Writing(j) # {}] \in Work
                         /\ [job[k] EXCEPT !.met = @ \/ k \in Writing(j)] \in Work
      BY <1>b, Steps
    <3> QED
      BY <1>10, <3>1 DEF Record
  <2> QED
    BY <1>10, <2>1, <2>2 DEF Record, TypeOK, Work, claude, bounds
<1>11. ASSUME NEW j \in Job, Recorded(j)
       PROVE  TypeOK'
  <2> DEFINE c == Head(job[j].todo)
  <2>1. PICK v \in {c.value, Torn} :
          /\ kept' = [kept EXCEPT ![c.what] = v]
          /\ asked' = IF c.what = "model" THEN [asked EXCEPT !.model = v] ELSE asked
    BY <1>11 DEF Recorded
  <2>2. /\ c.what \in {"model", "effort"}
        /\ c.what = "model" => v \in ModelId
        /\ c.what = "effort" => v \in EffortId
    BY <1>11, ChangeUnderWay DEF Recorded, ModelId, EffortId
  <2> HIDE DEF c
  <2>3. kept' \in Kept
    BY <2>1, <2>2 DEF TypeOK, Kept
  <2>4. asked' \in [settings : Opt(Settings), mode : Opt(Mode), model : ModelId]
    BY <2>1, <2>2 DEF TypeOK
  <2>5. [job[j] EXCEPT !.pc = "ask", !.met = FALSE] \in Work
    BY <1>b, Steps
  <2>6. job' \in [Job -> Work]
    BY <1>11, <1>b, <2>5 DEF Recorded
  <2> QED
    BY <1>11, <2>3, <2>4, <2>6 DEF Recorded, TypeOK, Work, claude, bounds
<1>12. ASSUME NEW j \in Job, requestReportedEffort(j)
       PROVE  TypeOK'
  <2>1. stdin' \in [Gen -> Seq(Control)]
    BY <1>12, <1>a, WriteTypes DEF requestReportedEffort
  <2>2. [job[j] EXCEPT !.pc = "check", !.todo = Tail(job[j].todo)] \in Work
    BY <1>12, <1>b, ChangeUnderWay, Steps DEF requestReportedEffort
  <2>3. job' \in [Job -> Work]
    BY <1>12, <1>a, <1>b, <2>2 DEF requestReportedEffort
  <2> QED
    BY <1>12, <2>1, <2>3 DEF requestReportedEffort, Writes, TypeOK, Work, harness, bounds
<1>13. ASSUME NEW g \in Gen, Reads(g)
       PROVE  TypeOK'
  <2>1. stdin[g] \in Seq(Control) /\ stdin[g] # <<>>
    BY <1>13 DEF Reads, TypeOK
  <2>2. Head(stdin[g]) \in Control /\ Tail(stdin[g]) \in Seq(Control)
    BY <2>1
  <2>3. stdin' \in [Gen -> Seq(Control)]
    BY <1>13, <2>2 DEF Reads, TypeOK
  <2>4. live' \in [Gen -> Level]
    <3> DEFINE c == Head(stdin[g])
    <3>1. CASE c.what \in {"model", "effort"} /\ live' = [live EXCEPT ![g][c.what] = c.value]
      <4>1. /\ c.what = "model" => c.value \in ModelId
            /\ c.what = "effort" => c.value \in EffortId
        BY <2>2, <3>1 DEF Control, Change, ModelId, EffortId
      <4> HIDE DEF c
      <4>2. [live[g] EXCEPT ![c.what] = c.value] \in Level
        BY <3>1, <4>1, <1>b, Levels
      <4> QED
        BY <1>b, <3>1, <4>2
    <3>2. CASE UNCHANGED live
      BY <3>2 DEF TypeOK
    <3> QED
      BY <1>13, <3>1, <3>2 DEF Reads
  <2>5. stdout' \in [Gen -> Seq(Frame)]
    <3>1. /\ [type |-> "settings", effort |-> live[g]] \in Frame
          /\ [type |-> "init", effort |-> None] \in Frame
      BY DEF TypeOK, Frame
    <3>2. stdout[g] \in Seq(Frame)
      BY DEF TypeOK
    <3>3. /\ Append(stdout[g], [type |-> "settings", effort |-> live[g]]) \in Seq(Frame)
          /\ Append(stdout[g], [type |-> "init", effort |-> None]) \in Seq(Frame)
      BY <3>1, <3>2
    <3> QED
      BY <1>13, <3>3 DEF Reads, TypeOK
  <2>6. saved' \in [Conv -> Opt(Dir)]
    BY <1>13 DEF Reads, TypeOK, Given, Args, Opt
  <2> QED
    BY <1>13, <2>3, <2>4, <2>5, <2>6 DEF Reads, TypeOK, harness, bounds
<1>14. ASSUME NEW g \in Gen, Dying(g)
       PROVE  TypeOK'
  <2>1. <<>> \in Seq(Control)
    OBVIOUS
  <2> QED
    BY <1>14, <2>1 DEF Dying, TypeOK, harness, bounds
<1>15. ASSUME NEW g \in Gen, Exits(g)
       PROVE  TypeOK'
  BY <1>15, <1>a DEF Exits, TypeOK, harness, bounds
<1>16. ASSUME NEW g \in Gen, ReadInit(g)
       PROVE  TypeOK'
  <2>1. stdout[g] \in Seq(Frame) /\ Tail(stdout[g]) \in Seq(Frame)
    BY <1>16 DEF ReadInit, TypeOK
  <2>2. stdout' \in [Gen -> Seq(Frame)]
    BY <1>16, <2>1 DEF ReadInit, TypeOK
  <2>3. stdin' \in [Gen -> Seq(Control)]
    BY <1>16, <1>a DEF ReadInit, TypeOK
  <2>4. info' \in [gen : Gen \cup {NoGen}, effort : Opt(Level)] /\ sid' \in Id
    BY <1>16 DEF ReadInit, TypeOK, Opt, Id
  <2> QED
    BY <1>16, <2>2, <2>3, <2>4 DEF ReadInit, TypeOK, bounds
<1>17. ASSUME NEW g \in Gen, reportedEffort(g)
       PROVE  TypeOK'
  <2>1. stdout[g] \in Seq(Frame) /\ stdout[g] # <<>>
    BY <1>17 DEF reportedEffort, TypeOK
  <2>2. Head(stdout[g]) \in Frame /\ Tail(stdout[g]) \in Seq(Frame)
    BY <2>1
  <2>3. stdout' \in [Gen -> Seq(Frame)]
    BY <1>17, <2>2 DEF reportedEffort, TypeOK
  <2>4. info' \in [gen : Gen \cup {NoGen}, effort : Opt(Level)]
    BY <1>17, <2>2 DEF reportedEffort, TypeOK, Frame, Opt
  <2> QED
    BY <1>17, <2>3, <2>4 DEF reportedEffort, TypeOK, harness, bounds
<1> QED
  BY <1>1, <1>2, <1>3, <1>4, <1>5, <1>6, <1>7, <1>8, <1>9, <1>10, <1>11, <1>12, <1>13, <1>14,
     <1>15, <1>16, <1>17 DEF Next, Dispatcher, Async, Process

-----------------------------------------------------------------------------
(* One process, changes, gate and model.                                   *)

\* Processes are spawned in order, and only the last lives.
LEMMA OneAliveKept ==
  ASSUME TypeOK, OneAlive, Next
  PROVE  OneAlive'
<1>0. Gen \subseteq Nat /\ NoGen \notin Gen
  BY ConfigAssumption DEF Gen, NoGen
<1>1. CASE Start \/ Respawn
  <2>1. /\ UNCHANGED <<proc, cc, stdout, info>> /\ ~Alive /\ pc' = "args"
    BY <1>1 DEF Start, Respawn, Begin, claude
  <2> QED
    BY <2>1 DEF OneAlive, Alive
<1>2. CASE BuildArgs \/ SpawnFails
  BY <1>2 DEF BuildArgs, SpawnFails, claude, OneAlive, Alive
<1>3. CASE SendMessage
  BY <1>3 DEF SendMessage, Writes, harness, OneAlive, Alive
<1>4. ASSUME NEW g \in Gen, Spawn(g)
      PROVE  OneAlive'
  <2>1. \A k \in Gen : k > g => cc[k] = "none"
    BY <1>4, ConfigAssumption DEF Spawn, Spawned, Gen
  <2>2. cc' = [cc EXCEPT ![g] = "running"] /\ proc' = g /\ pc' = "idle" /\ UNCHANGED <<stdout, info>>
    BY <1>4 DEF Spawn
  <2>3. \A k \in Gen : cc[k] \notin {"running", "dying"}
    BY <1>0, <1>4 DEF Spawn, OneAlive, Alive
  <2>4. cc[g] = "none" /\ stdout \in [Gen -> Seq(Frame)] /\ cc \in [Gen -> {"none", "running", "dying", "exited"}]
    BY <1>4 DEF Spawn, TypeOK
  <2>5. \A k \in Gen : k > g => k # g
    BY <1>0
  <2> QED
    BY <2>1, <2>2, <2>3, <2>4, <2>5 DEF OneAlive
<1>5. ASSUME NEW j \in Job, Async(j)
      PROVE  OneAlive'
  <2>1. UNCHANGED <<proc, pc, cc, stdout, info>>
    BY <1>5 DEF Async, Request, handleControl, WriteControl, Record, Recorded,
                requestReportedEffort, Writes, harness, claude
  <2> QED
    BY <2>1 DEF OneAlive, Alive
<1>6. ASSUME NEW g \in Gen, Reads(g)
      PROVE  OneAlive'
  BY <1>6 DEF Reads, harness, OneAlive, Alive, TypeOK
<1>7. ASSUME NEW g \in Gen, Dying(g) \/ Exits(g)
      PROVE  OneAlive'
  <2>1. /\ UNCHANGED <<proc, pc, stdout, info>>
        /\ \/ cc[g] = "running" /\ cc' = [cc EXCEPT ![g] = "dying"]
           \/ cc[g] = "dying" /\ cc' = [cc EXCEPT ![g] = "exited"]
    BY <1>7 DEF Dying, Exits, harness
  <2> QED
    BY <2>1 DEF OneAlive, Alive, TypeOK
<1>8. ASSUME NEW g \in Gen, ReadInit(g) \/ reportedEffort(g)
      PROVE  OneAlive'
  <2>1. /\ UNCHANGED <<proc, pc, cc>> /\ stdout[g] # <<>>
        /\ stdout' = [stdout EXCEPT ![g] = Tail(@)]
        /\ info'.gen \in {g, info.gen}
    BY <1>8 DEF ReadInit, reportedEffort, harness, TypeOK
  <2> QED
    BY <2>1 DEF OneAlive, Alive, TypeOK
<1> QED
  BY <1>1, <1>2, <1>3, <1>4, <1>5, <1>6, <1>7, <1>8 DEF Next, Dispatcher, Process

\* A request under way keeps a change to make.
LEMMA HasChangeKept ==
  ASSUME TypeOK, HasChange, Next
  PROVE  HasChange'
<1>1. CASE UNCHANGED job
  BY <1>1 DEF HasChange
<1>2. ASSUME NEW j \in Job, Request(j)
      PROVE  HasChange'
  BY <1>2 DEF Request, HasChange, TypeOK
<1>3. ASSUME NEW j \in Job, handleControl(j) \/ WriteControl(j) \/ Record(j) \/ Recorded(j)
      PROVE  HasChange'
  <2>0. job \in [Job -> Work]
    BY DEF TypeOK, Work
  <2>1. \A k \in Job : /\ job'[k].pc # "none" => job[k].pc # "none"
                       /\ job'[k].todo = job[k].todo \/ job'[k].pc = "none"
    <3>1. CASE handleControl(j)
      BY <2>0, <3>1 DEF handleControl, NoJob, Work
    <3>2. CASE WriteControl(j)
      <4>1. \/ job' = [job EXCEPT ![j] = [@ EXCEPT !.pc = "record"]]
            \/ job' = [job EXCEPT ![j] = NoJob]
        BY <3>2 DEF WriteControl
      <4> QED
        BY <2>0, <3>2, <4>1 DEF WriteControl, NoJob, Work
    <3>3. CASE Record(j)
      BY <2>0, <3>3 DEF Record, Work
    <3>4. CASE Recorded(j)
      BY <2>0, <3>4 DEF Recorded, Work
    <3> QED
      BY <1>3, <3>1, <3>2, <3>3, <3>4
  <2> QED
    BY <2>1 DEF HasChange
<1>4. ASSUME NEW j \in Job, requestReportedEffort(j)
      PROVE  HasChange'
  <2>0. job[j].todo \in Seq(Change)
    BY DEF TypeOK
  <2>1. Len(job[j].todo) > 1 => Tail(job[j].todo) # <<>>
    BY <2>0, Tailed
  <2>2. \A k \in Job \ {j} : job'[k] = job[k]
    BY <1>4 DEF requestReportedEffort, TypeOK
  <2>3. job'[j].pc # "none" => job'[j].todo # <<>>
    BY <1>4, <2>1 DEF requestReportedEffort, TypeOK, NoJob
  <2> QED
    BY <2>2, <2>3 DEF HasChange
<1> QED
  BY <1>1, <1>2, <1>3, <1>4
  DEF Next, Dispatcher, Async, Process, Start, Respawn, Begin, BuildArgs, SpawnFails, SendMessage,
      Spawn, Reads, Dying, Exits, ReadInit, reportedEffort

\* A start gives what it names, and the fields keep the rest.
LEMMA StartKeeps ==
  ASSUME TypeOK, Start \/ Respawn
  PROVE  /\ kept.settings = asked.settings => kept'.settings = asked'.settings
         /\ kept.mode = asked.mode => kept'.mode = asked'.mode
         /\ kept.model = asked.model => kept'.model = asked'.model
         /\ ~Alive /\ pc' = "args" /\ UNCHANGED <<proc, args, cc, flags, job>>
<1>1. CASE Start
  <2>1. PICK given \in StartFlags, dir \in Dir, p \in Params :
          /\ Begin(p, [f \in DOMAIN kept |-> IF f = "dir" THEN dir ELSE given[f]])
          /\ asked' = [settings |-> Given(given.settings, asked.settings),
                       mode |-> Given(given.mode, asked.mode),
                       model |-> Given(given.model, asked.model)]
    BY <1>1 DEF Start
  <2> DEFINE all == [f \in DOMAIN kept |-> IF f = "dir" THEN dir ELSE given[f]]
  <2>2. /\ all.settings = given.settings /\ given.settings \in Opt(Settings)
        /\ all.mode = given.mode /\ given.mode \in Opt(Mode)
        /\ all.model = given.model /\ given.model \in Opt(Model)
        /\ all.effort = given.effort /\ given.effort \in Opt(Effort)
        /\ all.dir \in Opt(Dir)
    BY StartGives DEF TypeOK, Opt
  <2>3. kept' = [f \in DOMAIN kept |-> Given(all[f], kept[f])]
    BY <2>1 DEF Begin
  <2> HIDE DEF all
  <2>4. /\ kept'.settings = Given(given.settings, kept.settings)
        /\ kept'.mode = Given(given.mode, kept.mode)
        /\ kept'.model = Given(given.model, kept.model)
    BY <2>2, <2>3, FieldsGiven DEF TypeOK
  <2> QED
    BY <2>1, <2>4 DEF Begin, claude, Given
<1>2. CASE Respawn
  <2>1. PICK p : Begin(p, NothingGiven)
    BY <1>2 DEF Respawn
  <2>2. DOMAIN kept = {"settings", "mode", "model", "effort", "dir"} /\ kept \in Kept
    BY DEF TypeOK, Kept
  <2>3. kept' = [f \in DOMAIN kept |-> kept[f]]
    BY <2>1 DEF Begin, NothingGiven, Given
  <2>4. kept'.settings = kept.settings /\ kept'.mode = kept.mode /\ kept'.model = kept.model
    BY <2>2, <2>3
  <2> QED
    BY <1>2, <2>1, <2>4 DEF Begin, claude, Respawn
<1> QED
  BY <1>1, <1>2

\* A request changes nothing but the model and the effort of a start to come.
LEMMA RequestKeeps ==
  ASSUME TypeOK, HasChange, NEW j \in Job, Async(j)
  PROVE  /\ kept'.settings = kept.settings /\ kept'.mode = kept.mode
         /\ asked'.settings = asked.settings /\ asked'.mode = asked.mode
         /\ UNCHANGED <<proc, pc, params, args, cc, flags, conv, stdout, saved, info, live>>
<1>1. UNCHANGED <<proc, pc, params, args, cc, flags, conv, stdout, saved, info, live>>
  BY DEF Async, Request, handleControl, WriteControl, Record, Recorded,
         requestReportedEffort, Writes, harness, claude
<1>2. CASE UNCHANGED <<kept, asked>>
  BY <1>1, <1>2
<1>3. CASE Record(j)
  <2>1. Head(job[j].todo).what \in {"model", "effort"}
    BY <1>3, ChangeUnderWay DEF Record
  <2> QED
    BY <1>1, <1>3, <2>1 DEF Record, TypeOK, Kept
<1>4. CASE Recorded(j)
  <2>1. Head(job[j].todo).what \in {"model", "effort"}
    BY <1>4, ChangeUnderWay DEF Recorded
  <2>2. PICK v : /\ kept' = [kept EXCEPT ![Head(job[j].todo).what] = v]
                 /\ asked' = asked \/ asked' = [asked EXCEPT !.model = v]
    BY <1>4 DEF Recorded
  <2> QED
    BY <1>1, <2>1, <2>2 DEF TypeOK, Kept
<1> QED
  BY <1>2, <1>3, <1>4 DEF Async, Request, handleControl, WriteControl, requestReportedEffort, harness

\* The gate outlives every step.
LEMMA GateIsKept ==
  ASSUME TypeOK, OneAlive, HasChange, GateKept, Next
  PROVE  GateKept'
<1>1. CASE Start \/ Respawn
  BY <1>1, StartKeeps DEF GateKept, Alive
<1>2. CASE BuildArgs
  <2>1. ~Alive' /\ asked' = asked
    BY <1>2 DEF BuildArgs, claude, OneAlive, Alive
  <2>2. kept'.settings = kept.settings /\ kept'.mode = kept.mode
    BY <1>2 DEF BuildArgs, TypeOK, Kept
  <2>3. args'.settings = kept.settings /\ args'.mode = ModeFlag(kept.mode)
    BY <1>2 DEF BuildArgs
  <2> QED
    BY <2>1, <2>2, <2>3 DEF GateKept
<1>3. CASE SpawnFails \/ SendMessage
  BY <1>3 DEF SpawnFails, SendMessage, Writes, harness, claude, GateKept, Alive
<1>4. ASSUME NEW g \in Gen, Spawn(g)
      PROVE  GateKept'
  BY <1>4 DEF Spawn, GateKept, TypeOK
<1>5. ASSUME NEW j \in Job, Async(j)
      PROVE  GateKept'
  BY <1>5, RequestKeeps DEF GateKept, Alive
<1>6. ASSUME NEW g \in Gen, Dying(g) \/ Exits(g)
      PROVE  GateKept'
  <2>1. /\ UNCHANGED <<kept, asked, pc, args, proc>>
        /\ \/ flags' = flags
           \/ cc'[g] = "exited" /\ \A k \in Gen \ {g} : flags'[k] = flags[k]
        /\ \A k \in Gen : cc'[k] # "exited" => cc[k] # "exited"
    BY <1>6 DEF Dying, Exits, harness, TypeOK
  <2> QED
    BY <2>1 DEF GateKept, Alive, TypeOK
<1>7. ASSUME NEW g \in Gen, Reads(g) \/ ReadInit(g) \/ reportedEffort(g)
      PROVE  GateKept'
  BY <1>7 DEF Reads, ReadInit, reportedEffort, harness, GateKept, Alive
<1> QED
  BY <1>1, <1>2, <1>3, <1>4, <1>5, <1>6, <1>7 DEF Next, Dispatcher, Process

\* So does the model recorded last.
LEMMA ModelIsKept ==
  ASSUME TypeOK, HasChange, ModelKept, Next
  PROVE  ModelKept'
<1>0. job \in [Job -> Work]
  BY DEF TypeOK, Work
<1>1. CASE Start \/ Respawn
  BY <1>1, StartKeeps DEF ModelKept, Recording
<1>2. CASE BuildArgs
  BY <1>2 DEF BuildArgs, ModelKept, Recording, TypeOK, Kept
<1>3. ASSUME NEW j \in Job, Request(j) \/ handleControl(j) \/ WriteControl(j)
                              \/ requestReportedEffort(j)
      PROVE  ModelKept'
  <2>1. UNCHANGED <<kept, asked>> /\ job[j].pc # "recorded"
    BY <1>3 DEF Request, handleControl, WriteControl, requestReportedEffort, harness
  <2>2. \A k \in Job \ {j} : job'[k] = job[k]
    BY <1>0, <1>3 DEF Request, handleControl, WriteControl, requestReportedEffort
  <2> QED
    BY <2>1, <2>2 DEF ModelKept, Recording
<1>4. ASSUME NEW j \in Job, Record(j)
      PROVE  ModelKept'
  <2>1. /\ job'[j].pc = "recorded" /\ job[j].pc = "record"
        /\ \A k \in Job : job'[k].todo = job[k].todo
        /\ \A k \in Job \ {j} : job'[k].pc = job[k].pc
    BY <1>0, <1>4 DEF Record, Work
  <2>2. asked' = asked /\ (Head(job[j].todo).what # "model" => kept'.model = kept.model)
    BY <1>4 DEF Record, TypeOK, Kept
  <2> QED
    BY <2>1, <2>2 DEF ModelKept, Recording
<1>5. ASSUME NEW j \in Job, Recorded(j)
      PROVE  ModelKept'
  <2>1. \A k \in Job \ {j} : job'[k] = job[k]
    BY <1>0, <1>5 DEF Recorded
  <2>2. PICK v : /\ kept' = [kept EXCEPT ![Head(job[j].todo).what] = v]
                 /\ asked' = IF Head(job[j].todo).what = "model"
                             THEN [asked EXCEPT !.model = v] ELSE asked
    BY <1>5 DEF Recorded
  <2>3. CASE Head(job[j].todo).what = "model"
    BY <2>2, <2>3 DEF ModelKept, TypeOK, Kept
  <2>4. CASE Head(job[j].todo).what # "model"
    <3>1. kept'.model = kept.model /\ asked' = asked
      BY <2>2, <2>4 DEF TypeOK, Kept
    <3> QED
      BY <2>1, <2>4, <3>1 DEF ModelKept, Recording
  <2> QED
    BY <2>3, <2>4
<1>6. CASE UNCHANGED <<kept, asked, job>>
  BY <1>6 DEF ModelKept, Recording
<1> QED
  BY <1>1, <1>2, <1>3, <1>4, <1>5, <1>6
  DEF Next, Dispatcher, Async, Process, SpawnFails, SendMessage, Spawn, Reads, Dying, Exits,
      ReadInit, reportedEffort, harness

-----------------------------------------------------------------------------
(* Conversations and their directories.                                    *)

\* While a start is under way no process runs.
LEMMA NoneRuns ==
  ASSUME OneAlive, ~Alive
  PROVE  \A g \in Gen : cc[g] \notin {"running", "dying"}
<1>1. NoGen \notin Gen
  BY ConfigAssumption DEF Gen, NoGen
<1> QED
  BY <1>1 DEF OneAlive, Alive

\* The command line and its process keep fitting their conversation.
LEMMA DirKept ==
  ASSUME TypeOK, OneAlive, HasChange, DirFits, Next
  PROVE  DirFits'
<1>1. CASE Start \/ Respawn
  <2>1. pc' = "args" /\ UNCHANGED <<cc, saved>> /\ \A g \in Gen : cc[g] # "running"
    BY <1>1, NoneRuns DEF Start, Respawn, Begin, claude
  <2>2. params'.kind = "fork" => params'.id \in Conv /\ saved[params'.id] # None
    BY <1>1 DEF Start, Respawn, Begin
  <2> QED
    BY <2>1, <2>2 DEF DirFits
<1>2. CASE BuildArgs
  <2>1. pc' = "exec" /\ UNCHANGED <<params, cc, saved>> /\ \A g \in Gen : cc[g] # "running"
    BY <1>2, NoneRuns DEF BuildArgs, claude, OneAlive
  <2>2. PICK named \in Opt(Dir) :
          /\ args' = [cont |-> Continue(params), id |-> params.id, model |-> kept.model,
                      effort |-> kept.effort, settings |-> kept.settings,
                      mode |-> ModeFlag(kept.mode), dir |-> Given(named, kept.dir),
                      found |-> named # None]
          /\ named # None => Continue(params) \in {"resume", "fork"} /\ named = saved[params.id]
    BY <1>2, NamedDir
  <2>3. params.kind = "fork" => params.id \in Conv /\ saved[params.id] # None
    BY <1>2 DEF BuildArgs, DirFits
  <2>4. /\ args'.cont = Continue(params) /\ args'.id = params.id
        /\ args'.dir = Given(named, kept.dir) /\ (args'.found <=> named # None)
    BY <2>2
  <2>5. /\ Continue(params) # "fresh" => params.id \in Conv
        /\ Continue(params) = "fork" => saved[params.id] # None
        /\ Continue(params) = "session-id" => saved[params.id] = None
    BY <2>3 DEF Continue
  <2>6. args'.found => /\ args'.cont \in {"resume", "fork"}
                       /\ saved[args'.id] # None /\ saved[args'.id] = args'.dir
    BY <2>2, <2>4 DEF Given
  <2> QED
    BY <2>1, <2>3, <2>4, <2>5, <2>6 DEF DirFits, Fits, Finds
<1>3. CASE SpawnFails \/ SendMessage
  BY <1>3 DEF SpawnFails, SendMessage, Writes, harness, claude, DirFits, Fits, Finds
<1>4. ASSUME NEW g \in Gen, Spawn(g)
      PROVE  DirFits'
  <2>1. /\ pc = "exec" /\ pc' = "idle" /\ cc' = [cc EXCEPT ![g] = "running"]
        /\ flags' = [flags EXCEPT ![g] = args] /\ saved' = saved
        /\ args.cont = "session-id" => conv' = [conv EXCEPT ![g] = args.id]
    BY <1>4 DEF Spawn
  <2>2. \A k \in Gen : cc[k] # "running"
    BY <2>1, NoneRuns DEF OneAlive
  <2>3. Fits(args) /\ (args.cont = "session-id" => saved[args.id] = None)
    BY <2>1 DEF DirFits
  <2>4. \A k \in Gen : cc'[k] = "running" => k = g
    BY <2>1, <2>2 DEF TypeOK
  <2>5. flags'[g] = args /\ (args.cont = "session-id" => conv'[g] = args.id)
    BY <2>1 DEF TypeOK
  <2> QED
    BY <2>1, <2>3, <2>4, <2>5 DEF DirFits, Fits, Finds
<1>5. ASSUME NEW j \in Job, Async(j)
      PROVE  DirFits'
  BY <1>5, RequestKeeps DEF DirFits, Fits, Finds
<1>6. ASSUME NEW g \in Gen, Reads(g)
      PROVE  DirFits'
  <2>1. /\ UNCHANGED <<pc, params, args, cc, flags, conv>> /\ cc[g] = "running"
        /\ \/ saved' = saved
           \/ saved' = [saved EXCEPT ![conv[g]] = Given(@, flags[g].dir)]
    BY <1>6 DEF Reads, harness
  <2>2. pc = "idle" /\ \A k \in Gen : cc[k] = "running" => k = g
    <3>1. g # NoGen
      BY ConfigAssumption DEF Gen, NoGen
    <3> QED
      BY <2>1, <3>1 DEF OneAlive, Alive
  <2>3. \A c \in Conv : /\ saved[c] # None => saved'[c] = saved[c]
                        /\ saved'[c] # saved[c] => c = conv[g] /\ saved'[c] = flags[g].dir
    BY <2>1 DEF TypeOK, Given
  <2>4. /\ Fits(flags[g])
        /\ flags[g].cont = "session-id" =>
             conv[g] = flags[g].id /\ saved[flags[g].id] \in {None, flags[g].dir}
    BY <2>1 DEF DirFits
  <2>5. /\ flags[g].cont # "fresh" => flags[g].id \in Conv
        /\ flags[g].cont = "fork" => saved'[flags[g].id] # None
        /\ flags[g].found /\ flags[g].cont \in {"resume", "fork"} =>
             saved'[flags[g].id] # None /\ saved'[flags[g].id] = flags[g].dir
    <3>1. /\ flags[g].cont # "fresh" => flags[g].id \in Conv
          /\ flags[g].cont = "fork" => saved[flags[g].id] # None
          /\ flags[g].found /\ flags[g].cont \in {"resume", "fork"} =>
               saved[flags[g].id] # None /\ saved[flags[g].id] = flags[g].dir
      BY <2>4 DEF Fits, Finds
    <3> QED
      BY <2>3, <3>1
  <2>6. flags[g].cont = "session-id" => saved'[flags[g].id] \in {None, flags[g].dir}
    BY <2>3, <2>4, <2>5
  <2> QED
    BY <2>1, <2>2, <2>4, <2>5, <2>6 DEF DirFits, Fits, Finds
<1>7. ASSUME NEW g \in Gen, Dying(g) \/ Exits(g)
      PROVE  DirFits'
  <2>1. /\ UNCHANGED <<pc, params, args, conv, saved>>
        /\ \A k \in Gen : cc'[k] = "running" => cc[k] = "running" /\ flags'[k] = flags[k]
    BY <1>7 DEF Dying, Exits, harness, TypeOK
  <2> QED
    BY <2>1 DEF DirFits, Fits, Finds
<1>8. ASSUME NEW g \in Gen, ReadInit(g) \/ reportedEffort(g)
      PROVE  DirFits'
  BY <1>8 DEF ReadInit, reportedEffort, harness, DirFits, Fits, Finds
<1> QED
  BY <1>1, <1>2, <1>3, <1>4, <1>5, <1>6, <1>7, <1>8 DEF Next, Dispatcher, Process

-----------------------------------------------------------------------------
(* The effort.                                                             *)

\* The frames a step of a process writes or reads.
LEMMA FramesMove ==
  ASSUME TypeOK, NEW g \in Gen, Process(g)
  PROVE  /\ \A k \in Gen \ {g} : stdout'[k] = stdout[k]
         /\ \/ stdout' = stdout
            \/ cc[g] = "running" /\ \E f \in Frame :
                 /\ stdout'[g] = Append(stdout[g], f)
                 /\ f.type = "init" => \A k \in 1..(g - 1) : stdout[k] = <<>>
            \/ stdout[g] # <<>> /\ stdout'[g] = Tail(stdout[g])
<1>1. stdout \in [Gen -> Seq(Frame)] /\ live \in [Gen -> Level]
  BY DEF TypeOK
<1>2. CASE Reads(g)
  <2>1. /\ [type |-> "settings", effort |-> live[g]] \in Frame
        /\ [type |-> "init", effort |-> None] \in Frame
    BY <1>1 DEF Frame
  <2>2. \/ stdout' = stdout
        \/ stdout' = [stdout EXCEPT ![g] = Append(@, [type |-> "settings", effort |-> live[g]])]
        \/ /\ stdout' = [stdout EXCEPT ![g] = Append(@, [type |-> "init", effort |-> None])]
           /\ \A k \in 1..(g - 1) : stdout[k] = <<>>
    BY <1>2 DEF Reads
  <2>3. cc[g] = "running"
    BY <1>2 DEF Reads
  <2>4. CASE stdout' = stdout
    BY <2>4
  <2>5. CASE stdout' = [stdout EXCEPT ![g] = Append(@, [type |-> "settings", effort |-> live[g]])]
    <3>1. stdout'[g] = Append(stdout[g], [type |-> "settings", effort |-> live[g]])
      BY <1>1, <2>5
    <3>2. [type |-> "settings", effort |-> live[g]].type # "init"
      OBVIOUS
    <3> QED
      BY <1>1, <2>1, <2>3, <2>5, <3>1, <3>2
  <2>6. CASE /\ stdout' = [stdout EXCEPT ![g] = Append(@, [type |-> "init", effort |-> None])]
             /\ \A k \in 1..(g - 1) : stdout[k] = <<>>
    <3>1. stdout'[g] = Append(stdout[g], [type |-> "init", effort |-> None])
      BY <1>1, <2>6
    <3> QED
      BY <1>1, <2>1, <2>3, <2>6, <3>1
  <2> QED
    BY <2>2, <2>4, <2>5, <2>6
<1>3. CASE Dying(g) \/ Exits(g)
  BY <1>3 DEF Dying, Exits
<1>4. CASE ReadInit(g) \/ reportedEffort(g)
  BY <1>1, <1>4 DEF ReadInit, reportedEffort
<1> QED
  BY <1>2, <1>3, <1>4 DEF Process

\* An init is written and read after the frames of the processes before.
LEMMA DrainedKept ==
  ASSUME TypeOK, OneAlive, Drained, Next
  PROVE  Drained'
<1>0. Gen \subseteq Nat /\ (\A g \in Gen : 1..(g - 1) \subseteq Gen) /\ NoGen \notin Gen
  BY ConfigAssumption DEF Gen, NoGen
<1>1. CASE UNCHANGED <<stdout, info>>
  BY <1>1 DEF Drained
<1>2. ASSUME NEW g \in Gen, Process(g)
      PROVE  Drained'
  <2>1. /\ \A k \in Gen \ {g} : stdout'[k] = stdout[k]
        /\ \/ stdout' = stdout
           \/ cc[g] = "running" /\ \E f \in Frame :
                /\ stdout'[g] = Append(stdout[g], f)
                /\ f.type = "init" => \A k \in 1..(g - 1) : stdout[k] = <<>>
           \/ stdout[g] # <<>> /\ stdout'[g] = Tail(stdout[g])
    BY <1>2, FramesMove
  <2>2. stdout \in [Gen -> Seq(Frame)]
    BY DEF TypeOK
  <2>3. info'.gen = info.gen \/ (info'.gen = g /\ InitDue(stdout[g]))
    BY <1>2, <2>2, FrameRead DEF Process, Reads, Dying, Exits, ReadInit, reportedEffort, TypeOK
  <2>4. cc[g] = "running" =>
          /\ \A k \in Gen : k > g => stdout[k] = <<>>
          /\ info.gen # NoGen => info.gen <= g
    <3>1. cc[g] = "running" => proc = g
      BY DEF OneAlive
    <3>2. info.gen \in Gen \cup {NoGen}
      BY DEF TypeOK
    <3>3. \A k \in Gen : cc[g] = "running" /\ k > g => stdout[k] = <<>> /\ info.gen # k
      BY <3>1 DEF OneAlive
    <3>4. cc[g] = "running" /\ info.gen \in Gen => ~(info.gen > g)
      BY <3>3
    <3>5. info.gen # NoGen => info.gen \in Gen /\ info.gen \in Nat /\ g \in Nat
      BY <1>0, <3>2
    <3>6. cc[g] = "running" /\ info.gen # NoGen => info.gen <= g
      BY <3>4, <3>5
    <3> QED
      BY <3>3, <3>6
  <2>5. ASSUME NEW h \in Gen, InitDue(stdout'[h])
        PROVE  /\ \A k \in 1..(h - 1) : stdout[k] = <<>>
               /\ cc[g] = "running" => h <= g
    <3>1. InitDue(stdout[h]) \/ (h = g /\ \A k \in 1..(g - 1) : stdout[k] = <<>>)
      <4>1. CASE stdout'[h] = stdout[h]
        BY <2>5, <4>1
      <4>2. ASSUME h = g, NEW f \in Frame, stdout'[g] = Append(stdout[g], f),
                   f.type = "init" => \A k \in 1..(g - 1) : stdout[k] = <<>>
            PROVE  InitDue(stdout[h]) \/ (h = g /\ \A k \in 1..(g - 1) : stdout[k] = <<>>)
        <5>1. InitDue(stdout[g]) \/ f.type = "init"
          BY <2>2, <2>5, <4>2, FrameWritten
        <5> QED
          BY <4>2, <5>1
      <4>3. CASE h = g /\ stdout[g] # <<>> /\ stdout'[g] = Tail(stdout[g])
        BY <2>2, <2>5, <4>3, FrameRead
      <4> QED
        BY <2>1, <4>1, <4>2, <4>3
    <3>2. ~InitDue(<<>>)
      BY DEF InitDue
    <3>3. cc[g] = "running" => h <= g
      BY <1>0, <2>4, <3>1, <3>2
    <3> QED
      BY <3>1, <3>3 DEF Drained
  <2>6. ASSUME NEW h \in Gen, \A k \in 1..(h - 1) : stdout[k] = <<>>, cc[g] = "running" => h <= g
        PROVE  \A k \in 1..(h - 1) : stdout'[k] = <<>>
    BY <1>0, <2>1, <2>2, <2>6
  <2>7. info'.gen # NoGen => /\ \A k \in 1..(info'.gen - 1) : stdout[k] = <<>>
                             /\ cc[g] = "running" => info'.gen <= g
    <3>1. CASE info'.gen = info.gen
      BY <2>4, <3>1 DEF Drained
    <3>2. CASE info'.gen = g /\ InitDue(stdout[g])
      BY <1>0, <3>2 DEF Drained
    <3> QED
      BY <2>3, <3>1, <3>2
  <2>8. info'.gen \in Gen \cup {NoGen}
    BY <2>3 DEF TypeOK
  <2>9. info'.gen # NoGen => \A k \in 1..(info'.gen - 1) : stdout'[k] = <<>>
    BY <2>6, <2>7, <2>8
  <2>10. \A h \in Gen : InitDue(stdout'[h]) => \A k \in 1..(h - 1) : stdout'[k] = <<>>
    BY <2>5, <2>6
  <2> QED
    BY <2>9, <2>10 DEF Drained
<1> QED
  BY <1>1, <1>2
  DEF Next, Dispatcher, Async, Start, Respawn, Begin, BuildArgs, SpawnFails, SendMessage, Spawn,
      Request, handleControl, WriteControl, Record, Recorded, requestReportedEffort, Writes,
      harness, claude

\* A process dead or a request that asks leaves no report to be kept,
LEMMA ReportOf ==
  ASSUME WillAsk' \/ info'.gen # proc' \/ ~(proc' # NoGen /\ cc'[proc'] = "running")
  PROVE  ReportDue'
BY DEF ReportDue

\* ... and a step that leaves requests, lines and levels alone leaves it due.
LEMMA ReportStays ==
  ASSUME ReportDue, UNCHANGED <<proc, stdout, stdin, live, info>>,
         WillAsk => WillAsk',
         \A g \in Gen : cc'[g] = "running" => cc[g] = "running",
         proc \in Gen \cup {NoGen}
  PROVE  ReportDue'
BY DEF ReportDue

\* The effort shown stays the process's, or the report of it due.
LEMMA ReportKept ==
  ASSUME TypeOK, OneAlive, HasChange, Drained, ReportDue, Next
  PROVE  ReportDue'
<1>0. /\ stdin \in [Gen -> Seq(Control)] /\ stdout \in [Gen -> Seq(Frame)]
      /\ live \in [Gen -> Level] /\ job \in [Job -> Work]
      /\ cc \in [Gen -> {"none", "running", "dying", "exited"}]
      /\ proc \in Gen \cup {NoGen} /\ info.gen \in Gen \cup {NoGen} /\ NoGen \notin Gen
  BY ConfigAssumption DEF TypeOK, Work, Gen, NoGen
<1>a. Message \in Control /\ Get \in Control /\ ~Changes(Message) /\ ~Changes(Get)
  BY DEF Message, Get, Control, Changes
<1>1. CASE Start \/ Respawn \/ BuildArgs \/ SpawnFails
  <2>1. UNCHANGED <<proc, cc, stdout, stdin, live, info, job>>
    BY <1>1 DEF Start, Respawn, Begin, BuildArgs, SpawnFails, claude
  <2> QED
    BY <1>0, <2>1, ReportStays DEF WillAsk
<1>2. CASE SendMessage
  <2>1. /\ UNCHANGED <<proc, stdout, live, info, cc, job>>
        /\ \/ stdin' = stdin
           \/ proc \in Gen /\ stdin' = [stdin EXCEPT ![proc] = Append(@, Message)]
    BY <1>0, <1>2 DEF SendMessage, Writes, harness, Alive
  <2>2. proc \in Gen => /\ Still(stdin[proc]) => Still(stdin'[proc])
                        /\ Asked(stdin[proc]) => Asked(stdin'[proc])
    <3>1. CASE proc \in Gen /\ stdin'[proc] = Append(stdin[proc], Message)
      <4>1. stdin[proc] \in Seq(Control)
        BY <1>0, <3>1
      <4> QED
        BY <1>a, <3>1, <4>1, LineWritten
    <3>2. CASE stdin' = stdin
      BY <3>2
    <3> QED
      BY <1>0, <2>1, <3>1, <3>2
  <2> QED
    BY <1>0, <2>1, <2>2 DEF ReportDue, WillAsk
<1>3. ASSUME NEW g \in Gen, Spawn(g)
      PROVE  ReportDue'
  <2>1. proc' = g /\ info' = info /\ cc[g] = "none"
    BY <1>3 DEF Spawn
  <2> QED
    BY <2>1, ReportOf DEF OneAlive
<1>4. ASSUME NEW j \in Job, Request(j) \/ handleControl(j)
      PROVE  ReportDue'
  <2>1. UNCHANGED <<proc, cc, stdout, stdin, live, info>>
    BY <1>4 DEF Request, handleControl, harness, claude
  <2>2. job[j].pc \in {"none", "check"} /\ \A k \in Job \ {j} : job'[k] = job[k]
    BY <1>0, <1>4 DEF Request, handleControl
  <2> QED
    BY <1>0, <2>1, <2>2, ReportStays DEF WillAsk
<1>5. ASSUME NEW j \in Job, WriteControl(j)
      PROVE  ReportDue'
  <2>1. PICK ok \in BOOLEAN :
          /\ Writes(proc, Head(job[j].todo), ok)
          /\ job' = [job EXCEPT ![j] = IF ok THEN [@ EXCEPT !.pc = "record"] ELSE NoJob]
    BY <1>5 DEF WriteControl
  <2>2. proc' = proc /\ cc' = cc
    BY <1>5, <2>1 DEF WriteControl, Writes, harness
  <2>3. CASE ok
    <3>1. job'[j].pc = "record"
      BY <1>0, <2>1, <2>3 DEF Work
    <3> QED
      BY <3>1, ReportOf DEF WillAsk
  <2>4. CASE ~ok
    BY <2>1, <2>2, <2>4, <1>0, <1>5, ReportOf, ReportStays DEF Writes
  <2> QED
    BY <2>3, <2>4
<1>6. ASSUME NEW j \in Job, Record(j) \/ Recorded(j)
      PROVE  ReportDue'
  <2>1. job'[j].pc \in {"recorded", "ask"}
    <3>1. CASE Record(j)
      BY <1>0, <3>1 DEF Record, Work
    <3>2. CASE Recorded(j)
      BY <1>0, <3>2 DEF Recorded, Work
    <3> QED
      BY <1>6, <3>1, <3>2
  <2> QED
    BY <2>1, ReportOf DEF WillAsk
<1>7. ASSUME NEW j \in Job, requestReportedEffort(j)
      PROVE  ReportDue'
  <2>1. /\ UNCHANGED <<proc, cc, info>>
        /\ cc[proc] = "running" => stdin' = [stdin EXCEPT ![proc] = Append(@, Get)]
    BY <1>7 DEF requestReportedEffort, Writes, harness
  <2>2. CASE proc \in Gen /\ cc[proc] = "running"
    <3>1. stdin'[proc] = Append(stdin[proc], Get)
      BY <1>0, <2>1, <2>2
    <3>2. Asked(stdin'[proc])
      BY <1>0, <1>a, <2>2, <3>1, LineWritten
    <3> QED
      BY <2>1, <3>2 DEF ReportDue
  <2>3. CASE ~(proc \in Gen /\ cc[proc] = "running")
    BY <1>0, <2>1, <2>3, ReportOf
  <2> QED
    BY <2>2, <2>3
<1>8. ASSUME NEW g \in Gen, Reads(g)
      PROVE  ReportDue'
  <2> DEFINE c == Head(stdin[g])
  <2>1. /\ UNCHANGED <<proc, cc, info, job>> /\ proc = g /\ stdin[g] # <<>>
        /\ stdin'[g] = Tail(stdin[g])
    BY <1>0, <1>8 DEF Reads, harness, OneAlive
  <2>2. WillAsk => WillAsk'
    BY <2>1 DEF WillAsk
  <2>3. CASE Changes(c) /\ UNCHANGED stdout
    <3>1. ~Still(stdin[g]) /\ (Asked(stdin[g]) => Asked(stdin'[g]))
      BY <1>0, <1>a, <2>1, <2>3, LineRead
    <3> QED
      BY <2>1, <2>2, <2>3, <3>1 DEF ReportDue
  <2>4. CASE /\ c.what = "get" /\ UNCHANGED live
             /\ stdout' = [stdout EXCEPT ![g] = Append(@, [type |-> "settings", effort |-> live[g]])]
    <3>1. [type |-> "settings", effort |-> live[g]] \in Frame
      BY <1>0 DEF Frame
    <3>2. stdout'[g] = Append(stdout[g], [type |-> "settings", effort |-> live[g]])
      BY <1>0, <2>4
    <3>3. Answer(stdout'[g], live[g]) /\ (InitDue(stdout[g]) => InitDue(stdout'[g]))
      <4>1. stdout[g] \in Seq(Frame)
        BY <1>0
      <4>2. /\ [type |-> "settings", effort |-> live[g]].type = "settings"
            /\ [type |-> "settings", effort |-> live[g]].effort = live[g]
        OBVIOUS
      <4> QED
        BY <3>1, <3>2, <4>1, <4>2, FrameWritten
    <3>4. /\ Still(stdin[g]) => Still(stdin'[g])
          /\ Asked(stdin[g]) => Asked(stdin'[g]) \/ Still(stdin'[g])
      BY <1>0, <2>1, LineRead
    <3> QED
      BY <2>1, <2>2, <2>4, <3>3, <3>4 DEF ReportDue
  <2>5. CASE stdout' = [stdout EXCEPT ![g] = Append(@, [type |-> "init", effort |-> None])]
    <3>1. [type |-> "init", effort |-> None] \in Frame /\ stdout[g] \in Seq(Frame)
      BY <1>0 DEF Frame
    <3>2. stdout'[g] = Append(stdout[g], [type |-> "init", effort |-> None])
      BY <1>0, <2>5
    <3>3. InitDue(stdout'[g])
      BY <3>1, <3>2, FrameWritten
    <3> QED
      BY <2>1, <3>3 DEF ReportDue
  <2> QED
    BY <1>8, <2>3, <2>4, <2>5 DEF Reads, Changes
<1>9. ASSUME NEW g \in Gen, Dying(g) \/ Exits(g)
      PROVE  ReportDue'
  <2>1. proc' = proc /\ cc'[g] # "running" /\ g = proc
    BY <1>0, <1>9 DEF Dying, Exits, harness, OneAlive
  <2> QED
    BY <2>1, ReportOf
<1>10. ASSUME NEW g \in Gen, ReadInit(g)
       PROVE  ReportDue'
  <2>1. /\ UNCHANGED <<proc, cc>> /\ info'.gen = g
        /\ cc[g] = "running" => stdin'[g] = Append(stdin[g], Get)
    BY <1>0, <1>10 DEF ReadInit
  <2>2. cc[g] = "running" => Asked(stdin'[g])
    <3>1. stdin[g] \in Seq(Control)
      BY <1>0
    <3> QED
      BY <1>a, <2>1, <3>1, LineWritten
  <2> QED
    BY <2>1, <2>2 DEF ReportDue
<1>11. ASSUME NEW g \in Gen, reportedEffort(g)
       PROVE  ReportDue'
  <2>1. /\ UNCHANGED <<proc, cc, stdin, live, job>> /\ info'.gen = info.gen
        /\ info.gen # NoGen => info'.effort = Head(stdout[g]).effort
        /\ stdout[g] # <<>> /\ Head(stdout[g]).type = "settings"
        /\ stdout'[g] = Tail(stdout[g])
    BY <1>0, <1>11 DEF reportedEffort, harness, TypeOK
  <2>2. info.gen # NoGen /\ info.gen = proc => g = proc
    <3>1. \A k \in Gen : k > proc => stdout[k] = <<>>
      BY DEF OneAlive
    <3>2. info.gen # NoGen => \A k \in 1..(info.gen - 1) : stdout[k] = <<>>
      BY DEF Drained
    <3>3. info.gen # NoGen /\ info.gen = proc => ~(g > proc) /\ ~(g \in 1..(proc - 1))
      BY <2>1, <3>1, <3>2
    <3> QED
      BY <1>0, <3>3, ConfigAssumption DEF Gen
  <2>3. /\ InitDue(stdout[g]) => InitDue(stdout'[g])
        /\ ~NoAnswer(stdout[g])
        /\ \A l : Answer(stdout[g], l) => Answer(stdout'[g], l)
                    \/ (Head(stdout[g]).effort = l /\ NoAnswer(stdout'[g]))
    BY <1>0, <2>1, FrameRead
  <2>4. WillAsk => WillAsk'
    BY <2>1 DEF WillAsk
  <2>5. CASE g = proc /\ info.gen # NoGen
    BY <2>1, <2>3, <2>4, <2>5 DEF ReportDue
  <2>6. CASE ~(g = proc /\ info.gen # NoGen)
    BY <1>0, <2>1, <2>2, <2>6, ReportOf
  <2> QED
    BY <2>5, <2>6
<1> QED
  BY <1>1, <1>2, <1>3, <1>4, <1>5, <1>6, <1>7, <1>8, <1>9, <1>10, <1>11
  DEF Next, Dispatcher, Async, Process

-----------------------------------------------------------------------------
(* The invariant holds.                                                    *)

\* Nothing is given, started or asked at first.
LEMMA InitConfig == ASSUME Init PROVE ConfigInv
<1>0. Gen \subseteq Nat /\ NoGen \notin Gen
  BY ConfigAssumption DEF Gen, NoGen
<1>1. TypeOK
  <2>1. <<>> \in Seq(Control) /\ <<>> \in Seq(Frame) /\ <<>> \in Seq(Change)
    OBVIOUS
  <2>2. NoParams \in Params /\ NoArgs \in Args /\ NoLevel \in Level
    BY DEF NoParams, NoArgs, NoLevel, Params, Args, Level, Id, Opt, ModelId, EffortId
  <2>3. NoJob \in [pc : {"none", "check", "write", "record", "recorded", "ask"},
                   todo : Seq(Change), met : BOOLEAN]
    BY <2>1 DEF NoJob
  <2>4. kept \in Kept /\ asked \in [settings : Opt(Settings), mode : Opt(Mode), model : ModelId]
    BY DEF Init, Kept, Opt, ModelId, EffortId
  <2>5. starts \in 0..MaxStarts /\ requests \in 0..MaxRequests
    BY ConfigAssumption DEF Init
  <2> QED
    BY <2>1, <2>2, <2>3, <2>4, <2>5 DEF Init, TypeOK, Id, Opt, NoInfo, NoGen
<1>2. OneAlive
  BY <1>0 DEF Init, OneAlive, Alive, NoInfo
<1>3. HasChange /\ ModelKept
  BY DEF Init, HasChange, ModelKept, NoJob
<1>4. GateKept /\ DirFits
  BY DEF Init, GateKept, DirFits, Alive, NoGen
<1>5. Drained /\ ReportDue
  <2>1. ~InitDue(<<>>)
    BY DEF InitDue
  <2> QED
    BY <2>1 DEF Init, Drained, ReportDue, NoInfo
<1> QED
  BY <1>1, <1>2, <1>3, <1>4, <1>5 DEF ConfigInv

\* Every step keeps it.
LEMMA NextConfig == ASSUME ConfigInv, [Next]_vars PROVE ConfigInv'
<1>1. CASE Next
  BY <1>1, TypesKept, OneAliveKept, HasChangeKept, GateIsKept, ModelIsKept, DirKept, DrainedKept,
     ReportKept DEF ConfigInv
<1>2. CASE UNCHANGED vars
  <2>1. TypeOK'
    BY <1>2 DEF ConfigInv, TypeOK, vars, harness, claude, bounds
  <2>2. OneAlive' /\ HasChange' /\ GateKept' /\ ModelKept' /\ DirFits'
    BY <1>2 DEF ConfigInv, OneAlive, HasChange, GateKept, ModelKept, DirFits, Alive, Recording,
                Fits, Finds, vars, harness, claude, bounds
  <2>3. Drained' /\ ReportDue'
    BY <1>2 DEF ConfigInv, Drained, ReportDue, WillAsk, vars, harness, claude, bounds
  <2> QED
    BY <2>1, <2>2, <2>3 DEF ConfigInv
<1> QED
  BY <1>1, <1>2

\* From the start on.
LEMMA ConfigAlways == Spec => []ConfigInv
<1>1. Init => ConfigInv
  BY InitConfig
<1>2. ConfigInv /\ [Next]_vars => ConfigInv'
  BY NextConfig
<1> QED
  BY <1>1, <1>2, PTL DEF Spec

-----------------------------------------------------------------------------
(* What it gives.                                                          *)

\* Fields, command lines, pipes, transcripts and requests stay of their types.
THEOREM ConfigTypes == Spec => []TypeOK
<1>1. ConfigInv => TypeOK
  BY DEF ConfigInv
<1> QED
  BY <1>1, ConfigAlways, PTL

\* Whichever of start, message or resume spawned it, the live process has the
\* hook settings and the permission mode the server gave last (buildClaudeArgs,
\* handleMessage, handleResume).
THEOREM GateOutlivesRespawns == Spec => []GateSurvives
<1>1. ConfigInv => GateSurvives
  BY DEF ConfigInv, GateKept, GateSurvives
<1> QED
  BY <1>1, ConfigAlways, PTL

\* A command line built while no goroutine writes a field has the model recorded
\* last by a start or by set_model (handleSetModel, buildClaudeArgs).
THEOREM ModelOutlivesRespawns == Spec => ModelSurvives
<1>1. ASSUME ConfigInv, [Next]_vars, pc = "args", pc' = "exec", \A j \in Job : job[j].pc # "recorded"
      PROVE  args'.model = asked.model
  <2>1. BuildArgs
    BY <1>1 DEF Next, Dispatcher, Async, Process, Start, Respawn, Begin, SpawnFails, SendMessage,
                Spawn, Request, handleControl, WriteControl, Record, Recorded,
                requestReportedEffort, Reads, Dying, Exits, ReadInit, reportedEffort, harness, vars
  <2>2. kept.model = asked.model
    BY <1>1 DEF ConfigInv, ModelKept, Recording
  <2> QED
    BY <2>1, <2>2 DEF BuildArgs
<1>2. ConfigInv /\ [Next]_vars =>
        [pc = "args" /\ pc' = "exec" /\ (\A j \in Job : job[j].pc # "recorded")
           => args'.model = asked.model]_vars
  BY <1>1
<1> QED
  BY <1>2, ConfigAlways, PTL DEF Spec, ModelSurvives

\* A live process whose transcript named a directory runs where it is kept, so that
\* Claude Code finds the conversation, and starts under an id only a conversation
\* that has none elsewhere (transcriptWorkingDir).
THEOREM ConversationIsFound == Spec => []FindsConversation
<1>1. ConfigInv => FindsConversation
  BY DEF ConfigInv, DirFits, Fits, FindsConversation
<1> QED
  BY <1>1, ConfigAlways, PTL

\* Once all pipes are read, the session info names the effort level the live
\* process resolved (requestReportedEffort, handleReportedEffort).
THEOREM EffortIsReported == Spec => []EffortReported
<1>1. ASSUME ConfigInv, Quiet, info.gen = proc
      PROVE  info.effort = live[proc]
  <2>1. /\ proc \in Gen /\ proc # NoGen /\ cc[proc] = "running" /\ stdin[proc] = <<>>
        /\ stdout[proc] = <<>> /\ ~WillAsk
    BY <1>1 DEF ConfigInv, TypeOK, Quiet, WillAsk, NoJob
  <2>2. ~InitDue(<<>>) /\ ~Asked(<<>>) /\ \A l : ~Answer(<<>>, l)
    BY DEF InitDue, Asked, Answer
  <2> QED
    BY <1>1, <2>1, <2>2 DEF ConfigInv, ReportDue
<1>2. ConfigInv => EffortReported
  BY <1>1 DEF EffortReported
<1> QED
  BY <1>2, ConfigAlways, PTL
=============================================================================
