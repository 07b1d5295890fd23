# Specifications of llm-bridge-claudecode

`llm-bridge-claudecode` is a *harness*: one process per chat session, between
`llm-bridge-server` (JSON-RPC requests on stdin, NDJSON events on stdout) and a
long-lived `claude` child process. This directory models the parts of it whose
correctness depends on the order of things: goroutines, processes, crashes, a
database shared by all harnesses, figures and frames that arrive late or in an
order nobody chose.

    tlc -workers 2 -config ChainOneHarness.cfg MCSessionChain.tla
    tlapm SessionChainProofs.tla

## The system

| Component | State | Operations | Hard part |
|---|---|---|---|
| Dispatcher (`main.go`) | request loop, signal goroutine | one synchronous request at a time; `set_model`, `control`, `config:` on goroutines of their own; SIGINT, SIGTERM, end of stdin | a request blocks the loop for a whole turn |
| Turn loop (`handler.go`) | `proc`, `turnWaiter`, `killedByWatchdog`, last activity | `handleStart`, `handleMessage`, `handleCompact`, `handleResume`, `readStreamJSON`, `awaitTurnEnd`, `handleProcessExit`, `Interrupt`, `Shutdown` | dispatcher, one reader per spawned process, watchdog, exit goroutine |
| Claude Code process (`process.go`) | pipes, `done`, exit error | spawn, write, event channel, terminate, kill | end of stdout, exit and `done` are three events |
| Chain persistence (`state.go`, `handler.go`) | tables `sessions`, `rollouts`, `wal`; the staged rotation in memory | stage, commit on init, orphan on failure, recover on boot | no transaction, crashes, several harnesses on one file |
| Assistant text recovery (`handler.go`) | `deliveredText`, `deliveredBefore`, `pendingOTel` | `emit`, `beginTurn`, `flushRecoveredAssistant` | two copies of each text, one late, either may be missing |
| OTel receiver (`otel.go`) | HTTP server per spawned process | translate log records into events | torn down two seconds after the process |
| Event translation, identity (`translate.go`, `identity_store.go`) | usage aggregator, id tracker | one frame to events | mostly data |
| Usage and cost (`usage.go`) | cumulative cost, calls of the turn | per-turn cost from a cumulative figure | process restarts, turns that fail, die or have no price |
| Finished-task waiters (`finished_task_waiters.go`) | running foreground commands, unanswered tool calls | stop commands that wait for a finished task | frame order, stops in flight |
| Session configuration (`handler.go`, `reported_effort.go`) | model, effort, permission mode | live controls, respawn flags | concurrent with respawn |
| Resume resolution (`transcript.go`, `handler.go`) | — | which flags and directory a respawn gets | permission gate must survive |
| Discovery, import (`discover.go`, `import_history.go`) | the known set of one walk | cold import of transcripts into `state.db` | races with live writers, killed half-way |
| Rollout tailer, sidecar (`rollout.go`, `sidecar.go`) | file position, half a line | follow a PTY session's transcript | partial lines, file choice, lost posts, end of the sidecar |
| PTY launch, one-shot, config, scripts | — | sequential | — |

What makes each correct:

* *Chain*: a log row is settled once, by one party; a start or fork is in a
  session's chain only behind the row that committed it; a rotation that never
  happened does not stay pending; nothing is recorded twice.
* *Turn loop*: a request always returns; it returns because its own turn ended
  or its process is gone; one live process per session; every death and every
  stall is reported once; every message is answered or its failure is visible;
  signals are obeyed.
* *Recovery*: no text is shown twice, none is lost.
* *Configuration*: whatever respawned it, the process has the permission gate
  and the model last chosen, runs where its conversation is kept, and the
  session info shows the effort it really uses.
* *Cost*: no figure is charged twice; a result lists its own turn's calls.
* *Waiters*: only a command that watches a finished task is stopped, once, and
  every such command is; every task is over for the bridge when it is over.
* *Discovery*: every transcript is recorded in the end, once, under the session
  it belongs to; nothing a harness has recorded since is undone.
* *Tailer*: every line becomes events, in order and once; the session is idle
  when the transcript says the turn is over.

## Modules

### `SessionChain.tla` — the session chain

One harness slot per bridge session, all sharing the store. The tables are
`sessions`, `rollouts` and `wal` (`walRows` is the AUTOINCREMENT counter); the
harness's memory is the dispatcher's `pc`, `sid` (`h.sessionID`), `pend` (the
three `pending…` fields) and `cur` (`h.proc`); `child` and `reader` describe each
spawned process and the goroutine that reads it. Every SQL statement is one
step, in the code's order; what the code does after an error is a disjunct
guarded by `SqlError`.

| Actions | Code |
|---|---|
| `Boot`, `recoverOrphansOnBoot`, `BootDone` | `openStateAndRecover`, one `OrphanWAL` per step |
| `StartCold`, `StageCold`, `StartFork`, `StartResume`, `RespawnForMessage`, `handleResume` | the three stagings of `handleStart` and their callers |
| `Spawn`, `ReceiverFails`, `SpawnFails`, `Unstage` | the rest of `handleStart` |
| `StdoutEnds`, `ProcessExits` | the event channel's end and `done`, two events |
| `readInit`, `readSequence`, `commitRotation`, `insertRotation`, `upsertRotation` | `recordChainOnInit`, statement by statement |
| `handleProcessExit`, `orphanRotation` | the reader at the end of stdout |
| `Crash` | the harness dies, or shuts down, between any two steps |

`readInit` is one step for two critical sections of the reader (the session id and
the staged rotation): nothing between them reads what they write. Assumed of the
environment: `llm-bridge-server` runs one harness per bridge session, sends `start` first and only while no process is alive, and resumes with
the last id it was told (`known`). Requests use the current parameter names
(`BridgeSessionID`, `HarnessSessionID`).

### `RotationLog.tla` — what the store promises

The abstract specification: numbered rows, each settled at most once and
immutable after; a chain that only grows and in which starts and forks stand
only behind their committed row. `SessionChain` implements it under the mapping
`log <- wal`, `last <- walRows`, `chain <- Entry` (a rollout without its sequence
number), checked by `chain_one_harness` and proved as `Refinement`.

### `AssistantRecovery.tla` — recovery of dropped text

A text stands for a segment's normalized text. Claude Code `Say`s a segment: its
stdout frame may be dropped, its OTel copy travels separately and may arrive up
to `MaxLate` turn boundaries later (1 in the run: the exporter batches for
about a second and the code's comments name the next turn); a copy is lost only
when its process has ended. `EmitOTel`, `EmitText`, `FlushAtTurnEnd`,
`beginTurn`, `WatchdogFires` and `WatchdogAbandons` are the code's steps under
`turnMu`; `said`, `streamed`, `recovered` and `lost` count what happened.
`watchdog`, fixed in `Init`, says whether the idle watchdog is configured.
The shutdown path, which leaves without a flush, is not in this module. A respawn
is assumed to speak only after its predecessor's stdout was read: `handleStart`
does not wait for that, Claude Code takes about a second to start.

### `TurnLoop.tla` — requests, readers, watchdog, signals

Processes are numbered by spawn, so the reader of a dead process can meet the
request of its successor. `pc` walks the dispatcher through `idle`, `spawn`,
`arm` (`registerTurnWaiter`), `write`, `await`, `abandon` (the watchdog has
decided) and `stop`; `reader` walks each `readStreamJSON` through emitting a
result and then `signalTurnEnd`, or through the end of stdout,
`handleProcessExit` and its last `signalTurnEnd`. A process is `running`, `mute`
(stdout closed, `EarlyEOF`) or `dead`, and `done` is closed by a later step,
which may cut the frames not yet read (`cmd.Wait` closes the pipe).
A message written to a process that has been killed but is not yet dead is
accepted by the pipe; a write to a live one may wait for ever, when Claude Code reads
nothing and the pipe is full (`PipeFull`). An interrupt that a dead process's pipe
refuses falls back to a kill (`HandleInterrupt`). Claude Code works its messages off one by one; that it may
fold a message into a running turn is not modelled. Start and resume without a
prompt are one action: they differ in what `SessionChain` records.

### `Requests.tla` — what bridge-server is promised of its messages

The abstract specification: messages are given to processes one at a time and in
their order, each once and never to a process before the newest (`Ask`); a process's
answers come in the order of its messages and not after its death is reported
(`Answer`, `ReportDeath`); the wait for a message ends with its request's return, a
reported stall or a shutdown, and no answered message is reported as stalled
(`Return`, `Stall`, `Abandon`). It says nothing of pipes, readers, waiters or the
watchdog's clock. `TurnLoop` implements it under the mapping `to <- sentTo`,
`open <- cur` while the dispatcher is in `awaitTurnEnd` and none otherwise; the
rest has the same names. That a *returned* message has its answer is not
promised: that is `ReleasedForCause`, which the code's comments say and TLC refutes
(Departures). What holds of it is `OneReleasePerEnd`.

### `SessionConfig.tla` — configuration over respawns

`kept` is what the `Harness` keeps for a respawn (gate, model, effort, working
directory); `params` and `args` are the start in progress and the command line it
has built. A start is three steps, between which other goroutines run: `Begin`
(in `Start` and `Respawn`: fields and session id), `BuildArgs` (`Continue` picks
`--resume`, `--session-id`, `--fork-session` or none, `transcriptWorkingDir` the
directory) and `Spawn` or `SpawnFails`. A transcript may name no directory, because it
cannot be opened or its opening lines have none; the start then runs where it was asked
to. `override` is `SessionIDOverride`, with which a UUID without a transcript is
resumed all the same. `Finds` is Claude Code's rule: it continues a conversation only
from the directory it is kept in, and otherwise aborts (`Dying`). Each asynchronous request is a `job`: the liveness
check (`handleControl`), the write to whatever `h.proc` is by then
(`WriteControl`), the record in two steps (`Record`, `Recorded`: strings are two
words, and nothing locks them), the question for the effort
(`requestReportedEffort`). `Reads`, `Dying` and `Exits` are Claude Code, which
may refuse a change, loses what is written once it is dying, and may end after its init
frame and before it has saved a transcript;
`ReadInit` and `reportedEffort` are the reader. `asked` (what was last given or
recorded) and `found` (whether the transcript named the directory) are history.

Assumed: Claude Code answers `get_settings`, takes longer to start than the
readers of its predecessors need to drain, and keeps a conversation's transcript
in the directory of its first turn. As above the server sends `start` only
while no process is alive. Left out: flags only a start carries (prompts, tools,
budgets: a respawn runs without them), generic control requests.

### `TurnUsage.tla` — what a turn used and cost

`total` is Claude Code's `total_cost_usd`, which starts at zero with each process;
`calls` and `cumulativeCostUSD` are the `UsageAggregator`, one for the life of the
harness. `ReadCall` is `AddAPICall`; `ReadResult` is `translateResult`: `Finalize`,
`turnCost`, the event, `Reset`. Tokens are left out: a call stands for its own
usage, and `contextOf` is the call whose input is shown as the context size.
`spent`, `charged`, `forgone`, `seen` and `cut` are history. Assumed: the frames of
a process are read before its successor writes any (`handleStart` does not wait
for that; a new process takes about a second to start).

### `FinishedTaskWaiters.tla` — commands that wait for a finished task

Claude Code's jobs and commands run ahead of the frames on stdout (`out`), and
stop requests travel the other way (`stops`). `ReadUse`, `ReadResult`,
`ReadStarted`, `ReadUpdated` and `ReadNotice` are the cases of `observe` together
with what `translateSystem` makes of the same frame (`status`, through
`taskStatusOf`); `ReadNotice` sends the stops (`stopFinishedTaskWaiter`);
`ReadRefusal` is the logged refusal. A job's file name inside a command's text
is membership in `names`. `doomed` marks commands that watched a job when it
finished.

### `ColdImport.tla` — discovery beside running harnesses

The tables `sessions` and `rollouts`; of a harness only what touches them
(`StartCold` to `Upsert`: the statements of `handleStart` and
`recordChainOnInit`); transcripts on disk, which a harness's Claude Code or a
terminal writes; and a walk: `StartDiscover`, `WalkFile` (`-discover`) or
`StartChanged`, `Lookup`, `ImportChanged` (`-changed-since`), then
`coldImportRollout`'s second statement, or the refusal that ends the walk.
`EndWalk` prints, and bridge-server takes up sessions it has no id for. A walk
may be killed between any two statements. `disk` holds the transcripts a walk may
read: it skips what it may not, without an error. The instance has one walk at a
time. Left out: the metadata read for each session.

### `PtySidecar.tla` — the tailer of a terminal session

Two transcripts in one directory, the session's own and another one's; a line
reaches a file in one write or two. `Boot`, `Drain` and `Exit` are
`runOTelSidecar`; `LocateById`, `LocateNewest` and `GiveUp` the choice of a file;
`ReadLine` and `ReadToEnd` the two outcomes of `ReadBytes` in `tailRolloutFile`,
with `pending` the bytes kept; `Post` the emitter, whose failures are logged.
`session` is the state bridge-server derives from what arrives. Of the
three terminal stop reasons `end_turn` and `max_tokens` are in the model;
`stop_sequence` takes the same path.

### MC modules

Each instantiates its module for TLC. `MCSessionChain`, `MCAssistantRecovery`
and `MCSessionConfig` add the symmetry of their model values (used with
invariants and step properties only), the last also the flag combinations a start
may carry: a gate and a model, or nothing (`GateFlags`).

### Proof modules

Each of the eight modules that have state of their own has one, `<module>Proofs.tla`,
which extends it with the invariant, the lemmas and the theorems; see Proofs.
`RotationLog` and `Requests` are only refined.

## Runs that pass

| Run | Instance | Shows |
|---|---|---|
| `chain_one_harness` | 1 session, 1 UUID, 2 undrained processes, 3 log rows, any write may fail | types; `ClaimedOnce`: reader, second reader and spawn failure never hold the same pending row; `RotationLog`: the abstract log is implemented |
| `chain_shared_store` | 2 sessions on one store, 2 UUIDs, 1 process each, 2 log rows | `RolloutBacked`: a recorded start or fork rests on its committed row; `RecoveryLeavesNone`: a finished recovery has settled every row that was pending when it began; `OnlyBootsOrphan`: a rotation that stays staged loses its row only to another harness's boot |
| `recovery` | 2 texts, 3 segments, 3 turns, watchdog on or off, fairness | `SaidOnceShownOnce` (without the watchdog); `NothingLost`; `WedgedTurnSurfaces`: what is buffered for a turn someone waits for is flushed although Claude Code never speaks again |
| `turn_all` | 2 messages, 2 processes, 1 unprompted turn, fairness | `OneClaude`, `ClosedOnce` (a second close of a Go channel panics); `OneReleasePerEnd`: never more requests released than turns and processes ended; `AwaitEnds`: the dispatcher never blocks for ever, as long as stdout stays open until the process exits; `Requests`: messages are served as promised, which includes that a stall is real (`StallIsReal`) |
| `turn_signals` | 2 messages, 2 processes, a signal, stdout may close early | `ReportedOnceRespawned`: the session's process is not reported dead when the watchdog killed it, whatever the signal and the old reader do |
| `config_respawn` | 2 models, 1 effort, the gate, 2 directories, 2 conversations, 2 starts, 2 processes, 2 requests at once | `GateSurvives`, `ModelSurvives`: a respawn comes back with gate and model; `FindsConversation`: it runs where the transcript is, if the transcript says where; `EffortReported`: once all is read, the session info shows the live process's level |
| `finished_task_waiters` | 2 jobs, 1 command, 5 frames under way, fairness | `OnlyWatchersStopped`; `CaughtUp`: with all read, the stopper's lists are Claude Code's; `TasksSettle`: a task is over for the bridge exactly when it is; `WatcherFreed` |
| `turn_usage` | 2 processes, 3 turns, 3 calls of cost 0 to 2 | `NeverOvercharged`, `OneProcessExact`, `CallsAreTheTurns` |
| `cold_import` | 1 session, 2 conversations (each may become a session), 1 walk at a time, 1 kill, fairness | `Numbered`: a chain has no gap or tie; `WalkComplete`: a walk that ends well leaves no transcript of its unrecorded; `NeverRewinds`: an import does not touch a session that has a chain; `EventuallyImported` |
| `pty_sidecar` | 2 transcripts of 2 lines of 3 kinds, 1 lost post, fairness | `FollowsTranscript`, `TurnsClose`, `EventuallyPosted` |

Why the bounds suffice. Two processes of one harness are enough for an old
reader to race a new one, two sessions for one harness's boot to meet another's
rotation, two log rows for a stale row beside a fresh one. Three turns let a
text be said, repeated in the next turn and both copies arrive late. In
the turn loop a second message lets a leftover waiter (the watchdog leaves one
armed) meet its successor's, and a second process an old reader; the signal has a run
of its own, in which the second process follows one the watchdog killed.
Two processes let a request meet a respawn, two requests each other's write, two
starts a changed directory. Two jobs let a command watch one, both or neither, and the second
finish while the stop for the first travels; a second command would only
meet the same frames. Three turns let one fail or die between two that succeed,
over one restart. Two conversations let a session rotate into the second while
a walk is at the first. Two lines with one half-written show every split of a
line. Every cfg but those of the chain, `ColdImport` and `ImportLiveSession` says
`CHECK_DEADLOCK FALSE`: an idle session with its bounds used up stops, and so
does a harness that has exited.

Fairness. `AssistantRecovery`, `TurnLoop`, `FinishedTaskWaiters`, `ColdImport` and
`PtySidecar` have a `FairSpec`. Goroutines that
are ready run, but for a write to a live process, which may wait for ever on a full
pipe; a process that was sent SIGKILL or SIGTERM dies; OTel copies arrive or
are lost in the end. Nothing is assumed of Claude Code, which may fall silent
at any point, nor of the server. The watchdog's fairness speaks of a *silent*
process: one that pings `keep_alive` for ever is never timed out, by design.
`FinishedTaskWaiters` asks that the reader reads and that Claude Code obeys its
stdin, and that no command ends by itself. `PtySidecar` asks only that the tailer
polls while its process runs. `ColdImport` asks that a walk goes on unless it
is killed, and, of bridge-server, that it starts a discovery again and again
whenever none runs (`SF` on `StartDiscover`: it does so each time it starts).

Not claimed: with the watchdog on, `SaidOnceShownOnce` is not checked, because
the model lets a frame be read between the watchdog's verdict and its flush, after
its OTel copy; the exporter's batch interval makes that order implausible.

## Runs that find a disagreement

Each checks one sentence of the code's comments or documents against what the
code does. `PROJECT.json` quotes them.

| Run | What happens |
|---|---|
| `chain_fork_lost` | A fork never inserts a `sessions` row; the rollout's foreign key refuses it and the fork is missing from the chain. |
| `import_live_session` | A transcript can exist before its rollout row does: Claude Code writes it when it likes, the harness records the row after the init frame. A discovery in between records the conversation as a session of its own, the harness's insert is refused (and only logged), and the conversation stays listed under its UUID. |

## Departures

Properties the modules state and TLC refutes; no run lists them, but for the two of
`ColdImport`, which `cold_import` checks with one walk at a time. Each can be
reproduced by naming it in a cfg with the constants given.

| Property | Constants | What happens |
|---|---|---|
| `SessionChain!StagedIsPending` | `ChainSharedStore.cfg` with one UUID and `MaxRows = 1` | A boot orphans *every* pending row of the shared store (`handler.go:427`), also the one a live harness of another session has just staged; that harness's commit is refused and its rollout not recorded. The comment speaks of rows "from a prior crash" (`handler.go:419`). `OnlyBootsOrphan` is what holds. |
| `AssistantRecovery!NoDoubleRender` | `Recovery.cfg` (the module states it for no watchdog) | Two turns in a row end in the same text, both delivered, both copies late: a late copy consumes the *newer* delivery first (`handler.go:590`), `beginTurn` drops the older one, and the next copy is shown as recovered text. Matching the older turn first would avoid it. |
| `ColdImport!Numbered`, `ColdImport!NeverRewinds` | `ColdImport.cfg` with two walkers | Nothing keeps `-discover` and `-changed-since` from overlapping: a slow walk writes number 0 and the current id of a session another walk imported and a harness rotated. |
| `TurnLoop!ReleasedForCause` | `TurnAll.cfg` with `MaxOwn = 0` | The reader of a dead process releases the request written to its successor (`handler.go:1476`), which returns while its turn runs; `awaitTurnEnd` "blocks until the turn armed by registerTurnWaiter ends" (`handler.go:1609`). `OneReleasePerEnd` is what holds. |
| the same | `TurnAll.cfg` with one message and one spawn | A message is written while Claude Code runs a turn of its own; that turn's end releases it (`handler.go:1556`). The comment: "A turn Claude Code started by itself has no waiter and this is a no-op" (`handler.go:1596`). |
| `TurnLoop!DeliberateNotReported` | `TurnAll.cfg` with `MaxOwn = 0` | A quick respawn clears the watchdog's mark (`handler.go:1089`) before the old reader looks at it: the death is reported as TURN_IDLE_TIMEOUT and as PROCESS_DIED, which the comment at `handler.go:1699` rules out. `ReportedOnceRespawned` is what holds. |
| `TurnLoop!DeathReported` | `TurnAll.cfg` with one message, one spawn and `MaxOwn = 0` | A reader ahead of `cmd.Wait` takes the dead process for alive (`handler.go:1686`); PROCESS_DIED is never sent. |
| `TurnUsage!RestartCharged` | `TurnUsage.cfg` | A new process whose first total is not below the old one's is charged the difference, not the whole (`usage.go:113`; the comment at 105 promises the whole). |
| `PtySidecar!OwnTranscript` | `PtySidecar.cfg` | Another session in the directory wrote last, and its transcript is followed (`rollout.go:135`; `locateRolloutFile` "returns the path of claude's rollout for this session"). |

The models show further departures, which have no property of their own:

* a failed OTel receiver (`ReceiverFails`), or a reader that meets the end of
  stdout before `done` is closed, leaves a log row pending until the next boot;
* a dropped answer whose copy lands after its turn's flush waits for the next
  turn to end;
* after a stall the next message may be written to the killed process, and is
  lost without a report (`Alive` looks at `done`, not at the kill);
* a write into the full stdin pipe of a process that reads nothing blocks the
  dispatcher, and the watchdog runs only after it (`PipeFull`);
* a resume whose transcript names no directory runs where the caller asked, where
  Claude Code aborts (`handler.go:835`);
* the signal goroutine ends with the first signal (`HandleInterrupt`): a second
  stop, or the server's SIGTERM after a stop, is never handled, and
  `signal.Notify` has switched off its default action;
* a spawn that builds its command line while a request writes `h.model` may read
  a torn string, and two requests at once may leave one: `main.go`'s comment on
  asynchronous methods counts on a lock that covers only the pipe;
* a change Claude Code refuses is announced with `config_updated` all the same
  and recorded for the next spawn: nobody reads the answer to a control request;
* with `EarlyEOF`, `AwaitEnds` fails: a message written after the reader has left
  waits for ever, because the watchdog leaves dead processes to the reader;
* a command that starts to watch a file after its job's notice was read is never
  stopped; one that names two files is stopped when the first job finishes,
  although it may wait for the second; a stop may reach a command that was moved
  to the background meanwhile, and ends it;
* the cost of a turn that ends in an error event is worked out, kept and never
  emitted; the calls of a turn that died without a result are listed with the
  next one's;
* `-discover` reads its known set once and walks for minutes: a row a harness
  records meanwhile refuses the walk's insert, the whole discovery fails, and a
  session row without a chain stays behind until the next walk;
* a pty session whose first line takes longer than 30 seconds is not followed
  at all; a resumed one has its whole transcript posted again; a rotation to a
  new file is not followed; what was not read when the sidecar ends is dropped;
  a post that fails is not repeated, and if it was a result the session stays
  running until the next turn's end.

## Proofs

`SessionChainProofs` proves, for any sets of sessions, UUIDs and process slots
and any bound on the log, from `ChainAssumption` alone (the null values are not
ids or rows, the bound is a natural number):

* `TypeCorrect`: `Spec => []TypeOK`;
* `ClaimsUnique`: `Spec => []ClaimedOnce`;
* `ChainBacked`: `Spec => []RolloutBacked`;
* `Refinement`: `Spec => RotationLog`;
* `RecoveryIsComplete`: `Spec => RecoveryLeavesNone`, if no write fails (`~SqlError`);
* `StagedLostToBootsOnly`: `Spec => OnlyBootsOrphan`.

The first three invariants are not inductive. `IInv` adds: a reader carries a row
only in the states that use it (`ReaderShape`); sequence numbers are above those
in the chain (`SeqBounded`); row `i` is free exactly when it is above
`walRows` (`RowsAllocated`); the staged rotation agrees with its row
(`PendMatches`), and so does the rotation a reader is recording
(`Matched`) — without this nothing would tie the kind and
parent a reader inserts to the row it has committed; and no two of them hold the
same row (`Disjoint`). One lemma per conjunct shows that every action preserves
it; `InvStep` puts them together; `LogRefined` shows that a step of the
implementation is a step of `RotationLog` or leaves it alone. TLC checked
`IInv` on instances with one harness, failing writes and two processes before it
was proved.

For the recovery, `Listed` says that a boot has still to look at every pending row
of its session: it lists them all and only its own harness opens more, which it
does not before the boot has ended. A statement that fails leaves its row pending
until the next boot, so the theorem speaks of stores whose writes succeed. A staged
row does not always stay pending (Departures). `StagedLostToBootsOnly` says
that another harness's boot is the only way: readers and failed spawns settle only
rows they hold (`Disjoint`), a failed spawn one of its own harness (`FailedOwn`), and
nothing is staged during the harness's own boot (`QuietBoot`). TLC checked these on
the instance of `chain_shared_store`.

`TurnUsageProofs` proves, for any bounds (`UsageAssumption`: they are natural
numbers):

* `UsageTypes`: `Spec => []TypeOK`, so no difference of totals is negative;
* `NoOvercharge`: `Spec => []NeverOvercharged`;
* `ExactAtFirst`: `Spec => []OneProcessExact`;
* `ResultsListTheirCalls`: `Spec => []CallsAreTheTurns`.

`NeverOvercharged` says nothing of the totals Claude Code has written and nobody
has read. `CostInv` adds that they lie between the last one read and the
process's own and grow (`TotalsGrow`), that the kept figure is the last one read
of this process once there is one (`KeptIsSeen`), and that what was charged is
at most what earlier processes spent plus the last total read (`ChargedSoFar`);
a respawn, which starts `total` and `seen` again at zero, keeps the last. The
first process is the case in which the kept figure is never another's
(`FirstProcess`). For the calls, `CallsInv` says that the frames not yet read come
turn by turn, a turn's result after its calls (`FramesInOrder`), and that the
aggregator has, or will get, each call of a turn whose result is to come, and
besides them only calls of turns that died (`Collected`); so what it has when it
reads a result is what the result should list. TLC checked `CostInv` and
`CallsInv` on the instance of `turn_usage` first.

`FinishedTaskWaitersProofs` proves, for any jobs and commands and any length of
stdout (`WaiterAssumption`: no job is a command, the length is a natural number):

* `WaiterTypes`: `Spec => []TypeOK`, where a status is one `taskStatusOf` may emit, never
  Claude Code's own `stopped` or `killed`;
* `StopsWatchersOnly`: `Spec => []OnlyWatchersStopped`;
* `ListsCatchUp`: `Spec => []CaughtUp`;
* `StatusesSettle`: `Spec => []TasksSettle`.

The stopper acts on frames, so the invariant is about the frames not yet read.
`WaiterInv` adds that what they say is true: only commands run in the foreground,
and the notice of a finished job comes after the job (`FramesSound`); that
nothing says a command runs before it does (`NotYet`); and that at most one
unread frame puts a command on the list, and none once it is on the list or was
asked to stop (`ListedOnce`) — without this a second request could follow the
first. `AskedWatches` is the other half of the property. Claude Code's actions are
reduced to "writes these frames" (`WritesKeep`), the reader's to "reads the first
one" (`ReadKeeps`). The last two properties speak of an empty pipe; `SettleInv` says,
of every other state, that the lists and statuses are up to date or that an unread
frame will make them so, and that no frame after it undoes that (`CallsFollowed`,
`ListFollowed`, `JobsFollowed`, `CommandsFollowed`). A step of Claude Code that
writes frames has to *tell* of what it did (`TellsKeep`), a reader's to *heed* the
frame it takes (`HeedsKeep`); either then keeps the invariant. TLC checked
`WaiterInv` on the instance of `finished_task_waiters` first, `SettleInv` with one
job and two commands.

`TurnLoopProofs` proves, for any number of messages, processes, unprompted turns
and signals, with or without watchdog and early end of stdout:

* `LoopTypes`: `Spec => []TypeOK`;
* `NeverTwoClaudes`: `Spec => []OneClaude`;
* `NeverClosedTwice`: `Spec => []ClosedOnce`;
* `StallsAreReal`: `Spec => StallIsReal`;
* `RequestsServed`: `Spec => Requests`;
* `ReadersLeaveNone`: `Spec => []NoneLeftBehind`, if `~EarlyEOF`: the reader of the
  session's process does not leave while a request still waits;
* `MarkUntilRespawn`: `Spec => []ReportedOnceRespawned`;
* `ReleasesAreOwed`: `Spec => []OneReleasePerEnd`.

`LoopInv` adds to the types: only the last process spawned may live, and a
respawn is under way only if that one is done (`LastLives`); a waiter that is
armed, or was never, is open (`OpenWaiters`), and the one waited for is armed or
was closed (`Armed`); a message not yet written is nowhere in Claude Code
(`Nowhere`); if the one waited for is answered and its waiter open, a reader is
about to close it (`AnswerSignalled`) — this is what makes a stall real, because
the watchdog asks for the waiter first. `MarkKept` says until when the mark lasts.
For `ReleasesAreOwed`, `Balance` counts: requests returned, released or about to be
released never exceed the results emitted and the readers gone. A reader that has
emitted a result owes one release (`Telling`), the waiter is closed and cleared in
one step, and a waiter that `registerTurnWaiter` or a failed write closes is one
nobody waits for. `ReadersLeaveNone` is the part of
`AwaitEnds` that needs no fairness: a process that runs is read (`Attended`), and
what its reader does last closes the waiter (`Releases`). With an early end of
stdout it is false, as `AwaitEnds` is.

The order of the answers rests on where the messages are. `Delivered` says that
what is on its way through a process was written to it; `InOrder`, that of two
messages on their way the earlier one is ahead, in stdin, in the turn or in stdout,
and so is one already answered; `Newest`, that the request being handled has the
highest number and no message went to a process yet to come; `ReportedLast`, that
the reader which reports a death reads no more. `PipeSteps` reduces the actions to
what they do to messages on their way (a turn begins or ends, frames are lost or
emitted, a message is written), and `NoneOvertakes` shows that a message gets
ahead of another only by being there when that one is written. `StepServed` then maps
each action to one of `Requests` or to a stutter. TLC checked the invariants on
the instances of `turn_all` and `turn_signals`, those of the order (`ServedInv`) with
three messages and both values of `EarlyEOF` also.

`SessionConfigProofs` proves, for any models, efforts, directories, conversations
and bounds:

* `ConfigTypes`: `Spec => []TypeOK`;
* `GateOutlivesRespawns`: `Spec => []GateSurvives`;
* `ModelOutlivesRespawns`: `Spec => ModelSurvives`;
* `ConversationIsFound`: `Spec => []FindsConversation`;
* `EffortIsReported`: `Spec => []EffortReported`.

A respawn passes through three places, and `ConfigInv` ties each to the next: what
was given last is in the fields, from there in the command line being built, and
from there in the process (`GateKept`, `ModelKept`, `DirFits`). For the directory that
holds only if the transcript named one (`found`): where it does not, Claude Code
aborts, and the theorem claims no more than that it does so in no other case. It needs
that a directory, once a conversation is saved there, never changes, and that nothing
is saved under an id between the look for its transcript and the process that starts
it (`DirFits`). `EffortReported`
speaks of empty pipes only; `ReportDue` says, of every other state, what is still
on its way to make it true: a request that will ask, an init not yet read, a
question no change follows, or an answer nothing contradicts. `Drained`, that old
processes write nothing once a new init is written, keeps an old answer from
being the last. TLC checked `ConfigInv` on the instance of `config_respawn`.

`AssistantRecoveryProofs` proves, for any texts, segments, turns and lateness:

* `RecoveryTypes`: `Spec => []TypeOK`;
* `NoSegmentIsLost`: `Spec => []NothingLost`;
* `SaidOnceIsShownOnce`: `Spec => []SaidOnceShownOnce`, if `MaxLate <= 1`.

`NothingLost` speaks of settled states. `Accounted` is the balance it is the end
of: for each text, what was said is at most what was forwarded and not kept as a
delivery to be matched, plus its copies on their way, buffered, lost and
forwarded. A turn's start ages all copies at once; that this changes no sum is
shown by a bijection between the numbered copies before and after
(`Outstanding`). `ShownOnce` follows a single text through the places its copy may
be in, with the delivery that cancels it; `TurnInv` says that between a flush and
the next turn no copy is on its way that may be no later (`Punctual`). The
harness keeps the deliveries of one turn, so a text whose copy came two turns
late would be shown twice: `MaxLate <= 1` is what the code's comments assume of
the exporter. TLC checked the invariants on the instance of `recovery`.

`ColdImportProofs` proves, for any sessions, transcripts and bounds:

* `ImportTypes`: `Spec => []TypeOK`;
* `WalksRecordAll`: `Spec => WalkComplete`.

Both hold for any number of walks at once. `WalkInv` needs that a chain has a last
rollout (`HasLast`), or the next number would not exist, and that what a walk set
out to record is to do, at hand or recorded (`Covered`). `Numbered` and
`NeverRewinds` are model-checked with one walk at a time and not proved: with two at
once, which nothing in the code prevents, TLC refutes both (Departures). TLC checked
`WalkInv` with one walker and with two.

`PtySidecarProofs` proves, for transcripts of any length and any number of lost posts:

* `SidecarTypes`: `Spec => []TypeOK`;
* `TurnsAreClosed`: `Spec => []TurnsClose`;
* `TranscriptIsFollowed`: `Spec => []FollowsTranscript`;
* `EventsAreInPlace`: `Spec => []EventsInPlace`.

`TailInv` adds that the tailer has kept the half of a line it was given and nothing
else (`Whole`), that what is left to post ends as the last line read does
(`LastPost`), and that with all posted the session is where that line left it
(`Derived`). `EventsInPlace` says that the events of each line are in the stream
from a place `first[n]` to where those of the next begin. `FollowsTranscript` says
more, that the stream *is* the concatenation of the lines' events, which the
community modules define by a recursion (`FlattenSeq`). The prover has no
induction over data, so this is an argument by least counterexample: the
natural numbers are well-founded, hence there is a least number of which a statement
is false, if any (`Least`, from `WFMin`); with it, the recursion has one solution
(`JoinedOnce`, `Flattened`), and the prefixes of the stream up to `first[n]` are
that solution (`Placed`, `StreamJoined`). TLC checked `EventsInPlace` and `TailInv`
on the instance of `pty_sidecar`, `TailInv` with three lines as well.

TLC evaluates the assumption each module makes of its constants in every run.

Model-checked only: what needs fairness (`AwaitEnds`, `WedgedTurnSurfaces`,
`WatcherFreed`, `EventuallyImported`, `EventuallyPosted`): liveness and ENABLED are
beyond the prover; and `Numbered` and `NeverRewinds`, which need that discoveries do
not overlap. Every other property of a passing run is proved, some for the part of
the constants their theorem names.

## Plan

1. Done: `SessionChain`, `RotationLog`, `AssistantRecovery`, `TurnLoop`, `Requests`,
   `SessionConfig`, `TurnUsage`, `FinishedTaskWaiters`, `ColdImport`, `PtySidecar`,
   and the proofs above.
2. Done: the invariants, step properties and refinements of the runs are proved, but
   for the two that assume one discovery at a time.
3. Composition: `TurnLoop` with `AssistantRecovery` (shutdown without flush).
4. The OTel receiver's lifetime against its process's last batch.

## Not modelled

* *PTY launch* (`main.go`): builds arguments and replaces the process image.
* *Message identity* (`identity_store.go`): the tracker is another repository's;
  here are one select and one insert.
* *History import* (`import_history.go`) and the metadata of a discovery: pure
  reads of one file.
* *One-shot calls*: one child, one answer, no state that outlives them.
* *Journal mode* (`state.go`): the race is between SQLite's own locks.
* *OTel record kinds, event translation*: one record to events, no state; the
  stateful parts (usage, tasks, assistant text) are in the modules above.
* *Environment parsing, deployment and test scripts*.
