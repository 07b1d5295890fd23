------------------------------ MODULE TurnLoop ------------------------------
(***************************************************************************)
(* How a request waits for its turn.  The dispatcher goroutine writes a    *)
(* message to the running Claude Code process, respawning it if it is      *)
(* dead, and blocks in awaitTurnEnd.  One reader goroutine per process     *)
(* emits what stdout carries and releases the waiting request at each end  *)
(* of a turn; an exit goroutine per process notices its death; the idle    *)
(* watchdog kills a silent process; signals and the end of stdin shut the  *)
(* harness down.  Processes are numbered in the order they are spawned.    *)
(***************************************************************************)
EXTENDS Naturals, Sequences, FiniteSets

CONSTANTS MaxMessages,  \* bound: requests that send a message
          MaxSpawns,    \* bound: processes spawned
          MaxOwn,       \* bound: turns Claude Code starts by itself
          MaxSignals,   \* bound: signals the server sends
          Watchdog,     \* TRUE: Config.TurnIdleTimeout > 0
          Crashes,      \* TRUE: Claude Code may exit by itself
          EarlyEOF      \* TRUE: ... and close stdout before it exits

ASSUME TurnAssumption ==
  /\ MaxMessages \in Nat /\ MaxSpawns \in Nat /\ MaxOwn \in Nat /\ MaxSignals \in Nat
  /\ Watchdog \in BOOLEAN /\ Crashes \in BOOLEAN /\ EarlyEOF \in BOOLEAN

Msg  == 1..MaxMessages
Gen  == 1..MaxSpawns
None == 0               \* no message, no process, no turn
Own  == MaxMessages + 1 \* a turn nobody asked for
Turn == Msg \cup {Own}

VARIABLES
  cc,        \* the process: none, running, mute (stdout closed), dead
  killed,    \* processes sent SIGKILL or SIGTERM
  done,      \* processes whose done channel is closed
  inbox,     \* messages on stdin Claude Code has not read
  turn,      \* the turn Claude Code runs
  out,       \* results on stdout the reader has not read
  own,       \* unprompted turns so far
  reader,    \* readStreamJSON of the process: none, read, result, eof, leave, gone
  pc,        \* dispatcher: idle, spawn, arm, write, await, abandon, stop
  cur,       \* the message it is handling
  last,      \* the last message it has taken
  proc,      \* h.proc
  turnWaiter, closes,  \* the message whose waiter it is; closes per waiter
  killedByWatchdog,
  answered,  \* messages whose result was emitted
  unasked,   \* how many results of unprompted turns were emitted
  stalled,   \* ... reported TURN_IDLE_TIMEOUT
  returned,  \* ... whose request returned because its waiter was closed
  sentTo,    \* the process a message was written to
  died,      \* processes reported PROCESS_DIED
  deliberate,\* processes the watchdog killed while they ran
  sigs, buffered, sigGo, \* signals sent; the channel; its goroutine: wait, stop, gone
  ctxDone, exited

claude == <<cc, killed, done, inbox, turn, out, own>>
waits  == <<turnWaiter, closes>>
log    == <<answered, unasked, stalled, returned, sentTo, died, deliberate>>
disp   == <<pc, cur, last, proc, killedByWatchdog>>
ends   == <<sigs, buffered, sigGo, ctxDone, exited>>
vars   == <<claude, reader, waits, log, disp, ends>>

TypeOK ==
  /\ cc \in [Gen -> {"none", "running", "mute", "dead"}]
  /\ killed \subseteq Gen /\ done \subseteq Gen
  /\ inbox \in [Gen -> Seq(Msg)] /\ turn \in [Gen -> Turn \cup {None}]
  /\ out \in [Gen -> Seq(Turn)] /\ own \in 0..MaxOwn
  /\ reader \in [Gen -> {"none", "read", "result", "eof", "leave", "gone"}]
  /\ pc \in {"idle", "spawn", "arm", "write", "await", "abandon", "stop"}
  /\ cur \in Msg \cup {None} /\ last \in 0..MaxMessages /\ proc \in Gen \cup {None}
  /\ turnWaiter \in Msg \cup {None} /\ closes \in [Msg -> Nat]
  /\ killedByWatchdog \in BOOLEAN
  /\ answered \subseteq Msg /\ unasked \in Nat
  /\ stalled \subseteq Msg /\ returned \subseteq Msg
  /\ sentTo \in [Msg -> Gen \cup {None}]
  /\ died \subseteq Gen /\ deliberate \subseteq Gen
  /\ sigs \in 0..MaxSignals /\ buffered \in {"none", "INT", "TERM"}
  /\ sigGo \in {"wait", "stop", "gone"}
  /\ ctxDone \in BOOLEAN /\ exited \in BOOLEAN

Init ==
  /\ cc = [g \in Gen |-> "none"] /\ killed = {} /\ done = {}
  /\ inbox = [g \in Gen |-> <<>>] /\ turn = [g \in Gen |-> None]
  /\ out = [g \in Gen |-> <<>>] /\ own = 0
  /\ reader = [g \in Gen |-> "none"]
  /\ pc = "idle" /\ cur = None /\ last = 0 /\ proc = None
  /\ turnWaiter = None /\ closes = [m \in Msg |-> 0] /\ killedByWatchdog = FALSE
  /\ answered = {} /\ unasked = 0 /\ stalled = {} /\ returned = {}
  /\ sentTo = [m \in Msg |-> None] /\ died = {} /\ deliberate = {}
  /\ sigs = 0 /\ buffered = "none" /\ sigGo = "wait" /\ ctxDone = FALSE /\ exited = FALSE

-----------------------------------------------------------------------------
(* Claude Code (external): turns one at a time, some of them its own.  It  *)
(* may stop working for ever at any point.                                 *)

Works(g) == cc[g] = "running" /\ g \notin killed

BeginTurn(g) ==
  /\ Works(g) /\ turn[g] = None
  /\ \/ /\ inbox[g] # <<>>
        /\ turn' = [turn EXCEPT ![g] = Head(inbox[g])]
        /\ inbox' = [inbox EXCEPT ![g] = Tail(@)]
        /\ UNCHANGED own
     \/ /\ own < MaxOwn /\ own' = own + 1
        /\ turn' = [turn EXCEPT ![g] = Own]
        /\ UNCHANGED inbox
  /\ UNCHANGED <<cc, killed, done, out, reader, waits, log, disp, ends>>

EndTurn(g) ==
  /\ Works(g) /\ turn[g] # None
  /\ out' = [out EXCEPT ![g] = Append(@, turn[g])]
  /\ turn' = [turn EXCEPT ![g] = None]
  /\ UNCHANGED <<cc, killed, done, inbox, own, reader, waits, log, disp, ends>>

CloseStdout(g) ==
  /\ EarlyEOF /\ Works(g)
  /\ cc' = [cc EXCEPT ![g] = "mute"]
  /\ UNCHANGED <<killed, done, inbox, turn, out, own, reader, waits, log, disp, ends>>

Die(g) ==
  /\ cc[g] \in {"running", "mute"}
  /\ Crashes \/ g \in killed \/ exited
  /\ cc' = [cc EXCEPT ![g] = "dead"]
  /\ UNCHANGED <<killed, done, inbox, turn, out, own, reader, waits, log, disp, ends>>

Truncated(s) == {SubSeq(s, 1, n) : n \in 0..Len(s)}

\* cmd.Wait returns: it closes the pipe, with what was not read of it, and done
\* is closed.
ProcessExits(g) ==
  /\ ~exited /\ cc[g] = "dead" /\ g \notin done
  /\ done' = done \cup {g}
  /\ \E rest \in Truncated(out[g]) : out' = [out EXCEPT ![g] = rest]
  /\ UNCHANGED <<cc, killed, inbox, turn, own, reader, waits, log, disp, ends>>

-----------------------------------------------------------------------------
(* The waiter.                                                             *)

\* Seeded faults: the waiter is closed and stays armed; the waiting request
\* is never told.
signalTurnEnd_StaysArmed ==
  /\ closes' = IF turnWaiter = None THEN closes ELSE [closes EXCEPT ![turnWaiter] = @ + 1]
  /\ UNCHANGED turnWaiter

signalTurnEnd_Drops == turnWaiter' = None /\ UNCHANGED closes

signalTurnEnd ==
  /\ closes' = IF turnWaiter = None THEN closes ELSE [closes EXCEPT ![turnWaiter] = @ + 1]
  /\ turnWaiter' = None

\* A waiter still armed is released first.
registerTurnWaiter ==
  /\ ~exited /\ pc = "arm"
  /\ closes' = IF turnWaiter = None THEN closes ELSE [closes EXCEPT ![turnWaiter] = @ + 1]
  /\ turnWaiter' = cur
  /\ pc' = "write"
  /\ UNCHANGED <<claude, reader, log, cur, last, proc, killedByWatchdog, ends>>

-----------------------------------------------------------------------------
(* The dispatcher.                                                         *)

\* Seeded fault: a process that has been killed counts as dead.
Alive_UntilKilled == proc # None /\ proc \notin done \cup killed

Alive == proc # None /\ proc \notin done

\* handleMessage: without a live process it is a start that resumes.
TakeMessage ==
  /\ ~exited /\ pc = "idle" /\ last < MaxMessages
  /\ last' = last + 1 /\ cur' = last + 1
  /\ pc' = IF Alive THEN "arm" ELSE "spawn"
  /\ UNCHANGED <<claude, reader, waits, log, proc, killedByWatchdog, ends>>

\* handleCompact does not respawn.
TakeCompact ==
  /\ ~exited /\ pc = "idle" /\ last < MaxMessages
  /\ last' = last + 1
  /\ \/ Alive /\ cur' = last + 1 /\ pc' = "arm"
     \/ ~Alive /\ UNCHANGED <<cur, pc>>
  /\ UNCHANGED <<claude, reader, waits, log, proc, killedByWatchdog, ends>>

\* handleStart without a prompt, and handleResume.
TakeStart ==
  /\ ~exited /\ pc = "idle" /\ ~Alive
  /\ cur' = None /\ pc' = "spawn"
  /\ UNCHANGED <<claude, reader, waits, log, last, proc, killedByWatchdog, ends>>

Spawned == {g \in Gen : cc[g] # "none"}

\* A new process and its reader; the watchdog's mark is cleared.
Spawn(g) ==
  /\ ~exited /\ pc = "spawn" /\ cc[g] = "none" /\ Spawned = 1..(g - 1)
  /\ cc' = [cc EXCEPT ![g] = "running"]
  /\ reader' = [reader EXCEPT ![g] = "read"]
  /\ proc' = g /\ killedByWatchdog' = FALSE
  /\ pc' = IF cur = None THEN "idle" ELSE "arm"
  /\ UNCHANGED <<killed, done, inbox, turn, out, own, waits, log, cur, last, ends>>

SpawnFails ==
  /\ ~exited /\ pc = "spawn"
  /\ pc' = "idle"
  /\ UNCHANGED <<claude, reader, waits, log, cur, last, proc, killedByWatchdog, ends>>

\* Seeded fault: the message is written again after the pipe has accepted it.
WriteMessage_Again ==
  /\ ~exited /\ pc = "write" /\ cc[proc] \in {"running", "mute"}
  /\ inbox' = [inbox EXCEPT ![proc] = Append(@, cur)]
  /\ sentTo' = [sentTo EXCEPT ![cur] = proc]
  /\ pc' = IF sentTo[cur] = None THEN "write" ELSE "await"
  /\ UNCHANGED <<cc, killed, done, turn, out, own, reader, waits, answered, unasked,
                 stalled, returned, died, deliberate, cur, last, proc, killedByWatchdog, ends>>

\* WriteMessage: a dead process's pipe refuses, a dying one's does not.
WriteMessage ==
  /\ ~exited /\ pc = "write"
  /\ \/ /\ cc[proc] \in {"running", "mute"}
        /\ inbox' = [inbox EXCEPT ![proc] = Append(@, cur)]
        /\ sentTo' = [sentTo EXCEPT ![cur] = proc]
        /\ pc' = "await"
        /\ UNCHANGED waits
     \/ /\ cc[proc] = "dead"
        /\ signalTurnEnd
        /\ pc' = "idle"
        /\ UNCHANGED <<inbox, sentTo>>
  /\ UNCHANGED <<cc, killed, done, turn, out, own, reader, answered, unasked, stalled,
                 returned, died, deliberate, cur, last, proc, killedByWatchdog, ends>>

Released == closes[cur] > 0

\* awaitTurnEnd returns.
Return ==
  /\ ~exited /\ pc = "await" /\ (Released \/ ctxDone)
  /\ pc' = "idle"
  /\ returned' = IF Released THEN returned \cup {cur} ELSE returned
  /\ UNCHANGED <<claude, reader, waits, answered, unasked, stalled, sentTo, died,
                 deliberate, cur, last, proc, killedByWatchdog, ends>>

\* Its tick finds a live process and nothing heard for the whole timeout, in
\* which the readers have long read what there was and a released request has
\* long returned.
WatchdogFires ==
  /\ ~exited /\ Watchdog /\ pc = "await" /\ ~Released /\ Alive
  /\ \A g \in Gen : /\ reader[g] \in {"none", "read", "gone"}
                    /\ reader[g] = "read" => out[g] = <<>>
  /\ stalled' = stalled \cup {cur} /\ pc' = "abandon"
  /\ UNCHANGED <<claude, reader, waits, answered, unasked, returned, sentTo, died,
                 deliberate, cur, last, proc, killedByWatchdog, ends>>

\* The waiter stays armed.
WatchdogKills ==
  /\ ~exited /\ pc = "abandon"
  /\ killedByWatchdog' = TRUE
  /\ killed' = killed \cup {proc}
  /\ deliberate' = IF cc[proc] = "dead" THEN deliberate ELSE deliberate \cup {proc}
  /\ pc' = "idle"
  /\ UNCHANGED <<cc, done, inbox, turn, out, own, reader, waits, answered,
                 unasked, stalled, returned, sentTo, died, cur, last, proc, ends>>

-----------------------------------------------------------------------------
(* The reader of process g.                                                *)

\* Seeded fault: an unprompted turn's result passes for an answer.
ReadResult_AnyTurn(g) ==
  /\ ~exited /\ reader[g] = "read" /\ out[g] # <<>>
  /\ answered' = answered \cup {Head(out[g])}
  /\ out' = [out EXCEPT ![g] = Tail(@)]
  /\ reader' = [reader EXCEPT ![g] = "result"]
  /\ UNCHANGED <<cc, killed, done, inbox, turn, own, waits, unasked, stalled, returned,
                 sentTo, died, deliberate, disp, ends>>

\* A result or error event is emitted.
ReadResult(g) ==
  /\ ~exited /\ reader[g] = "read" /\ out[g] # <<>>
  /\ answered' = answered \cup ({Head(out[g])} \cap Msg)
  /\ unasked' = IF Head(out[g]) = Own THEN unasked + 1 ELSE unasked
  /\ out' = [out EXCEPT ![g] = Tail(@)]
  /\ reader' = [reader EXCEPT ![g] = "result"]
  /\ UNCHANGED <<cc, killed, done, inbox, turn, own, waits, stalled, returned,
                 sentTo, died, deliberate, disp, ends>>

\* ... and then the turn is over.
TurnEnds(g) ==
  /\ ~exited /\ reader[g] = "result"
  /\ signalTurnEnd
  /\ reader' = [reader EXCEPT ![g] = "read"]
  /\ UNCHANGED <<claude, log, disp, ends>>

\* The event channel is closed.
ReadEOF(g) ==
  /\ ~exited /\ reader[g] = "read" /\ out[g] = <<>> /\ cc[g] \in {"mute", "dead"}
  /\ reader' = [reader EXCEPT ![g] = "eof"]
  /\ UNCHANGED <<claude, waits, log, disp, ends>>

\* Seeded faults: the watchdog's mark is not consulted; the waiter is released
\* with the report, and once more when the reader leaves.
handleProcessExit_AnyDeath(g) ==
  /\ ~exited /\ reader[g] = "eof"
  /\ died' = IF g \in done THEN died \cup {g} ELSE died
  /\ reader' = [reader EXCEPT ![g] = "leave"]
  /\ UNCHANGED <<claude, waits, answered, unasked, stalled, returned, sentTo,
                 deliberate, disp, ends>>

handleProcessExit_Releases(g) ==
  /\ ~exited /\ reader[g] = "eof"
  /\ died' = IF g \in done /\ ~killedByWatchdog THEN died \cup {g} ELSE died
  /\ signalTurnEnd
  /\ reader' = [reader EXCEPT ![g] = "leave"]
  /\ UNCHANGED <<claude, answered, unasked, stalled, returned, sentTo,
                 deliberate, disp, ends>>

\* handleProcessExit: the death is reported unless the process counts as alive
\* or the watchdog killed one.
handleProcessExit(g) ==
  /\ ~exited /\ reader[g] = "eof"
  /\ died' = IF g \in done /\ ~killedByWatchdog THEN died \cup {g} ELSE died
  /\ reader' = [reader EXCEPT ![g] = "leave"]
  /\ UNCHANGED <<claude, waits, answered, unasked, stalled, returned, sentTo,
                 deliberate, disp, ends>>

\* Seeded fault: nobody is told that the process is gone.
ReaderLeaves_Silently(g) ==
  /\ ~exited /\ (reader[g] = "leave" \/ (reader[g] = "read" /\ ctxDone))
  /\ reader' = [reader EXCEPT ![g] = "gone"]
  /\ UNCHANGED <<claude, waits, log, disp, ends>>

\* The last thing it does is release the waiter, at the end of stdout or when
\* the harness shuts down.
ReaderLeaves(g) ==
  /\ ~exited /\ (reader[g] = "leave" \/ (reader[g] = "read" /\ ctxDone))
  /\ signalTurnEnd
  /\ reader' = [reader EXCEPT ![g] = "gone"]
  /\ UNCHANGED <<claude, log, disp, ends>>

-----------------------------------------------------------------------------
(* Signals and shutdown.                                                   *)

\* The server's signal waits in a channel of one, or is dropped (os/signal).
SendSignal(s) ==
  /\ ~exited /\ sigs < MaxSignals /\ sigs' = sigs + 1
  /\ buffered' = IF buffered = "none" THEN s ELSE buffered
  /\ UNCHANGED <<claude, reader, waits, log, disp, sigGo, ctxDone, exited>>

\* Interrupt: Claude Code may end its turn, as it may anyway; if the pipe of a live
\* process refuses the request, the process is killed.  The goroutine ends with
\* the first signal.
HandleInterrupt ==
  /\ ~exited /\ sigGo = "wait" /\ buffered = "INT"
  /\ buffered' = "none" /\ sigGo' = "gone"
  /\ killed' = IF Alive /\ cc[proc] = "dead" THEN killed \cup {proc} ELSE killed
  /\ UNCHANGED <<cc, done, inbox, turn, out, own, reader, waits, log, disp, sigs,
                 ctxDone, exited>>

\* Shutdown: the context is cancelled and a live process is sent SIGTERM.
Shutdown ==
  /\ ctxDone' = TRUE
  /\ killed' = IF Alive THEN killed \cup {proc} ELSE killed
  /\ UNCHANGED <<cc, done, inbox, turn, out, own, reader, waits, log, cur, last, proc,
                 killedByWatchdog, sigs, exited>>

HandleTerminate ==
  /\ ~exited /\ sigGo = "wait" /\ buffered = "TERM"
  /\ buffered' = "none" /\ sigGo' = "stop"
  /\ Shutdown /\ UNCHANGED pc

\* The end of stdin, read by the dispatcher between two requests.
StdinClosed ==
  /\ ~exited /\ pc = "idle"
  /\ pc' = "stop"
  /\ Shutdown /\ UNCHANGED <<buffered, sigGo>>

\* Once the process is gone, or has been killed after three seconds.
Exit ==
  /\ ~exited /\ (pc = "stop" \/ sigGo = "stop")
  /\ exited' = TRUE
  /\ UNCHANGED <<claude, reader, waits, log, disp, sigs, buffered, sigGo, ctxDone>>

-----------------------------------------------------------------------------
Claude(g)  == BeginTurn(g) \/ EndTurn(g) \/ CloseStdout(g) \/ Die(g)
Reader(g)  == ReadResult(g) \/ TurnEnds(g) \/ ReadEOF(g) \/ handleProcessExit(g)
              \/ ReaderLeaves(g)
Server     == TakeMessage \/ TakeCompact \/ TakeStart \/ StdinClosed
              \/ \E s \in {"INT", "TERM"} : SendSignal(s)
Dispatcher == registerTurnWaiter \/ (\E g \in Gen : Spawn(g)) \/ SpawnFails
              \/ WriteMessage \/ Return \/ WatchdogFires \/ WatchdogKills
Signals    == HandleInterrupt \/ HandleTerminate \/ Exit

Next ==
  \/ \E g \in Gen : Claude(g) \/ ProcessExits(g) \/ Reader(g)
  \/ Server \/ Dispatcher \/ Signals

Spec == Init /\ [][Next]_vars

\* Goroutines run when they can, and a process that was sent a signal dies.  A
\* write to a live process may wait for ever: its pipe may be full.  Claude Code
\* and the server owe nothing.
PipeFull == pc = "write" /\ cc[proc] # "dead"

FairSpec ==
  /\ Spec
  /\ WF_vars(~PipeFull /\ Dispatcher) /\ WF_vars(Signals)
  /\ \A g \in Gen : /\ WF_vars(Reader(g)) /\ WF_vars(ProcessExits(g))
                    /\ WF_vars(g \in killed /\ Die(g))

-----------------------------------------------------------------------------
(* Properties.                                                             *)

\* One session never has two live Claude Code processes: a respawn waits for
\* done, not for the kill.
OneClaude ==
  \A g, k \in Gen : {cc[g], cc[k]} \subseteq {"running", "mute"} => g = k

\* No waiter is closed twice, which would panic, although three goroutines
\* close it: the readers, the dispatcher arming a new one, a failed write.
ClosedOnce == \A m \in Msg : closes[m] <= 1

\* A request that was released had its answer emitted before, or its own
\* process is gone, or the harness shuts down (awaitTurnEnd: it blocks until the
\* turn armed by registerTurnWaiter ends).  The reader of a process that is gone
\* breaks it, and so does a turn nobody asked for: both release whoever waits.
ReleasedForCause ==
  \A m \in returned :
    m \in answered \/ sentTo[m] \in killed \/ cc[sentTo[m]] # "running" \/ ctxDone

\* Releases are never more than what ended: the result of a turn, asked for or
\* not, and the stdout of a process release one request each at most, whichever
\* request that is.  A request that returned early is thus owed to one such end,
\* and no end counts twice (signalTurnEnd, registerTurnWaiter).
OneReleasePerEnd ==
  Cardinality(returned)
    <= Cardinality(answered) + unasked + Cardinality({g \in Gen : reader[g] = "gone"})

\* The watchdog never reports a stall for a message that has been answered.  No run
\* lists it by itself: it is part of Requests.
StallIsReal == [][\A m \in stalled' \ stalled : m \notin answered]_vars

\* The dispatcher never waits for ever: whatever becomes of Claude Code, the
\* next request is read.
AwaitEnds == (pc = "await") ~> (pc # "await" \/ exited)

\* A death the watchdog caused is not reported as PROCESS_DIED as well
\* (killedByWatchdog, handleProcessExit).  A respawn breaks it: it clears the mark
\* before the reader of the process that was killed has come to its end.
DeliberateNotReported == died \cap deliberate = {}

\* ... but nothing else does: the session's process is never both, killed by the
\* watchdog and reported dead, for the mark reaches its reader before the death.
ReportedOnceRespawned == proc \notin died \cap deliberate

\* A process that died by itself under the message it was sent is reported.  No
\* run lists it: a reader that meets the end of stdout before done is closed breaks
\* it (README, Departures).
DeathReported ==
  \A m \in Msg :
    (pc = "await" /\ cur = m /\ cc[sentTo[m]] = "dead"
      /\ sentTo[m] \notin killed /\ m \notin answered /\ ~ctxDone)
    ~> (sentTo[m] \in died \/ m \in answered \/ ctxDone)

\* What bridge-server is promised of its messages (Requests), with "waited for" as
\* the dispatcher blocked in awaitTurnEnd.
Served == INSTANCE Requests WITH Message <- Msg, Process <- Gen,
                                 open <- IF pc = "await" THEN cur ELSE None, to <- sentTo
Requests == Served!Spec
=============================================================================
