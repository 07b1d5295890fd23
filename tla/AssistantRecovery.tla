------------------------- MODULE AssistantRecovery --------------------------
(***************************************************************************)
(* Two copies of every text segment the model says: Claude Code writes one *)
(* to stdout, which the reader goroutine forwards as it reads it, and      *)
(* exports one over OTel, which arrives about a second later on the        *)
(* receiver's goroutine and is buffered.  At the end of a turn the reader  *)
(* forwards the buffered copies whose text stdout never delivered          *)
(* (flushRecoveredAssistant); the idle watchdog does so for a turn that    *)
(* has gone silent.  A text stands for a segment's normalized text.        *)
(***************************************************************************)
EXTENDS Naturals, Sequences

CONSTANTS Text,      \* normalized texts
          MaxLate,   \* turn boundaries an OTel copy may come after its segment
          MaxSpoken, \* bound: texts the model produces, side calls included
          MaxTurns   \* bound: calls of beginTurn

ASSUME RecoveryAssumption ==
  /\ MaxLate \in Nat /\ MaxSpoken \in Nat /\ MaxTurns \in Nat
  /\ "result" \notin Text

VARIABLES watchdog,   \* Config.TurnIdleTimeout > 0
          proc,       \* Claude Code: none, running, ended
          unread,     \* frames on stdout the reader has not read
          inflight,   \* OTel copies on their way (external)
          reader,     \* where readStreamJSON is
          waiting,    \* a request is in awaitTurnEnd
          fired,      \* its watchdog has found the turn idle
          deliveredText, deliveredBefore, pendingOTel,
          turns,      \* beginTurn calls so far
          spoken,     \* texts produced so far
          said,       \* per text: segments of the conversation
          streamed,   \* ... forwarded from stdout
          recovered,  \* ... forwarded from the OTel copy
          lost        \* ... whose OTel copy never arrives

claude  == <<proc, unread, inflight, spoken, said>>
buffers == <<deliveredText, deliveredBefore, pendingOTel>>
output  == <<streamed, recovered>>
vars    == <<watchdog, claude, reader, waiting, fired, buffers, turns, output, lost>>

\* A model call is part of the conversation, or a side call: the session
\* title, compaction, memory extraction.  query_source tells them apart.
Call == {"conversation", "side"}
Zero == [t \in Text |-> 0]
Copy == [call : Call, text : Text, age : 0..MaxLate]
Least(a, b) == IF a < b THEN a ELSE b

TypeOK ==
  /\ watchdog \in BOOLEAN
  /\ proc \in {"none", "running", "ended"}
  /\ unread \in Seq(Text \cup {"result"})
  /\ inflight \in [Copy -> Nat]
  /\ reader \in {"none", "begin", "read", "turnEnd", "exit"}
  /\ waiting \in BOOLEAN /\ fired \in BOOLEAN
  /\ deliveredText \in [Text -> Nat] /\ deliveredBefore \in [Text -> Nat]
  /\ pendingOTel \in [Call -> [Text -> Nat]]
  /\ turns \in 0..MaxTurns /\ spoken \in 0..MaxSpoken
  /\ said \in [Text -> Nat] /\ streamed \in [Text -> Nat]
  /\ recovered \in [Text -> Nat] /\ lost \in [Text -> Nat]

Init ==
  /\ watchdog \in BOOLEAN
  /\ proc = "none" /\ unread = <<>> /\ inflight = [c \in Copy |-> 0]
  /\ reader = "none" /\ waiting = FALSE /\ fired = FALSE
  /\ deliveredText = Zero /\ deliveredBefore = Zero
  /\ pendingOTel = [c \in Call |-> Zero]
  /\ turns = 0 /\ spoken = 0
  /\ said = Zero /\ streamed = Zero /\ recovered = Zero /\ lost = Zero

-----------------------------------------------------------------------------
(* Claude Code (external).  It speaks when the reader is reading its turn: *)
(* telemetry takes a second, the reader does not.                          *)

Speaks ==
  /\ proc = "running" /\ reader = "read"
  /\ \A i \in DOMAIN unread : unread[i] # "result"

Exports(call, t) ==
  /\ spoken < MaxSpoken /\ spoken' = spoken + 1
  /\ inflight' = [inflight EXCEPT ![[call |-> call, text |-> t, age |-> 0]] = @ + 1]

\* A segment of the conversation; its frame may be dropped.
Say(t) ==
  /\ Speaks /\ Exports("conversation", t)
  /\ said' = [said EXCEPT ![t] = @ + 1]
  /\ unread' \in {unread, Append(unread, t)}
  /\ UNCHANGED <<watchdog, proc, reader, waiting, fired, buffers, turns, output, lost>>

\* A side call never reaches stdout.
SideCall(t) ==
  /\ Speaks /\ Exports("side", t)
  /\ UNCHANGED <<watchdog, proc, unread, said, reader, waiting, fired, buffers, turns, output, lost>>

\* The end of a turn, asked for or not.
EndTurn ==
  /\ Speaks /\ turns < MaxTurns
  /\ unread' = Append(unread, "result")
  /\ UNCHANGED <<watchdog, proc, inflight, spoken, said, reader, waiting, fired, buffers, turns,
                 output, lost>>

Dies ==
  /\ proc = "running"
  /\ proc' = "ended"
  /\ UNCHANGED <<watchdog, unread, inflight, spoken, said, reader, waiting, fired, buffers, turns,
                 output, lost>>

\* A process that ended before its exporter's batch was sent loses copies.
LosesCopy(c) ==
  /\ proc # "running" /\ inflight[c] > 0
  /\ inflight' = [inflight EXCEPT ![c] = @ - 1]
  /\ lost' = IF c.call = "side" THEN lost ELSE [lost EXCEPT ![c.text] = @ + 1]
  /\ UNCHANGED <<watchdog, proc, unread, spoken, said, reader, waiting, fired, buffers, turns, output>>

-----------------------------------------------------------------------------
(* emit, called by the OTel receiver and by the reader.                    *)

\* The OTel copy of a segment is buffered, with what says which call it is of.
EmitOTel(c) ==
  /\ inflight[c] > 0
  /\ inflight' = [inflight EXCEPT ![c] = @ - 1]
  /\ pendingOTel' = [pendingOTel EXCEPT ![c.call][c.text] = @ + 1]
  /\ UNCHANGED <<watchdog, proc, unread, spoken, said, reader, waiting, fired, deliveredText,
                 deliveredBefore, turns, output, lost>>

\* The frame of a segment is counted and forwarded.
EmitText(t) ==
  /\ reader = "read" /\ unread # <<>> /\ Head(unread) = t
  /\ unread' = Tail(unread)
  /\ deliveredText' = [deliveredText EXCEPT ![t] = @ + 1]
  /\ streamed' = [streamed EXCEPT ![t] = @ + 1]
  /\ UNCHANGED <<watchdog, proc, inflight, spoken, said, reader, waiting, fired, deliveredBefore,
                 pendingOTel, turns, recovered, lost>>

-----------------------------------------------------------------------------
(* Turn boundaries.                                                        *)

\* Seeded faults: side calls are matched like the conversation; the counts
\* are looked up and not consumed; one copy consumes a delivery of both turns.
flushRecoveredAssistant_MatchesSideCalls ==
  LET copies(t) == pendingOTel["conversation"][t] + pendingOTel["side"][t]
      now(t)    == Least(copies(t), deliveredText[t])
      before(t) == Least(copies(t) - now(t), deliveredBefore[t])
  IN /\ deliveredText' = [t \in Text |-> deliveredText[t] - now(t)]
     /\ deliveredBefore' = [t \in Text |-> deliveredBefore[t] - before(t)]
     /\ recovered' = [t \in Text |-> recovered[t] + copies(t) - now(t) - before(t)]
     /\ pendingOTel' = [c \in Call |-> Zero]

flushRecoveredAssistant_KeepsCounts ==
  LET copies(t) == pendingOTel["conversation"][t]
      known(t)  == deliveredText[t] > 0 \/ deliveredBefore[t] > 0
  IN /\ recovered' = [t \in Text |-> recovered[t] + IF known(t) THEN 0 ELSE copies(t)]
     /\ pendingOTel' = [c \in Call |-> Zero]
     /\ UNCHANGED <<deliveredText, deliveredBefore>>

flushRecoveredAssistant_ConsumesBoth ==
  LET copies(t) == pendingOTel["conversation"][t]
      now(t)    == Least(copies(t), deliveredText[t])
      before(t) == Least(copies(t), deliveredBefore[t])
  IN /\ deliveredText' = [t \in Text |-> deliveredText[t] - now(t)]
     /\ deliveredBefore' = [t \in Text |-> deliveredBefore[t] - before(t)]
     /\ recovered' = [t \in Text |-> recovered[t] + copies(t) - now(t) - before(t)]
     /\ pendingOTel' = [c \in Call |-> Zero]

\* Each buffered copy of a conversation segment consumes one delivery of its
\* text, this turn's first, then the previous turn's; what finds none is
\* forwarded.  Side calls are dropped, and the buffer is cleared.
flushRecoveredAssistant ==
  LET copies(t) == pendingOTel["conversation"][t]
      now(t)    == Least(copies(t), deliveredText[t])
      before(t) == Least(copies(t) - now(t), deliveredBefore[t])
  IN /\ deliveredText' = [t \in Text |-> deliveredText[t] - now(t)]
     /\ deliveredBefore' = [t \in Text |-> deliveredBefore[t] - before(t)]
     /\ recovered' = [t \in Text |-> recovered[t] + copies(t) - now(t) - before(t)]
     /\ pendingOTel' = [c \in Call |-> Zero]

\* The reader reads the turn's result or error event, or the end of stdout.
ReadEnd ==
  /\ reader = "read"
  /\ \/ /\ unread # <<>> /\ Head(unread) = "result"
        /\ unread' = Tail(unread) /\ reader' = "turnEnd"
     \/ /\ unread = <<>> /\ proc = "ended"
        /\ reader' = "exit" /\ UNCHANGED unread
  /\ UNCHANGED <<watchdog, proc, inflight, spoken, said, waiting, fired, buffers, turns, output, lost>>

\* Timing: a copy is there by the flush MaxLate boundaries after its segment.
OnTime == \A c \in Copy : c.age = MaxLate => inflight[c] = 0

\* flushRecoveredAssistant, then signalTurnEnd releases the waiting request.
FlushAtTurnEnd ==
  /\ reader \in {"turnEnd", "exit"} /\ OnTime
  /\ flushRecoveredAssistant
  /\ waiting' = FALSE
  /\ reader' = IF reader = "exit" THEN "none" ELSE "begin"
  /\ proc' = IF reader = "exit" THEN "none" ELSE proc
  /\ UNCHANGED <<watchdog, unread, inflight, spoken, said, fired, turns, streamed, lost>>

\* Seeded faults: beginTurn drops the record, or the buffer, of the turn before.
beginTurn_DropsRecord ==
  /\ reader = "begin"
  /\ turns' = turns + 1 /\ reader' = "read"
  /\ deliveredBefore' = Zero /\ deliveredText' = Zero
  /\ inflight' = [c \in Copy |-> IF c.age = 0 THEN 0 ELSE inflight[[c EXCEPT !.age = @ - 1]]]
  /\ UNCHANGED <<watchdog, proc, unread, spoken, said, waiting, fired, pendingOTel, output, lost>>

beginTurn_DropsBuffer ==
  /\ reader = "begin"
  /\ turns' = turns + 1 /\ reader' = "read"
  /\ deliveredBefore' = deliveredText /\ deliveredText' = Zero
  /\ pendingOTel' = [c \in Call |-> Zero]
  /\ inflight' = [c \in Copy |-> IF c.age = 0 THEN 0 ELSE inflight[[c EXCEPT !.age = @ - 1]]]
  /\ UNCHANGED <<watchdog, proc, unread, spoken, said, waiting, fired, output, lost>>

\* The delivered texts roll forward, the buffer stays.  Every copy still on
\* its way is one boundary later.
beginTurn ==
  /\ reader = "begin"
  /\ turns' = turns + 1 /\ reader' = "read"
  /\ deliveredBefore' = deliveredText /\ deliveredText' = Zero
  /\ inflight' = [c \in Copy |-> IF c.age = 0 THEN 0 ELSE inflight[[c EXCEPT !.age = @ - 1]]]
  /\ UNCHANGED <<watchdog, proc, unread, spoken, said, waiting, fired, pendingOTel, output, lost>>

-----------------------------------------------------------------------------
(* The dispatcher.                                                         *)

\* handleStart: a process and its reader, whose first step is beginTurn; a
\* start with a prompt waits for its turn.
Spawn ==
  /\ ~fired /\ proc = "none" /\ reader = "none" /\ turns < MaxTurns /\ OnTime
  /\ proc' = "running" /\ reader' = "begin"
  /\ waiting' \in BOOLEAN
  /\ UNCHANGED <<watchdog, unread, inflight, spoken, said, fired, buffers, turns, output, lost>>

\* handleMessage: the waiter is armed before the message is written.
Message ==
  /\ proc = "running" /\ ~waiting /\ ~fired
  /\ waiting' = TRUE
  /\ UNCHANGED <<watchdog, claude, reader, fired, buffers, turns, output, lost>>

\* awaitTurnEnd's tick: the process lives and nothing has been heard of it.
WatchdogFires ==
  /\ watchdog /\ waiting /\ ~fired
  /\ proc = "running" /\ unread = <<>> /\ reader = "read"
  /\ fired' = TRUE
  /\ UNCHANGED <<watchdog, claude, reader, waiting, buffers, turns, output, lost>>

\* Seeded fault: it only stops waiting.
WatchdogAbandons_OnlyGivesUp ==
  /\ fired
  /\ fired' = FALSE /\ waiting' = FALSE
  /\ UNCHANGED <<watchdog, claude, reader, buffers, turns, output, lost>>

\* It flushes, reports the stall, kills the process and gives up waiting, even
\* if the turn has ended since the tick.
WatchdogAbandons ==
  /\ fired
  /\ flushRecoveredAssistant
  /\ proc' = IF proc = "running" THEN "ended" ELSE proc
  /\ fired' = FALSE /\ waiting' = FALSE
  /\ UNCHANGED <<watchdog, unread, inflight, spoken, said, reader, turns, streamed, lost>>

ReaderStep == (\E t \in Text : EmitText(t)) \/ ReadEnd \/ FlushAtTurnEnd \/ beginTurn
DispatcherStep == Spawn \/ Message \/ WatchdogFires \/ WatchdogAbandons

Next ==
  \/ \E t \in Text : Say(t) \/ SideCall(t)
  \/ EndTurn \/ Dies
  \/ \E c \in Copy : LosesCopy(c) \/ EmitOTel(c)
  \/ ReaderStep
  \/ DispatcherStep

Spec == Init /\ [][Next]_vars

\* The reader and the watchdog run whenever they can; so does the exporter's
\* batch, and a copy cut off by its process's death is lost in the end.  Claude
\* Code owes nobody a word: it may wedge.
FairSpec ==
  /\ Spec
  /\ WF_vars(ReaderStep)
  /\ WF_vars(WatchdogFires) /\ WF_vars(WatchdogAbandons)
  /\ WF_vars(\E c \in Copy : LosesCopy(c) \/ EmitOTel(c))

-----------------------------------------------------------------------------
(* Properties.                                                             *)

\* No segment is shown twice: the frames forwarded and the copies recovered of
\* a text are never more than the segments said, although copies arrive in
\* the turn after, repeat each other's text and may come from side calls.  No run
\* lists it: two turns in a row with one text and late copies break it (README,
\* Departures).
NoDoubleRender == ~watchdog => \A t \in Text : streamed[t] + recovered[t] <= said[t]

\* Without an idle watchdog a text said once is shown at most once, whichever turn
\* its copy lands in.  (The watchdog flushes what a frame read after its check
\* delivers.)
SaidOnceShownOnce ==
  ~watchdog => \A t \in Text : said[t] = 1 => streamed[t] + recovered[t] <= 1

\* When every frame is read and every copy is in and flushed, each segment has
\* been shown, whatever stdout dropped: only a copy lost with its process can
\* leave one out.
Settled ==
  /\ unread = <<>> /\ \A c \in Copy : inflight[c] = 0
  /\ pendingOTel["conversation"] = Zero
NothingLost ==
  Settled => \A t \in Text : streamed[t] + recovered[t] + lost[t] >= said[t]

\* A copy buffered during a turn that is waited for is flushed, even if Claude
\* Code falls silent for good: the failure the watchdog was written for.
WedgedTurnSurfaces ==
  watchdog /\ waiting /\ pendingOTel["conversation"] # Zero ~> pendingOTel["conversation"] = Zero

=============================================================================
