----------------------------- MODULE PtySidecar -----------------------------
(***************************************************************************)
(* A session in a terminal.  Claude Code owns the pty, so bridge-server    *)
(* learns of the conversation from a sidecar process that follows the      *)
(* transcript: a tailer goroutine finds the file, reads whole lines past   *)
(* its end, and posts an event for each block and for the end of a turn.   *)
(* The transcript grows while it is read, a line may be half there,        *)
(* another session may write in the same directory, a post may be lost,    *)
(* and the sidecar ends soon after the terminal does.                      *)
(***************************************************************************)
EXTENDS Naturals, Sequences, SequencesExt

CONSTANTS Entry,    \* what an own line may be, of user, tool_use, end_turn, max_tokens
          MaxLines, \* bound: lines of a transcript
          MaxLost   \* bound: posts lost

ASSUME SidecarAssumption ==
  /\ Entry \subseteq {"user", "tool_use", "end_turn", "max_tokens"}
  /\ MaxLines \in Nat \ {0} /\ MaxLost \in Nat

VARIABLES resumed,  \* LLMBRIDGE_PTY_RESUME_ID names the conversation
          lines,    \* whole lines of each transcript: own, and another session's
          half,     \* the line it has the first part of
          newest,   \* the one written last since the sidecar started
          child,    \* Claude Code in the pty (external)
          sidecar,  \* runOTelSidecar
          tail,     \* the tailer goroutine
          sent,     \* events posted, with the line they are of
          lost,     \* posts that failed
          session   \* the state bridge-server derives (external)

transcripts == <<resumed, lines, half, newest>>
vars == <<transcripts, child, sidecar, tail, sent, lost, session>>

Conv == {"own", "other"}
Events == {"user_message", "block", "tool_call", "result"}
Tailer == [pc : {"off", "locate", "tail", "post"}, target : Conv \cup {"none"},
         at : 0..MaxLines,    \* whole lines read
         got : BOOLEAN,       \* and the first part of the next
         pending : Seq({"head", "rest", "line"}),
         posts : Seq([line : 1..MaxLines, event : Events])]

TypeOK ==
  /\ resumed \in BOOLEAN
  /\ lines \in [Conv -> Seq(Entry)] /\ half \in [Conv -> Entry \cup {"none"}]
  /\ newest \in Conv \cup {"none"}
  /\ child \in {"none", "running", "exited"}
  /\ sidecar \in {"boot", "serve", "drain", "gone"}
  /\ tail \in Tailer
  /\ sent \in Seq([line : 1..MaxLines, event : Events])
  /\ lost \in 0..MaxLost
  /\ session \in {"idle", "running"}

Init ==
  /\ resumed \in BOOLEAN
  /\ lines \in [Conv -> {<<>>} \cup {<<e>> : e \in Entry}]
  /\ ~resumed => lines["own"] = <<>>
  /\ half = [c \in Conv |-> "none"] /\ newest = "none"
  /\ child = "none" /\ sidecar = "boot"
  /\ tail = [pc |-> "off", target |-> "none", at |-> 0, got |-> FALSE,
             pending |-> <<>>, posts |-> <<>>]
  /\ sent = <<>> /\ lost = 0 /\ session = "idle"

-----------------------------------------------------------------------------
(* Transcripts (external).                                                 *)

\* A line reaches the file in one write or in two.
Write(c) ==
  /\ c = "own" => child = "running"
  /\ UNCHANGED resumed
  /\ newest' = IF sidecar = "boot" THEN newest ELSE c
  /\ \/ \E e \in Entry :
          /\ Len(lines[c]) < MaxLines /\ half[c] = "none"
          /\ \/ lines' = [lines EXCEPT ![c] = Append(@, e)] /\ UNCHANGED half
             \/ half' = [half EXCEPT ![c] = e] /\ UNCHANGED lines
     \/ /\ half[c] # "none"
        /\ lines' = [lines EXCEPT ![c] = Append(@, half[c])]
        /\ half' = [half EXCEPT ![c] = "none"]
  /\ UNCHANGED <<child, sidecar, tail, sent, lost, session>>

\* bridge-server launches the pty once it has read the sidecar's line.
Launch ==
  /\ child = "none" /\ sidecar = "serve"
  /\ child' = "running"
  /\ UNCHANGED <<transcripts, sidecar, tail, sent, lost, session>>

ChildExits ==
  /\ child = "running"
  /\ child' = "exited"
  /\ UNCHANGED <<transcripts, sidecar, tail, sent, lost, session>>

-----------------------------------------------------------------------------
(* The sidecar: runOTelSidecar.                                            *)

\* A variable not set, or no receiver: os.Exit.
Boot ==
  /\ sidecar = "boot"
  /\ \/ /\ sidecar' = "serve"
        /\ tail' = [tail EXCEPT !.pc = "locate"]
     \/ /\ sidecar' = "gone"
        /\ UNCHANGED tail
  /\ UNCHANGED <<transcripts, child, sent, lost, session>>

\* Its stdin is closed once the pty is over; a signal may come any time.
Drain ==
  /\ sidecar = "serve"
  /\ sidecar' = "drain"
  /\ UNCHANGED <<transcripts, child, tail, sent, lost, session>>

\* The flush window is over: main returns, and the tailer ends where it is.
Exit ==
  /\ sidecar = "drain"
  /\ sidecar' = "gone"
  /\ tail' = [tail EXCEPT !.pc = "off"]
  /\ UNCHANGED <<transcripts, child, sent, lost, session>>

-----------------------------------------------------------------------------
(* The tailer: runRolloutTailer.                                           *)

\* A resume asks by id; without a file of that name the tailer ends.
LocateById ==
  /\ tail.pc = "locate" /\ resumed
  /\ tail' = IF lines["own"] # <<>> \/ half["own"] # "none"
             THEN [tail EXCEPT !.pc = "tail", !.target = "own"]
             ELSE [tail EXCEPT !.pc = "off"]
  /\ UNCHANGED <<transcripts, child, sidecar, sent, lost, session>>

\* newestJSONLAfter: the file of the directory written last.
LocateNewest ==
  /\ tail.pc = "locate" /\ ~resumed /\ newest # "none"
  /\ tail' = [tail EXCEPT !.pc = "tail", !.target = newest]
  /\ UNCHANGED <<transcripts, child, sidecar, sent, lost, session>>

\* The startup window is over.
GiveUp ==
  /\ tail.pc = "locate" /\ ~resumed
  /\ tail' = [tail EXCEPT !.pc = "off"]
  /\ UNCHANGED <<transcripts, child, sidecar, sent, lost, session>>

isTerminalStopReason(entry) == entry \in {"end_turn", "max_tokens"}

\* Seeded fault: the blocks of a message follow the result they belong to.
translateRolloutEntry_ResultFirst(entry) ==
  IF entry = "user" THEN <<"user_message">>
  ELSE (IF isTerminalStopReason(entry) THEN <<"result">> ELSE <<>>)
       \o (IF entry = "tool_use" THEN <<"tool_call">> ELSE <<"block">>)

\* Seeded fault: an event bridge-server does not know.
translateRolloutEntry_UnknownEvent(entry) ==
  IF entry = "user" THEN <<"user">>
  ELSE (IF entry = "tool_use" THEN <<"tool_call">> ELSE <<"block">>)
       \o (IF isTerminalStopReason(entry) THEN <<"result">> ELSE <<>>)

\* An event per block, and a result behind the blocks of a message that ends a turn.
translateRolloutEntry(entry) ==
  IF entry = "user" THEN <<"user_message">>
  ELSE (IF entry = "tool_use" THEN <<"tool_call">> ELSE <<"block">>)
       \o (IF isTerminalStopReason(entry) THEN <<"result">> ELSE <<>>)

\* A line that does not parse is logged.
processRolloutLine(chunks, n) ==
  IF chunks \in {<<"line">>, <<"head", "rest">>}
  THEN LET events == translateRolloutEntry(lines[tail.target][n])
       IN [i \in DOMAIN events |-> [line |-> n, event |-> events[i]]]
  ELSE <<>>

\* ReadBytes up to a newline: the line, or the rest of the one begun.
ReadLine ==
  LET chunks == Append(tail.pending, IF tail.got THEN "rest" ELSE "line")
      n      == tail.at + 1
  IN /\ tail.pc = "tail" /\ tail.at < Len(lines[tail.target])
     /\ tail' = [tail EXCEPT !.at = n, !.got = FALSE, !.pending = <<>>,
                             !.posts = processRolloutLine(chunks, n), !.pc = "post"]
     /\ UNCHANGED <<transcripts, child, sidecar, sent, lost, session>>

\* Seeded fault: what was read at the end of the file is forgotten.
ReadToEnd_DropsHalf ==
  /\ tail.pc = "tail" /\ tail.at = Len(lines[tail.target])
  /\ half[tail.target] # "none" /\ ~tail.got
  /\ tail' = [tail EXCEPT !.got = TRUE, !.pending = <<>>]
  /\ UNCHANGED <<transcripts, child, sidecar, sent, lost, session>>

\* ReadBytes at the end of the file: pending keeps half a line.
ReadToEnd ==
  /\ tail.pc = "tail" /\ tail.at = Len(lines[tail.target])
  /\ half[tail.target] # "none" /\ ~tail.got
  /\ tail' = [tail EXCEPT !.got = TRUE, !.pending = Append(@, "head")]
  /\ UNCHANGED <<transcripts, child, sidecar, sent, lost, session>>

\* newSidecarEmitter: a post that fails is logged.  A result makes the session
\* idle, anything else that arrives makes it running (external).
Post ==
  /\ tail.pc = "post"
  /\ IF tail.posts = <<>>
     THEN /\ tail' = [tail EXCEPT !.pc = "tail"]
          /\ UNCHANGED <<sent, lost, session>>
     ELSE /\ tail' = [tail EXCEPT !.posts = SubSeq(@, 2, Len(@))]
          /\ sent' = Append(sent, Head(tail.posts))
          /\ \/ /\ session' = IF Head(tail.posts).event = "result" THEN "idle" ELSE "running"
                /\ UNCHANGED lost
             \/ /\ lost < MaxLost /\ lost' = lost + 1
                /\ UNCHANGED session
  /\ UNCHANGED <<transcripts, child, sidecar>>

TailStep == LocateById \/ LocateNewest \/ ReadLine \/ ReadToEnd \/ Post

Next ==
  \/ \E c \in Conv : Write(c)
  \/ Launch \/ ChildExits \/ Boot \/ Drain \/ Exit
  \/ GiveUp \/ TailStep

Spec == Init /\ [][Next]_vars

\* The tailer polls as long as its process runs.
FairSpec == Spec /\ WF_vars(TailStep)

-----------------------------------------------------------------------------
(* Properties.                                                             *)

EventsOf(c, n) ==
  FlattenSeq([i \in 1..n |->
    LET events == translateRolloutEntry(lines[c][i])
    IN [j \in DOMAIN events |-> [line |-> i, event |-> events[j]]]])

\* What is posted are the events of the lines read, in their order, each once: no
\* line is lost or garbled because it was read while Claude Code was writing it.
FollowsTranscript ==
  tail.target # "none" => sent \o tail.posts = EventsOf(tail.target, tail.at)

\* Once the tailer has caught up and no post was lost, the session is idle
\* exactly when the transcript's last entry ends a turn ("without it PTY turns
\* never close").
Ends == {"end_turn", "max_tokens"}
TurnsClose ==
  tail.pc = "tail" /\ tail.at = Len(lines[tail.target]) /\ lost = 0 =>
    (session = "idle" <=> tail.at = 0 \/ lines[tail.target][tail.at] \in Ends)

\* Every line of the followed transcript is posted, as long as the sidecar runs.
EventuallyPosted ==
  \A n \in 1..MaxLines :
    (tail.target # "none" /\ \E c \in Conv : tail.target = c /\ Len(lines[c]) >= n)
      ~> (sidecar # "serve" \/ \E i \in DOMAIN sent : sent[i].line = n)

\* locateRolloutFile "returns the path of claude's rollout for this session".  No
\* run lists it: another session in the same directory breaks it (README,
\* Departures).
OwnTranscript == tail.target \in {"none", "own"}
=============================================================================
