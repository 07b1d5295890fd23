--------------------------- MODULE TurnLoopProofs ---------------------------
(***************************************************************************)
(* One Claude Code at a time, no waiter closed twice, no stall reported    *)
(* for a message that was answered and no waiting request left behind, and *)
(* the promises of Requests kept, for any number of messages, processes,   *)
(* unprompted turns and signals, with or without watchdog and crashes.     *)
(***************************************************************************)
EXTENDS TurnLoop, FiniteSetTheorems, TLAPS

-----------------------------------------------------------------------------
(* The invariant of the loop.                                              *)

\* The message is one of the sequence.
Within(m, s) == \E i \in 1..Len(s) : s[i] = m

\* A request past the spawn has a message and a process.
Handles ==
  /\ cur <= last
  /\ pc \in {"arm", "write", "await", "abandon"} => cur \in Msg /\ proc \in Gen

\* done is closed after the death; only the last process spawned may live; a
\* respawn is under way only if that one is done.
LastLives ==
  /\ \A g \in done : cc[g] = "dead"
  /\ \A g \in Gen : cc[g] \in {"running", "mute"} => g = proc
  /\ pc = "spawn" => ~Alive

\* Messages no waiter was armed for yet, and messages not written yet.
Unarmed(m) == m > last \/ (m = cur /\ pc \in {"spawn", "arm"})
Unsent(m)  == m > last \/ (m = cur /\ pc \in {"spawn", "arm", "write"})

\* An armed waiter is open, and so is one that was never armed.
OpenWaiters ==
  \A m \in Msg : /\ closes[m] <= 1
                 /\ turnWaiter = m => closes[m] = 0
                 /\ Unarmed(m) => closes[m] = 0 /\ turnWaiter # m

\* The waiter of the request that waits is armed, or was closed.
Armed == pc \in {"write", "await", "abandon"} => turnWaiter = cur \/ closes[cur] > 0

\* A message not written is nowhere in Claude Code, and has no answer.
Somewhere(m) ==
  m \in answered \/ \E g \in Gen : turn[g] = m \/ Within(m, inbox[g]) \/ Within(m, out[g])

Nowhere == \A m \in Msg : Unsent(m) => ~Somewhere(m)

\* If the message waited for is answered and its waiter is open, a reader is
\* about to close it.
AnswerSignalled ==
  pc = "await" /\ cur \in answered /\ turnWaiter = cur => \E g \in Gen : reader[g] = "result"

LoopInv ==
  TypeOK /\ Handles /\ LastLives /\ OpenWaiters /\ Armed /\ Nowhere /\ AnswerSignalled

-----------------------------------------------------------------------------
(* What is added for its deaths and its releases.                          *)

\* The process the watchdog has killed last keeps its mark until the next one.
MarkKept ==
  /\ proc \in Gen => cc[proc] # "none"
  /\ died \subseteq done
  /\ \A g \in deliberate : cc[g] # "none"
  /\ deliberate # {} => proc \in Gen
  /\ proc \in deliberate => killedByWatchdog /\ proc \notin died

\* A message that is waited for, or was, was written to a process.
Written ==
  /\ \A m \in Msg : Unsent(m) => sentTo[m] = None
  /\ \A m \in returned : sentTo[m] \in Gen /\ cc[sentTo[m]] # "none"
  /\ pc \in {"await", "abandon"} => sentTo[cur] \in Gen /\ cc[sentTo[cur]] # "none"
  /\ \A g \in Gen : cc[g] # "none" <=> reader[g] # "none"

-----------------------------------------------------------------------------
(* Sequences.                                                              *)

\* What Tail holds,
LEMMA Tails ==
  ASSUME NEW S, NEW s \in Seq(S), s # <<>>
  PROVE  /\ Head(s) \in S /\ Tail(s) \in Seq(S) /\ Within(Head(s), s)
         /\ \A m : Within(m, Tail(s)) => Within(m, s)
<1>1. Len(s) \in Nat /\ 1 \in 1..Len(s) /\ Head(s) = s[1] /\ Len(Tail(s)) = Len(s) - 1
  OBVIOUS
<1>2. \A i \in 1..Len(Tail(s)) : i + 1 \in 1..Len(s) /\ Tail(s)[i] = s[i + 1]
  OBVIOUS
<1>3. Head(s) \in S /\ Tail(s) \in Seq(S)
  OBVIOUS
<1> QED
  BY <1>1, <1>2, <1>3 DEF Within

\* ... what Append holds,
LEMMA Appends ==
  ASSUME NEW S, NEW s \in Seq(S), NEW e \in S
  PROVE  /\ Append(s, e) \in Seq(S)
         /\ \A m : Within(m, Append(s, e)) => Within(m, s) \/ m = e
  BY DEF Within

\* ... and a prefix.
LEMMA Prefixes ==
  ASSUME NEW S, NEW s \in Seq(S), NEW t \in Truncated(s)
  PROVE  /\ t \in Seq(S) /\ \A m : Within(m, t) => Within(m, s)
<1>1. PICK n \in 0..Len(s) : t = SubSeq(s, 1, n)
  BY DEF Truncated
<1>2. t \in Seq(S) /\ Len(t) = n /\ \A i \in 1..n : t[i] = s[i]
  BY <1>1
<1>3. Len(s) \in Nat /\ \A i \in 1..n : i \in 1..Len(s)
  OBVIOUS
<1> QED
  BY <1>2, <1>3 DEF Within

\* A turn nobody asked for is no message's.
LEMMA OwnUnasked == \A m \in Msg : m # Own /\ m # None
  BY TurnAssumption DEF Msg, Own, None

-----------------------------------------------------------------------------
(* Types.                                                                  *)

\* Every action keeps the types; a request that writes has a message and a process.
LEMMA TypesKept ==
  ASSUME LoopInv, Next
  PROVE  TypeOK'
<1>0. TypeOK
  BY DEF LoopInv
<1> USE <1>0
<1>1. ASSUME NEW g \in Gen, BeginTurn(g) PROVE TypeOK'
  <2>1. CASE inbox[g] # <<>> /\ turn' = [turn EXCEPT ![g] = Head(inbox[g])]
             /\ inbox' = [inbox EXCEPT ![g] = Tail(@)] /\ UNCHANGED own
    <3>1. inbox[g] \in Seq(Msg)
      BY DEF TypeOK
    <3>2. Head(inbox[g]) \in Msg /\ Tail(inbox[g]) \in Seq(Msg)
      BY <2>1, <3>1, Tails
    <3> QED
      <4>1. turn' \in [Gen -> Turn \cup {None}] /\ inbox' \in [Gen -> Seq(Msg)]
        BY <2>1, <3>2 DEF TypeOK, Turn
      <4>2. UNCHANGED <<cc, killed, done, out, own, reader, waits, log, disp, ends>>
        BY <1>1, <2>1 DEF BeginTurn
      <4>3. UNCHANGED <<turnWaiter, closes, answered, unasked, stalled, returned, sentTo, died,
                       deliberate>>
        BY <4>2 DEF waits, log
      <4>4. UNCHANGED <<pc, cur, last, proc, killedByWatchdog, sigs, buffered, sigGo, ctxDone, exited>>
        BY <4>2 DEF disp, ends
      <4>5. /\ cc' \in [Gen -> {"none", "running", "mute", "dead"}]
            /\ killed' \subseteq Gen /\ done' \subseteq Gen
            /\ out' \in [Gen -> Seq(Turn)] /\ own' \in 0..MaxOwn
            /\ reader' \in [Gen -> {"none", "read", "result", "eof", "leave", "gone"}]
        BY <4>2 DEF TypeOK
      <4>6. /\ turnWaiter' \in Msg \cup {None} /\ closes' \in [Msg -> Nat]
            /\ answered' \subseteq Msg /\ stalled' \subseteq Msg /\ returned' \subseteq Msg
            /\ unasked' \in Nat /\ sentTo' \in [Msg -> Gen \cup {None}]
            /\ died' \subseteq Gen /\ deliberate' \subseteq Gen
        BY <4>3 DEF TypeOK
      <4>7. /\ pc' \in {"idle", "spawn", "arm", "write", "await", "abandon", "stop"}
            /\ cur' \in Msg \cup {None} /\ last' \in 0..MaxMessages
            /\ proc' \in Gen \cup {None} /\ killedByWatchdog' \in BOOLEAN
            /\ sigs' \in 0..MaxSignals /\ buffered' \in {"none", "INT", "TERM"}
            /\ sigGo' \in {"wait", "stop", "gone"}
            /\ ctxDone' \in BOOLEAN /\ exited' \in BOOLEAN
        BY <4>4 DEF TypeOK
      <4> HIDE <1>0
      <4> QED
        BY <4>1, <4>5, <4>6, <4>7 DEF TypeOK
  <2>2. CASE own < MaxOwn /\ own' = own + 1 /\ turn' = [turn EXCEPT ![g] = Own]
             /\ UNCHANGED inbox
    BY <1>1, <2>2, TurnAssumption DEF BeginTurn, TypeOK, Turn, waits, log, disp, ends
  <2> QED
    BY <1>1, <2>1, <2>2 DEF BeginTurn
<1>2. ASSUME NEW g \in Gen, EndTurn(g) PROVE TypeOK'
  <2>1. out[g] \in Seq(Turn) /\ turn[g] \in Turn
    BY <1>2 DEF TypeOK, EndTurn
  <2>2. Append(out[g], turn[g]) \in Seq(Turn)
    BY <2>1, Appends
  <2> QED
    BY <1>2, <2>2 DEF EndTurn, TypeOK, waits, log, disp, ends
<1>3. ASSUME NEW g \in Gen, CloseStdout(g) \/ Die(g) PROVE TypeOK'
  <2>1. cc' \in [Gen -> {"none", "running", "mute", "dead"}]
    BY <1>3 DEF CloseStdout, Die, TypeOK
  <2>2. UNCHANGED <<killed, done, inbox, turn, out, own, reader, waits, log, disp, ends>>
    BY <1>3 DEF CloseStdout, Die
  <2> QED
    BY <2>1, <2>2 DEF TypeOK, waits, log, disp, ends
<1>4. ASSUME NEW g \in Gen, ProcessExits(g) PROVE TypeOK'
  <2>1. PICK rest \in Truncated(out[g]) : out' = [out EXCEPT ![g] = rest]
    BY <1>4 DEF ProcessExits
  <2>2. out[g] \in Seq(Turn)
    BY DEF TypeOK
  <2>3. rest \in Seq(Turn)
    BY <2>2, Prefixes
  <2> QED
    BY <1>4, <2>1, <2>3 DEF ProcessExits, TypeOK, waits, log, disp, ends
<1>5. ASSUME NEW g \in Gen, ReadResult(g) PROVE TypeOK'
  <2>1. Tail(out[g]) \in Seq(Turn)
    BY <1>5, Tails DEF TypeOK, ReadResult
  <2> QED
    BY <1>5, <2>1 DEF ReadResult, TypeOK, waits, disp, ends
<1>6. signalTurnEnd => turnWaiter' \in Msg \cup {None} /\ closes' \in [Msg -> Nat]
  BY DEF signalTurnEnd, TypeOK
<1>7. ASSUME NEW g \in Gen, TurnEnds(g) \/ ReadEOF(g) \/ ReaderLeaves(g) PROVE TypeOK'
  <2>1. reader' \in [Gen -> {"none", "read", "result", "eof", "leave", "gone"}]
    BY <1>7 DEF TurnEnds, ReadEOF, ReaderLeaves, TypeOK
  <2>2. turnWaiter' \in Msg \cup {None} /\ closes' \in [Msg -> Nat]
    BY <1>6, <1>7 DEF TurnEnds, ReadEOF, ReaderLeaves, TypeOK, waits
  <2> QED
    <3>1. UNCHANGED <<claude, log, disp, ends>>
      BY <1>7 DEF TurnEnds, ReadEOF, ReaderLeaves
    <3>2. UNCHANGED <<cc, killed, done, inbox, turn, out, own>>
      BY <3>1 DEF claude
    <3>3. UNCHANGED <<pc, cur, last, proc, killedByWatchdog>>
      BY <3>1 DEF disp
    <3>4. UNCHANGED <<answered, unasked, stalled, returned, sentTo, died, deliberate>>
      BY <3>1 DEF log
    <3>5. UNCHANGED <<sigs, buffered, sigGo, ctxDone, exited>>
      BY <3>1 DEF ends
    <3>6. /\ cc' \in [Gen -> {"none", "running", "mute", "dead"}]
          /\ killed' \subseteq Gen /\ done' \subseteq Gen
          /\ inbox' \in [Gen -> Seq(Msg)] /\ turn' \in [Gen -> Turn \cup {None}]
          /\ out' \in [Gen -> Seq(Turn)] /\ own' \in 0..MaxOwn
      BY <3>2 DEF TypeOK
    <3>7. /\ answered' \subseteq Msg /\ stalled' \subseteq Msg /\ returned' \subseteq Msg
          /\ unasked' \in Nat /\ sentTo' \in [Msg -> Gen \cup {None}]
          /\ died' \subseteq Gen /\ deliberate' \subseteq Gen
      BY <3>4 DEF TypeOK
    <3>8. /\ pc' \in {"idle", "spawn", "arm", "write", "await", "abandon", "stop"}
          /\ cur' \in Msg \cup {None} /\ last' \in 0..MaxMessages
          /\ proc' \in Gen \cup {None} /\ killedByWatchdog' \in BOOLEAN
      BY <3>3 DEF TypeOK
    <3>9. /\ sigs' \in 0..MaxSignals /\ buffered' \in {"none", "INT", "TERM"}
          /\ sigGo' \in {"wait", "stop", "gone"}
          /\ ctxDone' \in BOOLEAN /\ exited' \in BOOLEAN
      BY <3>5 DEF TypeOK
    <3> HIDE <1>0
    <3> QED
      BY <2>1, <2>2, <3>6, <3>7, <3>8, <3>9 DEF TypeOK
<1>8. ASSUME NEW g \in Gen, handleProcessExit(g) PROVE TypeOK'
  BY <1>8 DEF handleProcessExit, TypeOK, claude, waits, disp, ends
<1>9. ASSUME TakeMessage \/ TakeCompact \/ TakeStart PROVE TypeOK'
  <2>1. last' \in 0..MaxMessages /\ cur' \in Msg \cup {None}
    BY <1>9, TurnAssumption DEF TakeMessage, TakeCompact, TakeStart, TypeOK, Msg, None
  <2>2. pc' \in {"idle", "spawn", "arm"}
    BY <1>9 DEF TakeMessage, TakeCompact, TakeStart
  <2> QED
    BY <1>9, <2>1, <2>2 DEF TakeMessage, TakeCompact, TakeStart, TypeOK, claude, waits, log, ends
<1>10. ASSUME NEW s \in {"INT", "TERM"}, SendSignal(s) PROVE TypeOK'
  BY <1>10, TurnAssumption DEF SendSignal, TypeOK, claude, waits, log, disp
<1>11. ASSUME StdinClosed \/ HandleTerminate PROVE TypeOK'
  BY <1>11 DEF StdinClosed, HandleTerminate, Shutdown, Alive, TypeOK, waits, log
<1>12. ASSUME HandleInterrupt \/ Exit PROVE TypeOK'
  <2>1. CASE HandleInterrupt
    <3>1. killed' \subseteq Gen /\ buffered' = "none" /\ sigGo' = "gone"
          /\ UNCHANGED <<cc, done, inbox, turn, out, own, reader, waits, log, disp, sigs,
                         ctxDone, exited>>
      BY <2>1 DEF HandleInterrupt, Alive, TypeOK
    <3> QED
      BY <3>1 DEF TypeOK, waits, log, disp
  <2>2. CASE Exit
    BY <2>2 DEF Exit, TypeOK, claude, waits, log, disp
  <2> QED
    BY <1>12, <2>1, <2>2
<1>13. ASSUME registerTurnWaiter PROVE TypeOK'
  BY <1>13 DEF registerTurnWaiter, Handles, TypeOK, claude, log, ends
<1>14. ASSUME NEW g \in Gen, Spawn(g) PROVE TypeOK'
  BY <1>14 DEF Spawn, TypeOK, waits, log, ends
<1>15. ASSUME SpawnFails \/ Return \/ WatchdogFires PROVE TypeOK'
  BY <1>15 DEF LoopInv, SpawnFails, Return, WatchdogFires, Handles, TypeOK, claude, waits, log,
     ends
<1>16. ASSUME WriteMessage PROVE TypeOK'
  <2>1. cur \in Msg /\ proc \in Gen
    BY <1>16 DEF LoopInv, WriteMessage, Handles
  <2>2. Append(inbox[proc], cur) \in Seq(Msg)
    BY <2>1, Appends DEF TypeOK
  <2>3. inbox' \in [Gen -> Seq(Msg)] /\ sentTo' \in [Msg -> Gen \cup {None}]
    <3>1. CASE /\ inbox' = [inbox EXCEPT ![proc] = Append(@, cur)]
               /\ sentTo' = [sentTo EXCEPT ![cur] = proc]
      BY <3>1, <2>1, <2>2 DEF TypeOK
    <3>2. CASE UNCHANGED <<inbox, sentTo>>
      BY <3>2 DEF TypeOK
    <3> QED
      BY <1>16, <3>1, <3>2 DEF WriteMessage
  <2>4. turnWaiter' \in Msg \cup {None} /\ closes' \in [Msg -> Nat] /\ pc' \in {"await", "idle"}
    BY <1>16, <1>6 DEF WriteMessage, TypeOK, waits
  <2> QED
    <3>1. UNCHANGED <<cc, killed, done, turn, out, own, reader, cur, last, proc, killedByWatchdog,
                      answered, unasked, stalled, returned, died, deliberate, ends>>
      BY <1>16 DEF WriteMessage
    <3> QED
      BY <2>3, <2>4, <3>1 DEF TypeOK, ends
<1>17. ASSUME WatchdogKills PROVE TypeOK'
  BY <1>17 DEF LoopInv, WatchdogKills, Handles, TypeOK, waits, ends
<1> QED
  BY <1>1, <1>2, <1>3, <1>4, <1>5, <1>7, <1>8, <1>9, <1>10, <1>11, <1>12, <1>13, <1>14, <1>15, <1>16, <1>17
  DEF Next, Claude, Reader, Server, Dispatcher, Signals

-----------------------------------------------------------------------------
(* One conjunct each.                                                      *)

\* A request is taken by number, and armed only with a process.
LEMMA HandlesKept ==
  ASSUME LoopInv, Next
  PROVE  Handles'
<1> USE DEF LoopInv
<1>1. UNCHANGED <<pc, cur, last, proc>> => Handles'
  BY DEF Handles
<1>2. pc' \in {"idle", "spawn", "stop"} /\ (UNCHANGED cur \/ cur' = None) /\ UNCHANGED last => Handles'
  BY DEF Handles, None, TypeOK
<1>3. (pc = "arm" \/ pc = "write" \/ pc = "await") /\ UNCHANGED <<cur, last, proc>> => Handles'
  BY DEF Handles
<1>4. ASSUME NEW g \in Gen, Claude(g) \/ ProcessExits(g) \/ Reader(g) PROVE Handles'
  BY <1>1, <1>4 DEF Claude, Reader, BeginTurn, EndTurn, CloseStdout, Die, ProcessExits,
     ReadResult, TurnEnds, ReadEOF, handleProcessExit, ReaderLeaves, disp
<1>5. ASSUME TakeMessage \/ TakeCompact PROVE Handles'
  <2>1. last + 1 \in Msg
    BY <1>5, TurnAssumption DEF TakeMessage, TakeCompact, TypeOK, Msg
  <2>2. Alive => proc \in Gen
    BY DEF Alive, TypeOK
  <2>3. cur' <= last'
    BY <1>5, <2>1 DEF TakeMessage, TakeCompact, Handles, TypeOK, Msg, None
  <2> QED
    BY <1>5, <2>1, <2>2, <2>3 DEF TakeMessage, TakeCompact, Handles, TypeOK
<1>6. ASSUME NEW g \in Gen, Spawn(g) PROVE Handles'
  BY <1>6 DEF Spawn, Handles, TypeOK
<1>7. ASSUME registerTurnWaiter \/ WriteMessage \/ Return \/ WatchdogFires PROVE Handles'
  BY <1>2, <1>3, <1>7 DEF registerTurnWaiter, WriteMessage, Return, WatchdogFires
<1>8. ASSUME TakeStart \/ StdinClosed \/ SpawnFails \/ WatchdogKills PROVE Handles'
  BY <1>2, <1>8 DEF TakeStart, StdinClosed, Shutdown, SpawnFails, WatchdogKills
<1>9. ASSUME Signals \/ \E s \in {"INT", "TERM"} : SendSignal(s) PROVE Handles'
  BY <1>1, <1>9 DEF Signals, HandleInterrupt, HandleTerminate, Shutdown, Exit, SendSignal, disp
<1> QED
  BY <1>4, <1>5, <1>6, <1>7, <1>8, <1>9 DEF Next, Server, Dispatcher

\* A respawn begins once the last process is done, and done stays closed.
LEMMA LastLivesKept ==
  ASSUME LoopInv, Next
  PROVE  LastLives'
<1> USE DEF LoopInv
<1>1. UNCHANGED <<cc, done, pc, proc>> => LastLives'
  BY DEF LastLives, Alive
<1>2. UNCHANGED <<cc, done, proc>> /\ pc' # "spawn" => LastLives'
  BY DEF LastLives, Alive
<1>3. ASSUME NEW g \in Gen, BeginTurn(g) \/ EndTurn(g) \/ Reader(g) PROVE LastLives'
  BY <1>1, <1>3 DEF BeginTurn, EndTurn, Reader, ReadResult, TurnEnds, ReadEOF,
     handleProcessExit, ReaderLeaves, disp, claude
<1>4. ASSUME NEW g \in Gen, CloseStdout(g) \/ Die(g) PROVE LastLives'
  <2>1. /\ cc[g] \in {"running", "mute"} /\ cc' = [cc EXCEPT ![g] = cc'[g]]
        /\ cc'[g] \in {"mute", "dead"} /\ UNCHANGED <<done, pc, proc>>
    BY <1>4 DEF CloseStdout, Die, Works, TypeOK, disp
  <2> QED
    BY <2>1 DEF LastLives, Alive, TypeOK
<1>5. ASSUME NEW g \in Gen, ProcessExits(g) PROVE LastLives'
  BY <1>5 DEF ProcessExits, LastLives, Alive, disp
<1>6. ASSUME TakeMessage \/ TakeCompact \/ TakeStart PROVE LastLives'
  BY <1>6 DEF TakeMessage, TakeCompact, TakeStart, LastLives, Alive, claude
<1>7. ASSUME NEW g \in Gen, Spawn(g) PROVE LastLives'
  <2>1. \A k \in Gen : cc[k] \notin {"running", "mute"}
    BY <1>7, TurnAssumption DEF Spawn, LastLives, Alive, TypeOK, Gen, None
  <2>2. /\ cc' = [cc EXCEPT ![g] = "running"] /\ proc' = g /\ done' = done
        /\ cc[g] = "none" /\ pc' # "spawn"
    BY <1>7 DEF Spawn
  <2> QED
    BY <2>1, <2>2 DEF LastLives, TypeOK
<1>8. ASSUME registerTurnWaiter \/ SpawnFails \/ WriteMessage \/ Return \/ WatchdogFires
             \/ WatchdogKills \/ StdinClosed PROVE LastLives'
  BY <1>2, <1>8 DEF registerTurnWaiter, SpawnFails, WriteMessage, Return, WatchdogFires,
     WatchdogKills, StdinClosed, Shutdown, claude
<1>9. ASSUME Signals \/ \E s \in {"INT", "TERM"} : SendSignal(s) PROVE LastLives'
  BY <1>1, <1>9 DEF Signals, HandleInterrupt, HandleTerminate, Shutdown, Exit, SendSignal, disp, claude
<1> QED
  BY <1>3, <1>4, <1>5, <1>6, <1>7, <1>8, <1>9 DEF Next, Claude, Server, Dispatcher

\* Closing the waiter that is armed, if one is, keeps every waiter closed at most
\* once.
LEMMA CloseArmed ==
  ASSUME LoopInv, signalTurnEnd, \A m \in Msg : Unarmed(m)' => Unarmed(m)
  PROVE  OpenWaiters'
  BY DEF LoopInv, TypeOK, OpenWaiters, signalTurnEnd, None, Msg

\* Waiters are closed where they are armed, and armed for new messages only.
LEMMA OpenWaitersKept ==
  ASSUME LoopInv, Next
  PROVE  OpenWaiters'
<1> USE DEF LoopInv
<1>1. UNCHANGED <<waits, pc, cur, last>> => OpenWaiters'
  BY DEF OpenWaiters, Unarmed, waits
<1>2. UNCHANGED waits /\ (\A m \in Msg : Unarmed(m)' => Unarmed(m)) => OpenWaiters'
  BY DEF OpenWaiters, waits
<1>3. ASSUME NEW g \in Gen, Claude(g) \/ ProcessExits(g) \/ ReadResult(g) \/ ReadEOF(g)
             \/ handleProcessExit(g) PROVE OpenWaiters'
  BY <1>1, <1>3 DEF Claude, BeginTurn, EndTurn, CloseStdout, Die, ProcessExits,
     ReadResult, ReadEOF, handleProcessExit, disp
<1>4. ASSUME NEW g \in Gen, TurnEnds(g) \/ ReaderLeaves(g) PROVE OpenWaiters'
  BY <1>4, CloseArmed DEF TurnEnds, ReaderLeaves, disp, Unarmed
<1>5. ASSUME TakeMessage \/ TakeCompact \/ TakeStart PROVE OpenWaiters'
  <2>1. \A m \in Msg : Unarmed(m)' => Unarmed(m)
    BY <1>5 DEF TakeMessage, TakeCompact, TakeStart, Unarmed, TypeOK, Msg, None
  <2> QED
    BY <1>2, <1>5, <2>1 DEF TakeMessage, TakeCompact, TakeStart
<1>6. ASSUME registerTurnWaiter PROVE OpenWaiters'
  <2>1. cur \in Msg /\ Unarmed(cur)
    BY <1>6 DEF registerTurnWaiter, Handles, Unarmed
  <2>2. \A m \in Msg : Unarmed(m)' => Unarmed(m) /\ m # cur
    BY <1>6 DEF registerTurnWaiter, Handles, Unarmed, TypeOK, Msg
  <2> QED
    BY <1>6, <2>1, <2>2 DEF registerTurnWaiter, OpenWaiters, TypeOK, Msg, None
<1>7. ASSUME (\E g \in Gen : Spawn(g)) \/ SpawnFails \/ Return \/ WatchdogFires
             \/ WatchdogKills \/ StdinClosed PROVE OpenWaiters'
  <2>1. \A m \in Msg : Unarmed(m)' => Unarmed(m)
    BY <1>7 DEF Spawn, SpawnFails, Return, WatchdogFires, WatchdogKills, StdinClosed, Shutdown, Unarmed
  <2>2. UNCHANGED waits
    BY <1>7 DEF Spawn, SpawnFails, Return, WatchdogFires, WatchdogKills, StdinClosed, Shutdown
  <2> QED
    BY <1>2, <2>1, <2>2
<1>8. ASSUME WriteMessage PROVE OpenWaiters'
  <2>1. \A m \in Msg : Unarmed(m)' => Unarmed(m)
    BY <1>8 DEF WriteMessage, Unarmed
  <2>2. signalTurnEnd \/ UNCHANGED waits
    BY <1>8 DEF WriteMessage
  <2> QED
    BY <1>2, <2>1, <2>2, CloseArmed
<1>9. ASSUME Signals \/ \E s \in {"INT", "TERM"} : SendSignal(s) PROVE OpenWaiters'
  BY <1>1, <1>9 DEF Signals, HandleInterrupt, HandleTerminate, Shutdown, Exit, SendSignal, disp
<1> QED
  BY <1>3, <1>4, <1>5, <1>6, <1>7, <1>8, <1>9 DEF Next, Reader, Server, Dispatcher

\* The waiter of the request that waits is not taken away unclosed.
LEMMA ArmedKept ==
  ASSUME LoopInv, Next
  PROVE  Armed'
<1> USE DEF LoopInv
<1>1. UNCHANGED <<waits, pc, cur>> => Armed'
  BY DEF Armed, waits
<1>2. pc' \notin {"write", "await", "abandon"} => Armed'
  BY DEF Armed
<1>3. ASSUME NEW g \in Gen, Claude(g) \/ ProcessExits(g) \/ ReadResult(g) \/ ReadEOF(g)
             \/ handleProcessExit(g) PROVE Armed'
  BY <1>1, <1>3 DEF Claude, BeginTurn, EndTurn, CloseStdout, Die, ProcessExits,
     ReadResult, ReadEOF, handleProcessExit, disp
<1>4. ASSUME NEW g \in Gen, TurnEnds(g) \/ ReaderLeaves(g) PROVE Armed'
  <2>1. signalTurnEnd /\ UNCHANGED disp
    BY <1>4 DEF TurnEnds, ReaderLeaves
  <2>2. \A m \in Msg : closes'[m] >= closes[m] /\ (turnWaiter = m => closes'[m] > 0)
    <3>1. closes \in [Msg -> Nat] /\ turnWaiter \in Msg \cup {None}
      BY DEF TypeOK
    <3>2. CASE turnWaiter = None
      BY <2>1, <3>1, <3>2, OwnUnasked DEF signalTurnEnd
    <3>3. CASE turnWaiter \in Msg
      <4>1. closes' = [closes EXCEPT ![turnWaiter] = @ + 1]
        BY <2>1, <3>3, OwnUnasked DEF signalTurnEnd
      <4> QED
        BY <3>1, <3>3, <4>1
    <3> QED
      BY <3>1, <3>2, <3>3
  <2>3. closes \in [Msg -> Nat] /\ closes' \in [Msg -> Nat]
    BY <2>1 DEF signalTurnEnd, TypeOK
  <2> QED
    BY <2>1, <2>2, <2>3 DEF Armed, Handles, disp
<1>5. ASSUME Server PROVE Armed'
  BY <1>1, <1>2, <1>5 DEF Server, TakeMessage, TakeCompact, TakeStart, StdinClosed, SendSignal, disp
<1>6. ASSUME registerTurnWaiter PROVE Armed'
  BY <1>6 DEF registerTurnWaiter, Armed
<1>7. ASSUME WriteMessage \/ WatchdogFires PROVE Armed'
  BY <1>7 DEF WriteMessage, WatchdogFires, Armed, waits
<1>8. ASSUME (\E g \in Gen : Spawn(g)) \/ SpawnFails \/ Return \/ WatchdogKills PROVE Armed'
  BY <1>2, <1>8 DEF Spawn, SpawnFails, Return, WatchdogKills
<1>9. ASSUME Signals PROVE Armed'
  BY <1>1, <1>9 DEF Signals, HandleInterrupt, HandleTerminate, Shutdown, Exit, disp
<1> QED
  BY <1>3, <1>4, <1>5, <1>6, <1>7, <1>8, <1>9 DEF Next, Reader, Dispatcher

\* No step unwrites a message.
LEMMA UnsentShrinks ==
  ASSUME LoopInv, Next
  PROVE  \A m \in Msg : Unsent(m)' => Unsent(m)
<1> USE DEF LoopInv
<1>1. UNCHANGED <<pc, cur, last>> => \A m \in Msg : Unsent(m)' => Unsent(m)
  BY DEF Unsent
<1>2. ASSUME NEW g \in Gen, Claude(g) \/ ProcessExits(g) \/ Reader(g)
      PROVE  \A m \in Msg : Unsent(m)' => Unsent(m)
  BY <1>1, <1>2 DEF Claude, Reader, BeginTurn, EndTurn, CloseStdout, Die, ProcessExits,
     ReadResult, TurnEnds, ReadEOF, handleProcessExit, ReaderLeaves, disp
<1>3. ASSUME Server PROVE \A m \in Msg : Unsent(m)' => Unsent(m)
  BY <1>3 DEF Server, TakeMessage, TakeCompact, TakeStart, StdinClosed, Shutdown, SendSignal, disp,
     Unsent, TypeOK, Msg, None
<1>4. ASSUME Dispatcher PROVE \A m \in Msg : Unsent(m)' => Unsent(m)
  BY <1>4 DEF Dispatcher, registerTurnWaiter, Spawn, SpawnFails, WriteMessage, Return,
     WatchdogFires, WatchdogKills, Unsent
<1>5. ASSUME Signals PROVE \A m \in Msg : Unsent(m)' => Unsent(m)
  BY <1>1, <1>5 DEF Signals, HandleInterrupt, HandleTerminate, Shutdown, Exit, disp
<1> QED
  BY <1>2, <1>3, <1>4, <1>5 DEF Next

\* A message appears only where the dispatcher writes it.
LEMMA WrittenAppears ==
  ASSUME LoopInv, Next, NEW m \in Msg, Somewhere(m)'
  PROVE  Somewhere(m) \/ ~Unsent(m)'
<1> USE DEF LoopInv
<1>1. UNCHANGED <<answered, turn, inbox, out>> => Somewhere(m)
  BY DEF Somewhere
<1>2. \A g \in Gen : inbox[g] \in Seq(Msg) /\ out[g] \in Seq(Turn)
  BY DEF TypeOK
<1>3. ASSUME NEW g \in Gen, BeginTurn(g) PROVE Somewhere(m)
  <2>1. CASE UNCHANGED inbox /\ turn' = [turn EXCEPT ![g] = Own]
    BY <1>3, <2>1, OwnUnasked DEF BeginTurn, Somewhere, TypeOK, log
  <2>2. CASE /\ inbox[g] # <<>> /\ turn' = [turn EXCEPT ![g] = Head(inbox[g])]
             /\ inbox' = [inbox EXCEPT ![g] = Tail(@)]
    <3>1. Within(Head(inbox[g]), inbox[g]) /\ \A k : Within(k, Tail(inbox[g])) => Within(k, inbox[g])
      BY <1>2, <2>2, Tails
    <3> QED
      BY <1>3, <2>2, <3>1 DEF BeginTurn, Somewhere, TypeOK, log
  <2> QED
    BY <1>3, <2>1, <2>2 DEF BeginTurn
<1>4. ASSUME NEW g \in Gen, EndTurn(g) PROVE Somewhere(m)
  <2>1. turn[g] \in Turn
    BY <1>4 DEF EndTurn, TypeOK
  <2>2. \A k : Within(k, Append(out[g], turn[g])) => Within(k, out[g]) \/ k = turn[g]
    BY <1>2, <2>1, Appends
  <2> QED
    BY <1>4, <2>2 DEF EndTurn, Somewhere, TypeOK, log, Msg, None
<1>5. ASSUME NEW g \in Gen, ProcessExits(g) PROVE Somewhere(m)
  <2>1. PICK rest \in Truncated(out[g]) : out' = [out EXCEPT ![g] = rest]
    BY <1>5 DEF ProcessExits
  <2>2. \A k : Within(k, rest) => Within(k, out[g])
    BY <1>2, Prefixes
  <2> QED
    BY <1>5, <2>1, <2>2 DEF ProcessExits, Somewhere, TypeOK, log
<1>6. ASSUME NEW g \in Gen, ReadResult(g) PROVE Somewhere(m)
  <2>1. Within(Head(out[g]), out[g]) /\ \A k : Within(k, Tail(out[g])) => Within(k, out[g])
    BY <1>2, <1>6, Tails DEF ReadResult
  <2> QED
    BY <1>6, <2>1 DEF ReadResult, Somewhere, TypeOK
<1>7. ASSUME NEW g \in Gen, CloseStdout(g) \/ Die(g) \/ TurnEnds(g) \/ ReadEOF(g)
             \/ handleProcessExit(g) \/ ReaderLeaves(g) PROVE Somewhere(m)
  BY <1>1, <1>7 DEF CloseStdout, Die, TurnEnds, ReadEOF, handleProcessExit, ReaderLeaves, log, claude
<1>8. ASSUME WriteMessage PROVE Somewhere(m) \/ ~Unsent(m)'
  <2>1. cur \in Msg /\ proc \in Gen
    BY <1>8 DEF WriteMessage, Handles
  <2>2. CASE UNCHANGED inbox
    BY <1>1, <1>8, <2>2 DEF WriteMessage
  <2>3. CASE inbox' = [inbox EXCEPT ![proc] = Append(@, cur)] /\ pc' = "await"
    <3>1. \A k : Within(k, Append(inbox[proc], cur)) => Within(k, inbox[proc]) \/ k = cur
      BY <1>2, <2>1, Appends
    <3>2. Somewhere(m) \/ m = cur
      BY <1>8, <2>1, <2>3, <3>1 DEF WriteMessage, Somewhere, TypeOK
    <3> QED
      BY <1>8, <2>3, <3>2 DEF WriteMessage, Unsent, Handles, TypeOK, Msg
  <2> QED
    BY <1>8, <2>2, <2>3 DEF WriteMessage
<1>9. ASSUME Server \/ Signals PROVE Somewhere(m)
  BY <1>1, <1>9 DEF Server, TakeMessage, TakeCompact, TakeStart, StdinClosed, Shutdown, SendSignal,
     Signals, HandleInterrupt, HandleTerminate, Exit, log, claude
<1>10. ASSUME registerTurnWaiter \/ (\E g \in Gen : Spawn(g)) \/ SpawnFails \/ Return
              \/ WatchdogFires \/ WatchdogKills PROVE Somewhere(m)
  BY <1>1, <1>10 DEF registerTurnWaiter, Spawn, SpawnFails, Return, WatchdogFires, WatchdogKills,
     log, claude
<1> QED
  BY <1>3, <1>4, <1>5, <1>6, <1>7, <1>8, <1>9, <1>10 DEF Next, Claude, Reader, Dispatcher

\* So what is not written is nowhere.
LEMMA NowhereKept ==
  ASSUME LoopInv, Next
  PROVE  Nowhere'
  BY UnsentShrinks, WrittenAppears DEF LoopInv, Nowhere

\* The reader that emits the answer goes on to close the waiter.
LEMMA AnswerSignalledKept ==
  ASSUME LoopInv, Next
  PROVE  AnswerSignalled'
<1> USE DEF LoopInv
<1>1. UNCHANGED <<waits, pc, cur, answered, reader>> => AnswerSignalled'
  BY DEF AnswerSignalled, waits
<1>2. pc' # "await" => AnswerSignalled'
  BY DEF AnswerSignalled
<1>3. ASSUME NEW g \in Gen, Claude(g) \/ ProcessExits(g) PROVE AnswerSignalled'
  BY <1>1, <1>3 DEF Claude, BeginTurn, EndTurn, CloseStdout, Die, ProcessExits, log, disp
<1>4. ASSUME NEW g \in Gen, ReadResult(g) PROVE AnswerSignalled'
  BY <1>4 DEF ReadResult, AnswerSignalled, TypeOK
<1>5. ASSUME NEW g \in Gen, ReadEOF(g) \/ handleProcessExit(g) PROVE AnswerSignalled'
  <2>1. \A k \in Gen : reader[k] = "result" => reader'[k] = "result"
    BY <1>5 DEF ReadEOF, handleProcessExit, TypeOK
  <2> QED
    BY <1>5, <2>1 DEF ReadEOF, handleProcessExit, AnswerSignalled, log, disp, waits
<1>6. ASSUME NEW g \in Gen, TurnEnds(g) \/ ReaderLeaves(g) PROVE AnswerSignalled'
  BY <1>6 DEF TurnEnds, ReaderLeaves, signalTurnEnd, AnswerSignalled, Handles, disp, TypeOK, Msg, None
<1>7. ASSUME Server \/ Signals PROVE AnswerSignalled'
  BY <1>1, <1>2, <1>7 DEF Server, TakeMessage, TakeCompact, TakeStart, StdinClosed, Shutdown,
     SendSignal, Signals, HandleInterrupt, HandleTerminate, Exit, log, disp
<1>8. ASSUME WriteMessage PROVE AnswerSignalled'
  <2>1. cur \notin answered
    BY <1>8 DEF WriteMessage, Nowhere, Somewhere, Unsent, Handles
  <2> QED
    BY <1>2, <1>8, <2>1 DEF WriteMessage, AnswerSignalled
<1>9. ASSUME registerTurnWaiter \/ (\E g \in Gen : Spawn(g)) \/ SpawnFails \/ Return
              \/ WatchdogFires \/ WatchdogKills PROVE AnswerSignalled'
  BY <1>2, <1>9 DEF registerTurnWaiter, Spawn, SpawnFails, Return, WatchdogFires, WatchdogKills
<1> QED
  BY <1>3, <1>4, <1>5, <1>6, <1>7, <1>8, <1>9 DEF Next, Reader, Dispatcher

-----------------------------------------------------------------------------
(* The theorems.                                                           *)

\* The invariant holds at first, every step keeps it, so it holds always.
LEMMA InitLoop == Init => LoopInv
<1> SUFFICES ASSUME Init PROVE LoopInv
  OBVIOUS
<1>1. \A S : <<>> \in Seq(S) /\ Len(<<>>) = 0
  OBVIOUS
<1>2. \A m : ~Within(m, <<>>)
  BY <1>1 DEF Within
<1>3. TypeOK
  <2>1. closes \in [Msg -> Nat] /\ sentTo \in [Msg -> Gen \cup {None}]
    BY DEF Init
  <2>2. inbox \in [Gen -> Seq(Msg)] /\ out \in [Gen -> Seq(Turn)]
    BY <1>1 DEF Init
  <2>3. /\ cc \in [Gen -> {"none", "running", "mute", "dead"}]
        /\ reader \in [Gen -> {"none", "read", "result", "eof", "leave", "gone"}]
        /\ turn \in [Gen -> Turn \cup {None}]
    BY DEF Init
  <2>4. /\ own \in 0..MaxOwn /\ last \in 0..MaxMessages /\ sigs \in 0..MaxSignals
    BY TurnAssumption DEF Init
  <2> QED
    BY <2>1, <2>2, <2>3, <2>4 DEF Init, TypeOK
<1>4. Handles /\ LastLives /\ Armed /\ AnswerSignalled
  BY DEF Init, Handles, LastLives, Armed, AnswerSignalled, None
<1>5. OpenWaiters
  BY DEF Init, OpenWaiters, Msg, None
<1>6. Nowhere
  BY <1>2 DEF Init, Nowhere, Somewhere, Msg, None
<1> QED
  BY <1>3, <1>4, <1>5, <1>6 DEF LoopInv

LEMMA NextLoop == LoopInv /\ [Next]_vars => LoopInv'
<1> SUFFICES ASSUME LoopInv, [Next]_vars PROVE LoopInv'
  OBVIOUS
<1>1. CASE Next
  BY <1>1, TypesKept, HandlesKept, LastLivesKept, OpenWaitersKept, ArmedKept, NowhereKept,
     AnswerSignalledKept DEF LoopInv
<1>2. CASE UNCHANGED vars
  <2>1. TypeOK'
    BY <1>2 DEF vars, claude, waits, log, disp, ends, LoopInv, TypeOK
  <2>2. Handles' /\ LastLives' /\ OpenWaiters' /\ Armed' /\ AnswerSignalled'
    BY <1>2 DEF vars, claude, waits, log, disp, ends, LoopInv, Handles, LastLives, Alive,
       OpenWaiters, Unarmed, Armed, AnswerSignalled
  <2>3. Nowhere'
    BY <1>2 DEF vars, claude, waits, log, disp, ends, LoopInv, Nowhere, Somewhere, Unsent
  <2> QED
    BY <2>1, <2>2, <2>3 DEF LoopInv
<1> QED
  BY <1>1, <1>2

LEMMA LoopAlways == Spec => []LoopInv
<1>1. Init => LoopInv
  BY InitLoop
<1>2. LoopInv /\ [Next]_vars => LoopInv'
  BY NextLoop
<1> QED
  BY <1>1, <1>2, PTL DEF Spec

\* Every variable keeps its type; in particular a process number is one that was
\* spawned and a waiter is a message's (the fields of Harness, handler.go).
THEOREM LoopTypes == Spec => []TypeOK
<1>1. LoopInv => TypeOK
  BY DEF LoopInv
<1> QED
  BY <1>1, LoopAlways, PTL

\* One session never has two live Claude Code processes, however often it is
\* respawned and whatever was killed (handleMessage asks whether done is closed).
THEOREM NeverTwoClaudes == Spec => []OneClaude
<1>1. LoopInv => OneClaude
  <2> SUFFICES ASSUME LoopInv, NEW g \in Gen, NEW k \in Gen,
                      {cc[g], cc[k]} \subseteq {"running", "mute"}
               PROVE  g = k
    BY DEF OneClaude
  <2>1. cc[g] \in {"running", "mute"} /\ cc[k] \in {"running", "mute"}
    OBVIOUS
  <2> QED
    BY <2>1 DEF LoopInv, LastLives
<1> QED
  BY <1>1, LoopAlways, PTL

\* No waiter is closed twice, whoever gets there first: the readers, the
\* dispatcher arming the next one, or a write that failed (signalTurnEnd).
THEOREM NeverClosedTwice == Spec => []ClosedOnce
<1>1. LoopInv => ClosedOnce
  BY DEF LoopInv, OpenWaiters, ClosedOnce
<1> QED
  BY <1>1, LoopAlways, PTL

\* The watchdog reports no stall for a message that has been answered
\* (awaitTurnEnd's tick).
THEOREM StallsAreReal == Spec => StallIsReal
<1>1. LoopInv /\ [Next]_vars => [\A m \in stalled' \ stalled : m \notin answered]_vars
  <2> SUFFICES ASSUME LoopInv, Next, NEW m \in stalled' \ stalled
               PROVE  m \notin answered
    OBVIOUS
  <2>1. stalled' # stalled => WatchdogFires
    BY DEF Next, Claude, Reader, Server, Dispatcher, Signals, BeginTurn, EndTurn, CloseStdout,
       Die, ProcessExits, ReadResult, TurnEnds, ReadEOF, handleProcessExit, ReaderLeaves,
       TakeMessage, TakeCompact, TakeStart, StdinClosed, SendSignal, Shutdown,
       registerTurnWaiter, Spawn, SpawnFails, WriteMessage, Return, WatchdogKills,
       HandleInterrupt, HandleTerminate, Exit, log
  <2>2. WatchdogFires
    BY <2>1
  <2>3. m = cur /\ pc = "await" /\ ~Released /\ \A g \in Gen : reader[g] # "result"
    BY <2>2 DEF WatchdogFires
  <2>4. turnWaiter = cur
    BY <2>3 DEF LoopInv, Armed, Released
  <2> QED
    BY <2>3, <2>4 DEF LoopInv, AnswerSignalled
<1> QED
  BY <1>1, LoopAlways, PTL DEF Spec, StallIsReal

-----------------------------------------------------------------------------
(* Deaths the watchdog caused.                                             *)

\* The mark is set with the kill and cleared by a spawn only.
LEMMA MarkStep ==
  ASSUME LoopInv, MarkKept, [Next]_vars
  PROVE  MarkKept'
<1> USE DEF LoopInv
<1>1. UNCHANGED <<cc, done, proc, died, deliberate, killedByWatchdog>> => MarkKept'
  BY DEF MarkKept
<1>2. ASSUME NEW g \in Gen, BeginTurn(g) \/ EndTurn(g) \/ ReadResult(g) \/ TurnEnds(g)
             \/ ReadEOF(g) \/ ReaderLeaves(g) PROVE MarkKept'
  BY <1>1, <1>2 DEF BeginTurn, EndTurn, ReadResult, TurnEnds, ReadEOF, ReaderLeaves, log, disp, claude
<1>3. ASSUME NEW g \in Gen, CloseStdout(g) \/ Die(g) PROVE MarkKept'
  <2>1. /\ \A k \in Gen : cc[k] # "none" => cc'[k] # "none"
        /\ UNCHANGED <<done, proc, died, deliberate, killedByWatchdog>>
    BY <1>3 DEF CloseStdout, Die, TypeOK, log, disp
  <2> QED
    BY <2>1 DEF MarkKept, TypeOK
<1>4. ASSUME NEW g \in Gen, ProcessExits(g) PROVE MarkKept'
  BY <1>4 DEF ProcessExits, MarkKept, log, disp
<1>5. ASSUME NEW g \in Gen, handleProcessExit(g) PROVE MarkKept'
  BY <1>5 DEF handleProcessExit, MarkKept, claude, disp
<1>6. ASSUME NEW g \in Gen, Spawn(g) PROVE MarkKept'
  <2>1. /\ cc[g] = "none" /\ cc' = [cc EXCEPT ![g] = "running"] /\ proc' = g
        /\ UNCHANGED <<done, died, deliberate>>
    BY <1>6 DEF Spawn, log
  <2>2. g \notin deliberate
    BY <2>1 DEF MarkKept
  <2> QED
    BY <1>6, <2>1, <2>2 DEF MarkKept, TypeOK
<1>7. ASSUME WatchdogKills PROVE MarkKept'
  <2>1. cc[proc] # "dead" => proc \notin died
    BY <1>7 DEF MarkKept, LastLives
  <2> QED
    BY <1>7, <2>1 DEF WatchdogKills, MarkKept, Handles, TypeOK
<1>8. ASSUME Server \/ Signals PROVE MarkKept'
  BY <1>1, <1>8 DEF Server, TakeMessage, TakeCompact, TakeStart, StdinClosed, Shutdown,
     SendSignal, Signals, HandleInterrupt, HandleTerminate, Exit, log, disp, claude
<1>9. ASSUME registerTurnWaiter \/ SpawnFails \/ WriteMessage \/ Return \/ WatchdogFires
      PROVE  MarkKept'
  BY <1>1, <1>9 DEF registerTurnWaiter, SpawnFails, WriteMessage, Return, WatchdogFires, log, claude
<1>10. CASE UNCHANGED vars
  BY <1>1, <1>10 DEF vars, claude, log, disp
<1> QED
  BY <1>2, <1>3, <1>4, <1>5, <1>6, <1>7, <1>8, <1>9, <1>10 DEF Next, Claude, Reader, Dispatcher

\* From the start on.
LEMMA MarkAlways == Spec => []MarkKept
<1>1. Init => MarkKept
  BY DEF Init, MarkKept, None, Gen
<1>2. LoopInv /\ MarkKept /\ [Next]_vars => MarkKept'
  BY MarkStep
<1> QED
  BY <1>1, <1>2, LoopAlways, PTL DEF Spec

\* A death the watchdog caused is reported as PROCESS_DIED too only after a
\* respawn, which clears the mark (handleStart, handleProcessExit).
THEOREM MarkUntilRespawn == Spec => []ReportedOnceRespawned
<1>1. MarkKept => ReportedOnceRespawned
  BY DEF MarkKept, ReportedOnceRespawned
<1> QED
  BY <1>1, MarkAlways, PTL

-----------------------------------------------------------------------------
\* A message is waited for after it was written.
LEMMA WrittenKept ==
  ASSUME LoopInv, Written, Next
  PROVE  Written'
<1> USE DEF LoopInv
<1>1. \A m \in Msg : Unsent(m)' => Unsent(m)
  BY UnsentShrinks
<1>2. ASSUME \A g \in Gen : (cc[g] # "none" => cc'[g] # "none")
                            /\ (cc'[g] # "none" => cc[g] # "none")
                            /\ (reader[g] # "none" <=> reader'[g] # "none"),
             UNCHANGED <<returned, sentTo>>,
             UNCHANGED <<pc, cur>> \/ pc' \notin {"await", "abandon"}
                \/ (pc' = "abandon" /\ pc = "await" /\ cur' = cur)
      PROVE  Written'
  BY <1>1, <1>2 DEF Written, TypeOK
<1>3. ASSUME NEW g \in Gen, Claude(g) \/ ProcessExits(g) PROVE Written'
  <2>1. \A k \in Gen : (cc[k] # "none" => cc'[k] # "none") /\ (cc'[k] # "none" => cc[k] # "none")
    BY <1>3 DEF Claude, BeginTurn, EndTurn, CloseStdout, Die, Works, ProcessExits, TypeOK
  <2> QED
    BY <1>2, <1>3, <2>1 DEF Claude, BeginTurn, EndTurn, CloseStdout, Die, ProcessExits, log, disp
<1>4. ASSUME NEW g \in Gen, Reader(g) PROVE Written'
  <2>1. \A k \in Gen : reader[k] # "none" <=> reader'[k] # "none"
    BY <1>4 DEF Reader, ReadResult, TurnEnds, ReadEOF, handleProcessExit, ReaderLeaves, TypeOK
  <2> QED
    BY <1>2, <1>4, <2>1 DEF Reader, ReadResult, TurnEnds, ReadEOF, handleProcessExit,
       ReaderLeaves, log, disp, claude
<1>5. ASSUME Server \/ Signals PROVE Written'
  BY <1>2, <1>5 DEF Server, TakeMessage, TakeCompact, TakeStart, StdinClosed, Shutdown,
     SendSignal, Signals, HandleInterrupt, HandleTerminate, Exit, log, disp, claude
<1>6. ASSUME registerTurnWaiter \/ SpawnFails \/ WatchdogFires \/ WatchdogKills PROVE Written'
  BY <1>2, <1>6 DEF registerTurnWaiter, SpawnFails, WatchdogFires, WatchdogKills, log, claude
<1>7. ASSUME NEW g \in Gen, Spawn(g) PROVE Written'
  BY <1>1, <1>7 DEF Spawn, Written, TypeOK, log
<1>8. ASSUME WriteMessage PROVE Written'
  <2>1. cur \in Msg /\ proc \in Gen
    BY <1>8 DEF WriteMessage, Handles
  <2>2. CASE UNCHANGED sentTo /\ pc' = "idle"
    BY <1>2, <1>8, <2>2 DEF WriteMessage
  <2>3. CASE sentTo' = [sentTo EXCEPT ![cur] = proc] /\ pc' = "await" /\ cc[proc] # "none"
    <3>1. ~Unsent(cur)'
      BY <1>8, <2>1, <2>3 DEF WriteMessage, Unsent, Handles, TypeOK, Msg
    <3> QED
      BY <1>1, <1>8, <2>1, <2>3, <3>1 DEF WriteMessage, Written, TypeOK
  <2> QED
    BY <1>8, <2>2, <2>3 DEF WriteMessage
<1>9. ASSUME Return PROVE Written'
  BY <1>1, <1>9 DEF Return, Written, claude
<1> QED
  BY <1>3, <1>4, <1>5, <1>6, <1>7, <1>8, <1>9 DEF Next, Dispatcher

-----------------------------------------------------------------------------
(* Requests (Requests.tla) are served as promised.                         *)

\* m is in the sequence before k.
Before(m, k, s) == \E i, j \in 1..Len(s) : i < j /\ s[i] = m /\ s[j] = k

\* The message is on its way through process g.
InPipe(g, m) == turn[g] = m \/ Within(m, inbox[g]) \/ Within(m, out[g])

\* m went to process g and is answered, or is ahead of k on its way.
Ahead(g, m, k) ==
  \/ m \in answered /\ sentTo[m] = g /\ InPipe(g, k)
  \/ Before(m, k, out[g]) \/ Before(m, k, inbox[g])
  \/ Within(m, out[g]) /\ (turn[g] = k \/ Within(k, inbox[g]))
  \/ turn[g] = m /\ Within(k, inbox[g])

\* Each process has the messages written to it, and has them in their order.
Delivered == \A g \in Gen, m \in Msg : InPipe(g, m) => sentTo[m] = g
InOrder   == \A g \in Gen, m, k \in Msg : Ahead(g, m, k) => m < k

\* The message being handled is the newest, and no message went to a process that
\* is yet to be spawned.
Newest ==
  /\ pc \in {"arm", "write"} => cur = last
  /\ pc = "spawn" => cur \in {None, last}
  /\ \A m \in Msg : sentTo[m] # None => sentTo[m] <= proc /\ cc[sentTo[m]] # "none"

\* The reader that reports a death reads no more.
ReportedLast == \A g \in died : reader[g] \in {"leave", "gone"}

ServedInv == Delivered /\ InOrder /\ Newest /\ ReportedLast

\* Tail and a prefix put nothing before what it followed,
LEMMA TailsOrder ==
  ASSUME NEW S, NEW s \in Seq(S), s # <<>>
  PROVE  /\ \A m, k : Before(m, k, Tail(s)) => Before(m, k, s)
         /\ \A k : Within(k, Tail(s)) => Before(Head(s), k, s)
<1>1. Len(s) \in Nat /\ 1 \in 1..Len(s) /\ Head(s) = s[1] /\ Len(Tail(s)) = Len(s) - 1
  OBVIOUS
<1>2. \A i \in 1..Len(Tail(s)) : i + 1 \in 1..Len(s) /\ 1 < i + 1 /\ Tail(s)[i] = s[i + 1]
  OBVIOUS
<1>3. \A i, j \in 1..Len(Tail(s)) : i < j => i + 1 < j + 1
  BY <1>1
<1>4. ASSUME NEW m, NEW k, Before(m, k, Tail(s)) PROVE Before(m, k, s)
  BY <1>2, <1>3, <1>4 DEF Before
<1>5. ASSUME NEW k, Within(k, Tail(s)) PROVE Before(Head(s), k, s)
  BY <1>1, <1>2, <1>5 DEF Before, Within
<1> QED
  BY <1>4, <1>5

LEMMA PrefixesOrder ==
  ASSUME NEW S, NEW s \in Seq(S), NEW t \in Truncated(s)
  PROVE  \A m, k : Before(m, k, t) => Before(m, k, s)
<1>1. PICK n \in 0..Len(s) : t = SubSeq(s, 1, n)
  BY DEF Truncated
<1>2. t \in Seq(S) /\ Len(t) = n /\ \A i \in 1..n : t[i] = s[i]
  BY <1>1
<1>3. Len(s) \in Nat /\ \A i \in 1..n : i \in 1..Len(s)
  OBVIOUS
<1> QED
  BY <1>2, <1>3 DEF Before

\* ... and Append puts what is there before what is new.
LEMMA AppendsOrder ==
  ASSUME NEW S, NEW s \in Seq(S), NEW e \in S
  PROVE  \A m, k : Before(m, k, Append(s, e)) => Before(m, k, s) \/ (Within(m, s) /\ k = e)
<1>1. /\ Len(Append(s, e)) = Len(s) + 1 /\ Len(s) \in Nat
      /\ \A i \in 1..Len(s) : Append(s, e)[i] = s[i]
      /\ Append(s, e)[Len(s) + 1] = e
  OBVIOUS
<1>2. \A i, j \in 1..(Len(s) + 1) : i < j => i \in 1..Len(s) /\ (j \in 1..Len(s) \/ j = Len(s) + 1)
  BY <1>1
<1> QED
  BY <1>1, <1>2 DEF Before, Within

\* What a step can do to the messages on their way.
Begins(g) ==
  /\ inbox[g] # <<>> /\ turn' = [turn EXCEPT ![g] = Head(inbox[g])]
  /\ inbox' = [inbox EXCEPT ![g] = Tail(@)] /\ UNCHANGED <<out, answered, sentTo>>
Wanders(g) == turn' = [turn EXCEPT ![g] = Own] /\ UNCHANGED <<inbox, out, answered, sentTo>>
Ends(g) ==
  /\ turn[g] # None /\ out' = [out EXCEPT ![g] = Append(@, turn[g])]
  /\ turn' = [turn EXCEPT ![g] = None] /\ UNCHANGED <<inbox, answered, sentTo>>
Loses(g) ==
  /\ \E rest \in Truncated(out[g]) : out' = [out EXCEPT ![g] = rest]
  /\ UNCHANGED <<inbox, turn, answered, sentTo>>
Emits(g) ==
  /\ reader[g] = "read" /\ out[g] # <<>>
  /\ answered' = answered \cup ({Head(out[g])} \cap Msg)
  /\ out' = [out EXCEPT ![g] = Tail(@)] /\ UNCHANGED <<inbox, turn, sentTo>>
Writes ==
  /\ pc = "write" /\ cur \in Msg /\ proc \in Gen /\ cc[proc] \in {"running", "mute"}
  /\ inbox' = [inbox EXCEPT ![proc] = Append(@, cur)]
  /\ sentTo' = [sentTo EXCEPT ![cur] = proc] /\ UNCHANGED <<out, turn, answered>>
Rests == UNCHANGED <<inbox, turn, out, answered, sentTo>>

\* ... and there is nothing else.
LEMMA PipeSteps ==
  ASSUME LoopInv, Next
  PROVE  \/ \E g \in Gen : Begins(g) \/ Wanders(g) \/ Ends(g) \/ Loses(g) \/ Emits(g)
         \/ Writes \/ Rests
<1>1. ASSUME NEW g \in Gen, BeginTurn(g) PROVE Begins(g) \/ Wanders(g)
  BY <1>1 DEF BeginTurn, Begins, Wanders, log
<1>2. ASSUME NEW g \in Gen, EndTurn(g) PROVE Ends(g)
  BY <1>2 DEF EndTurn, Ends, log
<1>3. ASSUME NEW g \in Gen, ProcessExits(g) PROVE Loses(g)
  BY <1>3 DEF ProcessExits, Loses, log
<1>4. ASSUME NEW g \in Gen, ReadResult(g) PROVE Emits(g)
  BY <1>4 DEF ReadResult, Emits
<1>5. ASSUME NEW g \in Gen, CloseStdout(g) \/ Die(g) \/ TurnEnds(g) \/ ReadEOF(g)
             \/ handleProcessExit(g) \/ ReaderLeaves(g) \/ Spawn(g) PROVE Rests
  BY <1>5 DEF CloseStdout, Die, TurnEnds, ReadEOF, handleProcessExit, ReaderLeaves, Spawn,
     claude, log, Rests
<1>6. ASSUME WriteMessage PROVE Writes \/ Rests
  BY <1>6 DEF WriteMessage, LoopInv, Handles, Writes, Rests
<1>7. ASSUME Server \/ Signals PROVE Rests
  BY <1>7 DEF Server, TakeMessage, TakeCompact, TakeStart, StdinClosed, Shutdown, SendSignal,
     Signals, HandleInterrupt, HandleTerminate, Exit, log, claude, Rests
<1>8. ASSUME registerTurnWaiter \/ SpawnFails \/ Return \/ WatchdogFires \/ WatchdogKills
      PROVE  Rests
  BY <1>8 DEF registerTurnWaiter, SpawnFails, Return, WatchdogFires, WatchdogKills, log, claude,
     Rests
<1> QED
  BY <1>1, <1>2, <1>3, <1>4, <1>5, <1>6, <1>7, <1>8 DEF Next, Claude, Reader, Dispatcher

\* A message enters the pipeline of a process where it is written to it.
LEMMA Enters ==
  ASSUME LoopInv, Next, NEW g \in Gen, NEW m \in Msg, InPipe(g, m)'
  PROVE  InPipe(g, m) \/ (Writes /\ m = cur /\ g = proc)
<1>1. \A h \in Gen : inbox[h] \in Seq(Msg) /\ out[h] \in Seq(Turn)
  BY DEF LoopInv, TypeOK
<1>2. /\ inbox \in [Gen -> Seq(Msg)] /\ out \in [Gen -> Seq(Turn)]
      /\ turn \in [Gen -> Turn \cup {None}] /\ m # Own /\ m # None
  BY OwnUnasked DEF LoopInv, TypeOK
<1>3. ASSUME NEW h \in Gen, Begins(h) PROVE InPipe(g, m)
  <2>1. Within(Head(inbox[h]), inbox[h]) /\ \A k : Within(k, Tail(inbox[h])) => Within(k, inbox[h])
    BY <1>1, <1>3, Tails DEF Begins
  <2> QED
    BY <1>2, <1>3, <2>1 DEF Begins, InPipe
<1>4. ASSUME NEW h \in Gen, Wanders(h) PROVE InPipe(g, m)
  BY <1>2, <1>4 DEF Wanders, InPipe
<1>5. ASSUME NEW h \in Gen, Ends(h) PROVE InPipe(g, m)
  <2>1. \A k : Within(k, Append(out[h], turn[h])) => Within(k, out[h]) \/ k = turn[h]
    <3>1. turn[h] \in Turn
      BY <1>2, <1>5 DEF Ends
    <3> QED
      BY <1>1, <3>1, Appends
  <2> QED
    BY <1>2, <1>5, <2>1 DEF Ends, InPipe
<1>6. ASSUME NEW h \in Gen, Loses(h) PROVE InPipe(g, m)
  <2>1. PICK rest \in Truncated(out[h]) : out' = [out EXCEPT ![h] = rest]
    BY <1>6 DEF Loses
  <2>2. \A k : Within(k, rest) => Within(k, out[h])
    BY <1>1, Prefixes
  <2> QED
    BY <1>2, <1>6, <2>1, <2>2 DEF Loses, InPipe
<1>7. ASSUME NEW h \in Gen, Emits(h) PROVE InPipe(g, m)
  <2>1. \A k : Within(k, Tail(out[h])) => Within(k, out[h])
    BY <1>1, <1>7, Tails DEF Emits
  <2> QED
    BY <1>2, <1>7, <2>1 DEF Emits, InPipe
<1>8. ASSUME Writes PROVE InPipe(g, m) \/ (m = cur /\ g = proc)
  <2>1. \A k : Within(k, Append(inbox[proc], cur)) => Within(k, inbox[proc]) \/ k = cur
    BY <1>1, <1>8, Appends DEF Writes
  <2> QED
    BY <1>2, <1>8, <2>1 DEF Writes, InPipe
<1>9. ASSUME Rests PROVE InPipe(g, m)
  BY <1>9 DEF Rests, InPipe
<1> QED
  BY <1>3, <1>4, <1>5, <1>6, <1>7, <1>8, <1>9, PipeSteps

\* No message is overtaken: one gets ahead of another only by being there when that
\* one is written.
LEMMA NoneOvertakes ==
  ASSUME LoopInv, Delivered, Next, NEW g \in Gen, NEW m \in Msg, NEW k \in Msg, Ahead(g, m, k)'
  PROVE  Ahead(g, m, k) \/ (Writes /\ k = cur /\ Somewhere(m))
<1>1. \A h \in Gen : inbox[h] \in Seq(Msg) /\ out[h] \in Seq(Turn)
  BY DEF LoopInv, TypeOK
<1>2. /\ inbox \in [Gen -> Seq(Msg)] /\ out \in [Gen -> Seq(Turn)] /\ sentTo \in [Msg -> Gen \cup {None}]
      /\ turn \in [Gen -> Turn \cup {None}] /\ m # Own /\ m # None /\ k # Own /\ k # None
  BY OwnUnasked DEF LoopInv, TypeOK
<1> DEFINE Joins == Writes /\ k = cur /\ Somewhere(m)
<1>3. m \in answered' /\ InPipe(g, k)' => InPipe(g, k) \/ Joins
  BY Enters DEF Writes, Somewhere
<1>4. /\ \A x, y, s : Before(x, y, s) => Within(x, s)
      /\ InPipe(g, m) => Somewhere(m)
  BY DEF Before, Within, InPipe, Somewhere
<1> HIDE DEF Joins
<1>5. ASSUME NEW h \in Gen, Begins(h) PROVE Ahead(g, m, k) \/ Joins
  <2>1. /\ \A x : Within(x, Tail(inbox[h])) => Within(x, inbox[h]) /\ Before(Head(inbox[h]), x, inbox[h])
        /\ \A x, y : Before(x, y, Tail(inbox[h])) => Before(x, y, inbox[h])
        /\ Within(Head(inbox[h]), inbox[h])
    BY <1>1, <1>5, Tails, TailsOrder DEF Begins
  <2>2. /\ UNCHANGED <<out, answered, sentTo>>
        /\ turn'[h] = Head(inbox[h]) /\ inbox'[h] = Tail(inbox[h])
        /\ g # h => turn'[g] = turn[g] /\ inbox'[g] = inbox[g]
    BY <1>2, <1>5 DEF Begins
  <2> QED
    BY <1>3, <2>1, <2>2 DEF Ahead
<1>6. ASSUME NEW h \in Gen, Wanders(h) PROVE Ahead(g, m, k) \/ Joins
  <2>1. /\ UNCHANGED <<inbox, out, answered, sentTo>>
        /\ turn'[h] = Own /\ (g # h => turn'[g] = turn[g])
    BY <1>2, <1>6 DEF Wanders
  <2> QED
    BY <1>2, <1>3, <2>1 DEF Ahead
<1>7. ASSUME NEW h \in Gen, Ends(h) PROVE Ahead(g, m, k) \/ Joins
  <2>1. turn[h] \in Turn
    BY <1>2, <1>7 DEF Ends
  <2>2. /\ \A x : Within(x, Append(out[h], turn[h])) => Within(x, out[h]) \/ x = turn[h]
        /\ \A x, y : Before(x, y, Append(out[h], turn[h]))
                       => Before(x, y, out[h]) \/ (Within(x, out[h]) /\ y = turn[h])
    BY <1>1, <2>1, Appends, AppendsOrder
  <2>3. /\ UNCHANGED <<inbox, answered, sentTo>>
        /\ turn'[h] = None /\ out'[h] = Append(out[h], turn[h])
        /\ g # h => turn'[g] = turn[g] /\ out'[g] = out[g]
    BY <1>2, <1>7 DEF Ends
  <2> QED
    BY <1>2, <1>3, <2>2, <2>3 DEF Ahead
<1>8. ASSUME NEW h \in Gen, Loses(h) PROVE Ahead(g, m, k) \/ Joins
  <2>1. PICK rest \in Truncated(out[h]) : out' = [out EXCEPT ![h] = rest]
    BY <1>8 DEF Loses
  <2>2. /\ \A x : Within(x, rest) => Within(x, out[h])
        /\ \A x, y : Before(x, y, rest) => Before(x, y, out[h])
    BY <1>1, Prefixes, PrefixesOrder
  <2>3. /\ UNCHANGED <<inbox, turn, answered, sentTo>>
        /\ out'[h] = rest /\ (g # h => out'[g] = out[g])
    BY <1>2, <1>8, <2>1 DEF Loses
  <2> QED
    BY <1>3, <2>2, <2>3 DEF Ahead
<1>9. ASSUME NEW h \in Gen, Emits(h) PROVE Ahead(g, m, k) \/ Joins
  <2>1. /\ \A x : Within(x, Tail(out[h])) => Within(x, out[h]) /\ Before(Head(out[h]), x, out[h])
        /\ \A x, y : Before(x, y, Tail(out[h])) => Before(x, y, out[h])
        /\ Within(Head(out[h]), out[h])
    BY <1>1, <1>9, Tails, TailsOrder DEF Emits
  <2>2. /\ UNCHANGED <<inbox, turn, sentTo>>
        /\ out'[h] = Tail(out[h]) /\ (g # h => out'[g] = out[g])
        /\ m \in answered' => m \in answered \/ m = Head(out[h])
    BY <1>2, <1>9 DEF Emits
  <2>3. CASE m \in answered \/ m \notin answered'
    BY <1>3, <2>1, <2>2, <2>3 DEF Ahead
  <2>4. CASE m = Head(out[h])
    <3>1. sentTo[m] = h
      BY <2>1, <2>4 DEF Delivered, InPipe
    <3>2. InPipe(g, k)' /\ g = h => Ahead(g, m, k)
      BY <2>1, <2>2, <2>4 DEF InPipe, Ahead
    <3> QED
      BY <2>1, <2>2, <3>1, <3>2 DEF Ahead
  <2> QED
    BY <2>2, <2>3, <2>4
<1>10. ASSUME Writes PROVE Ahead(g, m, k) \/ Joins
  <2>1. /\ \A x : Within(x, Append(inbox[proc], cur)) => Within(x, inbox[proc]) \/ x = cur
        /\ \A x, y : Before(x, y, Append(inbox[proc], cur))
                       => Before(x, y, inbox[proc]) \/ (Within(x, inbox[proc]) /\ y = cur)
    BY <1>1, <1>10, Appends, AppendsOrder DEF Writes
  <2>2. /\ UNCHANGED <<out, turn, answered>> /\ inbox'[proc] = Append(inbox[proc], cur)
        /\ g # proc => inbox'[g] = inbox[g]
        /\ m # cur => sentTo'[m] = sentTo[m]
    BY <1>2, <1>10 DEF Writes
  <2>3. m \in answered => Somewhere(m)
    BY DEF Somewhere
  <2>4. m \in answered => m # cur
    <3>1. Unsent(cur)
      BY <1>10 DEF Writes, Unsent
    <3> QED
      BY <1>10, <2>3, <3>1 DEF LoopInv, Nowhere, Writes
  <2>5. Within(m, inbox[g]) \/ Within(m, out[g]) \/ turn[g] = m => Somewhere(m)
    BY DEF Somewhere
  <2> QED
    BY <1>3, <1>10, <2>1, <2>2, <2>4, <2>5 DEF Ahead, Joins
<1>11. ASSUME Rests PROVE Ahead(g, m, k)
  BY <1>11 DEF Rests, Ahead, InPipe
<1> QED
  BY <1>5, <1>6, <1>7, <1>8, <1>9, <1>10, <1>11, PipeSteps DEF Joins

\* Every process has what was written to it, in order.
LEMMA DeliveredKept ==
  ASSUME LoopInv, Written, Delivered, Next
  PROVE  Delivered'
<1> SUFFICES ASSUME NEW g \in Gen, NEW m \in Msg, InPipe(g, m)' PROVE sentTo'[m] = g
  BY DEF Delivered
<1>1. sentTo \in [Msg -> Gen \cup {None}]
  BY DEF LoopInv, TypeOK
<1>2. CASE Writes /\ m = cur /\ g = proc
  BY <1>1, <1>2 DEF Writes
<1>3. CASE InPipe(g, m)
  <2>1. sentTo[m] = g
    BY <1>3 DEF Delivered
  <2>2. ~Unsent(m)
    <3>1. Somewhere(m)
      BY <1>3 DEF InPipe, Somewhere
    <3> QED
      BY <3>1 DEF LoopInv, Nowhere
  <2>3. Writes => m # cur
    BY <2>2 DEF Writes, Unsent
  <2>4. Writes \/ UNCHANGED sentTo
    BY PipeSteps DEF Begins, Wanders, Ends, Loses, Emits, Rests
  <2> QED
    BY <1>1, <2>1, <2>3, <2>4 DEF Writes
<1> QED
  BY <1>2, <1>3, Enters

LEMMA InOrderKept ==
  ASSUME LoopInv, Delivered, InOrder, Newest, Next
  PROVE  InOrder'
<1> SUFFICES ASSUME NEW g \in Gen, NEW m \in Msg, NEW k \in Msg, Ahead(g, m, k)' PROVE m < k
  BY DEF InOrder
<1>1. CASE Ahead(g, m, k)
  BY <1>1 DEF InOrder
<1>2. CASE Writes /\ k = cur /\ Somewhere(m)
  <2>1. ~Unsent(m)
    BY <1>2 DEF LoopInv, Nowhere
  <2>2. k = last /\ m # k /\ ~(m > last)
    BY <1>2, <2>1 DEF Newest, Writes, Unsent
  <2> QED
    BY <2>2, TurnAssumption DEF Msg
<1> QED
  BY <1>1, <1>2, NoneOvertakes

\* A request is taken with the next number and keeps it; processes have the next
\* number too.
LEMMA NewestKept ==
  ASSUME LoopInv, Newest, Next
  PROVE  Newest'
<1> USE DEF LoopInv
<1> DEFINE Older == \A m \in Msg : sentTo[m] # None => sentTo[m] <= proc /\ cc[sentTo[m]] # "none"
<1>1. Older /\ (pc \in {"arm", "write"} => cur = last) /\ (pc = "spawn" => cur \in {None, last})
  BY DEF Newest
<1>2. ASSUME UNCHANGED <<sentTo, proc>>, \A g \in Gen : cc[g] # "none" => cc'[g] # "none"
      PROVE  Older'
  BY <1>1, <1>2 DEF TypeOK
<1>3. Older' /\ UNCHANGED <<pc, cur, last>> => Newest'
  BY <1>1 DEF Newest
<1>4. UNCHANGED <<sentTo, proc, cc>> => Older'
  BY <1>1
<1> HIDE DEF Older
<1>5. Older' /\ pc' \notin {"arm", "write", "spawn"} => Newest'
  BY DEF Newest, Older
<1>6. ASSUME NEW g \in Gen, Claude(g) \/ ProcessExits(g) PROVE Newest'
  <2>1. \A k \in Gen : cc[k] # "none" => cc'[k] # "none"
    BY <1>6 DEF Claude, BeginTurn, EndTurn, CloseStdout, Die, Works, ProcessExits, TypeOK
  <2>2. UNCHANGED <<sentTo, proc, pc, cur, last>>
    BY <1>6 DEF Claude, BeginTurn, EndTurn, CloseStdout, Die, ProcessExits, log, disp
  <2> QED
    BY <1>2, <1>3, <2>1, <2>2
<1>7. ASSUME NEW g \in Gen, Reader(g) PROVE Newest'
  BY <1>3, <1>4, <1>7 DEF Reader, ReadResult, TurnEnds, ReadEOF, handleProcessExit, ReaderLeaves,
     claude, log, disp
<1>8. ASSUME TakeMessage \/ TakeCompact \/ TakeStart PROVE Newest'
  <2>1. Older'
    BY <1>4, <1>8 DEF TakeMessage, TakeCompact, TakeStart, claude, log
  <2>2. /\ pc' \in {"arm", "write"} => cur' = last'
        /\ pc' = "spawn" => cur' \in {None, last'}
    BY <1>8 DEF TakeMessage, TakeCompact, TakeStart
  <2> QED
    BY <2>1, <2>2 DEF Newest, Older
<1>9. ASSUME NEW g \in Gen, Spawn(g) PROVE Newest'
  <2>1. ASSUME NEW m \in Msg, sentTo'[m] # None PROVE sentTo'[m] <= proc' /\ cc'[sentTo'[m]] # "none"
    <3>1. sentTo'[m] = sentTo[m] /\ sentTo[m] \in Gen /\ cc[sentTo[m]] # "none"
      BY <1>1, <1>9, <2>1 DEF Spawn, log, Older, TypeOK
    <3>2. sentTo[m] \in 1..(g - 1)
      BY <1>9, <3>1 DEF Spawn, Spawned
    <3>3. proc' = g /\ cc' = [cc EXCEPT ![g] = "running"] /\ cc \in [Gen -> {"none", "running", "mute", "dead"}]
      BY <1>9 DEF Spawn, TypeOK
    <3>4. sentTo[m] <= g
      BY <3>2 DEF Gen
    <3> QED
      BY <3>1, <3>3, <3>4
  <2>2. cur' = cur /\ last' = last /\ (cur # None => cur = last) /\ pc' = IF cur = None THEN "idle" ELSE "arm"
    BY <1>1, <1>9 DEF Spawn
  <2> QED
    BY <2>1, <2>2 DEF Newest
<1>10. ASSUME registerTurnWaiter PROVE Newest'
  <2>1. Older' /\ UNCHANGED <<cur, last>> /\ pc = "arm" /\ pc' = "write"
    BY <1>4, <1>10 DEF registerTurnWaiter, claude, log
  <2> QED
    BY <1>1, <2>1 DEF Newest, Older
<1>11. ASSUME SpawnFails \/ Return \/ WatchdogFires \/ WatchdogKills \/ StdinClosed PROVE Newest'
  BY <1>4, <1>5, <1>11 DEF SpawnFails, Return, WatchdogFires, WatchdogKills, StdinClosed, Shutdown,
     claude, log
<1>12. ASSUME WriteMessage PROVE Newest'
  <2>1. cur \in Msg /\ proc \in Gen /\ UNCHANGED <<cc, proc>> /\ pc' \in {"await", "idle"}
    BY <1>12 DEF WriteMessage, Handles
  <2>2. \/ UNCHANGED sentTo
        \/ sentTo' = [sentTo EXCEPT ![cur] = proc] /\ cc[proc] # "none"
    BY <1>12 DEF WriteMessage
  <2>3. CASE UNCHANGED sentTo
    BY <1>4, <1>5, <2>1, <2>3
  <2>4. CASE sentTo' = [sentTo EXCEPT ![cur] = proc] /\ cc[proc] # "none"
    <3>1. \A m \in Msg : sentTo'[m] = IF m = cur THEN proc ELSE sentTo[m]
      BY <2>1, <2>4 DEF TypeOK
    <3>2. proc <= proc
      BY <2>1 DEF Gen
    <3>3. Older'
      BY <1>1, <2>1, <2>4, <3>1, <3>2 DEF Older
    <3> QED
      BY <1>5, <2>1, <3>3
  <2> QED
    BY <2>2, <2>3, <2>4
<1>13. ASSUME Signals \/ \E s \in {"INT", "TERM"} : SendSignal(s) PROVE Newest'
  BY <1>3, <1>4, <1>13 DEF Signals, HandleInterrupt, HandleTerminate, Shutdown, Exit, SendSignal,
     claude, log, disp
<1> QED
  BY <1>6, <1>7, <1>8, <1>9, <1>10, <1>11, <1>12, <1>13 DEF Next, Server, Dispatcher

\* A reader reports a death on its way out, and is not started again.
LEMMA ReportedLastKept ==
  ASSUME LoopInv, MarkKept, ReportedLast, Next
  PROVE  ReportedLast'
<1> USE DEF LoopInv
<1>1. ASSUME NEW g \in Gen, handleProcessExit(g) PROVE ReportedLast'
  <2>1. died' \subseteq died \cup {g} /\ reader'[g] = "leave"
        /\ \A k \in Gen \ {g} : reader'[k] = reader[k]
    BY <1>1 DEF handleProcessExit, TypeOK
  <2> QED
    BY <2>1 DEF ReportedLast, TypeOK
<1>2. ASSUME NEW g \in Gen, ReadResult(g) \/ TurnEnds(g) \/ ReadEOF(g) \/ ReaderLeaves(g)
      PROVE  ReportedLast'
  BY <1>2 DEF ReadResult, TurnEnds, ReadEOF, ReaderLeaves, ReportedLast, TypeOK, log
<1>3. ASSUME NEW g \in Gen, Spawn(g) PROVE ReportedLast'
  <2>1. g \notin died /\ died' = died /\ reader' = [reader EXCEPT ![g] = "read"]
    BY <1>3 DEF Spawn, MarkKept, LastLives, log
  <2> QED
    BY <2>1 DEF ReportedLast, TypeOK
<1>4. UNCHANGED <<died, reader>> => ReportedLast'
  BY DEF ReportedLast
<1>5. ASSUME NEW g \in Gen, Claude(g) \/ ProcessExits(g) PROVE ReportedLast'
  BY <1>4, <1>5 DEF Claude, BeginTurn, EndTurn, CloseStdout, Die, ProcessExits, log
<1>6. ASSUME Server \/ Signals PROVE ReportedLast'
  BY <1>4, <1>6 DEF Server, TakeMessage, TakeCompact, TakeStart, StdinClosed, Shutdown, SendSignal,
     Signals, HandleInterrupt, HandleTerminate, Exit, log
<1>7. ASSUME registerTurnWaiter \/ SpawnFails \/ WriteMessage \/ Return \/ WatchdogFires
             \/ WatchdogKills PROVE ReportedLast'
  BY <1>4, <1>7 DEF registerTurnWaiter, SpawnFails, WriteMessage, Return, WatchdogFires,
     WatchdogKills, log
<1> QED
  BY <1>1, <1>2, <1>3, <1>5, <1>6, <1>7 DEF Next, Reader, Dispatcher

\* All of it holds always.
LEMMA ServedAlways == Spec => [](Written /\ ServedInv)
<1>1. Init => Written /\ ServedInv
  <2> SUFFICES ASSUME Init PROVE Written /\ ServedInv
    OBVIOUS
  <2>1. \A m, k : ~Within(m, <<>>) /\ ~Before(m, k, <<>>)
    <3>1. Len(<<>>) = 0
      OBVIOUS
    <3> QED
      BY <3>1 DEF Within, Before
  <2>2. \A m \in Msg : m # None
    BY OwnUnasked
  <2>3. Delivered /\ InOrder
    BY <2>1, <2>2 DEF Init, Delivered, InOrder, Ahead, InPipe
  <2>4. Written /\ Newest /\ ReportedLast
    BY DEF Init, Written, Newest, ReportedLast
  <2> QED
    BY <2>3, <2>4 DEF ServedInv
<1>2. LoopInv /\ MarkKept /\ Written /\ ServedInv /\ [Next]_vars => (Written /\ ServedInv)'
  <2> SUFFICES ASSUME LoopInv, MarkKept, Written, ServedInv, [Next]_vars
               PROVE  (Written /\ ServedInv)'
    OBVIOUS
  <2>1. CASE Next
    BY <2>1, WrittenKept, DeliveredKept, InOrderKept, NewestKept, ReportedLastKept DEF ServedInv
  <2>2. CASE UNCHANGED vars
    <3>1. Written' /\ Newest' /\ ReportedLast'
      BY <2>2 DEF vars, claude, log, disp, ServedInv, Written, Unsent, Newest, ReportedLast
    <3>2. Delivered' /\ InOrder'
      BY <2>2 DEF vars, claude, log, ServedInv, Delivered, InOrder, Ahead, InPipe
    <3> QED
      BY <3>1, <3>2 DEF ServedInv
  <2> QED
    BY <2>1, <2>2
<1> QED
  BY <1>1, <1>2, LoopAlways, MarkAlways, PTL DEF Spec

-----------------------------------------------------------------------------
(* Each end of a turn or of a process releases one request at most.        *)

\* Readers that have emitted a result and not told yet; readers that are gone.
Telling == {g \in Gen : reader[g] = "result"}
Left    == {g \in Gen : reader[g] = "gone"}

\* A request that was released and has not returned.
Leaving == IF pc \in {"write", "await"} /\ closes[cur] > 0 THEN 1 ELSE 0

\* The ends that have still to release count for the releases.
Balance ==
  Cardinality(returned) + Leaving + Cardinality(Telling)
    <= Cardinality(answered) + unasked + Cardinality(Left)

\* What is counted is finite,
LEMMA Finite ==
  ASSUME TypeOK
  PROVE  /\ IsFiniteSet(returned) /\ IsFiniteSet(answered)
         /\ IsFiniteSet(Telling) /\ IsFiniteSet(Left)
         /\ Cardinality(returned) \in Nat /\ Cardinality(answered) \in Nat /\ unasked \in Nat
         /\ Cardinality(Telling) \in Nat /\ Cardinality(Left) \in Nat
         /\ Leaving \in {0, 1}
<1>1. IsFiniteSet(Msg) /\ IsFiniteSet(Gen)
  BY TurnAssumption, FS_Interval DEF Msg, Gen
<1>2. returned \in SUBSET Msg /\ answered \in SUBSET Msg /\ unasked \in Nat
  BY DEF TypeOK
<1>3. Telling \in SUBSET Gen /\ Left \in SUBSET Gen
  BY DEF Telling, Left
<1>4. IsFiniteSet(returned) /\ IsFiniteSet(answered) /\ IsFiniteSet(Telling) /\ IsFiniteSet(Left)
  BY <1>1, <1>2, <1>3, FS_Subset
<1>5. Leaving \in {0, 1}
  BY DEF Leaving
<1> QED
  BY <1>2, <1>4, <1>5, FS_CardinalityType

\* ... and a reader's step moves one reader.
LEMMA ReaderMoves ==
  ASSUME TypeOK, NEW g \in Gen, NEW w, reader' = [reader EXCEPT ![g] = w]
  PROVE  /\ w = "result" /\ reader[g] = "read" =>
              Cardinality(Telling') = Cardinality(Telling) + 1 /\ Left' = Left
         /\ w = "read" /\ reader[g] = "result" =>
              Cardinality(Telling') = Cardinality(Telling) - 1 /\ Left' = Left
         /\ w = "gone" /\ reader[g] \in {"read", "leave"} =>
              Telling' = Telling /\ Cardinality(Left') = Cardinality(Left) + 1
         /\ {w, reader[g]} \cap {"result", "gone"} = {} => Telling' = Telling /\ Left' = Left
<1>1. \A k \in Gen : reader'[k] = IF k = g THEN w ELSE reader[k]
  BY DEF TypeOK
<1>2. w = "result" => Telling' = Telling \cup {g}
  BY <1>1 DEF Telling
<1>3. w # "result" => Telling' = Telling \ {g}
  BY <1>1 DEF Telling
<1>4. w = "gone" => Left' = Left \cup {g}
  BY <1>1 DEF Left
<1>5. w # "gone" => Left' = Left \ {g}
  BY <1>1 DEF Left
<1>6. (g \in Telling <=> reader[g] = "result") /\ (g \in Left <=> reader[g] = "gone")
  BY DEF Telling, Left
<1>7. /\ g \notin Telling => Cardinality(Telling \cup {g}) = Cardinality(Telling) + 1
      /\ g \in Telling => Cardinality(Telling \ {g}) = Cardinality(Telling) - 1
      /\ g \notin Left => Cardinality(Left \cup {g}) = Cardinality(Left) + 1
  BY Finite, FS_AddElement, FS_RemoveElement
<1>8. (g \notin Telling => Telling \ {g} = Telling) /\ (g \notin Left => Left \ {g} = Left)
  OBVIOUS
<1> QED
  BY <1>2, <1>3, <1>4, <1>5, <1>6, <1>7, <1>8

\* No step releases more than one request, and none without an end to show for it.
LEMMA BalanceKept ==
  ASSUME LoopInv, Written, ServedInv, Balance, Next
  PROVE  Balance'
<1>0. TypeOK /\ TypeOK'
  BY TypesKept DEF LoopInv
<1>1. Leaving \in {0, 1} /\ Leaving' \in {0, 1}
  BY <1>0, Finite DEF Leaving
<1>2. ASSUME UNCHANGED <<returned, answered, unasked, Telling, Left>>, Leaving' <= Leaving
      PROVE  Balance'
  BY <1>0, <1>1, <1>2, Finite DEF Balance
<1>3. UNCHANGED <<pc, cur, closes>> \/ pc' \notin {"write", "await"} => Leaving' <= Leaving
  BY <1>1 DEF Leaving
<1>4. UNCHANGED reader => UNCHANGED <<Telling, Left>>
  BY DEF Telling, Left
<1>5. ASSUME NEW g \in Gen, Claude(g) \/ ProcessExits(g) PROVE Balance'
  BY <1>2, <1>3, <1>4, <1>5 DEF Claude, BeginTurn, EndTurn, CloseStdout, Die, ProcessExits,
     waits, log, disp
<1>6. ASSUME NEW g \in Gen, ReadResult(g) PROVE Balance'
  <2>1. /\ Cardinality(Telling') = Cardinality(Telling) + 1 /\ Left' = Left
        /\ UNCHANGED returned /\ Leaving' = Leaving
    BY <1>0, <1>6, ReaderMoves DEF ReadResult, waits, disp, Leaving
  <2>2. CASE Head(out[g]) \notin Msg
    <3>1. Head(out[g]) = Own
      BY <1>0, <1>6, <2>2, Tails DEF ReadResult, TypeOK, Turn
    <3>2. answered' = answered /\ unasked' = unasked + 1
      BY <1>6, <2>2, <3>1 DEF ReadResult
    <3> QED
      BY <1>0, <1>1, <2>1, <3>2, Finite DEF Balance
  <2>3. CASE Head(out[g]) \in Msg
    <3> DEFINE m == Head(out[g])
    <3>1. out[g] # <<>> /\ answered' = answered \cup {m} /\ unasked' = unasked
      BY <1>6, <2>3, OwnUnasked DEF ReadResult
    <3>2. Within(m, out[g])
      <4>1. out[g] \in Seq(Turn)
        BY <1>0 DEF TypeOK
      <4> QED
        BY <3>1, <4>1, Tails
    <3> HIDE DEF m
    <3>3. m \notin answered
      <4>1. m \in Msg /\ InPipe(g, m) /\ sentTo[m] = g
        BY <2>3, <3>2 DEF InPipe, m, ServedInv, Delivered
      <4>2. ~(m < m)
        BY <4>1, TurnAssumption DEF Msg
      <4> QED
        BY <4>1, <4>2 DEF ServedInv, InOrder, Ahead
    <3>4. Cardinality(answered') = Cardinality(answered) + 1
      BY <1>0, <3>1, <3>3, Finite, FS_AddElement
    <3> QED
      BY <1>0, <1>1, <2>1, <3>1, <3>4, Finite DEF Balance
  <2> QED
    BY <2>2, <2>3
<1>7. ASSUME NEW g \in Gen, TurnEnds(g) PROVE Balance'
  <2>1. /\ Cardinality(Telling') = Cardinality(Telling) - 1 /\ Left' = Left
        /\ UNCHANGED <<returned, answered, unasked>>
    BY <1>0, <1>7, ReaderMoves DEF TurnEnds, log
  <2> QED
    BY <1>0, <1>1, <2>1, Finite DEF Balance
<1>8. ASSUME NEW g \in Gen, ReaderLeaves(g) PROVE Balance'
  <2>1. /\ Telling' = Telling /\ Cardinality(Left') = Cardinality(Left) + 1
        /\ UNCHANGED <<returned, answered, unasked>>
    BY <1>0, <1>8, ReaderMoves DEF ReaderLeaves, log
  <2> QED
    BY <1>0, <1>1, <2>1, Finite DEF Balance
<1>9. ASSUME NEW g \in Gen, ReadEOF(g) \/ handleProcessExit(g) PROVE Balance'
  <2>1. UNCHANGED <<returned, answered, unasked, pc, cur, closes, Telling, Left>>
    BY <1>0, <1>9, ReaderMoves DEF ReadEOF, handleProcessExit, waits, log, disp
  <2> QED
    BY <1>2, <1>3, <2>1
<1>10. ASSUME NEW g \in Gen, Spawn(g) PROVE Balance'
  <2>1. reader[g] \notin {"result", "gone"}
    BY <1>10 DEF Spawn, Written
  <2>2. UNCHANGED <<returned, answered, unasked, Telling, Left>> /\ pc' \in {"idle", "arm"}
    BY <1>0, <1>10, <2>1, ReaderMoves DEF Spawn, log
  <2> QED
    BY <1>2, <1>3, <2>2
<1>11. ASSUME registerTurnWaiter PROVE Balance'
  <2>1. pc = "arm" /\ closes[cur] = 0 /\ turnWaiter # cur /\ cur \in Msg
    BY <1>11 DEF registerTurnWaiter, LoopInv, OpenWaiters, Unarmed, Handles
  <2>2. closes'[cur'] = 0
    BY <1>0, <1>11, <2>1 DEF registerTurnWaiter, TypeOK
  <2>3. Leaving' = 0
    BY <2>2 DEF Leaving
  <2> QED
    BY <1>1, <1>2, <1>4, <1>11, <2>3 DEF registerTurnWaiter, log
<1>12. ASSUME WriteMessage PROVE Balance'
  <2>1. /\ UNCHANGED <<returned, answered, unasked, reader, cur>> /\ pc = "write"
        /\ (pc' = "await" /\ UNCHANGED closes) \/ pc' = "idle"
    BY <1>12 DEF WriteMessage, waits
  <2>2. Leaving' <= Leaving
    BY <1>1, <2>1 DEF Leaving
  <2> QED
    BY <1>2, <1>4, <2>1, <2>2
<1>13. ASSUME Return PROVE Balance'
  <2>1. UNCHANGED <<answered, unasked, reader>> /\ Leaving' = 0
    BY <1>13 DEF Return, Leaving
  <2>2. CASE Released
    <3>1. Leaving = 1 /\ returned' = returned \cup {cur}
      BY <1>13, <2>2 DEF Return, Released, Leaving
    <3>2. IsFiniteSet(returned) /\ Cardinality(returned) \in Nat
      BY <1>0, Finite
    <3>3. Cardinality(returned') \in Nat /\ Cardinality(returned') <= Cardinality(returned) + 1
      <4>1. Cardinality(returned \cup {cur})
              = IF cur \in returned THEN Cardinality(returned) ELSE Cardinality(returned) + 1
        BY <3>2, FS_AddElement
      <4> QED
        BY <3>1, <3>2, <4>1
    <3> QED
      BY <1>0, <1>4, <2>1, <3>1, <3>3, Finite DEF Balance
  <2>3. CASE ~Released
    BY <1>1, <1>2, <1>4, <1>13, <2>1, <2>3 DEF Return
  <2> QED
    BY <2>2, <2>3
<1>14. ASSUME SpawnFails \/ WatchdogFires \/ WatchdogKills \/ TakeMessage \/ TakeCompact \/ TakeStart
       PROVE  Balance'
  BY <1>2, <1>3, <1>4, <1>14 DEF SpawnFails, WatchdogFires, WatchdogKills, TakeMessage,
     TakeCompact, TakeStart, log
<1>15. ASSUME Signals \/ StdinClosed \/ \E s \in {"INT", "TERM"} : SendSignal(s) PROVE Balance'
  BY <1>2, <1>3, <1>4, <1>15 DEF Signals, HandleInterrupt, HandleTerminate, Exit, StdinClosed,
     Shutdown, SendSignal, waits, log, disp
<1> QED
  BY <1>5, <1>6, <1>7, <1>8, <1>9, <1>10, <1>11, <1>12, <1>13, <1>14, <1>15
  DEF Next, Reader, Server, Dispatcher

\* A result and the end of a process release one request each at most, for any
\* number of messages, processes, unprompted turns and signals: the waiter is
\* closed under the lock and cleared with it, and each reader tells once per end
\* (signalTurnEnd, readStreamJSON).
THEOREM ReleasesAreOwed == Spec => []OneReleasePerEnd
<1>1. Init => Balance
  <2> SUFFICES ASSUME Init PROVE Balance
    OBVIOUS
  <2>1. returned = {} /\ Telling = {} /\ answered = {} /\ unasked = 0 /\ Left = {} /\ Leaving = 0
    BY DEF Init, Telling, Left, Leaving
  <2> QED
    BY <2>1, FS_EmptySet DEF Balance
<1>2. LoopInv /\ Written /\ ServedInv /\ Balance /\ [Next]_vars => Balance'
  <2>1. UNCHANGED vars /\ Balance => Balance'
    BY DEF vars, waits, log, disp, Balance, Leaving, Telling, Left
  <2> QED
    BY <2>1, BalanceKept
<1>3. LoopInv /\ Balance => OneReleasePerEnd
  BY Finite DEF LoopInv, Balance, OneReleasePerEnd, Left
<1> QED
  BY <1>1, <1>2, <1>3, LoopAlways, ServedAlways, PTL DEF Spec

-----------------------------------------------------------------------------
(* The steps of Requests.                                                  *)

\* The message bridge-server waits for.
Waited == IF pc = "await" THEN cur ELSE None

\* Each step is one of Requests' or changes nothing it speaks of.
LEMMA StepServed ==
  ASSUME LoopInv, MarkKept, Written, ServedInv, Next
  PROVE  Served!Next \/ UNCHANGED <<Waited, sentTo, answered, stalled, returned, died>>
<1> USE DEF LoopInv
<1>1. UNCHANGED <<pc, cur>> \/ (pc # "await" /\ pc' # "await") => UNCHANGED Waited
  BY DEF Waited
<1>2. ASSUME NEW g \in Gen, ReadResult(g)
      PROVE  Served!Next \/ UNCHANGED <<Waited, sentTo, answered, stalled, returned, died>>
  <2>1. UNCHANGED <<Waited, sentTo, stalled, returned, died>>
    BY <1>1, <1>2 DEF ReadResult, disp
  <2>2. CASE Head(out[g]) \notin Msg
    BY <1>2, <2>1, <2>2 DEF ReadResult
  <2>3. CASE Head(out[g]) \in Msg
    <3> DEFINE m == Head(out[g])
    <3>1. out[g] # <<>> /\ reader[g] = "read" /\ answered' = answered \cup {m}
      BY <1>2, <2>3 DEF ReadResult
    <3>2. Within(m, out[g])
      <4>1. out[g] \in Seq(Turn)
        BY DEF TypeOK
      <4> QED
        BY <3>1, <4>1, Tails
    <3> HIDE DEF m
    <3>3. InPipe(g, m) /\ sentTo[m] = g /\ g # None /\ g \notin died
      BY <2>3, <3>1, <3>2 DEF InPipe, m, ServedInv, Delivered, ReportedLast, Gen, None
    <3>4. \A k \in answered : sentTo[k] = sentTo[m] => k < m
      BY <2>3, <3>3 DEF m, TypeOK, ServedInv, InOrder, Ahead
    <3>5. Served!Answer(m)
      BY <2>1, <3>1, <3>3, <3>4 DEF Served!Answer, Waited
    <3> QED
      BY <2>3, <3>5 DEF Served!Next, m
  <2> QED
    BY <2>2, <2>3
<1>3. ASSUME NEW g \in Gen, handleProcessExit(g)
      PROVE  Served!Next \/ UNCHANGED <<Waited, sentTo, answered, stalled, returned, died>>
  <2>1. /\ UNCHANGED <<Waited, sentTo, answered, stalled, returned>>
        /\ died' = died \cup {g} \/ UNCHANGED died
    BY <1>1, <1>3 DEF handleProcessExit, disp
  <2>2. g \notin died
    BY <1>3 DEF handleProcessExit, ServedInv, ReportedLast
  <2>3. died' = died \cup {g} => Served!ReportDeath(g)
    BY <2>1, <2>2 DEF Served!ReportDeath, Waited
  <2> QED
    BY <2>1, <2>3 DEF Served!Next
<1>4. ASSUME WriteMessage
      PROVE  Served!Next \/ UNCHANGED <<Waited, sentTo, answered, stalled, returned, died>>
  <2>1. /\ UNCHANGED <<answered, stalled, returned, died, cur>> /\ pc = "write"
        /\ cur \in Msg /\ proc \in Gen
    BY <1>4 DEF WriteMessage, Handles
  <2>2. CASE UNCHANGED sentTo /\ pc' = "idle"
    BY <1>1, <2>1, <2>2
  <2>3. CASE /\ cc[proc] \in {"running", "mute"} /\ pc' = "await"
             /\ sentTo' = [sentTo EXCEPT ![cur] = proc]
    <3>1. proc \notin died
      BY <2>1, <2>3 DEF MarkKept, LastLives
    <3>2. ASSUME NEW k \in Msg, sentTo[k] # None PROVE k < cur /\ sentTo[k] <= proc
      <4>1. ~Unsent(k) /\ sentTo[k] <= proc /\ cur = last
        BY <2>1, <3>2 DEF Written, ServedInv, Newest
      <4>2. ~(k > last) /\ k # cur
        BY <2>1, <4>1 DEF Unsent
      <4> QED
        BY <2>1, <4>1, <4>2, TurnAssumption DEF Msg
    <3>3. Waited = None /\ Waited' = cur
      BY <2>1, <2>3 DEF Waited
    <3>4. Served!Ask(cur, proc)
      BY <2>1, <2>3, <3>1, <3>2, <3>3 DEF Served!Ask, Waited
    <3> QED
      BY <2>1, <3>4 DEF Served!Next
  <2> QED
    BY <1>4, <2>2, <2>3 DEF WriteMessage
<1>5. ASSUME Return PROVE Served!Next
  <2>1. /\ pc = "await" /\ pc' = "idle" /\ UNCHANGED <<sentTo, answered, stalled, died>>
        /\ returned' = returned \cup {cur} \/ UNCHANGED returned
    BY <1>5 DEF Return
  <2>2. Waited = cur /\ Waited' = None /\ cur # None
    BY <2>1, OwnUnasked DEF Waited, Handles
  <2>3. Served!Return \/ Served!Abandon
    BY <2>1, <2>2 DEF Served!Return, Served!Abandon, Waited
  <2> QED
    BY <2>3 DEF Served!Next
<1>6. ASSUME WatchdogFires PROVE Served!Next
  <2>1. /\ pc = "await" /\ pc' = "abandon" /\ UNCHANGED <<sentTo, answered, returned, died>>
        /\ stalled' = stalled \cup {cur}
    BY <1>6 DEF WatchdogFires
  <2>2. Waited = cur /\ Waited' = None /\ cur # None
    BY <2>1, OwnUnasked DEF Waited, Handles
  <2>3. cur \notin answered
    <3>1. ~Released /\ \A g \in Gen : reader[g] # "result"
      BY <1>6 DEF WatchdogFires
    <3> QED
      BY <2>1, <3>1 DEF Armed, Released, AnswerSignalled
  <2>4. Served!Stall
    BY <2>1, <2>2, <2>3 DEF Served!Stall, Waited
  <2> QED
    BY <2>4 DEF Served!Next
<1>7. ASSUME NEW g \in Gen, Claude(g) \/ ProcessExits(g) \/ TurnEnds(g) \/ ReadEOF(g)
             \/ ReaderLeaves(g)
      PROVE  UNCHANGED <<Waited, sentTo, answered, stalled, returned, died>>
  BY <1>1, <1>7 DEF Claude, BeginTurn, EndTurn, CloseStdout, Die, ProcessExits, TurnEnds, ReadEOF,
     ReaderLeaves, log, disp
<1>8. ASSUME Server \/ Signals
      PROVE  UNCHANGED <<Waited, sentTo, answered, stalled, returned, died>>
  BY <1>1, <1>8 DEF Server, TakeMessage, TakeCompact, TakeStart, StdinClosed, Shutdown, SendSignal,
     Signals, HandleInterrupt, HandleTerminate, Exit, log, disp
<1>9. ASSUME registerTurnWaiter \/ (\E g \in Gen : Spawn(g)) \/ SpawnFails \/ WatchdogKills
      PROVE  UNCHANGED <<Waited, sentTo, answered, stalled, returned, died>>
  BY <1>1, <1>9 DEF registerTurnWaiter, Spawn, SpawnFails, WatchdogKills, log
<1> QED
  BY <1>2, <1>3, <1>4, <1>5, <1>6, <1>7, <1>8, <1>9 DEF Next, Reader, Dispatcher

\* The turn loop serves its requests as bridge-server is promised (Requests.tla), for
\* any number of messages, processes, unprompted turns and signals, with or without
\* watchdog and crashes: a message is written once, to the last process, after every
\* older one; results come in the order of the messages of a process and never after
\* its death is reported (handleMessage, readStreamJSON, handleProcessExit).
THEOREM RequestsServed == Spec => Requests
<1>1. Init => Served!Init
  BY OwnUnasked DEF Init, Served!Init
<1>2. LoopInv /\ MarkKept /\ Written /\ ServedInv /\ [Next]_vars
        => [Served!Next]_<<IF pc = "await" THEN cur ELSE None, sentTo, answered, stalled, returned, died>>
  <2>1. CASE UNCHANGED vars
    BY <2>1 DEF vars, log, disp
  <2> QED BY <2>1, StepServed DEF Waited
<1> QED
  BY <1>1, <1>2, LoopAlways, MarkAlways, ServedAlways, PTL DEF Spec, Requests, Served!Spec

-----------------------------------------------------------------------------
(* Who waits is not left behind, if stdout stays open until the exit.      *)

\* No reader leaves a waiting request behind: until it is released, or the harness
\* shuts down, the reader of the session's process is there to release it (the last
\* signalTurnEnd of readStreamJSON).  With EarlyEOF a request written after the
\* reader has gone is left behind (README, Departures).
NoneLeftBehind ==
  pc = "await" /\ ~Released /\ ~ctxDone => reader[proc] \notin {"none", "gone"}

\* A process that runs is read.
Attended ==
  \A g \in Gen : /\ cc[g] # "mute"
                 /\ cc[g] = "running" /\ ~ctxDone => reader[g] \in {"read", "result"}

\* A reader leaves at the end of stdout, which is now the process's, or at shutdown.
LEMMA AttendedKept ==
  ASSUME ~EarlyEOF, LoopInv, Attended, [Next]_vars
  PROVE  Attended'
<1> USE DEF LoopInv
<1>1. UNCHANGED <<cc, reader>> /\ (ctxDone => ctxDone') => Attended'
  BY DEF Attended
<1>2. ASSUME NEW g \in Gen, Die(g) PROVE Attended'
  <2>1. cc' = [cc EXCEPT ![g] = "dead"] /\ UNCHANGED <<reader, ctxDone>>
    BY <1>2 DEF Die, ends
  <2> QED
    BY <2>1 DEF Attended, TypeOK
<1>3. ASSUME NEW g \in Gen, Spawn(g) PROVE Attended'
  <2>1. /\ cc' = [cc EXCEPT ![g] = "running"] /\ reader' = [reader EXCEPT ![g] = "read"]
        /\ UNCHANGED ctxDone
    BY <1>3 DEF Spawn, ends
  <2> QED
    BY <2>1 DEF Attended, TypeOK
<1>4. ASSUME NEW g \in Gen, ReadResult(g) \/ TurnEnds(g) PROVE Attended'
  <2>1. reader'[g] \in {"read", "result"} /\ (\A k \in Gen \ {g} : reader'[k] = reader[k])
        /\ UNCHANGED <<cc, ctxDone>>
    BY <1>4 DEF ReadResult, TurnEnds, TypeOK, claude, ends
  <2> QED
    BY <2>1 DEF Attended
<1>5. ASSUME NEW g \in Gen, ReadEOF(g) \/ handleProcessExit(g) \/ ReaderLeaves(g) PROVE Attended'
  <2>1. ctxDone \/ cc[g] # "running"
    BY <1>5 DEF ReadEOF, handleProcessExit, ReaderLeaves, Attended
  <2>2. (\A k \in Gen \ {g} : reader'[k] = reader[k]) /\ UNCHANGED <<cc, ctxDone>>
    BY <1>5 DEF ReadEOF, handleProcessExit, ReaderLeaves, TypeOK, claude, ends
  <2> QED
    BY <2>1, <2>2 DEF Attended
<1>6. ASSUME NEW g \in Gen, CloseStdout(g) PROVE FALSE
  BY <1>6 DEF CloseStdout
<1>7. ASSUME NEW g \in Gen, BeginTurn(g) \/ EndTurn(g) \/ ProcessExits(g) PROVE Attended'
  BY <1>1, <1>7 DEF BeginTurn, EndTurn, ProcessExits, ends
<1>8. ASSUME Server \/ Signals PROVE Attended'
  BY <1>1, <1>8 DEF Server, TakeMessage, TakeCompact, TakeStart, StdinClosed, Shutdown, SendSignal,
     Signals, HandleInterrupt, HandleTerminate, Exit, claude, ends
<1>9. ASSUME registerTurnWaiter \/ SpawnFails \/ WriteMessage \/ Return \/ WatchdogFires
             \/ WatchdogKills PROVE Attended'
  BY <1>1, <1>9 DEF registerTurnWaiter, SpawnFails, WriteMessage, Return, WatchdogFires,
     WatchdogKills, claude, ends
<1>10. CASE UNCHANGED vars
  BY <1>1, <1>10 DEF vars, claude, ends
<1> QED
  BY <1>2, <1>3, <1>4, <1>5, <1>6, <1>7, <1>8, <1>9, <1>10 DEF Next, Claude, Reader, Dispatcher

\* Closing the waiter releases who waits.
LEMMA Releases ==
  ASSUME LoopInv, pc = "await", signalTurnEnd, UNCHANGED cur
  PROVE  Released'
<1>1. closes \in [Msg -> Nat] /\ cur \in Msg /\ (turnWaiter = cur \/ closes[cur] > 0)
  BY DEF LoopInv, TypeOK, Handles, Armed
<1>2. turnWaiter \in Msg \cup {None} /\ cur # None
  BY <1>1, OwnUnasked DEF LoopInv, TypeOK
<1> QED
  BY <1>1, <1>2 DEF signalTurnEnd, Released

\* What is released stays so, and a request begins to wait at a process that is read.
LEMMA LeftBehindKept ==
  ASSUME LoopInv, Attended, NoneLeftBehind, [Next]_vars
  PROVE  NoneLeftBehind'
<1> USE DEF LoopInv
<1>1. pc' # "await" => NoneLeftBehind'
  BY DEF NoneLeftBehind
<1>2. ASSUME UNCHANGED <<pc, cur, proc, closes>>, ctxDone => ctxDone',
             pc = "await" => reader'[proc] \notin {"none", "gone"} \/ reader'[proc] = reader[proc]
      PROVE  NoneLeftBehind'
  BY <1>2 DEF NoneLeftBehind, Released
<1>3. ASSUME NEW g \in Gen, TurnEnds(g) \/ ReaderLeaves(g) PROVE NoneLeftBehind'
  <2>1. signalTurnEnd /\ UNCHANGED <<pc, cur>>
    BY <1>3 DEF TurnEnds, ReaderLeaves, disp
  <2> QED
    BY <2>1, Releases DEF NoneLeftBehind
<1>4. ASSUME NEW g \in Gen, ReadResult(g) \/ ReadEOF(g) \/ handleProcessExit(g)
      PROVE  NoneLeftBehind'
  <2>1. /\ UNCHANGED <<pc, cur, proc, closes, ctxDone>>
        /\ \A k \in Gen : reader'[k] \notin {"none", "gone"} \/ reader'[k] = reader[k]
    BY <1>4 DEF ReadResult, ReadEOF, handleProcessExit, TypeOK, waits, disp, ends
  <2>2. pc = "await" => proc \in Gen
    BY DEF Handles
  <2> QED
    BY <1>2, <2>1, <2>2
<1>5. ASSUME WriteMessage PROVE NoneLeftBehind'
  <2>1. proc \in Gen /\ UNCHANGED <<cc, reader, proc, ctxDone>>
    BY <1>5 DEF WriteMessage, Handles, ends
  <2>2. pc' = "await" => cc[proc] \in {"running", "mute"}
    BY <1>5 DEF WriteMessage
  <2> QED
    BY <2>1, <2>2 DEF Attended, NoneLeftBehind
<1>6. ASSUME NEW g \in Gen, Claude(g) \/ ProcessExits(g) PROVE NoneLeftBehind'
  BY <1>2, <1>6 DEF Claude, BeginTurn, EndTurn, CloseStdout, Die, ProcessExits, waits, disp, ends
<1>7. ASSUME HandleTerminate \/ HandleInterrupt \/ Exit \/ \E s \in {"INT", "TERM"} : SendSignal(s)
      PROVE  NoneLeftBehind'
  BY <1>2, <1>7 DEF HandleTerminate, Shutdown, HandleInterrupt, Exit, SendSignal, waits, disp
<1>8. ASSUME \/ TakeMessage \/ TakeCompact \/ TakeStart \/ StdinClosed \/ registerTurnWaiter
             \/ (\E g \in Gen : Spawn(g)) \/ SpawnFails \/ Return \/ WatchdogFires \/ WatchdogKills
      PROVE  NoneLeftBehind'
  BY <1>1, <1>8 DEF TakeMessage, TakeCompact, TakeStart, StdinClosed, registerTurnWaiter, Spawn,
     SpawnFails, Return, WatchdogFires, WatchdogKills
<1>9. CASE UNCHANGED vars
  BY <1>2, <1>9 DEF vars, waits, disp, ends
<1> QED
  BY <1>3, <1>4, <1>5, <1>6, <1>7, <1>8, <1>9 DEF Next, Reader, Server, Dispatcher, Signals

\* A request that waits is not left behind by the readers, for any number of
\* messages, processes and signals, with or without watchdog and crashes, if stdout
\* stays open until the process exits (readStreamJSON).
THEOREM ReadersLeaveNone ==
  ASSUME ~EarlyEOF
  PROVE  Spec => []NoneLeftBehind
<1>1. Init => Attended /\ NoneLeftBehind
  BY DEF Init, Attended, NoneLeftBehind
<1>2. LoopInv /\ Attended /\ NoneLeftBehind /\ [Next]_vars => (Attended /\ NoneLeftBehind)'
  BY AttendedKept, LeftBehindKept
<1> QED
  BY <1>1, <1>2, LoopAlways, PTL DEF Spec

=============================================================================
