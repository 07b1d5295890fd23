----------------------- MODULE AssistantRecoveryProofs -----------------------
(***************************************************************************)
(* Nothing the model said is left out, for any texts, turns, side calls,   *)
(* dropped frames and late copies; what it said once is shown once, if     *)
(* copies come at most a turn late.                                        *)
(***************************************************************************)
EXTENDS AssistantRecovery, FiniteSets, FiniteSetTheorems, TLAPS

-----------------------------------------------------------------------------
(* The invariant of the turns.                                             *)

\* A turn's result comes last.
ResultLast == \A i \in 1..Len(unread) : unread[i] = "result" => i = Len(unread)

\* The reader leaves its loop with everything read.
AllRead == reader # "read" => unread = <<>>

\* A turn that has ended, or will when its result is read, has a next one.
AnotherTurn ==
  /\ reader \in {"turnEnd", "begin"} => turns < MaxTurns
  /\ \A i \in 1..Len(unread) : unread[i] = "result" => turns < MaxTurns

\* Between a flush and the next turn no copy is on its way that may be no later.
Punctual == reader \in {"begin", "none"} => OnTime

TurnInv == TypeOK /\ ResultLast /\ AllRead /\ AnotherTurn /\ Punctual

-----------------------------------------------------------------------------
(* What is added for NothingLost.                                          *)

\* The OTel copies of a text that are on their way, numbered for each age.
Aged(t, a)     == [call |-> "conversation", text |-> t, age |-> a]
Outstanding(t) == {x \in (0..MaxLate) \X Nat : x[2] \in 1..inflight[Aged(t, x[1])]}

\* Every segment said was forwarded and not kept as a delivery still to be
\* matched, or has a copy: on its way, buffered, lost or forwarded.
Accounted ==
  \A t \in Text :
    /\ IsFiniteSet(Outstanding(t))
    /\ said[t] + deliveredText[t] + deliveredBefore[t] <=
         Cardinality(Outstanding(t)) + pendingOTel["conversation"][t] + lost[t]
           + recovered[t] + streamed[t]

-----------------------------------------------------------------------------
(* What is added for SaidOnceShownOnce.                                    *)

\* The copies of a text of the current turn, and of the one before.
Young(t)    == inflight[Aged(t, 0)]
Old(t)      == IF MaxLate = 0 THEN 0 ELSE inflight[Aged(t, 1)]
Buffered(t) == pendingOTel["conversation"][t]
Frame(t, s)    == \E i \in 1..Len(s) : s[i] = t
OneFrame(t, s) == \A i, k \in 1..Len(s) : s[i] = t /\ s[k] = t => i = k

Unsaid(t) ==
  /\ Young(t) = 0 /\ Old(t) = 0 /\ Buffered(t) = 0 /\ recovered[t] = 0
  /\ streamed[t] = 0 /\ ~Frame(t, unread)

\* One copy and one frame; while the copy may come the delivery is remembered,
\* and a copy that was forwarded had no frame.
SaidOnce(t) ==
  /\ Young(t) + Old(t) + Buffered(t) + recovered[t] <= 1
  /\ OneFrame(t, unread) /\ streamed[t] <= 1
  /\ streamed[t] = 1 => ~Frame(t, unread) /\ recovered[t] = 0
  /\ Frame(t, unread) => Old(t) = 0 /\ recovered[t] = 0
  /\ streamed[t] = 1 =>
       /\ Young(t) = 1 => deliveredText[t] > 0
       /\ Old(t) = 1 => deliveredBefore[t] > 0
       /\ Buffered(t) = 1 => \/ deliveredText[t] > 0
                             \/ deliveredBefore[t] > 0 /\ reader \notin {"begin", "none"}

ShownOnce ==
  ~watchdog => /\ ~fired
               /\ \A t \in Text : /\ said[t] = 0 => Unsaid(t)
                                  /\ said[t] = 1 => SaidOnce(t)

-----------------------------------------------------------------------------
(* The frames.                                                             *)

\* A frame is read,
LEMMA FrameRead ==
  ASSUME NEW S, NEW s \in Seq(S), s # <<>>
  PROVE  /\ 1 \in 1..Len(s) /\ Head(s) = s[1] /\ Head(s) \in S /\ Tail(s) \in Seq(S)
         /\ Len(s) \in Nat /\ Len(Tail(s)) = Len(s) - 1
         /\ \A i \in 1..Len(Tail(s)) : i + 1 \in 1..Len(s) /\ Tail(s)[i] = s[i + 1]
         /\ Len(s) = 1 => Tail(s) = <<>>
<1>1. /\ 1 \in 1..Len(s) /\ Head(s) = s[1] /\ Head(s) \in S /\ Tail(s) \in Seq(S)
      /\ Len(s) \in Nat /\ Len(Tail(s)) = Len(s) - 1
      /\ \A i \in 1..Len(Tail(s)) : i + 1 \in 1..Len(s) /\ Tail(s)[i] = s[i + 1]
  OBVIOUS
<1> DEFINE t == Tail(s)
<1>2. t \in Seq(S) /\ (Len(s) = 1 => Len(t) = 0)
  BY <1>1
<1> HIDE DEF t
<1>3. Len(s) = 1 => t = <<>>
  BY <1>2
<1> QED
  BY <1>1, <1>3 DEF t

\* ... or written.
LEMMA FrameWritten ==
  ASSUME NEW S, NEW s \in Seq(S), NEW e \in S
  PROVE  /\ Append(s, e) \in Seq(S) /\ Len(Append(s, e)) = Len(s) + 1 /\ Len(s) \in Nat
         /\ \A i \in 1..Len(s) : Append(s, e)[i] = s[i]
         /\ Append(s, e)[Len(s) + 1] = e
         /\ \A i \in 1..Len(Append(s, e)) : i \in 1..Len(s) \/ i = Len(s) + 1
OBVIOUS

-----------------------------------------------------------------------------
(* The flush, text by text.                                                *)

\* Buffered copies consume deliveries and are forwarded else; nothing is lost,
\* nor recovered that finds its delivery.
LEMMA Flushed ==
  ASSUME NEW c \in Nat, NEW d \in Nat, NEW b \in Nat, NEW r \in Nat
  PROVE  LET now    == Least(c, d)
             before == Least(c - now, b)
         IN  /\ d - now \in Nat /\ b - before \in Nat
             /\ r + c - now - before \in Nat
             /\ (d - now) + (b - before) + c + r = d + b + (r + c - now - before)
             /\ c <= 1 /\ (d > 0 \/ b > 0) => r + c - now - before = r
             /\ c = 0 => d - now = d /\ b - before = b /\ r + c - now - before = r
             /\ r + c - now - before <= r + c
<1>1. CASE c <= d
  BY <1>1 DEF Least
<1>2. CASE ~(c <= d) /\ c - d <= b
  BY <1>2 DEF Least
<1>3. CASE ~(c <= d) /\ ~(c - d <= b)
  BY <1>3 DEF Least
<1> QED
  BY <1>1, <1>2, <1>3

\* What a flush leaves of each text.
LEMMA FlushOf ==
  ASSUME TypeOK, flushRecoveredAssistant
  PROVE  /\ deliveredText' \in [Text -> Nat] /\ deliveredBefore' \in [Text -> Nat]
         /\ recovered' \in [Text -> Nat] /\ pendingOTel' = [c \in Call |-> Zero]
         /\ \A t \in Text :
              /\ deliveredText'[t] + deliveredBefore'[t] + pendingOTel["conversation"][t]
                   + recovered[t] = deliveredText[t] + deliveredBefore[t] + recovered'[t]
              /\ pendingOTel["conversation"][t] <= 1
                   /\ (deliveredText[t] > 0 \/ deliveredBefore[t] > 0)
                     => recovered'[t] = recovered[t]
              /\ pendingOTel["conversation"][t] = 0 =>
                   /\ deliveredText'[t] = deliveredText[t]
                   /\ deliveredBefore'[t] = deliveredBefore[t]
                   /\ recovered'[t] = recovered[t]
              /\ recovered'[t] <= recovered[t] + pendingOTel["conversation"][t]
<1>1. \A t \in Text : /\ pendingOTel["conversation"][t] \in Nat /\ deliveredText[t] \in Nat
                      /\ deliveredBefore[t] \in Nat /\ recovered[t] \in Nat
  BY DEF TypeOK, Call
<1> DEFINE c(t)      == pendingOTel["conversation"][t]
           now(t)    == Least(c(t), deliveredText[t])
           before(t) == Least(c(t) - now(t), deliveredBefore[t])
<1>2. /\ deliveredText' = [t \in Text |-> deliveredText[t] - now(t)]
      /\ deliveredBefore' = [t \in Text |-> deliveredBefore[t] - before(t)]
      /\ recovered' = [t \in Text |-> recovered[t] + c(t) - now(t) - before(t)]
      /\ pendingOTel' = [k \in Call |-> Zero]
  BY DEF flushRecoveredAssistant
<1>3. \A t \in Text :
        LET d == deliveredText[t]  b == deliveredBefore[t]  r == recovered[t]  n == c(t)
        IN  /\ d - now(t) \in Nat /\ b - before(t) \in Nat
            /\ r + n - now(t) - before(t) \in Nat
            /\ (d - now(t)) + (b - before(t)) + n + r = d + b + (r + n - now(t) - before(t))
            /\ n <= 1 /\ (d > 0 \/ b > 0) => r + n - now(t) - before(t) = r
            /\ n = 0 => d - now(t) = d /\ b - before(t) = b /\ r + n - now(t) - before(t) = r
            /\ r + n - now(t) - before(t) <= r + n
  BY <1>1, Flushed
<1> HIDE DEF now, before
<1> QED
  BY <1>2, <1>3

-----------------------------------------------------------------------------
(* Types and turns.                                                        *)

\* The copies as a function of their descriptions.
LEMMA Copies ==
  /\ \A c \in Copy : c.call \in Call /\ c.text \in Text /\ c.age \in 0..MaxLate
  /\ \A call \in Call, t \in Text, a \in 0..MaxLate :
       [call |-> call, text |-> t, age |-> a] \in Copy
  /\ \A c \in Copy : c.age # 0 => [c EXCEPT !.age = @ - 1] \in Copy
  /\ 0 \in 0..MaxLate
BY RecoveryAssumption DEF Copy

\* Every action keeps the types.
LEMMA TypesKept ==
  ASSUME TurnInv, Next
  PROVE  TypeOK'
<1> USE DEF TurnInv
<1>0. /\ unread \in Seq(Text \cup {"result"}) /\ inflight \in [Copy -> Nat]
      /\ Zero \in [Text -> Nat] /\ MaxSpoken \in Nat /\ MaxTurns \in Nat
  BY RecoveryAssumption DEF TypeOK, Zero
<1>1. ASSUME NEW call \in Call, NEW t \in Text, Exports(call, t)
      PROVE  inflight' \in [Copy -> Nat] /\ spoken' \in 0..MaxSpoken
  <2>1. [call |-> call, text |-> t, age |-> 0] \in Copy
    BY Copies
  <2> QED
    BY <1>0, <1>1, <2>1 DEF Exports, TypeOK
<1>2. ASSUME NEW t \in Text, Say(t)
      PROVE  TypeOK'
  <2>1. Append(unread, t) \in Seq(Text \cup {"result"})
    BY <1>0
  <2>2. inflight' \in [Copy -> Nat] /\ spoken' \in 0..MaxSpoken
    BY <1>1, <1>2 DEF Say, Call
  <2>3. said' \in [Text -> Nat]
    BY <1>2 DEF Say, TypeOK
  <2> QED
    BY <1>2, <2>1, <2>2, <2>3 DEF Say, TypeOK, buffers, output
<1>3. ASSUME NEW t \in Text, SideCall(t)
      PROVE  TypeOK'
  <2>1. inflight' \in [Copy -> Nat] /\ spoken' \in 0..MaxSpoken
    BY <1>1, <1>3 DEF SideCall, Call
  <2> QED
    BY <1>3, <2>1 DEF SideCall, TypeOK, buffers, output
<1>4. CASE EndTurn
  <2>1. Append(unread, "result") \in Seq(Text \cup {"result"})
    BY <1>0
  <2> QED
    BY <1>4, <2>1 DEF EndTurn, TypeOK, buffers, output
<1>5. CASE Dies
  BY <1>5 DEF Dies, TypeOK, buffers, output
<1>6. ASSUME NEW c \in Copy, LosesCopy(c)
      PROVE  TypeOK'
  <2>1. inflight' \in [Copy -> Nat]
    BY <1>0, <1>6 DEF LosesCopy
  <2>2. lost' \in [Text -> Nat]
    BY <1>6, Copies DEF LosesCopy, TypeOK
  <2> QED
    BY <1>6, <2>1, <2>2 DEF LosesCopy, TypeOK, buffers, output
<1>7. ASSUME NEW c \in Copy, EmitOTel(c)
      PROVE  TypeOK'
  <2>1. inflight' \in [Copy -> Nat]
    BY <1>0, <1>7 DEF EmitOTel
  <2>2. pendingOTel' \in [Call -> [Text -> Nat]]
    <3>1. c.call \in Call /\ c.text \in Text /\ pendingOTel \in [Call -> [Text -> Nat]]
      BY Copies DEF TypeOK
    <3>2. [pendingOTel[c.call] EXCEPT ![c.text] = @ + 1] \in [Text -> Nat]
      BY <3>1
    <3>3. pendingOTel' = [pendingOTel EXCEPT ![c.call][c.text] = @ + 1]
      BY <1>7 DEF EmitOTel
    <3> QED
      BY <3>1, <3>2, <3>3
  <2> QED
    BY <1>7, <2>1, <2>2 DEF EmitOTel, TypeOK, output
<1>8. ASSUME NEW t \in Text, EmitText(t)
      PROVE  TypeOK'
  <2>1. unread' \in Seq(Text \cup {"result"})
    BY <1>0, <1>8, FrameRead DEF EmitText
  <2>2. deliveredText' \in [Text -> Nat] /\ streamed' \in [Text -> Nat]
    <3>1. deliveredText \in [Text -> Nat] /\ streamed \in [Text -> Nat]
      BY DEF TypeOK
    <3> QED
      BY <1>8, <3>1 DEF EmitText
  <2> QED
    BY <1>8, <2>1, <2>2 DEF EmitText, TypeOK
<1>9. CASE ReadEnd
  <2>1. unread' \in Seq(Text \cup {"result"})
    <3>1. unread' = unread \/ (unread # <<>> /\ unread' = Tail(unread))
      BY <1>9 DEF ReadEnd
    <3>2. unread # <<>> => Tail(unread) \in Seq(Text \cup {"result"})
      BY <1>0, FrameRead
    <3> QED
      BY <1>0, <3>1, <3>2
  <2> QED
    BY <1>9, <2>1 DEF ReadEnd, TypeOK, buffers, output
<1>10. CASE FlushAtTurnEnd
  <2>1. pendingOTel' \in [Call -> [Text -> Nat]]
    BY <1>0, <1>10, FlushOf DEF FlushAtTurnEnd
  <2> QED
    BY <1>10, <2>1, FlushOf DEF FlushAtTurnEnd, TypeOK
<1>11. CASE beginTurn
  <2>1. inflight' \in [Copy -> Nat]
    BY <1>0, <1>11, Copies DEF beginTurn
  <2>2. turns' \in 0..MaxTurns
    BY <1>0, <1>11 DEF beginTurn, TypeOK, AnotherTurn
  <2> QED
    BY <1>0, <1>11, <2>1, <2>2 DEF beginTurn, TypeOK, output
<1>12. CASE Spawn \/ Message \/ WatchdogFires
  BY <1>12 DEF Spawn, Message, WatchdogFires, TypeOK, claude, buffers, output
<1>13. CASE WatchdogAbandons
  <2>1. pendingOTel' \in [Call -> [Text -> Nat]]
    BY <1>0, <1>13, FlushOf DEF WatchdogAbandons
  <2> QED
    BY <1>13, <2>1, FlushOf DEF WatchdogAbandons, TypeOK
<1> QED
  BY <1>2, <1>3, <1>4, <1>5, <1>6, <1>7, <1>8, <1>9, <1>10, <1>11, <1>12, <1>13
  DEF Next, ReaderStep, DispatcherStep

\* A result is the last frame of its turn, and a turn that ended has a next one.
LEMMA TurnsKept ==
  ASSUME TurnInv, Next
  PROVE  ResultLast' /\ AllRead' /\ AnotherTurn'
<1> USE DEF TurnInv
<1>0. unread \in Seq(Text \cup {"result"}) /\ "result" \notin Text
  BY RecoveryAssumption DEF TypeOK
<1>1. CASE UNCHANGED <<unread, reader, turns>>
  BY <1>1 DEF ResultLast, AllRead, AnotherTurn
<1>2. ASSUME Speaks, UNCHANGED <<reader, turns>>, NEW e \in Text \cup {"result"},
             unread' = Append(unread, e), e = "result" => turns < MaxTurns
      PROVE  ResultLast' /\ AllRead' /\ AnotherTurn'
  <2>1. DOMAIN unread = 1..Len(unread)
    BY <1>0
  <2>2. \A i \in 1..Len(unread) : unread[i] # "result"
    BY <1>2, <2>1 DEF Speaks
  <2> QED
    BY <1>0, <1>2, <2>2, FrameWritten DEF ResultLast, AllRead, AnotherTurn, Speaks
<1>3. ASSUME NEW t \in Text, Say(t)
      PROVE  ResultLast' /\ AllRead' /\ AnotherTurn'
  BY <1>0, <1>1, <1>2, <1>3 DEF Say
<1>4. CASE EndTurn
  BY <1>2, <1>4 DEF EndTurn
<1>5. ASSUME unread # <<>>, unread' = Tail(unread), UNCHANGED turns,
             reader = "read",
             reader' = "read" \/ (reader' = "turnEnd" /\ Head(unread) = "result")
      PROVE  ResultLast' /\ AllRead' /\ AnotherTurn'
  <2>1. /\ 1 \in 1..Len(unread) /\ Head(unread) = unread[1] /\ Len(Tail(unread)) = Len(unread) - 1
        /\ \A i \in 1..Len(Tail(unread)) :
             i + 1 \in 1..Len(unread) /\ Tail(unread)[i] = unread[i + 1]
    BY <1>0, <1>5, FrameRead
  <2>2. Len(unread) \in Nat /\ (Len(unread) = 1 => Tail(unread) = <<>>)
    BY <1>0, <1>5, FrameRead
  <2>3. ASSUME NEW i \in 1..Len(Tail(unread)), Tail(unread)[i] = "result"
        PROVE  i = Len(Tail(unread))
    <3>1. i + 1 = Len(unread)
      BY <2>1, <2>3 DEF ResultLast
    <3> QED
      BY <2>1, <2>2, <3>1
  <2>4. ResultLast'
    BY <1>5, <2>3 DEF ResultLast
  <2>5. AnotherTurn'
    BY <1>5, <2>1 DEF AnotherTurn
  <2>6. AllRead'
    BY <1>5, <2>1, <2>2 DEF AllRead, ResultLast
  <2> QED
    BY <2>4, <2>5, <2>6
<1>6. ASSUME NEW t \in Text, EmitText(t)
      PROVE  ResultLast' /\ AllRead' /\ AnotherTurn'
  BY <1>5, <1>6 DEF EmitText
<1>7. CASE ReadEnd
  <2>1. CASE unread = <<>>
    <3>1. unread' = unread /\ turns' = turns /\ reader' = "exit"
      BY <1>7, <2>1 DEF ReadEnd
    <3> QED
      BY <2>1, <3>1 DEF ResultLast, AllRead, AnotherTurn
  <2>2. CASE unread # <<>>
    BY <1>5, <1>7, <2>2 DEF ReadEnd
  <2> QED
    BY <2>1, <2>2
<1>8. CASE FlushAtTurnEnd \/ Spawn
  BY <1>8 DEF FlushAtTurnEnd, Spawn, ResultLast, AllRead, AnotherTurn, claude
<1>9. CASE beginTurn
  <2>1. unread = <<>> /\ unread' = unread /\ reader' = "read"
    BY <1>9 DEF beginTurn, AllRead
  <2> QED
    BY <2>1 DEF ResultLast, AllRead, AnotherTurn
<1> QED
  BY <1>1, <1>3, <1>4, <1>6, <1>7, <1>8, <1>9
  DEF Next, ReaderStep, DispatcherStep, SideCall, Dies, LosesCopy, EmitOTel, Message,
      WatchdogFires, WatchdogAbandons, claude

\* After a flush nothing on its way may come no later, until the next turn.
LEMMA PunctualKept ==
  ASSUME TurnInv, Next
  PROVE  Punctual'
<1> USE DEF TurnInv
<1>0. inflight \in [Copy -> Nat]
  BY DEF TypeOK
<1>1. ASSUME reader' = "read"
      PROVE  Punctual'
  BY <1>1 DEF Punctual
<1>2. CASE UNCHANGED <<reader, inflight>>
  BY <1>2 DEF Punctual, OnTime
<1>3. ASSUME NEW c \in Copy, inflight[c] > 0, inflight' = [inflight EXCEPT ![c] = @ - 1],
             reader' = reader
      PROVE  Punctual'
  BY <1>0, <1>3 DEF Punctual, OnTime
<1>4. CASE ReadEnd
  BY <1>4 DEF ReadEnd, Punctual
<1>5. CASE FlushAtTurnEnd \/ Spawn
  BY <1>5 DEF FlushAtTurnEnd, Spawn, Punctual, OnTime
<1> QED
  BY <1>1, <1>2, <1>3, <1>4, <1>5
  DEF Next, ReaderStep, DispatcherStep, Say, SideCall, EndTurn, Speaks, Dies, LosesCopy, EmitOTel,
      EmitText, beginTurn, Message, WatchdogFires, WatchdogAbandons, claude

-----------------------------------------------------------------------------
(* Copies on their way.                                                    *)

\* Copies are told apart by text and age.
LEMMA AgedApart ==
  ASSUME NEW t \in Text, NEW u \in Text, NEW a \in 0..MaxLate, NEW b \in 0..MaxLate
  PROVE  /\ Aged(t, a) \in Copy /\ Aged(t, a).call = "conversation"
         /\ Aged(t, a).text = t /\ Aged(t, a).age = a
         /\ Aged(t, a) = Aged(u, b) => t = u /\ a = b
BY DEF Aged, Copy, Call

\* One copy more,
LEMMA CopyAdded ==
  ASSUME TypeOK, NEW t \in Text, NEW a \in 0..MaxLate,
         inflight' = [inflight EXCEPT ![Aged(t, a)] = @ + 1],
         NEW u \in Text, IsFiniteSet(Outstanding(u))
  PROVE  /\ IsFiniteSet(Outstanding(u)')
         /\ Cardinality(Outstanding(u)') =
              Cardinality(Outstanding(u)) + IF u = t THEN 1 ELSE 0
<1> DEFINE n == inflight[Aged(t, a)]
<1>0. Aged(t, a) \in Copy /\ \A b \in 0..MaxLate : Aged(u, b) \in Copy
  BY AgedApart
<1>1. /\ inflight \in [Copy -> Nat] /\ n \in Nat
      /\ \A b \in 0..MaxLate : inflight[Aged(u, b)] \in Nat
  BY <1>0 DEF TypeOK
<1>2. inflight'[Aged(t, a)] = n + 1
      /\ \A b \in 0..MaxLate : u # t \/ b # a => inflight'[Aged(u, b)] = inflight[Aged(u, b)]
  BY <1>1, AgedApart
<1>3. CASE u # t
  <2>1. Outstanding(u)' = Outstanding(u)
    BY <1>2, <1>3 DEF Outstanding
  <2>2. Cardinality(Outstanding(u)) \in Nat
    BY FS_CardinalityType
  <2> QED
    BY <1>3, <2>1, <2>2
<1>4. CASE u = t
  <2>1. Outstanding(u)' = Outstanding(u) \cup {<<a, n + 1>>}
    <3> HIDE DEF n
    <3>1. ASSUME NEW b \in 0..MaxLate, NEW i \in Nat
          PROVE  i \in 1..inflight'[Aged(u, b)] <=>
                   i \in 1..inflight[Aged(u, b)] \/ (b = a /\ i = n + 1)
      <4>1. CASE b = a
        <5>1. inflight'[Aged(u, b)] = n + 1 /\ inflight[Aged(u, b)] = n
          BY <1>2, <1>4, <4>1 DEF n
        <5> QED
          BY <1>1, <4>1, <5>1
      <4>2. CASE b # a
        BY <1>2, <4>2
      <4> QED
        BY <4>1, <4>2
    <3>2. <<a, n + 1>> \in (0..MaxLate) \X Nat
      BY <1>1
    <3> QED
      BY <3>1, <3>2 DEF Outstanding
  <2>2. <<a, n + 1>> \notin Outstanding(u)
    BY <1>1, <1>4 DEF Outstanding
  <2>3. /\ IsFiniteSet(Outstanding(u) \cup {<<a, n + 1>>})
        /\ Cardinality(Outstanding(u) \cup {<<a, n + 1>>}) = Cardinality(Outstanding(u)) + 1
    BY <2>2, FS_AddElement
  <2> HIDE DEF n
  <2> QED
    BY <1>4, <2>1, <2>3
<1> QED
  BY <1>3, <1>4

\* ... one copy less,
LEMMA CopyRemoved ==
  ASSUME TypeOK, NEW t \in Text, NEW a \in 0..MaxLate, inflight[Aged(t, a)] > 0,
         inflight' = [inflight EXCEPT ![Aged(t, a)] = @ - 1],
         NEW u \in Text, IsFiniteSet(Outstanding(u))
  PROVE  /\ IsFiniteSet(Outstanding(u)')
         /\ Cardinality(Outstanding(u)') =
              Cardinality(Outstanding(u)) - IF u = t THEN 1 ELSE 0
<1> DEFINE n == inflight[Aged(t, a)]
<1>0. Aged(t, a) \in Copy /\ \A b \in 0..MaxLate : Aged(u, b) \in Copy
  BY AgedApart
<1>1. /\ inflight \in [Copy -> Nat] /\ n \in Nat /\ n > 0
      /\ \A b \in 0..MaxLate : inflight[Aged(u, b)] \in Nat
  BY <1>0 DEF TypeOK
<1>2. inflight'[Aged(t, a)] = n - 1
      /\ \A b \in 0..MaxLate : u # t \/ b # a => inflight'[Aged(u, b)] = inflight[Aged(u, b)]
  BY <1>1, AgedApart
<1>3. Cardinality(Outstanding(u)) \in Nat
  BY FS_CardinalityType
<1>4. CASE u # t
  <2>1. Outstanding(u)' = Outstanding(u)
    BY <1>2, <1>4 DEF Outstanding
  <2> QED
    BY <1>3, <1>4, <2>1
<1>5. CASE u = t
  <2>1. Outstanding(u)' = Outstanding(u) \ {<<a, n>>}
    <3> HIDE DEF n
    <3>1. ASSUME NEW b \in 0..MaxLate, NEW i \in Nat
          PROVE  i \in 1..inflight'[Aged(u, b)] <=>
                   i \in 1..inflight[Aged(u, b)] /\ ~(b = a /\ i = n)
      <4>1. CASE b = a
        <5>1. inflight'[Aged(u, b)] = n - 1 /\ inflight[Aged(u, b)] = n
          BY <1>2, <1>5, <4>1 DEF n
        <5> QED
          BY <1>1, <4>1, <5>1
      <4>2. CASE b # a
        BY <1>2, <4>2
      <4> QED
        BY <4>1, <4>2
    <3> QED
      BY <3>1 DEF Outstanding
  <2>2. <<a, n>> \in Outstanding(u)
    BY <1>1, <1>5 DEF Outstanding
  <2>3. /\ IsFiniteSet(Outstanding(u) \ {<<a, n>>})
        /\ Cardinality(Outstanding(u) \ {<<a, n>>}) = Cardinality(Outstanding(u)) - 1
    BY <2>2, FS_RemoveElement
  <2> QED
    BY <1>5, <2>1, <2>3
<1> QED
  BY <1>4, <1>5

\* ... and all of them a turn later.
LEMMA CopiesLater ==
  ASSUME TypeOK, OnTime,
         inflight' = [c \in Copy |-> IF c.age = 0 THEN 0 ELSE inflight[[c EXCEPT !.age = @ - 1]]],
         NEW u \in Text, IsFiniteSet(Outstanding(u))
  PROVE  /\ IsFiniteSet(Outstanding(u)')
         /\ Cardinality(Outstanding(u)') = Cardinality(Outstanding(u))
<1> DEFINE S == Outstanding(u)
           T == Outstanding(u)'
           f == [x \in S |-> <<x[1] + 1, x[2]>>]
<1>0. /\ MaxLate \in Nat /\ MaxLate \in 0..MaxLate
      /\ \A a \in 0..MaxLate : Aged(u, a) \in Copy /\ Aged(u, a).age = a
  BY AgedApart, RecoveryAssumption
<1>1. /\ \A a \in 0..MaxLate : inflight[Aged(u, a)] \in Nat
      /\ inflight[Aged(u, MaxLate)] = 0 /\ MaxLate \in Nat
  BY <1>0 DEF TypeOK, OnTime
<1>2. /\ inflight'[Aged(u, 0)] = 0
      /\ \A a \in 0..MaxLate : a # 0 => inflight'[Aged(u, a)] = inflight[Aged(u, a - 1)]
  BY AgedApart, RecoveryAssumption DEF Aged
<1>3. \A x \in S : /\ x = <<x[1], x[2]>> /\ x[1] \in 0..MaxLate /\ x[2] \in Nat
                   /\ x[2] \in 1..inflight[Aged(u, x[1])] /\ x[1] # MaxLate
  BY <1>1 DEF Outstanding
<1>4. ASSUME NEW x \in S
      PROVE  <<x[1] + 1, x[2]>> \in T
  <2>1. x[1] + 1 \in 0..MaxLate /\ x[1] + 1 # 0 /\ (x[1] + 1) - 1 = x[1]
    BY <1>1, <1>3
  <2>2. inflight'[Aged(u, x[1] + 1)] = inflight[Aged(u, x[1])]
    BY <1>2, <2>1
  <2> QED
    BY <1>3, <2>1, <2>2 DEF Outstanding
<1>5. ASSUME NEW y \in T
      PROVE  \E x \in S : y = <<x[1] + 1, x[2]>>
  <2>1. /\ y = <<y[1], y[2]>> /\ y[1] \in 0..MaxLate /\ y[2] \in Nat
        /\ y[2] \in 1..inflight'[Aged(u, y[1])]
    BY DEF Outstanding
  <2>2. y[1] # 0
    BY <1>2, <2>1
  <2>3. y[1] - 1 \in 0..MaxLate /\ (y[1] - 1) + 1 = y[1]
    BY <1>1, <2>1, <2>2
  <2>4. y[2] \in 1..inflight[Aged(u, y[1] - 1)]
    BY <1>2, <2>1, <2>2
  <2>5. <<y[1] - 1, y[2]>> \in S
    BY <2>1, <2>3, <2>4 DEF Outstanding
  <2> QED
    BY <2>1, <2>3, <2>5
<1> HIDE DEF S, T
<1>6. f \in Bijection(S, T)
  <2>1. f \in [S -> T]
    BY <1>4
  <2>2. \A x, y \in S : f[x] = f[y] => x = y
    BY <1>3
  <2>3. \A y \in T : \E x \in S : f[x] = y
    BY <1>5
  <2> QED
    BY <2>1, <2>2, <2>3, Zenon DEF Bijection, Injection, Surjection, IsInjective
<1>7. ExistsBijection(S, T)
  BY <1>6 DEF ExistsBijection
<1>8. IsFiniteSet(S)
  BY DEF S
<1>9. IsFiniteSet(T) /\ Cardinality(T) = Cardinality(S)
  BY <1>7, <1>8, FS_Bijection
<1> QED
  BY <1>9 DEF S, T

\* A copy is a segment's or a side call's.
LEMMA WhoseCopy ==
  ASSUME NEW c \in Copy
  PROVE  /\ c.text \in Text /\ c.age \in 0..MaxLate /\ c.call \in Call
         /\ c.call # "side" => c = Aged(c.text, c.age) /\ c.call = "conversation"
         /\ c.call = "side" => \A t \in Text, a \in 0..MaxLate : c # Aged(t, a)
BY DEF Copy, Aged, Call

-----------------------------------------------------------------------------
(* Every segment is accounted for.                                         *)

\* One case per way a copy or a segment can move.
LEMMA AccountedKept ==
  ASSUME TurnInv, Accounted, Next
  PROVE  Accounted'
<1>0. /\ TypeOK /\ inflight \in [Copy -> Nat]
      /\ \A t \in Text : /\ said[t] \in Nat /\ deliveredText[t] \in Nat /\ deliveredBefore[t] \in Nat
                         /\ pendingOTel["conversation"][t] \in Nat /\ lost[t] \in Nat
                         /\ recovered[t] \in Nat /\ streamed[t] \in Nat
      /\ said \in [Text -> Nat] /\ deliveredText \in [Text -> Nat] /\ lost \in [Text -> Nat]
      /\ streamed \in [Text -> Nat]
  BY DEF TurnInv, TypeOK, Call
<1>1. \A t \in Text : IsFiniteSet(Outstanding(t)) /\ Cardinality(Outstanding(t)) \in Nat
  BY FS_CardinalityType DEF Accounted
<1>2. CASE UNCHANGED <<inflight, said, buffers, output, lost>>
  <2>1. \A t \in Text : Outstanding(t)' = Outstanding(t)
    BY <1>2 DEF Outstanding
  <2> QED
    BY <1>2, <2>1 DEF Accounted, buffers, output
<1>3. ASSUME NEW t \in Text, Say(t)
      PROVE  Accounted'
  <2>1. /\ inflight' = [inflight EXCEPT ![Aged(t, 0)] = @ + 1] /\ 0 \in 0..MaxLate
        /\ said' = [said EXCEPT ![t] = @ + 1] /\ UNCHANGED <<buffers, output, lost>>
    BY <1>3, RecoveryAssumption DEF Say, Exports, Aged
  <2>2. \A u \in Text : /\ IsFiniteSet(Outstanding(u)')
                        /\ Cardinality(Outstanding(u)') =
                             Cardinality(Outstanding(u)) + IF u = t THEN 1 ELSE 0
    BY <1>0, <1>1, <2>1, CopyAdded
  <2>3. \A u \in Text : said'[u] = said[u] + IF u = t THEN 1 ELSE 0
    BY <1>0, <2>1
  <2> QED
    BY <1>0, <1>1, <2>1, <2>2, <2>3 DEF Accounted, buffers, output
<1>4. ASSUME NEW t \in Text, SideCall(t)
      PROVE  Accounted'
  <2>1. \A u \in Text, a \in 0..MaxLate : inflight'[Aged(u, a)] = inflight[Aged(u, a)]
    <3>1. \A u \in Text, a \in 0..MaxLate :
            Aged(u, a) \in Copy /\ Aged(u, a) # [call |-> "side", text |-> t, age |-> 0]
      BY AgedApart DEF Aged
    <3> QED
      BY <1>0, <1>4, <3>1 DEF SideCall, Exports
  <2>2. \A u \in Text : Outstanding(u)' = Outstanding(u)
    BY <2>1 DEF Outstanding
  <2> QED
    BY <1>4, <2>2 DEF SideCall, Accounted, buffers, output
<1>5. ASSUME NEW c \in Copy, inflight[c] > 0, inflight' = [inflight EXCEPT ![c] = @ - 1],
             UNCHANGED <<said, deliveredText, deliveredBefore, output>>,
             \A u \in Text : pendingOTel'["conversation"][u] + lost'[u] =
                               pendingOTel["conversation"][u] + lost[u]
                                 + IF c.call # "side" /\ u = c.text THEN 1 ELSE 0,
             \A u \in Text : pendingOTel'["conversation"][u] \in Nat /\ lost'[u] \in Nat
      PROVE  Accounted'
  <2>1. CASE c.call = "side"
    <3>1. \A u \in Text, a \in 0..MaxLate : inflight'[Aged(u, a)] = inflight[Aged(u, a)]
      BY <1>0, <1>5, <2>1, WhoseCopy, AgedApart
    <3>2. \A u \in Text : Outstanding(u)' = Outstanding(u)
      BY <3>1 DEF Outstanding
    <3> QED
      BY <1>0, <1>1, <1>5, <2>1, <3>2 DEF Accounted, output
  <2>2. CASE c.call # "side"
    <3>1. c.text \in Text /\ c.age \in 0..MaxLate /\ c = Aged(c.text, c.age)
      BY <2>2, WhoseCopy
    <3>2. \A u \in Text : /\ IsFiniteSet(Outstanding(u)')
                          /\ Cardinality(Outstanding(u)') =
                               Cardinality(Outstanding(u)) - IF u = c.text THEN 1 ELSE 0
      BY <1>0, <1>1, <1>5, <3>1, CopyRemoved
    <3> QED
      BY <1>0, <1>1, <1>5, <2>2, <3>2 DEF Accounted, output
  <2> QED
    BY <2>1, <2>2
<1>6. ASSUME NEW c \in Copy, LosesCopy(c)
      PROVE  Accounted'
  <2>1. /\ inflight[c] > 0 /\ inflight' = [inflight EXCEPT ![c] = @ - 1]
        /\ UNCHANGED <<said, deliveredText, deliveredBefore, output, pendingOTel>>
        /\ lost' = IF c.call = "side" THEN lost ELSE [lost EXCEPT ![c.text] = @ + 1]
    BY <1>6 DEF LosesCopy, buffers
  <2>2. \A u \in Text : lost'[u] = lost[u] + IF c.call # "side" /\ u = c.text THEN 1 ELSE 0
    BY <1>0, <2>1
  <2>3. \A u \in Text : /\ pendingOTel'["conversation"][u] \in Nat /\ lost'[u] \in Nat
                        /\ pendingOTel'["conversation"][u] + lost'[u] =
                             pendingOTel["conversation"][u] + lost[u]
                               + IF c.call # "side" /\ u = c.text THEN 1 ELSE 0
    BY <1>0, <2>1, <2>2
  <2> QED
    BY <1>5, <2>1, <2>3
<1>7. ASSUME NEW c \in Copy, EmitOTel(c)
      PROVE  Accounted'
  <2>1. /\ inflight[c] > 0 /\ inflight' = [inflight EXCEPT ![c] = @ - 1]
        /\ UNCHANGED <<said, deliveredText, deliveredBefore, output, lost>>
        /\ pendingOTel' = [pendingOTel EXCEPT ![c.call][c.text] = @ + 1]
    BY <1>7 DEF EmitOTel
  <2>2. \A u \in Text : pendingOTel'["conversation"][u] = pendingOTel["conversation"][u]
                          + IF c.call # "side" /\ u = c.text THEN 1 ELSE 0
    <3>1. pendingOTel \in [Call -> [Text -> Nat]] /\ "conversation" \in Call /\ c.text \in Text
          /\ (c.call # "side" => c.call = "conversation") /\ c.call \in Call
      BY WhoseCopy, <1>0 DEF TypeOK, Call
    <3>2. pendingOTel'["conversation"] =
            IF c.call = "conversation"
            THEN [pendingOTel["conversation"] EXCEPT ![c.text] = @ + 1]
            ELSE pendingOTel["conversation"]
      BY <2>1, <3>1
    <3>3. pendingOTel["conversation"] \in [Text -> Nat]
      BY <3>1
    <3> QED
      BY <3>1, <3>2, <3>3
  <2>3. \A u \in Text : /\ pendingOTel'["conversation"][u] \in Nat /\ lost'[u] \in Nat
                        /\ pendingOTel'["conversation"][u] + lost'[u] =
                             pendingOTel["conversation"][u] + lost[u]
                               + IF c.call # "side" /\ u = c.text THEN 1 ELSE 0
    BY <1>0, <2>1, <2>2
  <2> QED
    BY <1>5, <2>1, <2>3
<1>8. ASSUME NEW t \in Text, EmitText(t)
      PROVE  Accounted'
  <2>1. /\ UNCHANGED <<inflight, said, deliveredBefore, pendingOTel, recovered, lost>>
        /\ \A u \in Text : /\ deliveredText'[u] = deliveredText[u] + IF u = t THEN 1 ELSE 0
                           /\ streamed'[u] = streamed[u] + IF u = t THEN 1 ELSE 0
    BY <1>0, <1>8 DEF EmitText
  <2>2. \A u \in Text : Outstanding(u)' = Outstanding(u)
    BY <2>1 DEF Outstanding
  <2> QED
    BY <1>0, <1>1, <2>1, <2>2 DEF Accounted
<1>9. ASSUME flushRecoveredAssistant, UNCHANGED <<inflight, said, streamed, lost>>
      PROVE  Accounted'
  <2>1. \A u \in Text : Outstanding(u)' = Outstanding(u)
    BY <1>9 DEF Outstanding
  <2>2. \A u \in Text : /\ pendingOTel'["conversation"][u] = 0
                        /\ deliveredText'[u] \in Nat /\ deliveredBefore'[u] \in Nat
                        /\ recovered'[u] \in Nat
                        /\ deliveredText'[u] + deliveredBefore'[u] + pendingOTel["conversation"][u]
                             + recovered[u] = deliveredText[u] + deliveredBefore[u] + recovered'[u]
    BY <1>0, <1>9, FlushOf DEF Zero, Call
  <2> QED
    BY <1>0, <1>1, <1>9, <2>1, <2>2 DEF Accounted
<1>10. CASE beginTurn
  <2>1. OnTime
    BY <1>10 DEF beginTurn, TurnInv, Punctual
  <2>2. \A u \in Text : /\ IsFiniteSet(Outstanding(u)')
                        /\ Cardinality(Outstanding(u)') = Cardinality(Outstanding(u))
    BY <1>0, <1>1, <1>10, <2>1, CopiesLater DEF beginTurn
  <2>3. \A u \in Text : deliveredText'[u] = 0 /\ deliveredBefore'[u] = deliveredText[u]
    BY <1>10 DEF beginTurn, Zero
  <2> QED
    BY <1>0, <1>1, <1>10, <2>2, <2>3 DEF beginTurn, Accounted, output
<1> QED
  BY <1>2, <1>3, <1>4, <1>6, <1>7, <1>8, <1>9, <1>10
  DEF Next, ReaderStep, DispatcherStep, EndTurn, Dies, ReadEnd, FlushAtTurnEnd, Spawn, Message,
      WatchdogFires, WatchdogAbandons, claude, buffers, output

-----------------------------------------------------------------------------
(* Said once, shown once.                                                  *)

\* The frames of a text as one is written,
LEMMA FramesWritten ==
  ASSUME NEW S, NEW s \in Seq(S), NEW e \in S, NEW t
  PROVE  /\ Frame(t, Append(s, e)) => Frame(t, s) \/ t = e
         /\ OneFrame(t, s) /\ t # e => OneFrame(t, Append(s, e))
         /\ ~Frame(t, s) => OneFrame(t, s) /\ OneFrame(t, Append(s, e))
<1>1. /\ Len(Append(s, e)) = Len(s) + 1 /\ Len(s) \in Nat
      /\ \A i \in 1..Len(s) : Append(s, e)[i] = s[i]
      /\ Append(s, e)[Len(s) + 1] = e
      /\ \A i \in 1..Len(Append(s, e)) : i \in 1..Len(s) \/ i = Len(s) + 1
  BY FrameWritten
<1> QED
  BY <1>1 DEF Frame, OneFrame

\* ... and as one is read.
LEMMA FramesRead ==
  ASSUME NEW S, NEW s \in Seq(S), s # <<>>, NEW t
  PROVE  /\ Frame(t, Tail(s)) => Frame(t, s)
         /\ Head(s) = t => Frame(t, s)
         /\ OneFrame(t, s) => OneFrame(t, Tail(s))
         /\ OneFrame(t, s) /\ Head(s) = t => ~Frame(t, Tail(s))
<1>1. /\ 1 \in 1..Len(s) /\ Head(s) = s[1] /\ Len(s) \in Nat
      /\ \A i \in 1..Len(Tail(s)) : i + 1 \in 1..Len(s) /\ Tail(s)[i] = s[i + 1]
  BY FrameRead
<1>2. Frame(t, Tail(s)) => Frame(t, s)
  BY <1>1 DEF Frame
<1>3. Head(s) = t => Frame(t, s)
  BY <1>1 DEF Frame
<1>4. OneFrame(t, s) => OneFrame(t, Tail(s))
  <2> SUFFICES ASSUME OneFrame(t, s), NEW i \in 1..Len(Tail(s)), NEW k \in 1..Len(Tail(s)),
                      Tail(s)[i] = t, Tail(s)[k] = t
               PROVE  i = k
    BY DEF OneFrame
  <2>1. i + 1 = k + 1
    BY <1>1 DEF OneFrame
  <2> QED
    BY <2>1
<1>5. OneFrame(t, s) /\ Head(s) = t => ~Frame(t, Tail(s))
  <2> SUFFICES ASSUME OneFrame(t, s), s[1] = t, NEW i \in 1..Len(Tail(s)), Tail(s)[i] = t
               PROVE  FALSE
    BY <1>1 DEF Frame
  <2>1. i + 1 = 1
    BY <1>1 DEF OneFrame
  <2> QED
    BY <2>1
<1> QED
  BY <1>2, <1>3, <1>4, <1>5

\* A copy of a text leaves those on their way.
LEMMA OneLess ==
  ASSUME MaxLate <= 1, TypeOK, NEW c \in Copy, inflight[c] > 0,
         inflight' = [inflight EXCEPT ![c] = @ - 1]
  PROVE  \A u \in Text :
           /\ Young(u) \in Nat /\ Old(u) \in Nat /\ Young(u)' \in Nat /\ Old(u)' \in Nat
           /\ c.call = "side" \/ c.text # u => Young(u)' = Young(u) /\ Old(u)' = Old(u)
           /\ c.call # "side" /\ c.text = u =>
                \/ /\ Young(u) > 0
                   /\ Young(u)' = Young(u) - 1 /\ Old(u)' = Old(u)
                \/ /\ Old(u) > 0 /\ MaxLate = 1 /\ c.age = MaxLate
                   /\ Old(u)' = Old(u) - 1 /\ Young(u)' = Young(u)
<1>1. /\ inflight \in [Copy -> Nat] /\ inflight[c] \in Nat
      /\ \A k \in Copy : inflight'[k] = inflight[k] - IF k = c THEN 1 ELSE 0
  BY DEF TypeOK
<1>2. MaxLate \in {0, 1} /\ 0 \in 0..MaxLate /\ MaxLate \in 0..MaxLate /\ c.age \in 0..MaxLate
  BY RecoveryAssumption, WhoseCopy
<1>3. ASSUME NEW u \in Text
      PROVE  /\ Aged(u, 0) \in Copy /\ Aged(u, MaxLate) \in Copy
             /\ inflight[Aged(u, 0)] \in Nat /\ inflight[Aged(u, MaxLate)] \in Nat
             /\ c.call = "side" \/ c.text # u => c # Aged(u, 0) /\ c # Aged(u, MaxLate)
             /\ c.call # "side" /\ c.text = u => c = Aged(u, c.age)
             /\ MaxLate = 1 => Aged(u, 0) # Aged(u, 1)
  BY <1>1, <1>2, AgedApart, WhoseCopy
<1> SUFFICES ASSUME NEW u \in Text
             PROVE  /\ Young(u) \in Nat /\ Old(u) \in Nat /\ Young(u)' \in Nat /\ Old(u)' \in Nat
                    /\ c.call = "side" \/ c.text # u => Young(u)' = Young(u) /\ Old(u)' = Old(u)
                    /\ c.call # "side" /\ c.text = u =>
                         \/ /\ Young(u) > 0
                            /\ Young(u)' = Young(u) - 1 /\ Old(u)' = Old(u)
                         \/ /\ Old(u) > 0 /\ MaxLate = 1 /\ c.age = MaxLate
                            /\ Old(u)' = Old(u) - 1 /\ Young(u)' = Young(u)
  OBVIOUS
<1>4. CASE c.call = "side" \/ c.text # u
  BY <1>1, <1>2, <1>3, <1>4 DEF Young, Old
<1>5. CASE c.call # "side" /\ c.text = u /\ c.age = 0
  BY <1>1, <1>2, <1>3, <1>5 DEF Young, Old
<1>6. CASE c.call # "side" /\ c.text = u /\ c.age # 0
  <2>1. MaxLate = 1 /\ c.age = 1 /\ c = Aged(u, 1)
    BY <1>2, <1>3, <1>6
  <2> QED
    BY <1>1, <1>2, <1>3, <1>6, <2>1 DEF Young, Old
<1> QED
  BY <1>2, <1>4, <1>5, <1>6

\* Without a watchdog, and with copies a turn late at most, every step keeps it.
LEMMA ShownKept ==
  ASSUME MaxLate <= 1, TurnInv, ShownOnce, Next
  PROVE  ShownOnce'
<1> SUFFICES ASSUME ~watchdog
             PROVE  ShownOnce'
  <2>1. watchdog' = watchdog
    BY DEF Next, ReaderStep, DispatcherStep, Say, SideCall, EndTurn, Dies, LosesCopy, EmitOTel,
           EmitText, ReadEnd, FlushAtTurnEnd, beginTurn, Spawn, Message, WatchdogFires,
           WatchdogAbandons
  <2> QED
    BY <2>1 DEF ShownOnce
<1>0. /\ TypeOK /\ inflight \in [Copy -> Nat] /\ unread \in Seq(Text \cup {"result"})
      /\ ~fired /\ MaxLate \in {0, 1} /\ 0 \in 0..MaxLate /\ "result" \notin Text
  BY RecoveryAssumption DEF TurnInv, TypeOK, ShownOnce
<1>a. ASSUME NEW u \in Text
      PROVE  /\ said[u] \in Nat /\ deliveredText[u] \in Nat /\ deliveredBefore[u] \in Nat
             /\ Buffered(u) \in Nat /\ recovered[u] \in Nat /\ streamed[u] \in Nat
             /\ Young(u) \in Nat /\ Old(u) \in Nat
  BY <1>0, AgedApart DEF TypeOK, Call, Buffered, Young, Old
<1>b. \A u \in Text : (said[u] = 0 => Unsaid(u)) /\ (said[u] = 1 => SaidOnce(u))
  BY DEF ShownOnce
<1>1. CASE UNCHANGED <<said, inflight, buffers, output, fired>> /\ unread' = unread
             /\ (reader' \in {"begin", "none"} => reader \in {"begin", "none"})
  BY <1>0, <1>b, <1>1
  DEF ShownOnce, Unsaid, SaidOnce, Young, Old, Buffered, buffers, output
<1>2. ASSUME UNCHANGED <<said, buffers, output, fired, reader>>,
             \A u \in Text : Young(u)' = Young(u) /\ Old(u)' = Old(u),
             NEW e \in {"result"}, unread' \in {unread, Append(unread, e)}
      PROVE  ShownOnce'
  <2>1. \A u \in Text : /\ Frame(u, unread') => Frame(u, unread)
                        /\ OneFrame(u, unread) => OneFrame(u, unread')
    <3>1. CASE unread' = unread
      BY <3>1
    <3>2. CASE unread' = Append(unread, "result")
      BY <1>0, <3>2, FramesWritten
    <3> QED
      BY <1>2, <3>1, <3>2
  <2> QED
    BY <1>0, <1>b, <1>2, <2>1 DEF ShownOnce, Unsaid, SaidOnce, Buffered, buffers, output
<1>3. ASSUME NEW t \in Text, Say(t)
      PROVE  ShownOnce'
  <2>1. /\ UNCHANGED <<buffers, output, fired, reader>>
        /\ inflight' = [inflight EXCEPT ![Aged(t, 0)] = @ + 1]
        /\ said' = [said EXCEPT ![t] = @ + 1]
        /\ unread' \in {unread, Append(unread, t)}
    BY <1>3 DEF Say, Exports, Aged
  <2>2. \A u \in Text : said'[u] = said[u] + IF u = t THEN 1 ELSE 0
    <3>1. said \in [Text -> Nat]
      BY <1>0 DEF TypeOK
    <3> QED
      BY <2>1, <3>1
  <2>3. \A u \in Text : /\ Young(u)' = Young(u) + IF u = t THEN 1 ELSE 0
                        /\ Old(u)' = Old(u)
    BY <1>0, <1>a, <2>1, AgedApart DEF Young, Old
  <2>4. \A u \in Text : /\ u # t /\ Frame(u, unread') => Frame(u, unread)
                        /\ u # t /\ OneFrame(u, unread) => OneFrame(u, unread')
                        /\ ~Frame(u, unread) => OneFrame(u, unread')
    <3>1. CASE unread' = unread
      BY <3>1 DEF Frame, OneFrame
    <3>2. CASE unread' = Append(unread, t)
      BY <1>0, <3>2, FramesWritten
    <3> QED
      BY <2>1, <3>1, <3>2
  <2>5. ASSUME NEW u \in Text, u # t
        PROVE  (said'[u] = 0 => Unsaid(u)') /\ (said'[u] = 1 => SaidOnce(u)')
    BY <1>a, <1>b, <2>1, <2>2, <2>3, <2>4, <2>5 DEF Unsaid, SaidOnce, Buffered, buffers, output
  <2>6. said'[t] = 1 => SaidOnce(t)'
    <3>1. said'[t] = 1 => Unsaid(t)
      BY <1>a, <1>b, <2>2
    <3> QED
      BY <2>1, <2>3, <2>4, <3>1 DEF Unsaid, SaidOnce, Buffered, buffers, output
  <2>7. said'[t] # 0
    BY <1>a, <2>2
  <2> QED
    BY <1>0, <2>1, <2>5, <2>6, <2>7 DEF ShownOnce
<1>4. ASSUME NEW t \in Text, SideCall(t)
      PROVE  ShownOnce'
  <2>1. \A u \in Text, a \in 0..MaxLate : inflight'[Aged(u, a)] = inflight[Aged(u, a)]
    <3>1. \A u \in Text, a \in 0..MaxLate :
            Aged(u, a) \in Copy /\ Aged(u, a) # [call |-> "side", text |-> t, age |-> 0]
      BY AgedApart DEF Aged
    <3> QED
      BY <1>0, <1>4, <3>1 DEF SideCall, Exports
  <2>2. \A u \in Text : Young(u)' = Young(u) /\ Old(u)' = Old(u)
    BY <1>0, <2>1 DEF Young, Old
  <2> QED
    BY <1>2, <1>4, <2>2 DEF SideCall
<1>5. CASE EndTurn
  BY <1>2, <1>5 DEF EndTurn, Young, Old
<1>6. ASSUME NEW c \in Copy, LosesCopy(c)
      PROVE  ShownOnce'
  <2>1. /\ UNCHANGED <<said, buffers, output, fired, reader, unread>>
        /\ inflight[c] > 0 /\ inflight' = [inflight EXCEPT ![c] = @ - 1]
    BY <1>6 DEF LosesCopy
  <2>2. \A u \in Text : /\ Young(u)' \in Nat /\ Old(u)' \in Nat
                        /\ Young(u)' <= Young(u) /\ Old(u)' <= Old(u)
    <3>1. \A u \in Text :
            /\ Young(u) \in Nat /\ Old(u) \in Nat /\ Young(u)' \in Nat /\ Old(u)' \in Nat
            /\ Young(u)' = Young(u) \/ Young(u)' = Young(u) - 1
            /\ Old(u)' = Old(u) \/ Old(u)' = Old(u) - 1
      BY <1>0, <2>1, OneLess
    <3> QED
      BY <3>1
  <2>3. ASSUME NEW u \in Text
        PROVE  (said[u] = 0 => Unsaid(u)') /\ (said[u] = 1 => SaidOnce(u)')
    BY <1>a, <1>b, <2>1, <2>2 DEF Unsaid, SaidOnce, Buffered, buffers, output
  <2> QED
    BY <1>0, <2>1, <2>3 DEF ShownOnce
<1>7. ASSUME NEW c \in Copy, EmitOTel(c)
      PROVE  ShownOnce'
  <2>1. /\ UNCHANGED <<said, deliveredText, deliveredBefore, output, fired, reader, unread>>
        /\ inflight[c] > 0 /\ inflight' = [inflight EXCEPT ![c] = @ - 1]
        /\ pendingOTel' = [pendingOTel EXCEPT ![c.call][c.text] = @ + 1]
    BY <1>7 DEF EmitOTel
  <2>2. \A u \in Text :
          /\ Young(u)' \in Nat /\ Old(u)' \in Nat
          /\ c.call = "side" \/ c.text # u => Young(u)' = Young(u) /\ Old(u)' = Old(u)
          /\ c.call # "side" /\ c.text = u =>
               \/ /\ Young(u) > 0
                  /\ Young(u)' = Young(u) - 1 /\ Old(u)' = Old(u)
               \/ /\ Old(u) > 0 /\ MaxLate = 1 /\ c.age = MaxLate
                  /\ Old(u)' = Old(u) - 1 /\ Young(u)' = Young(u)
    BY <1>0, <2>1, OneLess
  <2>3. \A u \in Text : Buffered(u)' = Buffered(u)
                          + IF c.call # "side" /\ u = c.text THEN 1 ELSE 0
    <3>1. pendingOTel \in [Call -> [Text -> Nat]] /\ "conversation" \in Call /\ c.text \in Text
          /\ (c.call # "side" => c.call = "conversation") /\ c.call \in Call
      BY WhoseCopy, <1>0 DEF TypeOK, Call
    <3>2. pendingOTel'["conversation"] =
            IF c.call = "conversation"
            THEN [pendingOTel["conversation"] EXCEPT ![c.text] = @ + 1]
            ELSE pendingOTel["conversation"]
      BY <2>1, <3>1
    <3>3. pendingOTel["conversation"] \in [Text -> Nat]
      BY <3>1
    <3> QED
      BY <3>1, <3>2, <3>3 DEF Buffered
  <2>4. c.age = MaxLate => reader \notin {"begin", "none"}
    BY <1>0, <2>1 DEF TurnInv, Punctual, OnTime
  <2>5. ASSUME NEW u \in Text, c.call = "side" \/ c.text # u
        PROVE  (said[u] = 0 => Unsaid(u)') /\ (said[u] = 1 => SaidOnce(u)')
    <3>1. Young(u)' = Young(u) /\ Old(u)' = Old(u) /\ Buffered(u)' = Buffered(u)
      BY <1>a, <2>2, <2>3, <2>5
    <3> QED
      BY <1>b, <2>1, <3>1 DEF Unsaid, SaidOnce, output
  <2>6. ASSUME NEW u \in Text, c.call # "side" /\ c.text = u
        PROVE  (said[u] = 0 => Unsaid(u)') /\ (said[u] = 1 => SaidOnce(u)')
    <3>1. Buffered(u)' = Buffered(u) + 1
      BY <1>a, <2>3, <2>6
    <3>2. CASE Young(u) > 0 /\ Young(u)' = Young(u) - 1 /\ Old(u)' = Old(u)
      BY <1>a, <1>b, <2>1, <3>1, <3>2 DEF Unsaid, SaidOnce, output
    <3>3. CASE /\ Old(u) > 0 /\ MaxLate = 1 /\ c.age = MaxLate
               /\ Old(u)' = Old(u) - 1 /\ Young(u)' = Young(u)
      BY <1>a, <1>b, <2>1, <2>4, <3>1, <3>3 DEF Unsaid, SaidOnce, output
    <3> QED
      BY <2>2, <2>6, <3>2, <3>3
  <2> QED
    BY <1>0, <2>1, <2>5, <2>6 DEF ShownOnce
<1>8. ASSUME NEW t \in Text, EmitText(t)
      PROVE  ShownOnce'
  <2>1. /\ unread # <<>> /\ Head(unread) = t /\ unread' = Tail(unread)
        /\ UNCHANGED <<said, inflight, deliveredBefore, pendingOTel, recovered, fired, reader>>
        /\ \A u \in Text : /\ deliveredText'[u] = deliveredText[u] + IF u = t THEN 1 ELSE 0
                           /\ streamed'[u] = streamed[u] + IF u = t THEN 1 ELSE 0
    <3>1. deliveredText \in [Text -> Nat] /\ streamed \in [Text -> Nat]
      BY <1>0 DEF TypeOK
    <3> QED
      BY <1>8, <3>1 DEF EmitText
  <2>2. \A u \in Text : /\ Young(u)' = Young(u) /\ Old(u)' = Old(u) /\ Buffered(u)' = Buffered(u)
    BY <2>1 DEF Young, Old, Buffered
  <2>3. \A u \in Text : /\ Frame(u, unread') => Frame(u, unread)
                        /\ OneFrame(u, unread) => OneFrame(u, unread')
    BY <1>0, <2>1, FramesRead
  <2>4. Frame(t, unread) /\ (OneFrame(t, unread) => ~Frame(t, unread'))
    BY <1>0, <2>1, FramesRead
  <2>5. ASSUME NEW u \in Text, u # t
        PROVE  (said[u] = 0 => Unsaid(u)') /\ (said[u] = 1 => SaidOnce(u)')
    <3>1. deliveredText'[u] = deliveredText[u] /\ streamed'[u] = streamed[u]
      BY <1>a, <2>1, <2>5
    <3> QED
      BY <1>b, <2>1, <2>2, <2>3, <3>1 DEF Unsaid, SaidOnce
  <2>6. (said[t] = 0 => Unsaid(t)') /\ (said[t] = 1 => SaidOnce(t)')
    <3>1. deliveredText'[t] = deliveredText[t] + 1 /\ streamed'[t] = streamed[t] + 1
      BY <2>1
    <3>2. deliveredText'[t] > 0
      BY <1>a, <3>1
    <3>3. said[t] # 0
      BY <1>b, <2>4 DEF Unsaid
    <3>4. said[t] = 1 => streamed'[t] = 1
      BY <1>a, <1>b, <2>4, <3>1 DEF SaidOnce
    <3> QED
      BY <1>a, <1>b, <2>1, <2>2, <2>3, <2>4, <3>2, <3>3, <3>4 DEF SaidOnce
  <2> QED
    BY <1>0, <2>1, <2>5, <2>6 DEF ShownOnce
<1>9. CASE ReadEnd
  <2>1. /\ UNCHANGED <<said, inflight, buffers, output, fired>> /\ reader = "read"
        /\ reader' \in {"turnEnd", "exit"}
        /\ unread' = unread \/ (unread # <<>> /\ unread' = Tail(unread))
    BY <1>9 DEF ReadEnd
  <2>2. \A u \in Text : /\ Frame(u, unread') => Frame(u, unread)
                        /\ OneFrame(u, unread) => OneFrame(u, unread')
    <3>1. CASE unread' = unread
      BY <3>1
    <3>2. CASE unread # <<>> /\ unread' = Tail(unread)
      BY <1>0, <3>2, FramesRead
    <3> QED
      BY <2>1, <3>1, <3>2
  <2> QED
    BY <1>0, <1>b, <2>1, <2>2
    DEF ShownOnce, Unsaid, SaidOnce, Young, Old, Buffered, buffers, output
<1>10. CASE FlushAtTurnEnd
  <2>1. /\ reader \in {"turnEnd", "exit"} /\ OnTime /\ flushRecoveredAssistant
        /\ UNCHANGED <<said, inflight, streamed, fired, unread>>
    BY <1>10 DEF FlushAtTurnEnd
  <2>2. unread = <<>> /\ \A u \in Text : ~Frame(u, unread)
    BY <2>1 DEF TurnInv, AllRead, Frame
  <2>3. \A u \in Text :
          /\ Young(u)' = Young(u) /\ Old(u)' = Old(u) /\ Buffered(u)' = 0
          /\ recovered'[u] \in Nat /\ deliveredText'[u] \in Nat /\ deliveredBefore'[u] \in Nat
          /\ Buffered(u) <= 1 /\ (deliveredText[u] > 0 \/ deliveredBefore[u] > 0)
               => recovered'[u] = recovered[u]
          /\ Buffered(u) = 0 => /\ deliveredText'[u] = deliveredText[u]
                                /\ deliveredBefore'[u] = deliveredBefore[u]
                                /\ recovered'[u] = recovered[u]
          /\ recovered'[u] <= recovered[u] + Buffered(u)
    BY <1>0, <2>1, FlushOf DEF Young, Old, Buffered, Zero, Call
  <2>4. \A u \in Text : Old(u) = 0
    BY <1>0, <2>1, AgedApart DEF Old, OnTime
  <2>5. ASSUME NEW u \in Text
        PROVE  (said[u] = 0 => Unsaid(u)') /\ (said[u] = 1 => SaidOnce(u)')
    <3>1. said[u] = 0 => Unsaid(u)'
      BY <1>b, <2>1, <2>2, <2>3 DEF Unsaid
    <3>2. ASSUME said[u] = 1
          PROVE  SaidOnce(u)'
      <4>1. Young(u)' + Old(u)' + Buffered(u)' + recovered'[u] <= 1
        BY <1>a, <1>b, <2>3, <3>2 DEF SaidOnce
      <4>2. streamed[u] = 1 => recovered'[u] = 0
        BY <1>a, <1>b, <2>3, <3>2 DEF SaidOnce
      <4>3. streamed[u] = 1 => (Young(u)' = 1 => deliveredText'[u] > 0)
        BY <1>a, <1>b, <2>3, <3>2 DEF SaidOnce
      <4> QED
        BY <1>b, <2>1, <2>2, <2>3, <2>4, <3>2, <4>1, <4>2, <4>3 DEF SaidOnce
    <3> QED
      BY <3>1, <3>2
  <2> QED
    BY <1>0, <2>1, <2>5 DEF ShownOnce
<1>11. CASE beginTurn
  <2>1. /\ reader = "begin" /\ reader' = "read" /\ OnTime /\ unread = <<>>
        /\ UNCHANGED <<said, pendingOTel, output, fired, unread>>
        /\ inflight' = [c \in Copy |-> IF c.age = 0 THEN 0 ELSE inflight[[c EXCEPT !.age = @ - 1]]]
        /\ deliveredBefore' = deliveredText
    BY <1>11 DEF beginTurn, TurnInv, Punctual, AllRead
  <2>2. \A u \in Text : /\ Young(u)' = 0 /\ Buffered(u)' = Buffered(u)
                        /\ Old(u)' \in {0, Young(u)} /\ ~Frame(u, unread)
    <3>1. \A u \in Text : Young(u)' = 0
      BY <1>0, <2>1, AgedApart DEF Young
    <3>2. ASSUME NEW u \in Text, MaxLate = 1
          PROVE  Old(u)' = Young(u)
      <4>1. Aged(u, 1) \in Copy /\ Aged(u, 1).age = 1 /\ [Aged(u, 1) EXCEPT !.age = @ - 1] = Aged(u, 0)
        BY <3>2, AgedApart DEF Aged
      <4> QED
        BY <2>1, <3>2, <4>1 DEF Old, Young
    <3>3. MaxLate = 0 => \A u \in Text : Old(u)' = 0
      BY DEF Old
    <3> QED
      BY <1>0, <2>1, <3>1, <3>2, <3>3 DEF Buffered, Frame
  <2>3. ASSUME NEW u \in Text
        PROVE  (said[u] = 0 => Unsaid(u)') /\ (said[u] = 1 => SaidOnce(u)')
    BY <1>a, <1>b, <2>1, <2>2 DEF Unsaid, SaidOnce, output
  <2> QED
    BY <1>0, <2>1, <2>3 DEF ShownOnce
<1>12. CASE Spawn \/ Message \/ Dies
  BY <1>1, <1>12 DEF Spawn, Message, Dies, claude
<1>13. ~WatchdogFires /\ ~WatchdogAbandons
  BY <1>0 DEF WatchdogFires, WatchdogAbandons
<1> QED
  BY <1>3, <1>4, <1>5, <1>6, <1>7, <1>8, <1>9, <1>10, <1>11, <1>12, <1>13
  DEF Next, ReaderStep, DispatcherStep

-----------------------------------------------------------------------------
(* The invariants hold.                                                    *)

\* Nothing is said at first.
LEMMA InitRecovery == ASSUME Init PROVE TurnInv /\ Accounted /\ ShownOnce
<1>0. /\ Zero \in [Text -> Nat] /\ \A t \in Text : Zero[t] = 0
      /\ \A t \in Text, a \in 0..MaxLate : Aged(t, a) \in Copy
      /\ <<>> \in Seq(Text \cup {"result"}) /\ 0 \in 0..MaxLate
  BY AgedApart, RecoveryAssumption DEF Zero
<1>1. TypeOK
  <2>1. inflight \in [Copy -> Nat] /\ pendingOTel \in [Call -> [Text -> Nat]]
    BY <1>0 DEF Init
  <2>2. turns \in 0..MaxTurns /\ spoken \in 0..MaxSpoken
    BY RecoveryAssumption DEF Init
  <2> QED
    BY <1>0, <2>1, <2>2 DEF Init, TypeOK
<1>a. \A t \in Text : /\ \A a \in 0..MaxLate : inflight[Aged(t, a)] = 0
                      /\ pendingOTel["conversation"][t] = 0 /\ deliveredText[t] = 0
                      /\ deliveredBefore[t] = 0 /\ said[t] = 0 /\ streamed[t] = 0
                      /\ recovered[t] = 0 /\ lost[t] = 0
  BY <1>0 DEF Init, Call
<1>2. ResultLast /\ AllRead /\ AnotherTurn /\ Punctual
  BY DEF Init, ResultLast, AllRead, AnotherTurn, Punctual, OnTime
<1>3. Accounted
  <2>1. \A t \in Text : Outstanding(t) = {}
    <3> SUFFICES ASSUME NEW t \in Text, NEW x \in Outstanding(t) PROVE FALSE
      OBVIOUS
    <3>1. x[1] \in 0..MaxLate /\ x[2] \in 1..inflight[Aged(t, x[1])]
      BY DEF Outstanding
    <3> QED
      BY <1>a, <3>1
  <2> SUFFICES ASSUME NEW t \in Text
               PROVE  /\ IsFiniteSet(Outstanding(t))
                      /\ said[t] + deliveredText[t] + deliveredBefore[t] <=
                           Cardinality(Outstanding(t)) + pendingOTel["conversation"][t] + lost[t]
                             + recovered[t] + streamed[t]
    BY DEF Accounted
  <2>2. IsFiniteSet(Outstanding(t)) /\ Cardinality(Outstanding(t)) = 0
    BY <2>1, FS_EmptySet
  <2> QED
    BY <1>a, <2>2
<1>4. ShownOnce
  <2>1. \A t \in Text : /\ said[t] = 0 /\ Buffered(t) = 0 /\ recovered[t] = 0 /\ streamed[t] = 0
    BY <1>0 DEF Init, Buffered, Call
  <2>2. \A t \in Text : Young(t) = 0 /\ ~Frame(t, unread)
    <3>1. unread = <<>>
      BY DEF Init
    <3>2. \A t \in Text : ~Frame(t, unread)
      BY <3>1 DEF Frame
    <3>3. \A t \in Text : Young(t) = 0
      BY <1>0, <1>a DEF Young
    <3> QED
      BY <3>2, <3>3
  <2>3. \A t \in Text : Old(t) = 0
    <3>1. MaxLate # 0 => 1 \in 0..MaxLate
      BY RecoveryAssumption
    <3> QED
      BY <1>0, <3>1 DEF Init, Old
  <2> QED
    BY <2>1, <2>2, <2>3 DEF Init, ShownOnce, Unsaid
<1> QED
  BY <1>1, <1>2, <1>3, <1>4 DEF TurnInv

\* A step that leaves everything as it is.
LEMMA Stutters ==
  ASSUME UNCHANGED vars
  PROVE  /\ TurnInv => TurnInv'
         /\ Accounted => Accounted'
         /\ ShownOnce => ShownOnce'
<1> USE DEF vars, claude, buffers, output
<1>1. TypeOK => TypeOK'
  BY DEF TypeOK
<1>2. ResultLast /\ AllRead /\ AnotherTurn /\ Punctual =>
        (ResultLast /\ AllRead /\ AnotherTurn /\ Punctual)'
  BY DEF ResultLast, AllRead, AnotherTurn, Punctual, OnTime
<1>3. Accounted => Accounted'
  BY DEF Accounted, Outstanding
<1>4. ShownOnce => ShownOnce'
  BY DEF ShownOnce, Unsaid, SaidOnce, Young, Old, Buffered
<1> QED
  BY <1>1, <1>2, <1>3, <1>4 DEF TurnInv

\* From the start on.
LEMMA TurnsAlways == Spec => []TurnInv
<1>1. Init => TurnInv
  BY InitRecovery
<1>2. TurnInv /\ [Next]_vars => TurnInv'
  BY TypesKept, TurnsKept, PunctualKept, Stutters DEF TurnInv
<1> QED
  BY <1>1, <1>2, PTL DEF Spec

-----------------------------------------------------------------------------
(* What they give.                                                         *)

\* Frames, copies, counts and turns stay of their types; no turn starts past the
\* bound (emit, beginTurn).
THEOREM RecoveryTypes == Spec => []TypeOK
<1>1. TurnInv => TypeOK
  BY DEF TurnInv
<1> QED
  BY <1>1, TurnsAlways, PTL

\* Whatever stdout dropped, and however late and mixed the copies came, each
\* segment of a conversation whose copies are all in has been shown, but for the
\* copies lost with their process (flushRecoveredAssistant, beginTurn).
THEOREM NoSegmentIsLost == Spec => []NothingLost
<1>1. Init => Accounted
  BY InitRecovery
<1>2. TurnInv /\ Accounted /\ [Next]_vars => Accounted'
  BY AccountedKept, Stutters
<1>3. Spec => []Accounted
  BY <1>1, <1>2, TurnsAlways, PTL DEF Spec
<1>4. ASSUME TurnInv, Accounted, Settled, NEW t \in Text
      PROVE  streamed[t] + recovered[t] + lost[t] >= said[t]
  <2>1. /\ said[t] \in Nat /\ deliveredText[t] \in Nat /\ deliveredBefore[t] \in Nat
        /\ streamed[t] \in Nat /\ recovered[t] \in Nat /\ lost[t] \in Nat
    BY <1>4 DEF TurnInv, TypeOK
  <2>2. Outstanding(t) = {}
    <3>1. \A a \in 0..MaxLate : inflight[Aged(t, a)] = 0
      BY <1>4, AgedApart DEF Settled
    <3> QED
      BY <3>1 DEF Outstanding
  <2>3. Cardinality(Outstanding(t)) = 0 /\ pendingOTel["conversation"][t] = 0
    BY <1>4, <2>2, FS_EmptySet DEF Settled, Zero
  <2> QED
    BY <1>4, <2>1, <2>3 DEF Accounted
<1>5. TurnInv /\ Accounted => NothingLost
  BY <1>4 DEF NothingLost
<1> QED
  BY <1>3, <1>5, TurnsAlways, PTL

\* Without a watchdog, what the model says once is shown once, if no copy comes
\* later than the turn after its own: the harness keeps the deliveries of one
\* turn (deliveredBefore), and with a later copy the text is shown again.
THEOREM SaidOnceIsShownOnce ==
  ASSUME MaxLate <= 1
  PROVE  Spec => []SaidOnceShownOnce
<1>1. Init => ShownOnce
  BY InitRecovery
<1>2. TurnInv /\ ShownOnce /\ [Next]_vars => ShownOnce'
  BY ShownKept, Stutters
<1>3. Spec => []ShownOnce
  BY <1>1, <1>2, TurnsAlways, PTL DEF Spec
<1>4. ASSUME TurnInv, ShownOnce, ~watchdog, NEW t \in Text, said[t] = 1
      PROVE  streamed[t] + recovered[t] <= 1
  <2>1. SaidOnce(t)
    BY <1>4 DEF ShownOnce
  <2>2. /\ streamed[t] \in Nat /\ recovered[t] \in Nat /\ Young(t) \in Nat /\ Old(t) \in Nat
        /\ Buffered(t) \in Nat
    <3>1. 0 \in 0..MaxLate /\ (MaxLate # 0 => 1 \in 0..MaxLate)
      BY RecoveryAssumption
    <3> QED
      BY <1>4, <3>1, AgedApart DEF TurnInv, TypeOK, Young, Old, Buffered, Call
  <2> QED
    BY <2>1, <2>2 DEF SaidOnce
<1>5. TurnInv /\ ShownOnce => SaidOnceShownOnce
  BY <1>4 DEF SaidOnceShownOnce
<1> QED
  BY <1>3, <1>5, TurnsAlways, PTL
=============================================================================
