-------------------------- MODULE PtySidecarProofs --------------------------
(***************************************************************************)
(* For transcripts of any length, written in any pieces and with any posts *)
(* lost: the tailer posts the events of the lines it read, in their order  *)
(* and each once, and a session whose posts all arrived is idle exactly    *)
(* when the transcript's last entry ends a turn.                           *)
(***************************************************************************)
EXTENDS PtySidecar, SequenceTheorems, WellFoundedInduction, TLAPS

\* There is room for the line a transcript has the first part of.
Room == \A c \in Conv : Len(lines[c]) + (IF half[c] = "none" THEN 0 ELSE 1) <= MaxLines

NoTail == [pc |-> "off", target |-> "none", at |-> 0, got |-> FALSE,
           pending |-> <<>>, posts |-> <<>>]

\* The tailer reads, and posts from, the file it located.
Located ==
  /\ sidecar = "boot" => tail = NoTail
  /\ tail.pc \in {"tail", "post"} => tail.target # "none"
  /\ tail.pc = "locate" => tail.target = "none"
  /\ tail.target = "none" => tail.at = 0 /\ ~tail.got /\ tail.posts = <<>> /\ sent = <<>>
  /\ tail.target # "none" => tail.at <= Len(lines[tail.target])

\* It keeps the part of a line it was given, and reads on when all is posted.
Whole ==
  /\ tail.pending = IF tail.got THEN <<"head">> ELSE <<>>
  /\ tail.pc = "tail" => tail.posts = <<>>

\* What is left to post ends with what the last line read ends with.
LastPost ==
  tail.posts # <<>> =>
    /\ tail.at > 0
    /\ tail.posts[Len(tail.posts)].event = "result" <=> lines[tail.target][tail.at] \in Ends

\* With all posted and none lost, the session is where the last line read left it.
Derived ==
  tail.posts = <<>> /\ lost = 0 =>
    (session = "idle" <=> tail.at = 0 \/ lines[tail.target][tail.at] \in Ends)

TailInv == TypeOK /\ Room /\ Located /\ Whole /\ LastPost /\ Derived

-----------------------------------------------------------------------------
(* Sequences and lines.                                                    *)

\* What is read or posted goes off the front.
LEMMA Rest ==
  ASSUME NEW T, NEW s \in Seq(T), s # <<>>
  PROVE  /\ Len(s) \in Nat /\ Len(s) >= 1 /\ Head(s) \in T /\ Head(s) = s[1]
         /\ SubSeq(s, 2, Len(s)) \in Seq(T) /\ Len(SubSeq(s, 2, Len(s))) = Len(s) - 1
         /\ \A i \in 1..(Len(s) - 1) : SubSeq(s, 2, Len(s))[i] = s[i + 1]
         /\ SubSeq(s, 2, Len(s)) = <<>> <=> Len(s) = 1
<1>1. Len(s) \in Nat /\ Len(s) >= 1 /\ Head(s) \in T /\ Head(s) = s[1]
  OBVIOUS
<1>2. /\ Tail(s) \in Seq(T) /\ Len(Tail(s)) = Len(s) - 1 /\ Tail(s) = SubSeq(s, 2, Len(s))
      /\ \A i \in 1..Len(Tail(s)) : Tail(s)[i] = s[i + 1]
  BY HeadTailProperties, TailIsSubSeq
<1>3. Tail(s) = <<>> <=> Len(s) = 1
  <2>1. Len(Tail(s)) = 0 <=> Tail(s) = <<>>
    BY <1>2, EmptySeq
  <2> QED
    BY <1>1, <1>2, <2>1
<1> QED
  BY <1>1, <1>2, <1>3

\* A line goes to the end.
LEMMA OneMore ==
  ASSUME NEW T, NEW s \in Seq(T), NEW e \in T
  PROVE  /\ Append(s, e) \in Seq(T) /\ Len(Append(s, e)) = Len(s) + 1 /\ Len(s) \in Nat
         /\ \A i \in 1..Len(s) : Append(s, e)[i] = s[i]
         /\ Append(s, e)[Len(s) + 1] = e
OBVIOUS

\* The two parts of a line.
LEMMA Pair == \A a, b : Append(<<a>>, b) = <<a, b>>
<1> SUFFICES ASSUME NEW a, NEW b PROVE Append(<<a>>, b) = <<a, b>>
  OBVIOUS
<1> DEFINE one  == <<a>>
           all  == Append(one, b)
           both == <<a, b>>
<1>1. one \in Seq({a, b}) /\ Len(one) = 1 /\ one[1] = a
  OBVIOUS
<1>2. both \in Seq({a, b}) /\ Len(both) = 2 /\ both[1] = a /\ both[2] = b
  OBVIOUS
<1> HIDE DEF one, both
<1>3. /\ all \in Seq({a, b}) /\ Len(all) = Len(one) + 1
      /\ \A i \in 1..Len(one) : all[i] = one[i]
      /\ all[Len(one) + 1] = b
  <2>1. one \in Seq({a, b}) /\ b \in {a, b}
    BY <1>1
  <2> QED
    BY <2>1
<1> HIDE DEF all
<1>4. Len(all) = 2 /\ all[1] = a /\ all[2] = b
  BY <1>1, <1>3
<1>5. \A i \in 1..2 : i = 1 \/ i = 2
  OBVIOUS
<1>6. all = both
  BY <1>2, <1>3, <1>4, <1>5, SeqEqual
<1> QED
  BY <1>6 DEF all, one, both

\* An entry has an event, and the last is a result exactly if it ends a turn.
LEMMA EntryEvents ==
  ASSUME NEW entry \in Entry
  PROVE  LET events == translateRolloutEntry(entry)
         IN /\ events \in Seq(Events) /\ Len(events) \in {1, 2}
            /\ events[Len(events)] = "result" <=> entry \in Ends
<1>1. entry \in {"user", "tool_use", "end_turn", "max_tokens"}
  BY SidecarAssumption
<1>2. CASE entry = "user"
  <2>1. translateRolloutEntry(entry) = <<"user_message">>
    BY <1>2 DEF translateRolloutEntry
  <2> QED
    BY <1>2, <2>1 DEF Events, Ends
<1>3. CASE entry = "tool_use"
  <2>1. translateRolloutEntry(entry) = <<"tool_call">> \o <<>>
    BY <1>3 DEF translateRolloutEntry, isTerminalStopReason
  <2>2. <<"tool_call">> \o <<>> = <<"tool_call">>
    OBVIOUS
  <2> QED
    BY <1>3, <2>1, <2>2 DEF Events, Ends
<1>4. CASE entry \in {"end_turn", "max_tokens"}
  <2> DEFINE head == <<"block">>
             last == <<"result">>
  <2>1. translateRolloutEntry(entry) = head \o last
    BY <1>4 DEF translateRolloutEntry, isTerminalStopReason
  <2>2. /\ head \in Seq(Events) /\ last \in Seq(Events) /\ Len(head) = 1 /\ Len(last) = 1
        /\ last[1] = "result"
    BY DEF Events
  <2> HIDE DEF head, last
  <2>3. /\ head \o last \in Seq(Events) /\ Len(head \o last) = 2
        /\ (head \o last)[2] = last[1]
    BY <2>2, ConcatProperties
  <2> QED
    BY <1>4, <2>1, <2>2, <2>3 DEF Ends
<1> QED
  BY <1>1, <1>2, <1>3, <1>4

\* A function on 1..c is a sequence.
LEMMA Numbering ==
  ASSUME NEW T, NEW c \in Nat, NEW f \in [1..c -> T]
  PROVE  f \in Seq(T) /\ Len(f) = c
OBVIOUS

\* Events are posted with the line they are of.
LEMMA Stamped ==
  ASSUME NEW events \in Seq(Events), Len(events) \in {1, 2}, NEW n \in 1..MaxLines
  PROVE  LET posts == [i \in DOMAIN events |-> [line |-> n, event |-> events[i]]]
         IN /\ posts \in Seq([line : 1..MaxLines, event : Events])
            /\ Len(posts) = Len(events) /\ posts # <<>>
            /\ \A j \in 1..Len(events) : posts[j] = [line |-> n, event |-> events[j]]
            /\ posts[Len(posts)].event = events[Len(events)]
<1> MaxLines \in Nat
  BY SidecarAssumption
<1> DEFINE posts == [i \in DOMAIN events |-> [line |-> n, event |-> events[i]]]
           c     == Len(events)
<1>1. DOMAIN events = 1..c /\ \A i \in 1..c : events[i] \in Events
  OBVIOUS
<1>2. posts \in [1..c -> [line : 1..MaxLines, event : Events]]
  BY <1>1
<1>3. \A j \in 1..c : posts[j] = [line |-> n, event |-> events[j]]
  BY <1>1
<1>4. c \in Nat /\ c >= 1
  OBVIOUS
<1> HIDE DEF posts, c
<1>5. posts \in Seq([line : 1..MaxLines, event : Events]) /\ Len(posts) = c
  BY <1>2, <1>4, Numbering
<1>6. c \in 1..c
  BY <1>4
<1>7. posts[c].event = events[c]
  <2>1. posts[c] = [line |-> n, event |-> events[c]]
    BY <1>3, <1>6
  <2> QED
    BY <2>1
<1>8. posts # <<>>
  BY <1>4, <1>5, EmptySeq
<1> QED
  BY <1>3, <1>5, <1>7, <1>8 DEF c, posts

\* A whole line is posted event by event.
LEMMA LinePosts ==
  ASSUME TypeOK, NEW n \in 1..MaxLines, tail.target \in Conv, n <= Len(lines[tail.target]),
         NEW chunks, chunks \in {<<"line">>, <<"head", "rest">>}
  PROVE  LET events == translateRolloutEntry(lines[tail.target][n])
             posts  == processRolloutLine(chunks, n)
         IN /\ posts \in Seq([line : 1..MaxLines, event : Events])
            /\ Len(posts) = Len(events) /\ Len(events) \in {1, 2} /\ posts # <<>>
            /\ \A j \in 1..Len(events) : posts[j] = [line |-> n, event |-> events[j]]
            /\ posts[Len(posts)].event = "result" <=> lines[tail.target][n] \in Ends
<1> MaxLines \in Nat
  BY SidecarAssumption
<1> DEFINE entry  == lines[tail.target][n]
           events == translateRolloutEntry(entry)
<1>1. entry \in Entry
  <2>1. lines[tail.target] \in Seq(Entry)
    BY DEF TypeOK
  <2>2. n \in 1..Len(lines[tail.target])
    <3>1. Len(lines[tail.target]) \in Nat
      BY <2>1, LenProperties
    <3> QED
      BY <3>1
  <2> QED
    BY <2>1, <2>2, ElementOfSeq
<1>2. /\ events \in Seq(Events) /\ Len(events) \in {1, 2}
      /\ events[Len(events)] = "result" <=> entry \in Ends
  BY <1>1, EntryEvents
<1>3. processRolloutLine(chunks, n) = [i \in DOMAIN events |-> [line |-> n, event |-> events[i]]]
  BY DEF processRolloutLine
<1> HIDE DEF events
<1>4. LET posts == [i \in DOMAIN events |-> [line |-> n, event |-> events[i]]]
      IN /\ posts \in Seq([line : 1..MaxLines, event : Events])
         /\ Len(posts) = Len(events) /\ posts # <<>>
         /\ \A j \in 1..Len(events) : posts[j] = [line |-> n, event |-> events[j]]
         /\ posts[Len(posts)].event = events[Len(events)]
  BY <1>2, Stamped
<1> QED
  BY <1>2, <1>3, <1>4 DEF events
-----------------------------------------------------------------------------
(* Types.                                                                  *)

Posting == [line : 1..MaxLines, event : Events]

\* What the facts of a state are.
LEMMA Typed ==
  ASSUME TypeOK
  PROVE  /\ tail \in Tailer /\ MaxLines \in Nat /\ MaxLines > 0 /\ MaxLost \in Nat
         /\ "none" \notin Entry /\ Conv = {"own", "other"} /\ "none" \notin Conv
         /\ \A c \in Conv : lines[c] \in Seq(Entry) /\ Len(lines[c]) \in Nat
         /\ tail.at \in Nat /\ tail.at <= MaxLines /\ tail.target \in Conv \cup {"none"}
         /\ tail.posts \in Seq(Posting) /\ sent \in Seq(Posting)
<1>1. tail \in Tailer
  BY DEF TypeOK
<1>2. MaxLines \in Nat /\ MaxLines > 0 /\ MaxLost \in Nat
  BY SidecarAssumption
<1>3. "none" \notin Entry
  BY SidecarAssumption
<1>4. ASSUME NEW c \in Conv
      PROVE  lines[c] \in Seq(Entry) /\ Len(lines[c]) \in Nat
  <2>1. lines[c] \in Seq(Entry)
    BY DEF TypeOK
  <2> QED
    BY <2>1, LenProperties
<1>5. sent \in Seq(Posting)
  BY DEF TypeOK, Posting
<1>6. Conv = {"own", "other"} /\ "none" \notin Conv
  BY DEF Conv
<1>7. /\ tail.at \in 0..MaxLines /\ tail.target \in Conv \cup {"none"}
      /\ tail.posts \in Seq(Posting)
  BY <1>1 DEF Tailer, Posting
<1>8. tail.at \in Nat /\ tail.at <= MaxLines
  BY <1>2, <1>7
<1> QED
  BY <1>1, <1>2, <1>3, <1>4, <1>5, <1>6, <1>7, <1>8

-----------------------------------------------------------------------------
(* Each step.                                                              *)

\* A transcript that grows keeps the lines it had.
LEMMA WriteStep ==
  ASSUME TailInv, NEW c \in Conv, Write(c)
  PROVE  /\ TailInv'
         /\ \A d \in Conv : \A i \in 1..Len(lines[d]) : lines'[d][i] = lines[d][i]
<1> USE DEF TailInv
<1>1. tail' = tail /\ sidecar' = sidecar /\ sent' = sent /\ lost' = lost /\ session' = session
  BY DEF Write
<1>2. \/ \E e \in Entry : /\ Len(lines[c]) < MaxLines /\ half[c] = "none"
                          /\ lines' = [lines EXCEPT ![c] = Append(@, e)] /\ half' = half
      \/ \E e \in Entry : /\ Len(lines[c]) < MaxLines /\ half[c] = "none"
                          /\ half' = [half EXCEPT ![c] = e] /\ lines' = lines
      \/ /\ half[c] # "none" /\ half[c] \in Entry
         /\ lines' = [lines EXCEPT ![c] = Append(@, half[c])]
         /\ half' = [half EXCEPT ![c] = "none"]
  BY DEF Write, TypeOK
<1>3. /\ lines' \in [Conv -> Seq(Entry)] /\ half' \in [Conv -> Entry \cup {"none"}]
      /\ \A d \in Conv :
           /\ Len(lines[d]) <= Len(lines'[d])
           /\ \A i \in 1..Len(lines[d]) : lines'[d][i] = lines[d][i]
      /\ Room'
  <2>1. \A d \in Conv : lines[d] \in Seq(Entry) /\ Len(lines[d]) \in Nat
    BY Typed
  <2>2. MaxLines \in Nat /\ "none" \notin Entry
    BY Typed
  <2>3. lines \in [Conv -> Seq(Entry)] /\ half \in [Conv -> Entry \cup {"none"}]
    BY DEF TypeOK
  <2>4. ASSUME NEW e \in Entry, lines' = [lines EXCEPT ![c] = Append(@, e)]
        PROVE  /\ lines' \in [Conv -> Seq(Entry)] /\ Len(lines'[c]) = Len(lines[c]) + 1
               /\ \A d \in Conv : d # c => lines'[d] = lines[d]
               /\ \A d \in Conv :
                    /\ Len(lines[d]) <= Len(lines'[d])
                    /\ \A i \in 1..Len(lines[d]) : lines'[d][i] = lines[d][i]
    <3>1. lines'[c] = Append(lines[c], e) /\ \A d \in Conv : d # c => lines'[d] = lines[d]
      BY <2>3, <2>4
    <3>2. /\ Append(lines[c], e) \in Seq(Entry)
          /\ Len(Append(lines[c], e)) = Len(lines[c]) + 1
          /\ \A i \in 1..Len(lines[c]) : Append(lines[c], e)[i] = lines[c][i]
      BY <2>1, OneMore
    <3>3. lines' \in [Conv -> Seq(Entry)]
      BY <2>3, <2>4, <3>2
    <3>4. ASSUME NEW d \in Conv
          PROVE  /\ Len(lines[d]) <= Len(lines'[d])
                 /\ \A i \in 1..Len(lines[d]) : lines'[d][i] = lines[d][i]
      <4>1. CASE d = c
        BY <2>1, <3>1, <3>2, <4>1
      <4>2. CASE d # c
        BY <2>1, <3>1, <4>2
      <4> QED
        BY <4>1, <4>2
    <3> QED
      BY <3>1, <3>2, <3>3, <3>4
  <2>5. ASSUME NEW e \in Entry, Len(lines[c]) < MaxLines, half[c] = "none",
               lines' = [lines EXCEPT ![c] = Append(@, e)], half' = half
        PROVE  Room'
    <3>1. Len(lines'[c]) = Len(lines[c]) + 1 /\ \A d \in Conv : d # c => lines'[d] = lines[d]
      BY <2>4, <2>5
    <3>2. Len(lines'[c]) + (IF half'[c] = "none" THEN 0 ELSE 1) <= MaxLines
      BY <2>1, <2>2, <2>5, <3>1
    <3> QED
      BY <2>5, <3>1, <3>2 DEF Room
  <2>6. ASSUME NEW e \in Entry, Len(lines[c]) < MaxLines, half[c] = "none",
               half' = [half EXCEPT ![c] = e], lines' = lines
        PROVE  Room' /\ half' \in [Conv -> Entry \cup {"none"}]
    <3>1. half'[c] = e /\ \A d \in Conv : d # c => half'[d] = half[d]
      BY <2>3, <2>6
    <3>2. Len(lines'[c]) + (IF half'[c] = "none" THEN 0 ELSE 1) <= MaxLines
      <4>1. half'[c] # "none" /\ lines'[c] = lines[c] /\ Len(lines[c]) \in Nat
        BY <2>1, <2>2, <2>6, <3>1
      <4>2. Len(lines[c]) + 1 <= MaxLines
        BY <2>2, <2>6, <4>1
      <4> QED
        BY <4>1, <4>2
    <3>3. Room'
      BY <2>6, <3>1, <3>2 DEF Room
    <3>4. half' \in [Conv -> Entry \cup {"none"}]
      BY <2>3, <2>6
    <3> QED
      BY <3>3, <3>4
  <2>7. ASSUME half[c] # "none", half[c] \in Entry,
               lines' = [lines EXCEPT ![c] = Append(@, half[c])],
               half' = [half EXCEPT ![c] = "none"]
        PROVE  Room' /\ half' \in [Conv -> Entry \cup {"none"}]
    <3>1. /\ Len(lines'[c]) = Len(lines[c]) + 1
          /\ \A d \in Conv : d # c => lines'[d] = lines[d]
      BY <2>4, <2>7
    <3>2. half'[c] = "none" /\ \A d \in Conv : d # c => half'[d] = half[d]
      BY <2>3, <2>7
    <3>3. Len(lines[c]) + 1 <= MaxLines
      BY <2>7 DEF Room
    <3>4. Len(lines'[c]) + (IF half'[c] = "none" THEN 0 ELSE 1) <= MaxLines
      BY <2>1, <2>2, <3>1, <3>2, <3>3
    <3>5. Room'
      BY <3>1, <3>2, <3>4 DEF Room
    <3>6. half' \in [Conv -> Entry \cup {"none"}]
      BY <2>3, <2>7
    <3> QED
      BY <3>5, <3>6
  <2>8. Room' /\ half' \in [Conv -> Entry \cup {"none"}]
    BY <1>2, <2>3, <2>5, <2>6, <2>7
  <2>9. CASE lines' = lines
    BY <2>1, <2>3, <2>8, <2>9
  <2>10. CASE \E e \in Entry : lines' = [lines EXCEPT ![c] = Append(@, e)]
    BY <2>4, <2>8, <2>10
  <2> QED
    BY <1>2, <2>9, <2>10
<1>4. TypeOK'
  <2>1. newest' \in Conv \cup {"none"}
    BY DEF Write, TypeOK
  <2>2. child' = child /\ resumed' = resumed
    BY DEF Write
  <2> QED
    BY <1>1, <1>3, <2>1, <2>2 DEF TypeOK
<1>5. /\ tail.target # "none" => tail.at <= Len(lines[tail.target])
      /\ tail.target = "none" => tail.at = 0 /\ tail.posts = <<>>
      /\ tail.target \in Conv \cup {"none"} /\ tail.at \in Nat
  BY Typed DEF Located
<1>6. tail.target # "none" =>
        /\ tail.at <= Len(lines'[tail.target])
        /\ tail.at # 0 => lines'[tail.target][tail.at] = lines[tail.target][tail.at]
  <2>1. ASSUME NEW d \in Conv
        PROVE  Len(lines[d]) \in Nat /\ Len(lines'[d]) \in Nat
    <3>1. lines[d] \in Seq(Entry) /\ lines'[d] \in Seq(Entry)
      BY <1>3, Typed
    <3> QED
      BY <3>1, LenProperties
  <2>2. tail.at # 0 /\ tail.target # "none" => tail.at \in 1..Len(lines[tail.target])
    BY <1>5, <2>1
  <2> QED
    BY <1>3, <1>5, <2>1, <2>2
<1>7. Located' /\ Whole'
  BY <1>1, <1>5, <1>6 DEF Located, Whole
<1>8. LastPost' /\ Derived'
  BY <1>1, <1>5, <1>6 DEF LastPost, Derived, Ends
<1> QED
  BY <1>3, <1>4, <1>7, <1>8

\* The processes come and go.
LEMMA ProcessStep ==
  ASSUME TailInv, Launch \/ ChildExits \/ Boot \/ Drain \/ Exit
  PROVE  TailInv'
<1> USE DEF TailInv
<1>1. /\ lines' = lines /\ half' = half /\ newest' = newest /\ resumed' = resumed
      /\ sent' = sent /\ lost' = lost /\ session' = session
      /\ child' \in {"none", "running", "exited"}
      /\ sidecar' \in {"boot", "serve", "drain", "gone"}
      /\ sidecar' = "boot" => sidecar = "boot" /\ tail' = tail
  BY DEF Launch, ChildExits, Boot, Drain, Exit, transcripts, TypeOK
<1>2. tail \in Tailer
  BY Typed
<1>3. \/ tail' = tail
      \/ tail' = [tail EXCEPT !.pc = "off"]
      \/ tail' = [tail EXCEPT !.pc = "locate"] /\ tail = NoTail
  BY DEF Launch, ChildExits, Boot, Drain, Exit, Located
<1>4. /\ tail' \in Tailer /\ tail'.target = tail.target /\ tail'.at = tail.at
      /\ tail'.got = tail.got /\ tail'.pending = tail.pending /\ tail'.posts = tail.posts
      /\ tail'.pc \in {tail.pc, "off", "locate"}
      /\ tail'.pc = "locate" => tail.pc = "locate" \/ tail.target = "none"
  BY <1>2, <1>3 DEF Tailer, NoTail
<1>5. TypeOK'
  BY <1>1, <1>4 DEF TypeOK
<1>6. Room' /\ Whole'
  BY <1>1, <1>4 DEF Room, Whole
<1>7. Located'
  BY <1>1, <1>4 DEF Located
<1>8. LastPost' /\ Derived'
  BY <1>1, <1>4 DEF LastPost, Derived, Ends
<1> QED
  BY <1>5, <1>6, <1>7, <1>8

\* The tailer finds its file, or gives up.
LEMMA LocateStep ==
  ASSUME TailInv, LocateById \/ LocateNewest \/ GiveUp
  PROVE  TailInv'
<1> USE DEF TailInv
<1>1. /\ lines' = lines /\ half' = half /\ newest' = newest /\ resumed' = resumed
      /\ sent' = sent /\ lost' = lost /\ session' = session /\ child' = child
      /\ sidecar' = sidecar /\ tail.pc = "locate"
  BY DEF LocateById, LocateNewest, GiveUp, transcripts
<1>2. tail \in Tailer
  BY Typed
<1>3. /\ tail.target = "none" /\ tail.at = 0 /\ tail.posts = <<>> /\ sent = <<>> /\ ~tail.got
      /\ sidecar # "boot"
  BY <1>1 DEF Located, NoTail
<1>4. \/ tail' = [tail EXCEPT !.pc = "off"]
      \/ \E c \in Conv : tail' = [tail EXCEPT !.pc = "tail", !.target = c]
  BY DEF LocateById, LocateNewest, GiveUp, TypeOK, Conv
<1>5. /\ tail' \in Tailer /\ tail'.at = tail.at /\ tail'.got = tail.got
      /\ tail'.pending = tail.pending /\ tail'.posts = tail.posts
      /\ \/ tail'.pc = "off" /\ tail'.target = "none"
         \/ tail'.pc = "tail" /\ tail'.target \in Conv
  BY <1>2, <1>3, <1>4 DEF Tailer
<1>6. TypeOK'
  BY <1>1, <1>5 DEF TypeOK
<1>7. Room' /\ Whole'
  BY <1>1, <1>3, <1>5 DEF Room, Whole
<1>8. Located'
  <2>1. \A c \in Conv : Len(lines[c]) \in Nat
    BY Typed
  <2>2. "none" \notin Conv
    BY Typed
  <2> QED
    BY <1>1, <1>3, <1>5, <2>1, <2>2 DEF Located
<1>9. LastPost' /\ Derived'
  BY <1>1, <1>3, <1>5 DEF LastPost, Derived
<1> QED
  BY <1>6, <1>7, <1>8, <1>9

\* A line read is whole, and its events are there to post.
LEMMA LineRead ==
  ASSUME TailInv, ReadLine
  PROVE  LET n      == tail.at + 1
             entry  == lines[tail.target][n]
             events == translateRolloutEntry(entry)
         IN /\ n \in 1..MaxLines /\ n <= Len(lines[tail.target]) /\ tail.target \in Conv
            /\ entry \in Entry /\ tail.pc = "tail" /\ tail.posts = <<>>
            /\ tail' = [tail EXCEPT !.at = n, !.got = FALSE, !.pending = <<>>,
                                    !.posts = tail'.posts, !.pc = "post"]
            /\ tail'.posts \in Seq(Posting) /\ tail'.posts # <<>>
            /\ Len(tail'.posts) = Len(events) /\ Len(events) \in {1, 2}
            /\ \A j \in 1..Len(events) : tail'.posts[j] = [line |-> n, event |-> events[j]]
            /\ tail'.posts[Len(tail'.posts)].event = "result" <=> entry \in Ends
<1> USE DEF TailInv
<1> DEFINE n      == tail.at + 1
           chunks == Append(tail.pending, IF tail.got THEN "rest" ELSE "line")
           posts  == processRolloutLine(chunks, n)
<1>1. /\ tail.pc = "tail" /\ tail.at < Len(lines[tail.target]) /\ tail.posts = <<>>
      /\ tail.target # "none"
  BY DEF ReadLine, Located, Whole
<1>2. tail.target \in Conv /\ tail.at \in Nat /\ tail \in Tailer /\ MaxLines \in Nat
  BY <1>1, Typed
<1>3. n \in 1..MaxLines /\ n <= Len(lines[tail.target])
  <2>1. lines[tail.target] \in Seq(Entry)
    BY <1>2, Typed
  <2>2. Len(lines[tail.target]) \in Nat
    BY <2>1, LenProperties
  <2>3. Len(lines[tail.target]) <= MaxLines
    <3>1. Len(lines[tail.target]) + (IF half[tail.target] = "none" THEN 0 ELSE 1) <= MaxLines
      BY <1>2 DEF Room
    <3>2. CASE half[tail.target] = "none"
      <4>1. Len(lines[tail.target]) + 0 <= MaxLines
        BY <3>1, <3>2
      <4> QED
        BY <1>2, <2>2, <4>1
    <3>3. CASE half[tail.target] # "none"
      <4>1. Len(lines[tail.target]) + 1 <= MaxLines
        BY <3>1, <3>3
      <4> QED
        BY <1>2, <2>2, <4>1
    <3> QED
      BY <3>2, <3>3
  <2> QED
    BY <1>1, <1>2, <2>2, <2>3
<1>4. chunks \in {<<"line">>, <<"head", "rest">>}
  <2>1. tail.pending = IF tail.got THEN <<"head">> ELSE <<>>
    BY DEF Whole
  <2>2. CASE tail.got
    <3>1. chunks = Append(<<"head">>, "rest")
      BY <2>1, <2>2
    <3>2. Append(<<"head">>, "rest") = <<"head", "rest">>
      BY Pair
    <3> QED
      BY <3>1, <3>2
  <2>3. CASE ~tail.got
    <3>1. chunks = Append(<<>>, "line")
      BY <2>1, <2>3
    <3> QED
      BY <3>1
  <2> QED
    BY <2>2, <2>3
<1>5. tail' = [tail EXCEPT !.at = n, !.got = FALSE, !.pending = <<>>, !.posts = posts, !.pc = "post"]
  BY DEF ReadLine
<1>6. tail'.posts = posts
  <2> HIDE DEF posts
  <2> QED
    BY <1>2, <1>5 DEF Tailer
<1>7. LET events == translateRolloutEntry(lines[tail.target][n])
      IN /\ posts \in Seq([line : 1..MaxLines, event : Events])
         /\ Len(posts) = Len(events) /\ Len(events) \in {1, 2} /\ posts # <<>>
         /\ \A j \in 1..Len(events) : posts[j] = [line |-> n, event |-> events[j]]
         /\ posts[Len(posts)].event = "result" <=> lines[tail.target][n] \in Ends
  <2> HIDE DEF n, chunks
  <2> QED
    BY <1>2, <1>3, <1>4, LinePosts
<1>8. lines[tail.target][n] \in Entry
  <2>1. lines[tail.target] \in Seq(Entry)
    BY <1>2, Typed
  <2>2. n \in 1..Len(lines[tail.target])
    <3>1. Len(lines[tail.target]) \in Nat
      BY <2>1, LenProperties
    <3> QED
      BY <1>2, <1>3, <3>1
  <2> HIDE DEF n
  <2> QED
    BY <2>1, <2>2, ElementOfSeq
<1> HIDE DEF n, posts
<1> QED
  BY <1>1, <1>2, <1>3, <1>5, <1>6, <1>7, <1>8 DEF Posting, n

\* ReadLine.
LEMMA ReadLineStep ==
  ASSUME TailInv, ReadLine
  PROVE  TailInv'
<1> USE DEF TailInv
<1> DEFINE n == tail.at + 1
<1>1. /\ n \in 1..MaxLines /\ n <= Len(lines[tail.target]) /\ tail.target \in Conv
      /\ tail' = [tail EXCEPT !.at = n, !.got = FALSE, !.pending = <<>>,
                              !.posts = tail'.posts, !.pc = "post"]
      /\ tail'.posts \in Seq(Posting) /\ tail'.posts # <<>>
      /\ tail'.posts[Len(tail'.posts)].event = "result" <=> lines[tail.target][n] \in Ends
  BY LineRead
<1>2. /\ lines' = lines /\ half' = half /\ newest' = newest /\ resumed' = resumed
      /\ sent' = sent /\ lost' = lost /\ session' = session /\ child' = child
      /\ sidecar' = sidecar
  BY DEF ReadLine, transcripts
<1>3. tail \in Tailer /\ MaxLines \in Nat /\ tail.at \in Nat /\ "none" \notin Conv
  BY Typed
<1>4. n \in 0..MaxLines /\ n > 0
  BY <1>1, <1>3
<1> HIDE DEF n
<1>5. /\ tail'.at = n /\ ~tail'.got /\ tail'.pending = <<>> /\ tail'.pc = "post"
      /\ tail'.target = tail.target
  BY <1>1, <1>3 DEF Tailer
<1>6. tail' \in Tailer
  <2>1. <<>> \in Seq({"head", "rest", "line"})
    OBVIOUS
  <2> QED
    BY <1>1, <1>3, <1>4, <2>1 DEF Tailer, Posting
<1>7. TypeOK'
  BY <1>2, <1>6 DEF TypeOK
<1>8. Room' /\ Whole'
  BY <1>2, <1>5 DEF Room, Whole
<1>9. Located'
  <2>1. sidecar # "boot"
    <3>1. tail.pc = "tail"
      BY DEF ReadLine
    <3> QED
      BY <3>1 DEF Located, NoTail
  <2> QED
    BY <1>1, <1>2, <1>3, <1>5, <2>1 DEF Located
<1>10. LastPost' /\ Derived'
  BY <1>1, <1>2, <1>4, <1>5 DEF LastPost, Derived, Ends
<1> QED
  BY <1>7, <1>8, <1>9, <1>10

\* ReadToEnd.
LEMMA ReadToEndStep ==
  ASSUME TailInv, ReadToEnd
  PROVE  TailInv'
<1> USE DEF TailInv
<1>1. /\ lines' = lines /\ half' = half /\ newest' = newest /\ resumed' = resumed
      /\ sent' = sent /\ lost' = lost /\ session' = session /\ child' = child
      /\ sidecar' = sidecar /\ tail.pc = "tail" /\ ~tail.got
      /\ tail' = [tail EXCEPT !.got = TRUE, !.pending = Append(@, "head")]
  BY DEF ReadToEnd, transcripts
<1>2. tail \in Tailer
  BY Typed
<1>3. Append(tail.pending, "head") = <<"head">>
  <2>1. tail.pending = <<>>
    BY <1>1 DEF Whole
  <2>2. Append(<<>>, "head") = <<"head">>
    OBVIOUS
  <2> QED
    BY <2>1, <2>2
<1>4. <<"head">> \in Seq({"head", "rest", "line"})
  OBVIOUS
<1>5. tail' = [tail EXCEPT !.got = TRUE, !.pending = <<"head">>]
  BY <1>1, <1>3
<1>6. /\ tail'.at = tail.at /\ tail'.got /\ tail'.pending = <<"head">> /\ tail'.pc = tail.pc
      /\ tail'.target = tail.target /\ tail'.posts = tail.posts /\ tail' \in Tailer
  BY <1>2, <1>4, <1>5 DEF Tailer
<1>7. TypeOK'
  BY <1>1, <1>6 DEF TypeOK
<1>8. Room' /\ Whole'
  BY <1>1, <1>6 DEF Room, Whole
<1>9. Located'
  BY <1>1, <1>6 DEF Located, NoTail
<1>10. LastPost' /\ Derived'
  BY <1>1, <1>6 DEF LastPost, Derived, Ends
<1> QED
  BY <1>7, <1>8, <1>9, <1>10

\* What a post takes from the front, and adds behind.
LEMMA Posted ==
  ASSUME TailInv, Post, tail.posts # <<>>
  PROVE  LET rest == SubSeq(tail.posts, 2, Len(tail.posts))
         IN /\ tail' = [tail EXCEPT !.posts = rest] /\ tail'.posts = rest /\ rest \in Seq(Posting)
            /\ tail' \in Tailer /\ tail'.pc = "post" /\ tail'.at = tail.at
            /\ tail'.target = tail.target /\ tail'.got = tail.got
            /\ tail'.pending = tail.pending
            /\ Len(tail.posts) \in Nat /\ Len(tail.posts) >= 1
            /\ Head(tail.posts) = tail.posts[1] /\ Head(tail.posts) \in Posting
            /\ Len(rest) = Len(tail.posts) - 1 /\ (rest = <<>> <=> Len(tail.posts) = 1)
            /\ \A i \in 1..(Len(tail.posts) - 1) : rest[i] = tail.posts[i + 1]
            /\ sent' = Append(sent, Head(tail.posts))
<1> USE DEF TailInv
<1> DEFINE rest == SubSeq(tail.posts, 2, Len(tail.posts))
<1>1. tail' = [tail EXCEPT !.posts = rest] /\ sent' = Append(sent, Head(tail.posts)) /\ tail.pc = "post"
  BY DEF Post
<1>2. tail \in Tailer /\ tail.posts \in Seq(Posting)
  BY Typed
<1>3. /\ Len(tail.posts) \in Nat /\ Len(tail.posts) >= 1
      /\ Head(tail.posts) \in Posting /\ Head(tail.posts) = tail.posts[1]
      /\ rest \in Seq(Posting) /\ Len(rest) = Len(tail.posts) - 1
      /\ \A i \in 1..(Len(tail.posts) - 1) : rest[i] = tail.posts[i + 1]
      /\ rest = <<>> <=> Len(tail.posts) = 1
  BY <1>2, Rest
<1> HIDE DEF rest
<1>4. /\ tail'.posts = rest /\ tail'.pc = "post" /\ tail'.at = tail.at
      /\ tail'.target = tail.target /\ tail'.got = tail.got
      /\ tail'.pending = tail.pending /\ tail' \in Tailer
  BY <1>1, <1>2, <1>3 DEF Tailer, Posting
<1> QED
  BY <1>1, <1>3, <1>4 DEF rest

\* Post.
LEMMA PostStep ==
  ASSUME TailInv, Post
  PROVE  TailInv'
<1> USE DEF TailInv
<1>1. /\ lines' = lines /\ half' = half /\ newest' = newest /\ resumed' = resumed
      /\ child' = child /\ sidecar' = sidecar /\ tail.pc = "post" /\ sidecar # "boot"
      /\ tail.target # "none"
  BY DEF Post, transcripts, Located, NoTail
<1>2. tail \in Tailer /\ sent \in Seq(Posting) /\ MaxLost \in Nat
  BY Typed
<1>3. CASE tail.posts = <<>>
  <2>1. /\ tail' = [tail EXCEPT !.pc = "tail"] /\ sent' = sent /\ lost' = lost
        /\ session' = session
    BY <1>3 DEF Post
  <2>2. /\ tail' \in Tailer /\ tail'.posts = <<>> /\ tail'.pc = "tail" /\ tail'.at = tail.at
        /\ tail'.target = tail.target /\ tail'.got = tail.got /\ tail'.pending = tail.pending
    BY <1>2, <1>3, <2>1 DEF Tailer
  <2>3. TypeOK'
    BY <1>1, <2>1, <2>2 DEF TypeOK
  <2>4. Room' /\ Whole' /\ Located'
    BY <1>1, <2>1, <2>2 DEF Room, Whole, Located
  <2>5. LastPost' /\ Derived'
    BY <1>1, <1>3, <2>1, <2>2 DEF LastPost, Derived, Ends
  <2> QED
    BY <2>3, <2>4, <2>5
<1>4. CASE tail.posts # <<>>
  <2> DEFINE c == Len(tail.posts)
  <2>1. /\ tail' \in Tailer /\ tail'.pc = "post" /\ tail'.at = tail.at
        /\ tail'.target = tail.target /\ tail'.got = tail.got /\ tail'.pending = tail.pending
        /\ c \in Nat /\ c >= 1 /\ Head(tail.posts) = tail.posts[1]
        /\ Head(tail.posts) \in Posting /\ Len(tail'.posts) = c - 1
        /\ tail'.posts = <<>> <=> c = 1
        /\ \A i \in 1..(c - 1) : tail'.posts[i] = tail.posts[i + 1]
        /\ sent' = Append(sent, Head(tail.posts))
    BY <1>4, Posted
  <2>2. \/ /\ session' = IF Head(tail.posts).event = "result" THEN "idle" ELSE "running"
           /\ lost' = lost
        \/ lost < MaxLost /\ lost' = lost + 1 /\ session' = session
    BY <1>4 DEF Post
  <2>3. TypeOK'
    <3>1. sent' \in Seq(Posting)
      BY <1>2, <2>1, OneMore
    <3>2. lost' \in 0..MaxLost /\ session' \in {"idle", "running"}
      BY <1>2, <2>2 DEF TypeOK
    <3> QED
      BY <1>1, <2>1, <3>1, <3>2 DEF TypeOK, Posting
  <2>4. Room' /\ Whole' /\ Located'
    BY <1>1, <2>1 DEF Room, Whole, Located
  <2>5. /\ tail.at > 0
        /\ tail.posts[c].event = "result" <=> lines[tail.target][tail.at] \in Ends
    BY <1>4 DEF LastPost
  <2>6. LastPost'
    <3>1. CASE c = 1
      BY <2>1, <3>1 DEF LastPost
    <3>2. CASE c # 1
      <4>1. c - 1 \in 1..(c - 1) /\ (c - 1) + 1 = c
        BY <2>1, <3>2
      <4>2. tail'.posts[Len(tail'.posts)] = tail.posts[c]
        BY <2>1, <4>1
      <4> QED
        BY <1>1, <2>1, <2>5, <4>2 DEF LastPost, Ends
    <3> QED
      BY <3>1, <3>2
  <2>7. Derived'
    <3> SUFFICES ASSUME tail'.posts = <<>>, lost' = 0
                 PROVE  session' = "idle" <=> lines'[tail'.target][tail'.at] \in Ends
      BY <2>1, <2>5 DEF Derived, Ends
    <3>1. c = 1
      BY <2>1
    <3>2. lost' # lost + 1
      BY <1>2 DEF TypeOK
    <3>3. session' = IF tail.posts[c].event = "result" THEN "idle" ELSE "running"
      BY <2>1, <2>2, <3>1, <3>2
    <3> QED
      BY <1>1, <2>1, <2>5, <3>3
  <2> QED
    BY <2>3, <2>4, <2>6, <2>7
<1> QED
  BY <1>3, <1>4

\* From the start on.
LEMMA TailAlways == Spec => []TailInv
<1>1. Init => TailInv
  <2> SUFFICES ASSUME Init PROVE TailInv
    OBVIOUS
  <2>1. MaxLines \in Nat /\ MaxLines > 0 /\ MaxLost \in Nat
    BY SidecarAssumption
  <2>2. tail = NoTail /\ sent = <<>> /\ lost = 0 /\ session = "idle"
    BY DEF Init, NoTail
  <2>3. NoTail \in Tailer
    <3>1. <<>> \in Seq({"head", "rest", "line"}) /\ <<>> \in Seq([line : 1..MaxLines, event : Events])
      BY EmptySeq
    <3>2. 0 \in 0..MaxLines
      BY <2>1
    <3> QED
      BY <3>1, <3>2 DEF NoTail, Tailer
  <2>4. ASSUME NEW c \in Conv
        PROVE  lines[c] \in Seq(Entry) /\ Len(lines[c]) <= 1 /\ Len(lines[c]) \in Nat
    <3>1. lines[c] \in {<<>>} \cup {<<e>> : e \in Entry}
      BY DEF Init
    <3>2. CASE lines[c] = <<>>
      BY <3>2
    <3>3. CASE lines[c] \in {<<e>> : e \in Entry}
      <4>1. PICK e \in Entry : lines[c] = <<e>>
        BY <3>3
      <4> QED
        BY <4>1
    <3> QED
      BY <3>1, <3>2, <3>3
  <2>5. lines \in [Conv -> Seq(Entry)]
    BY <2>4 DEF Init
  <2>6. TypeOK
    <3>1. sent \in Seq([line : 1..MaxLines, event : Events])
      BY <2>2, EmptySeq
    <3>2. lost \in 0..MaxLost
      BY <2>1, <2>2
    <3> QED
      BY <2>2, <2>3, <2>5, <3>1, <3>2 DEF Init, TypeOK
  <2>7. Room
    <3>1. \A c \in Conv : half[c] = "none"
      BY DEF Init
    <3>2. ASSUME NEW c \in Conv
          PROVE  Len(lines[c]) + (IF half[c] = "none" THEN 0 ELSE 1) <= MaxLines
      <4>1. (IF half[c] = "none" THEN 0 ELSE 1) = 0 /\ Len(lines[c]) \in Nat /\ Len(lines[c]) <= 1
        BY <2>4, <3>1
      <4>2. Len(lines[c]) + 0 <= MaxLines
        BY <2>1, <4>1
      <4> QED
        BY <4>1, <4>2
    <3> QED
      BY <3>2 DEF Room
  <2>8. Located /\ Whole /\ LastPost /\ Derived
    BY <2>2 DEF NoTail, Located, Whole, LastPost, Derived
  <2> QED
    BY <2>6, <2>7, <2>8 DEF TailInv
<1>2. TailInv /\ [Next]_vars => TailInv'
  <2> SUFFICES ASSUME TailInv, [Next]_vars PROVE TailInv'
    OBVIOUS
  <2>1. CASE Next
    BY <2>1, WriteStep, ProcessStep, LocateStep, ReadLineStep, ReadToEndStep, PostStep
       DEF Next, TailStep
  <2>2. CASE UNCHANGED vars
    BY <2>2 DEF vars, transcripts, TailInv, TypeOK, Room, Located, Whole, LastPost, Derived, Ends
  <2> QED
    BY <2>1, <2>2
<1> QED
  BY <1>1, <1>2, PTL DEF Spec

\* Every variable stays in its type: what is posted are events bridge-server knows.
THEOREM SidecarTypes == Spec => []TypeOK
<1>1. TailInv => TypeOK
  BY DEF TailInv
<1> QED
  BY <1>1, TailAlways, PTL

\* Once the tailer has caught up and no post was lost, the session is idle exactly
\* when the transcript's last entry ends a turn (translateRolloutEntry: "without it
\* PTY turns never close").
THEOREM TurnsAreClosed == Spec => []TurnsClose
<1>1. TailInv => TurnsClose
  BY DEF TailInv, Whole, Derived, TurnsClose
<1> QED
  BY <1>1, TailAlways, PTL
-----------------------------------------------------------------------------
(* Every event at its place.                                               *)

\* What the tailer posted and has yet to post.
Stream == sent \o tail.posts

EventsAt(n) == translateRolloutEntry(lines[tail.target][n])

\* The events of line n are in the stream from first[n] to where those of line
\* n + 1 are first: nothing comes before, between or after them.
EventsInPlace ==
  tail.target # "none" =>
    \E first \in [1..(tail.at + 1) -> 1..(Len(Stream) + 1)] :
      /\ first[1] = 1 /\ first[tail.at + 1] = Len(Stream) + 1
      /\ \A n \in 1..tail.at :
           /\ first[n + 1] = first[n] + Len(EventsAt(n))
           /\ \A j \in 1..Len(EventsAt(n)) :
                Stream[first[n] + j - 1] = [line |-> n, event |-> EventsAt(n)[j]]

\* Posting moves an event within the stream's two halves.
LEMMA StreamStays ==
  ASSUME TailInv, Post
  PROVE  Stream' = Stream
<1> USE DEF TailInv
<1>1. sent \in Seq(Posting) /\ tail.posts \in Seq(Posting) /\ tail \in Tailer
  BY Typed
<1>2. CASE tail.posts = <<>>
  <2>1. sent' = sent /\ tail' = [tail EXCEPT !.pc = "tail"]
    BY <1>2 DEF Post
  <2>2. tail'.posts = tail.posts
    BY <1>1, <2>1 DEF Tailer
  <2> QED
    BY <2>1, <2>2 DEF Stream
<1>3. CASE tail.posts # <<>>
  <2> DEFINE s == sent
             p == tail.posts
             q == tail'.posts
             t == Append(s, Head(p))
  <2>1. /\ q \in Seq(Posting) /\ Len(p) \in Nat /\ Len(p) >= 1 /\ Head(p) = p[1]
        /\ Head(p) \in Posting /\ Len(q) = Len(p) - 1
        /\ \A i \in 1..(Len(p) - 1) : q[i] = p[i + 1]
        /\ sent' = t
    BY <1>3, Posted
  <2>2. /\ t \in Seq(Posting) /\ Len(t) = Len(s) + 1 /\ Len(s) \in Nat
        /\ \A i \in 1..Len(s) : t[i] = s[i]
        /\ t[Len(s) + 1] = p[1]
    BY <1>1, <2>1, OneMore
  <2> HIDE DEF s, p, q, t
  <2>3. /\ s \o p \in Seq(Posting) /\ Len(s \o p) = Len(s) + Len(p)
        /\ \A i \in 1..(Len(s) + Len(p)) :
             (s \o p)[i] = IF i <= Len(s) THEN s[i] ELSE p[i - Len(s)]
    BY <1>1, ConcatProperties DEF s, p
  <2>4. /\ t \o q \in Seq(Posting) /\ Len(t \o q) = Len(t) + Len(q)
        /\ \A i \in 1..(Len(t) + Len(q)) :
             (t \o q)[i] = IF i <= Len(t) THEN t[i] ELSE q[i - Len(t)]
    BY <2>1, <2>2, ConcatProperties
  <2>5. Len(t \o q) = Len(s \o p) /\ Len(t) + Len(q) = Len(s) + Len(p)
    BY <2>1, <2>2, <2>3, <2>4
  <2>6. ASSUME NEW i \in 1..(Len(s) + Len(p))
        PROVE  (t \o q)[i] = (s \o p)[i]
    <3>1. CASE i <= Len(s)
      BY <2>1, <2>2, <2>3, <2>4, <2>5, <3>1
    <3>2. CASE i = Len(s) + 1
      BY <2>1, <2>2, <2>3, <2>4, <2>5, <3>2
    <3>3. CASE i > Len(s) + 1
      <4>1. (t \o q)[i] = q[i - Len(t)] /\ (s \o p)[i] = p[i - Len(s)]
        BY <2>1, <2>2, <2>3, <2>4, <2>5, <3>3
      <4>2. i - Len(t) \in 1..(Len(p) - 1) /\ (i - Len(t)) + 1 = i - Len(s)
        BY <2>1, <2>2, <3>3
      <4> QED
        BY <2>1, <4>1, <4>2
    <3> QED
      BY <2>1, <2>2, <3>1, <3>2, <3>3
  <2>7. t \o q = s \o p
    BY <2>3, <2>4, <2>5, <2>6, SeqEqual
  <2> QED
    BY <2>1, <2>7 DEF Stream, s, p, q, t
<1> QED
  BY <1>2, <1>3

\* As long as the stream and the lines read stay, so do the places.
LEMMA PlacesStay ==
  ASSUME TypeOK, EventsInPlace, Stream' = Stream, tail'.at = tail.at, tail'.target = tail.target,
         tail.target # "none" =>
           \A n \in 1..tail.at : lines'[tail.target][n] = lines[tail.target][n]
  PROVE  EventsInPlace'
<1> SUFFICES ASSUME tail.target # "none"
             PROVE  EventsInPlace'
  BY DEF EventsInPlace
<1>1. PICK first \in [1..(tail.at + 1) -> 1..(Len(Stream) + 1)] :
        /\ first[1] = 1 /\ first[tail.at + 1] = Len(Stream) + 1
        /\ \A n \in 1..tail.at :
             /\ first[n + 1] = first[n] + Len(EventsAt(n))
             /\ \A j \in 1..Len(EventsAt(n)) :
                  Stream[first[n] + j - 1] = [line |-> n, event |-> EventsAt(n)[j]]
  BY DEF EventsInPlace
<1>2. \A n \in 1..tail.at : EventsAt(n)' = EventsAt(n)
  BY DEF EventsAt
<1>3. /\ first \in [1..(tail'.at + 1) -> 1..(Len(Stream') + 1)]
      /\ first[1] = 1 /\ first[tail'.at + 1] = Len(Stream') + 1
      /\ \A n \in 1..tail'.at :
           /\ first[n + 1] = first[n] + Len(EventsAt(n)')
           /\ \A j \in 1..Len(EventsAt(n)') :
                Stream'[first[n] + j - 1] = [line |-> n, event |-> EventsAt(n)'[j]]
  BY <1>1, <1>2
<1> QED
  BY <1>3 DEF EventsInPlace

\* The events of a line read go behind the others.
LEMMA PlacesGrow ==
  ASSUME TailInv, EventsInPlace, ReadLine
  PROVE  EventsInPlace'
<1> USE DEF TailInv
<1> DEFINE n == tail.at + 1
           k == Len(EventsAt(n))
           m == Len(sent)
<1>1. /\ n \in 1..MaxLines /\ n <= Len(lines[tail.target]) /\ tail.target \in Conv
      /\ tail.posts = <<>>
      /\ tail' = [tail EXCEPT !.at = n, !.got = FALSE, !.pending = <<>>,
                              !.posts = tail'.posts, !.pc = "post"]
      /\ tail'.posts \in Seq(Posting) /\ Len(tail'.posts) = k /\ k \in {1, 2}
      /\ \A j \in 1..k : tail'.posts[j] = [line |-> n, event |-> EventsAt(n)[j]]
  BY LineRead DEF EventsAt
<1>2. sent' = sent /\ lines' = lines
  BY DEF ReadLine, transcripts
<1>3. /\ tail.at \in Nat /\ sent \in Seq(Posting) /\ "none" \notin Conv /\ tail \in Tailer
      /\ MaxLines \in Nat
  BY Typed
<1>4. tail'.at = n /\ tail'.target = tail.target
  BY <1>1, <1>3 DEF Tailer
<1>5. Stream = sent /\ m \in Nat
  BY <1>1, <1>3, ConcatEmptySeq, LenProperties DEF Stream
<1>6. /\ Len(Stream') = m + k
      /\ \A i \in 1..m : Stream'[i] = sent[i]
      /\ \A j \in 1..k : Stream'[m + j] = tail'.posts[j]
  <2> DEFINE p == tail'.posts
  <2>1. Stream' = sent \o p
    BY <1>2 DEF Stream
  <2> HIDE DEF p, k, m
  <2>2. /\ Len(sent \o p) = Len(sent) + Len(p)
        /\ \A i \in 1..(Len(sent) + Len(p)) :
             (sent \o p)[i] = IF i <= Len(sent) THEN sent[i] ELSE p[i - Len(sent)]
    BY <1>1, <1>3, ConcatProperties DEF p
  <2>3. Len(p) = k /\ k \in Nat /\ Len(sent) = m
    BY <1>1 DEF p, m
  <2>4. ASSUME NEW i \in 1..m PROVE (sent \o p)[i] = sent[i]
    BY <1>5, <2>2, <2>3
  <2>5. ASSUME NEW j \in 1..k PROVE (sent \o p)[m + j] = p[j]
    <3>1. m + j \in 1..(m + k) /\ ~(m + j <= m) /\ (m + j) - m = j
      BY <1>5, <2>3
    <3> QED
      BY <2>2, <2>3, <3>1
  <2> QED
    BY <2>1, <2>2, <2>3, <2>4, <2>5 DEF p
<1>7. PICK first \in [1..n -> 1..(m + 1)] :
        /\ first[1] = 1 /\ first[n] = m + 1
        /\ \A i \in 1..tail.at :
             /\ first[i + 1] = first[i] + Len(EventsAt(i))
             /\ \A j \in 1..Len(EventsAt(i)) :
                  sent[first[i] + j - 1] = [line |-> i, event |-> EventsAt(i)[j]]
  BY <1>1, <1>3, <1>5 DEF EventsInPlace
<1>8. \A i \in 1..n : EventsAt(i)' = EventsAt(i)
  BY <1>2, <1>4 DEF EventsAt
<1>9. ASSUME NEW i \in 1..tail.at
      PROVE  Len(EventsAt(i)) \in Nat
  <2>1. lines[tail.target] \in Seq(Entry) /\ Len(lines[tail.target]) \in Nat
    BY <1>1, Typed
  <2>2. i \in 1..Len(lines[tail.target])
    BY <1>1, <1>3, <2>1
  <2>3. lines[tail.target][i] \in Entry
    BY <2>1, <2>2, ElementOfSeq
  <2>4. EventsAt(i) \in Seq(Events)
    BY <2>3, EntryEvents DEF EventsAt
  <2> QED
    BY <2>4, LenProperties
<1> HIDE DEF k, m
<1> DEFINE next == [i \in 1..(n + 1) |-> IF i = n + 1 THEN m + 1 + k ELSE first[i]]
<1>10. next[n + 1] = m + 1 + k /\ \A i \in 1..n : next[i] = first[i]
  BY <1>3
<1>11. next \in [1..(n + 1) -> 1..(m + k + 1)]
  <2>1. ASSUME NEW i \in 1..(n + 1)
        PROVE  (IF i = n + 1 THEN m + 1 + k ELSE first[i]) \in 1..(m + k + 1)
    <3>1. CASE i = n + 1
      BY <1>1, <1>5, <3>1
    <3>2. CASE i # n + 1
      <4>1. i \in 1..n
        BY <1>3, <3>2
      <4>2. first[i] \in 1..(m + 1)
        BY <1>7, <4>1
      <4> QED
        BY <1>1, <1>5, <3>2, <4>2
    <3> QED
      BY <3>1, <3>2
  <2> QED
    BY <2>1
<1>12. ASSUME NEW i \in 1..n
       PROVE  /\ next[i + 1] = next[i] + Len(EventsAt(i))
              /\ \A j \in 1..Len(EventsAt(i)) :
                   Stream'[next[i] + j - 1] = [line |-> i, event |-> EventsAt(i)[j]]
  <2>1. CASE i = n
    <3>1. next[i] = m + 1 /\ next[i + 1] = m + 1 + k /\ Len(EventsAt(i)) = k
      BY <1>7, <1>10, <2>1 DEF k
    <3>2. ASSUME NEW j \in 1..k
          PROVE  Stream'[next[i] + j - 1] = [line |-> i, event |-> EventsAt(i)[j]]
      <4>1. next[i] + j - 1 = m + j
        BY <1>1, <1>5, <3>1
      <4>2. Stream'[m + j] = [line |-> n, event |-> EventsAt(n)[j]]
        BY <1>1, <1>6
      <4> QED
        BY <2>1, <4>1, <4>2
    <3> QED
      BY <3>1, <3>2
  <2>2. CASE i # n
    <3>1. i \in 1..tail.at /\ i + 1 \in 1..n
      BY <1>3, <2>2
    <3>2. next[i] = first[i] /\ next[i + 1] = first[i + 1]
      BY <1>10, <3>1
    <3>3. first[i] \in 1..(m + 1) /\ first[i + 1] \in 1..(m + 1)
      BY <1>7, <3>1
    <3>4. ASSUME NEW j \in 1..Len(EventsAt(i))
          PROVE  Stream'[next[i] + j - 1] = [line |-> i, event |-> EventsAt(i)[j]]
      <4>1. Len(EventsAt(i)) \in Nat /\ first[i + 1] = first[i] + Len(EventsAt(i))
        BY <1>7, <1>9, <3>1
      <4>2. first[i] + j - 1 \in 1..m
        BY <1>5, <3>3, <4>1
      <4>3. sent[first[i] + j - 1] = [line |-> i, event |-> EventsAt(i)[j]]
        BY <1>7, <3>1
      <4> QED
        BY <1>6, <3>2, <4>2, <4>3
    <3> QED
      BY <1>7, <3>1, <3>2, <3>4
  <2> QED
    BY <2>1, <2>2
<1>13. next[1] = 1
  <2>1. 1 \in 1..n
    BY <1>3
  <2> QED
    BY <1>7, <1>10, <2>1
<1> HIDE DEF next
<1>14. /\ next \in [1..(tail'.at + 1) -> 1..(Len(Stream') + 1)]
       /\ next[1] = 1 /\ next[tail'.at + 1] = Len(Stream') + 1
       /\ \A i \in 1..tail'.at :
            /\ next[i + 1] = next[i] + Len(EventsAt(i)')
            /\ \A j \in 1..Len(EventsAt(i)') :
                 Stream'[next[i] + j - 1] = [line |-> i, event |-> EventsAt(i)'[j]]
  <2>1. m + 1 + k = m + k + 1
    BY <1>1, <1>5
  <2>2. tail'.at = n /\ Len(Stream') = m + k
    BY <1>4, <1>6
  <2>3. ASSUME NEW i \in 1..n
        PROVE  /\ next[i + 1] = next[i] + Len(EventsAt(i)')
               /\ \A j \in 1..Len(EventsAt(i)') :
                    Stream'[next[i] + j - 1] = [line |-> i, event |-> EventsAt(i)'[j]]
    <3>1. EventsAt(i)' = EventsAt(i)
      BY <1>8
    <3> QED
      BY <1>12, <3>1
  <2> HIDE DEF n
  <2> QED
    BY <1>10, <1>11, <1>13, <2>1, <2>2, <2>3
<1> QED
  BY <1>14 DEF EventsInPlace

\* The first line has its place before it is read.
LEMMA PlacesBegin ==
  ASSUME TailInv, LocateById \/ LocateNewest \/ GiveUp
  PROVE  EventsInPlace'
<1> USE DEF TailInv
<1>1. tail.target = "none" /\ tail.at = 0 /\ tail.posts = <<>> /\ sent = <<>> /\ sent' = sent
  BY DEF LocateById, LocateNewest, GiveUp, Located
<1>2. tail \in Tailer
  BY Typed
<1>3. tail'.at = 0 /\ tail'.posts = <<>>
  BY <1>1, <1>2 DEF LocateById, LocateNewest, GiveUp, Tailer
<1>4. Len(Stream') = 0
  <2>1. Stream' = <<>> \o <<>>
    BY <1>1, <1>3 DEF Stream
  <2>2. <<>> \in Seq(Posting)
    BY EmptySeq
  <2> QED
    BY <2>1, <2>2, ConcatEmptySeq, EmptySeq
<1> DEFINE first == [i \in 1..1 |-> 1]
<1>5. first \in [1..1 -> 1..1] /\ first[1] = 1
  OBVIOUS
<1> HIDE DEF first
<1>6. 0 + 1 = 1 /\ 1..0 = {}
  OBVIOUS
<1>7. /\ first \in [1..(tail'.at + 1) -> 1..(Len(Stream') + 1)]
      /\ first[1] = 1 /\ first[tail'.at + 1] = Len(Stream') + 1
      /\ \A n \in 1..tail'.at :
           /\ first[n + 1] = first[n] + Len(EventsAt(n)')
           /\ \A j \in 1..Len(EventsAt(n)') :
                Stream'[first[n] + j - 1] = [line |-> n, event |-> EventsAt(n)'[j]]
  BY <1>3, <1>4, <1>5, <1>6
<1> QED
  BY <1>7 DEF EventsInPlace

\* Every event of every line read is posted or about to be, at its place and once,
\* and nothing else is: no line is lost or garbled because it was read while Claude
\* Code was writing it (runRolloutTailer).
THEOREM EventsAreInPlace == Spec => []EventsInPlace
<1>1. Init => EventsInPlace
  BY DEF Init, EventsInPlace
<1>2. TailInv /\ EventsInPlace /\ [Next]_vars => EventsInPlace'
  <2> SUFFICES ASSUME TailInv, EventsInPlace, [Next]_vars PROVE EventsInPlace'
    OBVIOUS
  <2>1. /\ TypeOK /\ tail \in Tailer
        /\ tail.target # "none" => tail.target \in Conv /\ tail.at <= Len(lines[tail.target])
        /\ tail.at \in Nat /\ \A c \in Conv : Len(lines[c]) \in Nat
    BY Typed DEF TailInv, Located
  <2>2. CASE \E c \in Conv : Write(c)
    <3>1. tail' = tail /\ sent' = sent
      BY <2>2 DEF Write
    <3>2. \A d \in Conv : \A i \in 1..Len(lines[d]) : lines'[d][i] = lines[d][i]
      BY <2>2, WriteStep
    <3>3. tail.target # "none" =>
            \A n \in 1..tail.at : lines'[tail.target][n] = lines[tail.target][n]
      BY <2>1, <3>2
    <3> QED
      BY <2>1, <3>1, <3>3, PlacesStay DEF Stream
  <2>3. CASE Launch \/ ChildExits \/ Boot \/ Drain \/ Exit
    <3>1. lines' = lines /\ sent' = sent
      BY <2>3 DEF Launch, ChildExits, Boot, Drain, Exit, transcripts
    <3>2. tail'.at = tail.at /\ tail'.target = tail.target /\ tail'.posts = tail.posts
      BY <2>1, <2>3 DEF Launch, ChildExits, Boot, Drain, Exit, Tailer
    <3> QED
      BY <2>1, <3>1, <3>2, PlacesStay DEF Stream
  <2>4. CASE LocateById \/ LocateNewest \/ GiveUp
    BY <2>4, PlacesBegin
  <2>5. CASE ReadLine
    BY <2>5, PlacesGrow
  <2>6. CASE ReadToEnd
    <3>1. lines' = lines /\ sent' = sent
      BY <2>6 DEF ReadToEnd, transcripts
    <3>2. tail'.at = tail.at /\ tail'.target = tail.target /\ tail'.posts = tail.posts
      BY <2>1, <2>6 DEF ReadToEnd, Tailer
    <3> QED
      BY <2>1, <3>1, <3>2, PlacesStay DEF Stream
  <2>7. CASE Post
    <3>1. lines' = lines
      BY <2>7 DEF Post, transcripts
    <3>2. tail'.at = tail.at /\ tail'.target = tail.target
      BY <2>1, <2>7 DEF Post, Tailer
    <3> QED
      BY <2>1, <2>7, <3>1, <3>2, StreamStays, PlacesStay
  <2>8. CASE UNCHANGED vars
    BY <2>1, <2>8, PlacesStay DEF vars, transcripts, Stream
  <2> QED
    BY <2>2, <2>3, <2>4, <2>5, <2>6, <2>7, <2>8 DEF Next, TailStep
<1> QED
  BY <1>1, <1>2, TailAlways, PTL DEF Spec

-----------------------------------------------------------------------------
(* The stream as the lines' events joined.                                 *)

\* A set of numbers that is not empty has a least one.
LEMMA Least ==
  ASSUME NEW T, T \subseteq Nat, T # {}
  PROVE  \E x \in T : \A y \in T : x <= y
<1> DEFINE R == OpToRel(<, Nat)
<1>1. IsWellFoundedOn(R, Nat)
  BY NatLessThanWellFounded, Zenon
<1>2. \A x, y \in Nat : <<y, x>> \in R <=> y < x
  BY DEF OpToRel
<1> HIDE DEF R
<1>3. PICK x \in T : \A y \in T : <<y, x>> \notin R
  BY <1>1, WFMin
<1>4. ASSUME NEW y \in T PROVE x <= y
  <2>1. x \in Nat /\ y \in Nat
    OBVIOUS
  <2>2. ~(y < x)
    BY <1>2, <1>3, <2>1, Zenon
  <2> QED
    BY <2>1, <2>2
<1> QED
  BY <1>4

\* The recursion that joins sequences has one solution.
Joins(f, seqs) ==
  f = [i \in 1..Len(seqs) |-> IF i = 1 THEN seqs[i] ELSE f[i - 1] \o seqs[i]]

LEMMA JoinedOnce ==
  ASSUME NEW f, NEW g, NEW seqs, Len(seqs) \in Nat, Joins(f, seqs), Joins(g, seqs)
  PROVE  \A i \in 1..Len(seqs) : f[i] = g[i]
<1> DEFINE T == {i \in 1..Len(seqs) : f[i] # g[i]}
<1> SUFFICES ASSUME T # {} PROVE FALSE
  OBVIOUS
<1>1. PICK x \in T : \A y \in T : x <= y
  <2>1. T \subseteq Nat
    OBVIOUS
  <2> HIDE DEF T
  <2> QED
    BY <2>1, Least
<1>2. x \in 1..Len(seqs) /\ f[x] # g[x]
  OBVIOUS
<1>3. \A h : Joins(h, seqs) => h[x] = IF x = 1 THEN seqs[x] ELSE h[x - 1] \o seqs[x]
  BY <1>2 DEF Joins
<1>4. x # 1
  BY <1>2, <1>3
<1>5. x - 1 \in 1..Len(seqs) /\ ~(x <= x - 1)
  BY <1>2, <1>4
<1>6. f[x - 1] = g[x - 1]
  BY <1>1, <1>5
<1> QED
  BY <1>2, <1>3, <1>6

LEMMA Flattened ==
  ASSUME NEW seqs, Len(seqs) \in Nat, Len(seqs) # 0, NEW f, Joins(f, seqs)
  PROVE  FlattenSeq(seqs) = f[Len(seqs)]
<1> DEFINE g == CHOOSE h : Joins(h, seqs)
<1>1. Joins(g, seqs)
  OBVIOUS
<1>2. FlattenSeq(seqs) = g[Len(seqs)]
  BY DEF FlattenSeq, Joins
<1> HIDE DEF g
<1> QED
  BY <1>1, <1>2, JoinedOnce

\* The postings of line i.
Postings(i) == [j \in DOMAIN EventsAt(i) |-> [line |-> i, event |-> EventsAt(i)[j]]]

\* A prefix of a stream.
LEMMA Prefix ==
  ASSUME NEW T, NEW s \in Seq(T), NEW l \in 0..Len(s)
  PROVE  /\ SubSeq(s, 1, l) \in Seq(T) /\ Len(SubSeq(s, 1, l)) = l
         /\ \A k \in 1..l : SubSeq(s, 1, l)[k] = s[k]
OBVIOUS

\* Each of n sequences has its place in s, one behind the other.
Placed(n, s, seqs, first) ==
  /\ seqs \in [1..n -> Seq(Posting)]
  /\ first \in [1..(n + 1) -> 1..(Len(s) + 1)] /\ first[1] = 1 /\ first[n + 1] = Len(s) + 1
  /\ \A i \in 1..n : /\ first[i + 1] = first[i] + Len(seqs[i])
                     /\ \A j \in 1..Len(seqs[i]) : s[first[i] + j - 1] = seqs[i][j]

\* A stream in which every line's events have their place is those events joined.
LEMMA StreamJoined ==
  ASSUME NEW n \in Nat, n # 0, NEW s \in Seq(Posting), NEW seqs, NEW first,
         Placed(n, s, seqs, first)
  PROVE  FlattenSeq(seqs) = s
<1>1. Len(s) \in Nat /\ seqs \in Seq(Seq(Posting)) /\ Len(seqs) = n
  BY LenProperties, Numbering DEF Placed
<1> DEFINE f == [i \in 1..n |-> SubSeq(s, 1, first[i + 1] - 1)]
<1>2. ASSUME NEW i \in 1..n
      PROVE  /\ first[i] \in Nat /\ 1 <= first[i] /\ first[i + 1] \in Nat
             /\ first[i + 1] <= Len(s) + 1 /\ first[i + 1] = first[i] + Len(seqs[i])
             /\ seqs[i] \in Seq(Posting) /\ Len(seqs[i]) \in Nat
  <2>1. i \in 1..(n + 1) /\ i + 1 \in 1..(n + 1)
    OBVIOUS
  <2>2. /\ first[i] \in 1..(Len(s) + 1) /\ first[i + 1] \in 1..(Len(s) + 1)
        /\ seqs[i] \in Seq(Posting) /\ first[i + 1] = first[i] + Len(seqs[i])
    BY <2>1 DEF Placed
  <2> QED
    BY <1>1, <2>2, LenProperties
<1>3. ASSUME NEW i \in 1..n
      PROVE  /\ f[i] \in Seq(Posting) /\ Len(f[i]) = first[i + 1] - 1
             /\ \A k \in 1..(first[i + 1] - 1) : f[i][k] = s[k]
  <2> DEFINE l == first[i + 1] - 1
  <2>1. l \in 0..Len(s)
    <3>1. /\ first[i] \in Nat /\ 1 <= first[i] /\ first[i + 1] <= Len(s) + 1
          /\ first[i + 1] = first[i] + Len(seqs[i]) /\ Len(seqs[i]) \in Nat
      BY <1>2
    <3> QED
      BY <1>1, <3>1
  <2>2. f[i] = SubSeq(s, 1, l)
    OBVIOUS
  <2> HIDE DEF l, f
  <2>3. /\ SubSeq(s, 1, l) \in Seq(Posting) /\ Len(SubSeq(s, 1, l)) = l
        /\ \A k \in 1..l : SubSeq(s, 1, l)[k] = s[k]
    BY <1>1, <2>1, Prefix
  <2> QED
    BY <2>2, <2>3 DEF l
<1>4. f = [i \in 1..n |-> f[i]]
  OBVIOUS
<1> HIDE DEF f
<1>5. /\ 1 \in 1..n /\ n \in 1..n /\ 1 + 1 = 2
      /\ first[1] = 1 /\ first[n + 1] = Len(s) + 1
  BY DEF Placed
<1>6. f[n] = s
  <2>1. Len(f[n]) = Len(s) /\ f[n] \in Seq(Posting) /\ \A k \in 1..Len(s) : f[n][k] = s[k]
    BY <1>1, <1>3, <1>5
  <2> QED
    BY <2>1, SeqEqual
<1>7. f[1] = seqs[1]
  <2>1. f[1] \in Seq(Posting) /\ Len(f[1]) = Len(seqs[1])
    <3>1. f[1] \in Seq(Posting) /\ Len(f[1]) = first[1 + 1] - 1
      BY <1>3, <1>5
    <3>2. first[1 + 1] = first[1] + Len(seqs[1]) /\ Len(seqs[1]) \in Nat
      BY <1>2, <1>5
    <3> QED
      BY <1>5, <3>1, <3>2
  <2>2. ASSUME NEW k \in 1..Len(seqs[1]) PROVE f[1][k] = seqs[1][k]
    <3>1. s[first[1] + k - 1] = seqs[1][k]
      BY <1>5 DEF Placed
    <3>2. first[1] + k - 1 = k /\ k \in 1..(first[1 + 1] - 1)
      BY <1>2, <1>5
    <3> QED
      BY <1>3, <1>5, <3>1, <3>2
  <2>3. seqs[1] \in Seq(Posting)
    BY <1>2, <1>5
  <2> QED
    BY <2>1, <2>2, <2>3, SeqEqual
<1>8. ASSUME NEW i \in 1..n, i # 1
      PROVE  f[i] = f[i - 1] \o seqs[i]
  <2> DEFINE a == f[i - 1]
             b == seqs[i]
             m == first[i] - 1
  <2>1. i - 1 \in 1..n /\ (i - 1) + 1 = i
    BY <1>8
  <2>2. /\ a \in Seq(Posting) /\ Len(a) = first[i] - 1
        /\ \A k \in 1..(first[i] - 1) : a[k] = s[k]
    <3> DEFINE h == i - 1
    <3>1. h \in 1..n /\ h + 1 = i
      BY <2>1
    <3> HIDE DEF h
    <3>2. /\ f[h] \in Seq(Posting) /\ Len(f[h]) = first[i] - 1
          /\ \A k \in 1..(first[i] - 1) : f[h][k] = s[k]
      BY <1>3, <3>1
    <3> QED
      BY <3>2 DEF h
  <2>3. m \in Nat /\ first[i] = m + 1 /\ first[i + 1] - 1 = m + Len(b)
    <3>1. /\ first[i] \in Nat /\ 1 <= first[i] /\ Len(b) \in Nat
          /\ first[i + 1] = first[i] + Len(b)
      BY <1>2
    <3> QED
      BY <3>1
  <2>4. b \in Seq(Posting) /\ Len(b) \in Nat
    BY <1>2
  <2>5. ASSUME NEW j \in 1..Len(b) PROVE s[m + j] = b[j]
    <3>1. s[first[i] + j - 1] = b[j]
      BY DEF Placed
    <3>2. first[i] + j - 1 = m + j
      BY <2>3, <2>4
    <3> QED
      BY <3>1, <3>2
  <2>6. /\ f[i] \in Seq(Posting) /\ Len(f[i]) = m + Len(b)
        /\ \A k \in 1..(m + Len(b)) : f[i][k] = s[k]
    BY <1>3, <2>3
  <2>7. Len(a) = m /\ \A k \in 1..m : a[k] = s[k]
    BY <2>2
  <2> HIDE DEF a, b, m
  <2>8. /\ a \o b \in Seq(Posting) /\ Len(a \o b) = m + Len(b)
        /\ \A k \in 1..(m + Len(b)) : (a \o b)[k] = IF k <= m THEN a[k] ELSE b[k - m]
    BY <2>2, <2>4, <2>7, ConcatProperties
  <2>9. ASSUME NEW k \in 1..(m + Len(b)) PROVE f[i][k] = (a \o b)[k]
    <3>1. CASE k <= m
      <4>1. k \in 1..m
        BY <2>3, <3>1
      <4>2. f[i][k] = s[k] /\ a[k] = s[k] /\ (a \o b)[k] = a[k]
        BY <2>6, <2>7, <2>8, <3>1, <4>1
      <4> QED
        BY <4>2
    <3>2. CASE k > m
      <4>1. k - m \in 1..Len(b) /\ m + (k - m) = k
        BY <2>3, <2>4, <3>2
      <4>2. s[k] = b[k - m]
        BY <2>5, <4>1
      <4>3. (a \o b)[k] = b[k - m]
        BY <2>3, <2>4, <2>8, <3>2
      <4> QED
        BY <2>6, <4>2, <4>3
    <3>3. k <= m \/ k > m
      BY <2>3, <2>4
    <3> QED
      BY <3>1, <3>2, <3>3
  <2>10. f[i] = a \o b
    BY <2>3, <2>4, <2>6, <2>8, <2>9, SeqEqual
  <2> QED
    BY <2>10 DEF a, b
<1>9. Joins(f, seqs)
  BY <1>1, <1>4, <1>7, <1>8 DEF Joins
<1> QED
  BY <1>1, <1>5, <1>6, <1>9, Flattened

\* The tailer posts the events of the lines it has read, in their order and each
\* once, whatever the pieces in which Claude Code wrote them (runRolloutTailer).
THEOREM TranscriptIsFollowed == Spec => []FollowsTranscript
<1>1. TailInv /\ EventsInPlace => FollowsTranscript
  <2> SUFFICES ASSUME TailInv, EventsInPlace, tail.target # "none"
               PROVE  Stream = EventsOf(tail.target, tail.at)
    BY DEF FollowsTranscript, Stream
  <2> DEFINE n    == tail.at
             seqs == [i \in 1..n |-> Postings(i)]
  <2>1. /\ tail.target \in Conv /\ n \in Nat /\ n <= MaxLines /\ MaxLines \in Nat
        /\ n <= Len(lines[tail.target])
        /\ sent \in Seq(Posting) /\ tail.posts \in Seq(Posting)
    BY Typed, SidecarAssumption DEF TailInv, Located, Tailer
  <2>2. EventsOf(tail.target, n) = FlattenSeq(seqs)
    BY DEF EventsOf, Postings, EventsAt
  <2>3. Stream \in Seq(Posting) /\ Len(Stream) \in Nat
    BY <2>1, ConcatProperties, LenProperties DEF Stream
  <2>4. PICK first \in [1..(n + 1) -> 1..(Len(Stream) + 1)] :
          /\ first[1] = 1 /\ first[n + 1] = Len(Stream) + 1
          /\ \A i \in 1..n :
               /\ first[i + 1] = first[i] + Len(EventsAt(i))
               /\ \A j \in 1..Len(EventsAt(i)) :
                    Stream[first[i] + j - 1] = [line |-> i, event |-> EventsAt(i)[j]]
    BY DEF EventsInPlace
  <2>5. CASE n = 0
    <3>1. seqs = <<>> /\ Len(seqs) = 0
      BY <2>5
    <3>2. Len(Stream) = 0
      BY <2>3, <2>4, <2>5
    <3> HIDE DEF seqs
    <3> QED
      BY <2>2, <2>3, <3>1, <3>2, EmptySeq DEF FlattenSeq
  <2>6. CASE n # 0
    <3>1. ASSUME NEW i \in 1..n
          PROVE  /\ Postings(i) \in Seq(Posting) /\ Len(Postings(i)) = Len(EventsAt(i))
                 /\ \A j \in 1..Len(EventsAt(i)) :
                      Postings(i)[j] = [line |-> i, event |-> EventsAt(i)[j]]
      <4>1. i \in 1..MaxLines /\ lines[tail.target][i] \in Entry
        <5>1. i \in 1..Len(lines[tail.target]) /\ i \in 1..MaxLines
          <6>1. Len(lines[tail.target]) \in Nat
            BY <2>1, LenProperties DEF TailInv, TypeOK
          <6> QED
            BY <2>1, <6>1
        <5> QED
          BY <2>1, <5>1, ElementOfSeq DEF TailInv, TypeOK
      <4>2. EventsAt(i) \in Seq(Events) /\ Len(EventsAt(i)) \in {1, 2}
        BY <4>1, EntryEvents DEF EventsAt
      <4> DEFINE events == EventsAt(i)
      <4> HIDE DEF events
      <4>3. LET posts == [j \in DOMAIN events |-> [line |-> i, event |-> events[j]]]
            IN /\ posts \in Seq(Posting) /\ Len(posts) = Len(events)
               /\ \A j \in 1..Len(events) : posts[j] = [line |-> i, event |-> events[j]]
        BY <4>1, <4>2, Stamped DEF events, Posting
      <4> QED
        BY <4>3 DEF events, Postings
    <3>2. seqs \in [1..n -> Seq(Posting)] /\ \A i \in 1..n : seqs[i] = Postings(i)
      BY <3>1
    <3> HIDE DEF seqs
    <3>3. ASSUME NEW i \in 1..n
          PROVE  /\ first[i + 1] = first[i] + Len(seqs[i])
                 /\ \A j \in 1..Len(seqs[i]) : Stream[first[i] + j - 1] = seqs[i][j]
      <4>1. seqs[i] = Postings(i) /\ Len(seqs[i]) = Len(EventsAt(i))
        BY <3>1, <3>2
      <4>2. \A j \in 1..Len(EventsAt(i)) : seqs[i][j] = [line |-> i, event |-> EventsAt(i)[j]]
        BY <3>1, <4>1
      <4> QED
        BY <2>4, <4>1, <4>2
    <3>4. Placed(n, Stream, seqs, first)
      BY <2>4, <3>2, <3>3 DEF Placed
    <3> HIDE DEF n
    <3> QED
      BY <2>1, <2>2, <2>3, <2>6, <3>4, StreamJoined DEF n
  <2> QED
    BY <2>2, <2>5, <2>6
<1> QED
  BY <1>1, TailAlways, EventsAreInPlace, PTL
=============================================================================
