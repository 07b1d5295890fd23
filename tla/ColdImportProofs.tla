-------------------------- MODULE ColdImportProofs --------------------------
(***************************************************************************)
(* For any sessions, conversations, kills and any number of walks side by  *)
(* side: a walk that ends well leaves no transcript of its unrecorded.     *)
(***************************************************************************)
EXTENDS ColdImport, TLAPS

\* A harness runs a conversation.
Runs == \A s \in Key : harness[s].pc # "down" => harness[s].uuid \in UUID

\* A walk is at a transcript from its lookup, or its first statement, on.
AtOne == \A w \in Walker : walk[w].pc \in {"lookup", "insert"} <=> walk[w].id # NoId

\* A chain has a last rollout: nextSequence counts on from it.
HasLast ==
  \A s \in Key : ListRollouts(s) # {} =>
    \E u \in ListRollouts(s) : \A v \in ListRollouts(s) : rollouts[v].seq <= rollouts[u].seq

\* What a walk set out to record is still to do, at hand or recorded.
Covered ==
  \A w \in Walker : \A u \in walk[w].start :
    u \in walk[w].todo \/ u = walk[w].id \/ rollouts[u] # NoRow

WalkInv == TypeOK /\ Runs /\ AtOne /\ HasLast /\ Covered

-----------------------------------------------------------------------------
(* Types.                                                                  *)

\* The next number of a chain is a number.
LEMMA NextNumber ==
  ASSUME TypeOK, HasLast, NEW s \in Key
  PROVE  nextSequence(s) \in Nat
<1> DEFINE Seqs == {rollouts[u].seq : u \in ListRollouts(s)}
<1>1. CASE ListRollouts(s) = {}
  BY <1>1 DEF nextSequence
<1>2. CASE ListRollouts(s) # {}
  <2>1. PICK last \in ListRollouts(s) :
          \A v \in ListRollouts(s) : rollouts[v].seq <= rollouts[last].seq
    BY <1>2 DEF HasLast
  <2>2. \A u \in ListRollouts(s) : rollouts[u].seq \in Nat
    BY DEF ListRollouts, TypeOK, Row
  <2>3. \E n \in Seqs : \A u \in ListRollouts(s) : rollouts[u].seq <= n
    BY <2>1
  <2>4. (CHOOSE n \in Seqs : \A u \in ListRollouts(s) : rollouts[u].seq <= n) \in Seqs
    BY <2>3
  <2>5. (CHOOSE n \in Seqs : \A u \in ListRollouts(s) : rollouts[u].seq <= n) \in Nat
    BY <2>2, <2>4
  <2> QED
    BY <1>2, <2>5 DEF nextSequence
<1> QED
  BY <1>1, <1>2

\* A session is recorded under its key.
LEMMA SessionTypes ==
  ASSUME TypeOK, NEW s, NEW u \in Id, UpsertSession(s, u)
  PROVE  sessions' \in [Key -> Id \cup {NoRow}]
BY DEF TypeOK, UpsertSession

\* A new row is in place.
LEMMA RowTypes ==
  ASSUME TypeOK, NEW u, NEW row \in Row, InsertRollout(u, row)
  PROVE  rollouts' \in [UUID -> Row \cup {NoRow}]
BY DEF TypeOK, InsertRollout

\* A harness goes on, to a conversation if it is up.
LEMMA HarnessTypes ==
  ASSUME TypeOK, Runs, NEW s \in Key, NEW now \in Harness, Harn(s, now),
         now.pc # "down" => now.uuid \in UUID
  PROVE  harness' \in [Key -> Harness] /\ Runs'
BY DEF TypeOK, Runs, Harn

\* A walk goes on, at a transcript or between two.
LEMMA WalkTypes ==
  ASSUME TypeOK, AtOne, NEW w \in Walker, NEW now \in Walk, Walks(w, now),
         now.pc \in {"lookup", "insert"} <=> now.id # NoId
  PROVE  walk' \in [Walker -> Walk] /\ AtOne'
BY DEF TypeOK, AtOne, Walks

\* A conversation no one knows of is a conversation.
LEMMA FreshTypes == Fresh \subseteq UUID
BY DEF Fresh

\* The types after a step of a harness.
LEMMA HarnessStepTypes ==
  ASSUME TypeOK, Runs, HasLast, NEW s \in Key, HarnessStep(s)
  PROVE  TypeOK' /\ Runs'
<1> DEFINE h == harness[s]
<1>1. h \in Harness /\ NoHarness \in Harness /\ known[s] \in Id /\ NoId \in Id /\ UUID \subseteq Id
  BY DEF TypeOK, Harness, NoHarness, Id
<1>2. CASE StartCold(s)
  <2>1. PICK u \in UUID : Harn(s, [NoHarness EXCEPT !.pc = "running", !.uuid = u])
    BY <1>2, FreshTypes DEF StartCold
  <2>2. [NoHarness EXCEPT !.pc = "running", !.uuid = u] \in Harness
    BY <1>1 DEF Harness
  <2>3. harness' \in [Key -> Harness] /\ Runs'
    BY <2>1, <2>2, HarnessTypes DEF NoHarness
  <2>4. sessions' \in [Key -> Id \cup {NoRow}]
    BY <1>2, <1>1, SessionTypes DEF StartCold
  <2> QED
    BY <1>2, <2>3, <2>4 DEF StartCold, TypeOK
<1>3. CASE StartResume(s)
  <2>1. PICK u \in UUID :
          Harn(s, [NoHarness EXCEPT !.pc = "running", !.uuid = u, !.parent = known[s],
                                    !.kind = "resume"])
    BY <1>3, <1>1, FreshTypes DEF StartResume, Id
  <2>2. [NoHarness EXCEPT !.pc = "running", !.uuid = u, !.parent = known[s],
                          !.kind = "resume"] \in Harness
    BY <1>1 DEF Harness
  <2>3. harness' \in [Key -> Harness] /\ Runs'
    BY <2>1, <2>2, HarnessTypes DEF NoHarness
  <2> QED
    BY <1>3, <2>3 DEF StartResume, TypeOK, tables
<1>4. CASE WriteTranscript(s)
  <2>1. h.uuid \in UUID
    BY <1>4 DEF WriteTranscript, Runs
  <2> QED
    BY <1>4, <2>1 DEF WriteTranscript, TypeOK, tables, Runs
<1>5. CASE ReadInit(s)
  <2>1. h.uuid \in UUID
    BY <1>5 DEF ReadInit, Runs
  <2> DEFINE now == [h EXCEPT !.pc = IF h.parent = h.uuid THEN "upsert" ELSE "sequence"]
  <2>2. now \in Harness /\ now.uuid = h.uuid
    BY <1>1 DEF Harness
  <2>3. Harn(s, now)
    BY <1>5 DEF ReadInit
  <2>4. harness' \in [Key -> Harness] /\ Runs'
    BY <2>1, <2>2, <2>3, HarnessTypes
  <2>5. known' \in [Key -> Id]
    BY <1>5, <1>1, <2>1 DEF ReadInit, TypeOK
  <2> QED
    BY <1>5, <2>4, <2>5 DEF ReadInit, TypeOK, tables
<1>6. CASE ReadSequence(s)
  <2>1. h.uuid \in UUID
    BY <1>6 DEF ReadSequence, Runs
  <2> DEFINE now == [h EXCEPT !.seq = nextSequence(s), !.pc = "insert"]
  <2>2. now \in Harness /\ now.uuid = h.uuid
    BY <1>1, NextNumber DEF Harness
  <2>3. Harn(s, now)
    BY <1>6 DEF ReadSequence
  <2>4. harness' \in [Key -> Harness] /\ Runs'
    BY <2>1, <2>2, <2>3, HarnessTypes
  <2> QED
    BY <1>6, <2>4 DEF ReadSequence, TypeOK, tables
<1>7. CASE Insert(s)
  <2>1. h.uuid \in UUID
    BY <1>7 DEF Insert, Runs
  <2> DEFINE now == [h EXCEPT !.pc = "upsert"]
             row == [bridge |-> s, seq |-> h.seq, parent |-> h.parent, kind |-> h.kind]
  <2>2. now \in Harness /\ now.uuid = h.uuid
    BY <1>1 DEF Harness
  <2>3. Harn(s, now)
    BY <1>7 DEF Insert
  <2>4. harness' \in [Key -> Harness] /\ Runs'
    BY <2>1, <2>2, <2>3, HarnessTypes
  <2>5. row \in Row
    BY <1>1 DEF Harness, Row
  <2>6. InsertRollout(h.uuid, row) \/ UNCHANGED rollouts
    BY <1>7 DEF Insert
  <2>7. rollouts' \in [UUID -> Row \cup {NoRow}]
    BY <2>5, <2>6, RowTypes DEF TypeOK
  <2> QED
    BY <1>7, <2>4, <2>7 DEF Insert, TypeOK
<1>8. CASE Upsert(s)
  <2>1. h.uuid \in UUID
    BY <1>8 DEF Upsert, Runs
  <2> DEFINE now == [h EXCEPT !.pc = "recorded"]
  <2>2. now \in Harness /\ now.uuid = h.uuid
    BY <1>1 DEF Harness
  <2>3. Harn(s, now)
    BY <1>8 DEF Upsert
  <2>4. harness' \in [Key -> Harness] /\ Runs'
    BY <2>1, <2>2, <2>3, HarnessTypes
  <2>5. sessions' \in [Key -> Id \cup {NoRow}]
    BY <1>8, <1>1, <2>1, SessionTypes DEF Upsert
  <2> QED
    BY <1>8, <2>4, <2>5 DEF Upsert, TypeOK
<1>9. CASE Stop(s)
  <2>1. harness' \in [Key -> Harness] /\ Runs'
    BY <1>9, <1>1, HarnessTypes DEF Stop, NoHarness
  <2> QED
    BY <1>9, <2>1 DEF Stop, TypeOK, tables
<1> QED
  BY <1>2, <1>3, <1>4, <1>5, <1>6, <1>7, <1>8, <1>9 DEF HarnessStep

\* The types after a step of a walk.
LEMMA WalkStepTypes ==
  ASSUME TypeOK, AtOne, NEW w \in Walker,
         StartDiscover(w) \/ StartChanged(w) \/ WalkStep(w) \/ Killed(w)
  PROVE  TypeOK' /\ AtOne'
<1> DEFINE now == walk[w]
<1>1. /\ now \in Walk /\ NoWalk \in Walk /\ now.todo \subseteq UUID /\ NoWalk.id = NoId
      /\ disk \subseteq UUID /\ now.id \in Id /\ NoId \notin UUID /\ NoWalk.pc = "off"
  BY ImportAssumption DEF TypeOK, Walk, NoWalk, Id
<1>2. CASE StartDiscover(w)
  <2> DEFINE next == [NoWalk EXCEPT !.pc = "walk", !.full = TRUE, !.known = loadKnownHarnessIDs,
                                    !.start = disk, !.todo = disk \ loadKnownHarnessIDs]
  <2>1. loadKnownHarnessIDs \subseteq UUID
    BY DEF loadKnownHarnessIDs, ListRollouts
  <2>2. next \in Walk /\ next.pc = "walk" /\ next.id = NoId
    BY <1>1, <2>1 DEF Walk, NoWalk
  <2>3. walk' \in [Walker -> Walk] /\ AtOne'
    BY <1>2, <2>2, WalkTypes DEF StartDiscover
  <2> QED
    BY <1>2, <2>3 DEF StartDiscover, TypeOK, tables
<1>3. CASE StartChanged(w)
  <2>1. PICK changed \in SUBSET disk :
          Walks(w, [NoWalk EXCEPT !.pc = "walk", !.start = changed, !.todo = changed])
    BY <1>3 DEF StartChanged
  <2>2. [NoWalk EXCEPT !.pc = "walk", !.start = changed, !.todo = changed] \in Walk
    BY <1>1 DEF Walk, NoWalk
  <2>3. walk' \in [Walker -> Walk] /\ AtOne'
    BY <2>1, <2>2, WalkTypes DEF NoWalk
  <2> QED
    BY <1>3, <2>3 DEF StartChanged, TypeOK, tables
<1>4. CASE WalkFile(w)
  <2>1. PICK u \in now.todo \cup (disk \ (now.start \cup now.known)) :
          /\ UpsertSession(u, u)
          /\ Walks(w, [now EXCEPT !.todo = @ \ {u}, !.pc = "insert", !.id = u])
    BY <1>4 DEF WalkFile
  <2>2. u \in UUID
    BY <1>1
  <2>3. [now EXCEPT !.todo = @ \ {u}, !.pc = "insert", !.id = u] \in Walk
    BY <1>1, <2>2 DEF Walk, Id
  <2>4. [now EXCEPT !.todo = @ \ {u}, !.pc = "insert", !.id = u].pc = "insert"
    BY <1>1 DEF Walk
  <2>5. [now EXCEPT !.todo = @ \ {u}, !.pc = "insert", !.id = u].id = u
    BY <1>1 DEF Walk
  <2>6. walk' \in [Walker -> Walk] /\ AtOne'
    BY <1>1, <2>1, <2>2, <2>3, <2>4, <2>5, WalkTypes
  <2>7. sessions' \in [Key -> Id \cup {NoRow}]
    BY <2>1, <2>2, SessionTypes DEF Id
  <2> QED
    BY <1>4, <2>6, <2>7 DEF WalkFile, TypeOK
<1>5. CASE Lookup(w)
  <2>1. PICK u \in now.todo :
          Walks(w, IF rollouts[u] # NoRow THEN [now EXCEPT !.todo = @ \ {u}]
                   ELSE [now EXCEPT !.todo = @ \ {u}, !.pc = "lookup", !.id = u])
    BY <1>5 DEF Lookup
  <2>2. now.pc = "walk" /\ now.id = NoId /\ u \in UUID
    BY <1>1, <1>5 DEF Lookup, AtOne
  <2> DEFINE next == IF rollouts[u] # NoRow THEN [now EXCEPT !.todo = @ \ {u}]
                     ELSE [now EXCEPT !.todo = @ \ {u}, !.pc = "lookup", !.id = u]
  <2>3. next \in Walk
    BY <1>1, <2>2 DEF Walk, Id
  <2>4. next.pc \in {"lookup", "insert"} <=> next.id # NoId
    BY <1>1, <2>2 DEF Walk
  <2>5. walk' \in [Walker -> Walk] /\ AtOne'
    BY <2>1, <2>3, <2>4, WalkTypes
  <2> QED
    BY <1>5, <2>5 DEF Lookup, TypeOK, tables
<1>6. CASE ImportChanged(w)
  <2>1. [now EXCEPT !.pc = "insert"] \in Walk /\ now.id # NoId
    BY <1>1, <1>6 DEF Walk, ImportChanged, AtOne
  <2>2. walk' \in [Walker -> Walk] /\ AtOne'
    BY <1>1, <1>6, <2>1, WalkTypes DEF ImportChanged, Walk
  <2>3. sessions' \in [Key -> Id \cup {NoRow}]
    BY <1>1, <1>6, SessionTypes DEF ImportChanged
  <2> QED
    BY <1>6, <2>2, <2>3 DEF ImportChanged, TypeOK
<1>7. CASE coldImportRollout(w)
  <2>1. now.id \in UUID
    BY <1>1, <1>7 DEF coldImportRollout, AtOne, Id
  <2> DEFINE row  == [bridge |-> now.id, seq |-> 0, parent |-> NoId, kind |-> "start"]
             next == [now EXCEPT !.pc = "walk", !.known = @ \cup {now.id}, !.id = NoId]
  <2>2. next \in Walk /\ next.pc = "walk" /\ next.id = NoId
    BY <1>1, <2>1 DEF Walk, Id
  <2>3. Walks(w, next) \/ Walks(w, NoWalk)
    BY <1>7 DEF coldImportRollout
  <2>4. walk' \in [Walker -> Walk] /\ AtOne'
    BY <1>1, <2>2, <2>3, WalkTypes
  <2>5. row \in Row
    BY <2>1 DEF Row, Key, Id
  <2>6. InsertRollout(now.id, row) \/ UNCHANGED rollouts
    BY <1>7 DEF coldImportRollout
  <2>7. rollouts' \in [UUID -> Row \cup {NoRow}]
    BY <2>5, <2>6, RowTypes DEF TypeOK
  <2> QED
    BY <1>7, <2>4, <2>7 DEF coldImportRollout, TypeOK
<1>8. CASE EndWalk(w)
  <2>1. walk' \in [Walker -> Walk] /\ AtOne'
    BY <1>1, <1>8, WalkTypes DEF EndWalk
  <2>2. known' \in [Key -> Id]
    BY <1>8 DEF EndWalk
  <2> QED
    BY <1>8, <2>1, <2>2 DEF EndWalk, TypeOK, tables
<1>9. CASE Killed(w)
  <2>1. walk' \in [Walker -> Walk] /\ AtOne'
    BY <1>1, <1>9, WalkTypes DEF Killed
  <2>2. kills' \in 0..MaxKills
    BY <1>9, ImportAssumption DEF Killed, TypeOK
  <2> QED
    BY <1>9, <2>1, <2>2 DEF Killed, TypeOK, tables
<1> QED
  BY <1>2, <1>3, <1>4, <1>5, <1>6, <1>7, <1>8, <1>9 DEF WalkStep

\* What the terminal writes is a transcript.
LEMMA OutsideTypes ==
  ASSUME TypeOK, Runs, AtOne, NEW u \in UUID, RunOutside(u)
  PROVE  TypeOK' /\ Runs' /\ AtOne'
<1>1. TypeOK'
  BY DEF TypeOK, RunOutside, tables
<1>2. Runs' /\ AtOne'
  BY DEF Runs, AtOne, RunOutside
<1> QED
  BY <1>1, <1>2

-----------------------------------------------------------------------------
(* Rows.                                                                   *)

\* A step adds one row at most.
LEMMA RowAdded ==
  ASSUME TypeOK, Runs, AtOne, [Next]_vars
  PROVE  \/ UNCHANGED rollouts
         \/ \E u \in UUID, row \in Row : InsertRollout(u, row)
<1>1. CASE \E s \in Key : Insert(s)
  <2>1. PICK s \in Key : Insert(s)
    BY <1>1
  <2> DEFINE h   == harness[s]
             row == [bridge |-> s, seq |-> h.seq, parent |-> h.parent, kind |-> h.kind]
  <2>2. row \in Row
    BY DEF TypeOK, Harness, Row
  <2>3. h.uuid \in UUID
    BY <2>1 DEF Insert, Runs
  <2> QED
    BY <2>1, <2>2, <2>3 DEF Insert
<1>2. CASE \E w \in Walker : coldImportRollout(w)
  <2>1. PICK w \in Walker : coldImportRollout(w)
    BY <1>2
  <2> DEFINE row == [bridge |-> walk[w].id, seq |-> 0, parent |-> NoId, kind |-> "start"]
  <2>2. walk[w].id \in UUID
    BY <2>1 DEF coldImportRollout, AtOne, TypeOK, Walk, Id
  <2>3. row \in Row
    BY <2>2 DEF Row, Key, Id
  <2> QED
    BY <2>1, <2>2, <2>3 DEF coldImportRollout
<1>3. CASE \E s \in Key : HarnessStep(s) /\ ~Insert(s)
  BY <1>3 DEF HarnessStep, StartCold, StartResume, WriteTranscript, ReadInit, ReadSequence,
              Upsert, Stop, tables
<1>4. CASE \E u \in UUID : RunOutside(u)
  BY <1>4 DEF RunOutside, tables
<1>5. CASE \E w \in Walker : \/ StartDiscover(w) \/ StartChanged(w) \/ Killed(w)
                             \/ (WalkStep(w) /\ ~coldImportRollout(w))
  BY <1>5 DEF StartDiscover, StartChanged, Killed, WalkStep, WalkFile, Lookup, ImportChanged,
              EndWalk, tables
<1>6. CASE UNCHANGED vars
  BY <1>6 DEF vars, tables
<1> QED
  BY <1>1, <1>2, <1>3, <1>4, <1>5, <1>6 DEF Next

\* ... and joins one chain.
LEMMA ChainGrows ==
  ASSUME TypeOK, NEW u \in UUID, NEW row \in Row, InsertRollout(u, row)
  PROVE  /\ rollouts[u] = NoRow /\ rollouts'[u] = row /\ row # NoRow
         /\ \A v \in UUID : v # u => rollouts'[v] = rollouts[v]
         /\ row.bridge \in Key /\ u \notin ListRollouts(row.bridge)
         /\ ListRollouts(row.bridge)' = ListRollouts(row.bridge) \cup {u}
         /\ \A s \in Key : s # row.bridge => ListRollouts(s)' = ListRollouts(s)
<1>1. row # NoRow /\ row.bridge \in Key
  BY ImportAssumption DEF Row, Key, Id
<1>2. rollouts[u] = NoRow /\ rollouts' = [rollouts EXCEPT ![u] = row]
  BY DEF InsertRollout
<1>3. rollouts'[u] = row /\ \A v \in UUID : v # u => rollouts'[v] = rollouts[v]
  BY <1>2 DEF TypeOK
<1> QED
  BY <1>1, <1>2, <1>3 DEF ListRollouts

\* No row is removed or changed.
LEMMA RowsStay ==
  ASSUME TypeOK, Runs, AtOne, [Next]_vars, NEW u \in UUID, rollouts[u] # NoRow
  PROVE  rollouts'[u] = rollouts[u]
<1>1. CASE UNCHANGED rollouts
  BY <1>1
<1>2. CASE \E v \in UUID, row \in Row : InsertRollout(v, row)
  BY <1>2, ChainGrows
<1> QED
  BY <1>1, <1>2, RowAdded

\* Of the old last rollout and the new one, one is the last.
LEMMA HasLastKept ==
  ASSUME TypeOK, Runs, AtOne, HasLast, [Next]_vars
  PROVE  HasLast'
<1>1. CASE UNCHANGED rollouts
  BY <1>1 DEF HasLast, ListRollouts
<1>2. ASSUME NEW u \in UUID, NEW row \in Row, InsertRollout(u, row)
      PROVE  HasLast'
  <2>1. ASSUME NEW s \in Key, s # row.bridge, ListRollouts(s)' # {}
        PROVE  \E l \in ListRollouts(s)' :
                 \A v \in ListRollouts(s)' : rollouts'[v].seq <= rollouts'[l].seq
    <3>1. ListRollouts(s)' = ListRollouts(s) /\ u \notin ListRollouts(s)
      BY <1>2, <2>1, ChainGrows DEF ListRollouts
    <3>2. \A v \in ListRollouts(s) : rollouts'[v] = rollouts[v]
      BY <1>2, <3>1, ChainGrows DEF ListRollouts
    <3> QED
      BY <2>1, <3>1, <3>2 DEF HasLast
  <2>2. \E l \in ListRollouts(row.bridge)' :
          \A v \in ListRollouts(row.bridge)' : rollouts'[v].seq <= rollouts'[l].seq
    <3> DEFINE old == ListRollouts(row.bridge)
    <3>1. ListRollouts(row.bridge)' = old \cup {u} /\ u \notin old /\ row.bridge \in Key
      BY <1>2, ChainGrows
    <3>2. \A v \in old : rollouts'[v] = rollouts[v] /\ rollouts[v].seq \in Nat
      BY <1>2, <3>1, ChainGrows DEF ListRollouts, TypeOK, Row
    <3>3. rollouts'[u].seq \in Nat
      BY <1>2, ChainGrows DEF Row
    <3>4. CASE old = {}
      BY <3>1, <3>3, <3>4
    <3>5. CASE old # {}
      <4>1. PICK l \in old : \A v \in old : rollouts[v].seq <= rollouts[l].seq
        BY <3>1, <3>5 DEF HasLast
      <4>2. CASE rollouts'[u].seq <= rollouts[l].seq
        BY <3>1, <3>2, <3>3, <4>1, <4>2
      <4>3. CASE rollouts[l].seq <= rollouts'[u].seq
        BY <3>1, <3>2, <3>3, <4>1, <4>3
      <4> QED
        BY <3>2, <3>3, <4>1, <4>2, <4>3
    <3> QED
      BY <3>4, <3>5
  <2> QED
    BY <2>1, <2>2 DEF HasLast
<1> QED
  BY <1>1, <1>2, RowAdded

-----------------------------------------------------------------------------
(* Every transcript a walk set out to record.                              *)

\* The others' walks are as they were.
LEMMA OtherWalks ==
  ASSUME TypeOK, NEW w \in Walker, NEW now, Walks(w, now)
  PROVE  walk'[w] = now /\ \A v \in Walker : v # w => walk'[v] = walk[v]
BY DEF TypeOK, Walks

\* A step of a walk keeps track of what it set out to record.
LEMMA WalkCovers ==
  ASSUME WalkInv, NEW w \in Walker,
         StartDiscover(w) \/ StartChanged(w) \/ WalkStep(w) \/ Killed(w),
         NEW u \in walk'[w].start
  PROVE  u \in walk'[w].todo \/ u = walk'[w].id \/ rollouts'[u] # NoRow
<1> DEFINE now == walk[w]
<1> USE DEF WalkInv
<1>1. /\ now \in Walk /\ NoWalk.start = {} /\ now.start \subseteq UUID /\ disk \subseteq UUID
      /\ NoWalk \in Walk
  BY DEF TypeOK, Walk, NoWalk, Id
<1>2. CASE StartDiscover(w)
  <2>1. walk'[w].start = disk /\ walk'[w].todo = disk \ loadKnownHarnessIDs
    <3> DEFINE next == [NoWalk EXCEPT !.pc = "walk", !.full = TRUE,
                          !.known = loadKnownHarnessIDs,
                          !.start = disk, !.todo = disk \ loadKnownHarnessIDs]
    <3>1. next.start = disk /\ next.todo = disk \ loadKnownHarnessIDs
      BY DEF NoWalk
    <3>2. Walks(w, next)
      BY <1>2 DEF StartDiscover
    <3>3. walk'[w] = next
      BY <3>2, OtherWalks
    <3> QED
      BY <3>1, <3>3
  <2>2. \A v \in loadKnownHarnessIDs : rollouts[v] # NoRow
    BY DEF loadKnownHarnessIDs, ListRollouts
  <2> QED
    BY <1>2, <2>1, <2>2 DEF StartDiscover, tables
<1>3. CASE StartChanged(w)
  <2>1. PICK changed \in SUBSET disk :
          Walks(w, [NoWalk EXCEPT !.pc = "walk", !.start = changed, !.todo = changed])
    BY <1>3 DEF StartChanged
  <2>2. walk'[w] = [NoWalk EXCEPT !.pc = "walk", !.start = changed, !.todo = changed]
    BY <2>1, OtherWalks
  <2>3. walk'[w].start = changed /\ walk'[w].todo = changed
    BY <2>2 DEF NoWalk
  <2> QED
    BY <2>3
<1>4. CASE WalkFile(w)
  <2>1. PICK v : Walks(w, [now EXCEPT !.todo = @ \ {v}, !.pc = "insert", !.id = v])
    BY <1>4 DEF WalkFile
  <2>2. /\ walk'[w].start = now.start /\ walk'[w].todo = now.todo \ {v}
        /\ walk'[w].id = v
    <3>1. walk'[w] = [now EXCEPT !.todo = @ \ {v}, !.pc = "insert", !.id = v]
      BY <2>1, OtherWalks
    <3> QED
      BY <1>1, <3>1 DEF Walk
  <2>3. now.id = NoId /\ u # NoId
    BY <1>1, <1>4, <2>2, ImportAssumption DEF WalkFile, AtOne
  <2> QED
    BY <1>4, <2>2, <2>3 DEF WalkFile, Covered
<1>5. CASE Lookup(w)
  <2>1. PICK v \in now.todo :
          Walks(w, IF rollouts[v] # NoRow THEN [now EXCEPT !.todo = @ \ {v}]
                   ELSE [now EXCEPT !.todo = @ \ {v}, !.pc = "lookup", !.id = v])
    BY <1>5 DEF Lookup
  <2>2. now.id = NoId /\ NoId \notin UUID
    BY <1>5, ImportAssumption DEF Lookup, AtOne
  <2>3. /\ walk'[w].start = now.start /\ walk'[w].todo = now.todo \ {v}
        /\ rollouts[v] # NoRow \/ walk'[w].id = v
    <3>1. walk'[w] = IF rollouts[v] # NoRow THEN [now EXCEPT !.todo = @ \ {v}]
                     ELSE [now EXCEPT !.todo = @ \ {v}, !.pc = "lookup", !.id = v]
      BY <2>1, OtherWalks
    <3> QED
      BY <1>1, <3>1 DEF Walk
  <2> QED
    BY <1>1, <1>5, <2>2, <2>3 DEF Lookup, Covered, tables
<1>6. CASE ImportChanged(w)
  <2>1. /\ walk'[w].start = now.start /\ walk'[w].todo = now.todo
        /\ walk'[w].id = now.id
    BY <1>1, <1>6, OtherWalks DEF ImportChanged, Walk
  <2> QED
    BY <1>6, <2>1 DEF ImportChanged, Covered
<1>7. CASE coldImportRollout(w)
  <2>1. now.id \in UUID
    BY <1>7 DEF coldImportRollout, AtOne, TypeOK, Walk, Id
  <2> DEFINE row  == [bridge |-> now.id, seq |-> 0, parent |-> NoId, kind |-> "start"]
             next == [now EXCEPT !.pc = "walk", !.known = @ \cup {now.id}, !.id = NoId]
  <2>2. row \in Row
    BY <2>1 DEF Row, Key, Id
  <2>3. CASE InsertRollout(now.id, row) /\ Walks(w, next)
    <3>1. walk'[w].start = now.start /\ walk'[w].todo = now.todo
      <4>1. walk'[w] = next
        BY <2>3, OtherWalks
      <4> QED
        BY <1>1, <4>1 DEF Walk
    <3>2. rollouts'[now.id] # NoRow /\ \A v \in UUID : rollouts[v] # NoRow => rollouts'[v] # NoRow
      BY <2>1, <2>2, <2>3, ChainGrows
    <3> QED
      BY <1>1, <3>1, <3>2 DEF Covered
  <2>4. CASE Walks(w, NoWalk)
    BY <1>1, <2>4, OtherWalks
  <2> QED
    BY <1>7, <2>3, <2>4 DEF coldImportRollout
<1>8. CASE EndWalk(w) \/ Killed(w)
  BY <1>1, <1>8, OtherWalks DEF EndWalk, Killed
<1> QED
  BY <1>2, <1>3, <1>4, <1>5, <1>6, <1>7, <1>8 DEF WalkStep

\* What the others record only helps.
LEMMA CoveredKept ==
  ASSUME WalkInv, [Next]_vars
  PROVE  Covered'
<1> SUFFICES ASSUME NEW w \in Walker, NEW u \in walk'[w].start
             PROVE  u \in walk'[w].todo \/ u = walk'[w].id \/ rollouts'[u] # NoRow
  BY DEF Covered
<1> USE DEF WalkInv
<1>1. CASE StartDiscover(w) \/ StartChanged(w) \/ WalkStep(w) \/ Killed(w)
  BY <1>1, WalkCovers
<1>2. CASE walk'[w] = walk[w]
  <2>1. u \in UUID
    BY <1>2 DEF TypeOK, Walk
  <2> QED
    BY <1>2, <2>1, RowsStay DEF Covered
<1>3. ASSUME NEW v \in Walker, v # w,
             StartDiscover(v) \/ StartChanged(v) \/ WalkStep(v) \/ Killed(v)
      PROVE  walk'[w] = walk[w]
  <2>1. \E now : Walks(v, now)
    BY <1>3 DEF StartDiscover, StartChanged, WalkStep, Killed, WalkFile, Lookup, ImportChanged,
                coldImportRollout, EndWalk
  <2> QED
    BY <1>3, <2>1, OtherWalks
<1>4. CASE \E s \in Key : HarnessStep(s)
  BY <1>2, <1>4 DEF HarnessStep, StartCold, StartResume, WriteTranscript, ReadInit, ReadSequence,
                    Insert, Upsert, Stop
<1>5. CASE \E v \in UUID : RunOutside(v)
  BY <1>2, <1>5 DEF RunOutside
<1>6. CASE UNCHANGED vars
  BY <1>2, <1>6 DEF vars
<1> QED
  BY <1>1, <1>2, <1>3, <1>4, <1>5, <1>6 DEF Next

\* From the start on, and by every step.
LEMMA WalkAlways == Spec => []WalkInv
<1>1. Init => WalkInv
  <2> SUFFICES ASSUME Init PROVE WalkInv
    OBVIOUS
  <2>1. NoHarness \in Harness /\ NoHarness.pc = "down"
    BY DEF NoHarness, Harness, Id
  <2>2. NoWalk \in Walk /\ NoWalk.pc = "off" /\ NoWalk.id = NoId /\ NoWalk.start = {}
    BY DEF NoWalk, Walk, Id
  <2>3. TypeOK
    BY <2>1, <2>2, ImportAssumption DEF Init, TypeOK, Id
  <2>4. Runs /\ AtOne /\ Covered
    BY <2>1, <2>2 DEF Init, Runs, AtOne, Covered
  <2>5. HasLast
    BY DEF Init, HasLast, ListRollouts
  <2> QED
    BY <2>3, <2>4, <2>5 DEF WalkInv
<1>2. WalkInv /\ [Next]_vars => WalkInv'
  <2> SUFFICES ASSUME WalkInv, [Next]_vars PROVE WalkInv'
    OBVIOUS
  <2>1. TypeOK /\ Runs /\ AtOne /\ HasLast
    BY DEF WalkInv
  <2>2. CASE \E s \in Key : HarnessStep(s)
    <3>1. TypeOK' /\ Runs'
      BY <2>1, <2>2, HarnessStepTypes
    <3>2. UNCHANGED walk
      BY <2>2 DEF HarnessStep, StartCold, StartResume, WriteTranscript, ReadInit, ReadSequence,
                  Insert, Upsert, Stop
    <3>3. AtOne'
      BY <2>1, <3>2 DEF AtOne
    <3> QED
      BY <2>1, <3>1, <3>3, HasLastKept, CoveredKept DEF WalkInv
  <2>3. CASE \E u \in UUID : RunOutside(u)
    BY <2>1, <2>3, OutsideTypes, HasLastKept, CoveredKept DEF WalkInv
  <2>4. CASE \E w \in Walker : StartDiscover(w) \/ StartChanged(w) \/ WalkStep(w) \/ Killed(w)
    <3>1. TypeOK' /\ AtOne'
      BY <2>1, <2>4, WalkStepTypes
    <3>2. UNCHANGED harness
      BY <2>4 DEF StartDiscover, StartChanged, WalkStep, Killed, WalkFile, Lookup, ImportChanged,
                  coldImportRollout, EndWalk
    <3>3. Runs'
      BY <2>1, <3>2 DEF Runs
    <3> QED
      BY <2>1, <3>1, <3>3, HasLastKept, CoveredKept DEF WalkInv
  <2>5. CASE UNCHANGED vars
    <3>1. TypeOK' /\ Runs' /\ AtOne'
      BY <2>1, <2>5 DEF vars, tables, TypeOK, Runs, AtOne
    <3> QED
      BY <2>1, <3>1, HasLastKept, CoveredKept DEF WalkInv
  <2> QED
    BY <2>2, <2>3, <2>4, <2>5 DEF Next
<1> QED
  BY <1>1, <1>2, PTL DEF Spec

\* Every variable stays in its type.  That a next number exists rests on each
\* chain having a last rollout.
THEOREM ImportTypes == Spec => []TypeOK
<1>1. WalkInv => TypeOK
  BY DEF WalkInv
<1> QED
  BY <1>1, WalkAlways, PTL

\* A walk that ends without an error leaves a rollout for every transcript it set
\* out to record (discoverSessions, discoverSessionsChangedSince), however many
\* walks run at once and whatever killed ones left behind.
THEOREM WalksRecordAll == Spec => WalkComplete
<1>1. ASSUME WalkInv, [Next]_vars, NEW w \in Walker, EndWalk(w), NEW u \in walk[w].start
      PROVE  rollouts[u] # NoRow
  <2>1. walk[w].pc = "walk" /\ walk[w].todo = {}
    BY <1>1 DEF EndWalk
  <2>2. walk[w].id = NoId /\ u # NoId
    BY <1>1, <2>1, ImportAssumption DEF WalkInv, AtOne, TypeOK, Walk
  <2> QED
    BY <1>1, <2>1, <2>2 DEF WalkInv, Covered
<1>2. WalkInv /\ [Next]_vars =>
        [\A w \in Walker : EndWalk(w) => \A u \in walk[w].start : rollouts[u] # NoRow]_vars
  BY <1>1
<1> QED
  BY <1>2, WalkAlways, PTL DEF Spec, WalkComplete
=============================================================================
