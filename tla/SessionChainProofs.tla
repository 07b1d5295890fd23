------------------------- MODULE SessionChainProofs -------------------------
(***************************************************************************)
(* Proofs about SessionChain, for every set of sessions, UUIDs and process *)
(* slots and every bound on the wal table.                                 *)
(***************************************************************************)
EXTENDS SessionChain, TLAPS, WellFoundedInduction

-----------------------------------------------------------------------------
(* nextSequence is a natural number: the sequences of a chain are bounded, *)
(* and a bounded, nonempty set of naturals has a largest element.          *)

Less == OpToRel(<, Nat)

\* The pairs of the well-founded order on naturals, which the library states as a set.
LEMMA LessDef == \A a, b \in Nat : <<a, b>> \in Less <=> a < b
BY Zenon DEF Less, OpToRel

\* A non-empty set of naturals that is bounded has a greatest member.
LEMMA BoundedMax ==
  ASSUME NEW S, S \subseteq Nat, S # {}, NEW b \in Nat, \A n \in S : n <= b
  PROVE  \E m \in S : \A n \in S : n <= m
<1> DEFINE U == {x \in Nat : \A n \in S : n <= x}
<1>1. U \subseteq Nat /\ U # {}
  OBVIOUS
<1>2. PICK x \in U : \A y \in U : ~(<<y, x>> \in Less)
  <2>1. IsWellFoundedOn(Less, Nat)
    BY NatLessThanWellFounded DEF Less
  <2> HIDE DEF U
  <2> QED BY <1>1, <2>1, WFMin
<1>3. \A y \in U : ~(y < x)
  BY <1>1, <1>2, LessDef
<1>4. x \in S
  <2>1. SUFFICES ASSUME x \notin S PROVE FALSE
    OBVIOUS
  <2>2. \A n \in S : n < x
    BY <2>1
  <2>3. x \in Nat /\ x > 0
    <3>1. PICK n \in S : TRUE
      OBVIOUS
    <3>2. n \in Nat /\ n < x /\ x \in Nat
      BY <2>2
    <3> QED BY <3>2
  <2>4. x - 1 \in U
    BY <2>2, <2>3
  <2> QED BY <2>3, <2>4, <1>3
<1> QED BY <1>4

\* The sequences in the rollouts table and in the hands of readers are bounded.
SeqBounded ==
  \E b \in Nat :
    /\ \A u \in UUID : rollouts[u] # NoRow => rollouts[u].seq <= b
    /\ \A s \in Session, k \in Slot : reader[s][k].seq <= b

\* nextSequence is a natural number, at most one above any bound of the recorded
\* sequence numbers: the CHOOSE of the last rollout is well defined.
LEMMA NextSequence ==
  ASSUME TypeOK, NEW b \in Nat, NEW s \in Session,
         \A u \in UUID : rollouts[u] # NoRow => rollouts[u].seq <= b
  PROVE  nextSequence(s) \in Nat /\ nextSequence(s) <= b + 1
<1> DEFINE S == {rollouts[u].seq : u \in Chain(s)}
<1>1. CASE Chain(s) = {}
  BY <1>1 DEF nextSequence
<1>2. CASE Chain(s) # {}
  <2> \A u \in Chain(s) : rollouts[u].seq \in Nat /\ rollouts[u].seq <= b
    <3>1. \A u \in Chain(s) : u \in UUID /\ rollouts[u] # NoRow
      BY DEF Chain
    <3>2. \A u \in Chain(s) : rollouts[u] \in RolloutRow
      BY <3>1 DEF TypeOK
    <3> QED BY <3>1, <3>2 DEF RolloutRow
  <2>1. S \subseteq Nat /\ S # {} /\ \A n \in S : n <= b
    BY <1>2
  <2>2. \E m \in S : \A n \in S : n <= m
    <3> HIDE DEF S
    <3> QED BY <2>1, BoundedMax
  <2>3. \E m \in S : \A u \in Chain(s) : rollouts[u].seq <= m
    BY <2>2
  <2> DEFINE m == CHOOSE m \in S : \A u \in Chain(s) : rollouts[u].seq <= m
  <2>4. m \in S
    BY <2>3
  <2>5. nextSequence(s) = 1 + m
    BY <1>2 DEF nextSequence
  <2>6. m \in Nat /\ m <= b
    BY <2>1, <2>4
  <2> HIDE DEF m
  <2> QED BY <2>5, <2>6
<1> QED BY <1>1, <1>2

-----------------------------------------------------------------------------
(* Type correctness.  It needs to know what a reader in the middle of a    *)
(* recording holds: a UUID, and an intent that is not empty.               *)

Shape(r) ==
  /\ r.pc \notin {"none", "orphan"} => r.uuid \in UUID
  /\ r.pc \in {"sequence", "commit", "insert", "upsert"} => r.intent \in Kind
  /\ r.pc = "commit" => r.intent # "resume"

ReaderShape == \A s \in Session, k \in Slot : Shape(reader[s][k])

\* The bound on the wal table is a number.
LEMMA Bound == MaxRows \in Nat
BY ChainAssumption

\* The empty id is an id, and so is a UUID.
LEMMA Ids == NoId \in Id /\ UUID \subseteq Id
BY DEF Id

\* Zero stands for no wal row; any other number in range is the id of one.
LEMMA WalIds == 0 \in 0..MaxRows /\ \A i \in 0..MaxRows : {i} \ {0} \subseteq WalId
BY Bound DEF WalId

\* A resume is staged without a wal row.
LEMMA ResumeType ==
  ASSUME NEW u \in Id
  PROVE  [wal |-> 0, intent |-> "resume", parent |-> u] \in PendType
BY WalIds DEF PendType, Kind

\* The cleared pending fields are of the type of the pending fields.
LEMMA NullTypes == NoPend \in PendType
BY Bound DEF NoPend, PendType, Id

\* What the store's statements and the readers' assignments do to the types.
LEMMA OrphanType ==
  ASSUME TypeOK, NEW i, OrphanWAL(i) \/ wal' = wal
  PROVE  wal' \in [WalId -> WALRow \cup {FreeRow}]
<1>1. CASE OrphanWAL(i) /\ i \in WalId /\ wal[i].status = "pending"
  <2>1. wal[i] \in WALRow
    <3>1. wal[i] \in WALRow \cup {FreeRow}
      BY <1>1 DEF TypeOK
    <3>2. FreeRow.status = "free"
      BY DEF FreeRow
    <3> QED BY <1>1, <3>1, <3>2
  <2>2. [wal[i] EXCEPT !.status = "orphaned"] \in WALRow
    BY <2>1 DEF WALRow
  <2> QED BY <1>1, <2>2 DEF TypeOK, OrphanWAL
<1>2. CASE OrphanWAL(i) /\ ~(i \in WalId /\ wal[i].status = "pending")
  BY <1>2 DEF TypeOK, OrphanWAL
<1> QED BY <1>1, <1>2 DEF TypeOK

\* CommitWAL leaves the wal table well typed.
LEMMA CommitType ==
  ASSUME TypeOK, NEW i, NEW u \in UUID, CommitWAL(i, u)
  PROVE  wal' \in [WalId -> WALRow \cup {FreeRow}]
<1>1. CASE i \in WalId
  <2>1. wal[i] \in WALRow
    <3>1. wal[i] \in WALRow \cup {FreeRow}
      BY <1>1 DEF TypeOK
    <3>2. FreeRow.status = "free"
      BY DEF FreeRow
    <3> QED BY <3>1, <3>2 DEF CommitWAL
  <2>2. [wal[i] EXCEPT !.status = "committed", !.newId = u] \in WALRow
    BY <2>1 DEF WALRow, Id
  <2> QED BY <1>1, <2>2 DEF TypeOK, CommitWAL
<1>2. CASE i \notin WalId
  BY <1>2 DEF TypeOK, CommitWAL
<1> QED BY <1>1, <1>2

\* InsertWAL leaves the wal table well typed, and so is what is staged with it.
LEMMA InsertType ==
  ASSUME TypeOK, NEW s \in Session, NEW kind \in {"start", "fork"}, NEW p \in Id,
         walRows < MaxRows, InsertWAL(s, kind, p)
  PROVE  /\ wal' \in [WalId -> WALRow \cup {FreeRow}]
         /\ walRows' \in 0..MaxRows
         /\ walRows + 1 \in WalId
         /\ [wal |-> walRows + 1, intent |-> kind, parent |-> p] \in PendType
<1>1. [status |-> "pending", bridge |-> s, intent |-> kind, parent |-> p, newId |-> NoId]
        \in WALRow
  BY DEF WALRow, Id
<1>2. walRows + 1 \in WalId
  BY Bound DEF TypeOK, WalId
<1>3. wal' \in [WalId -> WALRow \cup {FreeRow}]
  BY <1>1, <1>2 DEF TypeOK, InsertWAL
<1>4. walRows' \in 0..MaxRows
  <2>1. walRows' = walRows + 1
    BY DEF InsertWAL
  <2> QED BY <1>2, <2>1 DEF WalId
<1>5. [wal |-> walRows + 1, intent |-> kind, parent |-> p] \in PendType
  <2>1. walRows + 1 \in 0..MaxRows
    BY <1>2, Bound DEF WalId
  <2>2. kind \in Kind \cup {""}
    BY DEF Kind
  <2> QED BY <2>1, <2>2 DEF PendType
<1> QED BY <1>2, <1>3, <1>4, <1>5

\* Replacing one reader by a well-typed one keeps the readers well typed.
LEMMA ReaderType ==
  ASSUME TypeOK, NEW s \in Session, NEW k \in Slot, NEW r \in Reader,
         reader' = [reader EXCEPT ![s][k] = r]
  PROVE  reader' \in [Session -> [Slot -> Reader]]
BY DEF TypeOK

\* The states a reader takes between recordings are well typed.
LEMMA ReaderAtType ==
  ASSUME NEW u \in Id, NEW i \in 0..MaxRows, NEW c \in {"none", "read", "orphan"}
  PROVE  ReaderAt(c, u, i) \in Reader
BY DEF ReaderAt, Reader, Id

\* So is the reader of a slot nobody uses.
LEMMA NoReaderType == NoReader \in Reader
<1>1. 0 \in 0..MaxRows /\ NoId \in Id
  BY Bound DEF Id
<1> QED BY <1>1, ReaderAtType DEF NoReader

\* Every step of the store and the harnesses preserves TypeOK.
LEMMA TypeStep ==
  ASSUME TypeOK, ReaderShape, SeqBounded, Next
  PROVE  TypeOK'
<1> USE DEF TypeOK, store, memory, vars
<1>1. ASSUME NEW s \in Session, Boot(s) PROVE TypeOK'
  BY <1>1 DEF Boot, Pending
<1>2. ASSUME NEW s \in Session, recoverOrphansOnBoot(s) PROVE TypeOK'
  <2>1. wal' \in [WalId -> WALRow \cup {FreeRow}]
    BY <1>2, OrphanType DEF recoverOrphansOnBoot
  <2> QED BY <1>2, <2>1 DEF recoverOrphansOnBoot
<1>3. ASSUME NEW s \in Session, BootDone(s) PROVE TypeOK'
  BY <1>3 DEF BootDone
<1>4. ASSUME NEW s \in Session, StartCold(s) PROVE TypeOK'
  BY <1>4 DEF StartCold, UpsertSession, Id
<1>5. ASSUME NEW s \in Session, StageCold(s) PROVE TypeOK'
  <2>1. CASE /\ walRows < MaxRows /\ InsertWAL(s, "start", NoId)
             /\ Stage(s, [wal |-> walRows + 1, intent |-> "start", parent |-> NoId], NoId)
    <3>1. /\ wal' \in [WalId -> WALRow \cup {FreeRow}] /\ walRows' \in 0..MaxRows
          /\ [wal |-> walRows + 1, intent |-> "start", parent |-> NoId] \in PendType
      BY <2>1, InsertType, Ids
    <3> QED BY <1>5, <2>1, <3>1, Ids DEF StageCold, Stage
  <2>2. CASE UNCHANGED <<wal, walRows, pend, base>> /\ pc' = [pc EXCEPT ![s] = "idle"]
    BY <1>5, <2>2 DEF StageCold
  <2> QED BY <1>5, <2>1, <2>2 DEF StageCold
<1>6. ASSUME NEW s \in Session, NEW u \in UUID, StartFork(s, u) PROVE TypeOK'
  <2>1. CASE /\ walRows < MaxRows /\ InsertWAL(s, "fork", u)
             /\ Stage(s, [wal |-> walRows + 1, intent |-> "fork", parent |-> u], NoId)
    <3>1. /\ wal' \in [WalId -> WALRow \cup {FreeRow}] /\ walRows' \in 0..MaxRows
          /\ [wal |-> walRows + 1, intent |-> "fork", parent |-> u] \in PendType
      BY <2>1, InsertType, Ids
    <3> QED BY <1>6, <2>1, <3>1, Ids DEF StartFork, Stage
  <2>2. CASE UNCHANGED <<wal, walRows, pend, base>> /\ pc' = [pc EXCEPT ![s] = "idle"]
    BY <1>6, <2>2, Ids DEF StartFork
  <2> QED BY <1>6, <2>1, <2>2 DEF StartFork
<1>7. ASSUME NEW s \in Session, NEW u \in Id, Resume(s, u) PROVE TypeOK'
  <2>1. [wal |-> 0, intent |-> "resume", parent |-> u] \in PendType
    BY ResumeType
  <2> QED BY <1>7, <2>1 DEF Resume, Stage
<1>8. ASSUME NEW s \in Session, Spawn(s) PROVE TypeOK'
  <2>1. PICK k \in Slot, u \in Fresh \cup ({base[s]} \ {NoId}) :
          /\ child' = [child EXCEPT ![s][k] = "running"]
          /\ reader' = [reader EXCEPT ![s][k] = ReaderAt("read", u, 0)]
          /\ cur' = [cur EXCEPT ![s] = k]
    BY <1>8 DEF Spawn
  <2>2. ReaderAt("read", u, 0) \in Reader
    <3>1. u \in Id /\ 0 \in 0..MaxRows
      BY Bound DEF Fresh, Id
    <3> QED BY <3>1, ReaderAtType
  <2>3. reader' \in [Session -> [Slot -> Reader]]
    BY <2>1, <2>2, ReaderType
  <2> QED BY <1>8, <2>1, <2>3 DEF Spawn, Id
<1>9. ASSUME NEW s \in Session, ReceiverFails(s) PROVE TypeOK'
  BY <1>9 DEF ReceiverFails, Id
<1>10. ASSUME NEW s \in Session, SpawnFails(s) PROVE TypeOK'
  <2>1. {pend[s].wal} \ {0} \subseteq WalId
    <3>1. pend[s].wal \in 0..MaxRows
      BY DEF PendType
    <3> QED BY <3>1, WalIds
  <2> QED BY <1>10, <2>1, NullTypes DEF SpawnFails, ClearPending, Id
<1>11. ASSUME NEW s \in Session, Unstage(s) PROVE TypeOK'
  <2>1. wal' \in [WalId -> WALRow \cup {FreeRow}]
    BY <1>11, OrphanType DEF Unstage
  <2> QED BY <1>11, <2>1 DEF Unstage
<1>12. ASSUME NEW s \in Session, Crash(s) PROVE TypeOK'
  BY <1>12, NullTypes, NoReaderType, Ids DEF Crash
<1>13. ASSUME NEW s \in Session, NEW k \in Slot, StdoutEnds(s, k) \/ ProcessExits(s, k)
       PROVE TypeOK'
  <2>1. CASE StdoutEnds(s, k)
    BY <2>1 DEF StdoutEnds
  <2>2. CASE ProcessExits(s, k)
    BY <2>2 DEF ProcessExits
  <2> QED BY <1>13, <2>1, <2>2
<1>14. ASSUME NEW s \in Session, NEW k \in Slot, readInit(s, k) PROVE TypeOK'
  <2> DEFINE r == reader[s][k]
  <2>1. r \in Reader /\ pend[s] \in PendType
    OBVIOUS
  <2>2. \A n \in {"sequence", "upsert"} :
          [r EXCEPT !.pc = n, !.wal = pend[s].wal, !.intent = pend[s].intent,
                    !.parent = pend[s].parent] \in Reader
    BY <2>1 DEF Reader, PendType
  <2>3. \E q \in Reader : reader' = [reader EXCEPT ![s][k] = q]
    BY <1>14, <2>1, <2>2 DEF readInit
  <2>4. reader' \in [Session -> [Slot -> Reader]]
    BY <2>3, ReaderType
  <2>5. r.uuid \in Id
    BY <2>1 DEF Reader
  <2> QED BY <1>14, <2>4, <2>5, NullTypes DEF readInit, ClearPending
<1>15. ASSUME NEW s \in Session, NEW k \in Slot, readSequence(s, k) PROVE TypeOK'
  <2>1. nextSequence(s) \in Nat
    BY NextSequence DEF SeqBounded
  <2>2. /\ [reader[s][k] EXCEPT !.seq = nextSequence(s), !.pc = "insert"] \in Reader
        /\ [reader[s][k] EXCEPT !.seq = nextSequence(s), !.pc = "commit"] \in Reader
    <3>1. reader[s][k] \in Reader
      OBVIOUS
    <3> HIDE DEF TypeOK
    <3> QED BY <2>1, <3>1 DEF Reader
  <2>3. \E q \in Reader : reader' = [reader EXCEPT ![s][k] = q]
    BY <1>15, <2>2 DEF readSequence
  <2>4. reader' \in [Session -> [Slot -> Reader]]
    BY <2>3, ReaderType
  <2> QED BY <1>15, <2>4 DEF readSequence
<1>16. ASSUME NEW s \in Session, NEW k \in Slot, commitRotation(s, k) PROVE TypeOK'
  <2> DEFINE r == reader[s][k]
  <2>0. r \in Reader /\ 0 \in 0..MaxRows /\ r.uuid \in Id
    <3>1. r \in Reader
      OBVIOUS
    <3> HIDE DEF TypeOK, r
    <3> QED BY <3>1, WalIds DEF Reader
  <2>1. [r EXCEPT !.pc = "insert"] \in Reader /\ ReaderAt("read", r.uuid, 0) \in Reader
    <3>1. [r EXCEPT !.pc = "insert"] \in Reader
      BY <2>0 DEF Reader
    <3> QED BY <2>0, <3>1, ReaderAtType
  <2>2. \E q \in Reader : reader' = [reader EXCEPT ![s][k] = q]
    BY <1>16, <2>1 DEF commitRotation
  <2>3. reader' \in [Session -> [Slot -> Reader]]
    BY <2>2, ReaderType
  <2>4. r.uuid \in UUID
    BY <1>16 DEF ReaderShape, Shape, commitRotation
  <2>5. wal' \in [WalId -> WALRow \cup {FreeRow}]
    BY <1>16, <2>4, CommitType DEF commitRotation
  <2> QED BY <1>16, <2>3, <2>5 DEF commitRotation
<1>17. ASSUME NEW s \in Session, NEW k \in Slot, insertRotation(s, k) PROVE TypeOK'
  <2> DEFINE r == reader[s][k]
             row == [bridge |-> s, seq |-> r.seq, parent |-> r.parent, kind |-> r.intent]
  <2>1. r \in Reader /\ r.intent \in Kind /\ r.uuid \in UUID
    BY <1>17 DEF ReaderShape, Shape, insertRotation
  <2>2. row \in RolloutRow /\ [r EXCEPT !.pc = "upsert"] \in Reader
    BY <2>1 DEF RolloutRow, Reader
  <2>3. reader' = [reader EXCEPT ![s][k] = [r EXCEPT !.pc = "upsert"]]
    BY <1>17 DEF insertRotation
  <2>4. reader' \in [Session -> [Slot -> Reader]]
    BY <2>2, <2>3, ReaderType
  <2>5. rollouts' = rollouts \/ rollouts' = [rollouts EXCEPT ![r.uuid] = row]
    BY <1>17 DEF insertRotation, InsertRollout
  <2>6. rollouts' \in [UUID -> RolloutRow \cup {NoRow}]
    BY <2>2, <2>5
  <2> QED BY <1>17, <2>4, <2>6 DEF insertRotation
<1>18. ASSUME NEW s \in Session, NEW k \in Slot, upsertRotation(s, k) PROVE TypeOK'
  <2>0. reader[s][k].uuid \in Id /\ 0 \in 0..MaxRows
    <3>1. reader[s][k] \in Reader
      OBVIOUS
    <3> HIDE DEF TypeOK
    <3> QED BY <3>1, WalIds DEF Reader
  <2>1. ReaderAt("read", reader[s][k].uuid, 0) \in Reader
    BY <2>0, ReaderAtType
  <2>2. reader' \in [Session -> [Slot -> Reader]]
    BY <1>18, <2>1, ReaderType DEF upsertRotation
  <2> QED BY <1>18, <2>0, <2>2 DEF upsertRotation, UpsertSession
<1>19. ASSUME NEW s \in Session, NEW k \in Slot, handleProcessExit(s, k) PROVE TypeOK'
  <2>1. ReaderAt("orphan", NoId, pend[s].wal) \in Reader
    <3>1. NoId \in Id /\ pend[s].wal \in 0..MaxRows
      BY DEF PendType, Id
    <3> QED BY <3>1, ReaderAtType
  <2>2. \E q \in Reader : reader' = [reader EXCEPT ![s][k] = q]
    BY <1>19, <2>1, NoReaderType DEF handleProcessExit
  <2>3. reader' \in [Session -> [Slot -> Reader]]
    BY <2>2, ReaderType
  <2>4. pend' \in [Session -> PendType]
    BY <1>19, NullTypes DEF handleProcessExit, ClearPending
  <2> QED BY <1>19, <2>3, <2>4 DEF handleProcessExit
<1>20. ASSUME NEW s \in Session, NEW k \in Slot, orphanRotation(s, k) PROVE TypeOK'
  <2>1. wal' \in [WalId -> WALRow \cup {FreeRow}]
    BY <1>20, OrphanType DEF orphanRotation
  <2>2. reader' \in [Session -> [Slot -> Reader]]
    BY <1>20, NoReaderType, ReaderType DEF orphanRotation
  <2> QED BY <1>20, <2>1, <2>2 DEF orphanRotation
<1>21. ASSUME NEW s \in Session, Dispatcher(s) PROVE TypeOK'
  <2>1. ASSUME NEW p \in Session, known[p] # NoId PROVE known[p] \in UUID
    BY <2>1 DEF Id
  <2>3. CASE StartResume(s) \/ RespawnForMessage(s)
    BY <1>7, <2>3 DEF StartResume, RespawnForMessage
  <2>4. CASE handleResume(s)
    BY <1>7, <2>4 DEF handleResume, Id
  <2> QED BY <1>4, <1>5, <1>6, <1>8, <1>9, <1>10, <1>11, <1>21, <2>1, <2>3, <2>4
      DEF Dispatcher
<1> QED
  BY <1>1, <1>2, <1>3, <1>12, <1>13, <1>14, <1>15, <1>16, <1>17, <1>18, <1>19,
     <1>20, <1>21
  DEF Next, ReaderStep

\* Assigning one reader leaves the others as they are.
LEMMA Others ==
  ASSUME TypeOK, NEW s \in Session, NEW k \in Slot, NEW q,
         reader' = [reader EXCEPT ![s][k] = q]
  PROVE  /\ reader'[s][k] = q
         /\ \A t \in Session, l \in Slot : reader'[t][l] = IF t = s /\ l = k THEN q ELSE reader[t][l]
BY DEF TypeOK

\* Every step that touches a reader gives it a new value of the right shape.
LEMMA ShapeStep ==
  ASSUME TypeOK, ReaderShape, Next
  PROVE  ReaderShape'
<1>1. ASSUME NEW s \in Session, NEW k \in Slot, NEW q, Shape(q),
             reader' = [reader EXCEPT ![s][k] = q]
      PROVE  ReaderShape'
  BY <1>1, Others DEF ReaderShape
<1>2. ASSUME reader' = reader PROVE ReaderShape'
  BY <1>2 DEF ReaderShape
<1>3. /\ \A u \in UUID : Shape(ReaderAt("read", u, 0))
      /\ \A i : Shape(ReaderAt("orphan", NoId, i))
      /\ Shape(NoReader)
  BY DEF Shape, ReaderAt, NoReader
<1>4. ASSUME NEW s \in Session, NEW k \in Slot
      PROVE  reader[s][k] \in Reader /\ Shape(reader[s][k])
  BY DEF TypeOK, ReaderShape
<1>5. ASSUME NEW s \in Session, Spawn(s) PROVE ReaderShape'
  <2>1. PICK k \in Slot, u \in Fresh \cup ({base[s]} \ {NoId}) :
          reader' = [reader EXCEPT ![s][k] = ReaderAt("read", u, 0)]
    BY <1>5 DEF Spawn
  <2>2. u \in UUID
    BY DEF TypeOK, Fresh, Id
  <2> QED BY <1>1, <1>3, <2>1, <2>2
<1>6. ASSUME NEW s \in Session, Crash(s) PROVE ReaderShape'
  BY <1>3, <1>6 DEF Crash, ReaderShape, TypeOK
<1>7. ASSUME NEW s \in Session, NEW k \in Slot, readInit(s, k) PROVE ReaderShape'
  <2> DEFINE r == reader[s][k]
             took(where) == [r EXCEPT !.pc = where, !.wal = pend[s].wal,
                                      !.intent = pend[s].intent, !.parent = pend[s].parent]
  <2>1. r \in Reader /\ Shape(r) /\ r.pc = "read" /\ r.uuid \in UUID
    BY <1>4, <1>7 DEF readInit, Shape
  <2>2. pend[s].intent \in Kind => Shape(took("sequence")) /\ Shape(took("upsert"))
    BY <2>1 DEF Shape, Reader
  <2>3. \/ reader' = [reader EXCEPT ![s][k] = r]
        \/ /\ pend[s].intent \in Kind
           /\ \/ reader' = [reader EXCEPT ![s][k] = took("sequence")]
              \/ reader' = [reader EXCEPT ![s][k] = took("upsert")]
    BY <1>7 DEF readInit, Kind
  <2> HIDE DEF r, took
  <2> QED BY <1>1, <2>1, <2>2, <2>3
<1>8. ASSUME NEW s \in Session, NEW k \in Slot, readSequence(s, k) PROVE ReaderShape'
  <2> DEFINE r == reader[s][k]
             q == [r EXCEPT !.seq = nextSequence(s),
                            !.pc = IF r.intent = "resume" THEN "insert" ELSE "commit"]
  <2>1. r \in Reader /\ r.pc = "sequence" /\ Shape(r)
    BY <1>4, <1>8 DEF readSequence
  <2>2. Shape(q)
    BY <2>1 DEF Shape, Reader
  <2>3. reader' = [reader EXCEPT ![s][k] = q]
    BY <1>8 DEF readSequence
  <2> QED BY <1>1, <2>2, <2>3
<1>9. ASSUME NEW s \in Session, NEW k \in Slot, commitRotation(s, k) PROVE ReaderShape'
  <2> DEFINE r == reader[s][k]
  <2>1. r \in Reader /\ r.pc = "commit" /\ Shape(r) /\ r.uuid \in UUID
    BY <1>4, <1>9 DEF commitRotation, Shape
  <2>2. Shape([r EXCEPT !.pc = "insert"])
    BY <2>1 DEF Shape, Reader
  <2>3. \/ reader' = [reader EXCEPT ![s][k] = [r EXCEPT !.pc = "insert"]]
        \/ reader' = [reader EXCEPT ![s][k] = ReaderAt("read", r.uuid, 0)]
    BY <1>9, <2>1 DEF commitRotation, TypeOK
  <2> QED BY <1>1, <1>3, <2>1, <2>2, <2>3
<1>10. ASSUME NEW s \in Session, NEW k \in Slot, insertRotation(s, k) PROVE ReaderShape'
  <2> DEFINE r == reader[s][k]
  <2>1. r \in Reader /\ r.pc = "insert" /\ Shape(r)
    BY <1>4, <1>10 DEF insertRotation
  <2>2. Shape([r EXCEPT !.pc = "upsert"])
    BY <2>1 DEF Shape, Reader
  <2>3. reader' = [reader EXCEPT ![s][k] = [r EXCEPT !.pc = "upsert"]]
    BY <1>10, <2>1 DEF insertRotation, TypeOK
  <2> QED BY <1>1, <2>2, <2>3
<1>11. ASSUME NEW s \in Session, NEW k \in Slot, upsertRotation(s, k) PROVE ReaderShape'
  <2>1. reader[s][k].uuid \in UUID
    BY <1>4, <1>11 DEF upsertRotation, Shape
  <2> QED BY <1>1, <1>3, <1>11, <2>1 DEF upsertRotation
<1>12. ASSUME NEW s \in Session, NEW k \in Slot, handleProcessExit(s, k) \/ orphanRotation(s, k)
       PROVE  ReaderShape'
  <2>1. \/ reader' = [reader EXCEPT ![s][k] = NoReader]
        \/ reader' = [reader EXCEPT ![s][k] = ReaderAt("orphan", NoId, pend[s].wal)]
    BY <1>12 DEF handleProcessExit, orphanRotation
  <2> QED BY <1>1, <1>3, <2>1
<1> QED
  <2>1. CASE reader' = reader
    BY <1>2, <2>1
  <2>2. CASE reader' # reader
    BY <1>5, <1>6, <1>7, <1>8, <1>9, <1>10, <1>11, <1>12, <2>2
    DEF Next, Dispatcher, ReaderStep, Boot, recoverOrphansOnBoot, BootDone, StartCold,
        StageCold, StartFork, StartResume, RespawnForMessage, handleResume, Resume,
        ReceiverFails, SpawnFails, Unstage, StdoutEnds, ProcessExits
  <2> QED BY <2>1, <2>2

\* The chain changes only when a reader inserts.
LEMMA RolloutsChange ==
  Next => rollouts' = rollouts \/ \E s \in Session, k \in Slot : insertRotation(s, k)
<1> SUFFICES ASSUME Next, ~\E s \in Session, k \in Slot : insertRotation(s, k)
             PROVE  rollouts' = rollouts
  OBVIOUS
<1> USE DEF store
<1>1. ASSUME NEW s \in Session, Boot(s) \/ recoverOrphansOnBoot(s) \/ BootDone(s) \/ Crash(s)
      PROVE  rollouts' = rollouts
  BY <1>1 DEF Boot, recoverOrphansOnBoot, BootDone, Crash
<1>2. ASSUME NEW s \in Session, NEW u, Resume(s, u) \/ StartFork(s, u)
      PROVE  rollouts' = rollouts
  BY <1>2 DEF Resume, StartFork
<1>3. ASSUME NEW s \in Session,
             \/ StartCold(s) \/ StageCold(s) \/ Spawn(s) \/ ReceiverFails(s)
             \/ SpawnFails(s) \/ Unstage(s)
      PROVE  rollouts' = rollouts
  BY <1>3 DEF StartCold, StageCold, Spawn, ReceiverFails, SpawnFails, Unstage
<1>4. ASSUME NEW s \in Session, Dispatcher(s) PROVE rollouts' = rollouts
  BY <1>2, <1>3, <1>4 DEF Dispatcher, StartResume, RespawnForMessage, handleResume
<1>5. ASSUME NEW s \in Session, NEW k \in Slot,
             \/ StdoutEnds(s, k) \/ ProcessExits(s, k) \/ readInit(s, k)
             \/ readSequence(s, k) \/ commitRotation(s, k) \/ upsertRotation(s, k)
             \/ handleProcessExit(s, k) \/ orphanRotation(s, k)
      PROVE  rollouts' = rollouts
  BY <1>5 DEF StdoutEnds, ProcessExits, readInit, readSequence, commitRotation,
              upsertRotation, handleProcessExit, orphanRotation
<1> QED BY <1>1, <1>4, <1>5 DEF Next, ReaderStep

\* One step adds at most one to the largest sequence number about.
LEMMA SeqStep ==
  ASSUME TypeOK, ReaderShape, SeqBounded, Next
  PROVE  SeqBounded'
<1>1. PICK b \in Nat :
        /\ \A u \in UUID : rollouts[u] # NoRow => rollouts[u].seq <= b
        /\ \A s \in Session, k \in Slot : reader[s][k].seq <= b
  BY DEF SeqBounded
<1>2. /\ b + 1 \in Nat /\ 0 <= b + 1
      /\ \A u \in UUID : rollouts[u] # NoRow => rollouts[u].seq <= b + 1
      /\ \A s \in Session, k \in Slot : reader[s][k] \in Reader /\ reader[s][k].seq <= b + 1
  <2>1. \A u \in UUID : rollouts[u] # NoRow => rollouts[u].seq \in Nat
    BY DEF TypeOK, RolloutRow
  <2>2. \A s \in Session, k \in Slot : reader[s][k] \in Reader
    BY DEF TypeOK
  <2>3. \A r \in Reader : r.seq \in Nat
    BY DEF Reader
  <2> QED BY <1>1, <2>1, <2>2, <2>3
<1>3. SUFFICES
        /\ \A u \in UUID : rollouts'[u] # NoRow => rollouts'[u].seq <= b + 1
        /\ \A s \in Session, k \in Slot : reader'[s][k].seq <= b + 1
  BY <1>2 DEF SeqBounded
<1>4. ASSUME NEW s \in Session, NEW k \in Slot, NEW q, q.seq <= b + 1,
             reader' = [reader EXCEPT ![s][k] = q]
      PROVE  \A t \in Session, l \in Slot : reader'[t][l].seq <= b + 1
  BY <1>2, <1>4, Others
<1>5. \A c, u, i : ReaderAt(c, u, i).seq <= b + 1
  BY <1>2 DEF ReaderAt
<1>6. \A s \in Session, k \in Slot : reader'[s][k].seq <= b + 1
  <2>1. ASSUME NEW s \in Session, NEW k \in Slot, readSequence(s, k)
        PROVE  \A t \in Session, l \in Slot : reader'[t][l].seq <= b + 1
    <3> DEFINE r == reader[s][k]
               q == [r EXCEPT !.seq = nextSequence(s),
                              !.pc = IF r.intent = "resume" THEN "insert" ELSE "commit"]
    <3>1. nextSequence(s) <= b + 1
      BY <1>1, NextSequence
    <3>2. q.seq = nextSequence(s)
      BY <1>2 DEF Reader
    <3>3. reader' = [reader EXCEPT ![s][k] = q]
      BY <2>1 DEF readSequence
    <3> HIDE DEF q
    <3> QED BY <1>4, <3>1, <3>2, <3>3
  <2>2. ASSUME NEW s \in Session, NEW k \in Slot, NEW q, q.seq = reader[s][k].seq,
               reader' = [reader EXCEPT ![s][k] = q]
        PROVE  \A t \in Session, l \in Slot : reader'[t][l].seq <= b + 1
    BY <1>2, <1>4, <2>2
  <2>3. ASSUME NEW s \in Session, NEW k \in Slot, readInit(s, k)
        PROVE  \A t \in Session, l \in Slot : reader'[t][l].seq <= b + 1
    <3> DEFINE r == reader[s][k]
               took(where) == [r EXCEPT !.pc = where, !.wal = pend[s].wal,
                                        !.intent = pend[s].intent, !.parent = pend[s].parent]
    <3>1. took("sequence").seq = r.seq /\ took("upsert").seq = r.seq
      BY <1>2 DEF Reader
    <3>2. \/ reader' = [reader EXCEPT ![s][k] = r]
          \/ reader' = [reader EXCEPT ![s][k] = took("sequence")]
          \/ reader' = [reader EXCEPT ![s][k] = took("upsert")]
      BY <2>3 DEF readInit
    <3> HIDE DEF took
    <3> QED BY <2>2, <3>1, <3>2
  <2>4. ASSUME NEW s \in Session, NEW k \in Slot, commitRotation(s, k) \/ insertRotation(s, k)
        PROVE  \A t \in Session, l \in Slot : reader'[t][l].seq <= b + 1
    <3> DEFINE r == reader[s][k]
               at(where) == [r EXCEPT !.pc = where]
    <3>1. at("insert").seq = r.seq /\ at("upsert").seq = r.seq
      BY <1>2 DEF Reader
    <3>2. \/ reader' = [reader EXCEPT ![s][k] = at("insert")]
          \/ reader' = [reader EXCEPT ![s][k] = at("upsert")]
          \/ reader' = [reader EXCEPT ![s][k] = ReaderAt("read", r.uuid, 0)]
      BY <2>4 DEF commitRotation, insertRotation, TypeOK
    <3> HIDE DEF at
    <3> QED BY <1>4, <1>5, <2>2, <3>1, <3>2
  <2>5. ASSUME NEW s \in Session, NEW k \in Slot, NEW c, NEW u, NEW i,
               reader' = [reader EXCEPT ![s][k] = ReaderAt(c, u, i)]
        PROVE  \A t \in Session, l \in Slot : reader'[t][l].seq <= b + 1
    BY <1>4, <1>5, <2>5
  <2>6. ASSUME NEW s \in Session, NEW k \in Slot,
               \/ upsertRotation(s, k) \/ handleProcessExit(s, k) \/ orphanRotation(s, k)
        PROVE  \A t \in Session, l \in Slot : reader'[t][l].seq <= b + 1
    BY <2>5, <2>6 DEF upsertRotation, handleProcessExit, orphanRotation, NoReader
  <2>7. ASSUME NEW s \in Session, Spawn(s)
        PROVE  \A t \in Session, l \in Slot : reader'[t][l].seq <= b + 1
    <3>1. PICK k \in Slot, u \in Fresh \cup ({base[s]} \ {NoId}) :
            reader' = [reader EXCEPT ![s][k] = ReaderAt("read", u, 0)]
      BY <2>7 DEF Spawn
    <3> QED BY <2>5, <3>1
  <2>8. ASSUME NEW s \in Session, Crash(s)
        PROVE  \A t \in Session, l \in Slot : reader'[t][l].seq <= b + 1
    <3>1. \A t \in Session, l \in Slot : reader'[t][l] = reader[t][l] \/ reader'[t][l] = NoReader
      BY <2>8 DEF Crash, TypeOK
    <3>2. NoReader.seq <= b + 1
      BY <1>5 DEF NoReader
    <3> QED BY <1>2, <3>1, <3>2
  <2>9. CASE reader' = reader
    BY <1>2, <2>9
  <2>10. CASE reader' # reader
    BY <2>1, <2>3, <2>4, <2>6, <2>7, <2>8, <2>10
    DEF Next, Dispatcher, ReaderStep, Boot, recoverOrphansOnBoot, BootDone, StartCold,
        StageCold, StartFork, StartResume, RespawnForMessage, handleResume, Resume,
        ReceiverFails, SpawnFails, Unstage, StdoutEnds, ProcessExits
  <2> QED BY <2>9, <2>10
<1>7. \A u \in UUID : rollouts'[u] # NoRow => rollouts'[u].seq <= b + 1
  <2>1. ASSUME NEW s \in Session, NEW k \in Slot, insertRotation(s, k)
        PROVE  \A u \in UUID : rollouts'[u] # NoRow => rollouts'[u].seq <= b + 1
    <3> DEFINE r == reader[s][k]
               row == [bridge |-> s, seq |-> r.seq, parent |-> r.parent, kind |-> r.intent]
    <3>1. rollouts' = rollouts \/ rollouts' = [rollouts EXCEPT ![r.uuid] = row]
      BY <2>1 DEF insertRotation, InsertRollout
    <3>2. row.seq <= b + 1
      BY <1>2
    <3>3. \A u \in UUID : rollouts'[u] = rollouts[u] \/ rollouts'[u] = row
      BY <3>1 DEF TypeOK
    <3> HIDE DEF row
    <3> QED BY <1>2, <3>2, <3>3
  <2>2. CASE rollouts' = rollouts
    BY <1>2, <2>2
  <2>3. CASE rollouts' # rollouts
    BY <2>1, <2>3, RolloutsChange
  <2> QED BY <2>2, <2>3
<1> QED BY <1>6, <1>7

\* The program starts in the invariant, and a stuttering step keeps it.
LEMMA TypeInit == Init => TypeOK /\ ReaderShape /\ SeqBounded
<1> SUFFICES ASSUME Init PROVE TypeOK /\ ReaderShape /\ SeqBounded
  OBVIOUS
<1>1. TypeOK
  <2>1. 0 \in 0..MaxRows /\ NoId \in Id
    BY WalIds, Ids
  <2> QED BY <2>1, NullTypes, NoReaderType DEF Init, TypeOK
<1>2. ReaderShape
  BY DEF Init, ReaderShape, Shape, NoReader, ReaderAt
<1>3. SeqBounded
  <2>1. /\ \A u \in UUID : rollouts[u] = NoRow
        /\ \A s \in Session, k \in Slot : reader[s][k].seq <= 0
    <3>1. NoReader.seq = 0
      BY DEF NoReader, ReaderAt
    <3>2. \A s \in Session, k \in Slot : reader[s][k] = NoReader
      BY DEF Init
    <3>3. \A u \in UUID : rollouts[u] = NoRow
      BY DEF Init
    <3> QED BY <3>1, <3>2, <3>3
  <2> QED BY <2>1 DEF SeqBounded
<1> QED BY <1>1, <1>2, <1>3

\* A stuttering step preserves TypeOK and what it rests on.
LEMMA TypeStutter ==
  ASSUME TypeOK, ReaderShape, SeqBounded, UNCHANGED vars
  PROVE  TypeOK' /\ ReaderShape' /\ SeqBounded'
BY DEF TypeOK, ReaderShape, SeqBounded, vars, store, memory

\* Every variable stays in its type, in every instance: in particular the
\* statuses, kinds and places the code compares strings for are the ones
\* listed, and nextSequence always gives a number.
THEOREM TypeCorrect == Spec => []TypeOK
<1>1. TypeOK /\ ReaderShape /\ SeqBounded /\ [Next]_vars
        => TypeOK' /\ ReaderShape' /\ SeqBounded'
  BY TypeStep, ShapeStep, SeqStep, TypeStutter
<1> QED BY <1>1, TypeInit, PTL DEF Spec

-----------------------------------------------------------------------------
(* The inductive invariant.                                                *)

\* The log's rows are given out in order.
RowsAllocated == \A i \in WalId : wal[i].status = "free" <=> i > walRows

RowIs(i, s, intent, parent) ==
  /\ i \in WalId /\ wal[i].status # "free"
  /\ wal[i].bridge = s /\ wal[i].intent = intent /\ wal[i].parent = parent

\* What a harness has staged is a row of its own that says the same.
PendMatches ==
  \A s \in Session : pend[s].wal # 0 =>
    /\ pend[s].intent # "resume"
    /\ RowIs(pend[s].wal, s, pend[s].intent, pend[s].parent)

\* So is what a reader has taken; past the commit the row is committed.
ReaderMatch(s, k) ==
  LET r == reader[s][k] IN
  /\ r.pc \in {"sequence", "commit"} /\ r.intent # "resume" =>
       RowIs(r.wal, s, r.intent, r.parent)
  /\ r.pc = "sequence" /\ r.intent = "resume" => r.wal = 0
  /\ r.pc = "insert" /\ r.intent # "resume" =>
       /\ RowIs(r.wal, s, r.intent, r.parent)
       /\ wal[r.wal].status = "committed" /\ wal[r.wal].newId = r.uuid
  /\ r.pc = "orphan" =>
       /\ r.wal \in WalId /\ wal[r.wal].status # "free" /\ wal[r.wal].bridge = s

Matched == \A s \in Session, k \in Slot : ReaderMatch(s, k)

\* No two places of a harness hold the same row.
Disjoint ==
  \A s \in Session, i \in WalId :
    /\ pend[s].wal = i =>
         ~HeldByDispatcher(s, i) /\ \A k \in Slot : ~HeldByReader(s, k, i)
    /\ \A k \in Slot : HeldByReader(s, k, i) =>
         ~HeldByDispatcher(s, i) /\ \A l \in Slot \ {k} : ~HeldByReader(s, l, i)

IInv ==
  /\ TypeOK /\ ReaderShape /\ SeqBounded
  /\ RowsAllocated
  /\ PendMatches
  /\ Matched
  /\ Disjoint
  /\ RolloutBacked

-----------------------------------------------------------------------------
(* What a step does to the log.                                            *)

LogStep ==
  \/ UNCHANGED <<wal, walRows>>
  \/ /\ UNCHANGED <<walRows, rollouts>>
     /\ \E i \in WalId : OrphanWAL(i) \/ \E u \in UUID : CommitWAL(i, u)
  \/ /\ walRows < MaxRows /\ rollouts' = rollouts
     /\ \E s \in Session, kind \in {"start", "fork"}, p \in Id : InsertWAL(s, kind, p)

\* A step opens a row, settles one, or leaves the log alone.
LEMMA LogSteps ==
  ASSUME TypeOK, ReaderShape, Matched, Next
  PROVE  LogStep
<1> USE DEF LogStep, store
<1>1. ASSUME NEW s \in Session, StageCold(s) PROVE LogStep
  BY <1>1, Ids DEF StageCold
<1>2. ASSUME NEW s \in Session, NEW u \in Id, StartFork(s, u) PROVE LogStep
  BY <1>2 DEF StartFork
<1>3. ASSUME NEW s \in Session, recoverOrphansOnBoot(s) PROVE LogStep
  <2>1. todo[s] \subseteq WalId
    BY DEF TypeOK
  <2> QED BY <1>3, <2>1 DEF recoverOrphansOnBoot
<1>4. ASSUME NEW s \in Session, Unstage(s) PROVE LogStep
  <2>1. todo[s] \subseteq WalId
    BY DEF TypeOK
  <2> QED BY <1>4, <2>1 DEF Unstage
<1>5. ASSUME NEW s \in Session, NEW k \in Slot, orphanRotation(s, k) PROVE LogStep
  <2>1. reader[s][k].wal \in WalId
    BY <1>5 DEF Matched, ReaderMatch, orphanRotation
  <2> QED BY <1>5, <2>1 DEF orphanRotation
<1>6. ASSUME NEW s \in Session, NEW k \in Slot, commitRotation(s, k) PROVE LogStep
  <2>1. reader[s][k].wal \in WalId /\ reader[s][k].uuid \in UUID
    <3>1. reader[s][k].pc = "commit"
      BY <1>6 DEF commitRotation
    <3>2. reader[s][k].uuid \in UUID /\ reader[s][k].intent # "resume"
      BY <3>1 DEF ReaderShape, Shape
    <3>3. reader[s][k].wal \in WalId
      BY <3>1, <3>2 DEF Matched, ReaderMatch, RowIs
    <3> QED BY <3>2, <3>3
  <2> QED BY <1>6, <2>1 DEF commitRotation
<1>7. ASSUME NEW s \in Session, NEW u, Resume(s, u) PROVE LogStep
  BY <1>7 DEF Resume
<1>8. ASSUME NEW s \in Session,
             \/ Boot(s) \/ BootDone(s) \/ Crash(s) \/ StartCold(s) \/ Spawn(s)
             \/ ReceiverFails(s) \/ SpawnFails(s)
      PROVE  LogStep
  BY <1>8 DEF Boot, BootDone, Crash, StartCold, Spawn, ReceiverFails, SpawnFails
<1>9. ASSUME NEW s \in Session, NEW k \in Slot,
             \/ StdoutEnds(s, k) \/ ProcessExits(s, k) \/ readInit(s, k)
             \/ readSequence(s, k) \/ insertRotation(s, k) \/ upsertRotation(s, k)
             \/ handleProcessExit(s, k)
      PROVE  LogStep
  BY <1>9 DEF StdoutEnds, ProcessExits, readInit, readSequence, insertRotation,
              upsertRotation, handleProcessExit
<1>10. ASSUME NEW s \in Session, Dispatcher(s) PROVE LogStep
  <2>1. \A p \in Session : known[p] \in Id
    BY DEF TypeOK
  <2> QED BY <1>1, <1>2, <1>4, <1>7, <1>8, <1>10, <2>1
          DEF Dispatcher, StartResume, RespawnForMessage, handleResume
<1> QED BY <1>3, <1>5, <1>6, <1>8, <1>9, <1>10 DEF Next, ReaderStep

\* A row in use keeps its session, intent and parent; a committed one is final.
RowsKept ==
  \A i \in WalId : wal[i].status # "free" =>
    /\ wal'[i].status # "free"
    /\ wal'[i].bridge = wal[i].bridge
    /\ wal'[i].intent = wal[i].intent
    /\ wal'[i].parent = wal[i].parent
    /\ wal[i].status = "committed" => wal'[i] = wal[i]

\* No step rewrites a row of the log beyond settling it.
LEMMA RowsStep ==
  ASSUME TypeOK, RowsAllocated, LogStep
  PROVE  RowsKept /\ RowsAllocated'
<1>0. walRows \in Nat /\ WalId \subseteq Nat
  BY Bound DEF TypeOK, WalId
<1>1. CASE UNCHANGED <<wal, walRows>>
  BY <1>1 DEF RowsKept, RowsAllocated
<1>2. ASSUME NEW i \in WalId, NEW st \in {"orphaned", "committed"}, NEW u,
             wal[i].status = "pending", walRows' = walRows,
             \/ wal' = [wal EXCEPT ![i].status = st]
             \/ wal' = [wal EXCEPT ![i].status = st, ![i].newId = u]
      PROVE  RowsKept /\ RowsAllocated'
  <2>1. wal[i] \in WALRow
    <3>1. wal[i] \in WALRow \cup {FreeRow} /\ FreeRow.status = "free"
      BY DEF TypeOK, FreeRow
    <3> QED BY <1>2, <3>1
  <2>2. /\ wal'[i].status = st
        /\ wal'[i].bridge = wal[i].bridge /\ wal'[i].intent = wal[i].intent
        /\ wal'[i].parent = wal[i].parent
    BY <1>2, <2>1 DEF TypeOK, WALRow
  <2>3. \A j \in WalId \ {i} : wal'[j] = wal[j]
    BY <1>2 DEF TypeOK
  <2> QED BY <1>2, <2>2, <2>3 DEF RowsKept, RowsAllocated
<1>3. CASE \E i \in WalId : OrphanWAL(i) /\ walRows' = walRows
  BY <1>1, <1>2, <1>3 DEF OrphanWAL
<1>4. CASE \E i \in WalId, u \in UUID : CommitWAL(i, u) /\ walRows' = walRows
  BY <1>2, <1>4 DEF CommitWAL
<1>5. ASSUME NEW s \in Session, NEW kind, NEW p, walRows < MaxRows, InsertWAL(s, kind, p)
      PROVE  RowsKept /\ RowsAllocated'
  <2>1. walRows + 1 \in WalId
    BY <1>5, Bound DEF TypeOK, WalId
  <2>2. wal'[walRows + 1].status = "pending"
    BY <1>5, <2>1 DEF InsertWAL, TypeOK
  <2>3. \A j \in WalId \ {walRows + 1} : wal'[j] = wal[j]
    BY <1>5 DEF InsertWAL, TypeOK
  <2>4. wal[walRows + 1].status = "free"
    BY <1>0, <2>1 DEF RowsAllocated
  <2>5. walRows' = walRows + 1
    BY <1>5 DEF InsertWAL
  <2>6. RowsKept
    BY <2>3, <2>4 DEF RowsKept
  <2>7. RowsAllocated'
    <3>1. ASSUME NEW j \in WalId PROVE wal'[j].status = "free" <=> j > walRows'
      <4>1. CASE j = walRows + 1
        BY <1>0, <2>2, <2>5, <4>1
      <4>2. CASE j # walRows + 1
        BY <1>0, <2>3, <2>5, <4>2 DEF RowsAllocated
      <4> QED BY <4>1, <4>2
    <3> QED BY <3>1 DEF RowsAllocated
  <2> QED BY <2>6, <2>7
<1> QED BY <1>1, <1>3, <1>4, <1>5 DEF LogStep

-----------------------------------------------------------------------------
(* What is staged and what is taken keeps matching the log.                *)

\* A step stages a row it has just opened, or stages nothing new.
LEMMA PendStep ==
  ASSUME TypeOK, RowsAllocated, PendMatches, RowsKept, Next
  PROVE  PendMatches'
<1> USE DEF store, memory
<1>1. ASSUME \A s \in Session : pend'[s] = pend[s] \/ pend'[s].wal = 0
      PROVE  PendMatches'
  BY <1>1 DEF PendMatches, RowIs, RowsKept
<1>2. ASSUME NEW s \in Session, NEW kind \in {"start", "fork"}, NEW p \in Id,
             walRows < MaxRows, InsertWAL(s, kind, p),
             pend' = [pend EXCEPT ![s] = [wal |-> walRows + 1, intent |-> kind, parent |-> p]]
      PROVE  PendMatches'
  <2>1. walRows + 1 \in WalId
    BY <1>2, Bound DEF TypeOK, WalId
  <2>2. wal'[walRows + 1] = [status |-> "pending", bridge |-> s, intent |-> kind,
                             parent |-> p, newId |-> NoId]
    BY <1>2, <2>1 DEF InsertWAL, TypeOK
  <2>3. \A t \in Session \ {s} : pend'[t] = pend[t]
    BY <1>2 DEF TypeOK
  <2>4. pend'[s] = [wal |-> walRows + 1, intent |-> kind, parent |-> p]
    BY <1>2 DEF TypeOK
  <2>5. RowIs(pend[s].wal, s, pend[s].intent, pend[s].parent)' /\ pend'[s].intent # "resume"
    BY <2>1, <2>2, <2>4 DEF RowIs
  <2>6. ASSUME NEW t \in Session \ {s}, pend'[t].wal # 0
        PROVE  RowIs(pend[t].wal, t, pend[t].intent, pend[t].parent)' /\ pend'[t].intent # "resume"
    BY <2>3, <2>6 DEF PendMatches, RowIs, RowsKept
  <2> QED BY <2>5, <2>6 DEF PendMatches
<1>3. ASSUME NEW s \in Session, StageCold(s) PROVE PendMatches'
  BY <1>1, <1>2, <1>3, Ids DEF StageCold, Stage
<1>4. ASSUME NEW s \in Session, NEW u \in Id, StartFork(s, u) PROVE PendMatches'
  BY <1>1, <1>2, <1>4 DEF StartFork, Stage
<1>5. ASSUME NEW s \in Session, NEW u, Resume(s, u) PROVE PendMatches'
  BY <1>1, <1>5 DEF Resume, Stage, TypeOK
<1>6. ASSUME NEW s \in Session, ClearPending(s) \/ pend' = [pend EXCEPT ![s] = NoPend]
      PROVE  PendMatches'
  <2>1. \A t \in Session : pend'[t] = pend[t] \/ pend'[t] = NoPend
    BY <1>6 DEF ClearPending, TypeOK
  <2>2. NoPend.wal = 0
    BY DEF NoPend
  <2> QED BY <1>1, <2>1, <2>2
<1>7. CASE pend' = pend
  BY <1>1, <1>7
<1>8. ASSUME NEW s \in Session, Dispatcher(s) PROVE PendMatches'
  <2>1. \A p \in Session : known[p] \in Id
    BY DEF TypeOK
  <2>2. CASE StartCold(s) \/ Spawn(s) \/ ReceiverFails(s) \/ Unstage(s)
    BY <1>7, <2>2 DEF StartCold, Spawn, ReceiverFails, Unstage
  <2>3. CASE SpawnFails(s)
    BY <1>6, <2>3 DEF SpawnFails
  <2> QED BY <1>3, <1>4, <1>5, <1>8, <2>1, <2>2, <2>3
          DEF Dispatcher, StartResume, RespawnForMessage, handleResume
<1>9. ASSUME NEW s \in Session, Boot(s) \/ recoverOrphansOnBoot(s) \/ BootDone(s) \/ Crash(s)
      PROVE  PendMatches'
  BY <1>6, <1>7, <1>9 DEF Boot, recoverOrphansOnBoot, BootDone, Crash
<1>10. ASSUME NEW s \in Session, NEW k \in Slot,
              \/ StdoutEnds(s, k) \/ ProcessExits(s, k) \/ ReaderStep(s, k)
       PROVE  PendMatches'
  BY <1>6, <1>7, <1>10 DEF StdoutEnds, ProcessExits, ReaderStep, readInit, readSequence,
     commitRotation, insertRotation, upsertRotation, handleProcessExit, orphanRotation
<1> QED BY <1>8, <1>9, <1>10 DEF Next

\* A reader here holds no row of the log.
HoldsNothing(r) == r.pc \in {"none", "read", "upsert"}

\* A reader takes what is staged, and what it took stays as it was until the
\* reader itself commits it.
LEMMA MatchedStep ==
  ASSUME TypeOK, ReaderShape, PendMatches, Matched, RowsKept, Next
  PROVE  Matched'
<1> USE DEF store, memory
<1>1. ASSUME NEW s \in Session, NEW k \in Slot, reader'[s][k] = reader[s][k]
      PROVE  ReaderMatch(s, k)'
  <2>1. ReaderMatch(s, k)
    BY DEF Matched
  <2> QED BY <1>1, <2>1 DEF ReaderMatch, RowIs, RowsKept
<1>2. ASSUME NEW s \in Session, NEW k \in Slot, HoldsNothing(reader'[s][k])
      PROVE  ReaderMatch(s, k)'
  BY <1>2 DEF ReaderMatch, HoldsNothing
<1>3. ASSUME NEW s \in Session, NEW k \in Slot, NEW q, ReaderMatch(s, k)',
             reader' = [reader EXCEPT ![s][k] = q]
      PROVE  Matched'
  <2>1. ASSUME NEW t \in Session, NEW l \in Slot PROVE ReaderMatch(t, l)'
    <3>1. CASE t = s /\ l = k
      BY <1>3, <3>1
    <3>2. CASE ~(t = s /\ l = k)
      BY <1>1, <1>3, <3>2, Others
    <3> QED BY <3>1, <3>2
  <2> QED BY <2>1 DEF Matched
<1>4. ASSUME NEW s \in Session, NEW k \in Slot, NEW q, HoldsNothing(q),
             reader' = [reader EXCEPT ![s][k] = q]
      PROVE  Matched'
  <2>1. reader'[s][k] = q
    BY <1>4, Others
  <2>2. ReaderMatch(s, k)'
    BY <1>2, <1>4, <2>1
  <2> QED BY <1>3, <1>4, <2>2
<1>5. CASE reader' = reader
  BY <1>1, <1>5 DEF Matched
<1>6. /\ \A u, i : HoldsNothing(ReaderAt("read", u, i))
      /\ HoldsNothing(NoReader)
  BY DEF ReaderAt, NoReader, HoldsNothing
<1>7. ASSUME NEW s \in Session, Spawn(s) PROVE Matched'
  <2>1. PICK k \in Slot, u \in Fresh \cup ({base[s]} \ {NoId}) :
          reader' = [reader EXCEPT ![s][k] = ReaderAt("read", u, 0)]
    BY <1>7 DEF Spawn
  <2> DEFINE q == ReaderAt("read", u, 0)
  <2>2. HoldsNothing(q) /\ reader' = [reader EXCEPT ![s][k] = q]
    BY <1>6, <2>1
  <2> HIDE DEF q
  <2> QED BY <1>4, <2>2
<1>8. ASSUME NEW s \in Session, Crash(s) PROVE Matched'
  <2>1. \A t \in Session, l \in Slot : reader'[t][l] = reader[t][l] \/ HoldsNothing(reader'[t][l])
    BY <1>6, <1>8 DEF Crash, TypeOK
  <2> QED BY <1>1, <1>2, <2>1 DEF Matched
<1>9. ASSUME NEW s \in Session, NEW k \in Slot, readInit(s, k) PROVE Matched'
  <2> DEFINE r == reader[s][k]
             p == pend[s]
             took(where) == [r EXCEPT !.pc = where, !.wal = p.wal, !.intent = p.intent,
                                      !.parent = p.parent]
  <2>1. r \in Reader /\ p \in PendType /\ r.pc = "read"
    BY <1>9 DEF TypeOK, readInit
  <2>2. \/ reader' = [reader EXCEPT ![s][k] = r]
        \/ reader' = [reader EXCEPT ![s][k] = took("upsert")]
        \/ /\ reader' = [reader EXCEPT ![s][k] = took("sequence")]
           /\ (p.intent \in {"start", "fork"} /\ p.wal # 0) \/ p.intent = "resume"
    BY <1>9 DEF readInit
  <2>3. HoldsNothing(r) /\ HoldsNothing(took("upsert"))
    BY <2>1 DEF Reader, HoldsNothing
  <2>4. CASE reader' = [reader EXCEPT ![s][k] = r] \/ reader' = [reader EXCEPT ![s][k] = took("upsert")]
    <3> HIDE DEF took, r
    <3> QED BY <1>4, <2>1, <2>3, <2>4
  <2>5. CASE /\ reader' = [reader EXCEPT ![s][k] = took("sequence")]
             /\ (p.intent \in {"start", "fork"} /\ p.wal # 0) \/ p.intent = "resume"
    <3>1. /\ took("sequence").pc = "sequence" /\ took("sequence").wal = p.wal
          /\ took("sequence").intent = p.intent /\ took("sequence").parent = p.parent
      BY <2>1 DEF Reader
    <3> HIDE DEF took
    <3>2. reader'[s][k] = took("sequence")
      BY <2>5, Others
    <3>3. p.intent = "resume" => p.wal = 0
      BY DEF PendMatches
    <3>4. p.intent # "resume" => RowIs(p.wal, s, p.intent, p.parent)
      BY <2>5 DEF PendMatches
    <3>5. p.intent # "resume" => /\ p.wal \in WalId /\ wal'[p.wal].status # "free"
                                /\ wal'[p.wal].bridge = s /\ wal'[p.wal].intent = p.intent
                                /\ wal'[p.wal].parent = p.parent
      BY <3>4 DEF RowIs, RowsKept
    <3>6. ReaderMatch(s, k)'
      BY <3>1, <3>2, <3>3, <3>5 DEF ReaderMatch, RowIs
    <3> QED BY <1>3, <2>5, <3>6
  <2> QED BY <2>2, <2>4, <2>5
<1>10. ASSUME NEW s \in Session, NEW k \in Slot, readSequence(s, k) PROVE Matched'
  <2> DEFINE r == reader[s][k]
             q == [r EXCEPT !.seq = nextSequence(s),
                            !.pc = IF r.intent = "resume" THEN "insert" ELSE "commit"]
  <2>1. r \in Reader /\ r.pc = "sequence"
    BY <1>10 DEF TypeOK, readSequence
  <2>2. /\ q.pc = IF r.intent = "resume" THEN "insert" ELSE "commit"
        /\ q.wal = r.wal /\ q.intent = r.intent /\ q.parent = r.parent
    BY <2>1 DEF Reader
  <2>3. reader' = [reader EXCEPT ![s][k] = q]
    BY <1>10 DEF readSequence
  <2>4. reader'[s][k] = q
    <3> HIDE DEF q
    <3> QED BY <2>3, Others
  <2>5. r.intent # "resume" => RowIs(r.wal, s, r.intent, r.parent)
    BY <2>1 DEF Matched, ReaderMatch
  <2> HIDE DEF q
  <2>6. ReaderMatch(s, k)'
    BY <2>2, <2>4, <2>5 DEF ReaderMatch, RowIs, RowsKept
  <2> QED BY <1>3, <2>3, <2>6
<1>11. ASSUME NEW s \in Session, NEW k \in Slot, commitRotation(s, k) PROVE Matched'
  <2> DEFINE r == reader[s][k]
             q == [r EXCEPT !.pc = "insert"]
  <2>1. r \in Reader /\ r.pc = "commit" /\ r.intent # "resume"
    BY <1>11 DEF TypeOK, commitRotation, ReaderShape, Shape
  <2>2. q.pc = "insert" /\ q.wal = r.wal /\ q.intent = r.intent /\ q.parent = r.parent
        /\ q.uuid = r.uuid
    BY <2>1 DEF Reader
  <2>3. RowIs(r.wal, s, r.intent, r.parent)
    BY <2>1 DEF Matched, ReaderMatch
  <2>4. CASE CommitWAL(r.wal, r.uuid) /\ reader' = [reader EXCEPT ![s][k] = q]
    <3>1. reader'[s][k] = q
      <4> HIDE DEF q
      <4> QED BY <2>4, Others
    <3>2. wal[r.wal] \in WALRow
      <4>1. wal[r.wal] \in WALRow \cup {FreeRow} /\ FreeRow.status = "free"
        BY <2>3 DEF TypeOK, RowIs, FreeRow
      <4> QED BY <2>3, <4>1 DEF RowIs
    <3>3. wal'[r.wal].status = "committed" /\ wal'[r.wal].newId = r.uuid
      BY <2>3, <2>4, <3>2 DEF CommitWAL, RowIs, TypeOK, WALRow
    <3> HIDE DEF q
    <3>4. ReaderMatch(s, k)'
      BY <2>2, <2>3, <3>1, <3>3 DEF ReaderMatch, RowIs, RowsKept
    <3> QED BY <1>3, <2>4, <3>4
  <2>5. CASE reader' = [reader EXCEPT ![s][k] = ReaderAt("read", r.uuid, 0)]
    <3> DEFINE n == ReaderAt("read", r.uuid, 0)
    <3>1. HoldsNothing(n) /\ reader' = [reader EXCEPT ![s][k] = n]
      BY <1>6, <2>5
    <3> HIDE DEF n
    <3> QED BY <1>4, <3>1
  <2> QED BY <1>11, <2>1, <2>4, <2>5 DEF commitRotation, TypeOK
<1>12. ASSUME NEW s \in Session, NEW k \in Slot, insertRotation(s, k) PROVE Matched'
  <2> DEFINE q == [reader[s][k] EXCEPT !.pc = "upsert"]
  <2>1. reader' = [reader EXCEPT ![s][k] = q]
    BY <1>12 DEF insertRotation, TypeOK
  <2>2. HoldsNothing(q)
    <3>1. reader[s][k] \in Reader
      BY DEF TypeOK
    <3> QED BY <3>1 DEF Reader, HoldsNothing
  <2> HIDE DEF q
  <2> QED BY <1>4, <2>1, <2>2
<1>13. ASSUME NEW s \in Session, NEW k \in Slot, handleProcessExit(s, k) PROVE Matched'
  <2>1. CASE reader' = [reader EXCEPT ![s][k] = NoReader]
    <3> HIDE DEF NoReader
    <3> QED BY <1>4, <1>6, <2>1
  <2>2. CASE /\ pend[s].wal # 0
             /\ reader' = [reader EXCEPT ![s][k] = ReaderAt("orphan", NoId, pend[s].wal)]
    <3> DEFINE n == ReaderAt("orphan", NoId, pend[s].wal)
    <3>0. n.pc = "orphan" /\ n.wal = pend[s].wal
      BY DEF ReaderAt
    <3> HIDE DEF n
    <3>1. reader'[s][k].pc = "orphan" /\ reader'[s][k].wal = pend[s].wal
      <4>1. reader' = [reader EXCEPT ![s][k] = n]
        BY <2>2 DEF n
      <4>2. reader'[s][k] = n
        BY <4>1, Others
      <4> QED BY <3>0, <4>2
    <3>2. RowIs(pend[s].wal, s, pend[s].intent, pend[s].parent)
      BY <2>2 DEF PendMatches
    <3>3. ReaderMatch(s, k)'
      BY <3>1, <3>2 DEF ReaderMatch, RowIs, RowsKept
    <3> QED BY <1>3, <2>2, <3>3
  <2> QED BY <1>13, <2>1, <2>2 DEF handleProcessExit
<1>14. ASSUME NEW s \in Session, NEW k \in Slot, upsertRotation(s, k) \/ orphanRotation(s, k)
       PROVE  Matched'
  <2>1. CASE upsertRotation(s, k)
    <3> DEFINE n == ReaderAt("read", reader[s][k].uuid, 0)
    <3>1. HoldsNothing(n) /\ reader' = [reader EXCEPT ![s][k] = n]
      BY <1>6, <2>1 DEF upsertRotation
    <3> HIDE DEF n
    <3> QED BY <1>4, <3>1
  <2>2. CASE orphanRotation(s, k)
    <3>1. reader' = [reader EXCEPT ![s][k] = NoReader]
      BY <2>2 DEF orphanRotation
    <3> QED BY <1>4, <1>6, <3>1
  <2> QED BY <1>14, <2>1, <2>2
<1> QED
  <2>1. CASE reader' # reader
    BY <1>7, <1>8, <1>9, <1>10, <1>11, <1>12, <1>13, <1>14, <2>1
    DEF Next, Dispatcher, ReaderStep, Boot, recoverOrphansOnBoot, BootDone, StartCold,
        StageCold, StartFork, StartResume, RespawnForMessage, handleResume, Resume,
        ReceiverFails, SpawnFails, Unstage, StdoutEnds, ProcessExits
  <2> QED BY <1>5, <2>1

-----------------------------------------------------------------------------
(* No two places of a harness hold the same row.                           *)

TakesPending(q, s) == q.wal = pend[s].wal
Claims(r) == r.pc \in {"sequence", "commit", "orphan"}

\* A reader that holds a row holds one of the log's rows in use.
LEMMA HeldInUse ==
  ASSUME TypeOK, ReaderShape, Matched, NEW s \in Session, NEW k \in Slot, NEW i \in WalId,
         HeldByReader(s, k, i)
  PROVE  wal[i].status # "free" /\ wal[i].bridge = s
<1>1. reader[s][k].wal = i /\ Claims(reader[s][k]) /\ i # 0
  BY Bound DEF HeldByReader, Claims, WalId
<1> QED BY <1>1 DEF Claims, Matched, ReaderMatch, RowIs, ReaderShape, Shape

\* A row is staged only as it is opened; after that a claim on it is dropped
\* or handed from one place to another, never copied.
LEMMA DisjointStep ==
  ASSUME TypeOK, ReaderShape, RowsAllocated, PendMatches, Matched, Disjoint, Next
  PROVE  Disjoint'
<1> USE DEF store, memory
<1>1. ASSUME \A s \in Session, i \in WalId : pend'[s].wal = i => pend[s].wal = i,
             \A s \in Session, k \in Slot, i \in WalId :
               HeldByReader(s, k, i)' => HeldByReader(s, k, i),
             \A s \in Session, i \in WalId : HeldByDispatcher(s, i)' => HeldByDispatcher(s, i)
      PROVE  Disjoint'
  BY <1>1 DEF Disjoint
<1>2. (\A s \in Session : pend'[s] = pend[s] \/ pend'[s].wal = 0)
        => \A s \in Session, i \in WalId : pend'[s].wal = i => pend[s].wal = i
  BY Bound DEF WalId
<1>3. (\A s \in Session, k \in Slot :
          \/ reader'[s][k] = reader[s][k]
          \/ HoldsNothing(reader'[s][k]) \/ reader'[s][k].pc = "insert"
          \/ reader'[s][k].wal = reader[s][k].wal /\ Claims(reader[s][k]))
        => \A s \in Session, k \in Slot, i \in WalId :
             HeldByReader(s, k, i)' => HeldByReader(s, k, i)
  BY DEF HeldByReader, HoldsNothing, Claims
<1>4. (\A s \in Session : (pc'[s] = "unstage" => pc[s] = "unstage") /\ todo'[s] \subseteq todo[s])
        => \A s \in Session, i \in WalId : HeldByDispatcher(s, i)' => HeldByDispatcher(s, i)
  BY DEF HeldByDispatcher
<1> DEFINE SamePend == \A s \in Session : pend'[s] = pend[s] \/ pend'[s].wal = 0
           SameDispatcher == \A s \in Session :
             (pc'[s] = "unstage" => pc[s] = "unstage") /\ todo'[s] \subseteq todo[s]
           SameReaders == \A s \in Session, k \in Slot, i \in WalId :
             HeldByReader(s, k, i)' => HeldByReader(s, k, i)
<1>5. SamePend /\ SameReaders /\ SameDispatcher => Disjoint'
  BY <1>1, <1>2, <1>4
<1>6. reader' = reader => SameReaders
  BY <1>3
<1>7. pend' = pend => SamePend
  OBVIOUS
<1>8. ASSUME NEW s \in Session, pend' = [pend EXCEPT ![s] = NoPend] PROVE SamePend
  <2>1. \A t \in Session : pend'[t] = pend[t] \/ pend'[t] = NoPend
    BY <1>8 DEF TypeOK
  <2>2. NoPend.wal = 0
    BY DEF NoPend
  <2> QED BY <2>1, <2>2
<1>9. ASSUME NEW s \in Session, NEW where, where # "unstage", pc' = [pc EXCEPT ![s] = where],
             todo' = todo
      PROVE  SameDispatcher
  BY <1>9 DEF TypeOK
<1>10. pc' = pc /\ todo' = todo => SameDispatcher
  OBVIOUS
<1>11. ASSUME NEW s \in Session, NEW k \in Slot, NEW q, HoldsNothing(q),
              reader' = [reader EXCEPT ![s][k] = q]
       PROVE  SameReaders
  BY <1>3, <1>11, Others
<1>12. /\ \A u, i : HoldsNothing(ReaderAt("read", u, i))
       /\ HoldsNothing(NoReader)
  BY DEF ReaderAt, NoReader, HoldsNothing
<1> HIDE DEF SamePend, SameDispatcher, SameReaders
<1>13. ASSUME NEW s \in Session, NEW kind \in {"start", "fork"}, NEW p \in Id,
              walRows < MaxRows, reader' = reader, todo' = todo, pc' = [pc EXCEPT ![s] = "spawn"],
              pend' = [pend EXCEPT ![s] = [wal |-> walRows + 1, intent |-> kind, parent |-> p]]
       PROVE  Disjoint'
  <2> DEFINE n == walRows + 1
  <2>1. n \in WalId /\ wal[n].status = "free"
    <3>1. n \in WalId /\ n > walRows
      BY <1>13, Bound DEF TypeOK, WalId
    <3> QED BY <3>1 DEF RowsAllocated
  <2>2. pend'[s].wal = n /\ \A t \in Session \ {s} : pend'[t] = pend[t]
    BY <1>13 DEF TypeOK
  <2>3. pc'[s] = "spawn" /\ \A t \in Session \ {s} : pc'[t] = pc[t]
    BY <1>13 DEF TypeOK
  <2> HIDE DEF n
  <2>4. \A t \in Session, k \in Slot, i \in WalId : HeldByReader(t, k, i)' <=> HeldByReader(t, k, i)
    BY <1>13 DEF HeldByReader
  <2>5. \A k \in Slot : ~HeldByReader(s, k, n)
    BY <2>1, HeldInUse
  <2>6. \A i \in WalId : ~HeldByDispatcher(s, i)'
    BY <2>3 DEF HeldByDispatcher
  <2>7. \A t \in Session \ {s}, i \in WalId : HeldByDispatcher(t, i)' <=> HeldByDispatcher(t, i)
    BY <1>13, <2>3 DEF HeldByDispatcher
  <2>8. ASSUME NEW t \in Session \ {s}, NEW i \in WalId
        PROVE  /\ pend'[t].wal = i =>
                    ~HeldByDispatcher(t, i)' /\ \A k \in Slot : ~HeldByReader(t, k, i)'
               /\ \A k \in Slot : HeldByReader(t, k, i)' =>
                    ~HeldByDispatcher(t, i)' /\ \A l \in Slot \ {k} : ~HeldByReader(t, l, i)'
    BY <2>2, <2>4, <2>7, <2>8 DEF Disjoint
  <2>9. ASSUME NEW i \in WalId
        PROVE  /\ pend'[s].wal = i =>
                    ~HeldByDispatcher(s, i)' /\ \A k \in Slot : ~HeldByReader(s, k, i)'
               /\ \A k \in Slot : HeldByReader(s, k, i)' =>
                    ~HeldByDispatcher(s, i)' /\ \A l \in Slot \ {k} : ~HeldByReader(s, l, i)'
    BY <2>2, <2>4, <2>5, <2>6, <2>9 DEF Disjoint
  <2> QED BY <2>8, <2>9 DEF Disjoint
<1>14. ASSUME NEW s \in Session, StageCold(s) PROVE Disjoint'
  <2>1. CASE /\ walRows < MaxRows
             /\ Stage(s, [wal |-> walRows + 1, intent |-> "start", parent |-> NoId], NoId)
    BY <1>13, <1>14, <2>1, Ids DEF StageCold, Stage
  <2>2. CASE pend' = pend /\ pc' = [pc EXCEPT ![s] = "idle"]
    BY <1>5, <1>6, <1>7, <1>9, <1>14, <2>2 DEF StageCold
  <2> QED BY <1>14, <2>1, <2>2 DEF StageCold
<1>15. ASSUME NEW s \in Session, NEW u \in Id, StartFork(s, u) PROVE Disjoint'
  <2>1. CASE /\ walRows < MaxRows
             /\ Stage(s, [wal |-> walRows + 1, intent |-> "fork", parent |-> u], NoId)
    BY <1>13, <1>15, <2>1 DEF StartFork, Stage
  <2>2. CASE pend' = pend /\ pc' = [pc EXCEPT ![s] = "idle"]
    BY <1>5, <1>6, <1>7, <1>9, <1>15, <2>2 DEF StartFork
  <2> QED BY <1>15, <2>1, <2>2 DEF StartFork
<1>16. ASSUME NEW s \in Session, NEW u, Resume(s, u) PROVE Disjoint'
  <2>1. SamePend
    <3>1. \A t \in Session : pend'[t] = pend[t] \/ pend'[t].wal = 0
      BY <1>16 DEF Resume, Stage, TypeOK
    <3> QED BY <3>1 DEF SamePend
  <2>2. SameDispatcher
    BY <1>9, <1>16 DEF Resume, Stage
  <2> QED BY <1>5, <1>6, <1>16, <2>1, <2>2 DEF Resume
<1>17. ASSUME NEW s \in Session, SpawnFails(s) PROVE Disjoint'
  <2>1. pend'[s].wal = 0 /\ \A t \in Session \ {s} : pend'[t] = pend[t]
    BY <1>17 DEF SpawnFails, ClearPending, NoPend, TypeOK
  <2>2. \A t \in Session, k \in Slot, i \in WalId : HeldByReader(t, k, i)' <=> HeldByReader(t, k, i)
    BY <1>17 DEF SpawnFails, HeldByReader
  <2>3. \A t \in Session \ {s}, i \in WalId : HeldByDispatcher(t, i)' <=> HeldByDispatcher(t, i)
    BY <1>17 DEF SpawnFails, HeldByDispatcher, TypeOK
  <2>4. \A i \in WalId : HeldByDispatcher(s, i)' => pend[s].wal = i
    BY <1>17 DEF SpawnFails, HeldByDispatcher, TypeOK
  <2>5. \A i \in WalId : pend'[s].wal # i
    BY <2>1, Bound DEF WalId
  <2> QED BY <2>1, <2>2, <2>3, <2>4, <2>5 DEF Disjoint
<1>18. ASSUME NEW s \in Session, Unstage(s) PROVE Disjoint'
  <2>1. SameDispatcher
    BY <1>18 DEF Unstage, SameDispatcher, TypeOK
  <2> QED BY <1>5, <1>6, <1>7, <1>18, <2>1 DEF Unstage
<1>19. ASSUME NEW s \in Session, Spawn(s) PROVE Disjoint'
  <2>1. PICK k \in Slot, u \in Fresh \cup ({base[s]} \ {NoId}) :
          reader' = [reader EXCEPT ![s][k] = ReaderAt("read", u, 0)]
    BY <1>19 DEF Spawn
  <2> DEFINE q == ReaderAt("read", u, 0)
  <2>2. HoldsNothing(q) /\ reader' = [reader EXCEPT ![s][k] = q]
    BY <1>12, <2>1
  <2> HIDE DEF q
  <2>3. SameReaders
    BY <1>11, <2>2
  <2> QED BY <1>5, <1>7, <1>9, <1>19, <2>3 DEF Spawn
<1>20. ASSUME NEW s \in Session, StartCold(s) \/ ReceiverFails(s) PROVE Disjoint'
  BY <1>5, <1>6, <1>7, <1>9, <1>20 DEF StartCold, ReceiverFails
<1>21. ASSUME NEW s \in Session, Boot(s) PROVE Disjoint'
  <2>1. \A t \in Session, i \in WalId : HeldByDispatcher(t, i)' => HeldByDispatcher(t, i)
    BY <1>21 DEF Boot, HeldByDispatcher, TypeOK
  <2>2. SamePend /\ SameReaders
    BY <1>6, <1>7, <1>21 DEF Boot
  <2> QED BY <1>1, <1>2, <2>1, <2>2 DEF SamePend, SameReaders
<1>22. ASSUME NEW s \in Session, recoverOrphansOnBoot(s) \/ BootDone(s) PROVE Disjoint'
  <2>1. SameDispatcher
    BY <1>22 DEF recoverOrphansOnBoot, BootDone, SameDispatcher, TypeOK
  <2> QED BY <1>5, <1>6, <1>7, <1>22, <2>1 DEF recoverOrphansOnBoot, BootDone
<1>23. ASSUME NEW s \in Session, Crash(s) PROVE Disjoint'
  <2>1. SameDispatcher
    BY <1>23 DEF Crash, SameDispatcher, TypeOK
  <2>2. SamePend
    BY <1>8, <1>23 DEF Crash
  <2>3. \A t \in Session, l \in Slot : reader'[t][l] = reader[t][l] \/ HoldsNothing(reader'[t][l])
    BY <1>12, <1>23 DEF Crash, TypeOK
  <2>4. SameReaders
    BY <1>3, <2>3 DEF SameReaders
  <2> QED BY <1>5, <2>1, <2>2, <2>4
<1>24. ASSUME NEW s \in Session, NEW k \in Slot, NEW q, TakesPending(q, s),
              reader' = [reader EXCEPT ![s][k] = q], pend' = [pend EXCEPT ![s] = NoPend],
              pc' = pc, todo' = todo
       PROVE  Disjoint'
  <2>a. reader' = [reader EXCEPT ![s][k] = q]
    BY <1>24
  <2>0. \A t \in Session, l \in Slot :
          reader'[t][l] = IF t = s /\ l = k THEN q ELSE reader[t][l]
    BY <2>a DEF TypeOK
  <2>1. reader'[s][k] = q /\ \A t \in Session, l \in Slot :
          (t # s \/ l # k) => reader'[t][l] = reader[t][l]
    BY <2>0
  <2>2. pend'[s].wal = 0 /\ \A t \in Session \ {s} : pend'[t] = pend[t]
    BY <1>24 DEF NoPend, TypeOK
  <2>3. \A i \in WalId : pend'[s].wal # i
    BY <2>2, Bound DEF WalId
  <2>4. \A t \in Session, i \in WalId : HeldByDispatcher(t, i)' <=> HeldByDispatcher(t, i)
    BY <1>24 DEF HeldByDispatcher
  <2>5. \A i \in WalId : HeldByReader(s, k, i)' => pend[s].wal = i
    BY <1>24, <2>1 DEF HeldByReader, TakesPending
  <2>6. \A t \in Session, l \in Slot, i \in WalId :
          (t # s \/ l # k) => (HeldByReader(t, l, i)' <=> HeldByReader(t, l, i))
    BY <2>1 DEF HeldByReader
  <2>7. ASSUME NEW t \in Session \ {s}, NEW i \in WalId
        PROVE  /\ pend'[t].wal = i =>
                    ~HeldByDispatcher(t, i)' /\ \A l \in Slot : ~HeldByReader(t, l, i)'
               /\ \A l \in Slot : HeldByReader(t, l, i)' =>
                    ~HeldByDispatcher(t, i)' /\ \A m \in Slot \ {l} : ~HeldByReader(t, m, i)'
    BY <2>2, <2>4, <2>6, <2>7 DEF Disjoint
  <2>8. ASSUME NEW i \in WalId, NEW l \in Slot, HeldByReader(s, l, i)'
        PROVE  ~HeldByDispatcher(s, i)' /\ \A m \in Slot \ {l} : ~HeldByReader(s, m, i)'
    <3>1. CASE l = k
      <4>1. pend[s].wal = i
        BY <2>5, <2>8, <3>1
      <4> QED BY <2>4, <2>6, <3>1, <4>1 DEF Disjoint
    <3>2. CASE l # k
      <4>1. HeldByReader(s, l, i)
        BY <2>6, <2>8, <3>2
      <4>2. pend[s].wal # i
        BY <4>1 DEF Disjoint
      <4> QED BY <2>4, <2>5, <2>6, <3>2, <4>1, <4>2 DEF Disjoint
    <3> QED BY <3>1, <3>2
  <2> QED BY <2>3, <2>7, <2>8 DEF Disjoint
<1>25. ASSUME NEW s \in Session, NEW k \in Slot, readInit(s, k) PROVE Disjoint'
  <2> DEFINE r == reader[s][k]
             took(where) == [r EXCEPT !.pc = where, !.wal = pend[s].wal,
                                      !.intent = pend[s].intent, !.parent = pend[s].parent]
             q == took("sequence")
             p == took("upsert")
  <2>1. r \in Reader /\ r.pc = "read"
    BY <1>25 DEF TypeOK, readInit
  <2>2. /\ HoldsNothing(r) /\ HoldsNothing(p)
        /\ TakesPending(q, s)
    BY <2>1 DEF Reader, HoldsNothing, TakesPending
  <2>3. \/ reader' = [reader EXCEPT ![s][k] = r]
        \/ reader' = [reader EXCEPT ![s][k] = p]
        \/ reader' = [reader EXCEPT ![s][k] = q]
    BY <1>25 DEF readInit
  <2>4. pend' = [pend EXCEPT ![s] = NoPend] /\ pc' = pc /\ todo' = todo
    BY <1>25 DEF readInit, ClearPending
  <2> HIDE DEF r, p, q, took
  <2>5. CASE reader' = [reader EXCEPT ![s][k] = r] \/ reader' = [reader EXCEPT ![s][k] = p]
    <3>1. SameReaders
      BY <1>11, <2>2, <2>5
    <3> QED BY <1>5, <1>8, <1>10, <2>4, <3>1
  <2>6. CASE reader' = [reader EXCEPT ![s][k] = q]
    BY <1>24, <2>2, <2>4, <2>6
  <2> QED BY <2>3, <2>5, <2>6
<1>26. ASSUME NEW s \in Session, NEW k \in Slot, handleProcessExit(s, k) PROVE Disjoint'
  <2>0. pc' = pc /\ todo' = todo
    BY <1>26 DEF handleProcessExit
  <2>1. CASE /\ reader' = [reader EXCEPT ![s][k] = NoReader]
             /\ pend' = pend \/ pend' = [pend EXCEPT ![s] = NoPend]
    <3>1. SameReaders
      BY <1>11, <1>12, <2>1
    <3> QED BY <1>5, <1>7, <1>8, <1>10, <2>0, <2>1, <3>1
  <2>2. CASE /\ reader' = [reader EXCEPT ![s][k] = ReaderAt("orphan", NoId, pend[s].wal)]
             /\ pend' = [pend EXCEPT ![s] = NoPend]
    <3> DEFINE q == ReaderAt("orphan", NoId, pend[s].wal)
    <3>1. TakesPending(q, s) /\ reader' = [reader EXCEPT ![s][k] = q]
      BY <2>2 DEF ReaderAt, TakesPending
    <3> HIDE DEF q
    <3> QED BY <1>24, <2>0, <2>2, <3>1
  <2> QED BY <1>26, <2>1, <2>2 DEF handleProcessExit, ClearPending
<1>27. ASSUME NEW s \in Session, NEW k \in Slot, readSequence(s, k) PROVE Disjoint'
  <2> DEFINE r == reader[s][k]
             q == [r EXCEPT !.seq = nextSequence(s),
                            !.pc = IF r.intent = "resume" THEN "insert" ELSE "commit"]
  <2>1. r \in Reader /\ Claims(r)
    BY <1>27 DEF TypeOK, readSequence, Claims
  <2>2. q.wal = r.wal /\ reader' = [reader EXCEPT ![s][k] = q]
    BY <1>27, <2>1 DEF Reader, readSequence
  <2> HIDE DEF q
  <2>3. \A t \in Session, l \in Slot :
          \/ reader'[t][l] = reader[t][l]
          \/ reader'[t][l].wal = reader[t][l].wal /\ Claims(reader[t][l])
    BY <2>1, <2>2, Others
  <2>4. SameReaders
    BY <1>3, <2>3 DEF SameReaders
  <2> QED BY <1>5, <1>7, <1>10, <1>27, <2>4 DEF readSequence
<1>28. ASSUME NEW s \in Session, NEW k \in Slot, commitRotation(s, k) PROVE Disjoint'
  <2> DEFINE r == reader[s][k]
             q == [r EXCEPT !.pc = "insert"]
             n == ReaderAt("read", r.uuid, 0)
  <2>1. r \in Reader
    BY DEF TypeOK
  <2>2. q.pc = "insert" /\ HoldsNothing(n)
    BY <1>12, <2>1 DEF Reader
  <2>3. reader' = [reader EXCEPT ![s][k] = q] \/ reader' = [reader EXCEPT ![s][k] = n]
    BY <1>28 DEF commitRotation, TypeOK
  <2> HIDE DEF q, n
  <2>6. SameReaders
    <3>1. CASE reader' = [reader EXCEPT ![s][k] = q]
      <4>1. \A t \in Session, l \in Slot :
              reader'[t][l] = reader[t][l] \/ reader'[t][l].pc = "insert"
        BY <2>2, <3>1, Others
      <4> QED BY <1>3, <4>1 DEF SameReaders
    <3>2. CASE reader' = [reader EXCEPT ![s][k] = n]
      BY <1>11, <2>2, <3>2
    <3> QED BY <2>3, <3>1, <3>2
  <2> QED BY <1>5, <1>7, <1>10, <1>28, <2>6 DEF commitRotation
<1>29. ASSUME NEW s \in Session, NEW k \in Slot,
              insertRotation(s, k) \/ upsertRotation(s, k) \/ orphanRotation(s, k)
       PROVE  Disjoint'
  <2> DEFINE q == [reader[s][k] EXCEPT !.pc = "upsert"]
             n == ReaderAt("read", reader[s][k].uuid, 0)
  <2>1. HoldsNothing(q) /\ HoldsNothing(n)
    <3>1. reader[s][k] \in Reader
      BY DEF TypeOK
    <3> QED BY <1>12, <3>1 DEF Reader, HoldsNothing
  <2>2. \/ reader' = [reader EXCEPT ![s][k] = q]
        \/ reader' = [reader EXCEPT ![s][k] = n]
        \/ reader' = [reader EXCEPT ![s][k] = NoReader]
    BY <1>29 DEF insertRotation, upsertRotation, orphanRotation, TypeOK
  <2> HIDE DEF q, n
  <2>3. SameReaders
    BY <1>11, <1>12, <2>1, <2>2
  <2>4. pend' = pend /\ pc' = pc /\ todo' = todo
    BY <1>29 DEF insertRotation, upsertRotation, orphanRotation
  <2> QED BY <1>5, <1>7, <1>10, <2>3, <2>4
<1>30. ASSUME NEW s \in Session, NEW k \in Slot, StdoutEnds(s, k) \/ ProcessExits(s, k)
       PROVE  Disjoint'
  BY <1>5, <1>6, <1>7, <1>10, <1>30 DEF StdoutEnds, ProcessExits
<1>31. ASSUME NEW s \in Session, Dispatcher(s) PROVE Disjoint'
  <2>1. \A p \in Session : known[p] \in Id
    BY DEF TypeOK
  <2> QED BY <1>14, <1>15, <1>16, <1>17, <1>18, <1>19, <1>20, <1>31, <2>1
          DEF Dispatcher, StartResume, RespawnForMessage, handleResume
<1> QED BY <1>21, <1>22, <1>23, <1>25, <1>26, <1>27, <1>28, <1>29, <1>30, <1>31
        DEF Next, ReaderStep

-----------------------------------------------------------------------------
(* The chain is backed by the log.                                         *)

\* What an insert adds: nothing, or a row that says what the reader took.
LEMMA Inserted ==
  ASSUME TypeOK, ReaderShape, Matched, NEW s \in Session, NEW k \in Slot, insertRotation(s, k)
  PROVE  \/ rollouts' = rollouts
         \/ \E u \in UUID, row \in RolloutRow :
              /\ rollouts[u] = NoRow
              /\ rollouts' = [rollouts EXCEPT ![u] = row]
              /\ row.kind # "resume" =>
                   \E i \in WalId : /\ wal[i].status = "committed" /\ wal[i].newId = u
                                    /\ wal[i].bridge = row.bridge
                                    /\ wal[i].intent = row.kind /\ wal[i].parent = row.parent
<1> DEFINE r == reader[s][k]
           row == [bridge |-> s, seq |-> r.seq, parent |-> r.parent, kind |-> r.intent]
<1>1. r \in Reader /\ Shape(r) /\ r.pc = "insert" /\ ReaderMatch(s, k)
  BY DEF TypeOK, ReaderShape, Matched, insertRotation
<1>2. r.uuid \in UUID /\ row \in RolloutRow
  BY <1>1 DEF Shape, Reader, RolloutRow
<1>3. row.bridge = s /\ row.parent = r.parent /\ row.kind = r.intent
  OBVIOUS
<1>4. r.intent # "resume" =>
        /\ r.wal \in WalId /\ wal[r.wal].status = "committed" /\ wal[r.wal].newId = r.uuid
        /\ wal[r.wal].bridge = s /\ wal[r.wal].intent = r.intent
        /\ wal[r.wal].parent = r.parent
  BY <1>1 DEF ReaderMatch, RowIs
<1>5. \/ rollouts' = rollouts
      \/ rollouts[r.uuid] = NoRow /\ rollouts' = [rollouts EXCEPT ![r.uuid] = row]
  BY DEF insertRotation, InsertRollout
<1> HIDE DEF row
<1> QED BY <1>2, <1>3, <1>4, <1>5

\* A new start or fork rollout has its committed row, and no step takes the
\* row of an old one away.
LEMMA BackedStep ==
  ASSUME TypeOK, ReaderShape, RowsAllocated, Matched, RolloutBacked, RowsKept, Next
  PROVE  RolloutBacked'
<1>1. CASE rollouts' = rollouts
  BY <1>1 DEF RolloutBacked, Backs, RowsKept
<1>2. ASSUME NEW s \in Session, NEW k \in Slot, insertRotation(s, k)
      PROVE  RolloutBacked'
  <2>1. wal' = wal
    BY <1>2 DEF insertRotation
  <2>2. ASSUME NEW u \in UUID, NEW row \in RolloutRow,
               rollouts' = [rollouts EXCEPT ![u] = row],
               row.kind # "resume" =>
                 \E i \in WalId : /\ wal[i].status = "committed" /\ wal[i].newId = u
                                  /\ wal[i].bridge = row.bridge
                                  /\ wal[i].intent = row.kind /\ wal[i].parent = row.parent
        PROVE  RolloutBacked'
    <3>1. rollouts'[u] = row /\ \A v \in UUID \ {u} : rollouts'[v] = rollouts[v]
      BY <2>2 DEF TypeOK
    <3> QED BY <2>1, <2>2, <3>1 DEF RolloutBacked, Backs
  <2> QED BY <1>1, <1>2, <2>2, Inserted
<1> QED BY <1>1, <1>2, RolloutsChange

-----------------------------------------------------------------------------
(* The inductive invariant and what follows from it.                       *)

\* Init establishes the invariant.
LEMMA InvInit == Init => IInv
<1> SUFFICES ASSUME Init PROVE IInv
  OBVIOUS
<1>1. TypeOK /\ ReaderShape /\ SeqBounded
  BY TypeInit
<1>2. RowsAllocated
  <2>1. walRows = 0 /\ \A i \in WalId : wal[i] = FreeRow
    BY DEF Init
  <2>2. \A i \in WalId : i > 0
    BY Bound DEF WalId
  <2>3. FreeRow.status = "free"
    BY DEF FreeRow
  <2> QED BY <2>1, <2>2, <2>3 DEF RowsAllocated
<1>3. \A s \in Session : pend[s].wal = 0 /\ pc[s] = "down"
  BY DEF Init, NoPend
<1>4. \A s \in Session, k \in Slot : reader[s][k].pc = "none"
  BY DEF Init, NoReader, ReaderAt
<1>5. PendMatches
  BY <1>3 DEF PendMatches
<1>6. Matched
  BY <1>4 DEF Matched, ReaderMatch
<1>7. Disjoint
  BY <1>3, <1>4, Bound DEF Disjoint, HeldByReader, HeldByDispatcher, WalId
<1>8. RolloutBacked
  BY DEF Init, RolloutBacked
<1> QED BY <1>1, <1>2, <1>5, <1>6, <1>7, <1>8 DEF IInv

\* Every step keeps it.
LEMMA InvStep == IInv /\ [Next]_vars => IInv'
<1> SUFFICES ASSUME IInv, [Next]_vars PROVE IInv'
  OBVIOUS
<1> USE DEF IInv
<1>1. CASE Next
  <2>1. RowsKept /\ RowsAllocated'
    BY <1>1, LogSteps, RowsStep
  <2>2. TypeOK' /\ ReaderShape' /\ SeqBounded'
    BY <1>1, TypeStep, ShapeStep, SeqStep
  <2>3. PendMatches' /\ Matched' /\ Disjoint' /\ RolloutBacked'
    BY <1>1, <2>1, PendStep, MatchedStep, DisjointStep, BackedStep
  <2> QED BY <2>1, <2>2, <2>3
<1>2. CASE UNCHANGED vars
  <2>1. TypeOK' /\ ReaderShape' /\ SeqBounded'
    BY <1>2, TypeStutter
  <2>2. RowsAllocated' /\ PendMatches'
    BY <1>2 DEF vars, store, memory, RowsAllocated, PendMatches, RowIs
  <2>3. Matched'
    <3>1. reader' = reader /\ wal' = wal
      BY <1>2 DEF vars, store
    <3>2. Matched
      OBVIOUS
    <3> HIDE DEF IInv
    <3> QED BY <3>1, <3>2 DEF Matched, ReaderMatch, RowIs
  <2>4. Disjoint'
    BY <1>2 DEF vars, store, memory, Disjoint, HeldByReader, HeldByDispatcher
  <2>5. RolloutBacked'
    BY <1>2 DEF vars, store, memory, RolloutBacked, Backs
  <2> QED BY <2>1, <2>2, <2>3, <2>4, <2>5
<1> QED BY <1>1, <1>2

\* The invariant says more than the properties.
LEMMA InvClaims == IInv => ClaimedOnce
<1> SUFFICES ASSUME IInv, NEW s \in Session, NEW i \in WalId
             PROVE  /\ pend[s].wal = i =>
                         /\ wal[i].bridge = s
                         /\ ~HeldByDispatcher(s, i)
                         /\ \A k \in Slot : ~HeldByReader(s, k, i)
                    /\ \A k \in Slot : HeldByReader(s, k, i) =>
                         /\ wal[i].bridge = s
                         /\ ~HeldByDispatcher(s, i)
                         /\ \A l \in Slot \ {k} : ~HeldByReader(s, l, i)
  BY DEF ClaimedOnce
<1>1. pend[s].wal = i => wal[i].bridge = s
  BY Bound DEF IInv, PendMatches, RowIs, WalId
<1>2. \A k \in Slot : HeldByReader(s, k, i) => wal[i].bridge = s
  BY HeldInUse DEF IInv
<1> QED BY <1>1, <1>2 DEF IInv, Disjoint

\* In a run the invariant always holds.
LEMMA Invariant == Spec => []IInv
BY InvInit, InvStep, PTL DEF Spec

\* A wal id has one holder in a harness and is a row of that harness: what
\* recordChainOnInit and clearPendingChain take under the lock, no second
\* reader and no failure path still has.
THEOREM ClaimsUnique == Spec => []ClaimedOnce
BY Invariant, InvClaims, PTL

\* Every start or fork in the chain has the committed wal row of the same
\* session, intent, parent and UUID, however many harnesses share the store,
\* wherever they crash and whichever statements fail.
THEOREM ChainBacked == Spec => []RolloutBacked
<1>1. IInv => RolloutBacked
  BY DEF IInv
<1> QED BY <1>1, Invariant, PTL

-----------------------------------------------------------------------------
(* The store implements the append-only chain behind a write-ahead log.    *)

\* A chain entry is a rollout row without its number, and is not empty.
LEMMA Entries ==
  ASSUME NEW row \in RolloutRow
  PROVE  LET e == [bridge |-> row.bridge, parent |-> row.parent, kind |-> row.kind]
         IN  /\ e \in [bridge : Session, parent : UUID \cup {NoId},
                       kind : {"start", "resume", "fork"}]
             /\ e # NoRow /\ row # NoRow
<1>1. row # NoRow
  BY ChainAssumption DEF RolloutRow, Id, Kind
<1>2. [bridge |-> row.bridge, parent |-> row.parent, kind |-> row.kind]
        \in [bridge : Session, parent : UUID \cup {NoId}, kind : {"start", "resume", "fork"}]
  BY DEF RolloutRow, Id, Kind
<1> QED BY <1>1, <1>2, ChainAssumption

ChainView == [u \in UUID |-> Entry(u)]

\* Every step of the program is a step of the abstract store, or changes
\* nothing in it.
LEMMA LogRefined ==
  ASSUME IInv, Next
  PROVE  Log!Next \/ UNCHANGED <<wal, walRows, ChainView>>
<1> USE DEF IInv
<1>1. LogStep
  BY LogSteps
<1>2. rollouts' = rollouts => ChainView' = ChainView
  BY DEF ChainView, Entry
<1>3. CASE rollouts' = rollouts
  <2>1. CASE UNCHANGED <<wal, walRows>>
    BY <1>2, <1>3, <2>1
  <2>2. CASE walRows' = walRows /\ \E i \in WalId : OrphanWAL(i)
    <3>1. PICK i \in WalId : OrphanWAL(i)
      BY <2>2
    <3>2. CASE wal[i].status = "pending"
      <4>1. Log!Orphan(i)
        BY <1>2, <1>3, <2>2, <3>1, <3>2 DEF OrphanWAL, Log!Orphan, ChainView
      <4> QED BY <4>1 DEF Log!Next, WalId
    <3>3. CASE wal[i].status # "pending"
      BY <1>2, <1>3, <2>2, <3>1, <3>3 DEF OrphanWAL
    <3> QED BY <3>2, <3>3
  <2>3. CASE walRows' = walRows /\ \E i \in WalId, u \in UUID : CommitWAL(i, u)
    <3>1. PICK i \in WalId, u \in UUID : CommitWAL(i, u)
      BY <2>3
    <3>2. Log!Commit(i)
      BY <1>2, <1>3, <2>3, <3>1 DEF CommitWAL, Log!Commit, ChainView
    <3> QED BY <3>2 DEF Log!Next, WalId
  <2>4. CASE /\ walRows < MaxRows
             /\ \E s \in Session, kind \in {"start", "fork"}, p \in Id : InsertWAL(s, kind, p)
    <3>1. Log!Open
      BY <1>2, <1>3, <2>4 DEF InsertWAL, Log!Open, ChainView, Id
    <3> QED BY <3>1 DEF Log!Next
  <2> QED BY <1>1, <2>1, <2>2, <2>3, <2>4 DEF LogStep
<1>4. CASE rollouts' # rollouts
  <2>1. PICK s \in Session, k \in Slot : insertRotation(s, k)
    BY <1>4, RolloutsChange
  <2>2. wal' = wal /\ walRows' = walRows
    BY <2>1 DEF insertRotation
  <2>3. PICK u \in UUID, row \in RolloutRow :
          /\ rollouts[u] = NoRow
          /\ rollouts' = [rollouts EXCEPT ![u] = row]
          /\ row.kind # "resume" =>
               \E i \in WalId : /\ wal[i].status = "committed" /\ wal[i].newId = u
                                /\ wal[i].bridge = row.bridge
                                /\ wal[i].intent = row.kind /\ wal[i].parent = row.parent
    BY <1>4, <2>1, Inserted
  <2> DEFINE e == [bridge |-> row.bridge, parent |-> row.parent, kind |-> row.kind]
  <2>4. /\ e \in [bridge : Session, parent : UUID \cup {NoId},
                  kind : {"start", "resume", "fork"}]
        /\ e # NoRow /\ row # NoRow
    BY Entries
  <2>5. e.bridge = row.bridge /\ e.parent = row.parent /\ e.kind = row.kind
    OBVIOUS
  <2>6. rollouts'[u] = row /\ \A v \in UUID \ {u} : rollouts'[v] = rollouts[v]
    BY <2>3 DEF TypeOK
  <2>7. Entry(u) = NoRow /\ Entry(u)' = e
    BY <2>3, <2>4, <2>6 DEF Entry
  <2>8. \A v \in UUID \ {u} : Entry(v)' = Entry(v)
    BY <2>6 DEF Entry
  <2> HIDE DEF e
  <2>9. /\ ChainView[u] = NoRow /\ ChainView'[u] # NoRow
        /\ ChainView' = [ChainView EXCEPT ![u] = e]
    <3>1. ChainView = [v \in UUID |-> Entry(v)] /\ ChainView' = [v \in UUID |-> Entry(v)']
      BY DEF ChainView
    <3>2. \A v \in UUID : ChainView[v] = Entry(v) /\ ChainView'[v] = Entry(v)'
      BY <3>1
    <3>3. ChainView' = [ChainView EXCEPT ![u] = e]
      BY <2>7, <2>8, <3>1, <3>2
    <3> QED BY <2>4, <2>7, <3>2, <3>3
  <2>10. e.kind = "resume" \/ \E i \in 1..MaxRows : Log!Committed(i, u, e)
    BY <2>3, <2>5 DEF Log!Committed, WalId
  <2>11. Log!Extend(u)
    BY <2>2, <2>4, <2>9, <2>10 DEF Log!Extend, ChainView
  <2> QED BY <2>11 DEF Log!Next
<1> QED BY <1>3, <1>4

\* The harnesses together implement RotationLog: whatever the interleaving,
\* the log is append-only and settles a row once, and the chain gains UUIDs
\* one at a time, each for good, starts and forks only behind their log row.
THEOREM Refinement == Spec => RotationLog
<1>1. Init => Log!Init
  <2> SUFFICES ASSUME Init PROVE Log!Init
    OBVIOUS
  <2>1. walRows = 0 /\ \A i \in WalId : wal[i] = FreeRow
    BY DEF Init
  <2>2. FreeRow.status = "free"
    BY DEF FreeRow
  <2>3. [u \in UUID |-> Entry(u)] = [u \in UUID |-> NoRow]
    BY DEF Init, Entry
  <2> QED BY <2>1, <2>2, <2>3 DEF Log!Init, WalId
<1>2. IInv /\ [Next]_vars => [Log!Next]_<<wal, walRows, [u \in UUID |-> Entry(u)]>>
  <2>1. CASE UNCHANGED vars
    BY <2>1 DEF vars, store, Entry
  <2> QED BY <2>1, LogRefined DEF ChainView
<1> QED BY <1>1, <1>2, Invariant, PTL DEF Spec, RotationLog, Log!Spec

-----------------------------------------------------------------------------
(* What is pending is settled by a recovery, and stays while it is staged. *)

\* A recovery has still to look at each pending row of its session.
Listed ==
  \A s \in Session, i \in WalId :
    pc[s] = "recover" /\ wal[i].status = "pending" /\ wal[i].bridge = s => i \in todo[s]

\* Nothing is staged before the recovery has ended.
QuietBoot == \A s \in Session : pc[s] \in {"down", "recover"} => pend[s].wal = 0

\* Rows that are pending after the step were so before, unchanged.
NoneOpened == \A i \in WalId : wal'[i].status = "pending" => wal'[i] = wal[i]

\* Settling a row opens none, and the row is not pending any more.
LEMMA Settles ==
  ASSUME TypeOK, NEW i, OrphanWAL(i) \/ \E u : CommitWAL(i, u)
  PROVE  /\ NoneOpened
         /\ i \in WalId => wal'[i].status # "pending"
         /\ \A j \in WalId : j # i => wal'[j] = wal[j]
<1>1. \A j \in WalId : j # i => wal'[j] = wal[j]
  BY DEF TypeOK, OrphanWAL, CommitWAL
<1>2. i \in WalId => wal'[i].status # "pending"
  <2> SUFFICES ASSUME i \in WalId PROVE wal'[i].status # "pending"
    OBVIOUS
  <2>1. CASE wal[i].status # "pending"
    BY <2>1 DEF OrphanWAL, CommitWAL
  <2>2. CASE wal[i].status = "pending"
    <3>1. wal[i] \in WALRow
      <4>1. wal[i] \in WALRow \cup {FreeRow} /\ FreeRow.status = "free"
        BY DEF TypeOK, FreeRow
      <4> QED
        BY <2>2, <4>1
    <3>2. \/ wal'[i] = [wal[i] EXCEPT !.status = "orphaned"]
          \/ \E u : wal'[i] = [wal[i] EXCEPT !.status = "committed", !.newId = u]
      BY <2>2 DEF TypeOK, OrphanWAL, CommitWAL
    <3> QED
      BY <3>1, <3>2 DEF WALRow
  <2> QED
    BY <2>1, <2>2
<1> QED
  BY <1>1, <1>2 DEF NoneOpened

\* A step opens a row of its harness and stages it, or opens none and keeps what
\* is staged or clears it.
Stages(s) ==
  /\ walRows + 1 \in WalId /\ wal'[walRows + 1].bridge = s
  /\ wal'[walRows + 1].status = "pending"
  /\ \A j \in WalId : j # walRows + 1 => wal'[j] = wal[j]
  /\ pend'[s].wal = walRows + 1

\* StageCold and StartFork are the steps that open one.
LEMMA Staged ==
  ASSUME TypeOK, NEW s \in Session, NEW intent \in {"start", "fork"}, NEW p \in Id,
         walRows < MaxRows, InsertWAL(s, intent, p),
         Stage(s, [wal |-> walRows + 1, intent |-> intent, parent |-> p], NoId)
  PROVE  Stages(s)
<1>1. walRows + 1 \in WalId
  BY Bound DEF TypeOK, WalId
<1>2. wal'[walRows + 1] = [status |-> "pending", bridge |-> s, intent |-> intent,
                           parent |-> p, newId |-> NoId]
  BY <1>1 DEF InsertWAL, TypeOK
<1>3. pend'[s] = [wal |-> walRows + 1, intent |-> intent, parent |-> p]
  BY DEF Stage, TypeOK
<1>4. \A j \in WalId : j # walRows + 1 => wal'[j] = wal[j]
  BY DEF InsertWAL, TypeOK
<1> QED
  BY <1>1, <1>2, <1>3, <1>4 DEF Stages

\* What a dispatcher does to the log and its own place.
LEMMA DispatcherSteps ==
  ASSUME TypeOK, NEW s \in Session, Dispatcher(s)
  PROVE  /\ pc[s] \notin {"down", "recover"}
         /\ \A t \in Session : t # s => pc'[t] = pc[t] /\ todo'[t] = todo[t] /\ pend'[t] = pend[t]
         /\ pc'[s] \notin {"down", "recover"}
         /\ \/ Stages(s)
            \/ wal' = wal /\ (pend'[s] = pend[s] \/ pend'[s].wal = 0)
            \/ Unstage(s)
<1> USE DEF store, Accepts
<1>1. ASSUME NEW u, Resume(s, u)
      PROVE  /\ wal' = wal /\ pend'[s].wal = 0 /\ pc'[s] = "spawn"
             /\ \A t \in Session :
                  t # s => pc'[t] = pc[t] /\ todo'[t] = todo[t] /\ pend'[t] = pend[t]
  BY <1>1 DEF Resume, Stage, TypeOK
<1>2. CASE StartResume(s) \/ RespawnForMessage(s) \/ handleResume(s)
  BY <1>1, <1>2 DEF StartResume, RespawnForMessage, handleResume
<1>3. CASE StageCold(s)
  <2>1. /\ pc[s] = "stage" /\ todo' = todo
        /\ \A t \in Session : t # s => pc'[t] = pc[t] /\ pend'[t] = pend[t]
    BY <1>3 DEF StageCold, Stage, TypeOK
  <2>2. pc'[s] \in {"spawn", "idle"}
    BY <1>3 DEF StageCold, Stage, TypeOK
  <2>3. Stages(s) \/ (wal' = wal /\ pend' = pend)
    BY <1>3, Staged, Ids DEF StageCold
  <2> QED
    BY <2>1, <2>2, <2>3
<1>4. ASSUME NEW u \in Id, StartFork(s, u)
      PROVE  /\ pc[s] \in {"ready", "idle"} /\ pc'[s] \in {"spawn", "idle"}
             /\ \A t \in Session :
                  t # s => pc'[t] = pc[t] /\ todo'[t] = todo[t] /\ pend'[t] = pend[t]
             /\ Stages(s) \/ (wal' = wal /\ pend' = pend)
  <2>1. /\ pc[s] \in {"ready", "idle"} /\ todo' = todo
        /\ \A t \in Session : t # s => pc'[t] = pc[t] /\ pend'[t] = pend[t]
    BY <1>4 DEF StartFork, Stage, TypeOK
  <2>2. pc'[s] \in {"spawn", "idle"}
    BY <1>4 DEF StartFork, Stage, TypeOK
  <2>3. Stages(s) \/ (wal' = wal /\ pend' = pend)
    BY <1>4, Staged DEF StartFork
  <2> QED
    BY <2>1, <2>2, <2>3
<1>5. CASE StartCold(s) \/ Spawn(s) \/ ReceiverFails(s)
  BY <1>5 DEF StartCold, Spawn, ReceiverFails, TypeOK
<1>6. CASE SpawnFails(s)
  BY <1>6 DEF SpawnFails, ClearPending, NoPend, TypeOK
<1>7. CASE Unstage(s)
  BY <1>7 DEF Unstage, TypeOK
<1>8. \A p \in Session : known[p] \in Id
  BY DEF TypeOK
<1> QED
  BY <1>2, <1>3, <1>4, <1>5, <1>6, <1>7, <1>8 DEF Dispatcher

\* What a process and its reader do to the log: the dispatcher is where it was,
\* the staged rotation too or cleared, and a row is settled only by its holder.
LEMMA ReaderSteps ==
  ASSUME TypeOK, NEW s \in Session, NEW k \in Slot,
         StdoutEnds(s, k) \/ ProcessExits(s, k) \/ ReaderStep(s, k)
  PROVE  /\ pc' = pc /\ todo' = todo
         /\ \A t \in Session : pend'[t] = pend[t] \/ pend'[t].wal = 0
         /\ \/ wal' = wal
            \/ \E i : /\ OrphanWAL(i) \/ \E u : CommitWAL(i, u)
                      /\ i \in WalId => HeldByReader(s, k, i)
<1> USE DEF store, memory, ClearPending, NoPend
<1>1. CASE commitRotation(s, k)
  BY <1>1 DEF commitRotation, HeldByReader
<1>2. CASE orphanRotation(s, k)
  BY <1>2 DEF orphanRotation, HeldByReader
<1>3. CASE StdoutEnds(s, k) \/ ProcessExits(s, k) \/ readSequence(s, k) \/ insertRotation(s, k)
           \/ upsertRotation(s, k)
  BY <1>3 DEF StdoutEnds, ProcessExits, readSequence, insertRotation, upsertRotation
<1>4. CASE readInit(s, k)
  BY <1>4 DEF readInit, TypeOK
<1>5. CASE handleProcessExit(s, k)
  <2>1. UNCHANGED <<pc, todo, wal>> /\ (pend' = pend \/ ClearPending(s))
    BY <1>5 DEF handleProcessExit
  <2>2. \A t \in Session : pend'[t] = pend[t] \/ pend'[t] = NoPend
    BY <2>1 DEF TypeOK
  <2>3. NoPend.wal = 0
    OBVIOUS
  <2> QED
    BY <2>1, <2>2, <2>3
<1> QED
  BY <1>1, <1>2, <1>3, <1>4, <1>5 DEF ReaderStep

\* A recovery lists all pending rows first and skips none; only its own harness
\* opens rows of its session.
LEMMA ListedStep == ~SqlError /\ TypeOK /\ Listed /\ [Next]_vars => Listed'
<1> SUFFICES ASSUME ~SqlError, TypeOK, Listed, [Next]_vars PROVE Listed'
  OBVIOUS
<1>1. ASSUME NoneOpened,
             \A t \in Session : pc'[t] = "recover" => pc[t] = "recover" /\ todo'[t] = todo[t]
      PROVE  Listed'
  BY <1>1 DEF Listed, NoneOpened
<1>2. wal' = wal => NoneOpened
  BY DEF NoneOpened
<1>3. ASSUME NEW s \in Session, Boot(s) PROVE Listed'
  <2>1. wal' = wal /\ todo'[s] = Pending
    BY <1>3 DEF Boot, store, TypeOK
  <2>2. \A t \in Session : t # s => pc'[t] = pc[t] /\ todo'[t] = todo[t]
    BY <1>3 DEF Boot, TypeOK
  <2> QED
    BY <2>1, <2>2 DEF Listed, Pending
<1>4. ASSUME NEW s \in Session, recoverOrphansOnBoot(s) PROVE Listed'
  <2>1. PICK i \in todo[s] : OrphanWAL(i) /\ todo' = [todo EXCEPT ![s] = @ \ {i}]
    BY <1>4 DEF recoverOrphansOnBoot
  <2>2. pc' = pc /\ i \in WalId
    BY <1>4 DEF recoverOrphansOnBoot, TypeOK
  <2>3. NoneOpened /\ wal'[i].status # "pending"
    BY <2>1, <2>2, Settles
  <2>4. \A t \in Session : todo[t] \ {i} \subseteq todo'[t]
    BY <2>1 DEF TypeOK
  <2>5. ASSUME NEW t \in Session, NEW j \in WalId,
               pc'[t] = "recover", wal'[j].status = "pending", wal'[j].bridge = t
        PROVE  j \in todo'[t]
    <3>1. wal'[j] = wal[j] /\ j # i
      BY <2>3, <2>5 DEF NoneOpened
    <3>2. j \in todo[t]
      BY <2>2, <2>5, <3>1 DEF Listed
    <3> QED
      BY <2>4, <3>1, <3>2
  <2> QED
    BY <2>5 DEF Listed
<1>5. ASSUME NEW s \in Session, BootDone(s) \/ Crash(s) PROVE Listed'
  <2>1. wal' = wal /\ pc'[s] \in {"ready", "down"}
    BY <1>5 DEF BootDone, Crash, store, TypeOK
  <2>2. \A t \in Session : t # s => pc'[t] = pc[t] /\ todo'[t] = todo[t]
    BY <1>5 DEF BootDone, Crash, TypeOK
  <2> QED
    BY <1>1, <1>2, <2>1, <2>2
<1>6. ASSUME NEW s \in Session, Dispatcher(s) PROVE Listed'
  <2>1. \A t \in Session : pc'[t] = "recover" => pc[t] = "recover" /\ todo'[t] = todo[t] /\ t # s
    BY <1>6, DispatcherSteps
  <2>2. CASE wal' = wal
    BY <1>1, <1>2, <2>1, <2>2
  <2>3. CASE Unstage(s)
    <3>1. NoneOpened
      BY <2>3, Settles, <1>2 DEF Unstage
    <3> QED
      BY <1>1, <2>1, <3>1
  <2>4. CASE Stages(s)
    <3>1. \A j \in WalId : wal'[j].bridge # s => wal'[j] = wal[j]
      BY <2>4 DEF Stages
    <3> QED
      BY <2>1, <3>1 DEF Listed
  <2> QED
    BY <1>6, <2>2, <2>3, <2>4, DispatcherSteps
<1>7. ASSUME NEW s \in Session, NEW k \in Slot,
             StdoutEnds(s, k) \/ ProcessExits(s, k) \/ ReaderStep(s, k)
      PROVE  Listed'
  <2>1. NoneOpened
    BY <1>2, <1>7, ReaderSteps, Settles
  <2> QED
    BY <1>1, <1>7, <2>1, ReaderSteps
<1>8. CASE UNCHANGED vars
  BY <1>8 DEF vars, store, memory, Listed
<1> QED
  BY <1>3, <1>4, <1>5, <1>6, <1>7, <1>8 DEF Next

\* When no write fails, a finished boot recovery leaves no row of its session
\* pending, whatever other harnesses on the store settle, stage or recover
\* meanwhile (recoverOrphansOnBoot).
THEOREM RecoveryIsComplete == ~SqlError => (Spec => RecoveryLeavesNone)
<1> SUFFICES ASSUME ~SqlError PROVE Spec => RecoveryLeavesNone
  OBVIOUS
<1>1. Init => Listed
  BY DEF Init, Listed
<1>2. TypeOK /\ Listed /\ [Next]_vars => Listed'
  BY ListedStep
<1>3. TypeOK /\ Listed /\ [Next]_vars
      => [\A s \in Session : pc[s] = "recover" /\ pc'[s] = "ready"
            => \A i \in WalId : wal'[i].bridge = s => wal'[i].status # "pending"]_vars
  <2> SUFFICES ASSUME TypeOK, Listed, Next,
                      NEW s \in Session, pc[s] = "recover", pc'[s] = "ready",
                      NEW i \in WalId, wal'[i].bridge = s
               PROVE  wal'[i].status # "pending"
    OBVIOUS
  <2>1. ASSUME NEW t \in Session, Boot(t) \/ recoverOrphansOnBoot(t) \/ Crash(t)
        PROVE  FALSE
    BY <2>1 DEF Boot, recoverOrphansOnBoot, Crash, TypeOK
  <2>2. ASSUME NEW t \in Session, Dispatcher(t) PROVE FALSE
    BY <2>2, DispatcherSteps
  <2>3. ASSUME NEW t \in Session, NEW k \in Slot,
               StdoutEnds(t, k) \/ ProcessExits(t, k) \/ ReaderStep(t, k)
        PROVE  FALSE
    BY <2>3, ReaderSteps
  <2>4. ASSUME NEW t \in Session, BootDone(t) PROVE todo[s] = {} /\ wal' = wal
    BY <2>4 DEF BootDone, TypeOK, store
  <2>5. todo[s] = {} /\ wal' = wal
    BY <2>1, <2>2, <2>3, <2>4 DEF Next
  <2> QED
    BY <2>5 DEF Listed
<1> QED
  BY <1>1, <1>2, <1>3, TypeCorrect, PTL DEF Spec, RecoveryLeavesNone

\* The row a failed spawn is about to orphan is one of its own harness.
FailedOwn ==
  \A s \in Session, i \in WalId :
    HeldByDispatcher(s, i) => wal[i].status # "free" /\ wal[i].bridge = s

\* It is the staged one that SpawnFails hands over; rows in use keep their session.
LEMMA FailedStep == IInv /\ FailedOwn /\ [Next]_vars => FailedOwn'
<1> SUFFICES ASSUME IInv, FailedOwn, [Next]_vars PROVE FailedOwn'
  OBVIOUS
<1> DEFINE Held == \A s \in Session, i \in WalId :
             HeldByDispatcher(s, i)' => HeldByDispatcher(s, i) \/ pend[s].wal = i
<1>0. TypeOK
  BY DEF IInv
<1>1. CASE Next
  <2>1. RowsKept
    BY <1>1, LogSteps, RowsStep DEF IInv
  <2>2. ASSUME NEW s \in Session, SpawnFails(s) PROVE Held
    <3>1. /\ \A t \in Session : t # s => pc'[t] = pc[t] /\ todo'[t] = todo[t]
          /\ todo'[s] = {pend[s].wal} \ {0}
      BY <1>0, <2>2 DEF SpawnFails, TypeOK
    <3> QED
      BY <3>1 DEF HeldByDispatcher
  <2>3. ASSUME NEW s \in Session, NEW where, where # "unstage",
               pc' = [pc EXCEPT ![s] = where],
               \A t \in Session : t # s => todo'[t] = todo[t]
        PROVE  Held
    BY <1>0, <2>3 DEF HeldByDispatcher, TypeOK
  <2>4. ASSUME UNCHANGED pc, \A t \in Session : pc[t] = "unstage" => todo'[t] = todo[t] PROVE Held
    BY <2>4 DEF HeldByDispatcher
  <2>5. ASSUME NEW s \in Session, Boot(s) \/ BootDone(s) \/ Crash(s) \/ Unstage(s) PROVE Held
    BY <1>0, <2>3, <2>5 DEF Boot, BootDone, Crash, Unstage, TypeOK
  <2>6. ASSUME NEW s \in Session, recoverOrphansOnBoot(s) PROVE Held
    BY <1>0, <2>4, <2>6 DEF recoverOrphansOnBoot, TypeOK
  <2>7. ASSUME NEW s \in Session, NEW u, Resume(s, u) PROVE Held
    BY <2>3, <2>7 DEF Resume, Stage
  <2>8. ASSUME NEW s \in Session,
               StartCold(s) \/ StageCold(s) \/ Spawn(s) \/ ReceiverFails(s) \/ \E u : StartFork(s, u)
        PROVE  Held
    BY <2>3, <2>8 DEF StartCold, StageCold, Spawn, ReceiverFails, StartFork, Stage
  <2>9. ASSUME NEW s \in Session, Dispatcher(s) PROVE Held
    BY <2>2, <2>5, <2>7, <2>8, <2>9
       DEF Dispatcher, StartResume, RespawnForMessage, handleResume
  <2>10. ASSUME NEW s \in Session, NEW k \in Slot,
                StdoutEnds(s, k) \/ ProcessExits(s, k) \/ ReaderStep(s, k)
         PROVE  Held
    BY <1>0, <2>4, <2>10, ReaderSteps
  <2>11. Held
    BY <1>1, <2>5, <2>6, <2>9, <2>10 DEF Next
  <2>12. ASSUME NEW s \in Session, NEW i \in WalId, pend[s].wal = i
         PROVE  wal[i].status # "free" /\ wal[i].bridge = s
    BY <2>12, Bound DEF IInv, PendMatches, RowIs, WalId
  <2> QED
    BY <2>1, <2>11, <2>12 DEF FailedOwn, RowsKept
<1>2. CASE UNCHANGED vars
  BY <1>2 DEF vars, store, memory, FailedOwn, HeldByDispatcher
<1> QED
  BY <1>1, <1>2

\* Nothing is staged before a recovery has ended.
LEMMA QuietStep == TypeOK /\ QuietBoot /\ [Next]_vars => QuietBoot'
<1> SUFFICES ASSUME TypeOK, QuietBoot, [Next]_vars PROVE QuietBoot'
  OBVIOUS
<1>1. ASSUME NEW s \in Session, Boot(s) \/ BootDone(s) \/ recoverOrphansOnBoot(s)
      PROVE  QuietBoot'
  <2>1. /\ UNCHANGED pend
        /\ \A t \in Session :
             pc'[t] \in {"down", "recover"} => pc[t] \in {"down", "recover"}
    BY <1>1 DEF Boot, BootDone, recoverOrphansOnBoot, TypeOK
  <2> QED
    BY <2>1 DEF QuietBoot
<1>2. ASSUME NEW s \in Session, Crash(s) PROVE QuietBoot'
  <2>1. pend'[s] = NoPend /\ \A t \in Session : t # s => pc'[t] = pc[t] /\ pend'[t] = pend[t]
    BY <1>2 DEF Crash, TypeOK
  <2>2. NoPend.wal = 0
    BY DEF NoPend
  <2> QED
    BY <2>1, <2>2 DEF QuietBoot
<1>3. ASSUME NEW s \in Session, Dispatcher(s) PROVE QuietBoot'
  BY <1>3, DispatcherSteps DEF QuietBoot
<1>4. ASSUME NEW s \in Session, NEW k \in Slot,
             StdoutEnds(s, k) \/ ProcessExits(s, k) \/ ReaderStep(s, k)
      PROVE  QuietBoot'
  BY <1>4, ReaderSteps DEF QuietBoot
<1>5. CASE UNCHANGED vars
  BY <1>5 DEF vars, memory, QuietBoot
<1> QED
  BY <1>1, <1>2, <1>3, <1>4, <1>5 DEF Next

\* A step that changes the row s has staged, and leaves it staged, is a boot
\* recovery, and not one of s.
LEMMA StagedStep ==
  ASSUME IInv, QuietBoot, FailedOwn, Next, NEW s \in Session,
         pend[s].wal # 0, pend'[s].wal = pend[s].wal, wal'[pend[s].wal] # wal[pend[s].wal]
  PROVE  /\ wal'[pend[s].wal].status = "orphaned"
         /\ \E p \in Session \ {s} : pc[p] = "recover" /\ pend[s].wal \in todo[p]
<1> DEFINE i == pend[s].wal
           Goal == /\ wal'[i].status = "orphaned"
                   /\ \E p \in Session \ {s} : pc[p] = "recover" /\ i \in todo[p]
<1>0. TypeOK /\ i \in WalId /\ wal[i].status # "free" /\ wal[i].bridge = s /\ i <= walRows
  <2>1. TypeOK /\ i \in WalId /\ wal[i].status # "free" /\ wal[i].bridge = s
    BY DEF IInv, PendMatches, RowIs
  <2>2. ~(i > walRows) /\ i \in Nat /\ walRows \in Nat
    BY <2>1, Bound DEF IInv, RowsAllocated, TypeOK, WalId
  <2> QED
    BY <2>1, <2>2
<1>1. ASSUME NEW t \in Session, recoverOrphansOnBoot(t) PROVE Goal
  <2>1. PICK j \in todo[t] : OrphanWAL(j) \/ wal' = wal
    BY <1>1 DEF recoverOrphansOnBoot
  <2>2. j \in WalId /\ pc[t] = "recover"
    BY <1>0, <1>1 DEF recoverOrphansOnBoot, TypeOK
  <2>3. OrphanWAL(j) /\ j = i
    BY <1>0, <2>1, <2>2, Settles
  <2>4. wal'[i].status = "orphaned"
    <3>1. wal[i].status = "pending" /\ wal' = [wal EXCEPT ![i].status = "orphaned"]
      BY <2>3 DEF OrphanWAL
    <3>2. wal[i] \in WALRow
      <4>1. wal[i] \in WALRow \cup {FreeRow}
        BY <1>0 DEF TypeOK
      <4>2. FreeRow.status = "free"
        BY DEF FreeRow
      <4> QED
        BY <1>0, <4>1, <4>2
    <3>3. wal'[i] = [wal[i] EXCEPT !.status = "orphaned"]
      BY <1>0, <3>1 DEF TypeOK
    <3> QED
      BY <3>2, <3>3 DEF WALRow
  <2>5. t # s
    BY <2>2 DEF QuietBoot
  <2> QED
    BY <2>2, <2>3, <2>4, <2>5
<1>2. ASSUME NEW t \in Session, Boot(t) \/ BootDone(t) \/ Crash(t) PROVE FALSE
  BY <1>2 DEF Boot, BootDone, Crash, store
<1>3. ASSUME NEW t \in Session, Dispatcher(t) PROVE FALSE
  <2>1. CASE Stages(t)
    <3>1. i # walRows + 1
      BY <1>0, Bound DEF TypeOK
    <3> QED
      BY <1>0, <2>1, <3>1 DEF Stages
  <2>2. CASE Unstage(t)
    <3>1. PICK j \in todo[t] : OrphanWAL(j) \/ wal' = wal
      BY <2>2 DEF Unstage
    <3>2. j \in WalId /\ HeldByDispatcher(t, j)
      BY <1>0, <2>2 DEF Unstage, HeldByDispatcher, TypeOK
    <3>3. j = i
      BY <1>0, <3>1, <3>2, Settles
    <3>4. t # s
      BY <3>2, <3>3 DEF IInv, Disjoint
    <3> QED
      BY <1>0, <3>2, <3>3, <3>4 DEF FailedOwn
  <2> QED
    BY <1>0, <1>3, <2>1, <2>2, DispatcherSteps
<1>4. ASSUME NEW t \in Session, NEW k \in Slot,
             StdoutEnds(t, k) \/ ProcessExits(t, k) \/ ReaderStep(t, k)
      PROVE  FALSE
  <2>1. PICK j : /\ OrphanWAL(j) \/ \E u : CommitWAL(j, u)
                 /\ j \in WalId => HeldByReader(t, k, j)
    BY <1>0, <1>4, ReaderSteps
  <2>2. j = i /\ HeldByReader(t, k, i)
    BY <1>0, <2>1, Settles
  <2>3. t = s
    BY <1>0, <2>2, HeldInUse DEF IInv
  <2> QED
    BY <1>0, <2>2, <2>3 DEF IInv, Disjoint
<1> QED
  BY <1>1, <1>2, <1>3, <1>4 DEF Next

\* What a harness has staged is never committed as long as it stays staged, and is
\* orphaned by the boot of another harness or not at all: for any number of
\* harnesses, processes and failing writes (recoverOrphansOnBoot,
\* clearPendingChain).
THEOREM StagedLostToBootsOnly == Spec => OnlyBootsOrphan
<1>1. Init => QuietBoot /\ FailedOwn
  <2>1. Init => \A s \in Session : pend[s].wal = 0 /\ pc[s] = "down"
    <3>1. NoPend.wal = 0
      BY DEF NoPend
    <3> QED
      BY <3>1 DEF Init
  <2> QED
    BY <2>1 DEF QuietBoot, FailedOwn, HeldByDispatcher
<1>2. IInv /\ QuietBoot /\ FailedOwn /\ [Next]_vars => QuietBoot' /\ FailedOwn'
  BY QuietStep, FailedStep DEF IInv
<1>3. IInv /\ QuietBoot /\ FailedOwn /\ [Next]_vars
        => [\A s \in Session : LET i == pend[s].wal IN
              i # 0 /\ pend'[s].wal = i /\ wal'[i] # wal[i] =>
                /\ wal'[i].status = "orphaned"
                /\ \E p \in Session \ {s} : pc[p] = "recover" /\ i \in todo[p]]_vars
  BY StagedStep
<1> QED
  BY <1>1, <1>2, <1>3, Invariant, PTL DEF Spec, OnlyBootsOrphan
=============================================================================
