---------------------------- MODULE SessionChain ----------------------------
(***************************************************************************)
(* The persistent chain bridge_session_id <-> harness_session_id.          *)
(*                                                                         *)
(* One harness process serves one bridge session; all of them share the    *)
(* one state.db of this harness kind (state.go), with its tables sessions, *)
(* rollouts and wal.  In a harness process the dispatcher goroutine stages *)
(* a rotation (handleStart) and spawns Claude Code; the reader goroutine   *)
(* of each spawned process records the rotation when the process announces *)
(* its UUID (recordChainOnInit) or drops it when the process dies          *)
(* (handleProcessExit).  Every SQL statement is a step of its own, a       *)
(* harness may crash between any two, and the next boot runs               *)
(* recoverOrphansOnBoot over the shared wal table.                         *)
(***************************************************************************)
EXTENDS Naturals, FiniteSets

CONSTANTS Session,   \* bridge sessions, one harness process slot for each
          UUID,      \* Claude Code session UUIDs
          Slot,      \* Claude Code processes of one harness not yet drained
          MaxRows,   \* bound: rows the wal table may hold
          SqlError,  \* TRUE: a write may fail (SQLITE_BUSY, disk full)
          NoId,      \* the empty id ''
          NoRow      \* no row under this key

ASSUME ChainAssumption ==
  /\ MaxRows \in Nat
  /\ SqlError \in BOOLEAN
  /\ NoId \notin UUID
  /\ NoRow \notin UUID /\ NoRow # NoId
  /\ NoRow \notin [bridge : Session, seq : Nat, parent : UUID \cup {NoId},
                   kind : {"start", "resume", "fork"}]
  /\ NoRow \notin [bridge : Session, parent : UUID \cup {NoId},
                   kind : {"start", "resume", "fork"}]
  /\ "none" \notin Slot

VARIABLES sessions,  \* table sessions: Session -> current_harness_id
          rollouts,  \* table rollouts: harness_session_id -> row
          wal,       \* table wal: id -> row, status "free" = not inserted
          walRows,   \* the last id AUTOINCREMENT gave
          pc,        \* where the dispatcher goroutine of a harness is
          todo,      \* wal ids it has still to orphan (boot, spawn failure)
          base,      \* the UUID it is about to pass with --resume
          cur,       \* h.proc
          sid,       \* h.sessionID
          pend,      \* h.pendingWALID, h.pendingIntent, h.pendingParent
          child,     \* each Claude Code process: running, closing, exited
          reader,    \* readStreamJSON of each process
          known      \* the harness_session_id bridge-server holds (external)

store  == <<sessions, rollouts, wal, walRows>>
memory == <<pc, todo, base, cur, sid, pend>>
vars   == <<store, memory, child, reader, known>>

Id     == UUID \cup {NoId}
Kind   == {"start", "resume", "fork"}
WalId  == 1..MaxRows
NoSlot == "none"
NoPend == [wal |-> 0, intent |-> "", parent |-> NoId]
ReaderAt(where, u, row) ==
  [pc |-> where, uuid |-> u, wal |-> row, intent |-> "", parent |-> NoId, seq |-> 0]
NoReader == ReaderAt("none", NoId, 0)
FreeRow == [status |-> "free", bridge |-> NoRow, intent |-> "",
            parent |-> NoId, newId |-> NoId]

RolloutRow == [bridge : Session, seq : Nat, parent : Id, kind : Kind]
WALRow == [status : {"pending", "committed", "orphaned"}, bridge : Session,
           intent : {"start", "fork"}, parent : Id, newId : Id]
PendType == [wal : 0..MaxRows, intent : Kind \cup {""}, parent : Id]
Reader == [pc : {"none", "read", "sequence", "commit", "insert", "upsert", "orphan"},
           uuid : Id, wal : 0..MaxRows, intent : Kind \cup {""},
           parent : Id, seq : Nat]

TypeOK ==
  /\ sessions \in [Session -> Id \cup {NoRow}]
  /\ rollouts \in [UUID -> RolloutRow \cup {NoRow}]
  /\ wal \in [WalId -> WALRow \cup {FreeRow}]
  /\ walRows \in 0..MaxRows
  /\ pc \in [Session -> {"down", "recover", "ready", "stage", "spawn",
                         "unstage", "idle"}]
  /\ todo \in [Session -> SUBSET WalId]
  /\ base \in [Session -> Id]
  /\ cur \in [Session -> Slot \cup {NoSlot}]
  /\ sid \in [Session -> Id]
  /\ pend \in [Session -> PendType]
  /\ child \in [Session -> [Slot -> {"running", "closing", "exited"}]]
  /\ reader \in [Session -> [Slot -> Reader]]
  /\ known \in [Session -> Id]

Init ==
  /\ sessions = [s \in Session |-> NoRow]
  /\ rollouts = [u \in UUID |-> NoRow]
  /\ wal = [i \in WalId |-> FreeRow]
  /\ walRows = 0
  /\ pc = [s \in Session |-> "down"]
  /\ todo = [s \in Session |-> {}]
  /\ base = [s \in Session |-> NoId]
  /\ cur = [s \in Session |-> NoSlot]
  /\ sid = [s \in Session |-> NoId]
  /\ pend = [s \in Session |-> NoPend]
  /\ child = [s \in Session |-> [k \in Slot |-> "exited"]]
  /\ reader = [s \in Session |-> [k \in Slot |-> NoReader]]
  /\ known = [s \in Session |-> NoId]

-----------------------------------------------------------------------------
(* The store's statements.  A write that fails changes nothing: where an   *)
(* action's code goes on after the error, it has a disjunct for it.        *)

\* InsertWAL: the next id gets a pending row.
InsertWAL(s, intent, parent) ==
  /\ walRows' = walRows + 1
  /\ wal' = [wal EXCEPT ![walRows + 1] =
               [status |-> "pending", bridge |-> s, intent |-> intent,
                parent |-> parent, newId |-> NoId]]

\* Seeded fault: a misspelled status literal.
CommitWAL_Misspelled(i, u) ==
  /\ wal[i].status = "pending"
  /\ wal' = [wal EXCEPT ![i].status = "commited", ![i].newId = u]

\* UPDATE ... WHERE id = ? AND status = 'pending'.
CommitWAL(i, u) ==
  /\ wal[i].status = "pending"
  /\ wal' = [wal EXCEPT ![i].status = "committed", ![i].newId = u]

OrphanWAL(i) ==
  wal' = IF wal[i].status = "pending"
         THEN [wal EXCEPT ![i].status = "orphaned"] ELSE wal

\* The primary key refuses a second row for a UUID, the foreign key a row
\* whose session has none.
InsertRollout(u, row) ==
  /\ rollouts[u] = NoRow
  /\ sessions[row.bridge] # NoRow
  /\ rollouts' = [rollouts EXCEPT ![u] = row]

UpsertSession(s, u) == sessions' = [sessions EXCEPT ![s] = u]

\* Seeded fault: pendingWALID is left behind.
ClearPending_KeepsRow(s) ==
  pend' = [pend EXCEPT ![s].intent = "", ![s].parent = NoId]

\* The pending fields are cleared together, in one critical section.
ClearPending(s) == pend' = [pend EXCEPT ![s] = NoPend]

Pending == {i \in WalId : wal[i].status = "pending"}

\* ListRollouts orders by sequence; nextSequence is the last one plus one.
Chain(s) == {u \in UUID : rollouts[u] # NoRow /\ rollouts[u].bridge = s}
nextSequence(s) ==
  IF Chain(s) = {} THEN 0
  ELSE 1 + (CHOOSE n \in {rollouts[u].seq : u \in Chain(s)} :
              \A u \in Chain(s) : rollouts[u].seq <= n)

-----------------------------------------------------------------------------
(* Boot: openStateAndRecover.                                              *)

Boot(s) ==
  /\ pc[s] = "down"
  /\ pc' = [pc EXCEPT ![s] = "recover"]
  /\ todo' = [todo EXCEPT ![s] = Pending]
  /\ UNCHANGED <<store, base, cur, sid, pend, child, reader, known>>

\* Seeded fault: a row that is settled already ends the loop.
recoverOrphansOnBoot_Returns(s) ==
  /\ pc[s] = "recover"
  /\ \E i \in todo[s] :
       /\ \A j \in todo[s] : i <= j
       /\ OrphanWAL(i)
       /\ todo' = [todo EXCEPT ![s] = IF wal[i].status = "pending" THEN @ \ {i} ELSE {}]
  /\ UNCHANGED <<sessions, rollouts, walRows, pc, base, cur, sid, pend, child,
                 reader, known>>

\* One turn of the loop over the rows listed, oldest first.  A row someone
\* else has settled since the listing is left as it is, and so is one whose
\* statement fails: the loop goes on.
recoverOrphansOnBoot(s) ==
  /\ pc[s] = "recover"
  /\ \E i \in todo[s] :
       /\ \A j \in todo[s] : i <= j
       /\ OrphanWAL(i) \/ (SqlError /\ wal' = wal)
       /\ todo' = [todo EXCEPT ![s] = @ \ {i}]
  /\ UNCHANGED <<sessions, rollouts, walRows, pc, base, cur, sid, pend, child,
                 reader, known>>

BootDone(s) ==
  /\ pc[s] = "recover" /\ todo[s] = {}
  /\ pc' = [pc EXCEPT ![s] = "ready"]
  /\ UNCHANGED <<store, todo, base, cur, sid, pend, child, reader, known>>

-----------------------------------------------------------------------------
(* The dispatcher: handleStart, and the respawns of handleMessage and      *)
(* handleResume, which call it.                                            *)

Alive(s) == cur[s] # NoSlot /\ child[s][cur[s]] # "exited"

\* A request finds the dispatcher between requests and no live process.
\* "ready" is a harness that has not had its start yet.
Accepts(s, where) == pc[s] \in where /\ ~Alive(s)

Stage(s, p, b) ==
  /\ pend' = [pend EXCEPT ![s] = p]
  /\ base' = [base EXCEPT ![s] = b]
  /\ pc' = [pc EXCEPT ![s] = "spawn"]

\* Cold start, first statement: the sessions row, with no current id.
StartCold(s) ==
  /\ Accepts(s, {"ready", "idle"})
  /\ sid' = [sid EXCEPT ![s] = NoId]
  /\ \/ /\ UpsertSession(s, NoId)
        /\ pc' = [pc EXCEPT ![s] = "stage"]
     \/ /\ SqlError
        /\ pc' = [pc EXCEPT ![s] = "idle"]
        /\ UNCHANGED sessions
  /\ UNCHANGED <<rollouts, wal, walRows, todo, base, cur, pend, child, reader, known>>

\* Cold start, second statement: the wal row, staged in memory.
StageCold(s) ==
  /\ pc[s] = "stage"
  /\ \/ /\ walRows < MaxRows
        /\ InsertWAL(s, "start", NoId)
        /\ Stage(s, [wal |-> walRows + 1, intent |-> "start", parent |-> NoId], NoId)
     \/ /\ SqlError
        /\ pc' = [pc EXCEPT ![s] = "idle"]
        /\ UNCHANGED <<wal, walRows, pend, base>>
  /\ UNCHANGED <<sessions, rollouts, todo, cur, sid, child, reader, known>>

\* Fork of the conversation another session is in.  No sessions row is
\* written here.
StartFork(s, u) ==
  /\ Accepts(s, {"ready", "idle"})
  /\ sid' = [sid EXCEPT ![s] = NoId]
  /\ \/ /\ walRows < MaxRows
        /\ InsertWAL(s, "fork", u)
        /\ Stage(s, [wal |-> walRows + 1, intent |-> "fork", parent |-> u], NoId)
     \/ /\ SqlError
        /\ pc' = [pc EXCEPT ![s] = "idle"]
        /\ UNCHANGED <<wal, walRows, pend, base>>
  /\ UNCHANGED <<sessions, rollouts, todo, cur, child, reader, known>>

Resume(s, u) ==
  /\ sid' = [sid EXCEPT ![s] = u]
  /\ Stage(s, [wal |-> 0, intent |-> "resume", parent |-> u], u)
  /\ UNCHANGED <<store, todo, cur, child, reader, known>>

\* start with resume: bridge-server names the conversation.
StartResume(s) ==
  /\ Accepts(s, {"ready", "idle"})
  /\ known[s] # NoId
  /\ Resume(s, known[s])

\* handleMessage finds the process dead and respawns on the id in memory.
RespawnForMessage(s) == Accepts(s, {"idle"}) /\ Resume(s, sid[s])

\* handleResume falls back to the sessions row when memory has no id.
handleResume(s) ==
  /\ Accepts(s, {"idle"})
  /\ LET row == IF sessions[s] = NoRow THEN NoId ELSE sessions[s]
     IN Resume(s, IF sid[s] = NoId THEN row ELSE sid[s])

\* UUIDs nothing refers to: Claude Code mints one of these.
Fresh == {u \in UUID :
  /\ rollouts[u] = NoRow
  /\ \A s \in Session : u \notin {sessions[s], known[s], sid[s], base[s], pend[s].parent}
  /\ \A i \in WalId : u # wal[i].newId
  /\ \A s \in Session, k \in Slot : u # reader[s][k].uuid}

\* A process that continues a conversation announces its UUID or, rarely, a
\* rotated one; a cold start, a fork and a resume of nothing mint one.
Spawn(s) ==
  /\ pc[s] = "spawn"
  /\ \E k \in Slot, u \in Fresh \cup ({base[s]} \ {NoId}) :
       /\ child[s][k] = "exited" /\ reader[s][k].pc = "none"
       /\ child' = [child EXCEPT ![s][k] = "running"]
       /\ reader' = [reader EXCEPT ![s][k] = ReaderAt("read", u, 0)]
       /\ cur' = [cur EXCEPT ![s] = k]
  /\ pc' = [pc EXCEPT ![s] = "idle"]
  /\ base' = [base EXCEPT ![s] = NoId]
  /\ UNCHANGED <<store, todo, sid, pend, known>>

\* NewOTelReceiver fails: handleStart returns with the rotation staged.
ReceiverFails(s) ==
  /\ pc[s] = "spawn"
  /\ pc' = [pc EXCEPT ![s] = "idle"]
  /\ base' = [base EXCEPT ![s] = NoId]
  /\ UNCHANGED <<store, todo, cur, sid, pend, child, reader, known>>

\* spawnClaudeCode fails: clearPendingChain, then OrphanWAL if a row was open.
SpawnFails(s) ==
  /\ pc[s] = "spawn"
  /\ ClearPending(s)
  /\ base' = [base EXCEPT ![s] = NoId]
  /\ todo' = [todo EXCEPT ![s] = {pend[s].wal} \ {0}]
  /\ pc' = [pc EXCEPT ![s] = IF pend[s].wal = 0 THEN "idle" ELSE "unstage"]
  /\ UNCHANGED <<store, cur, sid, child, reader, known>>

Unstage(s) ==
  /\ pc[s] = "unstage"
  /\ \E i \in todo[s] : OrphanWAL(i) \/ (SqlError /\ wal' = wal)
  /\ todo' = [todo EXCEPT ![s] = {}]
  /\ pc' = [pc EXCEPT ![s] = "idle"]
  /\ UNCHANGED <<sessions, rollouts, walRows, base, cur, sid, pend, child, reader, known>>

-----------------------------------------------------------------------------
(* The Claude Code process (external): its stdout ends, then cmd.Wait      *)
(* returns and done is closed.                                             *)

StdoutEnds(s, k) ==
  /\ child[s][k] = "running"
  /\ child' = [child EXCEPT ![s][k] = "closing"]
  /\ UNCHANGED <<store, memory, reader, known>>

ProcessExits(s, k) ==
  /\ child[s][k] = "closing"
  /\ child' = [child EXCEPT ![s][k] = "exited"]
  /\ UNCHANGED <<store, memory, reader, known>>

-----------------------------------------------------------------------------
(* The reader goroutine of process k.                                      *)

\* An init frame, which a process sends at every turn and which may be read
\* after the process died: the id is adopted and the staged rotation taken.
readInit(s, k) ==
  LET r == reader[s][k]
      p == pend[s]
      next == CASE p.intent \in {"start", "fork"} /\ p.wal # 0 -> "sequence"
                [] p.intent = "resume" /\ p.parent \in {NoId, r.uuid} -> "upsert"
                [] p.intent = "resume" /\ p.parent \notin {NoId, r.uuid} -> "sequence"
                [] OTHER -> "read"
  IN /\ r.pc = "read"
     /\ sid' = [sid EXCEPT ![s] = r.uuid]
     /\ known' = [known EXCEPT ![s] = r.uuid]
     /\ ClearPending(s)
     /\ reader' = [reader EXCEPT ![s][k] =
                     IF next = "read" THEN r
                     ELSE [r EXCEPT !.pc = next, !.wal = p.wal,
                                    !.intent = p.intent, !.parent = p.parent]]
     /\ UNCHANGED <<store, pc, todo, base, cur, child>>

readSequence(s, k) ==
  LET r == reader[s][k] IN
  /\ r.pc = "sequence"
  /\ reader' = [reader EXCEPT ![s][k] =
       [r EXCEPT !.seq = nextSequence(s),
                 !.pc = IF r.intent = "resume" THEN "insert" ELSE "commit"]]
  /\ UNCHANGED <<store, memory, child, known>>

\* Seeded fault: a commit that fails is logged, and the recording goes on.
commitRotation_LogsOnly(s, k) ==
  LET r == reader[s][k] IN
  /\ r.pc = "commit"
  /\ \/ CommitWAL(r.wal, r.uuid)
     \/ /\ wal[r.wal].status # "pending" \/ SqlError
        /\ UNCHANGED wal
  /\ reader' = [reader EXCEPT ![s][k].pc = "insert"]
  /\ UNCHANGED <<sessions, rollouts, walRows, memory, child, known>>

\* A row that is not pending any more ends the recording.
commitRotation(s, k) ==
  LET r == reader[s][k] IN
  /\ r.pc = "commit"
  /\ \/ /\ CommitWAL(r.wal, r.uuid)
        /\ reader' = [reader EXCEPT ![s][k].pc = "insert"]
     \/ /\ wal[r.wal].status # "pending" \/ SqlError
        /\ reader' = [reader EXCEPT ![s][k] = ReaderAt("read", r.uuid, 0)]
        /\ UNCHANGED wal
  /\ UNCHANGED <<sessions, rollouts, walRows, memory, child, known>>

\* An insert that fails is logged, and the recording goes on.
insertRotation(s, k) ==
  LET r   == reader[s][k]
      row == [bridge |-> s, seq |-> r.seq, parent |-> r.parent, kind |-> r.intent]
  IN /\ r.pc = "insert"
     /\ \/ InsertRollout(r.uuid, row)
        \/ /\ rollouts[r.uuid] # NoRow \/ sessions[s] = NoRow \/ SqlError
           /\ UNCHANGED rollouts
     /\ reader' = [reader EXCEPT ![s][k].pc = "upsert"]
     /\ UNCHANGED <<sessions, wal, walRows, memory, child, known>>

upsertRotation(s, k) ==
  LET r == reader[s][k] IN
  /\ r.pc = "upsert"
  /\ UpsertSession(s, r.uuid) \/ (SqlError /\ UNCHANGED sessions)
  /\ reader' = [reader EXCEPT ![s][k] = ReaderAt("read", r.uuid, 0)]
  /\ UNCHANGED <<rollouts, wal, walRows, memory, child, known>>

\* The event channel is closed: handleProcessExit.  The channel closes when
\* stdout ends, which may be before Alive turns false.
handleProcessExit(s, k) ==
  LET r == reader[s][k] IN
  /\ r.pc = "read"
  /\ \/ /\ child[s][k] = "closing"
        /\ reader' = [reader EXCEPT ![s][k] = NoReader]
        /\ UNCHANGED pend
     \/ /\ child[s][k] = "exited"
        /\ ClearPending(s)
        /\ reader' = [reader EXCEPT ![s][k] =
             IF pend[s].wal = 0 THEN NoReader
             ELSE ReaderAt("orphan", NoId, pend[s].wal)]
  /\ UNCHANGED <<store, pc, todo, base, cur, sid, child, known>>

orphanRotation(s, k) ==
  LET r == reader[s][k] IN
  /\ r.pc = "orphan"
  /\ OrphanWAL(r.wal) \/ (SqlError /\ wal' = wal)
  /\ reader' = [reader EXCEPT ![s][k] = NoReader]
  /\ UNCHANGED <<sessions, rollouts, walRows, memory, child, known>>

-----------------------------------------------------------------------------
\* The harness process ends, by a crash or by Shutdown: its memory is gone
\* and its Claude Code processes end with it.
Crash(s) ==
  /\ pc[s] # "down"
  /\ pc' = [pc EXCEPT ![s] = "down"]
  /\ todo' = [todo EXCEPT ![s] = {}]
  /\ base' = [base EXCEPT ![s] = NoId]
  /\ cur' = [cur EXCEPT ![s] = NoSlot]
  /\ sid' = [sid EXCEPT ![s] = NoId]
  /\ pend' = [pend EXCEPT ![s] = NoPend]
  /\ child' = [child EXCEPT ![s] = [k \in Slot |-> "exited"]]
  /\ reader' = [reader EXCEPT ![s] = [k \in Slot |-> NoReader]]
  /\ UNCHANGED <<store, known>>

Dispatcher(s) ==
  \/ StartCold(s) \/ StageCold(s)
  \/ \E p \in Session \ {s} : known[p] # NoId /\ StartFork(s, known[p])
  \/ StartResume(s) \/ RespawnForMessage(s) \/ handleResume(s)
  \/ Spawn(s) \/ ReceiverFails(s) \/ SpawnFails(s) \/ Unstage(s)

ReaderStep(s, k) ==
  \/ readInit(s, k) \/ readSequence(s, k) \/ commitRotation(s, k)
  \/ insertRotation(s, k) \/ upsertRotation(s, k)
  \/ handleProcessExit(s, k) \/ orphanRotation(s, k)

Next ==
  \/ \E s \in Session :
       \/ Boot(s) \/ recoverOrphansOnBoot(s) \/ BootDone(s)
       \/ Dispatcher(s)
       \/ Crash(s)
  \/ \E s \in Session, k \in Slot :
       \/ StdoutEnds(s, k) \/ ProcessExits(s, k)
       \/ ReaderStep(s, k)

Spec == Init /\ [][Next]_vars

-----------------------------------------------------------------------------
(* Properties.                                                             *)

\* A wal id has one holder in a harness: the staged rotation, one reader that
\* took it, or the spawn failure path; and it is a row of that harness.  Taking
\* and clearing the pending fields in one critical section (recordChainOnInit,
\* clearPendingChain) is what makes this so.
HeldByReader(s, k, i) ==
  reader[s][k].pc \in {"sequence", "commit", "orphan"} /\ reader[s][k].wal = i
HeldByDispatcher(s, i) == pc[s] = "unstage" /\ i \in todo[s]

ClaimedOnce ==
  \A s \in Session, i \in WalId :
    /\ pend[s].wal = i =>
         /\ wal[i].bridge = s
         /\ ~HeldByDispatcher(s, i)
         /\ \A k \in Slot : ~HeldByReader(s, k, i)
    /\ \A k \in Slot : HeldByReader(s, k, i) =>
         /\ wal[i].bridge = s
         /\ ~HeldByDispatcher(s, i)
         /\ \A l \in Slot \ {k} : ~HeldByReader(s, l, i)

\* A start or fork rollout is backed by the committed wal row of the same
\* rotation: the log is written ahead of the chain, and a rotation that was
\* orphaned while Claude Code was starting never reaches the chain.
Backs(i, u) ==
  /\ wal[i].status = "committed" /\ wal[i].newId = u
  /\ wal[i].bridge = rollouts[u].bridge
  /\ wal[i].intent = rollouts[u].kind
  /\ wal[i].parent = rollouts[u].parent

RolloutBacked ==
  \A u \in UUID :
    rollouts[u] # NoRow /\ rollouts[u].kind # "resume" => \E i \in WalId : Backs(i, u)

\* When a harness has finished its boot recovery, no row of its own session
\* is left pending, whatever other harnesses did to the rows in between.
RecoveryLeavesNone ==
  [][\A s \in Session : pc[s] = "recover" /\ pc'[s] = "ready"
       => \A i \in WalId : wal'[i].bridge = s => wal'[i].status # "pending"]_vars

\* A rotation still staged in a running harness is still pending in the log,
\* so the init event can commit it.  Two harnesses break it: the boot of one
\* orphans what the other has staged (recoverOrphansOnBoot).
StagedIsPending ==
  \A s \in Session : pend[s].wal # 0 => wal[pend[s].wal].status = "pending"

\* ... and that is the only way: the row of a rotation that stays staged is
\* never committed, and only the boot recovery of another harness orphans it;
\* no second reader, failed spawn or boot of its own does.
OnlyBootsOrphan ==
  [][\A s \in Session : LET i == pend[s].wal IN
       i # 0 /\ pend'[s].wal = i /\ wal'[i] # wal[i] =>
         /\ wal'[i].status = "orphaned"
         /\ \E p \in Session \ {s} : pc[p] = "recover" /\ i \in todo[p]]_vars

\* Once the init event of a fork has committed and the insert has run, the
\* chain holds a fork rollout that names the parent.
ForkIsRecorded ==
  \A s \in Session, k \in Slot :
    LET r == reader[s][k] IN
    r.pc = "upsert" /\ r.intent = "fork" =>
      rollouts[r.uuid] = [bridge |-> s, seq |-> r.seq, parent |-> r.parent, kind |-> "fork"]

-----------------------------------------------------------------------------
(* The store implements an append-only chain behind a write-ahead log.     *)

\* The chain the promise speaks of: a rollout row without its number.
Entry(u) ==
  IF rollouts[u] = NoRow THEN NoRow
  ELSE [bridge |-> rollouts[u].bridge, parent |-> rollouts[u].parent,
        kind |-> rollouts[u].kind]

Log == INSTANCE RotationLog WITH log <- wal, last <- walRows,
                                 chain <- [u \in UUID |-> Entry(u)]
RotationLog == Log!Spec
=============================================================================
