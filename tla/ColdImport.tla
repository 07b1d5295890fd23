----------------------------- MODULE ColdImport -----------------------------
(***************************************************************************)
(* Discovery beside running harnesses.  -discover and -changed-since are   *)
(* processes of their own over the same state.db: they walk the transcript *)
(* tree and record each conversation no rollout row names as a session of  *)
(* its own, in two statements.  What they decide on may be old by then: a  *)
(* harness records conversations meanwhile, and a walk may be killed       *)
(* between any two statements.  Of the harness this module keeps what      *)
(* touches the two tables; its write-ahead log is in SessionChain.         *)
(***************************************************************************)
EXTENDS Naturals, FiniteSets

CONSTANTS Session,   \* the bridge's own sessions
          UUID,      \* conversations; an imported one is its own session
          Walker,    \* processes started with -discover or -changed-since
          MaxKills,  \* bound: walks killed half-way
          NoId,      \* the empty id ''
          NoRow      \* no row under this key

ASSUME ImportAssumption ==
  /\ Session \cap UUID = {} /\ MaxKills \in Nat
  /\ NoId \notin UUID /\ NoRow \notin UUID \cup {NoId}
  /\ NoRow \notin [bridge : Session \cup UUID, seq : Nat, parent : UUID \cup {NoId},
                   kind : {"start", "resume"}]

VARIABLES sessions,  \* table sessions: key -> current_harness_id
          rollouts,  \* table rollouts: harness_session_id -> row
          harness,   \* the harness of a session and the Claude Code it runs
          known,     \* the harness_session_id bridge-server holds (external)
          disk,      \* conversations with a transcript under projectsRoot(), in a
                     \* directory a walk may read: it skips one it may not
          walk,      \* each walk
          kills      \* walks killed so far

tables == <<sessions, rollouts>>
vars   == <<tables, harness, known, disk, walk, kills>>

Key == Session \cup UUID
Id  == UUID \cup {NoId}
Row == [bridge : Key, seq : Nat, parent : Id, kind : {"start", "resume"}]
Harness == [pc : {"down", "running", "sequence", "insert", "upsert", "recorded"},
            uuid : Id, parent : Id, kind : {"start", "resume"}, seq : Nat]
NoHarness == [pc |-> "down", uuid |-> NoId, parent |-> NoId, kind |-> "start", seq |-> 0]
Walk == [pc : {"off", "walk", "lookup", "insert"},
         full : BOOLEAN,        \* -discover; else -changed-since
         known : SUBSET UUID,   \* loadKnownHarnessIDs
         start : SUBSET UUID,   \* the transcripts it set out to record
         todo : SUBSET UUID,    \* ... and has still to consider
         id : Id]               \* the one it is at
NoWalk == [pc |-> "off", full |-> FALSE, known |-> {}, start |-> {}, todo |-> {},
           id |-> NoId]

TypeOK ==
  /\ sessions \in [Key -> Id \cup {NoRow}]
  /\ rollouts \in [UUID -> Row \cup {NoRow}]
  /\ harness \in [Key -> Harness]
  /\ known \in [Key -> Id]
  /\ disk \subseteq UUID /\ walk \in [Walker -> Walk] /\ kills \in 0..MaxKills

Init ==
  /\ sessions = [s \in Key |-> NoRow] /\ rollouts = [u \in UUID |-> NoRow]
  /\ harness = [s \in Key |-> NoHarness] /\ known = [s \in Key |-> NoId]
  /\ disk = {} /\ walk = [w \in Walker |-> NoWalk] /\ kills = 0

-----------------------------------------------------------------------------
(* The store's statements.                                                 *)

UpsertSession(s, u) == sessions' = [sessions EXCEPT ![s] = u]

\* The primary key refuses a second row for a UUID, the foreign key a row
\* whose session has none.
InsertRollout(u, row) ==
  /\ rollouts[u] = NoRow /\ sessions[row.bridge] # NoRow
  /\ rollouts' = [rollouts EXCEPT ![u] = row]

ListRollouts(s) == {u \in UUID : rollouts[u] # NoRow /\ rollouts[u].bridge = s}

\* Seeded fault: an empty chain is counted from one below.
nextSequence_Below(s) ==
  Cardinality(ListRollouts(s)) - 1

nextSequence(s) ==
  IF ListRollouts(s) = {} THEN 0
  ELSE 1 + (CHOOSE n \in {rollouts[u].seq : u \in ListRollouts(s)} :
              \A u \in ListRollouts(s) : rollouts[u].seq <= n)

-----------------------------------------------------------------------------
(* A harness, and the conversations.                                       *)

Harn(s, now) == harness' = [harness EXCEPT ![s] = now]

\* Claude Code mints a UUID nothing refers to.
Fresh == {u \in UUID :
  /\ rollouts[u] = NoRow /\ u \notin disk /\ sessions[u] = NoRow
  /\ \A s \in Key : u \notin {sessions[s], known[s], harness[s].uuid}}

\* A conversation run in a terminal.
RunOutside(u) ==
  /\ u \in Fresh
  /\ disk' = disk \cup {u}
  /\ UNCHANGED <<tables, harness, known, walk, kills>>

\* A session bridge-server has no id of starts cold.  It has one of every
\* imported session it knows.
StartCold(s) ==
  /\ s \in Session /\ harness[s].pc = "down" /\ known[s] = NoId
  /\ UpsertSession(s, NoId)
  /\ \E u \in Fresh : Harn(s, [NoHarness EXCEPT !.pc = "running", !.uuid = u])
  /\ UNCHANGED <<rollouts, known, disk, walk, kills>>

\* Claude Code keeps the conversation's UUID or, rarely, mints one.
StartResume(s) ==
  /\ harness[s].pc = "down" /\ known[s] # NoId
  /\ \E u \in Fresh \cup {known[s]} :
       Harn(s, [NoHarness EXCEPT !.pc = "running", !.uuid = u, !.parent = known[s],
                                 !.kind = "resume"])
  /\ UNCHANGED <<tables, known, disk, walk, kills>>

\* It opens its transcript before or after its init frame is read.
WriteTranscript(s) ==
  /\ harness[s].pc # "down" /\ harness[s].uuid \notin disk
  /\ disk' = disk \cup {harness[s].uuid}
  /\ UNCHANGED <<tables, harness, known, walk, kills>>

\* The init frame: recordChainOnInit.
ReadInit(s) ==
  LET h == harness[s] IN
  /\ h.pc = "running"
  /\ known' = [known EXCEPT ![s] = h.uuid]
  /\ Harn(s, [h EXCEPT !.pc = IF h.parent = h.uuid THEN "upsert" ELSE "sequence"])
  /\ UNCHANGED <<tables, disk, walk, kills>>

ReadSequence(s) ==
  /\ harness[s].pc = "sequence"
  /\ Harn(s, [harness[s] EXCEPT !.seq = nextSequence(s), !.pc = "insert"])
  /\ UNCHANGED <<tables, known, disk, walk, kills>>

\* An insert that fails is logged, and the recording goes on.
Insert(s) ==
  LET h   == harness[s]
      row == [bridge |-> s, seq |-> h.seq, parent |-> h.parent, kind |-> h.kind]
  IN /\ h.pc = "insert"
     /\ \/ InsertRollout(h.uuid, row)
        \/ /\ rollouts[h.uuid] # NoRow \/ sessions[s] = NoRow
           /\ UNCHANGED rollouts
     /\ Harn(s, [h EXCEPT !.pc = "upsert"])
     /\ UNCHANGED <<sessions, known, disk, walk, kills>>

Upsert(s) ==
  /\ harness[s].pc = "upsert"
  /\ UpsertSession(s, harness[s].uuid)
  /\ Harn(s, [harness[s] EXCEPT !.pc = "recorded"])
  /\ UNCHANGED <<rollouts, known, disk, walk, kills>>

\* The harness ends, at any point.
Stop(s) ==
  /\ harness[s].pc # "down"
  /\ Harn(s, NoHarness)
  /\ UNCHANGED <<tables, known, disk, walk, kills>>

-----------------------------------------------------------------------------
(* -discover: discoverSessions, coldImportRollouts.                        *)

Walks(w, now) == walk' = [walk EXCEPT ![w] = now]

\* Seeded fault: the set is taken from the current ids of the sessions table.
loadKnownHarnessIDs_CurrentOnly == {u \in UUID : \E s \in Key : sessions[s] = u}

\* AllSessions, then ListRollouts for each: a row that comes between these is as
\* good as one that comes after them.
loadKnownHarnessIDs == UNION {ListRollouts(s) : s \in {r \in Key : sessions[r] # NoRow}}

StartDiscover(w) ==
  /\ walk[w].pc = "off"
  /\ Walks(w, [NoWalk EXCEPT !.pc = "walk", !.full = TRUE, !.known = loadKnownHarnessIDs,
                             !.start = disk, !.todo = disk \ loadKnownHarnessIDs])
  /\ UNCHANGED <<tables, harness, known, disk, kills>>

\* The callback for a transcript not known, and coldImportRollout's first
\* statement; a transcript written since the walk began may be met too.
WalkFile(w) ==
  LET now == walk[w] IN
  /\ now.pc = "walk" /\ now.full
  /\ \E u \in now.todo \cup (disk \ (now.start \cup now.known)) :
       /\ UpsertSession(u, u)
       /\ Walks(w, [now EXCEPT !.todo = @ \ {u}, !.pc = "insert", !.id = u])
  /\ UNCHANGED <<rollouts, harness, known, disk, kills>>

-----------------------------------------------------------------------------
(* -changed-since: discoverSessionsChangedSince.                           *)

\* Which transcripts are newer than the time given is up to the caller.
StartChanged(w) ==
  /\ walk[w].pc = "off"
  /\ \E changed \in SUBSET disk \ {{}} :
       Walks(w, [NoWalk EXCEPT !.pc = "walk", !.start = changed, !.todo = changed])
  /\ UNCHANGED <<tables, harness, known, disk, kills>>

\* BridgeSessionIDForHarness: one lookup per file, and no import of a known one.
Lookup(w) ==
  LET now == walk[w] IN
  /\ now.pc = "walk" /\ ~now.full
  /\ \E u \in now.todo :
       Walks(w, IF rollouts[u] # NoRow THEN [now EXCEPT !.todo = @ \ {u}]
                ELSE [now EXCEPT !.todo = @ \ {u}, !.pc = "lookup", !.id = u])
  /\ UNCHANGED <<tables, harness, known, disk, kills>>

\* coldImportRollout's first statement.
ImportChanged(w) ==
  /\ walk[w].pc = "lookup"
  /\ UpsertSession(walk[w].id, walk[w].id)
  /\ Walks(w, [walk[w] EXCEPT !.pc = "insert"])
  /\ UNCHANGED <<rollouts, harness, known, disk, kills>>

-----------------------------------------------------------------------------
(* Both.                                                                   *)

\* coldImportRollout's second statement.  A row that came in between refuses it,
\* and the discovery ends with the error.
coldImportRollout(w) ==
  LET now == walk[w] IN
  /\ now.pc = "insert"
  /\ \/ /\ InsertRollout(now.id, [bridge |-> now.id, seq |-> 0, parent |-> NoId,
                                  kind |-> "start"])
        /\ Walks(w, [now EXCEPT !.pc = "walk", !.known = @ \cup {now.id}, !.id = NoId])
     \/ /\ rollouts[now.id] # NoRow
        /\ Walks(w, NoWalk)
        /\ UNCHANGED rollouts
  /\ UNCHANGED <<sessions, harness, known, disk, kills>>

\* What a discovery prints: session and harness id.  -discover lists every row,
\* -changed-since the rows of its transcripts under the transcript's own id.
Listed(w) ==
  IF walk[w].full THEN {<<s, sessions[s]>> : s \in {r \in Key : sessions[r] # NoRow}}
  ELSE {<<rollouts[u].bridge, u>> : u \in walk[w].start}

\* bridge-server takes up a session it has no id of, unless another session of
\* its own is in that conversation ("the field bridge-server dedupes on").
EndWalk(w) ==
  /\ walk[w].pc = "walk" /\ walk[w].todo = {}
  /\ Walks(w, NoWalk)
  /\ \E taken \in [Key -> Id] :
       /\ \A s \in Key :
            LET ids == {u \in UUID : <<s, u>> \in Listed(w) /\ \A r \in Key : known[r] # u}
            IN IF known[s] # NoId \/ ids = {} THEN taken[s] = known[s] ELSE taken[s] \in ids
       /\ known' = taken
  /\ UNCHANGED <<tables, harness, disk, kills>>

Killed(w) ==
  /\ walk[w].pc # "off" /\ kills < MaxKills
  /\ kills' = kills + 1
  /\ Walks(w, NoWalk)
  /\ UNCHANGED <<tables, harness, known, disk>>

-----------------------------------------------------------------------------
HarnessStep(s) ==
  \/ StartCold(s) \/ StartResume(s) \/ WriteTranscript(s)
  \/ ReadInit(s) \/ ReadSequence(s) \/ Insert(s) \/ Upsert(s) \/ Stop(s)

WalkStep(w) ==
  WalkFile(w) \/ Lookup(w) \/ ImportChanged(w) \/ coldImportRollout(w) \/ EndWalk(w)

Next ==
  \/ \E s \in Key : HarnessStep(s)
  \/ \E u \in UUID : RunOutside(u)
  \/ \E w \in Walker : StartDiscover(w) \/ StartChanged(w) \/ WalkStep(w) \/ Killed(w)

Spec == Init /\ [][Next]_vars

\* bridge-server runs -discover whenever it starts, again and again, and a walk
\* that is not killed goes on.
FairSpec ==
  Spec /\ \A w \in Walker : SF_vars(StartDiscover(w)) /\ WF_vars(WalkStep(w))

-----------------------------------------------------------------------------
(* Properties.                                                             *)

\* A discovery that ends without an error leaves a rollout for every transcript
\* it set out to record, whatever a walk killed half-way left behind.
WalkComplete ==
  [][\A w \in Walker : EndWalk(w) => \A u \in walk[w].start : rollouts[u] # NoRow]_vars

\* An import sets the current id of a session only while that session has no
\* chain: a conversation resumed and rotated since is never set back.
NeverRewinds ==
  [][\A w \in Walker : walk'[w].pc = "insert" /\ walk[w].pc # "insert"
       => ListRollouts(walk'[w].id) = {}]_vars

\* The rollouts of a session are numbered 0, 1, 2, ... without a gap or a tie,
\* although an import writes its number 0 without looking.
Numbered ==
  \A s \in Key :
    {rollouts[u].seq : u \in ListRollouts(s)} =
      {n \in 0..Cardinality(ListRollouts(s)) : n < Cardinality(ListRollouts(s))}

\* Every transcript is recorded in the end, also one whose harness died between
\* its init frame and its row, or that refused a walk's row.
EventuallyImported == \A u \in UUID : u \in disk ~> rollouts[u] # NoRow

\* A conversation a session started is listed under that session.
SpawnedIsBridges ==
  \A s \in Session :
    harness[s].pc = "recorded" /\ harness[s].kind = "start" =>
      rollouts[harness[s].uuid].bridge = s
=============================================================================
