---------------------------- MODULE RotationLog -----------------------------
(***************************************************************************)
(* What the store promises about session rotations, whoever writes to it   *)
(* and whenever they crash: the log numbers its rows in order, a row is    *)
(* settled once, as committed or as orphaned, and never changes after;     *)
(* the chain only grows, a UUID enters it once, and a start or a fork      *)
(* enters it only behind the log row that committed it.                    *)
(***************************************************************************)
EXTENDS Naturals

CONSTANTS Session, UUID, MaxRows, NoId, NoRow

VARIABLES log, last, chain

Open ==
  /\ last < MaxRows
  /\ last' = last + 1
  /\ \E s \in Session, kind \in {"start", "fork"}, p \in UUID \cup {NoId} :
       log' = [log EXCEPT ![last + 1] =
                 [status |-> "pending", bridge |-> s, intent |-> kind,
                  parent |-> p, newId |-> NoId]]
  /\ UNCHANGED chain

Commit(i) ==
  /\ log[i].status = "pending"
  /\ \E u \in UUID :
       log' = [log EXCEPT ![i].status = "committed", ![i].newId = u]
  /\ UNCHANGED <<last, chain>>

Orphan(i) ==
  /\ log[i].status = "pending"
  /\ log' = [log EXCEPT ![i].status = "orphaned"]
  /\ UNCHANGED <<last, chain>>

\* The row behind a chain entry.
Committed(i, u, e) ==
  /\ log[i].status = "committed" /\ log[i].newId = u
  /\ log[i].bridge = e.bridge /\ log[i].intent = e.kind /\ log[i].parent = e.parent

Extend(u) ==
  /\ chain[u] = NoRow /\ chain'[u] # NoRow
  /\ \E e \in [bridge : Session, parent : UUID \cup {NoId},
               kind : {"start", "resume", "fork"}] :
       /\ e.kind = "resume" \/ \E i \in 1..MaxRows : Committed(i, u, e)
       /\ chain' = [chain EXCEPT ![u] = e]
  /\ UNCHANGED <<log, last>>

Init ==
  /\ last = 0
  /\ \A i \in 1..MaxRows : log[i].status = "free"
  /\ chain = [u \in UUID |-> NoRow]

Next ==
  \/ Open
  \/ \E i \in 1..MaxRows : Commit(i) \/ Orphan(i)
  \/ \E u \in UUID : Extend(u)

Spec == Init /\ [][Next]_<<log, last, chain>>
=============================================================================
