------------------------------ MODULE Requests ------------------------------
(***************************************************************************)
(* What the turn loop promises bridge-server of the messages it is sent,   *)
(* whichever goroutine is ahead and whatever Claude Code does: they are    *)
(* given to processes one at a time, in their order, each once and never   *)
(* to a process before the newest; a process's answers come in the order   *)
(* of its messages, each once, and none after its death is reported; a     *)
(* message ends the wait for it at most one way, and no answered one is    *)
(* reported as stalled.                                                    *)
(***************************************************************************)
EXTENDS Naturals

CONSTANTS Message, Process, \* numbers, in the order they are sent and spawned
          None

VARIABLES open,     \* the message bridge-server waits for
          to,       \* the process a message was given to
          answered, \* messages whose result was sent
          stalled,  \* ... reported TURN_IDLE_TIMEOUT
          returned, \* ... whose request has returned
          died      \* processes reported PROCESS_DIED

Ask(m, g) ==
  /\ open = None /\ g \notin died
  /\ \A k \in Message : to[k] # None => k < m /\ to[k] <= g
  /\ to' = [to EXCEPT ![m] = g] /\ open' = m
  /\ UNCHANGED <<answered, stalled, returned, died>>

Answer(m) ==
  /\ to[m] # None /\ to[m] \notin died
  /\ \A k \in answered : to[k] = to[m] => k < m
  /\ answered' = answered \cup {m}
  /\ UNCHANGED <<open, to, stalled, returned, died>>

Return ==
  /\ open # None /\ open' = None
  /\ returned' = returned \cup {open}
  /\ UNCHANGED <<to, answered, stalled, died>>

Stall ==
  /\ open # None /\ open \notin answered /\ open' = None
  /\ stalled' = stalled \cup {open}
  /\ UNCHANGED <<to, answered, returned, died>>

\* The harness shuts down.
Abandon ==
  /\ open # None /\ open' = None
  /\ UNCHANGED <<to, answered, stalled, returned, died>>

ReportDeath(g) ==
  /\ g \notin died /\ died' = died \cup {g}
  /\ UNCHANGED <<open, to, answered, stalled, returned>>

Init ==
  /\ open = None /\ to = [m \in Message |-> None]
  /\ answered = {} /\ stalled = {} /\ returned = {} /\ died = {}

Next ==
  \/ \E m \in Message : Answer(m) \/ \E g \in Process : Ask(m, g)
  \/ Return \/ Stall \/ Abandon
  \/ \E g \in Process : ReportDeath(g)

Spec == Init /\ [][Next]_<<open, to, answered, stalled, returned, died>>
=============================================================================
