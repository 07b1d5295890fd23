----------------------------- MODULE TurnUsage -----------------------------
(***************************************************************************)
(* What a turn used and cost.  Claude Code writes a frame for each API     *)
(* call and, at the end of the turn, a result frame with the cost of its   *)
(* process so far.  The reader keeps one aggregator for the whole life of  *)
(* the harness: it turns the cumulative figure into the turn's own cost    *)
(* and lists the turn's calls, over turns that fail, that are not priced,  *)
(* that die unfinished, and over processes that start again at zero.       *)
(***************************************************************************)
EXTENDS Naturals, Sequences

CONSTANTS MaxProcs,  \* bound: processes spawned
          MaxTurns,  \* bound: turns begun
          MaxCalls,  \* bound: API calls made
          MaxPrice   \* bound: the cost of a call

ASSUME UsageAssumption ==
  MaxProcs \in Nat /\ MaxTurns \in Nat /\ MaxCalls \in Nat /\ MaxPrice \in Nat

VARIABLES procs,    \* processes spawned so far
          running,  \* the last one runs
          total,    \* what it has spent so far: total_cost_usd
          turns,    \* turns begun so far
          turn,     \* the turn it is in, 0 for none
          made,     \* the turn of each API call, in order
          out,      \* frames the reader has not read
          calls, cumulativeCostUSD,   \* UsageAggregator
          spent,    \* what all processes spent
          charged,  \* what the emitted results cost
          forgone,  \* the cost of turns that ended in an error event
          seen,     \* the last total of this process that was not 0, as read
          cut,      \* turns that died before their result was read
          last      \* the last result emitted

claude == <<procs, running, total, turns, turn, made, spent>>
agg    == <<calls, cumulativeCostUSD>>
vars   == <<claude, out, agg, charged, forgone, seen, cut, last>>

Call == 1..MaxCalls
Turn == 1..MaxTurns
NoResult == [turn |-> 0, calls |-> <<>>, contextOf |-> 0]
Frame == [kind : {"call"}, call : Nat]
         \cup [kind : {"result"}, turn : Nat, cost : Nat, isError : BOOLEAN]

TypeOK ==
  /\ procs \in Nat /\ running \in BOOLEAN /\ total \in Nat
  /\ turns \in Nat /\ turn \in Nat /\ made \in Seq(Nat)
  /\ out \in Seq(Frame)
  /\ calls \in Seq(Nat) /\ cumulativeCostUSD \in Nat
  /\ spent \in Nat /\ charged \in Nat /\ forgone \in Nat /\ seen \in Nat
  /\ cut \subseteq Nat
  /\ last \in [turn : Nat, calls : Seq(Nat), contextOf : Nat]

Init ==
  /\ procs = 0 /\ running = FALSE /\ total = 0 /\ turns = 0 /\ turn = 0
  /\ made = <<>> /\ out = <<>>
  /\ calls = <<>> /\ cumulativeCostUSD = 0
  /\ spent = 0 /\ charged = 0 /\ forgone = 0 /\ seen = 0
  /\ cut = {} /\ last = NoResult

-----------------------------------------------------------------------------
(* Claude Code (external).                                                 *)

harness == <<agg, charged, forgone, last>>

\* A respawn; the readers of its predecessor have drained by the time it is up.
Spawn ==
  /\ ~running /\ out = <<>> /\ procs < MaxProcs
  /\ running' = TRUE /\ procs' = procs + 1 /\ total' = 0 /\ seen' = 0
  /\ UNCHANGED <<turns, turn, made, spent, out, cut, harness>>

BeginTurn ==
  /\ running /\ turn = 0 /\ turns < MaxTurns
  /\ turns' = turns + 1 /\ turn' = turns + 1
  /\ UNCHANGED <<procs, running, total, made, spent, out, cut, seen, harness>>

CallAPI ==
  /\ running /\ turn # 0 /\ Len(made) < MaxCalls
  /\ \E price \in 0..MaxPrice : total' = total + price /\ spent' = spent + price
  /\ made' = Append(made, turn)
  /\ out' = Append(out, [kind |-> "call", call |-> Len(made) + 1])
  /\ UNCHANGED <<procs, running, turns, turn, cut, seen, harness>>

\* A result that is not priced says 0.
EndTurn ==
  /\ running /\ turn # 0
  /\ \E isError \in BOOLEAN, cost \in {0, total} :
       out' = Append(out, [kind |-> "result", turn |-> turn, cost |-> cost,
                           isError |-> isError])
  /\ turn' = 0
  /\ UNCHANGED <<procs, running, total, turns, made, spent, cut, seen, harness>>

\* With the process go the frames not yet read, or the last of them.
Die ==
  /\ running /\ running' = FALSE
  /\ \E n \in 0..Len(out) :
       /\ out' = SubSeq(out, 1, n)
       /\ cut' = cut \cup ({turn} \ {0})
                 \cup {out[i].turn : i \in {j \in (n + 1)..Len(out) : out[j].kind = "result"}}
  /\ turn' = 0
  /\ UNCHANGED <<procs, total, turns, made, spent, seen, harness>>

-----------------------------------------------------------------------------
(* The reader: translateEvent.                                             *)

\* translateAssistant: AddAPICall.
ReadCall ==
  /\ out # <<>> /\ Head(out).kind = "call" /\ out' = Tail(out)
  /\ calls' = Append(calls, Head(out).call)
  /\ UNCHANGED <<claude, cumulativeCostUSD, charged, forgone, seen, cut, last>>

\* Seeded faults: a result without a price clears the kept figure; each turn
\* is charged the running total.
turnCost_ForgetsTotal(cumulativeUSD) ==
  [turnUSD |-> IF cumulativeUSD < cumulativeCostUSD THEN cumulativeUSD
               ELSE cumulativeUSD - cumulativeCostUSD,
   cumulativeCostUSD |-> cumulativeUSD]

turnCost_RunningTotal(cumulativeUSD) ==
  [turnUSD |-> cumulativeUSD, cumulativeCostUSD |-> cumulativeUSD]

\* Seeded fault: a process that started over is not noticed.
turnCost_NoRestart(cumulativeUSD) ==
  IF cumulativeUSD = 0
  THEN [turnUSD |-> 0, cumulativeCostUSD |-> cumulativeCostUSD]
  ELSE [turnUSD |-> cumulativeUSD - cumulativeCostUSD, cumulativeCostUSD |-> cumulativeUSD]

\* The turn's cost, 0 for none, and the figure kept.  A total below the kept one
\* is a new process's.
turnCost(cumulativeUSD) ==
  IF cumulativeUSD = 0
  THEN [turnUSD |-> 0, cumulativeCostUSD |-> cumulativeCostUSD]
  ELSE [turnUSD |-> IF cumulativeUSD < cumulativeCostUSD THEN cumulativeUSD
                    ELSE cumulativeUSD - cumulativeCostUSD,
        cumulativeCostUSD |-> cumulativeUSD]

\* Seeded fault: the first call's.
Finalize_FirstCall(t) ==
  [turn |-> t, calls |-> calls, contextOf |-> IF calls = <<>> THEN 0 ELSE calls[1]]

\* The calls a result lists, and the one whose input is its context size.
Finalize(t) ==
  [turn |-> t, calls |-> calls,
   contextOf |-> IF calls = <<>> THEN 0 ELSE calls[Len(calls)]]

\* Seeded fault: the aggregator is reset only after a success.
ReadResult_ResetsOnSuccess ==
  LET f    == Head(out)
      cost == turnCost(f.cost)
  IN /\ out # <<>> /\ f.kind = "result" /\ out' = Tail(out)
     /\ cumulativeCostUSD' = cost.cumulativeCostUSD
     /\ IF f.isError
        THEN forgone' = forgone + cost.turnUSD /\ UNCHANGED <<charged, last, calls>>
        ELSE /\ charged' = charged + cost.turnUSD /\ last' = Finalize(f.turn)
             /\ calls' = <<>> /\ UNCHANGED forgone
     /\ seen' = IF f.cost > 0 THEN f.cost ELSE seen
     /\ UNCHANGED <<claude, cut>>

\* translateResult: the cost is worked out in any case and emitted with a
\* result event, not with an error event; then agg.Reset.
ReadResult ==
  LET f    == Head(out)
      cost == turnCost(f.cost)
  IN /\ out # <<>> /\ f.kind = "result" /\ out' = Tail(out)
     /\ cumulativeCostUSD' = cost.cumulativeCostUSD
     /\ IF f.isError
        THEN forgone' = forgone + cost.turnUSD /\ UNCHANGED <<charged, last>>
        ELSE charged' = charged + cost.turnUSD /\ last' = Finalize(f.turn) /\ UNCHANGED forgone
     /\ calls' = <<>>
     /\ seen' = IF f.cost > 0 THEN f.cost ELSE seen
     /\ UNCHANGED <<claude, cut>>

Next == Spawn \/ BeginTurn \/ CallAPI \/ EndTurn \/ Die \/ ReadCall \/ ReadResult

Spec == Init /\ [][Next]_vars

-----------------------------------------------------------------------------
(* Properties.                                                             *)

\* The costs of a session's results never add up to more than Claude Code
\* spent: no figure is charged twice, although processes start again at zero
\* and some turns have no price.
NeverOvercharged == charged + forgone <= spent

\* As long as the first process runs, the costs add up to the last total it
\* put a price on, less what ended in an error event.
OneProcessExact == procs = 1 => charged + forgone = seen

\* A result lists the calls of its own turn, all of them and once, after those of
\* turns that died without a result, which nothing else would list; the context
\* size it shows is that of its turn's final call.
CallsAreTheTurns ==
  last.turn # 0 =>
    /\ \A i \in DOMAIN last.calls : made[last.calls[i]] \in {last.turn} \cup cut
    /\ \A n \in DOMAIN made : made[n] = last.turn => \E i \in DOMAIN last.calls : last.calls[i] = n
    /\ \A i, j \in DOMAIN last.calls : i < j => last.calls[i] < last.calls[j]
    /\ \A n \in DOMAIN made :
         made[n] = last.turn /\ (\A m \in DOMAIN made : made[m] = last.turn => m <= n)
           => last.contextOf = n

\* The first price a new process puts on a turn is charged in full (turnCost: "its
\* whole total is this turn's").  No run lists it: a new process whose first total
\* is not below the kept one breaks it (README, Departures).
RestartCharged ==
  [][seen = 0 /\ seen' > 0 => charged' + forgone' = charged + forgone + seen']_vars
=============================================================================
