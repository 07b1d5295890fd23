--------------------------- MODULE TurnUsageProofs ---------------------------
(***************************************************************************)
(* What a session's results cost, for any number of processes, turns and   *)
(* calls and any price: never more than was spent, and exactly that as     *)
(* long as the first process runs.  A total read is compared with the one  *)
(* kept, so the argument is about the totals still to be read.             *)
(* And a result lists the calls of its own turn; here the argument is      *)
(* about the calls and results still to be read.                           *)
(***************************************************************************)
EXTENDS TurnUsage, TLAPS

\* The total of a frame, 0 for one without.
Priced(i) == out[i].kind = "result" /\ out[i].cost # 0

\* The totals not yet read lie between the last one read and the process's own,
\* and grow.
TotalsGrow ==
  /\ seen <= total /\ total <= spent
  /\ \A i \in DOMAIN out : Priced(i) => seen <= out[i].cost /\ out[i].cost <= total
  /\ \A i, j \in DOMAIN out : i < j /\ Priced(i) /\ Priced(j) => out[i].cost <= out[j].cost

\* The figure kept is this process's last total, if it gave one.
KeptIsSeen == seen > 0 => cumulativeCostUSD = seen

\* What was charged is what earlier processes spent at most, and this one's last
\* total.
ChargedSoFar == charged + forgone + total <= spent + seen

\* Before the second process nothing is inferred.
FirstProcess ==
  /\ running => procs > 0
  /\ procs = 0 => out = <<>> /\ seen = 0
  /\ procs <= 1 => charged + forgone = seen /\ cumulativeCostUSD = seen

CostInv == TypeOK /\ TotalsGrow /\ KeptIsSeen /\ ChargedSoFar /\ FirstProcess

-----------------------------------------------------------------------------
(* Types.                                                                  *)

\* turnCost yields two natural numbers: no figure becomes negative.
LEMMA turnCostNat ==
  ASSUME cumulativeCostUSD \in Nat, NEW k \in Nat
  PROVE  turnCost(k).turnUSD \in Nat /\ turnCost(k).cumulativeCostUSD \in Nat
  BY DEF turnCost

\* A turn's cost is its whole total or the difference from the kept one, and a
\* priced total is kept.
LEMMA turnCostIs ==
  ASSUME cumulativeCostUSD \in Nat, NEW k \in Nat
  PROVE  /\ k = 0 => turnCost(k).turnUSD = 0 /\ turnCost(k).cumulativeCostUSD = cumulativeCostUSD
         /\ k > 0 => /\ turnCost(k).cumulativeCostUSD = k
                     /\ turnCost(k).turnUSD <= k
                     /\ k >= cumulativeCostUSD => turnCost(k).turnUSD = k - cumulativeCostUSD
  BY DEF turnCost

\* The frame at the head of out, and what is left.
LEMMA HeadTail ==
  ASSUME out \in Seq(Frame), out # <<>>
  PROVE  /\ Len(out) \in Nat /\ Len(out) > 0
         /\ Head(out) \in Frame /\ Head(out) = out[1] /\ 1 \in DOMAIN out
         /\ Tail(out) \in Seq(Frame)
         /\ Len(Tail(out)) = Len(out) - 1
         /\ DOMAIN out = 1..Len(out) /\ DOMAIN Tail(out) = 1..(Len(out) - 1)
         /\ \A i \in DOMAIN Tail(out) : i + 1 \in DOMAIN out /\ Tail(out)[i] = out[i + 1]
  OBVIOUS

\* The total of a result not yet read is a number.
LEMMA PricedNat ==
  ASSUME out \in Seq(Frame), NEW i \in DOMAIN out, Priced(i)
  PROVE  out[i].cost \in Nat
  BY DEF Priced, Frame

LEMMA InitType == Init => TypeOK
<1> SUFFICES ASSUME Init PROVE TypeOK
  OBVIOUS
<1>1. NoResult \in [turn : Nat, calls : Seq(Nat), contextOf : Nat]
  BY DEF NoResult
<1>2. <<>> \in Seq(Nat) /\ <<>> \in Seq(Frame)
  OBVIOUS
<1> QED
  BY <1>1, <1>2 DEF Init, TypeOK

LEMMA NextType == TypeOK /\ [Next]_vars => TypeOK'
<1> SUFFICES ASSUME TypeOK, [Next]_vars PROVE TypeOK'
  OBVIOUS
<1> USE UsageAssumption DEF TypeOK
<1>1. CASE Spawn
  BY <1>1 DEF Spawn, harness, agg
<1>2. CASE BeginTurn
  BY <1>2 DEF BeginTurn, harness, agg
<1>3. CASE CallAPI
  <2>1. PICK price \in 0..MaxPrice : total' = total + price /\ spent' = spent + price
    BY <1>3 DEF CallAPI
  <2>2. [kind |-> "call", call |-> Len(made) + 1] \in Frame
    BY DEF Frame
  <2>3. out' \in Seq(Frame)
    BY <1>3, <2>2 DEF CallAPI
  <2>4. made' \in Seq(Nat)
    BY <1>3 DEF CallAPI
  <2> QED
    BY <1>3, <2>1, <2>3, <2>4 DEF CallAPI, harness, agg
<1>4. CASE EndTurn
  <2>1. PICK isError \in BOOLEAN, cost \in {0, total} :
          out' = Append(out, [kind |-> "result", turn |-> turn, cost |-> cost,
                              isError |-> isError])
    BY <1>4 DEF EndTurn
  <2>2. [kind |-> "result", turn |-> turn, cost |-> cost, isError |-> isError] \in Frame
    BY DEF Frame
  <2> QED
    BY <1>4, <2>1, <2>2 DEF EndTurn, harness, agg
<1>5. CASE Die
  <2>1. PICK n \in 0..Len(out) :
          /\ out' = SubSeq(out, 1, n)
          /\ cut' = cut \cup ({turn} \ {0})
                    \cup {out[i].turn : i \in {j \in (n + 1)..Len(out) : out[j].kind = "result"}}
    BY <1>5 DEF Die
  <2>2. out' \in Seq(Frame)
    BY <2>1
  <2>3. \A i \in {j \in (n + 1)..Len(out) : out[j].kind = "result"} : out[i].turn \in Nat
    BY DEF Frame
  <2>4. cut' \subseteq Nat
    BY <2>1, <2>3
  <2> QED
    BY <1>5, <2>2, <2>4 DEF Die, harness, agg
<1>6. CASE ReadCall
  <2>1. Head(out) \in Frame /\ Tail(out) \in Seq(Frame) /\ Head(out).kind = "call"
    BY <1>6, HeadTail DEF ReadCall
  <2>2. Head(out).call \in Nat
    BY <2>1 DEF Frame
  <2> QED
    BY <1>6, <2>1, <2>2 DEF ReadCall, claude
<1>7. CASE ReadResult
  <2>1. Head(out) \in Frame /\ Tail(out) \in Seq(Frame) /\ Head(out).kind = "result"
    BY <1>7, HeadTail DEF ReadResult
  <2>2. Head(out).cost \in Nat /\ Head(out).turn \in Nat
    BY <2>1 DEF Frame
  <2>3. Finalize(Head(out).turn) \in [turn : Nat, calls : Seq(Nat), contextOf : Nat]
    BY <2>2 DEF Finalize
  <2>4. turnCost(Head(out).cost).turnUSD \in Nat /\ turnCost(Head(out).cost).cumulativeCostUSD \in Nat
    BY <2>2, turnCostNat
  <2>5. charged' \in Nat /\ forgone' \in Nat
    <3>1. charged \in Nat /\ forgone \in Nat
      OBVIOUS
    <3> HIDE DEF TypeOK
    <3> QED
      BY <1>7, <2>4, <3>1 DEF ReadResult
  <2>7. last' \in [turn : Nat, calls : Seq(Nat), contextOf : Nat]
    <3>1. last \in [turn : Nat, calls : Seq(Nat), contextOf : Nat]
      OBVIOUS
    <3> HIDE DEF TypeOK
    <3> QED
      BY <1>7, <2>3, <3>1 DEF ReadResult
  <2>6. seen' \in Nat /\ cumulativeCostUSD' \in Nat /\ calls' \in Seq(Nat)
    BY <1>7, <2>2, <2>4 DEF ReadResult
  <2> QED
    BY <1>7, <2>1, <2>5, <2>6, <2>7 DEF ReadResult, claude
<1>8. CASE UNCHANGED vars
  BY <1>8 DEF vars, claude, agg
<1> QED
  BY <1>1, <1>2, <1>3, <1>4, <1>5, <1>6, <1>7, <1>8 DEF Next

-----------------------------------------------------------------------------
(* The invariant.                                                          *)

LEMMA InitCost == Init => CostInv
  BY InitType, UsageAssumption DEF Init, CostInv, TotalsGrow, KeptIsSeen, ChargedSoFar, FirstProcess, Priced

\* Reading a result leaves the invariant: the total read takes the place of seen.
LEMMA ReadResultCost == CostInv /\ ReadResult /\ TypeOK' => CostInv'
<1> SUFFICES ASSUME CostInv, ReadResult, TypeOK' PROVE CostInv'
  OBVIOUS
<1> DEFINE k    == Head(out).cost
           paid == turnCost(k).turnUSD
           kept == turnCost(k).cumulativeCostUSD
<1>0. /\ {total, spent, charged, forgone, seen, cumulativeCostUSD, procs} \subseteq Nat
      /\ {charged', forgone', seen', cumulativeCostUSD'} \subseteq Nat
  BY DEF CostInv, TypeOK
<1>1. /\ out # <<>> /\ out \in Seq(Frame) /\ Head(out).kind = "result" /\ out' = Tail(out)
      /\ total' = total /\ spent' = spent /\ procs' = procs /\ running' = running
  BY DEF CostInv, TypeOK, ReadResult, claude
<1>2. k \in Nat /\ paid \in Nat /\ kept \in Nat
  <2>1. Head(out) \in Frame
    BY <1>1, HeadTail
  <2>2. k \in Nat
    BY <1>1, <2>1 DEF Frame
  <2> QED
    BY <2>2, turnCostNat DEF CostInv, TypeOK
<1>3. /\ charged' + forgone' = charged + forgone + paid
      /\ cumulativeCostUSD' = kept
      /\ seen' = IF k > 0 THEN k ELSE seen
  <2>1. \/ charged' = charged /\ forgone' = forgone + paid
        \/ charged' = charged + paid /\ forgone' = forgone
    BY DEF ReadResult
  <2>2. charged' + forgone' = charged + forgone + paid
    <3> HIDE DEF paid
    <3> QED
      BY <1>0, <1>2, <2>1
  <2> QED
    BY <2>2 DEF ReadResult
<1>4. k > 0 => seen <= k /\ k <= total
  BY <1>1, <1>2, HeadTail DEF CostInv, TotalsGrow, Priced
<1>5. /\ k = 0 => paid = 0 /\ kept = cumulativeCostUSD
      /\ k > 0 => /\ kept = k /\ paid <= k
                  /\ k >= cumulativeCostUSD => paid = k - cumulativeCostUSD
  BY <1>2, turnCostIs DEF CostInv, TypeOK
<1> HIDE DEF k, paid, kept
<1>6. TotalsGrow'
  <2>1. seen' <= total' /\ total' <= spent'
    BY <1>1, <1>3, <1>4 DEF CostInv, TotalsGrow
  <2>2. \A i \in DOMAIN out' : i + 1 \in DOMAIN out /\ out'[i] = out[i + 1] /\ i \in Nat /\ i > 0
    BY <1>1, HeadTail
  <2>3. ASSUME NEW i \in DOMAIN out', Priced(i)'
        PROVE  seen' <= out'[i].cost /\ out'[i].cost <= total'
    <3>1. Priced(i + 1) /\ i + 1 \in DOMAIN out /\ out'[i].cost = out[i + 1].cost
      BY <2>2, <2>3 DEF Priced
    <3>2. k > 0 => k <= out[i + 1].cost
      <4>1. k > 0 => Priced(1) /\ 1 \in DOMAIN out /\ out[1].cost = k
        BY <1>1, <1>2, HeadTail DEF Priced, k
      <4>2. 1 < i + 1
        BY <2>2
      <4> QED
        BY <3>1, <4>1, <4>2 DEF CostInv, TotalsGrow
    <3>3. seen <= out[i + 1].cost /\ out[i + 1].cost <= total
      BY <3>1 DEF CostInv, TotalsGrow
    <3> QED
      BY <1>1, <1>3, <3>1, <3>2, <3>3
  <2>4. ASSUME NEW i \in DOMAIN out', NEW j \in DOMAIN out', i < j, Priced(i)', Priced(j)'
        PROVE  out'[i].cost <= out'[j].cost
    <3>1. Priced(i + 1) /\ Priced(j + 1) /\ i + 1 < j + 1
      BY <2>2, <2>4 DEF Priced
    <3> QED
      BY <2>2, <3>1 DEF CostInv, TotalsGrow
  <2> QED
    BY <2>1, <2>3, <2>4 DEF TotalsGrow
<1>7. KeptIsSeen'
  BY <1>0, <1>2, <1>3, <1>5 DEF CostInv, KeptIsSeen
<1>8. ChargedSoFar'
  <2>1. charged + forgone + total <= spent + seen
    BY DEF CostInv, ChargedSoFar
  <2>2. CASE k = 0
    BY <1>0, <1>1, <1>2, <1>3, <1>5, <2>1, <2>2 DEF ChargedSoFar
  <2>3. CASE k > 0 /\ seen > 0
    <3>1. paid = k - seen
      BY <1>4, <1>5, <2>3 DEF CostInv, KeptIsSeen
    <3>2. charged' + forgone' = charged + forgone + (k - seen) /\ seen' = k
      BY <1>3, <2>3, <3>1
    <3>3. total' = total /\ spent' = spent /\ k \in Nat
      BY <1>1, <1>2
    <3> QED
      BY <1>0, <2>1, <3>2, <3>3 DEF ChargedSoFar
  <2>4. CASE k > 0 /\ seen = 0
    <3>1. charged' + forgone' = charged + forgone + paid /\ paid <= k /\ seen' = k
      BY <1>3, <1>5, <2>4
    <3>2. total' = total /\ spent' = spent /\ k \in Nat /\ paid \in Nat
      BY <1>1, <1>2
    <3> QED
      BY <1>0, <2>1, <2>4, <3>1, <3>2 DEF ChargedSoFar
  <2> QED
    BY <1>0, <1>2, <2>2, <2>3, <2>4
<1>9. FirstProcess'
  <2>1. procs > 0
    BY <1>1 DEF CostInv, FirstProcess, TypeOK
  <2>2. procs <= 1 => charged' + forgone' = seen' /\ cumulativeCostUSD' = seen'
    <3> SUFFICES ASSUME procs <= 1
                 PROVE  charged' + forgone' = seen' /\ cumulativeCostUSD' = seen'
      OBVIOUS
    <3>1. charged + forgone = seen /\ cumulativeCostUSD = seen
      BY DEF CostInv, FirstProcess
    <3> QED
      BY <1>0, <1>2, <1>3, <1>4, <1>5, <3>1
  <2> QED
    BY <1>1, <2>1, <2>2 DEF FirstProcess, CostInv
<1> QED
  BY <1>6, <1>7, <1>8, <1>9 DEF CostInv

LEMMA NextCost == CostInv /\ [Next]_vars => CostInv'
<1> SUFFICES ASSUME CostInv, [Next]_vars PROVE CostInv'
  OBVIOUS
<1>0. TypeOK'
  BY NextType DEF CostInv
<1>n. /\ total \in Nat /\ spent \in Nat /\ charged \in Nat /\ forgone \in Nat
      /\ seen \in Nat /\ cumulativeCostUSD \in Nat /\ procs \in Nat
      /\ out \in Seq(Frame) /\ DOMAIN out = 1..Len(out) /\ Len(out) \in Nat
  BY DEF CostInv, TypeOK
<1>1. CASE Spawn
  <2>1. /\ out = <<>> /\ out' = <<>> /\ running' /\ procs' = procs + 1
        /\ total' = 0 /\ seen' = 0 /\ spent' = spent
        /\ charged' = charged /\ forgone' = forgone /\ cumulativeCostUSD' = cumulativeCostUSD
    BY <1>1 DEF Spawn, harness, agg
  <2>2. TotalsGrow' /\ KeptIsSeen'
    BY <1>n, <2>1 DEF TotalsGrow, KeptIsSeen
  <2>3. ChargedSoFar'
    BY <1>n, <2>1 DEF CostInv, TotalsGrow, ChargedSoFar
  <2>4. procs = 0 => seen = 0 /\ charged + forgone = 0 /\ cumulativeCostUSD = 0
    BY DEF CostInv, FirstProcess
  <2>5. FirstProcess'
    BY <1>n, <2>1, <2>4 DEF FirstProcess
  <2> QED
    BY <1>0, <2>2, <2>3, <2>5 DEF CostInv
<1>2. CASE BeginTurn
  BY <1>0, <1>2 DEF BeginTurn, harness, agg, CostInv, TotalsGrow, KeptIsSeen, ChargedSoFar, FirstProcess, Priced
<1>3. CASE CallAPI
  <2>1. PICK price \in 0..MaxPrice : total' = total + price /\ spent' = spent + price
    BY <1>3 DEF CallAPI
  <2> DEFINE f == [kind |-> "call", call |-> Len(made) + 1]
  <2>2. /\ out' = Append(out, f) /\ price \in Nat
        /\ running' = running /\ procs' = procs /\ seen' = seen /\ procs > 0
        /\ charged' = charged /\ forgone' = forgone /\ cumulativeCostUSD' = cumulativeCostUSD
    BY <1>3, UsageAssumption DEF CallAPI, harness, agg, CostInv, FirstProcess
  <2>3. /\ \A i \in DOMAIN out : out'[i] = out[i]
        /\ out'[Len(out) + 1] = f /\ DOMAIN out' = 1..(Len(out) + 1)
    BY <1>n, <2>2
  <2>4. \A i \in DOMAIN out' : Priced(i)' => i \in DOMAIN out /\ Priced(i)
    BY <1>n, <2>3 DEF Priced
  <2>5. TotalsGrow'
    <3>1. seen' <= total' /\ total' <= spent' /\ total <= total'
      BY <1>n, <2>1, <2>2 DEF CostInv, TotalsGrow
    <3>2. ASSUME NEW i \in DOMAIN out', Priced(i)'
          PROVE  seen' <= out'[i].cost /\ out'[i].cost <= total'
      <4>1. i \in DOMAIN out /\ Priced(i) /\ out'[i] = out[i]
        BY <2>3, <2>4, <3>2
      <4>2. seen <= out[i].cost /\ out[i].cost <= total /\ out[i].cost \in Nat
        <5>1. seen <= out[i].cost /\ out[i].cost <= total
          BY <4>1 DEF CostInv, TotalsGrow
        <5>2. out[i].cost \in Nat
          BY <1>n, <4>1, PricedNat
        <5> QED
          BY <5>1, <5>2
      <4>3. total' \in Nat /\ seen' = seen
        BY <1>n, <2>1, <2>2
      <4> QED
        BY <1>n, <3>1, <4>1, <4>2, <4>3
    <3>3. ASSUME NEW i \in DOMAIN out', NEW j \in DOMAIN out', i < j, Priced(i)', Priced(j)'
          PROVE  out'[i].cost <= out'[j].cost
      BY <2>3, <2>4, <3>3 DEF CostInv, TotalsGrow
    <3> QED
      BY <3>1, <3>2, <3>3 DEF TotalsGrow
  <2> QED
    <3>1. KeptIsSeen'
      BY <2>2 DEF CostInv, KeptIsSeen
    <3>2. ChargedSoFar'
      BY <1>n, <2>1, <2>2 DEF CostInv, ChargedSoFar
    <3>3. FirstProcess'
      BY <1>n, <2>2 DEF CostInv, FirstProcess
    <3> QED
      BY <1>0, <2>5, <3>1, <3>2, <3>3 DEF CostInv
<1>4. CASE EndTurn
  <2>1. PICK isError \in BOOLEAN, cost \in {0, total} :
          out' = Append(out, [kind |-> "result", turn |-> turn, cost |-> cost,
                              isError |-> isError])
    BY <1>4 DEF EndTurn
  <2> DEFINE f == [kind |-> "result", turn |-> turn, cost |-> cost, isError |-> isError]
  <2>2. /\ running' = running /\ procs' = procs /\ seen' = seen /\ procs > 0
        /\ total' = total /\ spent' = spent
        /\ charged' = charged /\ forgone' = forgone /\ cumulativeCostUSD' = cumulativeCostUSD
    BY <1>4 DEF EndTurn, harness, agg, CostInv, FirstProcess
  <2>3. /\ \A i \in DOMAIN out : out'[i] = out[i]
        /\ out'[Len(out) + 1] = f /\ DOMAIN out' = 1..(Len(out) + 1)
    BY <1>n, <2>1
  <2>4. ASSUME NEW i \in DOMAIN out', Priced(i)'
        PROVE  \/ i \in DOMAIN out /\ Priced(i) /\ out'[i].cost = out[i].cost
               \/ i = Len(out) + 1 /\ out'[i].cost = total
    BY <1>n, <2>3, <2>4 DEF Priced
  <2>5. TotalsGrow'
    <3>1. seen <= total /\ total <= spent
      BY DEF CostInv, TotalsGrow
    <3>2. ASSUME NEW i \in DOMAIN out', Priced(i)'
          PROVE  seen <= out'[i].cost /\ out'[i].cost <= total
      <4>1. CASE i \in DOMAIN out /\ Priced(i) /\ out'[i].cost = out[i].cost
        BY <4>1 DEF CostInv, TotalsGrow
      <4>2. CASE i = Len(out) + 1 /\ out'[i].cost = total
        BY <1>n, <3>1, <4>2
      <4> QED
        BY <2>4, <3>2, <4>1, <4>2
    <3>3. ASSUME NEW i \in DOMAIN out', NEW j \in DOMAIN out', i < j, Priced(i)', Priced(j)'
          PROVE  out'[i].cost <= out'[j].cost
      <4>1. i # Len(out) + 1
        BY <1>n, <2>3, <3>3
      <4>2. i \in DOMAIN out /\ Priced(i) /\ out'[i].cost = out[i].cost
        BY <2>4, <3>3, <4>1
      <4>3. CASE j \in DOMAIN out /\ Priced(j) /\ out'[j].cost = out[j].cost
        BY <3>3, <4>2, <4>3 DEF CostInv, TotalsGrow
      <4>4. CASE j = Len(out) + 1 /\ out'[j].cost = total
        BY <4>2, <4>4 DEF CostInv, TotalsGrow
      <4> QED
        BY <2>4, <3>3, <4>3, <4>4
    <3> QED
      BY <2>2, <3>1, <3>2, <3>3 DEF TotalsGrow
  <2> QED
    <3>1. KeptIsSeen'
      BY <2>2 DEF CostInv, KeptIsSeen
    <3>2. ChargedSoFar'
      BY <2>2 DEF CostInv, ChargedSoFar
    <3>3. FirstProcess'
      BY <1>n, <2>2 DEF CostInv, FirstProcess
    <3> QED
      BY <1>0, <2>5, <3>1, <3>2, <3>3 DEF CostInv
<1>5. CASE Die
  <2>1. PICK n \in 0..Len(out) : out' = SubSeq(out, 1, n)
    BY <1>5 DEF Die
  <2>2. \A i \in DOMAIN out' : i \in DOMAIN out /\ out'[i] = out[i]
    BY <1>n, <2>1
  <2>3. out = <<>> => out' = <<>>
    BY <1>n, <2>1
  <2>4. /\ ~running' /\ procs' = procs /\ seen' = seen
        /\ total' = total /\ spent' = spent
        /\ charged' = charged /\ forgone' = forgone /\ cumulativeCostUSD' = cumulativeCostUSD
    BY <1>5 DEF Die, harness, agg
  <2>5. TotalsGrow'
    BY <2>2, <2>4 DEF CostInv, TotalsGrow, Priced
  <2> QED
    BY <1>0, <2>3, <2>4, <2>5 DEF CostInv, KeptIsSeen, ChargedSoFar, FirstProcess
<1>6. CASE ReadCall
  <2>1. /\ out # <<>> /\ out' = Tail(out) /\ UNCHANGED <<claude, cumulativeCostUSD, charged, forgone, seen>>
    BY <1>6 DEF ReadCall
  <2>2. \A i \in DOMAIN out' : i + 1 \in DOMAIN out /\ out'[i] = out[i + 1] /\ i \in Nat
    BY <1>n, <2>1, HeadTail
  <2>3. TotalsGrow'
    <3>1. \A i \in DOMAIN out' : Priced(i)' => Priced(i + 1)
      BY <2>2 DEF Priced
    <3>2. \A i, j \in DOMAIN out' : i < j => i + 1 < j + 1
      BY <2>2
    <3> QED
      BY <2>1, <2>2, <3>1, <3>2 DEF CostInv, TotalsGrow, claude
  <2>4. procs # 0
    BY <2>1 DEF CostInv, FirstProcess
  <2> QED
    BY <1>0, <2>1, <2>3, <2>4 DEF CostInv, KeptIsSeen, ChargedSoFar, FirstProcess, claude
<1>7. CASE ReadResult
  BY <1>0, <1>7, ReadResultCost
<1>8. CASE UNCHANGED vars
  BY <1>0, <1>8 DEF vars, claude, agg, CostInv, TotalsGrow, KeptIsSeen, ChargedSoFar, FirstProcess, Priced
<1> QED
  BY <1>1, <1>2, <1>3, <1>4, <1>5, <1>6, <1>7, <1>8 DEF Next

LEMMA CostAlways == Spec => []CostInv
<1>1. Init => CostInv
  BY InitCost
<1>2. CostInv /\ [Next]_vars => CostInv'
  BY NextCost
<1> QED
  BY <1>1, <1>2, PTL DEF Spec

-----------------------------------------------------------------------------
(* The costs.                                                              *)

\* Every variable keeps its type: in particular no figure kept or charged is
\* negative, whatever Claude Code reports.
THEOREM UsageTypes == Spec => []TypeOK
<1>1. CostInv => TypeOK
  BY DEF CostInv
<1> QED
  BY <1>1, CostAlways, PTL

\* The costs of a session's results never add up to more than was spent, over any
\* number of processes (usage.go, turnCost).
THEOREM NoOvercharge == Spec => []NeverOvercharged
<1>1. CostInv => NeverOvercharged
  BY DEF CostInv, TypeOK, TotalsGrow, ChargedSoFar, NeverOvercharged
<1> QED
  BY <1>1, CostAlways, PTL

\* As long as the first process runs, the results cost what it last reported.
THEOREM ExactAtFirst == Spec => []OneProcessExact
<1>1. CostInv => OneProcessExact
  BY DEF CostInv, FirstProcess, OneProcessExact
<1> QED
  BY <1>1, CostAlways, PTL
-----------------------------------------------------------------------------
(* A result lists its turn's calls.                                        *)

\* The turn of a frame on stdout.
TurnOf(i) == IF out[i].kind = "call" THEN made[out[i].call] ELSE out[i].turn

CallFrame(i)   == out[i].kind = "call"
ResultFrame(i) == out[i].kind = "result"

\* A turn whose result is still to be written, or to be read.
Pending(t) == t = turn \/ \E i \in DOMAIN out : ResultFrame(i) /\ out[i].turn = t

\* A call the aggregator has, or will get.
Held(n) ==
  \/ \E k \in DOMAIN calls : calls[k] = n
  \/ \E i \in DOMAIN out : CallFrame(i) /\ out[i].call = n

\* Turns are numbered as they begin, calls as they are made; a turn that died has
\* no result.
Numbering ==
  /\ turn <= turns
  /\ \A n \in DOMAIN made : 1 <= made[n] /\ made[n] <= turns
  /\ \A m, n \in DOMAIN made : m <= n => made[m] <= made[n]
  /\ turn # 0 => turn = turns /\ turn \notin cut
  /\ \A t \in cut : t <= turns

\* Frames are written turn by turn, each turn's result after its calls.
FramesInOrder ==
  /\ \A i \in DOMAIN out : CallFrame(i) => out[i].call \in DOMAIN made
  /\ \A i \in DOMAIN out : ResultFrame(i) =>
       1 <= out[i].turn /\ out[i].turn <= turns /\ out[i].turn # turn /\ out[i].turn \notin cut
  /\ \A i, j \in DOMAIN out : i < j =>
       /\ TurnOf(i) <= TurnOf(j)
       /\ ResultFrame(i) => TurnOf(i) < TurnOf(j)
       /\ CallFrame(i) /\ CallFrame(j) => out[i].call < out[j].call

\* The aggregator has earlier calls than those still to be read.
CallsInOrder ==
  /\ \A k \in DOMAIN calls : calls[k] \in DOMAIN made
  /\ \A k, l \in DOMAIN calls : k < l => calls[k] < calls[l]
  /\ \A k \in DOMAIN calls, i \in DOMAIN out :
       made[calls[k]] <= TurnOf(i) /\ (CallFrame(i) => calls[k] < out[i].call)

\* It has, or will get, each call of a turn whose result is to come, and besides
\* them only calls of turns that died.
Collected ==
  \A n \in DOMAIN made :
    /\ Pending(made[n]) => Held(n)
    /\ Held(n) => made[n] \in cut \/ Pending(made[n])

\* The result emitted last is a finished turn's.
LastIsOver ==
  last.turn # 0 =>
    /\ last.turn <= turns /\ last.turn # turn
    /\ \A k \in DOMAIN last.calls : last.calls[k] \in DOMAIN made

CallsInv ==
  TypeOK /\ Numbering /\ FramesInOrder /\ CallsInOrder /\ Collected /\ LastIsOver /\ CallsAreTheTurns

\* At first nothing has been called.
LEMMA InitCalls == Init => CallsInv
<1> SUFFICES ASSUME Init PROVE CallsInv
  OBVIOUS
<1>1. /\ out = <<>> /\ made = <<>> /\ calls = <<>> /\ turn = 0 /\ turns = 0 /\ cut = {}
      /\ last.turn = 0 /\ DOMAIN out = {} /\ DOMAIN made = {} /\ DOMAIN calls = {}
  BY DEF Init, NoResult
<1> QED
  BY <1>1, InitType DEF CallsInv, Numbering, FramesInOrder, CallsInOrder, Collected, LastIsOver,
     CallsAreTheTurns

\* A step that adds no call and forgets no turn leaves the last result true.
LEMMA LastKept ==
  ASSUME CallsInv, UNCHANGED last, cut \subseteq cut',
         UNCHANGED made \/ (made' = Append(made, turn) /\ turn # 0),
         turns' \in Nat, turns <= turns', turn' \in {turn, 0, turns + 1}
  PROVE  LastIsOver' /\ CallsAreTheTurns'
<1>0. /\ made \in Seq(Nat) /\ turn \in Nat /\ turns \in Nat /\ last.turn \in Nat
      /\ last.calls \in Seq(Nat) /\ Len(made) \in Nat /\ DOMAIN made = 1..Len(made)
  BY DEF CallsInv, TypeOK
<1>1. /\ DOMAIN made \subseteq DOMAIN made'
      /\ \A n \in DOMAIN made : made'[n] = made[n]
      /\ \A n \in DOMAIN made' : n \notin DOMAIN made => made'[n] = turn
  BY <1>0
<1> SUFFICES ASSUME last.turn # 0
             PROVE  LastIsOver' /\ CallsAreTheTurns'
  BY DEF LastIsOver, CallsAreTheTurns
<1>2. /\ last.turn <= turns /\ last.turn # turn
      /\ \A k \in DOMAIN last.calls : last.calls[k] \in DOMAIN made
  BY DEF CallsInv, LastIsOver
<1>3. LastIsOver'
  BY <1>0, <1>1, <1>2 DEF LastIsOver
<1>4. \A n \in DOMAIN made' : made'[n] = last.turn => n \in DOMAIN made /\ made[n] = last.turn
  BY <1>1, <1>2
<1>5. /\ \A i \in DOMAIN last.calls : made[last.calls[i]] \in {last.turn} \cup cut
      /\ \A n \in DOMAIN made :
           made[n] = last.turn => \E i \in DOMAIN last.calls : last.calls[i] = n
      /\ \A i, j \in DOMAIN last.calls : i < j => last.calls[i] < last.calls[j]
      /\ \A n \in DOMAIN made :
           made[n] = last.turn /\ (\A m \in DOMAIN made : made[m] = last.turn => m <= n)
             => last.contextOf = n
  BY DEF CallsInv, CallsAreTheTurns
<1>6. \A i \in DOMAIN last.calls : made'[last.calls[i]] \in {last.turn} \cup cut'
  BY <1>1, <1>2, <1>5
<1>7. \A n \in DOMAIN made' :
        made'[n] = last.turn /\ (\A m \in DOMAIN made' : made'[m] = last.turn => m <= n)
          => last.contextOf = n
  BY <1>1, <1>4, <1>5
<1>8. \A n \in DOMAIN made' :
        made'[n] = last.turn => \E i \in DOMAIN last.calls : last.calls[i] = n
  BY <1>4, <1>5
<1> QED
  BY <1>3, <1>5, <1>6, <1>7, <1>8 DEF CallsAreTheTurns

\* The types the steps below need.
LEMMA CallTypes ==
  ASSUME TypeOK
  PROVE  /\ turn \in Nat /\ turns \in Nat /\ cut \subseteq Nat
         /\ made \in Seq(Nat) /\ Len(made) \in Nat /\ DOMAIN made = 1..Len(made)
         /\ calls \in Seq(Nat) /\ Len(calls) \in Nat /\ DOMAIN calls = 1..Len(calls)
         /\ out \in Seq(Frame) /\ Len(out) \in Nat /\ DOMAIN out = 1..Len(out)
         /\ \A n \in DOMAIN made : made[n] \in Nat
         /\ \A i \in DOMAIN out :
              \/ CallFrame(i) /\ ~ResultFrame(i) /\ out[i].call \in Nat
              \/ ResultFrame(i) /\ ~CallFrame(i) /\ out[i].turn \in Nat
<1>1. \A i \in DOMAIN out : out[i] \in Frame
  BY DEF TypeOK
<1> QED
  BY <1>1 DEF TypeOK, Frame, CallFrame, ResultFrame

\* While a turn is under way nothing of a later one is on stdout.
LEMMA FramesBefore ==
  ASSUME TypeOK, Numbering, FramesInOrder, turn # 0
  PROVE  \A i \in DOMAIN out : TurnOf(i) <= turn /\ (ResultFrame(i) => TurnOf(i) < turn)
<1>1. turn = turns
  BY DEF Numbering
<1>2. ASSUME NEW i \in DOMAIN out, CallFrame(i)
      PROVE  TurnOf(i) <= turn /\ ~ResultFrame(i)
  <2>1. out[i].call \in DOMAIN made
    BY <1>2 DEF FramesInOrder
  <2> QED
    BY <1>1, <1>2, <2>1, CallTypes DEF Numbering, TurnOf, CallFrame
<1>3. ASSUME NEW i \in DOMAIN out, ResultFrame(i)
      PROVE  TurnOf(i) < turn
  <2>1. out[i].turn <= turns /\ out[i].turn # turn /\ out[i].turn \in Nat /\ ~CallFrame(i)
    BY <1>3, CallTypes DEF FramesInOrder
  <2> QED
    BY <1>1, <2>1, CallTypes DEF TurnOf, CallFrame
<1>4. \A i \in DOMAIN out : TurnOf(i) \in Nat
  <2>1. \A i \in DOMAIN out : CallFrame(i) => out[i].call \in DOMAIN made
    BY DEF FramesInOrder
  <2> QED
    BY <2>1, CallTypes DEF TurnOf, CallFrame
<1> QED
  BY <1>2, <1>3, <1>4, CallTypes

\* One lemma per action.
LEMMA BeginTurnCalls ==
  ASSUME CallsInv, BeginTurn, TypeOK'
  PROVE  CallsInv'
<1>0. /\ turn = 0 /\ turns' = turns + 1 /\ turn' = turns + 1
      /\ UNCHANGED <<made, out, cut, calls, last>>
  BY DEF BeginTurn, harness, agg
<1>1. TypeOK
  BY DEF CallsInv
<1>2. Numbering'
  BY <1>0, <1>1, CallTypes DEF CallsInv, Numbering
<1>3. FramesInOrder'
  BY <1>0, <1>1, CallTypes DEF CallsInv, FramesInOrder, TurnOf, CallFrame, ResultFrame
<1>4. CallsInOrder'
  BY <1>0 DEF CallsInv, CallsInOrder, TurnOf, CallFrame
<1>5. Collected'
  <2>1. \A n \in DOMAIN made : 1 <= made[n] /\ made[n] <= turns /\ made[n] \in Nat
    BY <1>1, CallTypes DEF CallsInv, Numbering
  <2>2. \A n \in DOMAIN made : Pending(made[n])' <=> Pending(made[n])
    BY <1>0, <1>1, <2>1, CallTypes DEF Pending, ResultFrame
  <2> QED
    BY <1>0, <2>2 DEF CallsInv, Collected, Held, CallFrame
<1>6. LastIsOver' /\ CallsAreTheTurns'
  BY <1>0, <1>1, CallTypes, LastKept
<1> QED
  BY <1>2, <1>3, <1>4, <1>5, <1>6 DEF CallsInv

\* A new call is the last one's, of the last turn.
LEMMA CallAPICalls ==
  ASSUME CallsInv, CallAPI, TypeOK'
  PROVE  CallsInv'
<1> DEFINE f == [kind |-> "call", call |-> Len(made) + 1]
<1>0. /\ turn # 0 /\ UNCHANGED <<turns, turn, cut, calls, last>>
      /\ made' = Append(made, turn) /\ out' = Append(out, f)
  BY DEF CallAPI, harness, agg
<1>1. TypeOK
  BY DEF CallsInv
<1>2. f.kind = "call" /\ f.call = Len(made) + 1
  OBVIOUS
<1> HIDE DEF f
<1>p. PICK top \in Nat : top = Len(out) + 1
  BY <1>1, CallTypes
<1>3. /\ DOMAIN made' = DOMAIN made \cup {Len(made) + 1}
      /\ \A n \in DOMAIN made : made'[n] = made[n] /\ n < Len(made) + 1 /\ n \in Nat
      /\ made'[Len(made) + 1] = turn
  BY <1>0, <1>1, CallTypes
<1>4. /\ DOMAIN out' = DOMAIN out \cup {top}
      /\ \A i \in DOMAIN out : out'[i] = out[i] /\ i < top /\ i \in Nat
      /\ out'[top] = f
  BY <1>0, <1>1, <1>p, CallTypes
<1>5. Numbering'
  <2>1. turn = turns /\ turn \notin cut /\ turn >= 1
    BY <1>0, <1>1, CallTypes DEF CallsInv, Numbering
  <2>2. \A n \in DOMAIN made : 1 <= made[n] /\ made[n] <= turns
    BY DEF CallsInv, Numbering
  <2>3. \A m, n \in DOMAIN made' : m <= n => made'[m] <= made'[n]
    BY <1>1, <1>3, <2>1, <2>2, CallTypes DEF CallsInv, Numbering
  <2> QED
    BY <1>0, <1>3, <2>1, <2>2, <2>3 DEF CallsInv, Numbering
<1>6. /\ \A i \in DOMAIN out : (CallFrame(i)' <=> CallFrame(i)) /\ (ResultFrame(i)' <=> ResultFrame(i))
      /\ \A i \in DOMAIN out : TurnOf(i)' = TurnOf(i)
      /\ CallFrame(top)' /\ ~ResultFrame(top)' /\ TurnOf(top)' = turn
  <2>1. \A i \in DOMAIN out : CallFrame(i) => out[i].call \in DOMAIN made
    BY DEF CallsInv, FramesInOrder
  <2> QED
    BY <1>2, <1>3, <1>4, <2>1 DEF CallFrame, ResultFrame, TurnOf
<1>7. \A i \in DOMAIN out : TurnOf(i) <= turn /\ (ResultFrame(i) => TurnOf(i) < turn)
  BY <1>0, FramesBefore DEF CallsInv
<1>8. FramesInOrder'
  <2>1. \A i \in DOMAIN out' : CallFrame(i)' => out'[i].call \in DOMAIN made'
    BY <1>2, <1>3, <1>4, <1>6 DEF CallsInv, FramesInOrder
  <2>2. \A i \in DOMAIN out' : ResultFrame(i)' =>
          1 <= out'[i].turn /\ out'[i].turn <= turns' /\ out'[i].turn # turn' /\ out'[i].turn \notin cut'
    BY <1>0, <1>4, <1>6 DEF CallsInv, FramesInOrder
  <2>3. ASSUME NEW i \in DOMAIN out', NEW j \in DOMAIN out', i < j
        PROVE  /\ TurnOf(i)' <= TurnOf(j)'
               /\ ResultFrame(i)' => TurnOf(i)' < TurnOf(j)'
               /\ CallFrame(i)' /\ CallFrame(j)' => out'[i].call < out'[j].call
    <3>1. i \in DOMAIN out
      BY <1>1, <1>4, <2>3, CallTypes
    <3>2. CASE j \in DOMAIN out
      BY <1>4, <1>6, <2>3, <3>1, <3>2 DEF CallsInv, FramesInOrder
    <3>3. CASE j = top
      <4>1. TurnOf(i)' <= TurnOf(j)' /\ (ResultFrame(i)' => TurnOf(i)' < TurnOf(j)')
        BY <1>6, <1>7, <3>1, <3>3
      <4>2. CallFrame(i) => out[i].call \in DOMAIN made
        BY <3>1 DEF CallsInv, FramesInOrder
      <4>3. CallFrame(i)' => out'[i].call < out'[j].call
        BY <1>2, <1>3, <1>4, <1>6, <3>1, <3>3, <4>2
      <4> QED
        BY <4>1, <4>3
    <3> QED
      BY <1>4, <3>2, <3>3
  <2> QED
    BY <2>1, <2>2, <2>3 DEF FramesInOrder
<1>9. CallsInOrder'
  <2>1. \A k \in DOMAIN calls : calls[k] \in DOMAIN made /\ made'[calls[k]] = made[calls[k]]
    BY <1>3 DEF CallsInv, CallsInOrder
  <2>2. \A k \in DOMAIN calls : made[calls[k]] <= turn /\ calls[k] < Len(made) + 1
    BY <1>0, <1>3, <2>1 DEF CallsInv, Numbering
  <2> QED
    BY <1>0, <1>2, <1>3, <1>4, <1>6, <2>1, <2>2 DEF CallsInv, CallsInOrder
<1>10. Collected'
  <2>1. \A t : Pending(t)' <=> Pending(t)
    BY <1>0, <1>4, <1>6 DEF Pending
  <2>2. \A n : Held(n)' <=> Held(n) \/ n = Len(made) + 1
    BY <1>0, <1>2, <1>4, <1>6 DEF Held
  <2>3. Pending(turn) /\ made'[Len(made) + 1] = turn
    BY <1>3 DEF Pending
  <2>4. \A n \in DOMAIN made : n # Len(made) + 1
    BY <1>3
  <2> QED
    BY <1>0, <1>3, <2>1, <2>2, <2>3, <2>4 DEF CallsInv, Collected
<1>11. LastIsOver' /\ CallsAreTheTurns'
  BY <1>0, <1>1, CallTypes, LastKept
<1> QED
  BY <1>5, <1>8, <1>9, <1>10, <1>11 DEF CallsInv

\* A result takes the place of the turn under way.
LEMMA EndTurnCalls ==
  ASSUME CallsInv, EndTurn, TypeOK'
  PROVE  CallsInv'
<1>0. /\ turn # 0 /\ turn' = 0 /\ UNCHANGED <<turns, made, cut, calls, last>>
  BY DEF EndTurn, harness, agg
<1>1. TypeOK
  BY DEF CallsInv
<1>2. PICK f : out' = Append(out, f) /\ f.kind = "result" /\ f.turn = turn
  BY DEF EndTurn
<1>p. PICK top \in Nat : top = Len(out) + 1
  BY <1>1, CallTypes
<1>4. /\ DOMAIN out' = DOMAIN out \cup {top}
      /\ \A i \in DOMAIN out : out'[i] = out[i] /\ i < top /\ i \in Nat
      /\ out'[top] = f
  BY <1>1, <1>2, <1>p, CallTypes
<1>5. Numbering'
  BY <1>0, <1>1, CallTypes DEF CallsInv, Numbering
<1>6. /\ \A i \in DOMAIN out : (CallFrame(i)' <=> CallFrame(i)) /\ (ResultFrame(i)' <=> ResultFrame(i))
      /\ \A i \in DOMAIN out : TurnOf(i)' = TurnOf(i)
      /\ ~CallFrame(top)' /\ ResultFrame(top)' /\ TurnOf(top)' = turn
  BY <1>0, <1>2, <1>4 DEF CallFrame, ResultFrame, TurnOf
<1>7. \A i \in DOMAIN out : TurnOf(i) <= turn /\ (ResultFrame(i) => TurnOf(i) < turn)
  BY <1>0, FramesBefore DEF CallsInv
<1>8. FramesInOrder'
  <2>1. \A i \in DOMAIN out' : CallFrame(i)' => out'[i].call \in DOMAIN made'
    BY <1>0, <1>4, <1>6 DEF CallsInv, FramesInOrder
  <2>2. /\ turn >= 1 /\ turn = turns /\ turn \notin cut
    BY <1>0, <1>1, CallTypes DEF CallsInv, Numbering
  <2>3. ASSUME NEW i \in DOMAIN out', ResultFrame(i)'
        PROVE  /\ 1 <= out'[i].turn /\ out'[i].turn <= turns'
               /\ out'[i].turn # turn' /\ out'[i].turn \notin cut'
    <3>1. CASE i = top
      BY <1>0, <1>1, <1>2, <1>4, <2>2, <3>1, CallTypes
    <3>2. CASE i \in DOMAIN out
      BY <1>0, <1>1, <1>4, <1>6, <2>3, <3>2, CallTypes DEF CallsInv, FramesInOrder
    <3> QED
      BY <1>4, <3>1, <3>2
  <2>4. ASSUME NEW i \in DOMAIN out', NEW j \in DOMAIN out', i < j
        PROVE  /\ TurnOf(i)' <= TurnOf(j)'
               /\ ResultFrame(i)' => TurnOf(i)' < TurnOf(j)'
               /\ CallFrame(i)' /\ CallFrame(j)' => out'[i].call < out'[j].call
    <3>1. i \in DOMAIN out
      BY <1>1, <1>4, <1>p, <2>4, CallTypes
    <3>2. CASE j \in DOMAIN out
      BY <1>4, <1>6, <2>4, <3>1, <3>2 DEF CallsInv, FramesInOrder
    <3>3. CASE j = top
      BY <1>6, <1>7, <3>1, <3>3
    <3> QED
      BY <1>4, <3>2, <3>3
  <2> QED
    BY <2>1, <2>3, <2>4 DEF FramesInOrder
<1>9. CallsInOrder'
  <2>1. turn = turns
    BY <1>0 DEF CallsInv, Numbering
  <2>2. \A k \in DOMAIN calls : made[calls[k]] <= turn
    BY <2>1 DEF CallsInv, Numbering, CallsInOrder
  <2> QED
    BY <1>0, <1>4, <1>6, <2>2 DEF CallsInv, CallsInOrder
<1>10. Collected'
  <2>1. \A t : t # 0 => (Pending(t)' <=> Pending(t))
    BY <1>0, <1>2, <1>4, <1>6 DEF Pending
  <2>2. \A n : Held(n)' <=> Held(n)
    BY <1>0, <1>4, <1>6 DEF Held
  <2>3. \A n \in DOMAIN made : made[n] # 0
    BY DEF CallsInv, Numbering
  <2> QED
    BY <1>0, <2>1, <2>2, <2>3 DEF CallsInv, Collected
<1>11. LastIsOver' /\ CallsAreTheTurns'
  BY <1>0, <1>1, CallTypes, LastKept
<1> QED
  BY <1>5, <1>8, <1>9, <1>10, <1>11 DEF CallsInv

\* The frames dropped are the last ones: a turn loses calls only together with its
\* result, or with what would have been its result.
LEMMA DieCalls ==
  ASSUME CallsInv, Die, TypeOK'
  PROVE  CallsInv'
<1>0. turn' = 0 /\ UNCHANGED <<turns, made, calls, last>>
  BY DEF Die, harness, agg
<1>1. TypeOK
  BY DEF CallsInv
<1>2. PICK n \in 0..Len(out) :
        /\ out' = SubSeq(out, 1, n)
        /\ cut' = cut \cup ({turn} \ {0})
                  \cup {out[i].turn : i \in {j \in (n + 1)..Len(out) : out[j].kind = "result"}}
  BY DEF Die
<1>3. /\ DOMAIN out' = 1..n /\ 1..n \subseteq DOMAIN out
      /\ \A i \in 1..n : out'[i] = out[i] /\ i \in Nat
      /\ \A i \in DOMAIN out : i \notin 1..n => \A k \in 1..n : k < i
  BY <1>1, <1>2, CallTypes
<1>4. \A t : t \in cut' <=> \/ t \in cut \/ (t = turn /\ t # 0)
                            \/ \E i \in DOMAIN out : i \notin 1..n /\ ResultFrame(i) /\ out[i].turn = t
  <2>1. \A i : i \in (n + 1)..Len(out) <=> i \in DOMAIN out /\ i \notin 1..n
    BY <1>1, <1>2, CallTypes
  <2> QED
    BY <1>2, <2>1 DEF ResultFrame
<1>5. \A i \in 1..n : /\ CallFrame(i)' <=> CallFrame(i)
                      /\ ResultFrame(i)' <=> ResultFrame(i)
                      /\ TurnOf(i)' = TurnOf(i)
  BY <1>0, <1>3 DEF CallFrame, ResultFrame, TurnOf
<1>6. \A i \in DOMAIN out : ResultFrame(i) => TurnOf(i) = out[i].turn /\ out[i].turn \in Nat
  BY <1>1, CallTypes DEF TurnOf, ResultFrame, CallFrame
<1>7. Numbering'
  <2>1. \A t \in cut' : t <= turns
    BY <1>1, <1>4, CallTypes DEF CallsInv, Numbering, FramesInOrder
  <2> QED
    BY <1>0, <1>1, <2>1, CallTypes DEF CallsInv, Numbering
<1>8. FramesInOrder'
  <2>1. ASSUME NEW i \in 1..n, ResultFrame(i)
        PROVE  /\ 1 <= out[i].turn /\ out[i].turn <= turns /\ out[i].turn # 0
               /\ out[i].turn \notin cut'
    <3>1. /\ 1 <= out[i].turn /\ out[i].turn <= turns /\ out[i].turn # turn /\ out[i].turn \notin cut
      BY <1>3, <2>1 DEF CallsInv, FramesInOrder
    <3>2. ASSUME NEW j \in DOMAIN out, j \notin 1..n, ResultFrame(j)
          PROVE  out[j].turn # out[i].turn
      <4>1. i < j
        BY <1>3, <3>2
      <4>2. TurnOf(i) < TurnOf(j)
        BY <1>3, <2>1, <4>1 DEF CallsInv, FramesInOrder
      <4> QED
        BY <1>3, <1>6, <2>1, <3>2, <4>2
    <3> QED
      BY <1>4, <3>1, <3>2
  <2>2. \A i \in 1..n : CallFrame(i) => out[i].call \in DOMAIN made
    BY <1>3 DEF CallsInv, FramesInOrder
  <2>3. \A i, j \in 1..n : i < j =>
          /\ TurnOf(i) <= TurnOf(j)
          /\ ResultFrame(i) => TurnOf(i) < TurnOf(j)
          /\ CallFrame(i) /\ CallFrame(j) => out[i].call < out[j].call
    BY <1>3 DEF CallsInv, FramesInOrder
  <2> QED
    BY <1>0, <1>3, <1>5, <2>1, <2>2, <2>3 DEF FramesInOrder
<1>9. CallsInOrder'
  BY <1>0, <1>3, <1>5 DEF CallsInv, CallsInOrder
<1>10. Collected'
  <2>1. \A m : Held(m)' => Held(m)
    BY <1>0, <1>3, <1>5 DEF Held
  <2>2. ASSUME NEW t, Pending(t) PROVE t \in cut' \/ Pending(t)' \/ t = 0
    BY <1>3, <1>4, <1>5, <2>2 DEF Pending
  <2>3. ASSUME NEW m \in DOMAIN made, Pending(made[m])'
        PROVE  Held(m)'
    <3>1. made[m] # 0
      BY DEF CallsInv, Numbering
    <3>2. PICK j \in 1..n : ResultFrame(j) /\ out[j].turn = made[m]
      BY <1>0, <1>3, <1>5, <2>3, <3>1 DEF Pending
    <3>3. Held(m)
      BY <1>3, <3>2 DEF CallsInv, Collected, Pending
    <3>4. CASE \E k \in DOMAIN calls : calls[k] = m
      BY <1>0, <3>4 DEF Held
    <3>5. CASE \E i \in DOMAIN out : CallFrame(i) /\ out[i].call = m
      <4>1. PICK i \in DOMAIN out : CallFrame(i) /\ out[i].call = m
        BY <3>5
      <4>2. TurnOf(i) = made[m] /\ TurnOf(j) = made[m] /\ made[m] \in Nat
        BY <1>1, <1>3, <1>6, <3>2, <4>1, CallTypes DEF TurnOf, CallFrame
      <4>3. ~(j < i)
        BY <1>3, <3>2, <4>2 DEF CallsInv, FramesInOrder
      <4>4. i \in 1..n
        BY <1>3, <4>3
      <4> QED
        BY <1>3, <1>5, <4>1, <4>4 DEF Held
    <3> QED
      BY <3>3, <3>4, <3>5 DEF Held
  <2>4. ASSUME NEW m \in DOMAIN made, Held(m)'
        PROVE  made[m] \in cut' \/ Pending(made[m])'
    <3>1. made[m] \in cut \/ Pending(made[m])
      BY <2>1, <2>4 DEF CallsInv, Collected
    <3>2. made[m] # 0 /\ cut \subseteq cut'
      BY <1>4 DEF CallsInv, Numbering
    <3>3. CASE Pending(made[m])
      <4>1. PICK t : t = made[m]
        OBVIOUS
      <4>2. t \in cut' \/ Pending(t)'
        BY <2>2, <3>2, <3>3, <4>1
      <4> QED
        BY <1>0, <4>1, <4>2
    <3> QED
      BY <3>1, <3>2, <3>3
  <2>5. made' = made
    BY <1>0
  <2> QED
    BY <2>3, <2>4, <2>5 DEF Collected
<1>11. LastIsOver' /\ CallsAreTheTurns'
  <2>1. cut \subseteq cut'
    BY <1>4
  <2> QED
    BY <1>0, <1>1, <2>1, CallTypes, LastKept
<1> QED
  BY <1>7, <1>8, <1>9, <1>10, <1>11 DEF CallsInv

\* Reading takes the first frame.
LEMMA FirstFrame ==
  ASSUME TypeOK, out # <<>>, out' = Tail(out), UNCHANGED made
  PROVE  /\ 1 \in DOMAIN out /\ Head(out) = out[1]
         /\ \A i \in DOMAIN out' : i \in Nat /\ 1 < i + 1 /\ i + 1 \in DOMAIN out /\ out'[i] = out[i + 1]
         /\ \A i \in DOMAIN out : i # 1 => i - 1 \in DOMAIN out' /\ out'[i - 1] = out[i]
         /\ \A i \in DOMAIN out' : /\ CallFrame(i)' <=> CallFrame(i + 1)
                                   /\ ResultFrame(i)' <=> ResultFrame(i + 1)
                                   /\ TurnOf(i)' = TurnOf(i + 1)
<1>1. /\ 1 \in DOMAIN out /\ Head(out) = out[1]
      /\ \A i \in DOMAIN out' : i + 1 \in DOMAIN out /\ out'[i] = out[i + 1] /\ i \in Nat /\ 1 < i + 1
      /\ DOMAIN out = 1..Len(out) /\ DOMAIN out' = 1..(Len(out) - 1) /\ Len(out) \in Nat
  BY HeadTail DEF TypeOK
<1>2. \A i \in DOMAIN out : i # 1 => i - 1 \in DOMAIN out' /\ (i - 1) + 1 = i
  BY <1>1
<1>3. \A i \in DOMAIN out' : /\ CallFrame(i)' <=> CallFrame(i + 1)
                             /\ ResultFrame(i)' <=> ResultFrame(i + 1)
                             /\ TurnOf(i)' = TurnOf(i + 1)
  BY <1>1 DEF CallFrame, ResultFrame, TurnOf
<1> QED
  BY <1>1, <1>2, <1>3

\* The frames left are in order.
LEMMA TailInOrder ==
  ASSUME CallsInv, out # <<>>, out' = Tail(out), UNCHANGED <<made, turn, turns, cut>>
  PROVE  FramesInOrder'
<1>1. TypeOK
  BY DEF CallsInv
<1>2. \A i \in DOMAIN out' : CallFrame(i)' => out'[i].call \in DOMAIN made'
  BY <1>1, FirstFrame DEF CallsInv, FramesInOrder
<1>3. \A i \in DOMAIN out' : ResultFrame(i)' =>
        1 <= out'[i].turn /\ out'[i].turn <= turns' /\ out'[i].turn # turn' /\ out'[i].turn \notin cut'
  BY <1>1, FirstFrame DEF CallsInv, FramesInOrder
<1>4. ASSUME NEW i \in DOMAIN out', NEW j \in DOMAIN out', i < j
      PROVE  /\ TurnOf(i)' <= TurnOf(j)'
             /\ ResultFrame(i)' => TurnOf(i)' < TurnOf(j)'
             /\ CallFrame(i)' /\ CallFrame(j)' => out'[i].call < out'[j].call
  <2>1. i \in Nat /\ j \in Nat /\ i + 1 < j + 1
    BY <1>1, <1>4, FirstFrame
  <2> QED
    BY <1>1, <2>1, FirstFrame DEF CallsInv, FramesInOrder
<1> QED
  BY <1>2, <1>3, <1>4 DEF FramesInOrder

\* It takes a turn off those to come only if it is that turn's result.
LEMMA PendingAfter ==
  ASSUME TypeOK, out # <<>>, out' = Tail(out), UNCHANGED <<made, turn>>
  PROVE  /\ \A t : Pending(t)' => Pending(t)
         /\ \A t : Pending(t) => Pending(t)' \/ (ResultFrame(1) /\ out[1].turn = t)
<1>1. \A t : \A i \in DOMAIN out' : ResultFrame(i)' /\ out'[i].turn = t
           => i + 1 \in DOMAIN out /\ ResultFrame(i + 1) /\ out[i + 1].turn = t
  BY FirstFrame
<1>2. \A t : \A i \in DOMAIN out : ResultFrame(i) /\ out[i].turn = t /\ i # 1
           => i - 1 \in DOMAIN out' /\ ResultFrame(i - 1)' /\ out'[i - 1].turn = t
  BY FirstFrame DEF ResultFrame
<1> QED
  BY <1>1, <1>2 DEF Pending

\* A call read goes from the frames to the aggregator.
LEMMA ReadCallCalls ==
  ASSUME CallsInv, ReadCall, TypeOK'
  PROVE  CallsInv'
<1>0. /\ out # <<>> /\ Head(out).kind = "call" /\ out' = Tail(out)
      /\ calls' = Append(calls, Head(out).call)
      /\ UNCHANGED <<made, turn, turns, cut, last>>
  BY DEF ReadCall, claude
<1>1. TypeOK
  BY DEF CallsInv
<1>p. PICK top \in Nat, first \in Nat : top = Len(calls) + 1 /\ first = Head(out).call
  <2>1. Len(calls) + 1 \in Nat
    BY <1>1, CallTypes
  <2>2. Head(out) = out[1] /\ 1 \in DOMAIN out
    BY <1>0, <1>1, FirstFrame
  <2>3. Head(out).call \in Nat
    BY <1>0, <1>1, <2>2, CallTypes DEF CallFrame, ResultFrame
  <2> QED
    BY <2>1, <2>3
<1>2. /\ DOMAIN calls' = DOMAIN calls \cup {top} /\ calls'[top] = first
      /\ \A k \in DOMAIN calls : calls'[k] = calls[k] /\ k < top /\ k \in Nat
  BY <1>0, <1>1, <1>p, CallTypes
<1>3. CallFrame(1) /\ out[1].call = first /\ 1 \in DOMAIN out /\ first \in DOMAIN made
  BY <1>0, <1>1, <1>p, FirstFrame DEF CallsInv, FramesInOrder, CallFrame
<1>4. TurnOf(1) = made[first]
  BY <1>3 DEF TurnOf, CallFrame
<1>5. Numbering'
  BY <1>0 DEF CallsInv, Numbering
<1>6. FramesInOrder'
  BY <1>0, TailInOrder
<1>7. CallsInOrder'
  <2>1. \A k \in DOMAIN calls : calls[k] \in DOMAIN made /\ calls[k] < first
    BY <1>3 DEF CallsInv, CallsInOrder
  <2>2. \A k, l \in DOMAIN calls' : k < l => calls'[k] < calls'[l]
    <3>1. \A k, l \in DOMAIN calls' : k < l => k \in DOMAIN calls
      BY <1>2
    <3> QED
      BY <1>2, <2>1, <3>1 DEF CallsInv, CallsInOrder
  <2>3. ASSUME NEW i \in DOMAIN out'
        PROVE  made[first] <= TurnOf(i)' /\ (CallFrame(i)' => first < out'[i].call)
    <3>1. TurnOf(1) <= TurnOf(i + 1) /\ (CallFrame(i + 1) => first < out[i + 1].call)
      BY <1>0, <1>1, <1>3, FirstFrame DEF CallsInv, FramesInOrder
    <3> QED
      BY <1>0, <1>1, <1>4, <3>1, FirstFrame
  <2>4. ASSUME NEW k \in DOMAIN calls, NEW i \in DOMAIN out'
        PROVE  made[calls[k]] <= TurnOf(i)' /\ (CallFrame(i)' => calls[k] < out'[i].call)
    BY <1>0, <1>1, FirstFrame DEF CallsInv, CallsInOrder
  <2> QED
    BY <1>0, <1>2, <1>3, <2>1, <2>2, <2>3, <2>4 DEF CallsInOrder
<1>8. Collected'
  <2>1. \A n : Held(n)' <=> Held(n)
    <3>1. \A n : (\E k \in DOMAIN calls' : calls'[k] = n)
                   <=> (\E k \in DOMAIN calls : calls[k] = n) \/ n = first
      BY <1>2
    <3>2. \A n : (\E i \in DOMAIN out : CallFrame(i) /\ out[i].call = n)
                   <=> n = first \/ \E i \in DOMAIN out' : CallFrame(i)' /\ out'[i].call = n
      <4>1. \A n : \A i \in DOMAIN out : CallFrame(i) /\ out[i].call = n /\ i # 1
                                       => CallFrame(i - 1)' /\ out'[i - 1].call = n
        BY <1>0, <1>1, FirstFrame DEF CallFrame
      <4>2. \A n : \A i \in DOMAIN out' : CallFrame(i)' /\ out'[i].call = n
                 => i + 1 \in DOMAIN out /\ CallFrame(i + 1) /\ out[i + 1].call = n
        BY <1>0, <1>1, FirstFrame
      <4>3. \A i \in DOMAIN out : i # 1 => i - 1 \in DOMAIN out'
        BY <1>0, <1>1, FirstFrame
      <4> QED
        BY <1>3, <4>1, <4>2, <4>3
    <3> QED
      BY <3>1, <3>2 DEF Held
  <2>2. \A t : Pending(t)' <=> Pending(t)
    BY <1>0, <1>1, <1>3, PendingAfter DEF ResultFrame, CallFrame
  <2> QED
    BY <1>0, <2>1, <2>2 DEF CallsInv, Collected
<1>9. LastIsOver' /\ CallsAreTheTurns'
  BY <1>0, <1>1, CallTypes, LastKept
<1> QED
  BY <1>5, <1>6, <1>7, <1>8, <1>9 DEF CallsInv

\* The calls the aggregator has when a result is at the head of stdout are those of
\* its turn, all of them, after those of turns that died.
LEMMA CallsOfResult ==
  ASSUME CallsInv, out # <<>>, Head(out).kind = "result"
  PROVE  LET t == Head(out).turn
         IN /\ 1 \in DOMAIN out /\ ResultFrame(1) /\ out[1].turn = t /\ t \in Nat /\ t # 0
            /\ \A k \in DOMAIN calls : made[calls[k]] \in {t} \cup cut /\ made[calls[k]] <= t
            /\ \A n \in DOMAIN made : made[n] = t => \E k \in DOMAIN calls : calls[k] = n
            /\ \A n \in DOMAIN made : ~(\E i \in DOMAIN out : i # 1 /\ CallFrame(i) /\ out[i].call = n
                                                             /\ made[n] <= t)
<1> DEFINE t == Head(out).turn
<1>1. TypeOK
  BY DEF CallsInv
<1>2. 1 \in DOMAIN out /\ Head(out) = out[1] /\ DOMAIN out = 1..Len(out)
  BY <1>1, HeadTail DEF TypeOK
<1>3. ResultFrame(1) /\ ~CallFrame(1) /\ out[1].turn = t /\ t \in Nat
  BY <1>1, <1>2, CallTypes DEF ResultFrame
<1>4. TurnOf(1) = t
  BY <1>3 DEF TurnOf, CallFrame
<1> HIDE DEF t
<1>5. t # 0 /\ t # turn /\ t <= turns
  BY <1>2, <1>3 DEF CallsInv, FramesInOrder
<1>6. \A i \in DOMAIN out : i # 1 => t < TurnOf(i)
  <2>1. \A i \in DOMAIN out : i # 1 => 1 < i
    BY <1>1, CallTypes
  <2> QED
    BY <1>2, <1>3, <1>4, <2>1 DEF CallsInv, FramesInOrder
<1>7. \A k \in DOMAIN calls : /\ calls[k] \in DOMAIN made /\ made[calls[k]] <= t
                              /\ made[calls[k]] \in Nat /\ made[calls[k]] # 0
  <2>1. \A k \in DOMAIN calls : calls[k] \in DOMAIN made /\ made[calls[k]] <= t
    BY <1>2, <1>4 DEF CallsInv, CallsInOrder
  <2>2. \A n \in DOMAIN made : made[n] \in Nat /\ 1 <= made[n]
    BY <1>1, CallTypes DEF CallsInv, Numbering
  <2> QED
    BY <2>1, <2>2
<1>8. ASSUME NEW k \in DOMAIN calls
      PROVE  made[calls[k]] \in {t} \cup cut
  <2>1. Held(calls[k])
    BY DEF Held
  <2>2. made[calls[k]] \in cut \/ Pending(made[calls[k]])
    BY <1>7, <2>1 DEF CallsInv, Collected
  <2>3. CASE made[calls[k]] = turn
    <3>1. turn = turns
      BY <1>7, <2>3 DEF CallsInv, Numbering
    <3> QED
      BY <1>1, <1>3, <1>5, <1>7, <2>3, <3>1, CallTypes
  <2>4. ASSUME NEW i \in DOMAIN out, ResultFrame(i), out[i].turn = made[calls[k]]
        PROVE  made[calls[k]] = t
    <3>1. TurnOf(i) = made[calls[k]]
      BY <1>1, <2>4, CallTypes DEF TurnOf, CallFrame, ResultFrame
    <3>2. i = 1
      BY <1>3, <1>6, <1>7, <3>1
    <3> QED
      BY <1>3, <2>4, <3>2
  <2> QED
    BY <2>2, <2>3, <2>4 DEF Pending
<1>9. ASSUME NEW n \in DOMAIN made, NEW i \in DOMAIN out, i # 1, CallFrame(i), out[i].call = n,
             made[n] <= t
      PROVE  FALSE
  <2>1. TurnOf(i) = made[n] /\ made[n] \in Nat
    BY <1>1, <1>9, CallTypes DEF TurnOf, CallFrame
  <2> QED
    BY <1>3, <1>6, <1>9, <2>1
<1>10. ASSUME NEW n \in DOMAIN made, made[n] = t
       PROVE  \E k \in DOMAIN calls : calls[k] = n
  <2>1. Held(n)
    BY <1>2, <1>3, <1>10 DEF CallsInv, Collected, Pending
  <2>2. ASSUME NEW i \in DOMAIN out, CallFrame(i), out[i].call = n
        PROVE  FALSE
    <3>1. i # 1
      BY <1>3, <2>2
    <3>2. made[n] <= t
      BY <1>3, <1>10
    <3> QED
      BY <1>9, <2>2, <3>1, <3>2
  <2> QED
    BY <2>1, <2>2 DEF Held
<1> QED
  BY <1>2, <1>3, <1>5, <1>7, <1>8, <1>9, <1>10 DEF t

\* A result read takes its turn's calls with it, and leaves those of later turns.
LEMMA ReadResultCalls ==
  ASSUME CallsInv, ReadResult, TypeOK'
  PROVE  CallsInv'
<1>p. PICK t : t = Head(out).turn
  OBVIOUS
<1>0. /\ out # <<>> /\ Head(out).kind = "result" /\ out' = Tail(out)
      /\ calls' = <<>> /\ UNCHANGED <<made, turn, turns, cut>>
      /\ UNCHANGED last \/ last' = Finalize(t)
  BY <1>p DEF ReadResult, claude
<1>1. TypeOK
  BY DEF CallsInv
<1>2. /\ 1 \in DOMAIN out /\ ResultFrame(1) /\ out[1].turn = t /\ t \in Nat /\ t # 0
      /\ \A k \in DOMAIN calls : made[calls[k]] \in {t} \cup cut /\ made[calls[k]] <= t
      /\ \A n \in DOMAIN made : made[n] = t => \E k \in DOMAIN calls : calls[k] = n
  BY <1>0, <1>p, CallsOfResult
<1>3. t # turn /\ t <= turns
  BY <1>2 DEF CallsInv, FramesInOrder
<1>4. Numbering'
  BY <1>0 DEF CallsInv, Numbering
<1>5. FramesInOrder'
  BY <1>0, TailInOrder
<1>6. DOMAIN calls' = {}
  BY <1>0
<1>7. CallsInOrder'
  BY <1>6 DEF CallsInOrder
<1>8. Collected'
  <2>1. \A n : Held(n)' => Held(n)
    <3>1. \A n : \A i \in DOMAIN out' : CallFrame(i)' /\ out'[i].call = n
            => i + 1 \in DOMAIN out /\ CallFrame(i + 1) /\ out[i + 1].call = n
      BY <1>0, <1>1, FirstFrame
    <3> QED
      BY <1>6, <3>1 DEF Held
  <2>2. ASSUME NEW n \in DOMAIN made, Pending(made[n])'
        PROVE  Held(n)'
    <3>1. made[n] # t
      <4>1. ASSUME NEW i \in DOMAIN out', ResultFrame(i)', out'[i].turn = t
            PROVE  FALSE
        <5>1. ResultFrame(i + 1) /\ i + 1 \in DOMAIN out /\ out[i + 1].turn = t /\ 1 < i + 1
          BY <1>0, <1>1, <4>1, FirstFrame
        <5>2. TurnOf(1) < TurnOf(i + 1)
          BY <1>2, <5>1 DEF CallsInv, FramesInOrder
        <5>3. TurnOf(1) = t /\ TurnOf(i + 1) = t
          BY <1>1, <1>2, <5>1, CallTypes DEF TurnOf, CallFrame, ResultFrame
        <5> QED
          BY <1>2, <5>2, <5>3
      <4> QED
        BY <1>0, <1>3, <2>2, <4>1 DEF Pending
    <3>2. Pending(made[n])
      <4>1. PICK u : u = made[n]
        OBVIOUS
      <4>2. Pending(u)'
        BY <1>0, <2>2, <4>1
      <4> QED
        BY <1>0, <1>1, <4>1, <4>2, PendingAfter
    <3>3. Held(n)
      BY <3>2 DEF CallsInv, Collected
    <3>4. ASSUME NEW k \in DOMAIN calls, calls[k] = n
          PROVE  FALSE
      <4>1. made[n] \in cut
        BY <1>2, <3>1, <3>4
      <4>2. CASE made[n] = turn
        <5>1. made[n] # 0
          BY DEF CallsInv, Numbering
        <5> QED
          BY <4>1, <4>2, <5>1 DEF CallsInv, Numbering
      <4>3. CASE \E i \in DOMAIN out : ResultFrame(i) /\ out[i].turn = made[n]
        BY <4>1, <4>3 DEF CallsInv, FramesInOrder
      <4> QED
        BY <3>2, <4>2, <4>3 DEF Pending
    <3>5. PICK i \in DOMAIN out : CallFrame(i) /\ out[i].call = n
      BY <3>3, <3>4 DEF Held
    <3>6. i - 1 \in DOMAIN out' /\ CallFrame(i - 1)' /\ out'[i - 1].call = n
      BY <1>0, <1>1, <1>2, <3>5, FirstFrame DEF CallFrame, ResultFrame
    <3> QED
      BY <3>6 DEF Held
  <2>3. ASSUME NEW n \in DOMAIN made, Held(n)'
        PROVE  made[n] \in cut \/ Pending(made[n])'
    <3>1. PICK i \in DOMAIN out' : CallFrame(i)' /\ out'[i].call = n
      BY <1>6, <2>3 DEF Held
    <3>2. i + 1 \in DOMAIN out /\ i + 1 # 1 /\ CallFrame(i + 1) /\ out[i + 1].call = n
      BY <1>0, <1>1, <3>1, FirstFrame
    <3>3. ~(made[n] <= t)
      BY <1>0, <1>p, <3>2, CallsOfResult
    <3>4. made[n] # t
      BY <1>2, <3>3
    <3>5. made[n] \in cut \/ Pending(made[n])
      BY <2>1, <2>3 DEF CallsInv, Collected
    <3>6. PICK u : u = made[n]
      OBVIOUS
    <3>7. Pending(u) => Pending(u)'
      BY <1>0, <1>1, <1>2, <3>4, <3>6, PendingAfter
    <3> QED
      BY <1>0, <3>5, <3>6, <3>7
  <2> QED
    BY <1>0, <2>2, <2>3 DEF Collected
<1>9. CASE UNCHANGED last
  <2>1. LastIsOver' /\ CallsAreTheTurns'
    BY <1>0, <1>1, <1>9, CallTypes, LastKept
  <2> QED
    BY <1>4, <1>5, <1>7, <1>8, <2>1 DEF CallsInv
<1>10. CASE last' = Finalize(t)
  <2>1. /\ last'.turn = t /\ last'.calls = calls
        /\ last'.contextOf = IF calls = <<>> THEN 0 ELSE calls[Len(calls)]
    BY <1>10 DEF Finalize
  <2>2. LastIsOver'
    BY <1>0, <1>3, <2>1 DEF CallsInv, CallsInOrder, LastIsOver
  <2>3. \A k, l \in DOMAIN calls : k < l => calls[k] < calls[l]
    BY DEF CallsInv, CallsInOrder
  <2>4. ASSUME NEW n \in DOMAIN made, made[n] = t, \A m \in DOMAIN made : made[m] = t => m <= n
        PROVE  last'.contextOf = n
    <3>1. PICK k \in DOMAIN calls : calls[k] = n
      BY <1>2, <2>4
    <3>2. Len(calls) \in DOMAIN calls /\ calls # <<>>
      BY <1>1, <3>1, CallTypes
    <3>3. k = Len(calls)
      <4> SUFFICES ASSUME k # Len(calls) PROVE FALSE
        OBVIOUS
      <4>1. k < Len(calls)
        BY <1>1, CallTypes
      <4>2. /\ n < calls[Len(calls)] /\ calls[Len(calls)] \in DOMAIN made
            /\ made[calls[Len(calls)]] <= t
        BY <1>2, <2>3, <3>1, <3>2, <4>1 DEF CallsInv, CallsInOrder
      <4>3. made[n] <= made[calls[Len(calls)]]
        BY <1>1, <4>2, CallTypes DEF CallsInv, Numbering
      <4>4. made[calls[Len(calls)]] = t
        <5>1. made[n] = t /\ made[calls[Len(calls)]] \in Nat /\ made[n] \in Nat
          BY <1>1, <2>4, <4>2, CallTypes
        <5> QED
          BY <4>2, <4>3, <5>1
      <4>5. calls[Len(calls)] <= n
        BY <2>4, <4>2, <4>4
      <4> QED
        BY <1>1, <4>2, <4>5, CallTypes
    <3> QED
      BY <2>1, <3>1, <3>2, <3>3
  <2>5. CallsAreTheTurns'
    BY <1>0, <1>2, <2>1, <2>3, <2>4 DEF CallsAreTheTurns
  <2> QED
    BY <1>4, <1>5, <1>7, <1>8, <2>2, <2>5 DEF CallsInv
<1> QED
  BY <1>0, <1>9, <1>10

\* A respawn and a stutter touch none of this.
LEMMA NextCalls == CallsInv /\ [Next]_vars => CallsInv'
<1> SUFFICES ASSUME CallsInv, [Next]_vars PROVE CallsInv'
  OBVIOUS
<1>0. TypeOK'
  BY NextType DEF CallsInv
<1>1. CASE Spawn \/ UNCHANGED vars
  <2>1. UNCHANGED <<turns, turn, made, out, cut, calls, last>>
    BY <1>1 DEF Spawn, harness, agg, vars, claude
  <2> QED
    BY <1>0, <2>1 DEF CallsInv, Numbering, FramesInOrder, CallsInOrder, Collected, LastIsOver,
       CallsAreTheTurns, TurnOf, CallFrame, ResultFrame, Pending, Held
<1> QED
  BY <1>0, <1>1, BeginTurnCalls, CallAPICalls, EndTurnCalls, DieCalls, ReadCallCalls,
     ReadResultCalls DEF Next

\* A result lists the calls of its own turn, all of them and once and in order,
\* after those of turns that died, and the context size of its final call, for any
\* number of processes, turns and calls (UsageAggregator.Finalize, Reset).
THEOREM ResultsListTheirCalls == Spec => []CallsAreTheTurns
<1>1. Init => CallsInv
  BY InitCalls
<1>2. CallsInv /\ [Next]_vars => CallsInv'
  BY NextCalls
<1>3. CallsInv => CallsAreTheTurns
  BY DEF CallsInv
<1> QED
  BY <1>1, <1>2, <1>3, PTL DEF Spec
=============================================================================
