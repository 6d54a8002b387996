----------------------------- MODULE TaskProofs -----------------------------
(***************************************************************************)
(* What the three kinds of long tasks promise, for every plan, number of   *)
(* parts, requests and products: gallery transfers (Transfer...), video    *)
(* uploads (Upload...) and batches of product maintenance (Batch...).      *)
(* Their state is apart; each has its inductive invariant, its steps, and  *)
(* its theorems, and the first two implement WriteAhead.                   *)
(***************************************************************************)
EXTENDS GalleryTransfer, VideoUpload, BatchMaintenance, WellFoundedInduction,
        TLAPS

-----------------------------------------------------------------------------
(* Gallery transfer: the inductive invariant *)

Away == {"idle", "starting"}

\* The record is "running" from Begin to End, and a completed one is done.
RecordFits ==
  /\ pc \notin Away => status = "running"
  /\ status = "completed" => \A i \in Items : item[i] \in Settled

\* One item at most is "running": the one at work, or the one a dead tab or a
\* failed transaction left behind.
OneRunning ==
  /\ \A i, k \in Items : item[i] = "running" /\ item[k] = "running" => i = k
  /\ \A i \in Items : item[i] = "running" =>
       \/ pc \in Away \cup {"ending"}
       \/ pc \in {"execute", "await", "save"} /\ i = cur

\* The item at work, step by step.
AtWork ==
  /\ pc \notin Away \cup {"item", "ending"} => cur \in Items
  /\ pc = "verify" => item[cur] \in Uncertain
  /\ pc \in {"prepare", "recheck", "mark"} =>
       item[cur] \in {"pending", "failed"}
  /\ pc \in {"execute", "await", "save"} => item[cur] = "running"
  /\ pc \in {"recheck", "mark", "execute"} => Ready(cur)

\* No item has two calls that can have an effect, and one that was not sent,
\* or whose call was refused, has none.
CallsCounted ==
  /\ \A i \in Items : Alive(i) \leq 1
  /\ \A i \in Items \ Writes : Alive(i) = 0
  /\ pc = "execute" => Alive(cur) = 0
  /\ pc = "await" => cur \in Writes /\ flight[cur] = 1 /\ applied[cur] = 0
  /\ pc = "save" /\ result = "failed" => Alive(cur) = 0

\* A command given to a task under way stays until the run ends, and the runner
\* does not come past the check before the write.
CommandStands ==
  /\ stop \in {"early", "late"} => pc # "starting"
  /\ stop \in {"early", "late"} /\ pc # "idle" => command # "none"
  /\ stop = "early" => pc \notin {"mark", "execute"}
  /\ stop = "late" /\ pc \in {"mark", "execute"} => afterStop = 0

TransferInvariant ==
  /\ TransferTypeOK
  /\ RecordFits
  /\ OneRunning
  /\ AtWork
  /\ CallsCounted
  /\ CommandStands
  /\ ReceiptsKept
  /\ OrderHolds
  /\ StopIsHeard

-----------------------------------------------------------------------------
(* Gallery transfer: what the helpers do *)

\* The items are the numbers 1 .. N, and the runner walks them in that order.
LEMMA ItemsAreNumbers ==
  /\ Items \subseteq Nat
  /\ Items \subseteq 1 .. N + 1
  /\ 1 \in Items
  /\ \A i \in 1 .. N + 1 : i \notin Items => i > N
  /\ \A i \in Items : i + 1 \in 1 .. N + 1 /\ 1 .. i - 1 \subseteq Items
  /\ \A i \in 0 .. N : i # 0 => i \in Items
BY TaskAssumption DEF Items

\* What a plan names are items of the transfer.
LEMMA PlansFit ==
  ASSUME TransferTypeOK
  PROVE  /\ plan.writes \subseteq Items
         /\ plan.closing \subseteq Items
         /\ \A i \in Items : plan.parent[i] # 0 => plan.parent[i] \in Items
<1>1. plan \in PlanShape
  BY TaskAssumption DEF TransferTypeOK
<1>2. /\ plan.writes \subseteq Items
      /\ plan.closing \subseteq Items
      /\ plan.parent \in [Items -> 0 .. N]
  BY <1>1 DEF PlanShape
<1>3. QED
  BY <1>2, ItemsAreNumbers

\* A verdict on an item stands.
VerdictsStand ==
  /\ plan' = plan
  /\ \A i \in Items :
       /\ item[i] = "confirmed" => item'[i] = "confirmed"
       /\ item[i] \in Settled => item'[i] \in Settled

\* So an item that could be executed can still be, and what was sent in order
\* remains in order.
LEMMA ReadyStands ==
  ASSUME TransferTypeOK, VerdictsStand, NEW i \in Items, Ready(i)
  PROVE  Ready(i)'
<1>1. plan.parent[i] # 0 => item'[plan.parent[i]] = "confirmed"
  BY PlansFit DEF Ready, VerdictsStand
<1>2. i \in plan.closing => \A k \in 1 .. i - 1 : item'[k] \in Settled
  BY ItemsAreNumbers DEF Ready, VerdictsStand
<1>3. QED
  BY <1>1, <1>2 DEF Ready, VerdictsStand, Settled

\* Sending an item that is ready keeps the order of what was sent.
LEMMA OrderStands ==
  ASSUME TransferTypeOK, OrderHolds, VerdictsStand,
         \A i \in Items : sends'[i] > 0 => sends[i] > 0 \/ Ready(i)
  PROVE  OrderHolds'
<1>1. \A i \in Items : sends'[i] > 0 => Ready(i)
  BY DEF OrderHolds, Ready
<1>2. \A i \in Items : sends'[i] > 0 => Ready(i)'
  BY <1>1, ReadyStands
<1>3. QED
  BY <1>2 DEF OrderHolds, Ready

\* Recovery touches only the item that was running.
LEMMA RecoveredFits ==
  ASSUME TransferTypeOK
  PROVE  /\ Recovered \in [Items -> ItemStatuses]
         /\ \A i \in Items :
              /\ Recovered[i] # "running"
              /\ item[i] # "running" => Recovered[i] = item[i]
              /\ item[i] = "running" =>
                   Recovered[i] = IF i \in Writes THEN "unknown" ELSE "pending"
BY DEF Recovered, TransferTypeOK, ItemStatuses

-----------------------------------------------------------------------------
(* Gallery transfer: the steps *)

\* A planned task that nobody has started.
LEMMA TransferStarts == TransferInit => TransferInvariant
<1> SUFFICES ASSUME TransferInit
             PROVE  TransferInvariant
  OBVIOUS
<1> USE DEF TransferInit
<1>1. TransferTypeOK
  BY ItemsAreNumbers DEF TransferTypeOK, TaskStatuses, ItemStatuses
<1>2. RecordFits /\ OneRunning /\ AtWork
  BY DEF RecordFits, OneRunning, AtWork, Away
<1>3. CallsCounted /\ CommandStands /\ ReceiptsKept /\ StopIsHeard
  <2>1. \A i \in Items : Alive(i) = 0
    BY DEF Alive
  <2>2. CallsCounted
    BY <2>1 DEF CallsCounted
  <2>3. ReceiptsKept
    BY <2>1, PlansFit, <1>1 DEF ReceiptsKept, Writes
  <2>4. QED
    BY <2>2, <2>3 DEF CommandStands, StopIsHeard
<1>4. OrderHolds
  BY DEF OrderHolds
<1>5. QED
  BY <1>1, <1>2, <1>3, <1>4 DEF TransferInvariant

\* Steps that change neither the items nor the calls.
LEMMA RunnerMoves ==
  ASSUME TransferInvariant, UNCHANGED plan,
         \/ \E only \in BOOLEAN : Start(only)
         \/ StartFails \/ TakeItem \/ Throws \/ Recheck \/ ExecuteHere
         \/ End \/ Die \/ (\E c \in {"pause", "cancel"} : Command(c)) \/ Drop
  PROVE  TransferInvariant'
<1> USE DEF TransferInvariant
<1>1. UNCHANGED <<plan, item, flight, applied, sends>>
  BY DEF Start, StartFails, TakeItem, Throws, Recheck, ExecuteHere, End, Die,
         Command, Drop, record, runner, remote, history
<1>2. /\ OrderHolds'
      /\ cur' = cur /\ Ready(cur) => Ready(cur)'
      /\ \A i \in Items : Alive(i)' = Alive(i)
      /\ cur' = cur => Alive(cur)' = Alive(cur)
      /\ Writes' = Writes /\ Writes \subseteq Items
  BY <1>1, PlansFit DEF OrderHolds, Ready, Alive, Writes
<1> USE DEF Away, record, runner, remote, history, Go
<1>3. ASSUME NEW only \in BOOLEAN, Start(only)
      PROVE  TransferInvariant'
  <2> USE <1>3 DEF Start
  <2>1. TransferTypeOK'
    BY <1>1, <1>2, ItemsAreNumbers DEF TransferTypeOK
  <2>2. RecordFits' /\ OneRunning'
    BY <1>1, <1>2, ItemsAreNumbers DEF RecordFits, OneRunning
  <2>3. AtWork'
    BY <1>1, <1>2, ItemsAreNumbers DEF AtWork, TransferTypeOK
  <2>4. CallsCounted'
    BY <1>1, <1>2, ItemsAreNumbers DEF CallsCounted
  <2>5. ReceiptsKept'
    BY <1>1, <1>2, ItemsAreNumbers DEF ReceiptsKept
  <2>6. CommandStands' /\ StopIsHeard'
    BY <1>1, <1>2, ItemsAreNumbers DEF CommandStands, StopIsHeard
  <2>7. QED
    BY <1>2, <2>1, <2>2, <2>3, <2>4, <2>5, <2>6
<1>4. ASSUME StartFails
      PROVE  TransferInvariant'
  <2> USE <1>4 DEF StartFails
  <2>1. TransferTypeOK'
    BY <1>1, <1>2, ItemsAreNumbers DEF TransferTypeOK
  <2>2. RecordFits' /\ OneRunning'
    BY <1>1, <1>2, ItemsAreNumbers DEF RecordFits, OneRunning
  <2>3. AtWork'
    BY <1>1, <1>2, ItemsAreNumbers DEF AtWork, TransferTypeOK
  <2>4. CallsCounted'
    BY <1>1, <1>2, ItemsAreNumbers DEF CallsCounted
  <2>5. ReceiptsKept'
    BY <1>1, <1>2, ItemsAreNumbers DEF ReceiptsKept
  <2>6. CommandStands' /\ StopIsHeard'
    BY <1>1, <1>2, ItemsAreNumbers DEF CommandStands, StopIsHeard
  <2>7. QED
    BY <1>2, <2>1, <2>2, <2>3, <2>4, <2>5, <2>6
<1>5. ASSUME TakeItem
      PROVE  TransferInvariant'
  <2> USE <1>5 DEF TakeItem, GoOn
  <2>1. TransferTypeOK'
    BY <1>1, <1>2, ItemsAreNumbers DEF TransferTypeOK
  <2>2. RecordFits' /\ OneRunning'
    BY <1>1, <1>2, ItemsAreNumbers DEF RecordFits, OneRunning
  <2>3. AtWork'
    BY <1>1, <1>2, ItemsAreNumbers
       DEF AtWork, TransferTypeOK, OneRunning, Settled, Uncertain, ItemStatuses
  <2>4. CallsCounted'
    BY <1>1, <1>2, ItemsAreNumbers DEF CallsCounted
  <2>5. ReceiptsKept'
    BY <1>1, <1>2, ItemsAreNumbers DEF ReceiptsKept
  <2>6. CommandStands' /\ StopIsHeard'
    BY <1>1, <1>2, ItemsAreNumbers DEF CommandStands, StopIsHeard
  <2>7. QED
    BY <1>2, <2>1, <2>2, <2>3, <2>4, <2>5, <2>6
<1>6. ASSUME Throws
      PROVE  TransferInvariant'
  <2> USE <1>6 DEF Throws
  <2>1. TransferTypeOK'
    BY <1>1, <1>2, ItemsAreNumbers DEF TransferTypeOK
  <2>2. RecordFits' /\ OneRunning'
    BY <1>1, <1>2, ItemsAreNumbers DEF RecordFits, OneRunning
  <2>3. AtWork'
    BY <1>1, <1>2, ItemsAreNumbers DEF AtWork, TransferTypeOK
  <2>4. CallsCounted'
    BY <1>1, <1>2, ItemsAreNumbers DEF CallsCounted
  <2>5. ReceiptsKept'
    BY <1>1, <1>2, ItemsAreNumbers DEF ReceiptsKept
  <2>6. CommandStands' /\ StopIsHeard'
    BY <1>1, <1>2, ItemsAreNumbers DEF CommandStands, StopIsHeard
  <2>7. QED
    BY <1>2, <2>1, <2>2, <2>3, <2>4, <2>5, <2>6
<1>7. ASSUME Recheck
      PROVE  TransferInvariant'
  <2> USE <1>7 DEF Recheck
  <2>1. TransferTypeOK'
    BY <1>1, <1>2, ItemsAreNumbers DEF TransferTypeOK
  <2>2. RecordFits' /\ OneRunning'
    BY <1>1, <1>2, ItemsAreNumbers DEF RecordFits, OneRunning
  <2>3. AtWork'
    BY <1>1, <1>2, ItemsAreNumbers DEF AtWork, TransferTypeOK
  <2>4. CallsCounted'
    BY <1>1, <1>2, ItemsAreNumbers DEF CallsCounted
  <2>5. ReceiptsKept'
    BY <1>1, <1>2, ItemsAreNumbers DEF ReceiptsKept
  <2>6. CommandStands' /\ StopIsHeard'
    BY <1>1, <1>2, ItemsAreNumbers DEF CommandStands, StopIsHeard
  <2>7. QED
    BY <1>2, <2>1, <2>2, <2>3, <2>4, <2>5, <2>6
<1>8. ASSUME ExecuteHere
      PROVE  TransferInvariant'
  <2> USE <1>8 DEF ExecuteHere
  <2>1. TransferTypeOK'
    BY <1>1, <1>2, ItemsAreNumbers DEF TransferTypeOK
  <2>2. RecordFits' /\ OneRunning'
    BY <1>1, <1>2, ItemsAreNumbers DEF RecordFits, OneRunning
  <2>3. AtWork'
    BY <1>1, <1>2, ItemsAreNumbers DEF AtWork, TransferTypeOK
  <2>4. CallsCounted'
    BY <1>1, <1>2, ItemsAreNumbers DEF CallsCounted
  <2>5. ReceiptsKept'
    BY <1>1, <1>2, ItemsAreNumbers DEF ReceiptsKept
  <2>6. CommandStands' /\ StopIsHeard'
    BY <1>1, <1>2, ItemsAreNumbers DEF CommandStands, StopIsHeard
  <2>7. QED
    BY <1>2, <2>1, <2>2, <2>3, <2>4, <2>5, <2>6
<1>9. ASSUME End
      PROVE  TransferInvariant'
  <2> USE <1>9 DEF End
  <2>1. TransferTypeOK'
    BY <1>1, <1>2, ItemsAreNumbers DEF TransferTypeOK, AfterRun, TaskStatuses
  <2>2. RecordFits' /\ OneRunning'
    BY <1>1, <1>2, ItemsAreNumbers DEF RecordFits, OneRunning, AfterRun
  <2>3. AtWork'
    BY <1>1, <1>2, ItemsAreNumbers DEF AtWork, TransferTypeOK
  <2>4. CallsCounted'
    BY <1>1, <1>2, ItemsAreNumbers DEF CallsCounted
  <2>5. ReceiptsKept'
    BY <1>1, <1>2, ItemsAreNumbers DEF ReceiptsKept, AfterRun
  <2>6. CommandStands' /\ StopIsHeard'
    BY <1>1, <1>2, ItemsAreNumbers DEF CommandStands, StopIsHeard
  <2>7. QED
    BY <1>2, <2>1, <2>2, <2>3, <2>4, <2>5, <2>6
<1>10. ASSUME Die
      PROVE  TransferInvariant'
  <2> USE <1>10 DEF Die
  <2>1. TransferTypeOK'
    BY <1>1, <1>2, ItemsAreNumbers DEF TransferTypeOK
  <2>2. RecordFits' /\ OneRunning'
    BY <1>1, <1>2, ItemsAreNumbers DEF RecordFits, OneRunning
  <2>3. AtWork'
    BY <1>1, <1>2, ItemsAreNumbers DEF AtWork, TransferTypeOK
  <2>4. CallsCounted'
    BY <1>1, <1>2, ItemsAreNumbers DEF CallsCounted
  <2>5. ReceiptsKept'
    BY <1>1, <1>2, ItemsAreNumbers DEF ReceiptsKept
  <2>6. CommandStands' /\ StopIsHeard'
    BY <1>1, <1>2, ItemsAreNumbers DEF CommandStands, StopIsHeard
  <2>7. QED
    BY <1>2, <2>1, <2>2, <2>3, <2>4, <2>5, <2>6
<1>11. ASSUME NEW c \in {"pause", "cancel"}, Command(c)
      PROVE  TransferInvariant'
  <2> USE <1>11 DEF Command
  <2>1. TransferTypeOK'
    BY <1>1, <1>2, ItemsAreNumbers DEF TransferTypeOK, TaskStatuses
  <2>2. RecordFits' /\ OneRunning'
    BY <1>1, <1>2, ItemsAreNumbers DEF RecordFits, OneRunning
  <2>3. AtWork'
    BY <1>1, <1>2, ItemsAreNumbers DEF AtWork, TransferTypeOK
  <2>4. CallsCounted'
    BY <1>1, <1>2, ItemsAreNumbers DEF CallsCounted
  <2>5. ReceiptsKept'
    BY <1>1, <1>2, ItemsAreNumbers DEF ReceiptsKept
  <2>6. CommandStands' /\ StopIsHeard'
    BY <1>1, <1>2, ItemsAreNumbers DEF CommandStands, StopIsHeard
  <2>7. QED
    BY <1>2, <2>1, <2>2, <2>3, <2>4, <2>5, <2>6
<1>12. ASSUME Drop
      PROVE  TransferInvariant'
  <2> USE <1>12 DEF Drop, Gone
  <2>1. TransferTypeOK'
    BY <1>1, <1>2, ItemsAreNumbers DEF TransferTypeOK, TaskStatuses
  <2>2. RecordFits' /\ OneRunning'
    BY <1>1, <1>2, ItemsAreNumbers DEF RecordFits, OneRunning, Terminal
  <2>3. AtWork'
    BY <1>1, <1>2, ItemsAreNumbers DEF AtWork, TransferTypeOK
  <2>4. CallsCounted'
    BY <1>1, <1>2, ItemsAreNumbers DEF CallsCounted
  <2>5. ReceiptsKept'
    BY <1>1, <1>2, ItemsAreNumbers 
       DEF ReceiptsKept, Terminal, RecordFits, Settled, Uncertain, ItemStatuses,
           TransferTypeOK
  <2>6. CommandStands' /\ StopIsHeard'
    BY <1>1, <1>2, ItemsAreNumbers DEF CommandStands, StopIsHeard
  <2>7. QED
    BY <1>2, <2>1, <2>2, <2>3, <2>4, <2>5, <2>6
<1>13. QED
  BY <1>3, <1>4, <1>5, <1>6, <1>7, <1>8, <1>9, <1>10, <1>11, <1>12

\* Steps that change an item.
LEMMA ItemMoves ==
  ASSUME TransferInvariant, UNCHANGED plan,
         \/ Begin \/ Recover \/ Verify \/ Prepare \/ Mark \/ Save
         \/ \E i \in Items : Skip(i)
  PROVE  TransferInvariant'
<1> USE DEF TransferInvariant
<1>1. /\ UNCHANGED <<plan, flight, applied, sends>>
      /\ \A i \in Items : Alive(i)' = Alive(i)
      /\ cur' = cur => Alive(cur)' = Alive(cur)
      /\ Writes' = Writes /\ Writes \subseteq Items
  BY PlansFit DEF Alive, Begin, Recover, Verify, Prepare, Mark, Save, Skip,
                  remote, history, Writes
<1> USE DEF Away, record, runner, remote, history, Go, Put
<1>2. ASSUME Begin
      PROVE  TransferInvariant'
  <2> USE <1>2 DEF Begin
  <2>1. item' = Recovered
    OBVIOUS
  <2>2. VerdictsStand
    BY <1>1, RecoveredFits DEF VerdictsStand, Settled, TransferTypeOK
  <2>3. TransferTypeOK'
    BY <1>1, <2>1, <2>2, ItemsAreNumbers, RecoveredFits
       DEF TransferTypeOK, ItemStatuses, TaskStatuses
  <2>4. RecordFits' /\ OneRunning'
    BY <1>1, <2>1, <2>2, RecoveredFits
       DEF RecordFits, OneRunning, TransferTypeOK
  <2>5. AtWork'
    BY <1>1, <2>1, <2>2, ItemsAreNumbers
       DEF AtWork, TransferTypeOK
  <2>6. CallsCounted'
    BY <1>1, <2>1, <2>2
       DEF CallsCounted, TransferTypeOK
  <2>7. ReceiptsKept'
    BY <1>1, <2>1, <2>2, RecoveredFits
       DEF ReceiptsKept, TransferTypeOK, Settled
  <2>8. OrderHolds'
    BY <1>1, <2>1, <2>2, OrderStands
       DEF TransferTypeOK
  <2>9. CommandStands' /\ StopIsHeard'
    BY <1>1, <2>1, <2>2
       DEF CommandStands, StopIsHeard
  <2>10. QED
    BY <2>3, <2>4, <2>5, <2>6, <2>7, <2>8, <2>9
<1>3. ASSUME Recover
      PROVE  TransferInvariant'
  <2> USE <1>3 DEF Recover
  <2>1. item' = Recovered
    OBVIOUS
  <2>2. VerdictsStand
    BY <1>1, RecoveredFits DEF VerdictsStand, Settled, TransferTypeOK
  <2>3. TransferTypeOK'
    BY <1>1, <2>1, <2>2, ItemsAreNumbers, RecoveredFits
       DEF TransferTypeOK, ItemStatuses, TaskStatuses
  <2>4. RecordFits' /\ OneRunning'
    BY <1>1, <2>1, <2>2, RecoveredFits
       DEF RecordFits, OneRunning, TransferTypeOK
  <2>5. AtWork'
    BY <1>1, <2>1, <2>2, ItemsAreNumbers
       DEF AtWork, TransferTypeOK
  <2>6. CallsCounted'
    BY <1>1, <2>1, <2>2
       DEF CallsCounted, TransferTypeOK
  <2>7. ReceiptsKept'
    BY <1>1, <2>1, <2>2, RecoveredFits
       DEF ReceiptsKept, TransferTypeOK, Settled
  <2>8. OrderHolds'
    BY <1>1, <2>1, <2>2, OrderStands
       DEF TransferTypeOK
  <2>9. CommandStands' /\ StopIsHeard'
    BY <1>1, <2>1, <2>2
       DEF CommandStands, StopIsHeard
  <2>10. QED
    BY <2>3, <2>4, <2>5, <2>6, <2>7, <2>8, <2>9
<1>4. ASSUME Verify
      PROVE  TransferInvariant'
  <2> USE <1>4 DEF Verify, GoOn
  <2>1. cur \in Items /\ item[cur] \in Uncertain
    BY DEF AtWork
  <2>2. VerdictsStand
    BY <1>1, <2>1 DEF VerdictsStand, Settled, Uncertain, TransferTypeOK
  <2>3. TransferTypeOK'
    BY <1>1, <2>1, <2>2, ItemsAreNumbers
       DEF TransferTypeOK, ItemStatuses
  <2>4. RecordFits' /\ OneRunning'
    BY <1>1, <2>1, <2>2
       DEF RecordFits, OneRunning, TransferTypeOK, Settled
  <2>5. AtWork'
    BY <1>1, <2>1, <2>2, ItemsAreNumbers
       DEF AtWork, TransferTypeOK
  <2>6. CallsCounted'
    BY <1>1, <2>1, <2>2
       DEF CallsCounted, TransferTypeOK
  <2>7. ReceiptsKept'
    BY <1>1, <2>1, <2>2
       DEF ReceiptsKept, TransferTypeOK, Settled
  <2>8. OrderHolds'
    BY <1>1, <2>1, <2>2, OrderStands
       DEF TransferTypeOK
  <2>9. CommandStands' /\ StopIsHeard'
    BY <1>1, <2>1, <2>2
       DEF CommandStands, StopIsHeard
  <2>10. QED
    BY <2>3, <2>4, <2>5, <2>6, <2>7, <2>8, <2>9
<1>5. ASSUME Prepare
      PROVE  TransferInvariant'
  <2> USE <1>5 DEF Prepare
  <2>1. cur \in Items /\ item[cur] \in {"pending", "failed"}
    BY DEF AtWork
  <2>2. VerdictsStand
    BY <1>1, <2>1 DEF VerdictsStand, Settled, TransferTypeOK
  <2>3. TransferTypeOK'
    BY <1>1, <2>1, <2>2, ItemsAreNumbers
       DEF TransferTypeOK, ItemStatuses
  <2>4. RecordFits' /\ OneRunning'
    BY <1>1, <2>1, <2>2
       DEF RecordFits, OneRunning, TransferTypeOK, Settled
  <2>5. AtWork'
    BY <1>1, <2>1, <2>2, ItemsAreNumbers, ReadyStands
       DEF AtWork, TransferTypeOK
  <2>6. CallsCounted'
    BY <1>1, <2>1, <2>2
       DEF CallsCounted, TransferTypeOK
  <2>7. ReceiptsKept'
    BY <1>1, <2>1, <2>2
       DEF ReceiptsKept, TransferTypeOK, Settled
  <2>8. OrderHolds'
    BY <1>1, <2>1, <2>2, OrderStands
       DEF TransferTypeOK
  <2>9. CommandStands' /\ StopIsHeard'
    BY <1>1, <2>1, <2>2
       DEF CommandStands, StopIsHeard
  <2>10. QED
    BY <2>3, <2>4, <2>5, <2>6, <2>7, <2>8, <2>9
<1>6. ASSUME Mark
      PROVE  TransferInvariant'
  <2> USE <1>6 DEF Mark
  <2>1. cur \in Items /\ item[cur] \in {"pending", "failed"} /\ Ready(cur)
    BY DEF AtWork
  <2>2. VerdictsStand
    BY <1>1, <2>1 DEF VerdictsStand, Settled, TransferTypeOK
  <2>3. Alive(cur) = 0
    BY <1>1, <2>1 DEF ReceiptsKept, CallsCounted, Alive, TransferTypeOK
  <2>4. TransferTypeOK'
    BY <1>1, <2>1, <2>2, <2>3, ItemsAreNumbers
       DEF TransferTypeOK, ItemStatuses
  <2>5. RecordFits' /\ OneRunning'
    BY <1>1, <2>1, <2>2, <2>3
       DEF RecordFits, OneRunning, TransferTypeOK, Settled
  <2>6. AtWork'
    BY <1>1, <2>1, <2>2, <2>3, ItemsAreNumbers, ReadyStands
       DEF AtWork, TransferTypeOK
  <2>7. CallsCounted'
    BY <1>1, <2>1, <2>2, <2>3
       DEF CallsCounted, TransferTypeOK
  <2>8. ReceiptsKept'
    BY <1>1, <2>1, <2>2, <2>3
       DEF ReceiptsKept, TransferTypeOK, Settled
  <2>9. OrderHolds'
    BY <1>1, <2>1, <2>2, <2>3, OrderStands
       DEF TransferTypeOK
  <2>10. CommandStands' /\ StopIsHeard'
    BY <1>1, <2>1, <2>2, <2>3
       DEF CommandStands, StopIsHeard
  <2>11. QED
    BY <2>4, <2>5, <2>6, <2>7, <2>8, <2>9, <2>10
<1>7. ASSUME Save
      PROVE  TransferInvariant'
  <2> USE <1>7 DEF Save, GoOn
  <2>1. cur \in Items /\ item[cur] = "running" /\ status = "running"
    BY DEF AtWork, RecordFits
  <2>2. VerdictsStand
    BY <1>1, <2>1 DEF VerdictsStand, Settled, TransferTypeOK
  <2>3. TransferTypeOK'
    BY <1>1, <2>1, <2>2, ItemsAreNumbers
       DEF TransferTypeOK, ItemStatuses
  <2>4. RecordFits' /\ OneRunning'
    BY <1>1, <2>1, <2>2
       DEF RecordFits, OneRunning, TransferTypeOK, Settled
  <2>5. AtWork'
    BY <1>1, <2>1, <2>2, ItemsAreNumbers
       DEF AtWork, TransferTypeOK, Uncertain
  <2>6. CallsCounted'
    BY <1>1, <2>1, <2>2
       DEF CallsCounted, TransferTypeOK
  <2>7. ReceiptsKept'
    BY <1>1, <2>1, <2>2
       DEF ReceiptsKept, TransferTypeOK, Settled, CallsCounted
  <2>8. OrderHolds'
    BY <1>1, <2>1, <2>2, OrderStands
       DEF TransferTypeOK
  <2>9. CommandStands' /\ StopIsHeard'
    BY <1>1, <2>1, <2>2
       DEF CommandStands, StopIsHeard
  <2>10. QED
    BY <2>3, <2>4, <2>5, <2>6, <2>7, <2>8, <2>9
<1>8. ASSUME NEW k \in Items, Skip(k)
      PROVE  TransferInvariant'
  <2> USE <1>8 DEF Skip
  <2>1. pc \in Away /\ status # "running"
    BY DEF RecordFits
  <2>2. VerdictsStand
    BY <1>1, <2>1 DEF VerdictsStand, Settled, TransferTypeOK
  <2>3. TransferTypeOK'
    BY <1>1, <2>1, <2>2, ItemsAreNumbers
       DEF TransferTypeOK, ItemStatuses
  <2>4. RecordFits' /\ OneRunning'
    BY <1>1, <2>1, <2>2
       DEF RecordFits, OneRunning, TransferTypeOK, Settled
  <2>5. AtWork'
    BY <1>1, <2>1, <2>2, ItemsAreNumbers
       DEF AtWork, TransferTypeOK
  <2>6. CallsCounted'
    BY <1>1, <2>1, <2>2
       DEF CallsCounted, TransferTypeOK
  <2>7. ReceiptsKept'
    BY <1>1, <2>1, <2>2
       DEF ReceiptsKept, TransferTypeOK, Settled
  <2>8. OrderHolds'
    BY <1>1, <2>1, <2>2, OrderStands
       DEF TransferTypeOK
  <2>9. CommandStands' /\ StopIsHeard'
    BY <1>1, <2>1, <2>2
       DEF CommandStands, StopIsHeard
  <2>10. QED
    BY <2>3, <2>4, <2>5, <2>6, <2>7, <2>8, <2>9
<1>9. QED
  BY <1>2, <1>3, <1>4, <1>5, <1>6, <1>7, <1>8

\* Steps that change the calls.
LEMMA CallMoves ==
  ASSUME TransferInvariant, UNCHANGED plan,
         Send \/ Answer \/ (\E i \in Items : Late(i))
  PROVE  TransferInvariant'
<1> USE DEF TransferInvariant
<1>1. /\ UNCHANGED <<plan, item, status, command>>
      /\ VerdictsStand
      /\ cur' = cur /\ Ready(cur) => Ready(cur)'
      /\ Writes' = Writes /\ Writes \subseteq Items
  BY PlansFit DEF Send, Answer, Late, record, Ready, Writes, VerdictsStand
<1>2. \A i \in Items : /\ flight[i] \in Nat /\ applied[i] \in Nat
                       /\ Alive(i) \leq 1
  BY DEF TransferTypeOK, CallsCounted
<1> USE DEF Away, record, runner, remote, history, Go
<1>3. ASSUME Send
      PROVE  TransferInvariant'
  <2> USE <1>3 DEF Send
  <2>1. /\ cur \in Items /\ cur \in Writes /\ Ready(cur)
        /\ item[cur] = "running" /\ status = "running"
        /\ flight[cur] = 0 /\ applied[cur] = 0
    BY <1>2 DEF AtWork, CallsCounted, RecordFits, Alive, TransferTypeOK
  <2>2. /\ flight' = [flight EXCEPT ![cur] = 1]
        /\ \A i \in Items : i # cur => Alive(i)' = Alive(i)
        /\ Alive(cur)' = 1
    BY <1>1, <1>2, <2>1 DEF Alive, TransferTypeOK
  <2>3. TransferTypeOK'
    BY <1>1, <2>1, <2>2 DEF TransferTypeOK
  <2>4. RecordFits' /\ OneRunning' /\ AtWork'
    BY <1>1, <2>1 DEF RecordFits, OneRunning, AtWork
  <2>5. CallsCounted'
    BY <1>1, <1>2, <2>1, <2>2 DEF CallsCounted, TransferTypeOK
  <2>6. ReceiptsKept'
    BY <1>1, <2>1, <2>2 DEF ReceiptsKept
  <2>7. OrderHolds'
    BY <1>1, <2>1, OrderStands DEF TransferTypeOK
  <2>8. CommandStands' /\ StopIsHeard'
    BY <1>1, <2>1 DEF CommandStands, StopIsHeard, TransferTypeOK
  <2>9. QED
    BY <2>3, <2>4, <2>5, <2>6, <2>7, <2>8
<1>4. ASSUME Answer
      PROVE  TransferInvariant'
  <2> USE <1>4 DEF Answer
  <2>1. /\ cur \in Items /\ cur \in Writes
        /\ item[cur] = "running" /\ status = "running"
        /\ flight[cur] = 1 /\ applied[cur] = 0 /\ Alive(cur) = 1
    BY DEF AtWork, CallsCounted, RecordFits, Alive
  <2>2. /\ \A i \in Items : i # cur => Alive(i)' = Alive(i)
        /\ Alive(cur)' \leq 1
        /\ result' = "failed" => Alive(cur)' = 0
        /\ result' \in {"failed", "unknown", "unconfirmed"}
    BY <1>1, <1>2, <2>1 DEF Alive, TransferTypeOK
  <2>3. TransferTypeOK'
    BY <1>1, <1>2, <2>1, <2>2 DEF TransferTypeOK
  <2>4. RecordFits' /\ OneRunning' /\ AtWork'
    BY <1>1, <2>1 DEF RecordFits, OneRunning, AtWork
  <2>5. CallsCounted'
    BY <1>1, <1>2, <2>1, <2>2 DEF CallsCounted
  <2>6. ReceiptsKept'
    BY <1>1, <2>1, <2>2 DEF ReceiptsKept
  <2>7. OrderHolds'
    BY <1>1, <2>1, OrderStands DEF TransferTypeOK
  <2>8. CommandStands' /\ StopIsHeard'
    BY <1>1, <2>1 DEF CommandStands, StopIsHeard
  <2>9. QED
    BY <2>3, <2>4, <2>5, <2>6, <2>7, <2>8
<1>5. ASSUME NEW k \in Items, Late(k)
      PROVE  TransferInvariant'
  <2> USE <1>5 DEF Late
  <2>1. /\ \A i \in Items : i # k => Alive(i)' = Alive(i)
        /\ Alive(k)' \in Nat /\ Alive(k)' \leq Alive(k) /\ Alive(k) > 0
        /\ \A i \in Items : i # k =>
             flight'[i] = flight[i] /\ applied'[i] = applied[i]
    BY <1>1, <1>2 DEF Alive, TransferTypeOK
  <2>2. TransferTypeOK'
    BY <1>1, <1>2 DEF TransferTypeOK
  <2>3. RecordFits' /\ OneRunning' /\ AtWork'
    BY <1>1 DEF RecordFits, OneRunning, AtWork
  <2>4. CallsCounted'
    <3>1. \A i \in Items : Alive(i)' \in Nat /\ Alive(i)' \leq Alive(i)
      BY <1>2, <2>1 DEF Alive
    <3>2. pc = "execute" \/ (pc = "save" /\ result = "failed") =>
            cur \in Items /\ Alive(cur)' = 0
      <4>1. cur' = cur
        OBVIOUS
      <4>2. pc \in {"execute", "save"} => cur \in Items
        BY DEF AtWork
      <4>3. cur \in Items => Alive(cur)' \in Nat /\ Alive(cur)' \leq Alive(cur)
        BY <3>1, <4>1 DEF Alive
      <4>4. QED
        BY <4>2, <4>3 DEF CallsCounted
    <3>3. pc = "await" => /\ cur # k /\ cur \in Items
                          /\ flight'[cur] = flight[cur]
                          /\ applied'[cur] = applied[cur]
      BY <2>1 DEF AtWork
    <3>4. /\ \A i \in Items : Alive(i)' \leq 1
          /\ \A i \in Items \ Writes' : Alive(i)' = 0
      <4>1. \A i \in Items : Alive(i) \in Nat
        BY <1>2 DEF Alive
      <4>2. QED
        BY <1>1, <1>2, <3>1, <4>1 DEF CallsCounted
    <3>5. pc' = "await" =>
            cur' \in Writes' /\ flight'[cur'] = 1 /\ applied'[cur'] = 0
      BY <1>1, <3>3 DEF CallsCounted
    <3>6. UNCHANGED <<pc, cur, result>>
      OBVIOUS
    <3>7. QED
      BY <3>2, <3>4, <3>5, <3>6 DEF CallsCounted
  <2>5. ReceiptsKept'
    BY <1>1, <1>2, <2>1 DEF ReceiptsKept
  <2>6. OrderHolds'
    BY <1>1, OrderStands DEF TransferTypeOK
  <2>7. CommandStands' /\ StopIsHeard'
    BY <1>1 DEF CommandStands, StopIsHeard
  <2>8. QED
    BY <2>2, <2>3, <2>4, <2>5, <2>6, <2>7
<1>6. QED
  BY <1>3, <1>4, <1>5

\* Every step of the runner, the user, the tab and the remote side.
LEMMA TransferStep ==
  ASSUME TransferInvariant, [TransferNext]_transferVars
  PROVE  TransferInvariant'
<1>1. CASE TransferNext
  BY <1>1, RunnerMoves, ItemMoves, CallMoves DEF TransferNext, Run
<1>2. CASE UNCHANGED transferVars
  <2>1. UNCHANGED <<plan, status, command, item, pc, cur, verifyOnly,
                    wasCancelled, result, flight, applied, sends, stop,
                    afterStop>>
    BY <1>2 DEF transferVars, record, runner, remote, history
  <2>2. TransferTypeOK' /\ RecordFits' /\ OneRunning' /\ AtWork'
    BY <2>1 DEF TransferInvariant, TransferTypeOK, RecordFits, OneRunning,
       AtWork, Ready
  <2>3. CallsCounted' /\ ReceiptsKept'
    BY <2>1 DEF TransferInvariant, CallsCounted, ReceiptsKept, Alive, Writes
  <2>4. CommandStands' /\ OrderHolds' /\ StopIsHeard'
    BY <2>1 DEF TransferInvariant, CommandStands, OrderHolds, StopIsHeard
  <2>5. QED
    BY <2>2, <2>3, <2>4 DEF TransferInvariant
<1>3. QED
  BY <1>1, <1>2

\* So the invariant holds at every moment.
LEMMA TransferHolds == TransferSpec => []TransferInvariant
BY TransferStarts, TransferStep, PTL DEF TransferSpec

-----------------------------------------------------------------------------
(* Gallery transfer: the promise of WriteAhead *)

Receipts == [i \in Items |-> Receipt(i)]
Landing == {i \in Items : flight[i] > 0}
Landed == {i \in Items : applied[i] > 0}

\* A step of the transfer that leaves the calls alone and moves at most the
\* receipt of item k, as WriteAhead allows, is a step of WriteAhead or none.
LEMMA ReceiptMoves ==
  ASSUME TransferTypeOK, NEW k \in Items, UNCHANGED <<flight, applied>>,
         item' \in [Items -> ItemStatuses],
         \A i \in Items : i # k => Receipt(i)' = Receipt(i),
         \/ Receipt(k)' = Receipt(k)
         \/ Receipt(k) = "clear" /\ Receipt(k)' = "intent"
         \/ Receipt(k) = "intent" /\ Receipt(k)' = "clear" /\ Alive(k) = 0
         \/ Receipt(k)' = "settled"
  PROVE  [Promise!Next]_(Promise!vars)
<1>1. UNCHANGED <<Landing, Landed>>
  BY DEF Landing, Landed
<1>2. Receipts' = [Receipts EXCEPT ![k] = Receipt(k)']
  BY DEF Receipts
<1>3. Receipts[k] = Receipt(k)
  BY DEF Receipts
<1>4. CASE Receipt(k)' = Receipt(k)
  <2>1. Receipts' = Receipts
    BY <1>4 DEF Receipts
  <2>2. UNCHANGED Promise!vars
    BY <1>1, <2>1 DEF Promise!vars, Receipts, Landing, Landed
  <2>3. QED
    BY <2>2
<1>5. CASE Receipt(k) = "clear" /\ Receipt(k)' = "intent"
  <2>1. Promise!Intend(k)
    BY <1>1, <1>2, <1>3, <1>5 DEF Promise!Intend, Receipts, Landing, Landed
  <2>2. QED
    BY <2>1 DEF Promise!Next
<1>6. CASE Receipt(k) = "intent" /\ Receipt(k)' = "clear" /\ Alive(k) = 0
  <2>1. k \notin Landing \cup Landed
    BY <1>6 DEF Landing, Landed, Alive, TransferTypeOK
  <2>2. Promise!TearUp(k)
    BY <1>1, <1>2, <1>3, <1>6, <2>1
       DEF Promise!TearUp, Receipts, Landing, Landed
  <2>3. QED
    BY <2>2 DEF Promise!Next
<1>7. CASE Receipt(k)' = "settled"
  <2>1. Promise!Settle(k)
    BY <1>1, <1>2, <1>7 DEF Promise!Settle, Receipts, Landing, Landed
  <2>2. QED
    BY <2>1 DEF Promise!Next
<1>8. QED
  BY <1>4, <1>5, <1>6, <1>7

\* A step that leaves the items alone and moves at most the calls of item k.
LEMMA PromiseCallMoves ==
  ASSUME TransferTypeOK, NEW k \in Items, UNCHANGED item,
         flight' \in [Items -> Nat], applied' \in [Items -> Nat],
         \A i \in Items : i # k =>
           flight'[i] = flight[i] /\ applied'[i] = applied[i],
         \/ /\ Receipt(k) = "intent" /\ Alive(k) = 0
            /\ flight'[k] > 0 /\ applied'[k] = 0
         \/ /\ flight[k] > 0 /\ flight'[k] = 0
            /\ applied'[k] > 0 \/ applied'[k] = applied[k]
  PROVE  [Promise!Next]_(Promise!vars)
<1>1. Receipts' = Receipts
  BY DEF Receipts, Receipt
<1>2. CASE /\ Receipt(k) = "intent" /\ Alive(k) = 0
           /\ flight'[k] > 0 /\ applied'[k] = 0
  <2>1. k \notin Landing \cup Landed
    BY <1>2 DEF Landing, Landed, Alive, TransferTypeOK
  <2>2. Landing' = Landing \cup {k} /\ Landed' = Landed
    BY <1>2, <2>1 DEF Landing, Landed
  <2>3. Promise!Dispatch(k)
    BY <1>1, <1>2, <2>1, <2>2
       DEF Promise!Dispatch, Receipts, Landing, Landed
  <2>4. QED
    BY <2>3 DEF Promise!Next
<1>3. CASE flight[k] > 0 /\ flight'[k] = 0 /\ applied'[k] > 0
  <2>1. /\ k \in Landing /\ Landing' = Landing \ {k}
        /\ Landed' = Landed \cup {k}
    BY <1>3 DEF Landing, Landed
  <2>2. Promise!Land(k)
    BY <1>1, <2>1 DEF Promise!Land, Receipts, Landing, Landed
  <2>3. QED
    BY <2>2 DEF Promise!Next
<1>4. CASE flight[k] > 0 /\ flight'[k] = 0 /\ applied'[k] = applied[k]
  <2>1. k \in Landing /\ Landing' = Landing \ {k} /\ Landed' = Landed
    BY <1>4 DEF Landing, Landed
  <2>2. Promise!Vanish(k)
    BY <1>1, <2>1 DEF Promise!Vanish, Receipts, Landing, Landed
  <2>3. QED
    BY <2>2 DEF Promise!Next
<1>5. QED
  BY <1>2, <1>3, <1>4

\* A planned item has no receipt yet, or is left out for good.
LEMMA PromiseKeptAtStart == TransferInit => Promise!Init
<1> SUFFICES ASSUME TransferInit
             PROVE  Promise!Init
  OBVIOUS
<1>1. \A i \in Items : Receipt(i) \in {"clear", "settled"}
  BY DEF TransferInit, Receipt, Settled
<1>2. \A i \in Items : flight[i] = 0 /\ applied[i] = 0
  BY DEF TransferInit
<1>3. QED
  BY <1>1, <1>2 DEF Promise!Init

\* Every step is one of WriteAhead, or changes none of its variables.
LEMMA PromiseKeptByStep ==
  ASSUME TransferInvariant, TransferInvariant', [TransferNext]_transferVars
  PROVE  [Promise!Next]_(Promise!vars)
<1> USE DEF TransferInvariant
<1>1. TransferTypeOK /\ TransferTypeOK' /\ 1 \in Items
  BY ItemsAreNumbers
<1>2. item' \in [Items -> ItemStatuses]
  BY <1>1 DEF TransferTypeOK
<1>3. ASSUME UNCHANGED <<item, flight, applied>>
      PROVE  [Promise!Next]_(Promise!vars)
  <2>1. \A i \in Items : Receipt(i)' = Receipt(i)
    BY <1>3 DEF Receipt
  <2>2. QED
    BY <1>1, <1>2, <1>3, <2>1, ReceiptMoves
<1>4. ASSUME Begin \/ Recover
      PROVE  [Promise!Next]_(Promise!vars)
  <2>1. item' = Recovered /\ UNCHANGED <<flight, applied>>
    BY <1>4 DEF Begin, Recover, remote
  <2>2. \A i \in Items : item[i] # "running" => Receipt(i)' = Receipt(i)
    BY <2>1, RecoveredFits DEF Receipt
  <2>3. CASE \E k \in Items : item[k] = "running"
    <3>1. PICK k \in Items : item[k] = "running"
      BY <2>3
    <3>2. \A i \in Items : i # k => Receipt(i)' = Receipt(i)
      BY <2>2, <3>1 DEF OneRunning
    <3>3. CASE k \in Writes
      <4>1. item'[k] = "unknown"
        BY <2>1, <3>1, <3>3, RecoveredFits
      <4>2. Receipt(k)' = Receipt(k)
        BY <3>1, <4>1 DEF Receipt, Settled
      <4>3. QED
        BY <1>1, <1>2, <2>1, <3>2, <4>2, ReceiptMoves
    <3>4. CASE k \notin Writes
      <4>1. item'[k] = "pending"
        BY <2>1, <3>1, <3>4, RecoveredFits
      <4>2. Receipt(k) = "intent" /\ Receipt(k)' = "clear" /\ Alive(k) = 0
        BY <3>1, <3>4, <4>1 DEF Receipt, Settled, CallsCounted
      <4>3. QED
        BY <1>1, <1>2, <2>1, <3>2, <4>2, ReceiptMoves
    <3>5. QED
      BY <3>3, <3>4
  <2>4. CASE \A k \in Items : item[k] # "running"
    BY <1>1, <1>2, <2>1, <2>2, <2>4, ReceiptMoves
  <2>5. QED
    BY <2>3, <2>4
<1>5. ASSUME NEW k \in Items, NEW s \in ItemStatuses,
             item' = [item EXCEPT ![k] = s], UNCHANGED <<flight, applied>>,
             \/ s \in Settled
             \/ item[k] \in {"pending", "failed"} /\ s \in {"failed", "running"}
             \/ item[k] = "running" /\ s \in {"unknown", "unconfirmed"}
             \/ item[k] = "running" /\ s = "failed" /\ Alive(k) = 0
      PROVE  [Promise!Next]_(Promise!vars)
  <2>1. item'[k] = s /\ \A i \in Items : i # k => item'[i] = item[i]
    BY <1>1, <1>5 DEF TransferTypeOK
  <2>2. \A i \in Items : i # k => Receipt(i)' = Receipt(i)
    BY <2>1 DEF Receipt
  <2>3. \/ Receipt(k)' = Receipt(k)
        \/ Receipt(k) = "clear" /\ Receipt(k)' = "intent"
        \/ Receipt(k) = "intent" /\ Receipt(k)' = "clear" /\ Alive(k) = 0
        \/ Receipt(k)' = "settled"
    BY <1>5, <2>1 DEF Receipt, Settled
  <2>4. QED
    BY <1>1, <1>2, <1>5, <2>2, <2>3, ReceiptMoves
<1> USE DEF record, runner, remote, history, Put, Go, GoOn
<1>6. ASSUME Verify
      PROVE  [Promise!Next]_(Promise!vars)
  <2>1. cur \in Items /\ "confirmed" \in ItemStatuses
    BY <1>6 DEF Verify, AtWork, Away, ItemStatuses
  <2>2. UNCHANGED <<flight, applied>>
    BY <1>6 DEF Verify
  <2>3. CASE item' = [item EXCEPT ![cur] = "confirmed"]
    BY <1>5, <2>1, <2>2, <2>3 DEF Settled
  <2>4. CASE UNCHANGED item
    BY <1>3, <2>2, <2>4
  <2>5. QED
    BY <1>6, <2>3, <2>4 DEF Verify
<1>7. ASSUME Prepare \/ Mark
      PROVE  [Promise!Next]_(Promise!vars)
  <2>1. /\ cur \in Items /\ item[cur] \in {"pending", "failed"}
        /\ {"failed", "running"} \subseteq ItemStatuses
    BY <1>7 DEF Prepare, Mark, AtWork, Away, ItemStatuses
  <2>2. UNCHANGED <<flight, applied>>
    BY <1>7 DEF Prepare, Mark
  <2>3. \/ UNCHANGED item
        \/ \E s \in {"failed", "running"} : item' = [item EXCEPT ![cur] = s]
    BY <1>7 DEF Prepare, Mark
  <2>4. QED
    BY <1>3, <1>5, <2>1, <2>2, <2>3
<1>8. ASSUME Save
      PROVE  [Promise!Next]_(Promise!vars)
  <2>1. /\ cur \in Items /\ item[cur] = "running"
        /\ item' = [item EXCEPT ![cur] = result]
        /\ UNCHANGED <<flight, applied>>
        /\ result \in {"confirmed", "unknown", "unconfirmed", "failed"}
        /\ result = "failed" => Alive(cur) = 0
    BY <1>8 DEF Save, AtWork, Away, CallsCounted
  <2>2. result \in ItemStatuses
    BY <2>1 DEF ItemStatuses
  <2>3. QED
    BY <1>5, <2>1, <2>2 DEF Settled
<1>9. ASSUME NEW k \in Items, Skip(k)
      PROVE  [Promise!Next]_(Promise!vars)
  <2>1. /\ item' = [item EXCEPT ![k] = "skipped"]
        /\ UNCHANGED <<flight, applied>>
        /\ "skipped" \in ItemStatuses /\ "skipped" \in Settled
    BY <1>9 DEF Skip, ItemStatuses, Settled
  <2>2. QED
    BY <1>5, <2>1
<1>10. \A i \in Items :
         flight[i] \in Nat /\ applied[i] \in Nat /\ Alive(i) \leq 1
  BY DEF CallsCounted, TransferTypeOK
<1>11. flight' \in [Items -> Nat] /\ applied' \in [Items -> Nat]
  BY <1>1 DEF TransferTypeOK
<1>12. ASSUME Send
       PROVE  [Promise!Next]_(Promise!vars)
  <2>1. /\ cur \in Items /\ item[cur] = "running" /\ Alive(cur) = 0
        /\ UNCHANGED <<item, applied>>
        /\ flight' = [flight EXCEPT ![cur] = @ + 1]
    BY <1>12 DEF Send, AtWork, Away, CallsCounted
  <2>2. /\ Receipt(cur) = "intent"
        /\ flight'[cur] > 0 /\ applied'[cur] = 0
        /\ \A i \in Items : i # cur =>
             flight'[i] = flight[i] /\ applied'[i] = applied[i]
    BY <1>1, <1>10, <2>1 DEF Receipt, Settled, Alive, TransferTypeOK
  <2>3. QED
    BY <1>1, <1>11, <2>1, <2>2, PromiseCallMoves
<1>13. ASSUME NEW k \in Items, flight[k] > 0, UNCHANGED item,
              flight' = [flight EXCEPT ![k] = @ - 1],
              applied' \in {applied, [applied EXCEPT ![k] = @ + 1]}
       PROVE  [Promise!Next]_(Promise!vars)
  <2>1. /\ flight'[k] = 0
        /\ applied'[k] > 0 \/ applied'[k] = applied[k]
        /\ \A i \in Items : i # k =>
             flight'[i] = flight[i] /\ applied'[i] = applied[i]
    BY <1>1, <1>10, <1>13 DEF Alive, TransferTypeOK
  <2>2. QED
    BY <1>1, <1>11, <1>13, <2>1, PromiseCallMoves
<1>14. ASSUME Answer
       PROVE  [Promise!Next]_(Promise!vars)
  <2>1. cur \in Items /\ UNCHANGED item
    BY <1>14 DEF Answer, AtWork, Away
  <2>2. QED
    BY <1>3, <1>13, <1>14, <2>1 DEF Answer
<1>15. ASSUME NEW k \in Items, Late(k)
       PROVE  [Promise!Next]_(Promise!vars)
  BY <1>13, <1>15 DEF Late
<1>16. CASE \/ \E only \in BOOLEAN : Start(only)
            \/ StartFails \/ TakeItem \/ Throws \/ Recheck \/ ExecuteHere
            \/ End \/ Die \/ (\E c \in {"pause", "cancel"} : Command(c)) \/ Drop
            \/ UNCHANGED transferVars
  BY <1>3, <1>16 DEF Start, StartFails, TakeItem, Throws, Recheck, ExecuteHere,
                     End, Die, Command, Drop, transferVars
<1>17. QED
  BY <1>4, <1>6, <1>7, <1>8, <1>9, <1>12, <1>14, <1>15, <1>16
     DEF TransferNext, Run

-----------------------------------------------------------------------------
(* Gallery transfer: theorems *)

\* The task, its runner and the calls only ever hold states of their kind.
THEOREM TransferTypeCorrect == TransferSpec => []TransferTypeOK
BY TransferHolds, PTL DEF TransferInvariant

\* What may have been written is on record, for every plan and however often the
\* tab dies: an item whose call can still land or has landed is never put back
\* to an item that may be sent.
THEOREM NoReceiptIsLost == TransferSpec => []ReceiptsKept
BY TransferHolds, PTL DEF TransferInvariant

\* No item is sent before what it builds on is confirmed, and none that closes
\* the transfer before all items ahead of it have ended.
THEOREM ItemsKeepOrder == TransferSpec => []OrderHolds
BY TransferHolds, PTL DEF TransferInvariant

\* After a pause or a cancellation no write leaves but the one whose check was
\* already passed when the command was given.
THEOREM StopsAreHeard == TransferSpec => []StopIsHeard
BY TransferHolds, PTL DEF TransferInvariant

\* The transfer keeps the promise of WriteAhead for every item that writes: the
\* receipt is stored first, and no call leaves twice unless the one before it is
\* known to have had no effect.
THEOREM TransferWritesAhead == TransferSpec => KeepsPromise
<1>1. TransferInit => TransferInvariant /\ Promise!Init
  BY TransferStarts, PromiseKeptAtStart
<1>2. TransferInvariant /\ [TransferNext]_transferVars =>
        TransferInvariant' /\ [Promise!Next]_(Promise!vars)
  BY TransferStep, PromiseKeptByStep
<1>3. QED
  BY <1>1, <1>2, PTL DEF TransferSpec, KeepsPromise, Promise!Spec

-----------------------------------------------------------------------------
(* Video upload: the inductive invariant *)

\* Before a request has the outcome of its work in hand.
Working ==
  {"taking", "work", "sending", "called", "object", "reading", "removal"}

\* A request whose copy carries the revision of the row has the flags of the
\* row, and its status until it has an outcome to write.
CopyFits(r) ==
  /\ at[r] # "idle" /\ r \in current =>
       /\ loc[r].complete = row.complete
       /\ loc[r].cancel = row.cancel
       /\ loc[r].submit = row.submit
       /\ row.upload => loc[r].upload
       /\ loc[r].status = "prepared" => row.status = "prepared"
       /\ at[r] \in Working =>
            loc[r].status = row.status /\ loc[r].upload = row.upload
  /\ at[r] \in Working \cup {"failing"} => loc[r].status \notin Closed

\* A call leaves once per command, and is the call of that command.
CallFits(r) ==
  /\ at[r] \in {"taking", "work", "sending"} => wire[r] = NoCall
  /\ at[r] \in {"sending", "called"} => KindOf[act[r]] \in Kinds
  /\ at[r] = "called" =>
       wire[r].kind = KindOf[act[r]] /\ wire[r].part = part[r]
  /\ at[r] \in {"sending", "called"} /\ act[r] = "cancel" => loc[r].cancel
  /\ at[r] = "removal" => loc[r].cancel

\* The flags of the row are set before the calls they announce, and exclude
\* each other.
FlagsFit ==
  /\ row.complete \/ row.cancel => row.upload
  /\ ~(row.cancel /\ (row.complete \/ row.submit))
  /\ "complete" \in sent => row.complete
  /\ "abort" \in sent => row.cancel
  /\ "submit" \in sent => row.submit
  /\ \A r \in Requests : at[r] = "sending" =>
       /\ act[r] = "complete" => row.complete
       /\ act[r] = "cancel" => row.cancel
       /\ act[r] = "submit" => row.submit

\* A request that opens the upload: its call is about to leave, or out.
Creating(r) ==
  \/ at[r] = "sending" /\ act[r] = "initiate"
  \/ wire[r].kind = "create"

\* The upload is opened once, and its id is known only after that.
CreatedOnceFits ==
  /\ \A r, k \in Requests : Creating(r) /\ Creating(k) => r = k
  /\ \A r \in Requests : Creating(r) =>
       /\ source = "file" /\ row.status # "prepared" /\ ~row.upload
       /\ \A k \in Requests : ~loc[k].upload
       /\ at[r] = "sending" \/ wire[r].state = "pending" => multi = "none"
  /\ row.upload => row.status # "prepared"
  /\ \A r \in Requests : loc[r].upload => row.status # "prepared"
  /\ multi # "none" => source = "file" /\ row.status # "prepared"

\* A request that submits: its call is about to leave, or out.
Submitting(r) ==
  \/ at[r] = "sending" /\ act[r] = "submit"
  \/ wire[r].kind = "submit"

SubmittedOnceFits ==
  /\ \A r, k \in Requests : Submitting(r) /\ Submitting(k) => r = k
  /\ \A r \in Requests : Submitting(r) =>
       /\ row.submit
       /\ at[r] = "sending" \/ wire[r].state = "pending" => posted = 0
  /\ posted > 0 => row.submit
  /\ visible => posted > 0

\* What the record and the copies say is at the store is there.
StoreFits ==
  /\ object => multi = "completed"
  /\ row.status = "staged" => object
  /\ \A p \in Parts : row.parts[p] = "confirmed" => p \in stored
  /\ \A r \in Requests :
       /\ loc[r].status = "staged" => object
       /\ \A p \in Parts : loc[r].parts[p] = "confirmed" => p \in stored
       /\ wire[r].kind = "part" /\ wire[r].state = "done" =>
            wire[r].part \in stored

\* Nothing of the task is left to open or to submit.
Clean ==
  /\ ~row.submit
  /\ multi # "open"
  /\ \A r \in Requests : ~Creating(r)

\* A closed row is not written again, and it is closed for a reason.
ClosedFits ==
  /\ row.status \in Closed => \A r \in current : at[r] = "idle"
  /\ row.status = "cancelled" => Clean
  /\ row.status = "confirmed" => posted > 0
  /\ \A r \in Requests : at[r] = "finish" =>
       /\ loc[r].status = "cancelled" /\ r \in current => Clean
       /\ loc[r].status = "confirmed" => posted > 0

UploadInvariant ==
  /\ UploadTypeOK
  /\ \A r \in Requests : CopyFits(r) /\ CallFits(r)
  /\ FlagsFit
  /\ CreatedOnceFits
  /\ SubmittedOnceFits
  /\ StoreFits
  /\ ClosedFits
-----------------------------------------------------------------------------
(* Video upload: what the helpers do *)

LEMMA FilesHaveParts == 1 \in Parts
BY VideoAssumption DEF Parts

\* A new task has announced nothing and confirmed nothing.
LEMMA FreshRecordsFit ==
  /\ NewRecord \in Record
  /\ NewRecord.status = "prepared"
  /\ ~NewRecord.upload /\ ~NewRecord.complete
  /\ ~NewRecord.submit /\ ~NewRecord.cancel
  /\ \A p \in Parts : NewRecord.parts[p] # "confirmed"
BY DEF NewRecord, Record, UploadStatuses, Actions

\* A call under way has a kind, a part and a state; no call has neither.
LEMMA CallsAreTyped ==
  ASSUME UploadTypeOK, NEW r \in Requests
  PROVE  \/ wire[r] = NoCall /\ wire[r].kind = "none" /\ wire[r].state = "none"
         \/ /\ wire[r].kind \in Kinds
            /\ wire[r].part \in Parts
            /\ wire[r].state \in {"pending", "done", "refused"}
BY DEF UploadTypeOK, NoCall, Kinds

\* The commands that look only make no call.
LEMMA CallsOfCommands ==
  /\ KindOf["initiate"] = "create" /\ KindOf["part"] = "part"
  /\ KindOf["complete"] = "complete" /\ KindOf["cancel"] = "abort"
  /\ KindOf["submit"] = "submit"
  /\ KindOf["verify"] = "none" /\ KindOf["reconcile"] = "none"
BY DEF KindOf, Actions, Kinds

\* Parts that were under way become uncertain, and none is confirmed by it.
LEMMA UnflownFits ==
  ASSUME NEW rec \in Record
  PROVE  /\ Unflown(rec.parts) \in
              [Parts -> {"pending", "in-flight", "unknown", "confirmed"}]
         /\ \A p \in Parts :
              Unflown(rec.parts)[p] = "confirmed" => rec.parts[p] = "confirmed"
BY DEF Unflown, Record

\* The catch block keeps the flags of the row and confirms nothing.
LEMMA CaughtFits ==
  ASSUME NEW rec \in Record
  PROVE  /\ Caught(rec) \in Record
         /\ Caught(rec).status = "needs-review"
         /\ Caught(rec).upload = rec.upload
         /\ Caught(rec).complete = rec.complete
         /\ Caught(rec).cancel = rec.cancel
         /\ Caught(rec).submit = rec.submit
         /\ \A p \in Parts : Caught(rec).parts[p] = "confirmed" =>
              rec.parts[p] = "confirmed"
<1>1. Caught(rec) \in Record
  BY UnflownFits DEF Caught, Record, UploadStatuses
<1>2. Caught(rec).parts = Unflown(rec.parts)
  BY DEF Caught, Record
<1>3. QED
  BY <1>1, <1>2, UnflownFits DEF Caught, Record

\* A step of one request.
Alone(r) ==
  \A k \in Requests \ {r} :
    /\ at'[k] = at[k] /\ act'[k] = act[k] /\ part'[k] = part[k]
    /\ loc'[k] = loc[k] /\ wire'[k] = wire[k]

\* What the other requests have in hand stays true while the row does.
LEMMA OthersFit ==
  ASSUME UploadInvariant, NEW r \in Requests, Alone(r), row' = row,
         current' \subseteq current \cup {r},
         NEW k \in Requests \ {r}
  PROVE  CopyFits(k)' /\ CallFits(k)'
BY DEF UploadInvariant, Alone, CopyFits, CallFits

-----------------------------------------------------------------------------
(* Video upload: steps that change only what one request remembers *)

Remembers(r) ==
  /\ UNCHANGED <<source, row, outside, sent>>
  /\ Alone(r)
  /\ current' \subseteq current \cup {r}
  /\ at'[r] # "sending"
  /\ wire'[r] \in {wire[r], NoCall}
  /\ row.status \in Closed /\ r \in current' => at'[r] = "idle"

\* What the new copy may say.
CopyIsBacked(r) ==
  /\ loc'[r].upload =>
       \/ loc[r].upload \/ row.upload
       \/ wire[r].kind = "create" /\ wire'[r] = NoCall
  /\ loc'[r].status = "staged" => object
  /\ \A p \in Parts : loc'[r].parts[p] = "confirmed" => p \in stored
  /\ at'[r] = "finish" =>
       /\ loc'[r].status = "cancelled" /\ r \in current' => Clean
       /\ loc'[r].status = "confirmed" => posted > 0

\* So what the request remembers is its own affair.
LEMMA RememberingKeepsTheInvariant ==
  ASSUME UploadInvariant, NEW r \in Requests, Remembers(r), CopyIsBacked(r),
         UploadTypeOK', CopyFits(r)', CallFits(r)'
  PROVE  UploadInvariant'
<1>1. /\ row' = row /\ source' = source /\ sent' = sent
      /\ multi' = multi /\ stored' = stored /\ object' = object
      /\ posted' = posted /\ visible' = visible
  BY DEF Remembers, outside
<1>2. /\ \A k \in Requests \ {r} : CopyFits(k)' /\ CallFits(k)'
  BY <1>1, OthersFit DEF Remembers
<1>3. FlagsFit'
  BY <1>1 DEF UploadInvariant, FlagsFit, Remembers, Alone
<1>4. \A k \in Requests : Creating(k)' => Creating(k) /\ wire'[k] = wire[k]
  BY DEF Creating, Remembers, Alone, NoCall
<1>5. \A k \in Requests : Submitting(k)' => Submitting(k) /\ wire'[k] = wire[k]
  BY DEF Submitting, Remembers, Alone, NoCall
<1>6. CreatedOnceFits'
  <2>1. \A k, q \in Requests : Creating(k)' => ~loc'[q].upload
    <3> SUFFICES ASSUME NEW k \in Requests, NEW q \in Requests, Creating(k)',
                        loc'[q].upload
                 PROVE  FALSE
      OBVIOUS
    <3>1. Creating(k) /\ ~row.upload /\ ~loc[q].upload
      BY <1>4 DEF UploadInvariant, CreatedOnceFits
    <3>2. q = r /\ wire[r].kind = "create" /\ wire'[r] = NoCall
      BY <3>1 DEF CopyIsBacked, Remembers, Alone
    <3>3. k = r
      BY <3>1, <3>2 DEF UploadInvariant, CreatedOnceFits, Creating
    <3>4. QED
      BY <3>2, <3>3 DEF Creating, Remembers, NoCall
  <2>2. \A q \in Requests : loc'[q].upload => row.status # "prepared"
    <3>1. \A q \in Requests : Creating(q) \/ row.upload \/ loc[q].upload
                                => row.status # "prepared"
      BY DEF UploadInvariant, CreatedOnceFits
    <3>2. QED
      BY <3>1 DEF CopyIsBacked, Remembers, Alone, Creating
  <2>3. \A k \in Requests :
          Creating(k)' => (at'[k] = "sending" => at[k] = "sending")
    BY DEF Remembers, Alone
  <2>4. QED
    BY <1>1, <1>4, <2>1, <2>2, <2>3 DEF UploadInvariant, CreatedOnceFits
<1>7. SubmittedOnceFits'
  <2>1. \A k \in Requests : at'[k] = "sending" => at[k] = "sending"
    BY DEF Remembers, Alone
  <2>2. QED
    BY <1>1, <1>5, <2>1 DEF UploadInvariant, SubmittedOnceFits
<1>8. StoreFits'
  BY <1>1 DEF UploadInvariant, StoreFits, Remembers, Alone, CopyIsBacked, NoCall
<1>9. ClosedFits'
  <2>1. Clean => Clean'
    BY <1>1, <1>4 DEF Clean
  <2>2. \A k \in Requests : at'[k] = "finish" =>
          /\ loc'[k].status = "cancelled" /\ k \in current' => Clean
          /\ loc'[k].status = "confirmed" => posted > 0
    BY DEF UploadInvariant, ClosedFits, Remembers, Alone, CopyIsBacked
  <2>3. row.status \in Closed => \A k \in current' : at'[k] = "idle"
    <3>1. current' \subseteq Requests
      BY DEF UploadTypeOK
    <3>2. QED
      BY <3>1 DEF UploadInvariant, ClosedFits, Remembers, Alone
  <2>4. QED
    BY <1>1, <2>1, <2>2, <2>3 DEF UploadInvariant, ClosedFits
<1>10. QED
  BY <1>2, <1>3, <1>6, <1>7, <1>8, <1>9 DEF UploadInvariant

\* The copy still carries what the request knows of the stored record.
SameFlags(rec, old) ==
  /\ rec.complete = old.complete
  /\ rec.cancel = old.cancel
  /\ rec.submit = old.submit
  /\ old.upload => rec.upload
  /\ rec.status = "prepared" => old.status = "prepared"

\* What the end of a request leaves alone.
Withdraws(r) ==
  /\ at[r] \in Working
  /\ UNCHANGED <<source, row, lapsed, current, act, part, outside, sent>>
  /\ wire' \in [Requests -> {NoCall} \cup
       [kind : Kinds, part : Parts, state : {"pending", "done", "refused"}]]
  /\ wire'[r] \in {wire[r], NoCall}
  /\ \A k \in Requests \ {r} : wire'[k] = wire[k]

\* A request at work keeps its copy and takes up something else.
LEMMA TurningKeepsTheInvariant ==
  ASSUME UploadInvariant, NEW r \in Requests, Withdraws(r),
         NEW p \in {"object", "removal"}, Goto(r, p), loc' = loc,
         p = "removal" => loc[r].cancel
  PROVE  UploadInvariant'
<1>1. /\ at'[r] = p
      /\ at[r] # "idle"
      /\ \A k \in Requests \ {r} : at'[k] = at[k]
  BY DEF UploadInvariant, UploadTypeOK, Goto, Working, Withdraws
<1>2. Remembers(r)
  BY <1>1 DEF UploadInvariant, ClosedFits, Withdraws, Remembers, Alone
<1>3. CopyIsBacked(r)
  BY <1>1 DEF UploadInvariant, StoreFits, CopyIsBacked
<1>4. UploadTypeOK'
  BY DEF UploadInvariant, UploadTypeOK, Withdraws, Goto, outside
<1>5. CopyFits(r)'
  BY <1>1 DEF UploadInvariant, CopyFits, Withdraws, Working
<1>6. CallFits(r)'
  BY <1>1 DEF CallFits
<1>7. QED
  BY <1>2, <1>3, <1>4, <1>5, <1>6, RememberingKeepsTheInvariant

\* A request at work has an outcome in hand.
LEMMA FinishingKeepsTheInvariant ==
  ASSUME UploadInvariant, NEW r \in Requests, Withdraws(r),
         NEW rec \in Record, Finish(r, rec), SameFlags(rec, loc[r]),
         rec.upload => \/ loc[r].upload
                       \/ wire[r].kind = "create" /\ wire'[r] = NoCall,
         rec.status = "staged" => object,
         \A p \in Parts : rec.parts[p] = "confirmed" => p \in stored,
         rec.status = "cancelled" /\ r \in current => Clean,
         rec.status = "confirmed" => posted > 0
  PROVE  UploadInvariant'
<1>1. /\ at'[r] = "finish" /\ loc'[r] = rec
      /\ at[r] # "idle"
      /\ \A k \in Requests \ {r} : at'[k] = at[k] /\ loc'[k] = loc[k]
  BY DEF UploadInvariant, UploadTypeOK, Finish, Goto, Keep, Working, Withdraws
<1>2. Remembers(r)
  BY <1>1 DEF UploadInvariant, ClosedFits, Withdraws, Remembers, Alone
<1>3. CopyIsBacked(r)
  BY <1>1 DEF CopyIsBacked, Withdraws
<1>4. UploadTypeOK'
  BY DEF UploadInvariant, UploadTypeOK, Withdraws, Finish, Goto, Keep, outside
<1>5. CopyFits(r)'
  BY <1>1 DEF UploadInvariant, CopyFits, Withdraws, Working, SameFlags
<1>6. CallFits(r)'
  BY <1>1 DEF CallFits
<1>7. QED
  BY <1>2, <1>3, <1>4, <1>5, <1>6, RememberingKeepsTheInvariant

\* A request at work meets an error.
LEMMA FailingKeepsTheInvariant ==
  ASSUME UploadInvariant, NEW r \in Requests, Withdraws(r),
         NEW rec \in Record, Fail(r, rec), SameFlags(rec, loc[r]),
         rec.upload => loc[r].upload,
         \A p \in Parts : rec.parts[p] = "confirmed" => p \in stored
  PROVE  UploadInvariant'
<1>1. /\ at'[r] = "failing" /\ loc'[r] = Caught(rec)
      /\ at[r] # "idle"
      /\ \A k \in Requests \ {r} : at'[k] = at[k] /\ loc'[k] = loc[k]
  BY DEF UploadInvariant, UploadTypeOK, Fail, Goto, Keep, Working, Withdraws
<1>2. Remembers(r)
  BY <1>1 DEF UploadInvariant, ClosedFits, Withdraws, Remembers, Alone
<1>3. CopyIsBacked(r)
  <2>1. \A p \in Parts : loc'[r].parts[p] = "confirmed" => p \in stored
    BY <1>1, CaughtFits
  <2>2. loc'[r].status = "needs-review" /\ loc'[r].upload = rec.upload
    BY <1>1, CaughtFits
  <2>3. QED
    BY <1>1, <2>1, <2>2 DEF CopyIsBacked
<1>4. UploadTypeOK'
  BY CaughtFits DEF UploadInvariant, UploadTypeOK, Withdraws, Fail, Goto, Keep,
     outside
<1>5. CopyFits(r)'
  BY <1>1, CaughtFits
     DEF UploadInvariant, CopyFits, Withdraws, Working, SameFlags, Closed
<1>6. CallFits(r)'
  BY <1>1 DEF CallFits
<1>7. QED
  BY <1>2, <1>3, <1>4, <1>5, <1>6, RememberingKeepsTheInvariant

\* The copy of a request at work, as the invariant has it.
LEMMA CopiesAreBacked ==
  ASSUME UploadInvariant, NEW r \in Requests
  PROVE  /\ loc[r] \in Record
         /\ loc[r].status = "staged" => object
         /\ \A p \in Parts : loc[r].parts[p] = "confirmed" => p \in stored
         /\ SameFlags(loc[r], loc[r])
BY DEF UploadInvariant, UploadTypeOK, StoreFits, SameFlags

\* The copy a command reads is the row, but for its parts and its lease.
LEMMA ReadKeeps ==
  ASSUME UploadInvariant, NEW r \in Requests, NEW a \in Actions,
         NEW p \in Parts, Read(r, a, p)
  PROVE  UploadInvariant'
<1> DEFINE rec == [row EXCEPT !.parts = Unflown(@), !.busy = a]
<1>1. /\ row \in Record
      /\ rec \in Record
      /\ rec.status = row.status /\ rec.upload = row.upload
      /\ rec.complete = row.complete /\ rec.cancel = row.cancel
      /\ rec.submit = row.submit /\ rec.parts = Unflown(row.parts)
  <2>1. row \in Record
    BY DEF UploadInvariant, UploadTypeOK
  <2>2. QED
    BY <2>1, UnflownFits DEF Record
<1> HIDE DEF rec
<1>2. /\ at'[r] = "taking" /\ loc'[r] = rec
      /\ wire[r] = NoCall /\ row.status \notin Closed
      /\ current' = current \cup {r}
      /\ row' = row /\ wire' = wire
      /\ Alone(r)
  BY DEF UploadInvariant, UploadTypeOK, Read, Keep, Goto, Alone, rec
<1>3. Remembers(r)
  BY <1>2 DEF Read, Remembers
<1>4. CopyIsBacked(r)
  <2>1. \A i \in Parts : loc'[r].parts[i] = "confirmed" => i \in stored
    BY <1>1, <1>2, UnflownFits DEF UploadInvariant, StoreFits
  <2>2. QED
    BY <1>1, <1>2, <2>1 DEF UploadInvariant, StoreFits, CopyIsBacked, Closed
<1>5. UploadTypeOK'
  BY <1>1 DEF UploadInvariant, UploadTypeOK, Read, Keep, Goto, outside, rec
<1>6. CopyFits(r)'
  BY <1>1, <1>2 DEF CopyFits
<1>7. CallFits(r)'
  BY <1>2 DEF CallFits
<1>8. QED
  BY <1>3, <1>4, <1>5, <1>6, <1>7, RememberingKeepsTheInvariant

LEMMA LeavingIsIdle ==
  ASSUME UploadTypeOK, NEW r \in Requests, Leave(r)
  PROVE  /\ at'[r] = "idle" /\ loc'[r] = NewRecord
         /\ \A k \in Requests \ {r} :
              at'[k] = at[k] /\ loc'[k] = loc[k] /\ act'[k] = act[k]
                /\ part'[k] = part[k]
         /\ loc' \in [Requests -> Record]
         /\ act' \in [Requests -> Actions]
         /\ part' \in [Requests -> Parts]
         /\ at' \in [Requests -> {"idle", "taking", "work", "sending", "called",
                          "object", "reading", "removal", "finish", "failing"}]
BY FilesHaveParts, FreshRecordsFit DEF UploadTypeOK, Leave, Keep, Goto, Actions

\* A request that was overtaken leaves nothing.
LEMMA ConflictKeeps ==
  ASSUME UploadInvariant, NEW r \in Requests, Conflict(r)
  PROVE  UploadInvariant'
<1> USE LeavingIsIdle, FreshRecordsFit
<1>1. UploadTypeOK /\ Leave(r)
  BY DEF UploadInvariant, Conflict
<1>2. Remembers(r)
  BY <1>1 DEF Conflict, Remembers, Alone
<1>3. CopyIsBacked(r)
  BY <1>1 DEF CopyIsBacked
<1>4. UploadTypeOK'
  BY <1>1 DEF UploadTypeOK, Conflict, outside
<1>5. CopyFits(r)' /\ CallFits(r)'
  BY <1>1 DEF CopyFits, CallFits, Working
<1>6. QED
  BY <1>2, <1>3, <1>4, <1>5, RememberingKeepsTheInvariant

\* Nor does one that dies, except a call that may still arrive.
LEMMA CrashKeeps ==
  ASSUME UploadInvariant, NEW r \in Requests, Crash(r)
  PROVE  UploadInvariant'
<1> USE LeavingIsIdle, FreshRecordsFit
<1>1. UploadTypeOK /\ Leave(r)
  BY DEF UploadInvariant, Crash
<1>2. /\ wire'[r] \in {wire[r], NoCall}
      /\ \A k \in Requests \ {r} : wire'[k] = wire[k]
  BY <1>1 DEF Crash, UploadTypeOK
<1>3. Remembers(r)
  BY <1>1, <1>2 DEF Crash, Remembers, Alone
<1>4. CopyIsBacked(r)
  BY <1>1 DEF CopyIsBacked
<1>5. UploadTypeOK'
  BY <1>1 DEF UploadTypeOK, Crash, outside
<1>6. CopyFits(r)' /\ CallFits(r)'
  BY <1>1 DEF CopyFits, CallFits, Working
<1>7. QED
  BY <1>3, <1>4, <1>5, <1>6, RememberingKeepsTheInvariant

LEMMA RefuseKeeps ==
  ASSUME UploadInvariant, NEW r \in Requests, Refuse(r)
  PROVE  UploadInvariant'
<1>1. Withdraws(r)
  BY DEF UploadInvariant, UploadTypeOK, Refuse, Withdraws, Working
<1>2. QED
  BY <1>1, CopiesAreBacked, FailingKeepsTheInvariant DEF Refuse

LEMMA CallFailsKeeps ==
  ASSUME UploadInvariant, NEW r \in Requests, CallFails(r)
  PROVE  UploadInvariant'
<1>1. Withdraws(r)
  BY DEF UploadInvariant, UploadTypeOK, CallFails, Withdraws, Working
<1>2. QED
  BY <1>1, CopiesAreBacked, FailingKeepsTheInvariant DEF CallFails

\* Where nothing can be open, and nothing was submitted, no call is needed.
LEMMA CancelHereKeeps ==
  ASSUME UploadInvariant, NEW r \in Requests, CancelHere(r)
  PROVE  UploadInvariant'
<1> DEFINE rec == [loc[r] EXCEPT !.status = "cancelled"]
<1>1. Withdraws(r)
  BY DEF UploadInvariant, UploadTypeOK, CancelHere, Withdraws, Working
<1>2. /\ rec \in Record
      /\ SameFlags(rec, loc[r])
      /\ rec.upload = loc[r].upload /\ rec.parts = loc[r].parts
      /\ rec.status = "cancelled"
  BY CopiesAreBacked DEF Record, SameFlags, UploadStatuses, Closed
<1>3. ASSUME r \in current
      PROVE  Clean
  <2>1. /\ loc[r].complete = row.complete /\ loc[r].submit = row.submit
        /\ loc[r].status = row.status /\ loc[r].upload = row.upload
    BY <1>1, <1>3 DEF UploadInvariant, CopyFits, CancelHere, Working
  <2>2. ~row.submit
    BY <2>1 DEF CancelHere, Preserved
  <2>3. CASE row.complete
    <3>1. row.upload /\ row.status = "staged"
      BY <2>1, <2>3 DEF UploadInvariant, FlagsFit, CancelHere, Preserved
    <3>2. multi = "completed"
      BY <3>1 DEF UploadInvariant, StoreFits
    <3>3. QED
      BY <2>2, <3>1, <3>2 DEF UploadInvariant, CreatedOnceFits, Clean
  <2>4. CASE ~row.complete
    <3>1. ~row.upload /\ (source # "file" \/ row.status = "prepared")
      BY <2>1, <2>4 DEF CancelHere, Preserved
    <3>2. QED
      BY <2>2, <3>1 DEF UploadInvariant, CreatedOnceFits, Clean
  <2>5. QED
    BY <2>3, <2>4
<1>4. Finish(r, rec)
  BY DEF CancelHere
<1> HIDE DEF rec
<1>5. QED
  BY <1>1, <1>2, <1>3, <1>4, CopiesAreBacked, FinishingKeepsTheInvariant

LEMMA VerifyVideoKeeps ==
  ASSUME UploadInvariant, NEW r \in Requests, VerifyVideo(r)
  PROVE  UploadInvariant'
<1>1. Withdraws(r)
  BY DEF UploadInvariant, UploadTypeOK, VerifyVideo, Withdraws, Working
<1>2. PICK s \in IF visible THEN {"confirmed"}
                 ELSE {"accepted", "needs-review"} :
        Finish(r, [loc[r] EXCEPT !.status = s])
  BY DEF VerifyVideo
<1> DEFINE rec == [loc[r] EXCEPT !.status = s]
<1>3. /\ rec \in Record
      /\ SameFlags(rec, loc[r])
      /\ rec.upload = loc[r].upload /\ rec.parts = loc[r].parts
      /\ rec.status = s
  BY <1>2, CopiesAreBacked DEF Record, SameFlags, UploadStatuses, Closed
<1>4. s = "confirmed" => posted > 0
  BY <1>2 DEF UploadInvariant, SubmittedOnceFits
<1> HIDE DEF rec
<1>5. QED
  <2>1. Finish(r, rec) /\ rec.status \notin {"staged", "cancelled"}
    BY <1>2, <1>3 DEF rec
  <2>2. QED
    BY <1>1, <1>3, <1>4, <2>1, CopiesAreBacked, FinishingKeepsTheInvariant

\* The listing of the store confirms nothing that is not there.
LEMMA ReconcilePartsKeeps ==
  ASSUME UploadInvariant, NEW r \in Requests, Withdraws(r), ReconcileParts(r)
  PROVE  UploadInvariant'
<1> DEFINE old == loc[r].parts
           Agrees(p) == IF old[p] = "pending" THEN p \notin stored
                        ELSE old[p] = "unknown" \/ p \in stored
           AsListed(p) == IF p \in stored /\ old[p] # "pending"
                            THEN "confirmed" ELSE "pending"
           Before(p) == \A q \in 1 .. p : Agrees(q)
           rec == [loc[r] EXCEPT !.parts =
                     [p \in Parts |->
                        IF Before(p) THEN AsListed(p) ELSE old[p]]]
           staging == [rec EXCEPT !.status = "staging"]
<1>1. IF Before(P) THEN Finish(r, staging) ELSE Fail(r, rec)
  BY DEF ReconcileParts
<1>2. loc[r] \in Record
  BY CopiesAreBacked
<1> HIDE DEF Before
<1>3. /\ rec \in Record
      /\ SameFlags(rec, loc[r]) /\ rec.upload = loc[r].upload
      /\ \A p \in Parts : rec.parts[p] = "confirmed" => p \in stored
  BY <1>2, CopiesAreBacked DEF Record, SameFlags
<1> HIDE DEF rec
<1>4. /\ staging \in Record
      /\ SameFlags(staging, loc[r]) /\ staging.upload = loc[r].upload
      /\ staging.parts = rec.parts
      /\ staging.status = "staging"
  BY <1>3 DEF Record, SameFlags, UploadStatuses
<1> HIDE DEF staging
<1>5. CASE Finish(r, staging)
  BY <1>3, <1>4, <1>5, FinishingKeepsTheInvariant
<1>6. CASE Fail(r, rec)
  BY <1>3, <1>6, FailingKeepsTheInvariant
<1>7. QED
  BY <1>1, <1>5, <1>6

LEMMA ReconcileKeeps ==
  ASSUME UploadInvariant, NEW r \in Requests, Reconcile(r)
  PROVE  UploadInvariant'
<1>1. Withdraws(r)
  BY DEF UploadInvariant, UploadTypeOK, Reconcile, Withdraws, Working
<1>2. CASE loc[r].cancel /\ Goto(r, "removal") /\ UNCHANGED loc
  BY <1>1, <1>2, TurningKeepsTheInvariant
<1>3. CASE Goto(r, "object") /\ UNCHANGED loc
  BY <1>1, <1>3, TurningKeepsTheInvariant
<1>4. CASE ReconcileParts(r)
  BY <1>1, <1>4, ReconcilePartsKeeps
<1>5. QED
  BY <1>2, <1>3, <1>4 DEF Reconcile

LEMMA ReadObjectKeeps ==
  ASSUME UploadInvariant, NEW r \in Requests, ReadObject(r)
  PROVE  UploadInvariant'
<1>1. Withdraws(r)
  BY DEF UploadInvariant, UploadTypeOK, ReadObject, Withdraws, Working
<1>2. CASE Fail(r, loc[r])
  BY <1>1, <1>2, CopiesAreBacked, FailingKeepsTheInvariant
<1> DEFINE rec == [loc[r] EXCEPT !.status = "staged"]
<1>3. /\ rec \in Record
      /\ SameFlags(rec, loc[r])
      /\ rec.upload = loc[r].upload /\ rec.parts = loc[r].parts
      /\ rec.status = "staged"
  BY CopiesAreBacked DEF Record, SameFlags, UploadStatuses
<1> HIDE DEF rec
<1>4. CASE object /\ Finish(r, rec)
  BY <1>1, <1>3, <1>4, CopiesAreBacked, FinishingKeepsTheInvariant
<1>5. QED
  BY <1>2, <1>4 DEF ReadObject, rec

LEMMA CheckRemovalKeeps ==
  ASSUME UploadInvariant, NEW r \in Requests, CheckRemoval(r)
  PROVE  UploadInvariant'
<1>1. Withdraws(r)
  BY DEF UploadInvariant, UploadTypeOK, CheckRemoval, Withdraws, Working
<1>2. CASE Fail(r, loc[r])
  BY <1>1, <1>2, CopiesAreBacked, FailingKeepsTheInvariant
<1> DEFINE verdict == IF multi = "open" THEN "needs-review" ELSE "cancelled"
           rec == [loc[r] EXCEPT !.status = verdict]
<1>3. /\ rec \in Record
      /\ SameFlags(rec, loc[r])
      /\ rec.upload = loc[r].upload /\ rec.parts = loc[r].parts
      /\ rec.status = verdict
  BY CopiesAreBacked DEF Record, SameFlags, UploadStatuses, Closed
<1>4. ASSUME r \in current, verdict = "cancelled"
      PROVE  Clean
  <2>1. row.cancel
    BY <1>4 DEF UploadInvariant, CopyFits, CallFits, CheckRemoval
  <2>2. ~row.submit /\ row.upload
    BY <2>1 DEF UploadInvariant, FlagsFit
  <2>3. QED
    BY <1>4, <2>2 DEF UploadInvariant, CreatedOnceFits, Clean
<1> HIDE DEF rec
<1>5. CASE Finish(r, rec)
  BY <1>1, <1>3, <1>4, <1>5, CopiesAreBacked, FinishingKeepsTheInvariant
<1>6. QED
  BY <1>2, <1>5 DEF CheckRemoval, rec

\* Each answer says of the store what the call did there.
LEMMA AnsweredKeeps ==
  ASSUME UploadInvariant, NEW r \in Requests, Answered(r)
  PROVE  UploadInvariant'
<1>1. Withdraws(r)
  BY DEF UploadInvariant, UploadTypeOK, Answered, Withdraws, Working
<1>2. /\ loc[r] \in Record
      /\ wire[r].kind = KindOf[act[r]] /\ wire[r].part = part[r]
      /\ wire'[r] = NoCall
      /\ act[r] \in Actions /\ part[r] \in Parts
  BY CopiesAreBacked
     DEF UploadInvariant, UploadTypeOK, CallFits, Answered
<1>3. CASE wire[r].kind = "create" /\ Finish(r, [loc[r] EXCEPT !.upload = TRUE])
  <2> DEFINE rec == [loc[r] EXCEPT !.upload = TRUE]
  <2>1. /\ rec \in Record
        /\ SameFlags(rec, loc[r])
        /\ rec.parts = loc[r].parts /\ rec.status = loc[r].status
    BY <1>2 DEF Record, SameFlags
  <2>2. loc[r].status \notin Closed
    BY <1>1 DEF UploadInvariant, CopyFits, Withdraws
  <2> HIDE DEF rec
  <2>3. rec.status \notin {"cancelled", "confirmed"}
    BY <2>1, <2>2 DEF Closed
  <2>4. Finish(r, rec)
    BY <1>3 DEF rec
  <2>5. QED
    BY <1>1, <1>2, <1>3, <2>1, <2>3, <2>4, CopiesAreBacked,
       FinishingKeepsTheInvariant
<1>4. CASE /\ wire[r].kind = "part"
           /\ Finish(r, [loc[r] EXCEPT !.parts[part[r]] = "confirmed",
                                       !.status = "staging"])
  <2> DEFINE rec == [loc[r] EXCEPT !.parts[part[r]] = "confirmed",
                                   !.status = "staging"]
  <2>1. /\ rec \in Record
        /\ SameFlags(rec, loc[r]) /\ rec.upload = loc[r].upload
        /\ rec.status = "staging"
        /\ \A p \in Parts : rec.parts[p] = "confirmed" =>
             p = part[r] \/ loc[r].parts[p] = "confirmed"
    BY <1>2 DEF Record, SameFlags, UploadStatuses
  <2>2. part[r] \in stored
    BY <1>2, <1>4 DEF UploadInvariant, StoreFits, Answered
  <2>3. Finish(r, rec)
    BY <1>4
  <2> HIDE DEF rec
  <2>4. QED
    BY <1>1, <2>1, <2>2, <2>3, CopiesAreBacked, FinishingKeepsTheInvariant
<1>5. CASE wire[r].kind = "complete" /\ Goto(r, "object") /\ UNCHANGED loc
  BY <1>1, <1>5, TurningKeepsTheInvariant
<1>6. CASE wire[r].kind = "abort" /\ Goto(r, "removal") /\ UNCHANGED loc
  <2>1. act[r] = "cancel"
    BY <1>2, <1>6 DEF KindOf, Actions, Kinds
  <2>2. loc[r].cancel
    BY <2>1 DEF UploadInvariant, CallFits, Answered
  <2>3. QED
    BY <1>1, <1>6, <2>2, TurningKeepsTheInvariant
<1>7. CASE /\ wire[r].kind = "submit"
           /\ Finish(r, [loc[r] EXCEPT !.status = "accepted"])
  <2> DEFINE rec == [loc[r] EXCEPT !.status = "accepted"]
  <2>1. /\ rec \in Record
        /\ SameFlags(rec, loc[r]) /\ rec.upload = loc[r].upload
        /\ rec.parts = loc[r].parts /\ rec.status = "accepted"
    BY <1>2 DEF Record, SameFlags, UploadStatuses
  <2>2. Finish(r, rec)
    BY <1>7
  <2> HIDE DEF rec
  <2>3. QED
    BY <1>1, <2>1, <2>2, CopiesAreBacked, FinishingKeepsTheInvariant
<1>8. QED
  BY <1>3, <1>4, <1>5, <1>6, <1>7 DEF Answered

-----------------------------------------------------------------------------
(* Video upload: steps that write the row *)

\* A request whose copy is the present one stores rec.
Stores(r, rec) ==
  /\ r \in current /\ at[r] # "idle"
  /\ row' = rec
  /\ current' = {r}
  /\ lapsed' \in BOOLEAN
  /\ UNCHANGED <<source, wire, outside, sent>>
  /\ Alone(r)

\* What is stored takes no flag back, and is closed only at the end.
RowIsBacked(r, rec) ==
  /\ loc[r].complete => rec.complete
  /\ loc[r].cancel => rec.cancel
  /\ loc[r].submit => rec.submit
  /\ rec.complete \/ rec.cancel => rec.upload
  /\ ~(rec.cancel /\ (rec.complete \/ rec.submit))
  /\ rec.upload = loc[r].upload
  /\ rec.status = "prepared" => loc[r].status = "prepared"
  /\ rec.status = "staged" => object
  /\ \A p \in Parts : rec.parts[p] = "confirmed" => p \in stored
  /\ rec.status \in Closed =>
       at[r] = "finish" /\ at'[r] = "idle" /\ rec.status = loc[r].status
         /\ rec.submit = loc[r].submit

\* What the request goes on with, and the call it is about to make.
CallIsStored(r, rec) ==
  /\ at'[r] # "finish"
  /\ loc'[r] = rec \/ loc'[r] = NewRecord
  /\ at'[r] = "sending" => wire[r] = NoCall
  /\ at'[r] = "sending" /\ act'[r] = "complete" => rec.complete
  /\ at'[r] = "sending" /\ act'[r] = "cancel" => rec.cancel
  /\ at'[r] = "sending" /\ act'[r] = "submit" => rec.submit /\ ~row.submit
  /\ at'[r] = "sending" /\ act'[r] = "initiate" =>
       /\ source = "file" /\ ~rec.upload
       /\ row.status = "prepared" /\ rec.status # "prepared"

\* So a write keeps the row, the copies and the calls together.
LEMMA StoringKeepsTheInvariant ==
  ASSUME UploadInvariant, NEW r \in Requests, NEW rec \in Record,
         Stores(r, rec), RowIsBacked(r, rec), CallIsStored(r, rec),
         UploadTypeOK', CopyFits(r)', CallFits(r)'
  PROVE  UploadInvariant'
<1>1. /\ row' = rec /\ source' = source /\ sent' = sent
      /\ multi' = multi /\ stored' = stored /\ object' = object
      /\ posted' = posted /\ visible' = visible
      /\ wire' = wire /\ current' = {r}
  BY DEF Stores, outside
<1>2. /\ loc[r].complete = row.complete
      /\ loc[r].cancel = row.cancel
      /\ loc[r].submit = row.submit
      /\ row.upload => loc[r].upload
      /\ loc[r].status = "prepared" => row.status = "prepared"
  BY DEF UploadInvariant, CopyFits, Stores
<1>3. \A k \in Requests \ {r} : CopyFits(k)' /\ CallFits(k)'
  <2> SUFFICES ASSUME NEW k \in Requests \ {r}
               PROVE  CopyFits(k)' /\ CallFits(k)'
    OBVIOUS
  <2>1. k \notin current'
    BY <1>1
  <2>2. QED
    BY <2>1 DEF UploadInvariant, CopyFits, CallFits, Stores, Alone
<1>4. FlagsFit'
  BY <1>1, <1>2
     DEF UploadInvariant, FlagsFit, Stores, Alone, RowIsBacked, CallIsStored
<1>5. CreatedOnceFits'
  <2>1. row.status # "prepared" => rec.status # "prepared"
    BY <1>2 DEF RowIsBacked
  <2>2. /\ rec.upload => row.status # "prepared"
        /\ loc'[r].upload => row.status # "prepared"
    BY <1>2, FreshRecordsFit
       DEF UploadInvariant, CreatedOnceFits, RowIsBacked, CallIsStored
  <2>3. CASE at'[r] = "sending" /\ act'[r] = "initiate"
    <3>1. /\ source = "file" /\ ~rec.upload
          /\ row.status = "prepared" /\ rec.status # "prepared"
      BY <2>3 DEF CallIsStored
    <3>2. /\ multi = "none"
          /\ \A k \in Requests : ~Creating(k) /\ ~loc[k].upload
      BY <3>1 DEF UploadInvariant, CreatedOnceFits
    <3>3. \A k \in Requests : Creating(k)' => k = r
      BY <1>1, <3>2 DEF Creating, Stores, Alone
    <3>4. \A k \in Requests : ~loc'[k].upload
      BY <3>1, <3>2, FreshRecordsFit DEF CallIsStored, Stores, Alone
    <3>5. QED
      BY <1>1, <3>1, <3>2, <3>3, <3>4 DEF CreatedOnceFits
  <2>4. CASE ~(at'[r] = "sending" /\ act'[r] = "initiate")
    <3>1. \A k \in Requests : Creating(k)' => Creating(k)
      BY <1>1, <2>4 DEF Creating, Stores, Alone
    <3>2. \A k \in Requests : Creating(k)' =>
            (at'[k] = "sending" =>
               at[k] = "sending" \/ wire[k].state = "pending")
      BY <1>1, <2>4 DEF Creating, Stores, Alone, CallIsStored, NoCall
    <3>3. \A k \in Requests : Creating(k) =>
            ~rec.upload /\ \A q \in Requests : ~loc'[q].upload
      BY FreshRecordsFit
         DEF UploadInvariant, CreatedOnceFits, CallIsStored, RowIsBacked,
             Stores, Alone
    <3>4. \A q \in Requests : loc'[q].upload => rec.status # "prepared"
      BY <2>1, <2>2 DEF UploadInvariant, CreatedOnceFits, Stores, Alone
    <3>5. QED
      BY <1>1, <2>1, <2>2, <3>1, <3>2, <3>3, <3>4
         DEF UploadInvariant, CreatedOnceFits
  <2>5. QED
    BY <2>3, <2>4
<1>6. SubmittedOnceFits'
  <2>1. row.submit => rec.submit
    BY <1>2 DEF RowIsBacked
  <2>2. CASE at'[r] = "sending" /\ act'[r] = "submit"
    <3>1. rec.submit /\ ~row.submit
      BY <2>2 DEF CallIsStored
    <3>2. posted = 0 /\ \A k \in Requests : ~Submitting(k)
      BY <3>1 DEF UploadInvariant, UploadTypeOK, SubmittedOnceFits
    <3>3. \A k \in Requests : Submitting(k)' => k = r
      BY <1>1, <3>2 DEF Submitting, Stores, Alone
    <3>4. QED
      BY <1>1, <3>1, <3>2, <3>3 DEF UploadInvariant, SubmittedOnceFits
  <2>3. CASE ~(at'[r] = "sending" /\ act'[r] = "submit")
    <3>1. \A k \in Requests : Submitting(k)' => Submitting(k)
      BY <1>1, <2>3 DEF Submitting, Stores, Alone
    <3>2. \A k \in Requests : Submitting(k)' =>
            (at'[k] = "sending" =>
               at[k] = "sending" \/ wire[k].state = "pending")
      BY <1>1, <2>3 DEF Submitting, Stores, Alone, CallIsStored, NoCall
    <3>3. QED
      BY <1>1, <2>1, <3>1, <3>2 DEF UploadInvariant, SubmittedOnceFits
  <2>4. QED
    BY <2>2, <2>3
<1>7. StoreFits'
  <2>1. /\ loc'[r].status = "staged" => object
        /\ \A p \in Parts : loc'[r].parts[p] = "confirmed" => p \in stored
    BY FreshRecordsFit DEF RowIsBacked, CallIsStored
  <2>2. QED
    BY <1>1, <2>1 DEF UploadInvariant, StoreFits, Stores, Alone, RowIsBacked
<1>8. ClosedFits'
  <2>1. row.status \notin Closed
    BY DEF UploadInvariant, ClosedFits, Stores
  <2>2. rec.status \in Closed =>
          /\ at'[r] = "idle"
          /\ rec.status = "cancelled" => Clean /\ rec.submit = row.submit
          /\ rec.status = "confirmed" => posted > 0
    BY <1>2 DEF UploadInvariant, ClosedFits, Stores, RowIsBacked
  <2>3. rec.status = "cancelled" => Clean'
    <3> SUFFICES ASSUME rec.status = "cancelled"
                 PROVE  Clean'
      OBVIOUS
    <3>1. Clean /\ rec.submit = row.submit /\ at'[r] = "idle"
      BY <2>2 DEF Closed
    <3>2. \A k \in Requests : ~Creating(k)'
      BY <1>1, <3>1 DEF Clean, Creating, Stores, Alone
    <3>3. QED
      BY <1>1, <3>1, <3>2 DEF Clean
  <2>4. \A k \in Requests : at'[k] = "finish" =>
          k \notin current' /\ (loc'[k].status = "confirmed" => posted > 0)
    BY <1>1 DEF UploadInvariant, ClosedFits, Stores, Alone, CallIsStored
  <2>5. QED
    BY <1>1, <2>2, <2>3, <2>4 DEF ClosedFits, Closed
<1>9. QED
  BY <1>3, <1>4, <1>5, <1>6, <1>7, <1>8 DEF UploadInvariant

\* The copy of a request that holds the present revision, and the row.
LEMMA CopiesAgree ==
  ASSUME UploadInvariant, NEW r \in Requests, r \in current, at[r] # "idle"
  PROVE  /\ row \in Record
         /\ loc[r].complete = row.complete
         /\ loc[r].cancel = row.cancel
         /\ loc[r].submit = row.submit
         /\ row.upload => loc[r].upload
         /\ loc[r].complete \/ loc[r].cancel => loc[r].upload
         /\ ~(loc[r].cancel /\ (loc[r].complete \/ loc[r].submit))
BY DEF UploadInvariant, UploadTypeOK, CopyFits, FlagsFit

\* The lease is taken, or renewed: the row becomes the copy.
LEMMA LeasingKeepsTheInvariant ==
  ASSUME UploadInvariant, NEW r \in Requests, at[r] \in {"taking", "object"},
         NEW p \in {"work", "reading"}, p = "work" => at[r] = "taking",
         SaveRow(r, loc[r], TRUE), Goto(r, p),
         UNCHANGED <<source, loc, act, part, wire, outside, sent>>
  PROVE  UploadInvariant'
<1>1. /\ loc[r] \in Record
      /\ loc[r].status \notin Closed
  BY CopiesAreBacked DEF UploadInvariant, CopyFits, Working
<1>2. /\ at'[r] = p
      /\ \A k \in Requests \ {r} : at'[k] = at[k]
      /\ row' = loc[r] /\ r \in current /\ current' = {r} /\ lapsed' \in BOOLEAN
  BY DEF UploadInvariant, UploadTypeOK, SaveRow, Goto
<1>3. Stores(r, loc[r])
  BY <1>2 DEF Stores, Alone
<1>4. RowIsBacked(r, loc[r])
  BY <1>1, <1>2, CopiesAgree, CopiesAreBacked DEF RowIsBacked
<1>5. CallIsStored(r, loc[r])
  BY <1>2 DEF CallIsStored
<1>6. UploadTypeOK'
  BY <1>1, <1>2 DEF UploadInvariant, UploadTypeOK, Goto, outside
<1>7. CopyFits(r)'
  BY <1>1, <1>2 DEF CopyFits
<1>8. CallFits(r)'
  BY <1>2 DEF UploadInvariant, CallFits
<1>9. QED
  BY <1>1, <1>3, <1>4, <1>5, <1>6, <1>7, <1>8, StoringKeepsTheInvariant

LEMMA TakeKeeps ==
  ASSUME UploadInvariant, NEW r \in Requests, Take(r)
  PROVE  UploadInvariant'
BY LeasingKeepsTheInvariant DEF Take

LEMMA RenewForObjectKeeps ==
  ASSUME UploadInvariant, NEW r \in Requests, RenewForObject(r)
  PROVE  UploadInvariant'
BY LeasingKeepsTheInvariant DEF RenewForObject

\* The intent is stored: the call it announces is about to leave.
LEMMA IntendingKeepsTheInvariant ==
  ASSUME UploadInvariant, NEW r \in Requests, at[r] = "work",
         NEW rec \in Record, Intend(r, rec), RowIsBacked(r, rec),
         rec.status \notin Closed,
         KindOf[act[r]] \in Kinds,
         act[r] = "complete" => rec.complete,
         act[r] = "cancel" => rec.cancel,
         act[r] = "submit" => rec.submit /\ ~row.submit,
         act[r] = "initiate" =>
           /\ source = "file" /\ ~rec.upload
           /\ row.status = "prepared" /\ rec.status # "prepared"
  PROVE  UploadInvariant'
<1>1. /\ at'[r] = "sending" /\ loc'[r] = rec
      /\ \A k \in Requests \ {r} : at'[k] = at[k] /\ loc'[k] = loc[k]
      /\ row' = rec /\ r \in current /\ current' = {r} /\ lapsed' \in BOOLEAN
      /\ UNCHANGED <<source, act, part, wire, outside, sent>>
  BY DEF UploadInvariant, UploadTypeOK, Intend, SaveRow, Keep, Goto
<1>2. wire[r] = NoCall
  BY DEF UploadInvariant, CallFits
<1>3. Stores(r, rec)
  BY <1>1 DEF Stores, Alone
<1>4. CallIsStored(r, rec)
  BY <1>1, <1>2 DEF CallIsStored
<1>5. UploadTypeOK'
  BY <1>1 DEF UploadInvariant, UploadTypeOK, Intend, Keep, Goto, outside
<1>6. CopyFits(r)'
  BY <1>1 DEF CopyFits
<1>7. CallFits(r)'
  BY <1>1, <1>2 DEF CallFits
<1>8. QED
  BY <1>3, <1>4, <1>5, <1>6, <1>7, StoringKeepsTheInvariant

LEMMA InitiateKeeps ==
  ASSUME UploadInvariant, NEW r \in Requests, Initiate(r)
  PROVE  UploadInvariant'
<1> DEFINE rec == [loc[r] EXCEPT !.status = "staging"]
<1>1. at[r] = "work" /\ r \in current /\ act[r] = "initiate"
      /\ KindOf[act[r]] \in Kinds
  BY CallsOfCommands DEF Initiate, Intend, SaveRow, Kinds
<1>2. /\ rec \in Record
      /\ rec.upload = loc[r].upload /\ rec.complete = loc[r].complete
      /\ rec.cancel = loc[r].cancel /\ rec.submit = loc[r].submit
      /\ rec.parts = loc[r].parts /\ rec.status = "staging"
  BY CopiesAreBacked DEF Record, UploadStatuses
<1>3. Intend(r, rec)
  BY DEF Initiate
<1> HIDE DEF rec
<1>4. RowIsBacked(r, rec)
  BY <1>1, <1>2, CopiesAreBacked, CopiesAgree DEF RowIsBacked, Closed
<1>5. /\ source = "file" /\ ~rec.upload
      /\ row.status = "prepared" /\ rec.status # "prepared"
  BY <1>1, <1>2 DEF UploadInvariant, CopyFits, Initiate, Staging
<1>6. QED
  BY <1>1, <1>2, <1>3, <1>4, <1>5, IntendingKeepsTheInvariant DEF Closed

LEMMA SendPartKeeps ==
  ASSUME UploadInvariant, NEW r \in Requests, SendPart(r)
  PROVE  UploadInvariant'
<1> DEFINE rec == [loc[r] EXCEPT !.parts[part[r]] = "in-flight"]
<1>1. at[r] = "work" /\ r \in current /\ act[r] = "part"
      /\ KindOf[act[r]] \in Kinds
  BY CallsOfCommands DEF SendPart, Intend, SaveRow, Kinds
<1>2. /\ rec \in Record
      /\ rec.upload = loc[r].upload /\ rec.complete = loc[r].complete
      /\ rec.cancel = loc[r].cancel /\ rec.submit = loc[r].submit
      /\ rec.status = loc[r].status
      /\ \A p \in Parts :
           rec.parts[p] = "confirmed" => loc[r].parts[p] = "confirmed"
  BY CopiesAreBacked DEF Record
<1>3. Intend(r, rec)
  BY DEF SendPart
<1> HIDE DEF rec
<1>4. rec.status \notin Closed
  BY <1>1, <1>2 DEF UploadInvariant, CopyFits, Working
<1>5. RowIsBacked(r, rec)
  BY <1>1, <1>2, <1>4, CopiesAreBacked, CopiesAgree DEF RowIsBacked
<1>6. QED
  BY <1>1, <1>2, <1>3, <1>4, <1>5, IntendingKeepsTheInvariant

LEMMA CompleteKeeps ==
  ASSUME UploadInvariant, NEW r \in Requests, Complete(r)
  PROVE  UploadInvariant'
<1> DEFINE rec == [loc[r] EXCEPT !.complete = TRUE]
<1>1. at[r] = "work" /\ r \in current /\ act[r] = "complete"
      /\ KindOf[act[r]] \in Kinds
  BY CallsOfCommands DEF Complete, Intend, SaveRow, Kinds
<1>2. /\ rec \in Record
      /\ rec.upload = loc[r].upload /\ rec.complete
      /\ rec.cancel = loc[r].cancel /\ rec.submit = loc[r].submit
      /\ rec.parts = loc[r].parts /\ rec.status = loc[r].status
  BY CopiesAreBacked DEF Record
<1>3. Intend(r, rec) /\ ~loc[r].cancel /\ loc[r].upload
  BY DEF Complete, Staging
<1> HIDE DEF rec
<1>4. rec.status \notin Closed
  BY <1>1, <1>2 DEF UploadInvariant, CopyFits, Working
<1>5. RowIsBacked(r, rec)
  BY <1>1, <1>2, <1>3, <1>4, CopiesAreBacked, CopiesAgree DEF RowIsBacked
<1>6. QED
  BY <1>1, <1>2, <1>3, <1>4, <1>5, IntendingKeepsTheInvariant

LEMMA SubmitKeeps ==
  ASSUME UploadInvariant, NEW r \in Requests, Submit(r)
  PROVE  UploadInvariant'
<1> DEFINE rec == [loc[r] EXCEPT !.submit = TRUE, !.status = "submitting"]
<1>1. at[r] = "work" /\ r \in current /\ act[r] = "submit"
      /\ KindOf[act[r]] \in Kinds
  BY CallsOfCommands DEF Submit, Intend, SaveRow, Kinds
<1>2. /\ rec \in Record
      /\ rec.upload = loc[r].upload /\ rec.complete = loc[r].complete
      /\ rec.cancel = loc[r].cancel /\ rec.submit
      /\ rec.parts = loc[r].parts /\ rec.status = "submitting"
  BY CopiesAreBacked DEF Record, UploadStatuses
<1>3. Intend(r, rec) /\ ~loc[r].cancel /\ ~loc[r].submit
  BY DEF Submit
<1> HIDE DEF rec
<1>4. RowIsBacked(r, rec)
  BY <1>1, <1>2, <1>3, CopiesAreBacked, CopiesAgree DEF RowIsBacked, Closed
<1>5. ~row.submit
  BY <1>1, <1>3, CopiesAgree
<1>6. QED
  BY <1>1, <1>2, <1>3, <1>4, <1>5, IntendingKeepsTheInvariant DEF Closed

LEMMA AbortKeeps ==
  ASSUME UploadInvariant, NEW r \in Requests, Abort(r)
  PROVE  UploadInvariant'
<1> DEFINE rec == [loc[r] EXCEPT !.cancel = TRUE, !.status = "needs-review"]
<1>1. at[r] = "work" /\ r \in current /\ act[r] = "cancel"
      /\ KindOf[act[r]] \in Kinds
  BY CallsOfCommands DEF Abort, Intend, SaveRow, Kinds
<1>2. /\ rec \in Record
      /\ rec.upload = loc[r].upload /\ rec.complete = loc[r].complete
      /\ rec.cancel /\ rec.submit = loc[r].submit
      /\ rec.parts = loc[r].parts /\ rec.status = "needs-review"
  BY CopiesAreBacked DEF Record, UploadStatuses
<1>3. Intend(r, rec) /\ ~loc[r].complete /\ loc[r].upload /\ ~loc[r].submit
  BY DEF Abort, Preserved
<1> HIDE DEF rec
<1>4. RowIsBacked(r, rec)
  BY <1>1, <1>2, <1>3, CopiesAreBacked, CopiesAgree DEF RowIsBacked, Closed
<1>5. QED
  BY <1>1, <1>2, <1>3, <1>4, IntendingKeepsTheInvariant DEF Closed

LEMMA DoneKeeps ==
  ASSUME UploadInvariant, NEW r \in Requests, Done(r)
  PROVE  UploadInvariant'
<1>1. UploadTypeOK /\ Leave(r) /\ at[r] \in {"finish", "failing"}
  BY DEF UploadInvariant, Done
<1>2. PICK rec \in {loc[r], [loc[r] EXCEPT !.busy = "none"]} :
        SaveRow(r, rec, FALSE) /\ (at[r] = "failing" => rec = loc[r])
  BY DEF Done
<1>3. /\ rec \in Record
      /\ rec.upload = loc[r].upload /\ rec.complete = loc[r].complete
      /\ rec.cancel = loc[r].cancel /\ rec.submit = loc[r].submit
      /\ rec.parts = loc[r].parts /\ rec.status = loc[r].status
  BY CopiesAreBacked DEF Record, Actions
<1>4. /\ row' = rec /\ r \in current /\ current' = {r} /\ lapsed' \in BOOLEAN
      /\ UNCHANGED <<source, wire, outside, sent>>
  BY <1>1, <1>2 DEF SaveRow, UploadTypeOK, Done
<1>5. Stores(r, rec)
  BY <1>1, <1>4, LeavingIsIdle DEF Stores, Alone
<1>6. RowIsBacked(r, rec)
  <2>1. rec.status \in Closed => at[r] = "finish"
    BY <1>1, <1>3 DEF UploadInvariant, CopyFits
  <2>2. at'[r] = "idle"
    BY <1>1, LeavingIsIdle
  <2>3. QED
    BY <1>1, <1>3, <1>4, <2>1, <2>2, CopiesAreBacked, CopiesAgree
       DEF RowIsBacked
<1>7. CallIsStored(r, rec)
  BY <1>1, LeavingIsIdle DEF CallIsStored
<1>8. UploadTypeOK'
  BY <1>1, <1>3, <1>4, LeavingIsIdle DEF UploadTypeOK, outside
<1>9. CopyFits(r)' /\ CallFits(r)'
  BY <1>1, LeavingIsIdle DEF CopyFits, CallFits, Working
<1>10. QED
  BY <1>3, <1>5, <1>6, <1>7, <1>8, <1>9, StoringKeepsTheInvariant

-----------------------------------------------------------------------------
(* Video upload: the call leaves, and arrives *)

\* What leaves is what the stored flags announce.
LEMMA SendCallKeeps ==
  ASSUME UploadInvariant, NEW r \in Requests, SendCall(r)
  PROVE  UploadInvariant'
<1> DEFINE kind == KindOf[act[r]]
<1>1. /\ kind \in Kinds /\ part[r] \in Parts /\ act[r] \in Actions
      /\ at[r] = "sending"
  BY DEF UploadInvariant, UploadTypeOK, CallFits, SendCall
<1>2. /\ kind = "create" => act[r] = "initiate"
      /\ kind = "complete" => act[r] = "complete"
      /\ kind = "abort" => act[r] = "cancel"
      /\ kind = "submit" => act[r] = "submit"
  BY <1>1 DEF KindOf, Actions, Kinds
<1>3. /\ at'[r] = "called"
      /\ wire'[r] = [kind |-> kind, part |-> part[r], state |-> "pending"]
      /\ \A k \in Requests \ {r} : at'[k] = at[k] /\ wire'[k] = wire[k]
      /\ UNCHANGED <<source, row, lapsed, current, loc, act, part, outside>>
      /\ sent' = sent \cup {kind}
  BY DEF UploadInvariant, UploadTypeOK, SendCall, Goto
<1> HIDE DEF kind
<1>4. UploadTypeOK'
  <2>1. wire' \in [Requests -> {NoCall} \cup
          [kind : Kinds, part : Parts, state : {"pending", "done", "refused"}]]
    BY <1>1 DEF UploadInvariant, UploadTypeOK, SendCall, kind
  <2>2. sent' \subseteq Kinds
    BY <1>1, <1>3 DEF UploadInvariant, UploadTypeOK
  <2>3. QED
    BY <1>3, <2>1, <2>2
       DEF UploadInvariant, UploadTypeOK, SendCall, Goto, outside
<1>5. \A k \in Requests : CopyFits(k)'
  BY <1>1, <1>3 DEF UploadInvariant, CopyFits, Working
<1>6. \A k \in Requests : CallFits(k)'
  <2>1. CallFits(r)'
    BY <1>1, <1>3 DEF UploadInvariant, CallFits, kind
  <2>2. \A k \in Requests \ {r} : CallFits(k)'
    BY <1>3 DEF UploadInvariant, CallFits
  <2>3. QED
    BY <2>1, <2>2
<1>7. FlagsFit'
  BY <1>1, <1>2, <1>3 DEF UploadInvariant, FlagsFit
<1>8. \A k \in Requests : Creating(k)' =>
        Creating(k) /\ (k = r => at[r] = "sending")
  BY <1>1, <1>2, <1>3 DEF Creating
<1>9. \A k \in Requests : Submitting(k)' =>
        Submitting(k) /\ (k = r => at[r] = "sending")
  BY <1>1, <1>2, <1>3 DEF Submitting
<1>10. CreatedOnceFits'
  BY <1>3, <1>8 DEF UploadInvariant, CreatedOnceFits, outside
<1>11. SubmittedOnceFits'
  BY <1>3, <1>9 DEF UploadInvariant, SubmittedOnceFits, outside
<1>12. StoreFits'
  BY <1>3 DEF UploadInvariant, StoreFits, outside
<1>13. ClosedFits'
  <2>1. Clean => Clean'
    BY <1>3, <1>8 DEF Clean, outside
  <2>2. row.status \notin Closed \/ r \notin current
    BY <1>1 DEF UploadInvariant, ClosedFits
  <2>3. current \subseteq Requests
    BY DEF UploadInvariant, UploadTypeOK
  <2>4. QED
    BY <1>3, <2>1, <2>2, <2>3 DEF UploadInvariant, ClosedFits, outside
<1>14. QED
  BY <1>4, <1>5, <1>6, <1>7, <1>10, <1>11, <1>12, <1>13 DEF UploadInvariant

\* What the arrival of a call may do at the store and at the platform.
CallLands(r, outcome) ==
  /\ wire[r].state = "pending"
  /\ outcome \in {"done", "refused"}
  /\ Resolve(r, outcome)
  /\ UNCHANGED <<source, row, lapsed, current, memory, visible, sent>>
  /\ multi' \in {"none", "open", "completed", "aborted"}
  /\ stored \subseteq stored' /\ stored' \subseteq Parts
  /\ object' \in BOOLEAN
  /\ object => object'
  /\ object' => multi' = "completed"
  /\ posted' \in Nat
  /\ posted' = posted \/ (wire[r].kind = "submit" /\ posted' > 0)
  /\ multi' = "open" => multi = "open" \/ wire[r].kind = "create"
  /\ multi' # "none" => multi # "none" \/ wire[r].kind = "create"
  /\ wire[r].kind = "part" /\ outcome = "done" => wire[r].part \in stored'

\* So an arrival bears out what was announced, in time or not.
LEMMA LandingKeepsTheInvariant ==
  ASSUME UploadInvariant, NEW r \in Requests, NEW outcome, CallLands(r, outcome)
  PROVE  UploadInvariant'
<1>1. /\ row' = row /\ source' = source /\ sent' = sent
      /\ current' = current /\ visible' = visible
      /\ loc' = loc /\ at' = at /\ act' = act /\ part' = part
  BY DEF CallLands, memory
<1>2. /\ wire[r].kind \in Kinds /\ wire[r].part \in Parts
      /\ wire[r].state = "pending" /\ wire[r] # NoCall
  BY CallsAreTyped DEF UploadInvariant, CallLands, NoCall
<1>3. at[r] # "sending"
  BY <1>2 DEF UploadInvariant, CallFits
<1>4. /\ \A k \in Requests \ {r} : wire'[k] = wire[k]
      /\ \/ wire'[r] = NoCall /\ at[r] # "called"
         \/ /\ wire'[r].kind = wire[r].kind /\ wire'[r].part = wire[r].part
            /\ wire'[r].state = outcome
  BY <1>2 DEF UploadInvariant, UploadTypeOK, CallLands, Resolve
<1>5. UploadTypeOK'
  <2>1. wire' \in [Requests -> {NoCall} \cup
          [kind : Kinds, part : Parts, state : {"pending", "done", "refused"}]]
    BY <1>2 DEF UploadInvariant, UploadTypeOK, CallLands, Resolve
  <2>2. QED
    BY <2>1 DEF UploadInvariant, UploadTypeOK, CallLands, memory
<1>6. \A k \in Requests : CopyFits(k)'
  BY <1>1 DEF UploadInvariant, CopyFits
<1>7. \A k \in Requests : CallFits(k)'
  BY <1>1, <1>2, <1>4 DEF UploadInvariant, CallFits, NoCall
<1>8. FlagsFit'
  BY <1>1 DEF UploadInvariant, FlagsFit
<1>9. \A k \in Requests :
        /\ Creating(k)' => Creating(k)
        /\ Submitting(k)' => Submitting(k)
  BY <1>1, <1>4 DEF Creating, Submitting, NoCall
<1>10. /\ wire[r].kind = "create" => Creating(r)
       /\ wire[r].kind = "submit" => Submitting(r)
  BY DEF Creating, Submitting
<1>11. at'[r] # "sending" /\ wire'[r].state # "pending"
  BY <1>1, <1>3, <1>4 DEF CallLands, NoCall
<1>12. CreatedOnceFits'
  <2>1. multi' # "none" => source = "file" /\ row.status # "prepared"
    BY <1>10 DEF UploadInvariant, CreatedOnceFits, CallLands
  <2>2. \A k \in Requests : Creating(k)' =>
          (at'[k] = "sending" \/ wire'[k].state = "pending" => multi' = "none")
    <3> SUFFICES ASSUME NEW k \in Requests, Creating(k)',
                        at'[k] = "sending" \/ wire'[k].state = "pending"
                 PROVE  multi' = "none"
      OBVIOUS
    <3>1. k # r /\ Creating(k)
      BY <1>9, <1>11
    <3>2. multi = "none"
      BY <1>1, <1>4, <3>1 DEF UploadInvariant, CreatedOnceFits
    <3>3. wire[r].kind # "create"
      BY <1>10, <3>1 DEF UploadInvariant, CreatedOnceFits
    <3>4. QED
      BY <3>2, <3>3 DEF CallLands
  <2>3. QED
    BY <1>1, <1>9, <2>1, <2>2 DEF UploadInvariant, CreatedOnceFits
<1>13. SubmittedOnceFits'
  <2>1. posted' > 0 => row.submit
    BY <1>10 DEF UploadInvariant, SubmittedOnceFits, CallLands
  <2>2. \A k \in Requests : Submitting(k)' =>
          (at'[k] = "sending" \/ wire'[k].state = "pending" => posted' = 0)
    <3> SUFFICES ASSUME NEW k \in Requests, Submitting(k)',
                        at'[k] = "sending" \/ wire'[k].state = "pending"
                 PROVE  posted' = 0
      OBVIOUS
    <3>1. k # r /\ Submitting(k)
      BY <1>9, <1>11
    <3>2. posted = 0
      BY <1>1, <1>4, <3>1 DEF UploadInvariant, SubmittedOnceFits
    <3>3. wire[r].kind # "submit"
      BY <1>10, <3>1 DEF UploadInvariant, SubmittedOnceFits
    <3>4. QED
      BY <3>2, <3>3 DEF CallLands
  <2>3. visible => posted' > 0
    BY DEF UploadInvariant, SubmittedOnceFits, CallLands
  <2>4. QED
    BY <1>1, <1>9, <2>1, <2>2, <2>3 DEF UploadInvariant, SubmittedOnceFits
<1>14. StoreFits'
  <2>1. \A k \in Requests : wire'[k].kind = "part" /\ wire'[k].state = "done" =>
          wire'[k].part \in stored'
    BY <1>4 DEF UploadInvariant, StoreFits, CallLands, NoCall
  <2>2. QED
    BY <1>1, <2>1 DEF UploadInvariant, StoreFits, CallLands
<1>15. ClosedFits'
  <2>1. Clean => Clean'
    BY <1>1, <1>9, <1>10 DEF Clean, CallLands
  <2>2. posted > 0 => posted' > 0
    BY DEF CallLands
  <2>3. QED
    BY <1>1, <2>1, <2>2 DEF UploadInvariant, ClosedFits
<1>16. QED
  BY <1>5, <1>6, <1>7, <1>8, <1>12, <1>13, <1>14, <1>15 DEF UploadInvariant

LEMMA StoreTakesKeeps ==
  ASSUME UploadInvariant, NEW r \in Requests, StoreTakes(r)
  PROVE  UploadInvariant'
<1>1. wire[r].kind \in Kinds /\ wire[r].part \in Parts
  BY CallsAreTyped DEF UploadInvariant, StoreTakes
<1>2. wire[r].kind = "create" => multi = "none"
  BY DEF UploadInvariant, CreatedOnceFits, Creating, StoreTakes
<1>3. CallLands(r, "done")
  <2>1. /\ multi' \in {"none", "open", "completed", "aborted"}
        /\ multi' = "open" => multi = "open" \/ wire[r].kind = "create"
        /\ multi' # "none" => multi # "none" \/ wire[r].kind = "create"
    BY DEF UploadInvariant, UploadTypeOK, StoreTakes
  <2>2. /\ stored \subseteq stored' /\ stored' \subseteq Parts
        /\ wire[r].kind = "part" => wire[r].part \in stored'
    BY <1>1 DEF UploadInvariant, UploadTypeOK, StoreTakes
  <2>3. /\ object' \in BOOLEAN
        /\ object => object'
        /\ object' => multi' = "completed"
    <3>1. object \in BOOLEAN /\ (object => multi = "completed")
      BY DEF UploadInvariant, UploadTypeOK, StoreFits
    <3>2. \/ object' = object /\ multi' = multi
          \/ object' = object /\ wire[r].kind = "create"
          \/ object' = object /\ multi = "open"
          \/ object' = TRUE /\ multi' = "completed"
      BY DEF StoreTakes
    <3>3. wire[r].kind = "create" \/ multi = "open" => ~object
      BY <1>2, <3>1
    <3>4. CASE object' = object
      <4>1. object' => object
        BY <3>4
      <4>2. QED
        BY <3>1, <3>2, <3>3, <3>4, <4>1, Zenon
    <3>5. CASE object' = TRUE /\ multi' = "completed"
      BY <3>5
    <3>6. QED
      BY <3>2, <3>4, <3>5
  <2>4. /\ wire[r].state = "pending" /\ Resolve(r, "done")
        /\ UNCHANGED <<source, row, lapsed, current, memory, visible, sent>>
        /\ posted' \in Nat /\ posted' = posted
    BY DEF UploadInvariant, UploadTypeOK, StoreTakes
  <2>5. QED
    BY <2>1, <2>2, <2>3, <2>4 DEF CallLands
<1>4. QED
  BY <1>3, LandingKeepsTheInvariant

LEMMA PlatformTakesKeeps ==
  ASSUME UploadInvariant, NEW r \in Requests, PlatformTakes(r)
  PROVE  UploadInvariant'
<1>1. CallLands(r, "done")
  BY DEF UploadInvariant, UploadTypeOK, StoreFits, PlatformTakes, CallLands
<1>2. QED
  BY <1>1, LandingKeepsTheInvariant

LEMMA NotTakenKeeps ==
  ASSUME UploadInvariant, NEW r \in Requests, NotTaken(r)
  PROVE  UploadInvariant'
<1>1. CallLands(r, "refused")
  BY DEF UploadInvariant, UploadTypeOK, StoreFits, NotTaken, CallLands, outside
<1>2. QED
  BY <1>1, LandingKeepsTheInvariant

LEMMA SurroundingsKeep ==
  ASSUME UploadInvariant, Appears \/ Lapse \/ UNCHANGED uploadVars
  PROVE  UploadInvariant'
<1>1. /\ source' = source /\ row' = row /\ current' = current
      /\ loc' = loc /\ act' = act /\ part' = part /\ at' = at
      /\ wire' = wire /\ multi' = multi /\ stored' = stored
      /\ object' = object /\ posted' = posted /\ sent' = sent
      /\ lapsed' \in BOOLEAN /\ visible' \in BOOLEAN
      /\ visible' => posted > 0
  <2>1. visible \in BOOLEAN /\ lapsed \in BOOLEAN /\ (visible => posted > 0)
    BY DEF UploadInvariant, UploadTypeOK, SubmittedOnceFits
  <2>2. CASE Appears
    BY <2>1, <2>2 DEF Appears, memory
  <2>3. CASE Lapse
    BY <2>1, <2>3 DEF Lapse, memory, outside
  <2>4. CASE UNCHANGED uploadVars
    BY <2>1, <2>4 DEF uploadVars, memory, outside
  <2>5. QED
    BY <2>2, <2>3, <2>4
<1>2. UploadTypeOK'
  BY <1>1 DEF UploadInvariant, UploadTypeOK
<1>3. \A r \in Requests : CopyFits(r)' /\ CallFits(r)'
  BY <1>1 DEF UploadInvariant, CopyFits, CallFits
<1>4. FlagsFit' /\ StoreFits'
  BY <1>1 DEF UploadInvariant, FlagsFit, StoreFits
<1>5. CreatedOnceFits' /\ SubmittedOnceFits'
  BY <1>1 DEF UploadInvariant, CreatedOnceFits, SubmittedOnceFits, Creating,
     Submitting
<1>6. ClosedFits'
  BY <1>1 DEF UploadInvariant, ClosedFits, Clean, Creating
<1>7. QED
  BY <1>2, <1>3, <1>4, <1>5, <1>6 DEF UploadInvariant

-----------------------------------------------------------------------------
(* Video upload: theorems *)

LEMMA UploadStarts == UploadInit => UploadInvariant
<1> SUFFICES ASSUME UploadInit
             PROVE  UploadInvariant
  OBVIOUS
<1> USE DEF UploadInit
<1>1. UploadTypeOK
  BY FreshRecordsFit, FilesHaveParts DEF UploadTypeOK, Actions
<1>2. \A r \in Requests : CopyFits(r) /\ CallFits(r)
  BY DEF CopyFits, CallFits, Working
<1>3. FlagsFit /\ CreatedOnceFits /\ SubmittedOnceFits
  BY FreshRecordsFit
     DEF FlagsFit, CreatedOnceFits, SubmittedOnceFits, Creating, Submitting,
         NoCall
<1>4. StoreFits /\ ClosedFits
  BY FreshRecordsFit DEF StoreFits, ClosedFits, Closed, NoCall
<1>5. QED
  BY <1>1, <1>2, <1>3, <1>4 DEF UploadInvariant

\* Every step of a request, the store, the platform and the clock.
LEMMA UploadSteps ==
  ASSUME UploadInvariant, [UploadNext]_uploadVars
  PROVE  UploadInvariant'
<1>1. ASSUME NEW r \in Requests, NEW a \in Actions, NEW p \in Parts,
             Read(r, a, p)
      PROVE  UploadInvariant'
  BY <1>1, ReadKeeps
<1>2. ASSUME NEW r \in Requests,
             \/ Take(r) \/ Conflict(r) \/ Refuse(r)
             \/ Initiate(r) \/ SendPart(r) \/ Complete(r) \/ Submit(r)
             \/ Abort(r) \/ CancelHere(r) \/ VerifyVideo(r) \/ Reconcile(r)
      PROVE  UploadInvariant'
  BY <1>2, TakeKeeps, ConflictKeeps, RefuseKeeps, InitiateKeeps, SendPartKeeps,
     CompleteKeeps, SubmitKeeps, AbortKeeps, CancelHereKeeps, VerifyVideoKeeps,
     ReconcileKeeps
<1>3. ASSUME NEW r \in Requests,
             \/ SendCall(r) \/ Answered(r) \/ CallFails(r)
             \/ RenewForObject(r) \/ ReadObject(r) \/ CheckRemoval(r)
             \/ Done(r) \/ Crash(r)
             \/ StoreTakes(r) \/ PlatformTakes(r) \/ NotTaken(r)
      PROVE  UploadInvariant'
  BY <1>3, SendCallKeeps, AnsweredKeeps, CallFailsKeeps, RenewForObjectKeeps,
     ReadObjectKeeps, CheckRemovalKeeps, DoneKeeps, CrashKeeps, StoreTakesKeeps,
     PlatformTakesKeeps, NotTakenKeeps
<1>4. CASE Appears \/ Lapse \/ UNCHANGED uploadVars
  BY <1>4, SurroundingsKeep
<1>5. QED
  BY <1>1, <1>2, <1>3, <1>4 DEF UploadNext, Step

\* The row, the copies of the requests and the calls under way fit together at
\* every moment, for any number of requests and of parts.
THEOREM UploadKeepsItsInvariant == UploadSpec => []UploadInvariant
<1>1. UploadInvariant /\ [UploadNext]_uploadVars => UploadInvariant'
  BY UploadSteps
<1>2. QED
  BY <1>1, UploadStarts, PTL DEF UploadSpec

\* The row, its copies and the calls only ever hold states of their kind.
THEOREM UploadTypeCorrect == UploadSpec => []UploadTypeOK
<1>1. UploadInvariant => UploadTypeOK
  BY DEF UploadInvariant
<1>2. QED
  BY <1>1, UploadKeepsItsInvariant, PTL

\* The calls that assemble and that remove an upload never both leave: each is
\* announced by a flag of the row, and no copy that may be stored raises one of
\* them over the other.
THEOREM AssembledOrRemoved == UploadSpec => []OneFate
<1>1. UploadInvariant => OneFate
  BY DEF UploadInvariant, FlagsFit, OneFate
<1>2. QED
  BY <1>1, UploadKeepsItsInvariant, PTL

\* A cancelled task has submitted nothing and leaves nothing open at the store,
\* also when a creation was still under way while it was cancelled.
THEOREM CancellationIsClean == UploadSpec => []CancelledIsClean
<1>1. UploadInvariant => CancelledIsClean
  <2> SUFFICES ASSUME UploadInvariant, row.status = "cancelled"
               PROVE  /\ "submit" \notin sent
                      /\ multi # "open"
                      /\ \A r \in Requests : wire[r].kind # "create"
    BY DEF CancelledIsClean
  <2>1. Clean
    BY DEF UploadInvariant, ClosedFits
  <2>2. QED
    BY <2>1 DEF UploadInvariant, FlagsFit, Clean, Creating
<1>2. QED
  BY <1>1, UploadKeepsItsInvariant, PTL

\* A staged task has its object, a confirmed one its video, and a confirmed part
\* is at the store, whichever request wrote the row last.
THEOREM TheRecordIsTrue == UploadSpec => []ClaimsAreTrue
<1>1. UploadInvariant => ClaimsAreTrue
  BY DEF UploadInvariant, StoreFits, ClosedFits, ClaimsAreTrue
<1>2. QED
  BY <1>1, UploadKeepsItsInvariant, PTL

-----------------------------------------------------------------------------
(* Video upload: the promise of WriteAhead *)

VideoReceipt ==
  IF row.status = "confirmed" THEN "settled"
  ELSE IF row.submit THEN "intent" ELSE "clear"

SubmitPending(r) == wire[r].kind = "submit" /\ wire[r].state = "pending"
Underway == \E r \in Requests : SubmitPending(r)

\* The refinement mapping, said with one receipt, one call and one video.
SubmissionStep ==
  \/ /\ VideoReceipt' = VideoReceipt
     /\ Underway' = Underway /\ (posted' > 0) = (posted > 0)
  \/ /\ VideoReceipt = "clear" /\ VideoReceipt' = "intent"
     /\ Underway' = Underway /\ (posted' > 0) = (posted > 0)
  \/ /\ VideoReceipt' = "settled"
     /\ Underway' = Underway /\ (posted' > 0) = (posted > 0)
  \/ /\ VideoReceipt = "intent" /\ VideoReceipt' = "intent"
     /\ ~Underway /\ Underway' /\ ~(posted > 0) /\ ~(posted' > 0)
  \/ /\ VideoReceipt' = VideoReceipt
     /\ Underway /\ ~Underway' /\ posted' > 0
  \/ /\ VideoReceipt' = VideoReceipt
     /\ Underway /\ ~Underway' /\ (posted' > 0) = (posted > 0)

\* Each of these is a step of WriteAhead, or changes none of its variables.
LEMMA SubmissionStepsMap ==
  ASSUME SubmissionStep
  PROVE  [Submission!Next]_(Submission!vars)
<1> DEFINE R == [w \in {"video"} |-> VideoReceipt]
           L == {w \in {"video"} : Underway}
           D == {w \in {"video"} : posted > 0}
<1>1. /\ R["video"] = VideoReceipt
      /\ \A s : VideoReceipt' = s => R' = [R EXCEPT !["video"] = s]
      /\ VideoReceipt' = VideoReceipt => R' = R
  OBVIOUS
<1>2. /\ Underway' = Underway => L' = L
      /\ (posted' > 0) = (posted > 0) => D' = D
      /\ ~Underway => "video" \notin L /\ L' \subseteq {"video"}
      /\ Underway <=> "video" \in L
      /\ ~Underway /\ Underway' => L' = L \cup {"video"}
      /\ Underway /\ ~Underway' => L' = L \ {"video"}
      /\ ~(posted > 0) => "video" \notin D
      /\ posted' > 0 => D' = D \cup {"video"}
  OBVIOUS
<1> HIDE DEF R, L, D
<1>3. \/ R' = R /\ L' = L /\ D' = D
      \/ /\ R["video"] = "clear" /\ R' = [R EXCEPT !["video"] = "intent"]
         /\ L' = L /\ D' = D
      \/ R' = [R EXCEPT !["video"] = "settled"] /\ L' = L /\ D' = D
      \/ /\ R["video"] = "intent" /\ R' = R
         /\ "video" \notin L \cup D /\ L' = L \cup {"video"} /\ D' = D
      \/ /\ R' = R /\ "video" \in L
         /\ L' = L \ {"video"} /\ D' = D \cup {"video"}
      \/ /\ R' = R /\ "video" \in L
         /\ L' = L \ {"video"} /\ D' = D
  BY <1>1, <1>2 DEF SubmissionStep
<1>4. QED
  BY <1>3
     DEF R, L, D, VideoReceipt, Underway, SubmitPending, Submission!Next,
         Submission!vars, Submission!Intend, Submission!Dispatch,
         Submission!Land, Submission!Vanish, Submission!Settle

\* A new task has announced no submission.
LEMMA SubmissionStarts ==
  ASSUME UploadInit
  PROVE  Submission!Init
BY FreshRecordsFit DEF UploadInit, Submission!Init, NoCall

\* A row that is written keeps the receipt, stores the intent, or settles it.
LEMMA WritesMap ==
  ASSUME UploadInvariant, NEW r \in Requests, NEW rec \in Record,
         r \in current, at[r] # "idle", row' = rec,
         wire' = wire, posted' = posted,
         rec.submit = loc[r].submit \/ (rec.submit /\ rec.status # "confirmed")
  PROVE  SubmissionStep
<1>1. loc[r].submit = row.submit /\ row.status # "confirmed"
  BY DEF UploadInvariant, CopyFits, ClosedFits, Closed
<1>2. row.submit \in BOOLEAN /\ rec.submit \in BOOLEAN
  BY DEF UploadInvariant, UploadTypeOK, Record
<1>3. Underway' = Underway /\ (posted' > 0) = (posted > 0)
  BY DEF Underway, SubmitPending
<1>4. \/ VideoReceipt' = VideoReceipt
      \/ VideoReceipt = "clear" /\ VideoReceipt' = "intent"
      \/ VideoReceipt' = "settled"
  BY <1>1, <1>2 DEF VideoReceipt
<1>5. QED
  BY <1>3, <1>4 DEF SubmissionStep

\* Calls other than the submission are none of its affair.
LEMMA CallsMap ==
  ASSUME row' = row, posted' = posted,
         \A r \in Requests : SubmitPending(r)' = SubmitPending(r)
  PROVE  SubmissionStep
<1>1. Underway' = Underway
  BY DEF Underway
<1>2. QED
  BY <1>1 DEF SubmissionStep, VideoReceipt

\* What a request only remembers is no step of the submission.
LEMMA RequestsMap ==
  ASSUME UploadInvariant, NEW r \in Requests,
         \/ \E a \in Actions, p \in Parts : Read(r, a, p)
         \/ Conflict(r) \/ Refuse(r) \/ CancelHere(r) \/ VerifyVideo(r)
         \/ Reconcile(r) \/ Answered(r) \/ CallFails(r) \/ ReadObject(r)
         \/ CheckRemoval(r) \/ Crash(r) \/ StoreTakes(r)
  PROVE  SubmissionStep
<1>1. row' = row /\ posted' = posted
  BY DEF Read, Conflict, Refuse, CancelHere, VerifyVideo, Reconcile, Answered,
     CallFails, ReadObject, CheckRemoval, Crash, StoreTakes, outside
<1>2. /\ wire \in [Requests -> {NoCall} \cup
           [kind : Kinds, part : Parts, state : {"pending", "done", "refused"}]]
      /\ \/ wire' = wire
         \/ /\ wire[r].state # "pending"
            /\ wire' = [wire EXCEPT ![r] = NoCall]
         \/ wire[r].kind # "submit" /\ Resolve(r, "done")
  <2>1. wire \in [Requests -> {NoCall} \cup
           [kind : Kinds, part : Parts, state : {"pending", "done", "refused"}]]
    BY DEF UploadInvariant, UploadTypeOK
  <2>2. CASE CallFails(r) \/ Crash(r)
    BY <2>1, <2>2 DEF CallFails, Crash
  <2>3. CASE StoreTakes(r)
    BY <2>1, <2>3 DEF StoreTakes
  <2>4. CASE Answered(r)
    BY <2>1, <2>4 DEF Answered
  <2>5. CASE ~(CallFails(r) \/ Crash(r) \/ StoreTakes(r) \/ Answered(r))
    BY <2>1, <2>5 DEF Read, Conflict, Refuse, CancelHere, VerifyVideo,
       Reconcile, ReadObject, CheckRemoval
  <2>6. QED
    BY <2>2, <2>3, <2>4, <2>5, <2>1
<1>3. \A k \in Requests : SubmitPending(k)' = SubmitPending(k)
  <2>1. \A k \in Requests \ {r} : wire'[k] = wire[k]
    BY <1>2 DEF Resolve
  <2>2. SubmitPending(r)' = SubmitPending(r)
    BY <1>2 DEF SubmitPending, Resolve, NoCall
  <2>3. QED
    BY <2>1, <2>2 DEF SubmitPending
<1>4. QED
  BY <1>1, <1>3, CallsMap

\* A write of the row stores the intent, settles it, or does neither.
LEMMA RowWritesMap ==
  ASSUME UploadInvariant, NEW r \in Requests,
         \/ Take(r) \/ Initiate(r) \/ SendPart(r) \/ Complete(r) \/ Submit(r)
         \/ Abort(r) \/ RenewForObject(r) \/ Done(r)
  PROVE  SubmissionStep
<1>1. at[r] # "idle" /\ wire' = wire /\ posted' = posted
  BY DEF Take, Initiate, SendPart, Complete, Submit, Abort, RenewForObject,
     Done, Intend, outside
<1>2. loc[r] \in Record
  BY CopiesAreBacked
<1>3. \E rec \in Record :
        /\ r \in current /\ row' = rec
        /\ \/ rec.submit = loc[r].submit
           \/ rec.submit /\ rec.status # "confirmed"
  <2>1. CASE Take(r) \/ RenewForObject(r)
    BY <1>2, <2>1 DEF Take, RenewForObject, SaveRow
  <2>2. CASE Done(r)
    <3>1. [loc[r] EXCEPT !.busy = "none"] \in Record
      BY <1>2 DEF Record
    <3>2. [loc[r] EXCEPT !.busy = "none"].submit = loc[r].submit
      BY <1>2 DEF Record
    <3>3. QED
      BY <1>2, <2>2, <3>1, <3>2 DEF Done, SaveRow
  <2>3. CASE Initiate(r)
    BY <1>2, <2>3 DEF Initiate, Intend, SaveRow, Record, UploadStatuses
  <2>4. CASE SendPart(r)
    BY <1>2, <2>4 DEF SendPart, Intend, SaveRow, Record
  <2>5. CASE Complete(r)
    <3> DEFINE rec == [loc[r] EXCEPT !.complete = TRUE]
    <3>1. rec \in Record /\ rec.submit = loc[r].submit
      BY <1>2 DEF Record
    <3>2. r \in current /\ row' = rec
      BY <2>5 DEF Complete, Intend, SaveRow
    <3> HIDE DEF rec
    <3>3. QED
      BY <3>1, <3>2
  <2>6. CASE Submit(r)
    <3> DEFINE rec == [loc[r] EXCEPT !.submit = TRUE, !.status = "submitting"]
    <3>1. rec \in Record /\ rec.submit /\ rec.status # "confirmed"
      BY <1>2 DEF Record, UploadStatuses
    <3>2. r \in current /\ row' = rec
      BY <2>6 DEF Submit, Intend, SaveRow
    <3> HIDE DEF rec
    <3>3. QED
      BY <3>1, <3>2
  <2>7. CASE Abort(r)
    <3> DEFINE rec == [loc[r] EXCEPT !.cancel = TRUE, !.status = "needs-review"]
    <3>1. rec \in Record /\ rec.submit = loc[r].submit
      BY <1>2 DEF Record, UploadStatuses
    <3>2. r \in current /\ row' = rec
      BY <2>7 DEF Abort, Intend, SaveRow
    <3> HIDE DEF rec
    <3>3. QED
      BY <3>1, <3>2
  <2>8. QED
    BY <2>1, <2>2, <2>3, <2>4, <2>5, <2>6, <2>7
<1>4. QED
  BY <1>1, <1>3, WritesMap

\* The submission leaves once, after its intent is stored.
LEMMA SendCallMaps ==
  ASSUME UploadInvariant, NEW r \in Requests, SendCall(r)
  PROVE  SubmissionStep
<1>1. /\ at[r] = "sending" /\ wire[r] = NoCall
      /\ KindOf[act[r]] \in Kinds /\ act[r] \in Actions
      /\ row' = row /\ posted' = posted
  BY DEF UploadInvariant, UploadTypeOK, CallFits, SendCall, outside
<1>2. /\ \A k \in Requests \ {r} : wire'[k] = wire[k]
      /\ wire'[r].kind = KindOf[act[r]] /\ wire'[r].state = "pending"
  BY DEF UploadInvariant, UploadTypeOK, SendCall
<1>3. CASE KindOf[act[r]] # "submit"
  <2>1. \A k \in Requests : SubmitPending(k)' = SubmitPending(k)
    BY <1>1, <1>2, <1>3 DEF SubmitPending, NoCall
  <2>2. QED
    BY <1>1, <2>1, CallsMap
<1>4. CASE KindOf[act[r]] = "submit"
  <2>1. Submitting(r)
    BY <1>1, <1>4 DEF Submitting, KindOf, Actions, Kinds
  <2>2. posted = 0 /\ row.submit
    BY <1>1, <2>1 DEF UploadInvariant, SubmittedOnceFits
  <2>3. ~Underway
    BY <1>1, <2>1
       DEF UploadInvariant, SubmittedOnceFits, Underway, SubmitPending,
           Submitting, NoCall
  <2>4. Underway'
    BY <1>2, <1>4 DEF Underway, SubmitPending
  <2>5. row.status # "confirmed"
    BY <2>2 DEF UploadInvariant, ClosedFits
  <2>6. VideoReceipt = "intent" /\ VideoReceipt' = "intent"
    BY <1>1, <2>2, <2>5 DEF VideoReceipt
  <2>7. ~(posted > 0) /\ ~(posted' > 0)
    BY <1>1, <2>2
  <2>8. QED
    BY <2>3, <2>4, <2>6, <2>7, Zenon DEF SubmissionStep
<1>5. QED
  BY <1>3, <1>4

\* The submission that arrives is the only one there is.
LEMMA ArrivalsMap ==
  ASSUME UploadInvariant, NEW r \in Requests, PlatformTakes(r) \/ NotTaken(r)
  PROVE  SubmissionStep
<1>1. /\ row' = row /\ wire[r].state = "pending"
      /\ Resolve(r, "done") \/ Resolve(r, "refused")
      /\ posted \in Nat
  BY DEF UploadInvariant, UploadTypeOK, PlatformTakes, NotTaken
<1>2. /\ \A k \in Requests \ {r} : wire'[k] = wire[k]
      /\ wire'[r].state # "pending"
  BY <1>1, CallsAreTyped DEF UploadInvariant, UploadTypeOK, Resolve, NoCall
<1>3. CASE wire[r].kind # "submit"
  <2>1. \A k \in Requests : SubmitPending(k)' = SubmitPending(k)
    BY <1>2, <1>3 DEF SubmitPending, UploadInvariant, UploadTypeOK, Resolve,
       NoCall, PlatformTakes, NotTaken
  <2>2. posted' = posted
    BY <1>3 DEF PlatformTakes, NotTaken, outside
  <2>3. QED
    BY <1>1, <2>1, <2>2, CallsMap
<1>4. CASE wire[r].kind = "submit"
  <2>1. Underway
    BY <1>1, <1>4 DEF Underway, SubmitPending
  <2>2. \A k \in Requests : wire[k].kind = "submit" => k = r
    BY <1>4 DEF UploadInvariant, SubmittedOnceFits, Submitting
  <2>3. ~Underway'
    BY <1>2, <2>2 DEF Underway, SubmitPending
  <2>4. VideoReceipt' = VideoReceipt
    BY <1>1 DEF VideoReceipt
  <2>5. posted' = posted \/ posted' > 0
    BY <1>1 DEF PlatformTakes, NotTaken, outside
  <2>6. QED
    BY <2>1, <2>3, <2>4, <2>5 DEF SubmissionStep
<1>5. QED
  BY <1>3, <1>4

\* So every step of the upload is a step of the submission.
LEMMA UploadStepsMap ==
  ASSUME UploadInvariant, [UploadNext]_uploadVars
  PROVE  SubmissionStep
<1>1. CASE Appears \/ Lapse \/ UNCHANGED uploadVars
  <2>1. row' = row /\ wire' = wire /\ posted' = posted
    BY <1>1 DEF Appears, Lapse, uploadVars, outside
  <2>2. QED
    BY <2>1, CallsMap DEF SubmitPending
<1>2. CASE \E r \in Requests : Step(r)
  <2> SUFFICES ASSUME NEW r \in Requests, Step(r)
               PROVE  SubmissionStep
    BY <1>2
  <2>1. CASE \/ Take(r) \/ Initiate(r) \/ SendPart(r) \/ Complete(r)
             \/ Submit(r) \/ Abort(r) \/ RenewForObject(r) \/ Done(r)
    BY <2>1, RowWritesMap
  <2>2. CASE SendCall(r)
    BY <2>2, SendCallMaps
  <2>3. CASE PlatformTakes(r) \/ NotTaken(r)
    BY <2>3, ArrivalsMap
  <2>4. CASE \/ \E a \in Actions, p \in Parts : Read(r, a, p)
             \/ Conflict(r) \/ Refuse(r) \/ CancelHere(r) \/ VerifyVideo(r)
             \/ Reconcile(r) \/ Answered(r) \/ CallFails(r) \/ ReadObject(r)
             \/ CheckRemoval(r) \/ Crash(r) \/ StoreTakes(r)
    BY <2>4, RequestsMap
  <2>5. QED
    BY <2>1, <2>2, <2>3, <2>4 DEF Step
<1>3. QED
  BY <1>1, <1>2 DEF UploadNext

\* The submission keeps the promise of WriteAhead: it is on record before it
\* leaves, and it leaves and takes effect once.
THEOREM SubmissionWritesAhead == UploadSpec => SubmitsOnce
<1>1. UploadInit => UploadInvariant /\ Submission!Init
  BY UploadStarts, SubmissionStarts
<1>2. UploadInvariant /\ [UploadNext]_uploadVars =>
        UploadInvariant' /\ [Submission!Next]_(Submission!vars)
  BY UploadSteps, UploadStepsMap, SubmissionStepsMap
<1>3. QED
  BY <1>1, <1>2, PTL DEF UploadSpec, SubmitsOnce, Submission!Spec

-----------------------------------------------------------------------------
(* Batch maintenance: the next item *)

Less == {ss \in Nat \X Nat : ss[1] < ss[2]}

\* The least element of a set of numbers, which the loops take their next item
\* by, is an element of it.
LEMMA MinIsLeast ==
  ASSUME NEW S, S \subseteq Nat, S # {}
  PROVE  Min(S) \in S /\ \A y \in S : Min(S) \leq y
<1>1. OpToRel(<, Nat) = Less
  BY DEF OpToRel, Less
<1>2. IsWellFoundedOn(Less, Nat)
  BY ONLY <1>1, NatLessThanWellFounded, Zenon
<1>3. \E x \in S : \A y \in S : ~(<<y, x>> \in Less)
  BY <1>2, WFMin, Zenon
<1>4. \A x, y \in Nat : x < y => <<x, y>> \in Less
  BY DEF Less
<1>5. \E x \in S : \A y \in S : x \leq y
  <2>1. PICK x \in S : \A y \in S : ~(<<y, x>> \in Less)
    BY <1>3
  <2>2. \A y \in S : ~(y < x)
    BY <1>4, <2>1, Zenon
  <2>3. \A y \in S : x \leq y
    BY <2>2, SMT
  <2>4. QED
    BY <2>3
<1>6. QED
  BY <1>5 DEF Min

-----------------------------------------------------------------------------
(* Batch maintenance: the inductive invariant *)

Previewing == {"preview", "previewed", "scope"}
Executing == {"read", "send", "answer", "lookup", "wait", "refresh"}

\* The back end has a job only of an update that arrived, and a receipt is one
\* of its jobs.
ReceiptsReal ==
  \A i \in Positions :
    /\ server[i] # None => update[i] = "arrived"
    /\ job[i] # None => server[i] # None

\* An item whose turn has not come is as the preview left it.
Ahead(i) ==
  \/ phase \in Previewing
  \/ phase \in Executing /\ i > index
  \/ phase = "read" /\ i = index

AheadBlank ==
  \A i \in Positions : Ahead(i) => ~Sent(i) /\ ~request[i] /\ job[i] = None

\* What is true of the item whose turn it is.
AtIndex ==
  /\ phase = "send" => ~Sent(index) /\ job[index] = None
  /\ phase \in {"send", "answer", "lookup"} => state[index] = "submitting"
  /\ phase \in {"send", "answer", "lookup"} => request[index]
  /\ phase \in {"wait", "refresh"} =>
       request[index] /\ job[index] # None /\ state[index] = "pending"

\* Unless the batch is stopped or an item was left, the others are settled.
OthersSettled ==
  phase \in Executing /\ ~stopped /\ ~overdue =>
    \A i \in Positions : i # index /\ Sent(i) => state[i] \in Conclusive

BatchInvariant ==
  /\ BatchTypeOK
  /\ StatesAreTrue
  /\ ReceiptsReal
  /\ AheadBlank
  /\ AtIndex
  /\ OthersSettled

-----------------------------------------------------------------------------
(* Batch maintenance: what the helpers do *)

\* The products of a batch are numbered from 1.
LEMMA PositionsAreNumbers ==
  /\ Positions \subseteq Nat
  /\ 1 \in Positions
  /\ \A i \in Positions : i # Size => i + 1 \in Positions
BY BatchAssumption DEF Positions

\* The loop goes on to a later item or ends, and a stopped one ends.
LEMMA OnwardMoves ==
  ASSUME BatchTypeOK, NEW stopping \in BOOLEAN, Onward(stopping)
  PROVE  /\ stopped' = stopping /\ fatal' = FALSE /\ late' = FALSE
         /\ \/ phase' = "done" /\ index' = index
            \/ /\ phase' = "read" /\ ~stopping
               /\ index' \in targets /\ index' > index
<1> DEFINE left == {i \in targets : i > index}
<1>1. left \subseteq Nat
  BY PositionsAreNumbers DEF BatchTypeOK
<1>2. CASE stopping \/ left = {}
  BY <1>2 DEF Onward
<1>3. CASE ~(stopping \/ left = {})
  <2>1. Min(left) \in left
    BY <1>1, <1>3, MinIsLeast
  <2>2. QED
    BY <1>3, <2>1 DEF Onward
<1>4. QED
  BY <1>2, <1>3

\* A job that ended stays as it ended, and no job moves before it exists.
LEMMA JobsEnd ==
  ASSUME NEW from, NEW to, MayMove(from, to)
  PROVE  from \in Statuses /\ from \notin {"verified", "failed"}
BY DEF MayMove, Moves, Statuses, BlockingStatuses, TerminalStatuses

\* The absence of a job is no status of a job.
LEMMA NoneIsNoStatus == None \notin Statuses
BY DEF None, Statuses, BlockingStatuses, TerminalStatuses

-----------------------------------------------------------------------------
(* Batch maintenance: the steps *)

\* A batch nobody has looked at.
LEMMA BatchStarts == BatchInit => BatchInvariant
<1> SUFFICES ASSUME BatchInit
             PROVE  BatchInvariant
  OBVIOUS
<1> USE DEF BatchInit
<1>1. BatchTypeOK
  BY PositionsAreNumbers DEF BatchTypeOK, ItemStates
<1>2. StatesAreTrue /\ ReceiptsReal
  BY DEF StatesAreTrue, ReceiptsReal, Sent
<1>3. AheadBlank /\ AtIndex /\ OthersSettled
  BY DEF AheadBlank, AtIndex, OthersSettled, Sent, Executing
<1>4. QED
  BY <1>1, <1>2, <1>3 DEF BatchInvariant

\* The preview and the choice of its scope send nothing.
LEMMA BatchPreviews ==
  ASSUME BatchInvariant,
         Preview \/ PreviewStopped \/ Execute \/ ScopeChecked
  PROVE  BatchInvariant'
<1> USE DEF BatchInvariant, BatchTypeOK, StatesAreTrue, ReceiptsReal,
            AheadBlank, Ahead, AtIndex, OthersSettled, Sent,
            ItemStates, Executing, Previewing, items, session, backend
<1>1. CASE Preview
  BY <1>1, PositionsAreNumbers DEF Preview, Show
<1>2. CASE PreviewStopped
  BY <1>2 DEF PreviewStopped, Show, Reach
<1>3. CASE Execute
  BY <1>3 DEF Execute, Reach
<1>4. CASE ScopeChecked
  <2>1. targets \subseteq Nat
    BY PositionsAreNumbers
  <2>2. targets # {} => Min(targets) \in targets
    BY <2>1, MinIsLeast
  <2>3. QED
    BY <1>4, <2>2 DEF ScopeChecked, Reach
<1>5. QED
  BY <1>1, <1>2, <1>3, <1>4

\* A step that changes the item at the index only and then goes on.
LEMMA LeavesIndex ==
  ASSUME BatchInvariant, NEW stopping \in BOOLEAN, Onward(stopping),
         phase \in Executing,
         UNCHANGED <<targets, backend>>,
         overdue' \in BOOLEAN, overdue => overdue', stopped => stopping,
         state' \in [Positions -> ItemStates],
         request' \in [Positions -> BOOLEAN],
         job' \in [Positions -> Statuses \cup {None}],
         \A i \in Positions : i # index =>
           /\ state'[i] = state[i]
           /\ request'[i] = request[i]
           /\ job'[i] = job[i],
         StatesAreTrue', ReceiptsReal',
         ~stopping /\ ~overdue' /\ Sent(index) => state'[index] \in Conclusive
  PROVE  BatchInvariant'
<1>1. /\ stopped' = stopping /\ fatal' = FALSE /\ late' = FALSE
      /\ \/ phase' = "done" /\ index' = index
         \/ /\ phase' = "read" /\ ~stopping
            /\ index' \in targets /\ index' > index
  BY OnwardMoves DEF BatchInvariant
<1>2. BatchTypeOK'
  BY <1>1 DEF BatchInvariant, BatchTypeOK, backend
<1>3. AheadBlank'
  <2>1. index \in Nat /\ index' \in Nat
    BY <1>2, PositionsAreNumbers DEF BatchInvariant, BatchTypeOK
  <2>2. ASSUME NEW i \in Positions, Ahead(i)'
        PROVE  i > index
    BY <1>1, <2>1, <2>2, PositionsAreNumbers DEF Ahead, Previewing, Executing
  <2>3. \A i \in Positions : i > index => Ahead(i)
    BY DEF Ahead
  <2>4. \A i \in Positions : i > index => i # index
    BY <2>1, PositionsAreNumbers
  <2>5. QED
    BY <2>2, <2>3, <2>4 DEF BatchInvariant, AheadBlank, Sent, backend
<1>4. AtIndex'
  BY <1>1 DEF AtIndex
<1>5. OthersSettled'
  BY <1>1 DEF BatchInvariant, BatchTypeOK, OthersSettled, Sent, backend,
              Executing
<1>6. QED
  BY <1>2, <1>3, <1>4, <1>5 DEF BatchInvariant

\* What a reading of the job, a stop or an error writes on the item it leaves.
LEMMA BatchReads ==
  ASSUME BatchInvariant, ReadAgain \/ ReadOtherwise \/ ReadStopped
  PROVE  BatchInvariant'
<1> USE DEF BatchInvariant
<1>1. CASE ReadAgain
  BY <1>1, PositionsAreNumbers
     DEF ReadAgain, Show, Reach, BatchTypeOK, StatesAreTrue, ReceiptsReal,
         AheadBlank, Ahead, AtIndex, OthersSettled, Sent, ItemStates,
         Executing, Previewing, backend
<1>2. phase = "read" =>
        ~Sent(index) /\ ~request[index] /\ job[index] = None
  BY DEF BatchTypeOK, AheadBlank, Ahead
<1>3. CASE ReadOtherwise
  <2> USE DEF ReadOtherwise
  <2>1. PICK s \in {"conflict", "failed"}, stopping \in BOOLEAN :
          Show(s) /\ Onward(stopping) /\ (stopped => stopping)
    BY <1>3 DEF BatchTypeOK
  <2>2. /\ phase = "read" /\ phase \in Executing
        /\ UNCHANGED <<request, job, targets, backend, overdue>>
    BY <1>3 DEF Executing
  <2>3. /\ state' \in [Positions -> ItemStates]
        /\ \A i \in Positions : i # index => state'[i] = state[i]
        /\ state'[index] = s
    BY <2>1 DEF Show, BatchTypeOK, ItemStates
  <2>4. StatesAreTrue'
    BY <1>2, <2>2, <2>3 DEF StatesAreTrue, Sent, backend, BatchTypeOK
  <2>5. ReceiptsReal'
    BY <2>2 DEF ReceiptsReal, backend
  <2>6. QED
    BY <1>2, <2>1, <2>2, <2>3, <2>4, <2>5, LeavesIndex DEF BatchTypeOK
<1>4. CASE ReadStopped
  <2>1. /\ phase = "read" /\ phase \in Executing
        /\ UNCHANGED <<job, targets, backend, overdue>>
        /\ Onward(TRUE) /\ Show("ready")
        /\ request' = [request EXCEPT ![index] = FALSE]
    BY <1>2, <1>4 DEF ReadStopped, StopHere, Executing
  <2>2. /\ state' \in [Positions -> ItemStates]
        /\ \A i \in Positions : i # index =>
             state'[i] = state[i] /\ request'[i] = request[i]
        /\ state'[index] = "ready" /\ ~request'[index]
        /\ request' \in [Positions -> BOOLEAN]
    BY <2>1 DEF Show, BatchTypeOK, ItemStates
  <2>3. StatesAreTrue' /\ ReceiptsReal'
    BY <1>2, <2>1, <2>2 DEF StatesAreTrue, ReceiptsReal, Sent, backend
  <2>4. QED
    BY <2>1, <2>2, <2>3, LeavesIndex DEF BatchTypeOK
<1>5. QED
  BY <1>1, <1>3, <1>4

\* The update leaves, and its receipt comes back or is looked up.
LEMMA BatchSends ==
  ASSUME BatchInvariant,
         SendUpdate \/ SendStopped \/ NoReceipt \/ Accepted \/ Lookup
  PROVE  BatchInvariant'
<1> USE DEF BatchInvariant
<1>1. CASE SendUpdate
  BY <1>1, PositionsAreNumbers
     DEF SendUpdate, Reach, items, BatchTypeOK, StatesAreTrue, ReceiptsReal,
         AheadBlank, Ahead, AtIndex, OthersSettled, Sent, Executing, Previewing
<1>2. CASE SendStopped
  <2>1. /\ phase = "send" /\ phase \in Executing
        /\ ~Sent(index) /\ job[index] = None
        /\ UNCHANGED <<job, targets, backend, overdue>>
        /\ Onward(TRUE) /\ Show("ready")
        /\ request' = [request EXCEPT ![index] = FALSE]
    BY <1>2 DEF SendStopped, StopHere, Executing, AtIndex
  <2>2. /\ state' \in [Positions -> ItemStates]
        /\ \A i \in Positions : i # index =>
             state'[i] = state[i] /\ request'[i] = request[i]
        /\ state'[index] = "ready" /\ ~request'[index]
        /\ request' \in [Positions -> BOOLEAN]
    BY <2>1 DEF Show, BatchTypeOK, ItemStates
  <2>3. StatesAreTrue' /\ ReceiptsReal'
    BY <2>1, <2>2 DEF StatesAreTrue, ReceiptsReal, Sent, backend
  <2>4. QED
    BY <2>1, <2>2, <2>3, LeavesIndex DEF BatchTypeOK
<1>3. CASE NoReceipt
  BY <1>3, PositionsAreNumbers
     DEF NoReceipt, Reach, items, backend, BatchTypeOK, StatesAreTrue,
         ReceiptsReal, AheadBlank, Ahead, AtIndex, OthersSettled, Sent,
         Executing, Previewing
<1>4. CASE Accepted
  <2>1. /\ phase = "answer" /\ phase \in Executing
        /\ server[index] # None
        /\ UNCHANGED <<request, targets, backend, overdue>>
        /\ job' = [job EXCEPT ![index] = server[index]]
        /\ state' = [state EXCEPT ![index] = "pending"]
    BY <1>4 DEF Accepted, Receive, Show, Executing
  <2>2. /\ state' \in [Positions -> ItemStates]
        /\ job' \in [Positions -> Statuses \cup {None}]
        /\ \A i \in Positions : i # index =>
             state'[i] = state[i] /\ job'[i] = job[i]
        /\ state'[index] = "pending" /\ job'[index] = server[index]
    BY <2>1 DEF BatchTypeOK, ItemStates
  <2>3. request[index]
    BY <2>1 DEF AtIndex
  <2>4. StatesAreTrue' /\ ReceiptsReal'
    BY <2>1, <2>2, <2>3 DEF StatesAreTrue, ReceiptsReal, Sent, backend
  <2>5. CASE stopped
    <3>1. Onward(TRUE)
      BY <1>4, <2>5 DEF Accepted
    <3>2. QED
      BY <2>1, <2>2, <2>4, <3>1, LeavesIndex DEF BatchTypeOK
  <2>6. CASE ~stopped
    <3>1. phase' = "wait" /\ UNCHANGED <<index, stopped, fatal, late>>
      BY <1>4, <2>6 DEF Accepted, ReadBack, Reach
    <3>2. BatchTypeOK'
      BY <2>1, <2>2, <3>1 DEF BatchTypeOK, backend
    <3>3. AheadBlank' /\ AtIndex'
      BY <2>1, <2>2, <2>3, <3>1, PositionsAreNumbers
         DEF AheadBlank, Ahead, AtIndex, Sent, backend, Executing, Previewing,
             BatchTypeOK
    <3>4. OthersSettled'
      BY <2>1, <2>2, <3>1 DEF OthersSettled, Sent, backend, Executing
    <3>5. QED
      BY <2>4, <3>2, <3>3, <3>4
  <2>7. QED
    BY <2>5, <2>6
<1>5. CASE Lookup
  <2>1. PICK found \in {server[index], None} :
          LET s == IF found = "failed" THEN "failed" ELSE "unknown" IN
            /\ Receive(found)
            /\ Show(s)
            /\ Onward(stopped \/ fatal \/ s = "unknown")
    BY <1>5 DEF Lookup
  <2> DEFINE s == IF found = "failed" THEN "failed" ELSE "unknown"
             stopping == stopped \/ fatal \/ s = "unknown"
  <2>2. /\ phase = "lookup" /\ phase \in Executing
        /\ UNCHANGED <<request, targets, backend, overdue>>
    BY <1>5 DEF Lookup, Executing
  <2>3. /\ state' \in [Positions -> ItemStates]
        /\ job' \in [Positions -> Statuses \cup {None}]
        /\ \A i \in Positions : i # index =>
             state'[i] = state[i] /\ job'[i] = job[i]
        /\ state'[index] = s /\ job'[index] = found
    BY <2>1 DEF Show, Receive, BatchTypeOK, ItemStates
  <2>4. found = "failed" => server[index] = "failed"
    BY DEF None
  <2>5. request[index]
    BY <2>2 DEF AtIndex
  <2>6. StatesAreTrue' /\ ReceiptsReal'
    BY <2>2, <2>3, <2>4, <2>5
       DEF StatesAreTrue, ReceiptsReal, Sent, backend, BatchTypeOK
  <2>7. stopping \in BOOLEAN /\ (stopped => stopping)
    BY DEF BatchTypeOK
  <2>8. ~stopping => s \in Conclusive
    BY DEF Conclusive
  <2>9. Onward(stopping)
    BY <2>1
  <2> HIDE DEF s, stopping
  <2>10. QED
    BY <2>2, <2>3, <2>6, <2>7, <2>8, <2>9, LeavesIndex DEF BatchTypeOK
<1>6. QED
  BY <1>1, <1>2, <1>3, <1>4, <1>5
\* A job is waited for, and the product read back.
LEMMA BatchVerifies ==
  ASSUME BatchInvariant,
         \/ Waited \/ LeavePending
         \/ Refreshed \/ RefreshFails \/ RefreshStopped
  PROVE  BatchInvariant'
<1> USE DEF BatchInvariant
<1>1. CASE Waited
  BY <1>1, PositionsAreNumbers
     DEF Waited, Reach, items, backend, BatchTypeOK, StatesAreTrue,
         ReceiptsReal, AheadBlank, Ahead, AtIndex, OthersSettled, Sent,
         Executing, Previewing
<1>2. CASE LeavePending
  <2>1. /\ phase \in Executing
        /\ UNCHANGED <<items, targets, backend>>
        /\ Onward(stopped)
        /\ overdue' = (overdue \/ ~stopped)
    BY <1>2 DEF LeavePending, Executing
  <2>2. UNCHANGED <<state, request, job>>
    BY <2>1 DEF items
  <2>3. StatesAreTrue' /\ ReceiptsReal'
    BY <2>1, <2>2 DEF StatesAreTrue, ReceiptsReal, Sent, backend
  <2>4. QED
    BY <2>1, <2>2, <2>3, LeavesIndex DEF BatchTypeOK
<1>3. phase \in {"wait", "refresh"} =>
        /\ phase \in Executing
        /\ request[index] /\ job[index] # None /\ server[index] # None
        /\ state[index] = "pending"
  BY DEF AtIndex, Executing, ReceiptsReal, BatchTypeOK
<1>4. CASE Refreshed
  <2>1. /\ phase = "refresh" /\ phase \in Executing
        /\ UNCHANGED <<request, targets, backend, overdue>>
        /\ job' \in [Positions -> Statuses \cup {None}]
        /\ \A i \in Positions : i # index => job'[i] = job[i]
        /\ job'[index] = server[index]
    BY <1>3, <1>4 DEF Refreshed, Receive, BatchTypeOK
  <2>2. CASE server[index] \in {"verified", "failed"}
    <3>1. Show(server[index]) /\ Onward(stopped)
      BY <1>4, <2>2 DEF Refreshed
    <3>2. /\ state' \in [Positions -> ItemStates]
          /\ \A i \in Positions : i # index => state'[i] = state[i]
          /\ state'[index] = server[index] /\ state'[index] \in Conclusive
      BY <2>2, <3>1 DEF Show, BatchTypeOK, ItemStates, Conclusive
    <3>3. StatesAreTrue' /\ ReceiptsReal'
      BY <1>3, <2>1, <2>2, <3>2
         DEF StatesAreTrue, ReceiptsReal, Sent, backend
    <3>4. QED
      BY <2>1, <3>1, <3>2, <3>3, LeavesIndex DEF BatchTypeOK
  <2>3. CASE server[index] \notin {"verified", "failed"}
    <3>1. UNCHANGED state
      BY <1>4, <2>3 DEF Refreshed
    <3>2. StatesAreTrue' /\ ReceiptsReal'
      BY <1>3, <2>1, <3>1
         DEF StatesAreTrue, ReceiptsReal, Sent, backend
    <3>3. CASE stopped \/ late
      <4>1. Onward(TRUE)
        BY <1>4, <2>3, <3>3 DEF Refreshed
      <4>2. QED
        BY <2>1, <3>1, <3>2, <4>1, LeavesIndex DEF BatchTypeOK
    <3>4. CASE ~(stopped \/ late)
      <4>1. phase' = "wait" /\ UNCHANGED <<index, stopped, fatal, late>>
        BY <1>4, <2>3, <3>4 DEF Refreshed, ReadBack, Reach
      <4>2. BatchTypeOK'
        BY <2>1, <3>1, <4>1 DEF BatchTypeOK, backend
      <4>3. AheadBlank' /\ AtIndex'
        BY <1>3, <2>1, <3>1, <4>1, PositionsAreNumbers
           DEF AheadBlank, Ahead, AtIndex, Sent, backend, Executing,
               Previewing, BatchTypeOK
      <4>4. OthersSettled'
        BY <2>1, <3>1, <4>1 DEF OthersSettled, Sent, backend, Executing
      <4>5. QED
        BY <3>2, <4>2, <4>3, <4>4
    <3>5. QED
      BY <3>3, <3>4
  <2>4. QED
    BY <2>2, <2>3
<1>5. CASE RefreshFails
  <2>1. /\ phase = "refresh" /\ phase \in Executing
        /\ UNCHANGED <<state, request, targets, backend, overdue>>
        /\ Onward(TRUE)
        /\ job' \in [Positions -> Statuses \cup {None}]
        /\ \A i \in Positions : i # index => job'[i] = job[i]
        /\ job'[index] # None
    BY <1>3, <1>5 DEF RefreshFails, BatchTypeOK
  <2>2. StatesAreTrue' /\ ReceiptsReal'
    BY <1>3, <2>1 DEF StatesAreTrue, ReceiptsReal, Sent, backend
  <2>3. QED
    BY <2>1, <2>2, LeavesIndex DEF BatchTypeOK
<1>6. CASE RefreshStopped
  <2>1. /\ phase = "refresh" /\ phase \in Executing
        /\ UNCHANGED <<job, targets, backend, overdue>>
        /\ Onward(TRUE) /\ Show("pending")
        /\ request' = [request EXCEPT ![index] = TRUE]
    BY <1>3, <1>6 DEF RefreshStopped, StopHere, Executing
  <2>2. /\ state' \in [Positions -> ItemStates]
        /\ \A i \in Positions : i # index =>
             state'[i] = state[i] /\ request'[i] = request[i]
        /\ state'[index] = "pending" /\ request'[index]
        /\ request' \in [Positions -> BOOLEAN]
    BY <2>1 DEF Show, BatchTypeOK, ItemStates
  <2>3. StatesAreTrue' /\ ReceiptsReal'
    BY <1>3, <2>1, <2>2 DEF StatesAreTrue, ReceiptsReal, Sent, backend
  <2>4. QED
    BY <2>1, <2>2, <2>3, LeavesIndex DEF BatchTypeOK
<1>7. QED
  BY <1>1, <1>2, <1>4, <1>5, <1>6

\* The stop, the deadline of the session, late calls and the back end.
LEMMA BatchSurroundings ==
  ASSUME BatchInvariant,
         \/ Stop \/ FiveMinutesPass
         \/ \E i \in Positions : Arrives(i) \/ JobMoves(i)
  PROVE  BatchInvariant'
<1> USE DEF BatchInvariant, AheadBlank, Ahead, AtIndex, OthersSettled, Sent,
            StatesAreTrue, ReceiptsReal
<1>1. CASE Stop
  BY <1>1 DEF Stop, BatchTypeOK, items, backend
<1>2. CASE FiveMinutesPass
  BY <1>2 DEF FiveMinutesPass, BatchTypeOK, items, backend
<1>3. ASSUME NEW k \in Positions, Arrives(k)
      PROVE  BatchInvariant'
  <2>1. /\ update[k] = "way"
        /\ update'[k] \in {"arrived", "refused"}
        /\ server'[k] = IF update'[k] = "arrived" THEN "submitted"
                        ELSE server[k]
        /\ \A i \in Positions : i # k =>
             update'[i] = update[i] /\ server'[i] = server[i]
        /\ UNCHANGED <<state, request, job, phase, index, targets, stopped,
                       fatal, late, overdue>>
    BY <1>3 DEF Arrives, items, session, BatchTypeOK
  <2>2. BatchTypeOK'
    BY <1>3, <2>1
       DEF Arrives, items, session, BatchTypeOK, Statuses, BlockingStatuses
  <2>3. server[k] = None
    BY <2>1
  <2>4. StatesAreTrue'
    BY <2>1, <2>3 DEF None, BatchTypeOK
  <2>5. ReceiptsReal'
    BY <2>1, <2>3
  <2>6. AheadBlank' /\ AtIndex' /\ OthersSettled'
    BY <2>1 DEF BatchTypeOK
  <2>7. QED
    BY <2>2, <2>4, <2>5, <2>6
<1>4. ASSUME NEW k \in Positions, JobMoves(k)
      PROVE  BatchInvariant'
  <2>1. PICK s \in Statuses : /\ MayMove(server[k], s)
                              /\ server' = [server EXCEPT ![k] = s]
    BY <1>4 DEF JobMoves
  <2>2. UNCHANGED <<state, request, job, phase, index, targets, stopped,
                    fatal, late, overdue, update>>
    BY <1>4 DEF JobMoves, items, session
  <2>3. server[k] # None /\ server[k] \notin {"verified", "failed"}
    BY <2>1, JobsEnd, NoneIsNoStatus
  <2>4. /\ BatchTypeOK'
        /\ \A i \in Positions : server'[i] # server[i] =>
             server[i] # None /\ server[i] \notin {"verified", "failed"}
        /\ \A i \in Positions : server[i] # None => server'[i] # None
    BY <2>1, <2>2, <2>3, NoneIsNoStatus DEF BatchTypeOK
  <2>5. StatesAreTrue' /\ ReceiptsReal'
    BY <2>1, <2>2, <2>3, <2>4 DEF BatchTypeOK
  <2>6. AheadBlank' /\ AtIndex' /\ OthersSettled'
    BY <2>2 DEF BatchTypeOK
  <2>7. QED
    BY <2>4, <2>5, <2>6
<1>5. QED
  BY <1>1, <1>2, <1>3, <1>4

\* Every step of the batch and of what surrounds it.
LEMMA BatchStep ==
  ASSUME BatchInvariant, [BatchNext]_batchVars
  PROVE  BatchInvariant'
<1>1. CASE UNCHANGED batchVars
  BY <1>1 DEF batchVars, items, session, backend, BatchInvariant, BatchTypeOK,
              StatesAreTrue, ReceiptsReal, AheadBlank, Ahead, AtIndex,
              OthersSettled, Sent
<1>2. QED
  BY <1>1, BatchPreviews, BatchReads, BatchSends, BatchVerifies,
     BatchSurroundings DEF BatchNext, Runs

-----------------------------------------------------------------------------
(* Batch maintenance: theorems *)

\* The items, the jobs and the calls of a batch only ever hold states of their
\* kind.
THEOREM BatchTypeCorrect == BatchSpec => []BatchTypeOK
<1>1. BatchInvariant => BatchTypeOK
  BY DEF BatchInvariant
<1>2. QED
  BY <1>1, BatchStarts, BatchStep, PTL DEF BatchSpec

\* At every moment of every batch the items say what is so, whatever call is
\* lost or late and whenever the batch is stopped.
THEOREM ItemsTellTheTruth == BatchSpec => []StatesAreTrue
<1>1. BatchInvariant => StatesAreTrue
  BY DEF BatchInvariant
<1>2. QED
  BY <1>1, BatchStarts, BatchStep, PTL DEF BatchSpec

\* An update leaves only in its turn.  Only SendUpdate sends, so what it needs
\* is that the items before the index are settled, which OthersSettled says.
THEOREM UpdatesLeaveInTurn == BatchSpec => LeavesInTurn
<1> DEFINE InTurn(i) ==
      ~Sent(i) /\ Sent(i)' =>
        /\ ~stopped
        /\ \/ overdue
           \/ \A k \in Positions : Sent(k) => state[k] \in Conclusive
<1>1. ASSUME BatchInvariant, [BatchNext]_batchVars, NEW i \in Positions
      PROVE  InTurn(i)
  <2>1. CASE SendUpdate
    <3>1. phase = "send" /\ phase \in Executing /\ ~stopped
      BY <2>1 DEF SendUpdate, Executing
    <3>2. ~Sent(index)
      BY <1>1, <3>1 DEF BatchInvariant, AtIndex
    <3>3. QED
      BY <1>1, <3>1, <3>2 DEF BatchInvariant, OthersSettled
  <2>2. CASE \E k \in Positions : Arrives(k)
    BY <1>1, <2>2 DEF Arrives, Sent, BatchInvariant, BatchTypeOK
  <2>3. CASE UNCHANGED update
    BY <2>3 DEF Sent
  <2>4. SendUpdate \/ (\E k \in Positions : Arrives(k)) \/ UNCHANGED update
    BY <1>1 DEF BatchNext, Runs, batchVars, backend, Preview, PreviewStopped,
         ScopeChecked, ReadAgain, ReadOtherwise, ReadStopped, SendStopped,
         Accepted, NoReceipt, Lookup, Waited, LeavePending, Refreshed,
         RefreshFails, RefreshStopped, Execute, Stop, FiveMinutesPass,
         JobMoves
  <2>5. QED
    BY <2>1, <2>2, <2>3, <2>4
<1>2. BatchInvariant /\ [BatchNext]_batchVars
        => [\A i \in Positions : InTurn(i)]_batchVars
  BY <1>1
<1>3. QED
  BY <1>2, BatchStarts, BatchStep, PTL DEF BatchSpec, LeavesInTurn
=============================================================================
