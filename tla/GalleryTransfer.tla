-------------------------- MODULE GalleryTransfer --------------------------
(***************************************************************************)
(* One gallery transfer task: the record in the browser's IndexedDB, the   *)
(* runner that carries it out in the one tab that holds the Web Lock       *)
(* (packages/core/src/gallery-transfer-runner.ts), the commands any tab    *)
(* may give meanwhile, and the platform that receives the writes.          *)
(*                                                                         *)
(* Every update of the record is one IndexedDB transaction, so it is one   *)
(* action; the runner awaits between two of them and each wait is a value  *)
(* of pc.  The tab may die at any of them, which frees the lock; a call    *)
(* that left may land long after.  A transaction may fail.  The items are  *)
(* the positions of the plan; bytes, hashes and paths are left out.        *)
(***************************************************************************)
EXTENDS Naturals, FiniteSets

CONSTANTS
  N,        \* the number of items of the task
  Plans,    \* the plans a preview may have frozen
  MaxSends  \* bound: calls one item may make, retries included

Items == 1 .. N

\* writes: the items whose execution writes to a platform; parent: the group
\* item an asset is uploaded into, 0 for none; closing: the manifest or the
\* archive, which describes the assets.
PlanShape ==
  [writes : SUBSET Items, parent : [Items -> 0 .. N], closing : SUBSET Items]

ASSUME TaskAssumption ==
  /\ N \in Nat \ {0}
  /\ Plans \subseteq PlanShape
  /\ MaxSends \in Nat

VARIABLES
  plan,     \* the plan of the task, which never changes
  \* the durable record
  status, command, item,
  \* the memory of the tab that holds the lock; pc = "idle" frees it
  pc, cur, verifyOnly, wasCancelled, result,
  \* the platform: calls under way, and calls that took effect
  flight, applied,
  \* history: calls made, and what became of the last stop request
  sends, stop, afterStop

record == <<status, command, item>>
runner == <<pc, cur, verifyOnly, wasCancelled, result>>
remote == <<flight, applied>>
history == <<sends, stop, afterStop>>
transferVars == <<plan, record, runner, remote, history>>

Writes == plan.writes

TaskStatuses ==
  {"pending", "running", "paused", "attention", "completed", "cancelled"}
ItemStatuses ==
  {"pending", "running", "unconfirmed", "confirmed", "failed", "unknown",
   "skipped"}
Settled == {"confirmed", "skipped"}
Uncertain == {"unknown", "unconfirmed"}
Gone == {"removed", "expired"}

TransferTypeOK ==
  /\ plan \in Plans
  /\ status \in TaskStatuses \cup Gone
  /\ command \in {"none", "pause", "cancel"}
  /\ item \in [Items -> ItemStatuses]
  /\ pc \in {"idle", "starting", "item", "verify", "prepare", "recheck",
             "mark", "execute", "await", "save", "ending"}
  /\ cur \in 1 .. N + 1
  /\ verifyOnly \in BOOLEAN
  /\ wasCancelled \in BOOLEAN
  /\ result \in {"none", "failed", "unknown", "unconfirmed", "confirmed"}
  /\ flight \in [Items -> Nat]
  /\ applied \in [Items -> Nat]
  /\ sends \in [Items -> Nat]
  /\ stop \in {"none", "early", "late", "raced"}
  /\ afterStop \in Nat

\* An import skips the assets whose name exists in the target.
TransferInit ==
  /\ plan \in Plans
  /\ status = "pending"
  /\ command = "none"
  /\ item \in [Items -> {"pending", "skipped"}]
  /\ \A i \in Items : item[i] = "skipped" =>
        plan.closing = {} /\ \A k \in Items : plan.parent[k] # i
  /\ pc = "idle"
  /\ cur = 1
  /\ verifyOnly = FALSE
  /\ wasCancelled = FALSE
  /\ result = "none"
  /\ flight = [i \in Items |-> 0]
  /\ applied = [i \in Items |-> 0]
  /\ sends = [i \in Items |-> 0]
  /\ stop = "none"
  /\ afterStop = 0

-----------------------------------------------------------------------------
(* Helpers *)

\* Mutant: whatever was under way is done again.
RecoveredPending ==
  [i \in Items |-> IF item[i] # "running" THEN item[i] ELSE "pending"]

\* recoverGalleryTask: a write that was under way is unknown, a read is redone.
Recovered ==
  [i \in Items |->
     IF item[i] # "running" THEN item[i]
     ELSE IF i \in Writes THEN "unknown" ELSE "pending"]

AfterRun ==
  IF command = "cancel" \/ wasCancelled THEN "cancelled"
  ELSE IF command = "pause" THEN "paused"
  ELSE IF \A i \in Items : item[i] \in Settled THEN "completed"
  ELSE IF \E i \in Items : item[i] \in Uncertain \cup {"failed"}
    THEN "attention"
  ELSE "paused"

\* galleryTaskTerminal: what the 30-day retention may drop.
Terminal ==
  \/ status = "completed"
  \/ /\ status = "cancelled"
     /\ \A i \in Items : item[i] \notin Uncertain \cup {"running"}

\* Mutant: a group that was skipped is as good as one that is there.
ReadySkippedGroup(i) ==
  /\ plan.parent[i] # 0 => item[plan.parent[i]] \in Settled
  /\ i \in plan.closing => \A k \in 1 .. i - 1 : item[k] \in Settled

\* An asset needs its new group, a manifest the verdict on every asset.
Ready(i) ==
  /\ plan.parent[i] # 0 => item[plan.parent[i]] = "confirmed"
  /\ i \in plan.closing => \A k \in 1 .. i - 1 : item[k] \in Settled

\* The calls of item i that may still land or have landed.
Alive(i) == flight[i] + applied[i]

Put(i, s) == item' = [item EXCEPT ![i] = s]
Go(p) == pc' = p
GoOn == pc' = "item" /\ cur' = cur + 1

-----------------------------------------------------------------------------
(* The runner *)

\* The first read of run(), before the awaited lookup of the context.
Start(only) ==
  /\ pc = "idle"
  /\ status \notin Gone \cup {"completed"}
  /\ status = "cancelled" => only
  /\ Go("starting")
  /\ verifyOnly' = only
  /\ wasCancelled' = (status = "cancelled")
  /\ stop' = "none"
  /\ afterStop' = 0
  /\ UNCHANGED <<record, cur, result, remote, sends>>

\* Fails when the record is gone, the context changed or the storage fails.
StartFails ==
  /\ pc = "starting"
  /\ Go("idle")
  /\ UNCHANGED <<record, cur, verifyOnly, wasCancelled, result, remote, history>>

Begin ==
  /\ pc = "starting"
  /\ status \notin Gone
  /\ item' = Recovered
  /\ status' = "running"
  /\ command' = "none"
  /\ Go("item")
  /\ cur' = 1
  /\ UNCHANGED <<verifyOnly, wasCancelled, result, remote, history>>

\* The head of the loop: one read of the record decides what to do.
TakeItem ==
  /\ pc = "item"
  /\ \/ /\ cur > N \/ command # "none"
        /\ Go("ending")
        /\ UNCHANGED cur
     \/ /\ cur \in Items /\ command = "none"
        /\ item[cur] \in Settled
        /\ GoOn
     \/ /\ cur \in Items /\ command = "none"
        /\ item[cur] \in Uncertain
        /\ Go("verify")
        /\ UNCHANGED cur
     \/ /\ cur \in Items /\ command = "none"
        /\ item[cur] \notin Settled \cup Uncertain
        /\ IF verifyOnly THEN GoOn ELSE Go("prepare") /\ UNCHANGED cur
  /\ UNCHANGED <<record, verifyOnly, wasCancelled, result, remote, history>>

\* A transaction or the context check throws; the record stays as it is.
Throws ==
  /\ pc \in {"item", "verify", "prepare", "recheck", "mark", "save"}
  /\ Go("ending")
  /\ UNCHANGED <<record, cur, verifyOnly, wasCancelled, result, remote, history>>

\* A read that does not find the effect, or fails, leaves the status alone.
Verify ==
  /\ pc = "verify"
  /\ \/ /\ applied[cur] > 0
        /\ Put(cur, "confirmed")
        /\ GoOn
     \/ /\ UNCHANGED <<item, cur>>
        /\ Go("ending")
  /\ UNCHANGED <<status, command, verifyOnly, wasCancelled, result, remote,
                 history>>

Prepare ==
  /\ pc = "prepare"
  /\ \/ Ready(cur) /\ Go("recheck") /\ UNCHANGED item
     \/ Put(cur, "failed") /\ Go("ending")
  /\ UNCHANGED <<status, command, cur, verifyOnly, wasCancelled, result, remote,
                 history>>

\* Mutant: the command is read at the head of the loop only.
RecheckNothing ==
  /\ pc = "recheck"
  /\ Go("mark")
  /\ UNCHANGED <<record, cur, verifyOnly, wasCancelled, result, remote, history>>

\* Pausing during a read must not allow a following write to slip through.
Recheck ==
  /\ pc = "recheck"
  /\ Go(IF command # "none" THEN "ending" ELSE "mark")
  /\ UNCHANGED <<record, cur, verifyOnly, wasCancelled, result, remote, history>>

\* Commit before the first side effect.
Mark ==
  /\ pc = "mark"
  /\ Put(cur, "running")
  /\ Go("execute")
  /\ UNCHANGED <<status, command, cur, verifyOnly, wasCancelled, result, remote,
                 history>>

\* Nothing is sent: the guard before an import write refuses, or the item is a
\* file handed to the browser.
ExecuteHere ==
  /\ pc = "execute"
  /\ result' \in IF cur \in Writes THEN {"failed"} ELSE {"failed", "confirmed"}
  /\ Go("save")
  /\ UNCHANGED <<record, cur, verifyOnly, wasCancelled, remote, history>>

Send ==
  /\ pc = "execute"
  /\ cur \in Writes
  /\ sends[cur] < MaxSends
  /\ flight' = [flight EXCEPT ![cur] = @ + 1]
  /\ sends' = [sends EXCEPT ![cur] = @ + 1]
  /\ afterStop' = IF stop = "none" THEN 0 ELSE afterStop + 1
  /\ Go("await")
  /\ UNCHANGED <<record, cur, verifyOnly, wasCancelled, result, applied, stop>>

\* Mutant: a call without an answer has failed.
AnswerLostFails ==
  /\ pc = "await"
  /\ result' = "failed"
  /\ Go("save")
  /\ UNCHANGED <<record, cur, verifyOnly, wasCancelled, remote, history>>

\* The answer: done, with or without an id; refused before any effect; or no
\* answer at all, while the call may still land.
Answer ==
  /\ pc = "await"
  /\ \/ /\ flight[cur] > 0
        /\ flight' = [flight EXCEPT ![cur] = @ - 1]
        /\ \/ /\ applied' = [applied EXCEPT ![cur] = @ + 1]
              /\ result' \in {"unconfirmed", "unknown"}
           \/ /\ result' = "failed"
              /\ UNCHANGED applied
     \/ /\ result' = "unknown"
        /\ UNCHANGED remote
  /\ Go("save")
  /\ UNCHANGED <<record, cur, verifyOnly, wasCancelled, history>>

Save ==
  /\ pc = "save"
  /\ Put(cur, result)
  /\ result' = "none"
  /\ \/ result = "unconfirmed" /\ Go("verify") /\ UNCHANGED cur
     \/ result = "confirmed" /\ GoOn
     \/ result \in {"failed", "unknown"} /\ Go("ending") /\ UNCHANGED cur
  /\ UNCHANGED <<status, command, verifyOnly, wasCancelled, remote, history>>

\* The finally block; when its transaction fails the task stays "running".
End ==
  /\ pc = "ending"
  /\ status' = AfterRun
  /\ command' = "none"
  /\ Go("idle")
  /\ UNCHANGED <<item, cur, verifyOnly, wasCancelled, result, remote, history>>

\* Also the fate of a tab that is closed, reloaded or crashes at any await.
Die ==
  /\ pc # "idle"
  /\ Go("idle")
  /\ result' = "none"
  /\ UNCHANGED <<record, cur, verifyOnly, wasCancelled, remote, history>>

-----------------------------------------------------------------------------
(* What any tab may do meanwhile *)

\* Mutant: only a task that was told to stop is taken over.
RecoverStopped ==
  /\ pc = "idle"
  /\ status = "running"
  /\ command # "none"
  /\ item' = Recovered
  /\ status' = IF command = "cancel" THEN "cancelled" ELSE "paused"
  /\ command' = "none"
  /\ UNCHANGED <<runner, remote, history>>

\* recover() takes the same lock, so it never touches a live run.
Recover ==
  /\ pc = "idle"
  /\ status = "running"
  /\ item' = Recovered
  /\ status' = IF command = "cancel" THEN "cancelled" ELSE "paused"
  /\ command' = "none"
  /\ UNCHANGED <<runner, remote, history>>

Command(c) ==
  /\ status \notin Gone \cup {"completed"}
  /\ IF status = "running"
       THEN command' = c /\ UNCHANGED status
       ELSE /\ status' = IF c = "cancel" THEN "cancelled" ELSE "paused"
            /\ command' = "none"
  /\ stop' = IF status # "running" \/ pc \in {"idle", "starting"} THEN "raced"
             ELSE IF pc \in {"mark", "execute"} THEN "late" ELSE "early"
  /\ afterStop' = 0
  /\ UNCHANGED <<item, runner, remote, sends>>

Skip(i) ==
  /\ status \notin Gone \cup {"running"}
  /\ item[i] # "confirmed"
  /\ Put(i, "skipped")
  /\ UNCHANGED <<status, command, runner, remote, history>>

\* By the user, or by the retention of list() once the record is old.
Drop ==
  /\ \/ status \notin Gone \cup {"running"} /\ status' = "removed"
     \/ Terminal /\ status' = "expired"
  /\ UNCHANGED <<command, item, runner, remote, history>>

\* A call nobody waits for any more lands, or is lost.
Late(i) ==
  /\ flight[i] > 0
  /\ pc = "await" => cur # i
  /\ flight' = [flight EXCEPT ![i] = @ - 1]
  /\ applied' \in {applied, [applied EXCEPT ![i] = @ + 1]}
  /\ UNCHANGED <<record, runner, history>>

Run ==
  \/ Begin \/ StartFails \/ TakeItem \/ Verify \/ Prepare \/ Recheck \/ Mark
  \/ ExecuteHere \/ Send \/ Answer \/ Save \/ End

TransferNext ==
  /\ \/ \E only \in BOOLEAN : Start(only)
     \/ Run
     \/ Throws
     \/ Die
     \/ Recover
     \/ \E c \in {"pause", "cancel"} : Command(c)
     \/ \E i \in Items : Skip(i) \/ Late(i)
     \/ Drop
  /\ UNCHANGED plan

TransferSpec == TransferInit /\ [][TransferNext]_transferVars

-----------------------------------------------------------------------------
(* Fairness: a live tab goes on, each awaited call ending in an answer or a *)
(* failure.  Whoever opens the workbench or presses refresh runs recover(), *)
(* which takes the lock when it is free; that it finds it free at last,     *)
(* between runs that others start, is the strong fairness.  The user's      *)
(* commands, the failures and the late calls are promised nothing.          *)

TransferLiveSpec ==
  /\ TransferSpec
  /\ WF_transferVars(Run /\ UNCHANGED plan)
  /\ SF_transferVars(Recover /\ UNCHANGED plan)

-----------------------------------------------------------------------------
(* Properties *)

\* A write that may land or has landed is never shown as pending or failed,
\* which is what lets the runner send an item; and the record of a task is
\* not dropped by age while such a write has no verdict.
ReceiptsKept ==
  \A i \in Writes :
    Alive(i) > 0 =>
      /\ item[i] \notin {"pending", "failed"}
      /\ status = "expired" => item[i] \in Settled

\* Nothing goes into a group that is not confirmed, and no manifest leaves
\* before every asset has its verdict, across pauses, deaths and new runs.
OrderHolds ==
  \A i \in Items : sends[i] > 0 =>
    /\ plan.parent[i] # 0 => item[plan.parent[i]] = "confirmed"
    /\ i \in plan.closing => \A k \in 1 .. i - 1 : item[k] \in Settled

\* After a pause or cancellation given to a task under way nothing more is
\* sent, except the one item whose preparation was over.
StopIsHeard ==
  /\ stop = "early" => afterStop = 0
  /\ stop = "late" => afterStop \leq 1

\* The same for every pause and cancellation, whenever it is given.
StopIsKept == afterStop \leq 1

\* Each write of the task keeps the promise of WriteAhead: its effect happens
\* at most once, whatever tab dies, whatever answer is lost.
Receipt(i) ==
  IF item[i] \in {"pending", "failed"} THEN "clear"
  ELSE IF item[i] \in Settled THEN "settled" ELSE "intent"

Promise == INSTANCE WriteAhead WITH
  Writes <- Items,
  receipt <- [i \in Items |-> Receipt(i)],
  live <- {i \in Items : flight[i] > 0},
  landed <- {i \in Items : applied[i] > 0}

KeepsPromise == Promise!Spec

\* A task does not stay "running" for ever: the run ends, or after the death
\* of its tab recover() takes the task over.
NeverStuckRunning == status = "running" ~> status # "running"
=============================================================================
