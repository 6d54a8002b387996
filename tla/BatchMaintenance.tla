-------------------------- MODULE BatchMaintenance --------------------------
(***************************************************************************)
(* A batch of product updates: the runner of one editor session            *)
(* (packages/core/src/product-batch-runner.ts), which previews every       *)
(* product, sends the confirmed updates one by one and reads each back     *)
(* before the next, with the jobs the back end keeps of them.              *)
(*                                                                         *)
(* The runner lives in the memory of one tab.  It is a single thread that  *)
(* awaits between two steps; the page may call stop() during any wait, and *)
(* the job of an update moves on the server meanwhile.  What a schema says *)
(* is left out: reading it again either agrees with the preview or not.    *)
(***************************************************************************)
EXTENDS Naturals, FiniteSetsExt, MutationJobs

CONSTANT Size  \* the number of products of the batch

Positions == 1 .. Size
None == "none"

ASSUME BatchAssumption == Size \in Nat \ {0}

VARIABLES
  \* ProductMaintenanceItem: state, whether requestId is set, the receipt
  state, request, job,
  \* the runner: its await, its position, the frozen selection, its flags, the
  \* fatal error in hand and the five minutes of the item being verified
  phase, index, targets, stopped, fatal, late,
  \* the update on its way to the back end, and the job it keeps
  update, server,
  \* history: an item was left because its five minutes ended during a wait
  overdue

items == <<state, request, job>>
session == <<phase, index, targets, stopped, fatal, late>>
backend == <<update, server>>
batchVars == <<items, session, backend, overdue>>

ItemStates ==
  {"reading", "ready", "unchanged", "unsupported", "failed", "conflict",
   "submitting", "pending", "verified", "unknown"}

BatchTypeOK ==
  /\ state \in [Positions -> ItemStates]
  /\ request \in [Positions -> BOOLEAN]
  /\ job \in [Positions -> Statuses \cup {None}]
  /\ phase \in {"preview", "previewed", "scope", "read", "send", "answer",
             "lookup", "wait", "refresh", "done"}
  /\ index \in Positions
  /\ targets \subseteq Positions
  /\ stopped \in BOOLEAN
  /\ fatal \in BOOLEAN
  /\ late \in BOOLEAN
  /\ update \in [Positions -> {"no", "way", "refused", "arrived"}]
  /\ server \in [Positions -> Statuses \cup {None}]
  /\ overdue \in BOOLEAN

BatchInit ==
  /\ state = [i \in Positions |-> "reading"]
  /\ request = [i \in Positions |-> FALSE]
  /\ job = [i \in Positions |-> None]
  /\ phase = "preview"
  /\ index = 1
  /\ targets = {}
  /\ stopped = FALSE
  /\ fatal = FALSE
  /\ late = FALSE
  /\ update = [i \in Positions |-> "no"]
  /\ server = [i \in Positions |-> None]
  /\ overdue = FALSE

-----------------------------------------------------------------------------
(* Helpers *)

Show(s) == state' = [state EXCEPT ![index] = s]
Receive(s) == job' = [job EXCEPT ![index] = s]
Reach(p) == phase' = p

\* The head of the loop: the next target, unless the batch is stopped.
Onward(stopping) ==
  LET left == {i \in targets : i > index} IN
    /\ stopped' = stopping
    /\ fatal' = FALSE
    /\ late' = FALSE
    /\ IF stopping \/ left = {}
         THEN phase' = "done" /\ index' = index
         ELSE phase' = "read" /\ index' = Min(left)

\* The loop of verify, whose time limit is set when the receipt is in.
ReadBack == Reach("wait") /\ UNCHANGED <<index, stopped, fatal, late>>

\* Mutant: whatever was under way is ready to be sent again.
StopHereForgets ==
  /\ Show("ready")
  /\ request' = [request EXCEPT ![index] = FALSE]
  /\ Onward(TRUE)

\* PRODUCT_BATCH_STOPPED: the receipt of an accepted write is kept, an update
\* that was not sent is not on record.
StopHere ==
  /\ Show(IF job[index] # None THEN "pending" ELSE "ready")
  /\ request' = [request EXCEPT ![index] = job[index] # None]
  /\ Onward(TRUE)

-----------------------------------------------------------------------------
(* The preview *)

\* latest and schema of the next product, or an error.
Preview ==
  /\ phase = "preview"
  /\ ~stopped
  /\ \E s \in {"ready", "unchanged", "unsupported", "failed"},
        isFatal \in BOOLEAN :
       /\ isFatal => s = "failed"
       /\ Show(s)
       /\ stopped' = isFatal
       /\ IF index = Size \/ isFatal
            THEN phase' = "previewed" /\ index' = index
            ELSE phase' = "preview" /\ index' = index + 1
  /\ UNCHANGED <<request, job, targets, fatal, late, backend, overdue>>

\* A stop during the preview: the product being read fails, or is left.
PreviewStopped ==
  /\ phase = "preview"
  /\ stopped
  /\ Show("failed") \/ UNCHANGED state
  /\ Reach("previewed")
  /\ UNCHANGED <<request, job, index, targets, stopped, fatal, late, backend,
                 overdue>>

-----------------------------------------------------------------------------
(* execute *)

\* The selection is frozen before the first await.
Execute ==
  /\ phase = "previewed"
  /\ \E chosen \in SUBSET {i \in Positions : state[i] = "ready"} :
       targets' = chosen
  /\ Reach("scope")
  /\ UNCHANGED <<items, index, stopped, fatal, late, backend, overdue>>

\* The first check of the account; a failure ends the batch.
ScopeChecked ==
  /\ phase = "scope"
  /\ \/ targets # {} /\ ~stopped /\ Reach("read") /\ index' = Min(targets)
     \/ Reach("done") /\ UNCHANGED index
  /\ UNCHANGED <<items, targets, stopped, fatal, late, backend, overdue>>

\* scope, latest and schema of the product: it is as it was previewed, so its
\* update is about to be sent under a fresh request id.
ReadAgain ==
  /\ phase = "read"
  /\ Show("submitting")
  /\ request' = [request EXCEPT ![index] = TRUE]
  /\ Reach("send")
  /\ UNCHANGED <<job, index, targets, stopped, fatal, late, backend, overdue>>

\* It changed, or cannot be read.
ReadOtherwise ==
  /\ phase = "read"
  /\ \/ Show("conflict") /\ Onward(stopped)
     \/ \E isFatal \in BOOLEAN : Show("failed") /\ Onward(stopped \/ isFatal)
  /\ UNCHANGED <<request, job, targets, backend, overdue>>

ReadStopped ==
  /\ phase = "read"
  /\ stopped
  /\ StopHere
  /\ UNCHANGED <<job, targets, backend, overdue>>

\* Mutant: call tests the flag before its pause of 300 ms only.
SendAnyway ==
  /\ phase = "send"
  /\ update' = [update EXCEPT ![index] = "way"]
  /\ Reach("answer")
  /\ UNCHANGED <<items, index, targets, stopped, fatal, late, server, overdue>>

\* call pauses, tests the flag and sends in one go.
SendUpdate ==
  /\ phase = "send"
  /\ ~stopped
  /\ update' = [update EXCEPT ![index] = "way"]
  /\ Reach("answer")
  /\ UNCHANGED <<items, index, targets, stopped, fatal, late, server, overdue>>

SendStopped ==
  /\ phase = "send"
  /\ stopped
  /\ StopHere
  /\ UNCHANGED <<job, targets, backend, overdue>>

\* The update was accepted and its receipt came back.  Five minutes of
\* verification begin, unless the batch was stopped.
Accepted ==
  /\ phase = "answer"
  /\ server[index] \notin {None, "submitted", "failed"}
  /\ Receive(server[index])
  /\ Show("pending")
  /\ IF stopped THEN Onward(TRUE) ELSE ReadBack
  /\ UNCHANGED <<request, targets, backend, overdue>>

\* An error instead of it: a refusal, a timeout, a lost answer.
NoReceipt ==
  /\ phase = "answer"
  /\ fatal' \in BOOLEAN
  /\ Reach("lookup")
  /\ UNCHANGED <<items, index, targets, stopped, late, backend, overdue>>

\* Mutant: without a row the update is taken for refused.
LookupTrusting ==
  /\ phase = "lookup"
  /\ Receive(server[index])
  /\ LET s == IF server[index] \in {None, "failed"} THEN "failed" ELSE "unknown"
     IN  Show(s) /\ Onward(stopped \/ fatal \/ s = "unknown")
  /\ UNCHANGED <<request, targets, backend, overdue>>

\* The list of jobs is searched for the request; the search may fail as well.
\* Only a failed job is a failure.
Lookup ==
  /\ phase = "lookup"
  /\ \E found \in {server[index], None} :
       LET s == IF found = "failed" THEN "failed" ELSE "unknown" IN
         /\ Receive(found)
         /\ Show(s)
         /\ Onward(stopped \/ fatal \/ s = "unknown")
  /\ UNCHANGED <<request, targets, backend, overdue>>

-----------------------------------------------------------------------------
(* verify *)

\* Mutant: the five minutes begin anew with every reading.
WaitedAnew ==
  /\ phase = "wait"
  /\ ~stopped
  /\ late' = FALSE
  /\ Reach("refresh")
  /\ UNCHANGED <<items, index, targets, stopped, fatal, backend, overdue>>

\* Five seconds pass and the job is asked for.
Waited ==
  /\ phase = "wait"
  /\ ~stopped /\ ~late
  /\ Reach("refresh")
  /\ UNCHANGED <<items, index, targets, stopped, fatal, late, backend, overdue>>

\* verify returns in the middle of its loop and does not stop the batch.
LeavePending ==
  /\ phase = "wait"
  /\ stopped \/ late
  /\ Onward(stopped)
  /\ overdue' = (overdue \/ ~stopped)
  /\ UNCHANGED <<items, targets, backend>>

\* Mutant: the loop is left without stopping the batch.
RefreshedGoesOn ==
  /\ phase = "refresh"
  /\ Receive(server[index])
  /\ IF server[index] \in {"verified", "failed"}
       THEN Show(server[index]) /\ Onward(stopped)
       ELSE /\ UNCHANGED state
            /\ IF stopped \/ late
                 THEN Onward(stopped)
                 ELSE ReadBack
  /\ UNCHANGED <<request, targets, backend, overdue>>

\* The job says how the update stands.  At the head of its loop verify stops
\* the batch when the five minutes are over.
Refreshed ==
  /\ phase = "refresh"
  /\ Receive(server[index])
  /\ IF server[index] \in {"verified", "failed"}
       THEN Show(server[index]) /\ Onward(stopped)
       ELSE /\ UNCHANGED state
            /\ IF stopped \/ late
                 THEN Onward(TRUE)
                 ELSE ReadBack
  /\ UNCHANGED <<request, targets, backend, overdue>>

\* The reason on the job is fatal, or the account or the job cannot be read:
\* the item stays pending and the batch stops.
RefreshFails ==
  /\ phase = "refresh"
  /\ job' \in {job, [job EXCEPT ![index] = server[index]]}
  /\ Onward(TRUE)
  /\ UNCHANGED <<state, request, targets, backend, overdue>>

RefreshStopped ==
  /\ phase = "refresh"
  /\ stopped
  /\ StopHere
  /\ UNCHANGED <<job, targets, backend, overdue>>

-----------------------------------------------------------------------------
(* The page, the clock and the back end *)

\* stop(): a button, another page, the end of the tab.
Stop ==
  /\ phase # "done"
  /\ ~stopped
  /\ stopped' = TRUE
  /\ UNCHANGED <<items, phase, index, targets, fatal, late, backend, overdue>>

FiveMinutesPass ==
  /\ phase \in {"wait", "refresh"}
  /\ ~late
  /\ late' = TRUE
  /\ UNCHANGED <<items, phase, index, targets, stopped, fatal, backend,
                 overdue>>

\* The back end records the update before it sends it on, or refuses it: the
\* product has an open job, updates are switched off, the account changed.
Arrives(i) ==
  /\ update[i] = "way"
  /\ \/ /\ update' = [update EXCEPT ![i] = "arrived"]
        /\ server' = [server EXCEPT ![i] = "submitted"]
     \/ /\ update' = [update EXCEPT ![i] = "refused"]
        /\ UNCHANGED server
  /\ UNCHANGED <<items, session, overdue>>

\* The job moves on: its own request, this runner's or another client's refresh.
JobMoves(i) ==
  /\ \E s \in Statuses \ {server[i]} :
       /\ MayMove(server[i], s)
       /\ server' = [server EXCEPT ![i] = s]
  /\ UNCHANGED <<items, session, update, overdue>>

Runs ==
  \/ Preview \/ PreviewStopped \/ ScopeChecked
  \/ ReadAgain \/ ReadOtherwise \/ ReadStopped
  \/ SendUpdate \/ SendStopped
  \/ Accepted \/ NoReceipt \/ Lookup
  \/ Waited \/ LeavePending
  \/ Refreshed \/ RefreshFails \/ RefreshStopped

BatchNext ==
  \/ Runs
  \/ Execute \/ Stop \/ FiveMinutesPass
  \/ \E i \in Positions : Arrives(i) \/ JobMoves(i)

BatchSpec == BatchInit /\ [][BatchNext]_batchVars

\* Every await of the runner ends: calls have a time limit, pauses are timers.
\* The five minutes pass.  Nothing is assumed of the page or the back end.
BatchLiveSpec ==
  BatchSpec /\ WF_batchVars(Runs) /\ WF_batchVars(FiveMinutesPass)

-----------------------------------------------------------------------------
(* Properties *)

Sent(i) == update[i] # "no"
Conclusive == {"verified", "failed"}

\* What an item says is true: one that is not under way was never sent and
\* claims no request; a failed one was never sent or its job failed; a verified
\* one has a verified job; and no update that left loses its request id, a stop
\* included (the three branches of the catch block and verify).
StatesAreTrue ==
  \A i \in Positions :
    /\ state[i] \in {"reading", "ready", "unchanged", "unsupported", "conflict"}
         => ~Sent(i) /\ ~request[i]
    /\ state[i] = "failed" => ~Sent(i) \/ server[i] = "failed"
    /\ state[i] = "verified" => server[i] = "verified"
    /\ state[i] = "pending" => job[i] # None
    /\ Sent(i) => request[i]

\* An update leaves only when every earlier one of the batch is settled: "An
\* accepted update still needs review/readback; no automatic writes to the next
\* item" (the comment in verify).
OneAtATime ==
  \A i, k \in Positions :
    i < k /\ Sent(i) /\ Sent(k) => state[i] \in Conclusive

\* An update leaves only while nobody has stopped the batch, whatever await the
\* stop fell into, and, unless the five minutes of an item ended during a pause
\* of verify, only when every earlier one is settled.
LeavesInTurn ==
  [][\A i \in Positions :
       ~Sent(i) /\ Sent(i)' =>
         /\ ~stopped
         /\ \/ overdue
            \/ \A k \in Positions : Sent(k) => state[k] \in Conclusive]_batchVars

\* An execution that began comes to its end, however the updates stand.
BatchEnds == phase = "scope" ~> phase = "done"

=============================================================================
