------------------------- MODULE ExtensionMutations -------------------------
(* Product writes sent by the browser extension on its own:                *)
(* ExtensionProductDisplayMutationLifecycle. It keeps the jobs of          *)
(* MutationJobs in chrome.storage.local, runs one operation at a time in   *)
(* the service worker (#exclusive), and may lose the worker, or a storage  *)
(* write, between any two steps of that operation; the next worker finds   *)
(* only what was stored.                                                   *)
(* Left out: revisions (a request with a stale one changes nothing),       *)
(* fingerprints of fields, prices and texts. The two minutes of a          *)
(* verification may be over at any refresh. A refresh reads the platform   *)
(* and stores its verdict in one step: only the platform moves between.    *)
EXTENDS MutationJobs

CONSTANTS Ids,        \* the jobs that may be created
          Products,   \* the products that can be shown, hidden and updated
          Payloads    \* the contents that can be published or drafted

ASSUME ExtensionAssumption == Products \cap Payloads = {}

VARIABLES job,        \* the stored jobs
          work,       \* the operation under way in the worker
          call,       \* what became of the write of a job
          undo,       \* what became of its recovery write
          shelf       \* the display state of each product on the platform

vars == <<job, work, call, undo, shelf>>

Displays == {"online", "offline"}
Other(d) == IF d = "online" THEN "offline" ELSE "online"

Kinds == {"display", "update", "create"}
Keys == Products \cup Payloads
Calls == {"none", "sent", "taken", "applied", "refused"}

(* "absent": not created yet; "pruned": dropped from the storage.          *)
NoJob == [status |-> "absent"]
Job == [status : Statuses \cup {"pruned"}, kind : Kinds, key : Keys, target : Displays,
        recovery : BOOLEAN, resolved : BOOLEAN]

Idle == [at |-> "idle"]
Work == [at : {"store"}, kind : Kinds, keys : SUBSET Keys, target : Displays]
        \cup [at : {"send", "wait", "readback", "restore", "restoring"},
              ids : SUBSET Ids]

TypeOK ==
  /\ job \in [Ids -> Job \cup {NoJob}]
  /\ work \in Work \cup {Idle}
  /\ call \in [Ids -> Calls] /\ undo \in [Ids -> Calls]
  /\ shelf \in [Products -> Displays]
  /\ \A i \in Ids : job[i] = NoJob => call[i] = "none" /\ undo[i] = "none"

Init ==
  /\ job = [i \in Ids |-> NoJob]
  /\ work = Idle
  /\ call = [i \in Ids |-> "none"]
  /\ undo = [i \in Ids |-> "none"]
  /\ shelf \in [Products -> Displays]

---------------------------------------------------------------------------
(* The storage.                                                            *)

Stored == {i \in Ids : job[i].status \in Statuses}
Blocking(i) == i \in Stored /\ job[i].status \in BlockingStatuses

\* #writeJobs drops the terminal jobs older than thirty days, or beyond the
\* hundred last ones, whenever it stores a change.
Retained(jobs) ==
  {[i \in Ids |-> IF i \in old THEN [jobs[i] EXCEPT !.status = "pruned"]
                  ELSE jobs[i]] :
     old \in SUBSET {i \in Ids : jobs[i].status \in TerminalStatuses}}

Write(jobs) == job' \in Retained(jobs)

Transition(ids, status) ==
  Write([i \in Ids |-> IF i \in ids THEN [job[i] EXCEPT !.status = status]
                       ELSE job[i]])

---------------------------------------------------------------------------
(* submit, submitUpdate and submitCreation                                 *)

\* Mutant: a verified creation does not block.
FreeOnceVerified(kind, k) ==
  \A i \in Stored : job[i].key = k => job[i].status \notin BlockingStatuses

\* A key is free when no stored job blocks it; a payload that was accepted
\* stays taken as long as its job is kept.
Free(kind, k) ==
  \A i \in Stored : job[i].key = k =>
    /\ job[i].status \notin BlockingStatuses
    /\ kind = "create" => job[i].status # "verified"

Begin(kind, keys, target) ==
  /\ work = Idle
  /\ \A k \in keys : Free(kind, k)
  /\ work' = [at |-> "store", kind |-> kind, keys |-> keys, target |-> target]
  /\ UNCHANGED <<job, call, undo, shelf>>

\* Every product of the request is read, and must be in the other state.
SubmitDisplay ==
  \E prods \in (SUBSET Products) \ {{}}, d \in Displays :
    /\ \A p \in prods : shelf[p] = Other(d)
    /\ Begin("display", prods, d)

SubmitUpdate == \E p \in Products : Begin("update", {p}, "online")

SubmitCreation == \E x \in Payloads : Begin("create", {x}, "online")

\* The jobs are stored as submitted before anything leaves.
Store ==
  /\ work.at = "store"
  /\ \E f \in [work.keys -> {i \in Ids : job[i] = NoJob}] :
       LET ids == {f[k] : k \in work.keys}
           new(i) == [status |-> "submitted", kind |-> work.kind,
                      key |-> CHOOSE k \in work.keys : f[k] = i,
                      target |-> work.target, recovery |-> FALSE,
                      resolved |-> work.kind # "create"]
       IN
       /\ \A k, l \in work.keys : f[k] = f[l] => k = l
       /\ Write([i \in Ids |-> IF i \in ids THEN new(i) ELSE job[i]])
       /\ work' = [at |-> "send", ids |-> ids]
  /\ UNCHANGED <<call, undo, shelf>>

Send ==
  /\ work.at = "send"
  /\ call' = [i \in Ids |-> IF i \in work.ids THEN "sent" ELSE call[i]]
  /\ work' = [work EXCEPT !.at = "wait"]
  /\ UNCHANGED <<job, undo, shelf>>

\* Mutant: an answer that did not come is taken for a refusal.
OutcomesOrRejected(calls, ids) ==
  {"rejected"}
  \cup (IF \A i \in ids : calls[i] \in {"taken", "applied"}
        THEN {"accepted"} ELSE {})

\* What an explicit answer may be; no answer at all is an error as well.
Outcomes(calls, ids) ==
  {"unknown"}
  \cup (IF \A i \in ids : calls[i] \in {"taken", "applied"}
        THEN {"accepted"} ELSE {})
  \cup (IF \A i \in ids : calls[i] = "refused" THEN {"rejected"} ELSE {})

Accepted(kind) == IF kind = "update" THEN "auditing" ELSE "verifying"

\* An accepted creation stores its product id and is read back at once.
Answer ==
  /\ work.at = "wait"
  /\ LET kind == job[CHOOSE i \in work.ids : TRUE].kind IN
     \E outcome \in Outcomes(call, work.ids) :
       IF outcome = "accepted"
       THEN /\ Write([i \in Ids |->
                 IF i \in work.ids
                 THEN [job[i] EXCEPT !.status = Accepted(kind),
                                     !.resolved = TRUE]
                 ELSE job[i]])
            /\ work' = IF kind = "create" THEN [work EXCEPT !.at = "readback"]
                       ELSE Idle
       ELSE Transition(work.ids, FailureStatus(outcome)) /\ work' = Idle
  /\ UNCHANGED <<call, undo, shelf>>

---------------------------------------------------------------------------
(* refresh and completeUpdateReadback                                      *)

\* What a list shows of a product: a review hides its state, a read may fail.
Readings(p) == {shelf[p], "auditing", "error"}

\* The verdict of a refresh on a display job, by the status, what was read and
\* whether the time is up.
DisplayVerdict(j, shown, timedOut) ==
  LET recovering == j.status = "recovering" \/ j.recovery
      expected == IF recovering THEN Other(j.target) ELSE j.target
      waits == IF j.status = "recovery-required" \/ timedOut
               THEN "recovery-required" ELSE j.status
  IN
  CASE shown = "error" -> waits
    [] shown = "auditing" -> IF recovering THEN "recovering" ELSE "auditing"
    [] shown = Other(j.target) /\ j.status = "recovery-required" -> "recovered"
    [] shown = expected -> IF recovering THEN "recovered" ELSE "verified"
    [] OTHER -> waits

RefreshDisplay(i) ==
  /\ work = Idle /\ Blocking(i) /\ job[i].kind = "display"
  /\ \E shown \in Readings(job[i].key), timedOut \in BOOLEAN :
       Transition({i}, DisplayVerdict(job[i], shown, timedOut))
  /\ UNCHANGED <<work, call, undo, shelf>>

\* A creation without a product id can only be looked into by hand.
CreationVerdicts(i) ==
  IF ~job[i].resolved THEN {"recovery-required"}
  ELSE {"verifying", "recovery-required"}
       \cup (IF call[i] = "applied" THEN {"verified"} ELSE {})

RefreshCreation(i) ==
  /\ \/ /\ work = Idle /\ Blocking(i) /\ job[i].kind = "create"
        /\ job[i].resolved \/ job[i].status # "recovery-required"
     \/ work.at = "readback" /\ work.ids = {i}
  /\ \E verdict \in CreationVerdicts(i) : Transition({i}, verdict)
  /\ work' = Idle
  /\ UNCHANGED <<call, undo, shelf>>

\* The options page compares the fields, or reports the error of its read.
CompleteUpdateReadback(i) ==
  /\ work = Idle /\ Blocking(i) /\ job[i].kind = "update"
  /\ \/ call[i] = "applied" /\ Transition({i}, "verified")
     \/ Transition({i}, "auditing")                \* price still in review
     \/ Transition({i}, "recovery-required")
     \/ \E waits \in BOOLEAN :
          Transition({i}, StatusAfterRefreshError(job[i].status, waits))
  /\ UNCHANGED <<work, call, undo, shelf>>

---------------------------------------------------------------------------
(* recover                                                                 *)

\* Mutant: the mark of an earlier recovery is not looked at.
RecoverableAgain(i) ==
  /\ Blocking(i) /\ job[i].kind = "display"
  /\ job[i].status \in {"submitted", "verifying", "recovery-required"}

Recoverable(i) ==
  /\ Blocking(i) /\ job[i].kind = "display" /\ ~job[i].recovery
  /\ job[i].status \in {"submitted", "verifying", "recovery-required"}

\* Mutant: the job is closed before the recovery write, not after it.
RecoverClosed(i) ==
  /\ work = Idle /\ Recoverable(i)
  /\ shelf[job[i].key] = job[i].target
  /\ Write([job EXCEPT ![i].status = "recovered", ![i].recovery = TRUE])
  /\ work' = [at |-> "restore", ids |-> {i}]
  /\ UNCHANGED <<call, undo, shelf>>

\* Nothing to restore, or the intent is stored before the recovery write.
Recover(i) ==
  /\ work = Idle /\ Recoverable(i)
  /\ \/ /\ shelf[job[i].key] = Other(job[i].target)
        /\ Transition({i}, "recovered")
        /\ UNCHANGED work
     \/ /\ shelf[job[i].key] = job[i].target
        /\ Write([job EXCEPT ![i].status = "recovering", ![i].recovery = TRUE])
        /\ work' = [at |-> "restore", ids |-> {i}]
  /\ UNCHANGED <<call, undo, shelf>>

Restore ==
  /\ work.at = "restore"
  /\ undo' = [i \in Ids |-> IF i \in work.ids THEN "sent" ELSE undo[i]]
  /\ work' = [work EXCEPT !.at = "restoring"]
  /\ UNCHANGED <<job, call, shelf>>

AnswerRestore ==
  /\ work.at = "restoring"
  /\ \E outcome \in Outcomes(undo, work.ids) :
       Transition(work.ids, IF outcome = "accepted" THEN "recovering"
                            ELSE FailureStatus(outcome))
  /\ work' = Idle
  /\ UNCHANGED <<call, undo, shelf>>

---------------------------------------------------------------------------
(* The worker and the platform.                                            *)

\* The service worker is stopped, a storage write throws, or a read does.
Die ==
  /\ work # Idle
  /\ work' = Idle
  /\ UNCHANGED <<job, call, undo, shelf>>

\* The platform takes a write, or refuses it, or never gets it; it carries out
\* what it took later, even if nobody waits for the answer any more.
Decide(i) ==
  /\ \/ /\ call[i] = "sent"
        /\ \E c \in {"taken", "refused"} : call' = [call EXCEPT ![i] = c]
        /\ UNCHANGED undo
     \/ /\ undo[i] = "sent"
        /\ \E c \in {"taken", "refused"} : undo' = [undo EXCEPT ![i] = c]
        /\ UNCHANGED call
  /\ UNCHANGED <<job, work, shelf>>

Shows(i, d) ==
  shelf' = IF job[i].kind = "display"
           THEN [shelf EXCEPT ![job[i].key] = d] ELSE shelf

Apply(i) ==
  /\ \/ /\ call[i] = "taken"
        /\ call' = [call EXCEPT ![i] = "applied"]
        /\ Shows(i, job[i].target) /\ UNCHANGED undo
     \/ /\ undo[i] = "taken"
        /\ undo' = [undo EXCEPT ![i] = "applied"]
        /\ Shows(i, Other(job[i].target)) /\ UNCHANGED call
  /\ UNCHANGED <<job, work>>

Next ==
  \/ SubmitDisplay \/ SubmitUpdate \/ SubmitCreation \/ Store \/ Send \/ Answer
  \/ Restore \/ AnswerRestore \/ Die
  \/ \E i \in Ids :
       \/ RefreshDisplay(i) \/ RefreshCreation(i) \/ CompleteUpdateReadback(i)
       \/ Recover(i) \/ Decide(i) \/ Apply(i)

Spec == Init /\ [][Next]_vars

---------------------------------------------------------------------------
(* Properties                                                              *)

\* At most one unfinished job per product or payload in the storage, although
\* nothing but the order of the operations keeps two apart.
OneOpenJob ==
  \A i, j \in Ids :
    Blocking(i) /\ Blocking(j) /\ job[i].key = job[j].key => i = j

\* No write leaves while another job of its product is unfinished, not even
\* after a worker died between the storing of its job and the sending.
OutboundRespectsOpenJobs ==
  [][\A i \in Ids :
       (call[i] = "none" /\ call'[i] = "sent")
         \/ (undo[i] = "none" /\ undo'[i] = "sent") =>
       /\ Blocking(i)
       /\ \A j \in Ids \ {i} : Blocking(j) => job[j].key # job[i].key]_vars

\* The product is put back by one recovery write at most per job, whatever
\* answer was lost and however often the worker died.
RestoreOnce ==
  [][\A i \in Ids : undo'[i] = "sent" => undo[i] \in {"none", "sent"}]_vars

\* A job that failed, and whose product nobody tried to put back, changed
\* nothing and never will: a lost answer is not taken for a refusal.
FailedNeverApplied ==
  \A i \in Stored :
    job[i].status = "failed" /\ ~job[i].recovery => call[i] = "refused"

\* The same content is not created twice while the record of the first
\* creation is kept, whatever answer was lost.
CreatedOnce ==
  \A i, j \in Stored :
    /\ job[i].kind = "create" /\ job[j].kind = "create"
    /\ job[i].key = job[j].key
    /\ call[i] \notin {"none", "refused"} /\ call[j] \notin {"none", "refused"}
    => i = j
===========================================================================
