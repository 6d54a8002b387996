------------------------- MODULE ProductMutations -------------------------
(***************************************************************************)
(* Writes to existing Alibaba products through the BFF:                    *)
(* ProductMutationLifecycleService and SqlProductMutationJobRepository.    *)
(*                                                                         *)
(* Every HTTP request is one handler that runs interleaved with the others *)
(* and may be cut off between two awaits.  A handler is modelled step by   *)
(* step: what lies between two steps is an await during which the job      *)
(* table and the platform may change.  The platform is external: it takes  *)
(* a write some time after it was sent, refuses it, or loses it, and       *)
(* carries out what it took product by product.                            *)
(***************************************************************************)
EXTENDS MutationJobs, Naturals, FiniteSets

CONSTANTS
  Requests,     \* the HTTP requests of a behaviour, one handler each
  Products,     \* products known to the platform
  Contents,     \* what a schema update can write into a product
  Nil           \* no request, no job

\* A content is neither a display state nor what a failed read returns.
ASSUME MutationsAssumption ==
  /\ Contents \cap {"online", "offline", "auditing", "error", "retryable",
                     "pending"} = {}
  /\ Nil \notin Requests

VARIABLES
  job,      \* the rows of product_mutation_jobs, by <<request, product>>
  latest,   \* history: the request that last inserted a job for a product
  pc,       \* where each handler is
  req,      \* the local variables of each handler
  call,     \* what the platform made of the write a handler sent
  left,     \* the products of an accepted write it has still to carry out
  shelf,    \* the display state of a product on the platform
  content,  \* the schema content of a product on the platform
  review,   \* the products under platform review
  calm      \* the weather of a behaviour, chosen once: see below

vars == <<job, latest, pc, req, call, left, shelf, content, review, calm>>
handler == <<pc, req>>
platform == <<call, left, shelf, content, review>>

\* In a calm behaviour clients refresh and recover a job only when no handler
\* works on it, and the platform acts on a write before its handler has gone.
\* Nothing in the code sees to either; some properties hold only then.

Displays == {"online", "offline"}
Values == Displays \cup Contents
Jobs == Requests \X Products
Kinds == {"display", "update", "recover", "refresh", "none"}
Steps == {"idle", "check", "insert", "stored", "send", "wait", "settle",
          "settled", "giveup", "audit", "refresh", "restore", "done"}
Calls == {"none", "pending", "accepted", "partial", "rejected"}
Readings == Values \cup {"auditing", "error", "retryable", "pending"}

NoJob == [status |-> "none", kind |-> "none", rev |-> 0, target |-> "none",
          original |-> "none", recovery |-> FALSE, aged |-> FALSE]

NoRequest == [kind |-> "none", prods |-> {}, todo |-> {}, want |-> "none",
              seen |-> [p \in Products |-> "none"], job |-> Nil, rev |-> 0,
              verdict |-> "none"]

Open(j) == job[j].status \in BlockingStatuses

\* A product under review is listed as auditing, whatever its display state.
Shown(p) == IF p \in review THEN "auditing" ELSE shelf[p]

Init ==
  /\ job = [j \in Jobs |-> NoJob]
  /\ latest = [p \in Products |-> Nil]
  /\ pc = [r \in Requests |-> "idle"]
  /\ req = [r \in Requests |-> NoRequest]
  /\ call = [r \in Requests |-> "none"]
  /\ left = [r \in Requests |-> {}]
  /\ shelf \in [Products -> Displays]
  /\ content \in [Products -> Contents]
  /\ review = {}
  /\ calm \in BOOLEAN

---------------------------------------------------------------------------
(* The repository.                                                         *)

\* Mutant: a job that waits for manual recovery does not block.
UnblockedByRecovery(p) ==
  \A r \in Requests :
    job[<<r, p>>].status \notin BlockingStatuses \ {"recovery-required"}

\* findBlocking: no row with an open status for this product.
Unblocked(p) == \A r \in Requests : ~Open(<<r, p>>)

\* Mutant: no unique index, the check before the INSERT is trusted.
InsertUnindexed(r, p, kind, target, original) ==
  /\ job' = [job EXCEPT ![<<r, p>>] =
               [status |-> "submitted", kind |-> kind, rev |-> 1,
                target |-> target, original |-> original,
                recovery |-> FALSE, aged |-> FALSE]]
  /\ latest' = [latest EXCEPT ![p] = r]

\* The INSERT of create and createDisplay, guarded by the partial unique index
\* on product_id.
Insert(r, p, kind, target, original) ==
  /\ Unblocked(p)
  /\ job' = [job EXCEPT ![<<r, p>>] =
               [status |-> "submitted", kind |-> kind, rev |-> 1,
                target |-> target, original |-> original,
                recovery |-> FALSE, aged |-> FALSE]]
  /\ latest' = [latest EXCEPT ![p] = r]

\* Mutant: the revision is not compared.
CanTransitionAnyRevision(j, rev, status) == MayMove(job[j].status, status)

\* transition: the row must still be at the expected revision and the move be
\* a legal one; both the read and the UPDATE ... WHERE revision test it.
CanTransition(j, rev, status) ==
  /\ job[j].rev = rev
  /\ MayMove(job[j].status, status)

Transition(j, status) ==
  job' = [job EXCEPT ![j].status = status, ![j].rev = @ + 1]

\* The clock passes the two minutes a display change has to be confirmed.
Age(j) ==
  /\ Open(j)
  /\ ~job[j].aged
  /\ job' = [job EXCEPT ![j].aged = TRUE]
  /\ UNCHANGED <<latest, handler, platform>>

---------------------------------------------------------------------------
(* submitDisplay                                                           *)

\* The products of the request are listed and their display state remembered.
DisplayRead(r, ps, want) ==
  /\ pc[r] = "idle"
  /\ pc' = [pc EXCEPT ![r] = "check"]
  /\ req' = [req EXCEPT ![r] =
               [NoRequest EXCEPT !.kind = "display", !.prods = ps, !.todo = ps,
                                 !.want = want,
                                 !.seen = [p \in Products |->
                                   IF p \in ps THEN Shown(p) ELSE "none"]]]
  /\ UNCHANGED <<job, latest, platform>>

\* Each product in turn: no open job, not under review, a real change.  A
\* failed check ends the request (Abort).
DisplayCheck(r, p) ==
  /\ pc[r] = "check"
  /\ p \in req[r].todo
  /\ Unblocked(p)
  /\ req[r].seen[p] \in Displays \ {req[r].want}
  /\ LET rest == req[r].todo \ {p} IN
       /\ req' = [req EXCEPT ![r].todo =
                    IF rest = {} THEN req[r].prods ELSE rest]
       /\ pc' = [pc EXCEPT ![r] = IF rest = {} THEN "insert" ELSE "check"]
  /\ UNCHANGED <<job, latest, platform>>

\* One job row per product, inserted one after the other.
DisplayInsert(r, p) ==
  /\ pc[r] = "insert"
  /\ req[r].kind = "display"
  /\ p \in req[r].todo
  /\ Insert(r, p, "display", req[r].want, req[r].seen[p])
  /\ LET rest == req[r].todo \ {p} IN
       /\ req' = [req EXCEPT ![r].todo =
                    IF rest = {} THEN req[r].prods ELSE rest]
       /\ pc' = [pc EXCEPT ![r] = IF rest = {} THEN "send" ELSE "insert"]
  /\ UNCHANGED platform

\* An INSERT or an audit entry fails (the unique index among the reasons)
\* before anything is sent: the catch block turns to the rows already there.
DisplayInsertFails(r) ==
  /\ pc[r] \in {"insert", "send"}
  /\ req[r].kind = "display"
  /\ req' = [req EXCEPT ![r].todo = req[r].prods,
                        ![r].verdict = FailureStatus("unknown")]
  /\ pc' = [pc EXCEPT ![r] = "giveup"]
  /\ UNCHANGED <<job, latest, platform>>

\* The write was accepted: each job moves to verifying.  The revision the
\* handler was given after the INSERT may be a later one than 1, but a row that
\* was written since can no longer become verifying.
DisplaySettle(r, p) ==
  /\ pc[r] = "settle"
  /\ req[r].kind = "display"
  /\ p \in req[r].todo
  /\ CanTransition(<<r, p>>, 1, "verifying")
  /\ Transition(<<r, p>>, "verifying")
  /\ LET rest == req[r].todo \ {p} IN
       /\ req' = [req EXCEPT ![r].todo = rest]
       /\ pc' = [pc EXCEPT ![r] = IF rest = {} THEN "done" ELSE "settle"]
  /\ UNCHANGED <<latest, platform>>

\* The catch block: a job that is still submitted takes the failure status.
DisplayGiveUp(r, p) ==
  /\ pc[r] = "giveup"
  /\ req[r].kind = "display"
  /\ p \in req[r].todo
  /\ IF job[<<r, p>>].status = "submitted"
       THEN Transition(<<r, p>>, req[r].verdict)
       ELSE UNCHANGED job
  /\ LET rest == req[r].todo \ {p} IN
       /\ req' = [req EXCEPT ![r].todo = rest]
       /\ pc' = [pc EXCEPT ![r] = IF rest = {} THEN "done" ELSE "giveup"]
  /\ UNCHANGED <<latest, platform>>

---------------------------------------------------------------------------
(* submitUpdate                                                            *)

\* findBlocking on the product of the schema update.
UpdateCheck(r, p, want) ==
  /\ pc[r] = "idle"
  /\ Unblocked(p)
  /\ pc' = [pc EXCEPT ![r] = "insert"]
  /\ req' = [req EXCEPT ![r] =
               [NoRequest EXCEPT !.kind = "update", !.prods = {p}, !.todo = {p},
                                 !.want = want]]
  /\ UNCHANGED <<job, latest, platform>>

UpdateInsert(r, p) ==
  /\ pc[r] = "insert"
  /\ req[r].kind = "update"
  /\ p \in req[r].todo
  /\ Insert(r, p, "update", req[r].want, "none")
  /\ req' = [req EXCEPT ![r].job = <<r, p>>]
  /\ pc' = [pc EXCEPT ![r] = "stored"]
  /\ UNCHANGED platform

\* create and transition return the row by a SELECT of its own: a handler that
\* goes on works from the revision it finds there, whoever wrote it.
Reread(r) ==
  /\ pc[r] \in {"stored", "settled"}
  /\ req' = [req EXCEPT ![r].rev = job[req[r].job].rev]
  /\ pc' = [pc EXCEPT ![r] = IF pc[r] = "stored" THEN "send" ELSE "audit"]
  /\ UNCHANGED <<job, latest, platform>>

\* The update was accepted: the job waits for the platform's audit.
UpdateSettle(r, p) ==
  /\ pc[r] = "settle"
  /\ req[r].kind = "update"
  /\ p \in req[r].todo
  /\ CanTransition(<<r, p>>, req[r].rev, "auditing")
  /\ Transition(<<r, p>>, "auditing")
  /\ pc' = [pc EXCEPT ![r] = "settled"]
  /\ UNCHANGED <<req, latest, platform>>

\* The audit entry of the accepted update fails inside the try block, so the
\* catch block asks for manual recovery from the revision it has read back.
UpdateAuditFails(r, p) ==
  /\ pc[r] = "audit"
  /\ p \in req[r].todo
  /\ CanTransition(<<r, p>>, req[r].rev, FailureStatus("unknown"))
  /\ Transition(<<r, p>>, FailureStatus("unknown"))
  /\ pc' = [pc EXCEPT ![r] = "done"]
  /\ UNCHANGED <<req, latest, platform>>

\* The catch block of the update.
UpdateGiveUp(r, p) ==
  /\ pc[r] = "giveup"
  /\ req[r].kind = "update"
  /\ p \in req[r].todo
  /\ CanTransition(<<r, p>>, req[r].rev, req[r].verdict)
  /\ Transition(<<r, p>>, req[r].verdict)
  /\ pc' = [pc EXCEPT ![r] = "done"]
  /\ UNCHANGED <<req, latest, platform>>

---------------------------------------------------------------------------
(* The gateway call of a submission or of a recovery.                      *)

Send(r) ==
  /\ pc[r] = "send"
  /\ pc' = [pc EXCEPT ![r] = "wait"]
  /\ call' = [call EXCEPT ![r] = "pending"]
  /\ UNCHANGED <<job, latest, req, left, shelf, content, review>>

\* An explicit acceptance reaches the handler.
AnswerAccepted(r) ==
  /\ pc[r] = "wait"
  /\ call[r] = "accepted"
  /\ calm => left[r] = {}
  /\ pc' = [pc EXCEPT ![r] = "settle"]
  /\ UNCHANGED <<job, latest, req, platform>>

\* An explicit rejection reaches the handler.
AnswerRejected(r) ==
  /\ pc[r] = "wait"
  /\ call[r] = "rejected"
  /\ pc' = [pc EXCEPT ![r] = "giveup"]
  /\ req' = [req EXCEPT ![r].verdict = FailureStatus("rejected")]
  /\ UNCHANGED <<job, latest, platform>>

\* A timeout, a transport error, or a batch that was refused in part.
AnswerUnknown(r) ==
  /\ pc[r] = "wait"
  /\ pc' = [pc EXCEPT ![r] = "giveup"]
  /\ req' = [req EXCEPT ![r].verdict = FailureStatus("unknown")]
  /\ UNCHANGED <<job, latest, platform>>

\* The database refuses to record the acceptance: the catch block takes the
\* write for one whose result is unknown.
SettleFails(r) ==
  /\ pc[r] = "settle"
  /\ pc' = [pc EXCEPT ![r] = "giveup"]
  /\ req' = [req EXCEPT ![r].todo = req[r].prods,
                        ![r].verdict = FailureStatus("unknown")]
  /\ UNCHANGED <<job, latest, platform>>

---------------------------------------------------------------------------
(* refresh                                                                 *)

\* A handler that created the job, or is recovering it, is still running.
Busy(j) ==
  \E r \in Requests :
    \/ r = j[1] /\ pc[r] # "done"
    \/ req[r].kind = "recover" /\ req[r].job = j /\ pc[r] # "done"

\* What a read of the platform can return for a job: what it is listed as, or
\* the content it renders; an error, which is retryable when the network failed
\* or the product is under audit; for a guarded price update, a review that is
\* still pending.
ReadingsOf(j) ==
  {"error", "retryable"} \cup
    IF job[j].kind = "display" THEN {Shown(j[2])}
                               ELSE {content[j[2]], "pending"}

\* The handler loads the job, then reads the platform.  The row is tested for
\* the same revision again when it is written, so the two reads are one step.
RefreshRead(r, j) ==
  /\ pc[r] = "idle"
  /\ Open(j)
  /\ calm => ~Busy(j)
  /\ \E reading \in ReadingsOf(j) :
       req' = [req EXCEPT ![r] =
                 [NoRequest EXCEPT !.kind = "refresh", !.job = j,
                                   !.rev = job[j].rev, !.want = reading]]
  /\ pc' = [pc EXCEPT ![r] = "refresh"]
  /\ UNCHANGED <<job, latest, platform>>

Restoring(j) == job[j].status = "recovering" \/ job[j].recovery

\* What the catch block of refreshDisplay falls back to.
DisplayFallback(j) ==
  IF job[j].status = "recovery-required" \/ job[j].aged
    THEN "recovery-required"
    ELSE job[j].status

\* Mutant: a restored product is compared with the target, not the original.
DisplayVerdictOfTarget(j, reading) ==
  IF reading = job[j].target
    THEN IF Restoring(j) THEN "recovered" ELSE "verified"
    ELSE IF reading = "auditing" /\ ~Restoring(j) THEN "auditing"
    ELSE DisplayFallback(j)

\* The status refreshDisplay first asks for.
DisplayVerdict(j, reading) ==
  LET expected == IF Restoring(j) THEN job[j].original ELSE job[j].target IN
  CASE reading = "auditing" /\ ~Restoring(j) -> "auditing"
    [] reading = "auditing" /\ Restoring(j) ->
         IF job[j].status = "recovery-required" THEN "recovery-required"
                                                ELSE "recovering"
    [] reading = expected -> IF Restoring(j) THEN "recovered" ELSE "verified"
    [] OTHER -> DisplayFallback(j)

UpdateFallback(j, reading) ==
  StatusAfterRefreshError(job[j].status, reading = "retryable")

\* Mutant: any content that can be read back is taken for the one written.
UpdateVerdictAnyContent(j, reading) ==
  IF reading = "pending" THEN "auditing"
  ELSE IF reading \in Contents THEN "verified"
  ELSE UpdateFallback(j, reading)

\* The status refresh first asks for when it has compared the fingerprints.
UpdateVerdict(j, reading) ==
  IF reading = "pending" THEN "auditing"
  ELSE IF reading = job[j].target THEN "verified"
  ELSE IF reading \in Contents THEN "recovery-required"
  ELSE UpdateFallback(j, reading)

Verdict(j, reading) ==
  IF job[j].kind = "display" THEN DisplayVerdict(j, reading)
                             ELSE UpdateVerdict(j, reading)

\* An illegal move throws inside the try block, and the catch block writes the
\* fallback instead.
RefreshStatus(j, reading) ==
  LET verdict == Verdict(j, reading) IN
  IF MayMove(job[j].status, verdict) THEN verdict
  ELSE IF job[j].kind = "display" THEN DisplayFallback(j)
  ELSE UpdateFallback(j, "error")

RefreshWrite(r) ==
  LET j == req[r].job IN
  /\ pc[r] = "refresh"
  /\ CanTransition(j, req[r].rev, RefreshStatus(j, req[r].want))
  /\ Transition(j, RefreshStatus(j, req[r].want))
  /\ pc' = [pc EXCEPT ![r] = "done"]
  /\ UNCHANGED <<req, latest, platform>>

---------------------------------------------------------------------------
(* recover                                                                 *)

\* Only an unfinished display change that was not recovered before can be put
\* back, and only when the product is listed online or offline.
RecoverRead(r, j) ==
  /\ pc[r] = "idle"
  /\ job[j].kind = "display"
  /\ job[j].status \in {"submitted", "verifying", "recovery-required"}
  /\ ~job[j].recovery
  /\ calm => ~Busy(j)
  /\ Shown(j[2]) \in Displays
  /\ req' = [req EXCEPT ![r] =
               [NoRequest EXCEPT !.kind = "recover", !.prods = {j[2]},
                                 !.todo = {j[2]}, !.job = j,
                                 !.rev = job[j].rev,
                                 !.want = job[j].original,
                                 !.seen = [p \in Products |->
                                   IF p = j[2] THEN Shown(p) ELSE "none"]]]
  /\ pc' = [pc EXCEPT ![r] = "restore"]
  /\ UNCHANGED <<job, latest, platform>>

\* The product already is what it was: nothing to send.
RecoverMatched(r) ==
  LET j == req[r].job IN
  /\ pc[r] = "restore"
  /\ req[r].seen[j[2]] = req[r].want
  /\ CanTransition(j, req[r].rev, "recovered")
  /\ Transition(j, "recovered")
  /\ pc' = [pc EXCEPT ![r] = "done"]
  /\ UNCHANGED <<req, latest, platform>>

\* The intent is recorded before the write goes out.
RecoverIntent(r) ==
  LET j == req[r].job IN
  /\ pc[r] = "restore"
  /\ req[r].seen[j[2]] # req[r].want
  /\ req[r].seen[j[2]] = job[j].target
  /\ CanTransition(j, req[r].rev, "recovering")
  /\ job' = [job EXCEPT ![j].status = "recovering", ![j].rev = @ + 1,
                        ![j].recovery = TRUE]
  /\ pc' = [pc EXCEPT ![r] = "stored"]
  /\ UNCHANGED <<req, latest, platform>>

\* The recovery write was accepted.
RecoverSettle(r) ==
  LET j == req[r].job IN
  /\ pc[r] = "settle"
  /\ req[r].kind = "recover"
  /\ CanTransition(j, req[r].rev, "recovering")
  /\ Transition(j, "recovering")
  /\ pc' = [pc EXCEPT ![r] = "done"]
  /\ UNCHANGED <<req, latest, platform>>

\* The recovery write failed, whatever the reason.
RecoverGiveUp(r) ==
  LET j == req[r].job IN
  /\ pc[r] = "giveup"
  /\ req[r].kind = "recover"
  /\ CanTransition(j, req[r].rev, "recovery-required")
  /\ Transition(j, "recovery-required")
  /\ pc' = [pc EXCEPT ![r] = "done"]
  /\ UNCHANGED <<req, latest, platform>>

---------------------------------------------------------------------------
(* Failure of a handler: its worker is evicted, the database call throws, a *)
(* check or a version test refuses the request, the context has changed, or *)
(* the work is done.  Nothing more is written.                              *)
Abort(r) ==
  /\ pc[r] \notin {"idle", "done"}
  /\ pc' = [pc EXCEPT ![r] = "done"]
  /\ UNCHANGED <<job, latest, req, platform>>

---------------------------------------------------------------------------
(* The platform.                                                           *)

Attended(r) == calm => pc[r] = "wait"

\* The platform takes a write, all of it or, for a display batch, a part.
PlatformTake(r, ps) ==
  /\ call[r] = "pending"
  /\ Attended(r)
  /\ ps # {} /\ ps \subseteq req[r].prods
  /\ call' = [call EXCEPT ![r] =
                IF ps = req[r].prods THEN "accepted" ELSE "partial"]
  /\ left' = [left EXCEPT ![r] = ps]
  /\ UNCHANGED <<job, latest, handler, shelf, content, review>>

PlatformReject(r) ==
  /\ call[r] = "pending"
  /\ Attended(r)
  /\ call' = [call EXCEPT ![r] = "rejected"]
  /\ UNCHANGED <<job, latest, handler, left, shelf, content, review>>

\* An accepted write becomes visible; it may start a review of the product.
PlatformApply(r, p) ==
  /\ p \in left[r]
  /\ Attended(r)
  /\ left' = [left EXCEPT ![r] = @ \ {p}]
  /\ IF req[r].want \in Displays
       THEN shelf' = [shelf EXCEPT ![p] = req[r].want] /\ UNCHANGED content
       ELSE content' = [content EXCEPT ![p] = req[r].want] /\ UNCHANGED shelf
  /\ review' \in {review, review \cup {p}}
  /\ UNCHANGED <<job, latest, handler, call>>

ReviewEnds(p) ==
  /\ p \in review
  /\ review' = review \ {p}
  /\ UNCHANGED <<job, latest, handler, call, left, shelf, content>>

---------------------------------------------------------------------------
HandlerStep(r) ==
  \/ \E ps \in (SUBSET Products) \ {{}}, d \in Displays : DisplayRead(r, ps, d)
  \/ \E p \in Products : \/ DisplayCheck(r, p)
                         \/ DisplayInsert(r, p)
                         \/ DisplaySettle(r, p)
                         \/ DisplayGiveUp(r, p)
                         \/ UpdateInsert(r, p)
                         \/ UpdateSettle(r, p)
                         \/ UpdateAuditFails(r, p)
                         \/ UpdateGiveUp(r, p)
  \/ \E p \in Products, c \in Contents : UpdateCheck(r, p, c)
  \/ \E j \in Jobs : RefreshRead(r, j) \/ RecoverRead(r, j)
  \/ DisplayInsertFails(r)
  \/ Reread(r)
  \/ Send(r)
  \/ AnswerAccepted(r)
  \/ AnswerRejected(r)
  \/ AnswerUnknown(r)
  \/ SettleFails(r)
  \/ RefreshWrite(r)
  \/ RecoverMatched(r)
  \/ RecoverIntent(r)
  \/ RecoverSettle(r)
  \/ RecoverGiveUp(r)
  \/ Abort(r)

PlatformStep ==
  \/ \E r \in Requests, ps \in SUBSET Products : PlatformTake(r, ps)
  \/ \E r \in Requests : PlatformReject(r)
  \/ \E r \in Requests, p \in Products : PlatformApply(r, p)
  \/ \E p \in Products : ReviewEnds(p)

Next ==
  /\ \/ \E r \in Requests : HandlerStep(r)
     \/ \E j \in Jobs : Age(j)
     \/ PlatformStep
  /\ UNCHANGED calm

Spec == Init /\ [][Next]_vars

---------------------------------------------------------------------------
(* Properties.                                                             *)

JobRows ==
  [status : Statuses \cup {"none"}, kind : {"display", "update", "none"},
   rev : Nat, target : Values \cup {"none"}, original : Displays \cup {"none"},
   recovery : BOOLEAN, aged : BOOLEAN]

HandlerLocals ==
  [kind : Kinds, prods : SUBSET Products, todo : SUBSET Products,
   want : Readings \cup {"none"},
   seen : [Products -> Displays \cup {"auditing", "none"}],
   job : Jobs \cup {Nil}, rev : Nat,
   verdict : {"failed", "recovery-required", "none"}]

\* Every variable keeps its type: rows, handler locals and platform state.
TypeOK ==
  /\ job \in [Jobs -> JobRows]
  /\ latest \in [Products -> Requests \cup {Nil}]
  /\ pc \in [Requests -> Steps]
  /\ req \in [Requests -> HandlerLocals]
  /\ call \in [Requests -> Calls]
  /\ left \in [Requests -> SUBSET Products]
  /\ shelf \in [Products -> Displays]
  /\ content \in [Products -> Contents]
  /\ review \subseteq Products
  /\ calm \in BOOLEAN

\* The job a handler's write to a product belongs to.
Own(r, p) == IF req[r].kind = "recover" THEN req[r].job ELSE <<r, p>>

\* A product never has two unfinished jobs, whatever requests race for it and
\* whichever way jobs are refreshed, recovered or abandoned.
OneOpenJob ==
  \A p \in Products, r1, r2 \in Requests :
    Open(<<r1, p>>) /\ Open(<<r2, p>>) => r1 = r2

\* A job is put back at most once: of all the recover requests that race on it
\* only one ever sends the write, and only after the row says so.
RecoverOnce ==
  \A r1, r2 \in Requests :
    /\ req[r1].kind = "recover" /\ call[r1] # "none"
    /\ req[r2].kind = "recover" /\ call[r2] # "none"
    /\ req[r1].job = req[r2].job
    => r1 = r2

\* A failed job is proof that the platform did not take the write and never
\* will: nobody has to check the product by hand.
FailedNeverApplied ==
  \A r \in Requests, p \in Products :
    job[<<r, p>>].status = "failed" => call[r] = "rejected" /\ left[r] = {}

\* A write that leaves for a product with an unfinished job belongs to that job.
SendsForItsJob(r) ==
  call[r] = "none" /\ call'[r] = "pending" =>
    \A p \in req[r].prods, r2 \in Requests :
      Open(<<r2, p>>) => <<r2, p>> = Own(r, p)

\* No write leaves for a product that has another unfinished job.
OutboundRespectsOpenJobs == [][\A r \in Requests : SendsForItsJob(r)]_vars

\* The same in calm weather: what makes a job the lock of its product is that
\* nobody recovers it while the handler that holds it is still to send.
OutboundRespectsOpenJobsWhenCalm ==
  [][calm => \A r \in Requests : SendsForItsJob(r)]_vars

\* The last job of a product tells the truth when it is closed: verified means
\* that the product is what the job asked for, recovered that it is what it was.
\* It takes calm weather: a write that lands late undoes what was verified.
OutcomeHolds ==
  calm => \A p \in Products :
    latest[p] # Nil =>
      LET row == job[<<latest[p], p>>] IN
      /\ row.status = "verified" /\ row.kind = "display" => shelf[p] = row.target
      /\ row.status = "verified" /\ row.kind = "update" => content[p] = row.target
      /\ row.status = "recovered" => shelf[p] = row.original
===========================================================================
