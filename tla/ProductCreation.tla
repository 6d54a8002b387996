-------------------------- MODULE ProductCreation --------------------------
(***************************************************************************)
(* New products through the BFF: submitCreation, refreshCreation and the   *)
(* rows they share with the other mutation jobs.                           *)
(*                                                                         *)
(* A creation cannot be looked up before the platform has named the new    *)
(* product, so a repeated creation is the accident to avoid.  The row is   *)
(* locked by the fingerprint of its payload; once the platform has         *)
(* answered it also carries the product's id and shares the lock on that   *)
(* product with the display changes and schema updates of                  *)
(* ProductMutations.                                                       *)
(***************************************************************************)
EXTENDS MutationJobs, Naturals

CONSTANTS
  Requests,  \* the HTTP requests of a behaviour; a product is named after the
             \* request that creates it
  Payloads,  \* fingerprints of what can be published or saved as a draft
  Nil        \* no product, no job, no payload

ASSUME CreationAssumption == Nil \notin Requests /\ Nil \notin Payloads

VARIABLES
  job,     \* the creation rows, by the request that inserts them
  locked,  \* the new products another open job (an update) has locked
  pc,      \* where each handler is
  req,     \* the local variables of each handler
  call,    \* what the platform made of a creation
  made,    \* the products the platform created
  listed   \* the products the list or the draft schema shows

vars == <<job, locked, pc, req, call, made, listed>>
handler == <<pc, req>>
platform == <<call, made, listed>>

Steps == {"idle", "insert", "stored", "send", "wait", "settle", "giveup",
          "confirm", "refresh", "done"}
Calls == {"none", "pending", "accepted", "rejected"}

NoJob == [status |-> "none", payload |-> Nil, rev |-> 0, product |-> Nil,
          aged |-> FALSE]
NoRequest == [payload |-> Nil, job |-> Nil, rev |-> 0, found |-> FALSE,
              verdict |-> "none"]

Open(r) == job[r].status \in BlockingStatuses

Init ==
  /\ job = [r \in Requests |-> NoJob]
  /\ locked = {}
  /\ pc = [r \in Requests |-> "idle"]
  /\ req = [r \in Requests |-> NoRequest]
  /\ call = [r \in Requests |-> "none"]
  /\ made = {}
  /\ listed = {}

---------------------------------------------------------------------------
(* The repository.                                                         *)

\* findBlockingCreation, and the unique index on the fingerprint.
Unblocked(f) == \A r \in Requests : Open(r) => job[r].payload # f

CanTransition(r, rev, status) ==
  /\ job[r].rev = rev
  /\ MayMove(job[r].status, status)

Transition(r, status) ==
  job' = [job EXCEPT ![r].status = status, ![r].rev = @ + 1]

\* The clock passes the two minutes a creation has to be read back.
Age(r) ==
  /\ Open(r)
  /\ ~job[r].aged
  /\ job' = [job EXCEPT ![r].aged = TRUE]
  /\ UNCHANGED <<locked, handler, platform>>

\* Another job locks a product that exists: the unique index on product_id.
OtherOpens(p) ==
  /\ p \in listed \ locked
  /\ ~\E r \in Requests : Open(r) /\ job[r].product = p
  /\ locked' = locked \cup {p}
  /\ UNCHANGED <<job, handler, platform>>

OtherCloses(p) ==
  /\ p \in locked
  /\ locked' = locked \ {p}
  /\ UNCHANGED <<job, handler, platform>>

---------------------------------------------------------------------------
(* submitCreation                                                          *)

CreationCheck(r, f) ==
  /\ pc[r] = "idle"
  /\ Unblocked(f)
  /\ pc' = [pc EXCEPT ![r] = "insert"]
  /\ req' = [req EXCEPT ![r].payload = f]
  /\ UNCHANGED <<job, locked, platform>>

CreationInsert(r) ==
  /\ pc[r] = "insert"
  /\ Unblocked(req[r].payload)
  /\ job' = [job EXCEPT ![r] = [status |-> "submitted", payload |-> req[r].payload,
                                rev |-> 1, product |-> Nil, aged |-> FALSE]]
  /\ pc' = [pc EXCEPT ![r] = "stored"]
  /\ UNCHANGED <<locked, req, platform>>

\* createCreation returns the row by a SELECT of its own: the handler goes on
\* with the revision it finds there, whoever wrote it.
Reread(r) ==
  /\ pc[r] = "stored"
  /\ req' = [req EXCEPT ![r].job = r, ![r].rev = job[r].rev]
  /\ pc' = [pc EXCEPT ![r] = "send"]
  /\ UNCHANGED <<job, locked, platform>>

Send(r) ==
  /\ pc[r] = "send"
  /\ pc' = [pc EXCEPT ![r] = "wait"]
  /\ call' = [call EXCEPT ![r] = "pending"]
  /\ UNCHANGED <<job, locked, req, made, listed>>

AnswerAccepted(r) ==
  /\ pc[r] = "wait"
  /\ call[r] = "accepted"
  /\ pc' = [pc EXCEPT ![r] = "settle"]
  /\ UNCHANGED <<job, locked, req, platform>>

AnswerRejected(r) ==
  /\ pc[r] = "wait"
  /\ call[r] = "rejected"
  /\ pc' = [pc EXCEPT ![r] = "giveup"]
  /\ req' = [req EXCEPT ![r].verdict = FailureStatus("rejected")]
  /\ UNCHANGED <<job, locked, platform>>

\* A timeout, a transport error or an answer without a product id.
AnswerUnknown(r) ==
  /\ pc[r] = "wait"
  /\ pc' = [pc EXCEPT ![r] = "giveup"]
  /\ req' = [req EXCEPT ![r].verdict = FailureStatus("unknown")]
  /\ UNCHANGED <<job, locked, platform>>

\* The catch block.
CreationGiveUp(r) ==
  /\ pc[r] = "giveup"
  /\ CanTransition(r, req[r].rev, req[r].verdict)
  /\ Transition(r, req[r].verdict)
  /\ pc' = [pc EXCEPT ![r] = "done"]
  /\ UNCHANGED <<locked, req, platform>>

\* Mutant: the answer's product id is not stored.
CreationSettleNameless(r) ==
  /\ pc[r] = "settle"
  /\ CanTransition(r, req[r].rev, "verifying")
  /\ Transition(r, "verifying")
  /\ pc' = [pc EXCEPT ![r] = "confirm"]
  /\ UNCHANGED <<locked, req, platform>>

\* Mutant: the unique index does not cover the product the row takes over.
CreationSettleUnindexed(r) ==
  /\ pc[r] = "settle"
  /\ CanTransition(r, req[r].rev, "verifying")
  /\ job' = [job EXCEPT ![r].status = "verifying", ![r].rev = @ + 1,
                        ![r].product = r]
  /\ pc' = [pc EXCEPT ![r] = "confirm"]
  /\ UNCHANGED <<locked, req, platform>>

\* The acceptance and the product's id are recorded.  A version conflict or an
\* index violation is caught by nobody: the handler ends (Abort).
CreationSettle(r) ==
  /\ pc[r] = "settle"
  /\ CanTransition(r, req[r].rev, "verifying")
  /\ r \notin locked
  /\ job' = [job EXCEPT ![r].status = "verifying", ![r].rev = @ + 1,
                        ![r].product = r]
  /\ pc' = [pc EXCEPT ![r] = "confirm"]
  /\ UNCHANGED <<locked, req, platform>>

---------------------------------------------------------------------------
(* refreshCreation, at the end of a submission or on request               *)

\* What the handler reads back: whether the product is there.  Not listed yet,
\* a draft that cannot be rendered and a failed read all count as missing.
Readings(product) == IF product \in listed THEN BOOLEAN ELSE {FALSE}

\* The submission looks at once.  It reads its row and then the platform; the
\* row is tested for the same revision when it is written, so the two reads are
\* one step, here and in RefreshRead.
Confirm(r) ==
  /\ pc[r] = "confirm"
  /\ \E found \in Readings(r) :
       req' = [req EXCEPT ![r].rev = job[r].rev, ![r].found = found]
  /\ pc' = [pc EXCEPT ![r] = "refresh"]
  /\ UNCHANGED <<job, locked, platform>>

RefreshRead(r, j) ==
  /\ pc[r] = "idle"
  /\ Open(j)
  /\ \E found \in Readings(job[j].product) :
       req' = [req EXCEPT ![r].job = j, ![r].rev = job[j].rev, ![r].found = found]
  /\ pc' = [pc EXCEPT ![r] = "refresh"]
  /\ UNCHANGED <<job, locked, platform>>

\* Mutant: a creation that is not listed in time is taken for done.
RefreshStatusTimedOut(j, found) ==
  IF job[j].product = Nil THEN "recovery-required"
  ELSE IF found \/ job[j].aged THEN "verified" ELSE "verifying"

\* Mutant: a creation without an id is taken for one that failed.
RefreshStatusNameless(j, found) ==
  IF job[j].product = Nil THEN "failed"
  ELSE IF found THEN "verified"
  ELSE IF job[j].aged THEN "recovery-required" ELSE "verifying"

\* Without an id nothing can be read back: a person has to look.
RefreshStatus(j, found) ==
  IF job[j].product = Nil THEN "recovery-required"
  ELSE IF found THEN "verified"
  ELSE IF job[j].aged THEN "recovery-required" ELSE "verifying"

RefreshWrite(r) ==
  LET j == req[r].job
      status == RefreshStatus(j, req[r].found) IN
  /\ pc[r] = "refresh"
  /\ CanTransition(j, req[r].rev, status)
  /\ Transition(j, status)
  /\ pc' = [pc EXCEPT ![r] = "done"]
  /\ UNCHANGED <<locked, req, platform>>

\* A handler ends early: refused, evicted, conflicting or unable to write.
Abort(r) ==
  /\ pc[r] \notin {"idle", "done"}
  /\ pc' = [pc EXCEPT ![r] = "done"]
  /\ UNCHANGED <<job, locked, req, platform>>

---------------------------------------------------------------------------
(* The platform.                                                           *)

PlatformCreate(r) ==
  /\ call[r] = "pending"
  /\ call' = [call EXCEPT ![r] = "accepted"]
  /\ made' = made \cup {r}
  /\ UNCHANGED <<job, locked, handler, listed>>

PlatformReject(r) ==
  /\ call[r] = "pending"
  /\ call' = [call EXCEPT ![r] = "rejected"]
  /\ UNCHANGED <<job, locked, handler, made, listed>>

PlatformList(r) ==
  /\ r \in made \ listed
  /\ listed' = listed \cup {r}
  /\ UNCHANGED <<job, locked, handler, call, made>>

---------------------------------------------------------------------------
Next ==
  \E r \in Requests :
    \/ \E f \in Payloads : CreationCheck(r, f)
    \/ CreationInsert(r)
    \/ Reread(r)
    \/ Send(r)
    \/ AnswerAccepted(r)
    \/ AnswerRejected(r)
    \/ AnswerUnknown(r)
    \/ CreationGiveUp(r)
    \/ CreationSettle(r)
    \/ Confirm(r)
    \/ \E j \in Requests : RefreshRead(r, j)
    \/ RefreshWrite(r)
    \/ Abort(r)
    \/ Age(r)
    \/ OtherOpens(r)
    \/ OtherCloses(r)
    \/ PlatformCreate(r)
    \/ PlatformReject(r)
    \/ PlatformList(r)

Spec == Init /\ [][Next]_vars

---------------------------------------------------------------------------
(* Properties.                                                             *)

\* Every variable keeps its type: rows, handler locals, platform state.
TypeOK ==
  /\ job \in [Requests -> [status : Statuses \cup {"none"},
                           payload : Payloads \cup {Nil}, rev : Nat,
                           product : Requests \cup {Nil}, aged : BOOLEAN]]
  /\ locked \subseteq Requests
  /\ pc \in [Requests -> Steps]
  /\ req \in [Requests -> [payload : Payloads \cup {Nil},
                           job : Requests \cup {Nil}, rev : Nat,
                           found : BOOLEAN,
                           verdict : {"failed", "recovery-required", "none"}]]
  /\ call \in [Requests -> Calls]
  /\ made \subseteq Requests
  /\ listed \subseteq made

\* Two requests with the same payload never both have an unfinished creation.
OneOpenCreation ==
  \A r1, r2 \in Requests :
    Open(r1) /\ Open(r2) /\ job[r1].payload = job[r2].payload => r1 = r2

\* The outcome of a creation is known for good: the platform refused it, or the
\* product was seen.
Known(r) ==
  \/ job[r].status = "failed" /\ call[r] = "rejected"
  \/ job[r].status = "verified" /\ r \in listed

\* A creation leaves only when the outcome of every other one with the same
\* payload that ever left is known: a lost answer, a crash or a refresh that
\* overtakes the answer never leads to the same product being made twice.
NoBlindRepeat ==
  [][\A r1, r2 \in Requests :
       /\ call[r1] = "none" /\ call'[r1] = "pending"
       /\ r1 # r2 /\ call[r2] # "none" /\ req[r1].payload = req[r2].payload
       => Known(r2)]_vars

\* A row that says the platform accepted the creation names the product made
\* for it, and a product id is never given up once it is known.
AcceptedKeepsProduct ==
  /\ \A r \in Requests :
       job[r].status \in {"verifying", "verified"} => job[r].product = r
  /\ \A r \in Requests : job[r].product # Nil => job[r].product = r /\ r \in made

\* A failed creation made nothing and never will.
FailedMadeNothing ==
  \A r \in Requests :
    job[r].status = "failed" => call[r] = "rejected" /\ r \notin made

\* A new product is locked by its creation or by another job, never by both.
OneLockPerProduct ==
  \A r \in Requests : Open(r) /\ job[r].product = r => r \notin locked
===========================================================================
