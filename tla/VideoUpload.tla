---------------------------- MODULE VideoUpload ----------------------------
(***************************************************************************)
(* One video upload task (packages/core/src/video-upload-service.ts): a    *)
(* row that every command reads once and then writes by compare-and-swap   *)
(* on its revision, a 90-second lease on the row, the multipart upload at  *)
(* the object store, and the one submission to the video platform.         *)
(*                                                                         *)
(* loc[r] is the copy of the row a request works on and current the set    *)
(* of requests whose copy carries the revision of the row: a write is a    *)
(* conflict for everybody else, and revisions need no counter.  A call     *)
(* that left may arrive after its request gave up, or never.  Bytes,       *)
(* hashes, titles and signed addresses are left out.                       *)
(***************************************************************************)
EXTENDS Naturals, FiniteSets

CONSTANTS
  Requests,  \* commands under way at once
  P          \* the number of parts of the file

Parts == 1 .. P

ASSUME VideoAssumption == P \in Nat \ {0}

VARIABLES
  source,   \* "file" or "url", frozen by create
  row,      \* the stored record
  lapsed,   \* the lease of the row has run out
  current,  \* the requests that hold the present revision
  loc, act, part, at,  \* per request: its copy, its command, where it stands
  wire,     \* per request: the call it made
  multi,    \* the multipart upload at the store
  stored,   \* the parts the store holds
  object,   \* the assembled object exists
  posted,   \* submissions the platform took
  visible,  \* the new video can be found
  sent      \* history: the kinds of calls that left

memory == <<loc, act, part, at>>
outside == <<multi, stored, object, posted, visible>>
uploadVars == <<source, row, lapsed, current, memory, wire, outside, sent>>

Closed == {"confirmed", "cancelled"}
UploadStatuses ==
  {"prepared", "staging", "staged", "submitting", "accepted", "needs-review"}
    \cup Closed
Actions ==
  {"initiate", "part", "complete", "submit", "verify", "reconcile", "cancel"}
Kinds == {"create", "part", "complete", "abort", "submit"}

\* The call a command makes, if any.
KindOf ==
  [a \in Actions |->
     CASE a = "initiate" -> "create" [] a = "cancel" -> "abort"
       [] a \in Kinds -> a [] OTHER -> "none"]

Record ==
  [status : UploadStatuses, upload : BOOLEAN, complete : BOOLEAN,
   submit : BOOLEAN, cancel : BOOLEAN, busy : Actions \cup {"none"},
   parts : [Parts -> {"pending", "in-flight", "unknown", "confirmed"}]]

NoCall == [kind |-> "none", part |-> 1, state |-> "none"]

UploadTypeOK ==
  /\ source \in {"file", "url"}
  /\ row \in Record
  /\ lapsed \in BOOLEAN
  /\ current \subseteq Requests
  /\ loc \in [Requests -> Record]
  /\ act \in [Requests -> Actions]
  /\ part \in [Requests -> Parts]
  /\ at \in [Requests -> {"idle", "taking", "work", "sending", "called",
                          "object", "reading", "removal", "finish",
                          "failing"}]
  /\ wire \in [Requests ->
       {NoCall} \cup
       [kind : Kinds, part : Parts, state : {"pending", "done", "refused"}]]
  /\ multi \in {"none", "open", "completed", "aborted"}
  /\ stored \subseteq Parts
  /\ object \in BOOLEAN
  /\ posted \in Nat
  /\ visible \in BOOLEAN
  /\ sent \subseteq Kinds

NewRecord ==
  [status |-> "prepared", upload |-> FALSE, complete |-> FALSE,
   submit |-> FALSE, cancel |-> FALSE, busy |-> "none",
   parts |-> [p \in Parts |-> "pending"]]

UploadInit ==
  /\ source \in {"file", "url"}
  /\ row = NewRecord
  /\ lapsed = FALSE
  /\ current = {}
  /\ loc = [r \in Requests |-> NewRecord]
  /\ act = [r \in Requests |-> "verify"]
  /\ part = [r \in Requests |-> 1]
  /\ at = [r \in Requests |-> "idle"]
  /\ wire = [r \in Requests |-> NoCall]
  /\ multi = "none"
  /\ stored = {}
  /\ object = FALSE
  /\ posted = 0
  /\ visible = FALSE
  /\ sent = {}

-----------------------------------------------------------------------------
(* Helpers *)

Goto(r, p) == at' = [at EXCEPT ![r] = p]
Keep(r, rec) == loc' = [loc EXCEPT ![r] = rec]

\* Mutant: the revision is not tested.
SaveAnyRevision(r, rec, renewed) ==
  /\ row' = rec
  /\ current' = {r}
  /\ lapsed' = (lapsed /\ ~renewed /\ rec.busy # "none")

\* save(): the row takes rec if its revision is still the one r read; a new
\* deadline, or none, ends the lapse.
SaveRow(r, rec, renewed) ==
  /\ r \in current
  /\ row' = rec
  /\ current' = {r}
  /\ lapsed' = (lapsed /\ ~renewed /\ rec.busy # "none")

Unflown(parts) ==
  [p \in Parts |-> IF parts[p] = "in-flight" THEN "unknown" ELSE parts[p]]

\* The catch block: the lease is kept while a part may still be under way.
Caught(rec) ==
  [rec EXCEPT
     !.busy = IF \E p \in Parts : rec.parts[p] = "in-flight" THEN @ ELSE "none",
     !.status = "needs-review",
     !.parts = Unflown(@)]

\* The request is over; what it remembered does not matter any more.
Leave(r) ==
  /\ Goto(r, "idle")
  /\ Keep(r, NewRecord)
  /\ act' = [act EXCEPT ![r] = "verify"]
  /\ part' = [part EXCEPT ![r] = 1]

Finish(r, rec) == Keep(r, rec) /\ Goto(r, "finish")
Fail(r, rec) == Keep(r, Caught(rec)) /\ Goto(r, "failing")

Staging(rec) == source = "file" /\ ~rec.cancel /\ ~rec.submit

\* Mutant: an upload whose id was never learned does not hold up a cancel.
PreservedSubmitted(rec) ==
  rec.submit \/ (rec.complete /\ rec.status # "staged")

\* cancel is refused once the platform may have the video, or the store an
\* object or an upload whose id nobody knows.
Preserved(rec) ==
  \/ rec.submit
  \/ rec.complete /\ rec.status # "staged"
  \/ /\ ~rec.complete /\ ~rec.upload
     /\ source = "file" /\ rec.status # "prepared"

-----------------------------------------------------------------------------
(* A command: the read, the lease, the work *)

\* A stale lease leaves only what looks before it acts.
Read(r, a, p) ==
  /\ at[r] = "idle"
  /\ wire[r] = NoCall
  /\ row.status \notin Closed
  /\ row.busy # "none" => lapsed /\ a \in {"reconcile", "verify", "cancel"}
  /\ Keep(r, [row EXCEPT !.parts = Unflown(@), !.busy = a])
  /\ act' = [act EXCEPT ![r] = a]
  /\ part' = [part EXCEPT ![r] = p]
  /\ current' = current \cup {r}
  /\ Goto(r, "taking")
  /\ UNCHANGED <<source, row, lapsed, wire, outside, sent>>

Take(r) ==
  /\ at[r] = "taking"
  /\ SaveRow(r, loc[r], TRUE)
  /\ Goto(r, "work")
  /\ UNCHANGED <<source, loc, act, part, wire, outside, sent>>

\* ENTITY_VERSION_CONFLICT: a stale copy is never written.
Conflict(r) ==
  /\ at[r] \notin {"idle", "sending", "called"}
  /\ r \notin current
  /\ Leave(r)
  /\ UNCHANGED <<source, row, lapsed, current, wire, outside, sent>>

\* A precondition does not hold, or a read on the way throws.
Refuse(r) ==
  /\ at[r] = "work"
  /\ act[r] = "cancel" => Preserved(loc[r])
  /\ Fail(r, loc[r])
  /\ UNCHANGED <<source, row, lapsed, current, act, part, wire, outside, sent>>

\* The intent is stored before the call leaves.
Intend(r, rec) ==
  /\ SaveRow(r, rec, FALSE)
  /\ Keep(r, rec)
  /\ Goto(r, "sending")
  /\ UNCHANGED <<source, act, part, wire, outside, sent>>

Initiate(r) ==
  /\ at[r] = "work" /\ act[r] = "initiate"
  /\ Staging(loc[r]) /\ ~loc[r].upload /\ loc[r].status = "prepared"
  /\ Intend(r, [loc[r] EXCEPT !.status = "staging"])

SendPart(r) ==
  /\ at[r] = "work" /\ act[r] = "part"
  /\ Staging(loc[r]) /\ loc[r].upload /\ ~loc[r].complete
  /\ loc[r].parts[part[r]] = "pending"
  /\ Intend(r, [loc[r] EXCEPT !.parts[part[r]] = "in-flight"])

Complete(r) ==
  /\ at[r] = "work" /\ act[r] = "complete"
  /\ Staging(loc[r]) /\ loc[r].upload /\ ~loc[r].complete
  /\ \A p \in Parts : loc[r].parts[p] = "confirmed"
  /\ Intend(r, [loc[r] EXCEPT !.complete = TRUE])

\* Mutant: a submission without a result may be made again.
SubmitAgain(r) ==
  /\ at[r] = "work" /\ act[r] = "submit"
  /\ ~loc[r].cancel
  /\ source = "file" => loc[r].status = "staged"
  /\ Intend(r, [loc[r] EXCEPT !.submit = TRUE, !.status = "submitting"])

Submit(r) ==
  /\ at[r] = "work" /\ act[r] = "submit"
  /\ ~loc[r].cancel /\ ~loc[r].submit
  /\ source = "file" => loc[r].status = "staged"
  /\ Intend(r, [loc[r] EXCEPT !.submit = TRUE, !.status = "submitting"])

Abort(r) ==
  /\ at[r] = "work" /\ act[r] = "cancel"
  /\ ~Preserved(loc[r]) /\ ~loc[r].complete /\ loc[r].upload
  /\ Intend(r, [loc[r] EXCEPT !.cancel = TRUE, !.status = "needs-review"])

\* Nothing was started, or the finished object stays where it is.
CancelHere(r) ==
  /\ at[r] = "work" /\ act[r] = "cancel"
  /\ ~Preserved(loc[r]) /\ (loc[r].complete \/ ~loc[r].upload)
  /\ Finish(r, [loc[r] EXCEPT !.status = "cancelled"])
  /\ UNCHANGED <<source, row, lapsed, current, act, part, wire, outside, sent>>

\* accepted only within the five minutes after the platform said so.
VerifyVideo(r) ==
  /\ at[r] = "work" /\ act[r] = "verify"
  /\ ~loc[r].cancel /\ loc[r].submit
  /\ \E s \in IF visible THEN {"confirmed"} ELSE {"accepted", "needs-review"} :
       Finish(r, [loc[r] EXCEPT !.status = s])
  /\ UNCHANGED <<source, row, lapsed, current, act, part, wire, outside, sent>>

\* Mutant: an uncertain part counts as sent.
ReconcilePartsTrusting(r) ==
  Finish(r, [loc[r] EXCEPT !.status = "staging",
               !.parts = [p \in Parts |->
                  IF @[p] = "unknown" THEN "confirmed" ELSE @[p]]])

\* The listing is authoritative: an uncertain part that is not there is to be
\* sent again.  The first part that contradicts the record ends the walk.
ReconcileParts(r) ==
  LET old == loc[r].parts
      Agrees(p) == IF old[p] = "pending" THEN p \notin stored
                   ELSE old[p] = "unknown" \/ p \in stored
      AsListed(p) == IF p \in stored /\ old[p] # "pending"
                       THEN "confirmed" ELSE "pending"
      Before(p) == \A q \in 1 .. p : Agrees(q)
      rec == [loc[r] EXCEPT !.parts =
                [p \in Parts |-> IF Before(p) THEN AsListed(p) ELSE old[p]]]
  IN IF Before(P) THEN Finish(r, [rec EXCEPT !.status = "staging"])
                  ELSE Fail(r, rec)

\* reconcile looks at what was left: the removal, the object, or the parts.
Reconcile(r) ==
  /\ at[r] = "work" /\ act[r] = "reconcile"
  /\ source = "file"
  /\ \/ loc[r].cancel /\ loc[r].upload /\ Goto(r, "removal") /\ UNCHANGED loc
     \/ Staging(loc[r]) /\ loc[r].complete /\ Goto(r, "object") /\ UNCHANGED loc
     \/ /\ Staging(loc[r]) /\ ~loc[r].complete
        /\ loc[r].upload /\ multi = "open"
        /\ ReconcileParts(r)
  /\ UNCHANGED <<source, row, lapsed, current, act, part, wire, outside, sent>>

\* However late the request goes on, it does not look at the row again.
SendCall(r) ==
  /\ at[r] = "sending"
  /\ wire' = [wire EXCEPT ![r] = [kind |-> KindOf[act[r]], part |-> part[r],
                                  state |-> "pending"]]
  /\ sent' = sent \cup {KindOf[act[r]]}
  /\ Goto(r, "called")
  /\ UNCHANGED <<source, row, lapsed, current, loc, act, part, outside>>

\* The answer arrives in time.
Answered(r) ==
  /\ at[r] = "called"
  /\ wire[r].state = "done"
  /\ wire' = [wire EXCEPT ![r] = NoCall]
  /\ \/ /\ wire[r].kind = "create"
        /\ Finish(r, [loc[r] EXCEPT !.upload = TRUE])
     \/ /\ wire[r].kind = "part"
        /\ Finish(r, [loc[r] EXCEPT !.parts[part[r]] = "confirmed",
                                    !.status = "staging"])
     \/ wire[r].kind = "complete" /\ Goto(r, "object") /\ UNCHANGED loc
     \/ wire[r].kind = "abort" /\ Goto(r, "removal") /\ UNCHANGED loc
     \/ /\ wire[r].kind = "submit"
        /\ Finish(r, [loc[r] EXCEPT !.status = "accepted"])
  /\ UNCHANGED <<source, row, lapsed, current, act, part, outside, sent>>

\* Refused, timed out, or the answer is lost; a pending call may still arrive.
CallFails(r) ==
  /\ at[r] = "called"
  /\ wire' = [wire EXCEPT ![r] = IF @.state = "pending" THEN @ ELSE NoCall]
  /\ Fail(r, loc[r])
  /\ UNCHANGED <<source, row, lapsed, current, act, part, outside, sent>>

\* verifyObject renews the lease before it reads the object.
RenewForObject(r) ==
  /\ at[r] = "object"
  /\ SaveRow(r, loc[r], TRUE)
  /\ Goto(r, "reading")
  /\ UNCHANGED <<source, loc, act, part, wire, outside, sent>>

ReadObject(r) ==
  /\ at[r] \in {"object", "reading"}
  /\ \/ /\ at[r] = "reading" /\ object
        /\ Finish(r, [loc[r] EXCEPT !.status = "staged"])
     \/ Fail(r, loc[r])
  /\ UNCHANGED <<source, row, lapsed, current, act, part, wire, outside, sent>>

\* verifyCancellation: only an explicit NoSuchUpload confirms.
CheckRemoval(r) ==
  /\ at[r] = "removal"
  /\ \/ Finish(r, [loc[r] EXCEPT
             !.status = IF multi = "open" THEN "needs-review" ELSE "cancelled"])
     \/ Fail(r, loc[r])
  /\ UNCHANGED <<source, row, lapsed, current, act, part, wire, outside, sent>>

Done(r) ==
  /\ \/ at[r] = "finish" /\ SaveRow(r, [loc[r] EXCEPT !.busy = "none"], FALSE)
     \/ at[r] = "failing" /\ SaveRow(r, loc[r], FALSE)
  /\ Leave(r)
  /\ UNCHANGED <<source, wire, outside, sent>>

\* The process ends, or its last write fails.
Crash(r) ==
  /\ at[r] # "idle"
  /\ Leave(r)
  /\ current' = current \ {r}
  /\ wire' = [wire EXCEPT ![r] = IF @.state = "pending" THEN @ ELSE NoCall]
  /\ UNCHANGED <<source, row, lapsed, outside, sent>>

-----------------------------------------------------------------------------
(* Outside *)

\* What the caller still waits for becomes an answer.
Resolve(r, state) ==
  wire' = [wire EXCEPT ![r] =
             IF at[r] = "called" THEN [@ EXCEPT !.state = state] ELSE NoCall]

StoreTakes(r) ==
  /\ wire[r].state = "pending"
  /\ \/ /\ wire[r].kind = "create"
        /\ multi' = "open"
        /\ UNCHANGED <<stored, object>>
     \/ /\ wire[r].kind = "part" /\ multi = "open"
        /\ stored' = stored \cup {wire[r].part}
        /\ UNCHANGED <<multi, object>>
     \/ /\ wire[r].kind = "complete" /\ multi = "open" /\ stored = Parts
        /\ multi' = "completed"
        /\ object' = TRUE
        /\ UNCHANGED stored
     \/ /\ wire[r].kind = "abort"
        /\ multi' = IF multi = "open" THEN "aborted" ELSE multi
        /\ UNCHANGED <<stored, object>>
  /\ Resolve(r, "done")
  /\ UNCHANGED <<source, row, lapsed, current, memory, posted, visible, sent>>

PlatformTakes(r) ==
  /\ wire[r].kind = "submit" /\ wire[r].state = "pending"
  /\ posted' = posted + 1
  /\ Resolve(r, "done")
  /\ UNCHANGED <<source, row, lapsed, current, memory, multi, stored, object,
                 visible, sent>>

\* Refused, or lost on the way.
NotTaken(r) ==
  /\ wire[r].state = "pending"
  /\ Resolve(r, "refused")
  /\ UNCHANGED <<source, row, lapsed, current, memory, outside, sent>>

Appears ==
  /\ posted > 0
  /\ visible' = TRUE
  /\ UNCHANGED <<source, row, lapsed, current, memory, wire, multi, stored,
                 object, posted, sent>>

Lapse ==
  /\ row.busy # "none"
  /\ lapsed' = TRUE
  /\ UNCHANGED <<source, row, current, memory, wire, outside, sent>>

Step(r) ==
  \/ \E a \in Actions, p \in Parts : Read(r, a, p)
  \/ Take(r) \/ Conflict(r) \/ Refuse(r)
  \/ Initiate(r) \/ SendPart(r) \/ Complete(r) \/ Submit(r)
  \/ Abort(r) \/ CancelHere(r) \/ VerifyVideo(r) \/ Reconcile(r)
  \/ SendCall(r) \/ Answered(r) \/ CallFails(r)
  \/ RenewForObject(r) \/ ReadObject(r) \/ CheckRemoval(r)
  \/ Done(r) \/ Crash(r)
  \/ StoreTakes(r) \/ PlatformTakes(r) \/ NotTaken(r)

UploadNext == (\E r \in Requests : Step(r)) \/ Appears \/ Lapse

UploadSpec == UploadInit /\ [][UploadNext]_uploadVars

-----------------------------------------------------------------------------
(* Properties *)

\* A multipart upload is either assembled or removed: the two calls never both
\* leave, even when a cancellation takes over the lease of a slow completion.
OneFate == ~({"complete", "abort"} \subseteq sent)

\* A cancelled task was never submitted and leaves no open upload behind, nor
\* a call that would open one; what it may leave is the finished object.
CancelledIsClean ==
  row.status = "cancelled" =>
    /\ "submit" \notin sent
    /\ multi # "open"
    /\ \A r \in Requests : wire[r].kind # "create"

\* What the record claims is there: the object once staged, the video once
\* confirmed, each confirmed part as long as its upload is open.
ClaimsAreTrue ==
  /\ row.status = "staged" => object
  /\ row.status = "confirmed" => posted > 0
  /\ multi = "open" =>
       \A p \in Parts : row.parts[p] = "confirmed" => p \in stored

\* The submission keeps the promise of WriteAhead: the intent is stored first,
\* and whatever request dies or is overtaken, it leaves and lands once.
Submission == INSTANCE WriteAhead WITH
  Writes <- {"video"},
  receipt <- [w \in {"video"} |->
                IF row.status = "confirmed" THEN "settled"
                ELSE IF row.submit THEN "intent" ELSE "clear"],
  live <- {w \in {"video"} : \E r \in Requests :
             wire[r].kind = "submit" /\ wire[r].state = "pending"},
  landed <- {w \in {"video"} : posted > 0}

SubmitsOnce == Submission!Spec
=============================================================================
