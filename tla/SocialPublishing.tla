------------------------- MODULE SocialPublishing -------------------------
(***************************************************************************)
(* Posts to Facebook pages and Instagram accounts:                         *)
(* SocialPublishingService and SocialPublishingRepository.                 *)
(*                                                                         *)
(* A post is prepared under an idempotency key and published by a second   *)
(* request.  On Facebook that is one call; on Instagram it creates a       *)
(* container, and a later "advance" request sends the final media_publish. *)
(* Requests interleave with each other, with cancellation and with the     *)
(* cleanup.  Every UPDATE is conditional on the revision that was read, but *)
(* its result is a SELECT of its own: a handler that goes on after an      *)
(* UPDATE works with whatever row it finds then.                           *)
(***************************************************************************)
EXTENDS Naturals

CONSTANTS
  Jobs,          \* ids drawn by prepare requests, one per request
  Requests,      \* publish and advance requests
  Keys,          \* idempotency keys
  FacebookPosts,   \* fingerprints of what can be posted: destination, image,
  InstagramPosts,  \* caption; the destination fixes the platform
  Nil            \* no job, no key, no post

Posts == FacebookPosts \cup InstagramPosts

ASSUME SocialAssumption ==
  /\ FacebookPosts \cap InstagramPosts = {}
  /\ Nil \notin Jobs

VARIABLES
  job,     \* the rows of social_publish_jobs
  purged,  \* the rows the cleanup deleted
  prep,    \* where each prepare request is
  asked,   \* the key and the post of a prepare request and of its row
  reply,   \* the job a prepare request was answered with
  pc,      \* where each publish or advance request is
  req,     \* the local variables of these requests
  call     \* what became of the call a request sent

vars == <<job, purged, prep, asked, reply, pc, req, call>>
preparing == <<prep, asked, reply>>
handler == <<pc, req>>

Statuses == {"prepared", "processing", "published", "failed", "unknown",
             "cancelled", "expired"}
NoJob == [status |-> "none", rev |-> 0, started |-> FALSE, container |-> FALSE,
          attempted |-> FALSE, waiting |-> FALSE, late |-> FALSE]
NoRequest == [kind |-> "none", job |-> Nil, rev |-> 0, answer |-> "none"]

\* A call may be taken although the answer to it is an error.
CarriedOut == {"taken", "takenRejected"}
Rejected == {"rejected", "takenRejected"}
Left == {"pending"} \cup CarriedOut \cup Rejected

Live(j) == job[j].status # "none" /\ j \notin purged
Facebook(j) == asked[j].post \in FacebookPosts

Init ==
  /\ job = [j \in Jobs |-> NoJob]
  /\ purged = {}
  /\ prep = [j \in Jobs |-> "idle"]
  /\ asked = [j \in Jobs |-> [key |-> Nil, post |-> Nil]]
  /\ reply = [j \in Jobs |-> Nil]
  /\ pc = [r \in Requests |-> "idle"]
  /\ req = [r \in Requests |-> NoRequest]
  /\ call = [r \in Requests |-> "none"]

---------------------------------------------------------------------------
(* prepare                                                                 *)

Holders(k) == {j \in Jobs : Live(j) /\ asked[j].key = k}

\* sameIdempotentJob: the job under the key if it is for the same post, a
\* conflict (no job) otherwise.
Answer(j, holder, post) ==
  /\ prep' = [prep EXCEPT ![j] = "done"]
  /\ reply' = [reply EXCEPT ![j] =
                 IF asked[holder].post = post THEN holder ELSE Nil]

PrepareFind(j, k, post) ==
  /\ prep[j] = "idle"
  /\ asked' = [asked EXCEPT ![j] = [key |-> k, post |-> post]]
  /\ IF Holders(k) = {}
       THEN prep' = [prep EXCEPT ![j] = "stage"] /\ UNCHANGED reply
       ELSE \E holder \in Holders(k) : Answer(j, holder, post)
  /\ UNCHANGED <<job, purged, handler, call>>

\* Mutant: the key has no unique index.
PrepareInsertUnindexed(j) ==
  /\ prep[j] = "stage"
  /\ job' = [job EXCEPT ![j].status = "prepared", ![j].rev = 1]
  /\ prep' = [prep EXCEPT ![j] = "done"]
  /\ reply' = [reply EXCEPT ![j] = j]
  /\ UNCHANGED <<purged, asked, handler, call>>

\* The image is stored, the caption encrypted, then the row is inserted; the
\* unique index on the key is tested by the INSERT.
PrepareInsert(j) ==
  /\ prep[j] = "stage"
  /\ Holders(asked[j].key) = {}
  /\ job' = [job EXCEPT ![j].status = "prepared", ![j].rev = 1]
  /\ prep' = [prep EXCEPT ![j] = "done"]
  /\ reply' = [reply EXCEPT ![j] = j]
  /\ UNCHANGED <<purged, asked, handler, call>>

\* Another request inserted the key first: its row is the answer.
PrepareRaced(j) ==
  /\ prep[j] = "stage"
  /\ \E holder \in Holders(asked[j].key) : Answer(j, holder, asked[j].post)
  /\ UNCHANGED <<job, purged, asked, handler, call>>

PrepareFails(j) ==
  /\ prep[j] = "stage"
  /\ prep' = [prep EXCEPT ![j] = "done"]
  /\ UNCHANGED <<job, purged, asked, reply, handler, call>>

---------------------------------------------------------------------------
(* update: UPDATE ... WHERE id = ? AND revision = ?                        *)

\* Mutant: the row is updated whatever its revision.
CurrentAnyRevision(j, rev) == Live(j)

Current(j, rev) == Live(j) /\ job[j].rev = rev

Write(j, row) == job' = [job EXCEPT ![j] = [row EXCEPT !.rev = @ + 1]]

---------------------------------------------------------------------------
(* publish                                                                 *)

PublishRead(r, j) ==
  /\ pc[r] = "idle"
  /\ Live(j)
  /\ job[j].status = "prepared"
  /\ ~job[j].late
  /\ pc' = [pc EXCEPT ![r] = "start"]
  /\ req' = [req EXCEPT ![r].job = j, ![r].rev = job[j].rev]
  /\ UNCHANGED <<job, purged, preparing, call>>

\* The attempt is recorded before anything is sent.
PublishStart(r) ==
  LET j == req[r].job IN
  /\ pc[r] = "start"
  /\ Current(j, req[r].rev)
  /\ Write(j, [job[j] EXCEPT !.status = "processing", !.started = TRUE,
                             !.waiting = ~Facebook(j)])
  /\ req' = [req EXCEPT ![r].kind = IF Facebook(j) THEN "post" ELSE "container",
                        ![r].rev = @ + 1]
  /\ pc' = [pc EXCEPT ![r] = "stored"]
  /\ UNCHANGED <<purged, preparing, call>>

\* updateJob returns the row as it is after the UPDATE, whoever wrote it since.
Reread(r) ==
  /\ pc[r] = "stored"
  /\ Live(req[r].job)
  /\ req' = [req EXCEPT ![r].rev = job[req[r].job].rev]
  /\ pc' = [pc EXCEPT ![r] = "send"]
  /\ UNCHANGED <<job, purged, preparing, call>>

---------------------------------------------------------------------------
(* advance, for Instagram jobs past their waiting time                     *)

AdvanceRead(r, j) ==
  /\ pc[r] = "idle"
  /\ Live(j)
  /\ ~Facebook(j)
  /\ job[j].status = "processing"
  /\ ~job[j].late
  /\ ~job[j].waiting
  /\ pc' = [pc EXCEPT ![r] = "advance"]
  /\ req' = [req EXCEPT ![r].job = j, ![r].rev = job[j].rev]
  /\ UNCHANGED <<job, purged, preparing, call>>

\* The common part of the branches that only write the row.
AdvanceWith(r, row) ==
  LET j == req[r].job IN
  /\ pc[r] = "advance"
  /\ Current(j, req[r].rev)
  /\ Write(j, row)
  /\ pc' = [pc EXCEPT ![r] = "done"]
  /\ UNCHANGED <<purged, preparing, req, call>>

\* Mutant: a final call on record does not stop another one.
ReadyAgain(j) == job[j].container

Ready(j) == job[j].container /\ ~job[j].attempted

\* No container on record, or a final call whose answer never came.
AdvanceStop(r) ==
  LET j == req[r].job IN
  /\ pc[r] = "advance"
  /\ ~Ready(j)
  /\ AdvanceWith(r, [job[j] EXCEPT !.status = "unknown", !.waiting = FALSE])

\* The container is still being processed, or its status cannot be read.
AdvancePostpone(r) ==
  LET j == req[r].job IN
  /\ pc[r] = "advance"
  /\ Ready(j)
  /\ AdvanceWith(r, [job[j] EXCEPT !.waiting = TRUE])

\* Meta could not process the container, or refuses the token.
AdvanceFailed(r) ==
  LET j == req[r].job IN
  /\ pc[r] = "advance"
  /\ Ready(j)
  /\ AdvanceWith(r, [job[j] EXCEPT !.status = "failed", !.waiting = FALSE])

\* The container is finished: the final call is recorded, then sent.
AdvanceAttempt(r) ==
  LET j == req[r].job IN
  /\ pc[r] = "advance"
  /\ Ready(j)
  /\ Current(j, req[r].rev)
  /\ Write(j, [job[j] EXCEPT !.attempted = TRUE, !.waiting = FALSE])
  /\ req' = [req EXCEPT ![r].kind = "post", ![r].rev = @ + 1]
  /\ pc' = [pc EXCEPT ![r] = "stored"]
  /\ UNCHANGED <<purged, preparing, call>>

---------------------------------------------------------------------------
(* The call to Meta and what becomes of its answer.                        *)

Send(r) ==
  /\ pc[r] = "send"
  /\ pc' = [pc EXCEPT ![r] = "wait"]
  /\ call' = [call EXCEPT ![r] = "pending"]
  /\ UNCHANGED <<job, purged, preparing, req>>

AnswerAccepted(r) ==
  /\ pc[r] = "wait"
  /\ call[r] = "taken"
  /\ pc' = [pc EXCEPT ![r] = "settle"]
  /\ UNCHANGED <<job, purged, preparing, req, call>>

\* explicitGraphError: any HTTP status that is not ok counts as a refusal, and
\* so does a redirect.
AnswerRefused(r) ==
  /\ pc[r] = "wait"
  /\ call[r] \in Rejected
  /\ pc' = [pc EXCEPT ![r] = "fail"]
  /\ req' = [req EXCEPT ![r].answer = "failed"]
  /\ UNCHANGED <<job, purged, preparing, call>>

\* Mutant: a call without an answer counts as refused.
AnswerUnknownRefused(r) ==
  /\ pc[r] = "wait"
  /\ pc' = [pc EXCEPT ![r] = "fail"]
  /\ req' = [req EXCEPT ![r].answer = "failed"]
  /\ UNCHANGED <<job, purged, preparing, call>>

\* A timeout or a broken connection, or an answer without an id.
AnswerUnknown(r) ==
  /\ pc[r] = "wait"
  /\ pc' = [pc EXCEPT ![r] = "fail"]
  /\ req' = [req EXCEPT ![r].answer = "unknown"]
  /\ UNCHANGED <<job, purged, preparing, call>>

Settle(r) ==
  LET j == req[r].job IN
  /\ pc[r] = "settle"
  /\ Current(j, req[r].rev)
  /\ Write(j, IF req[r].kind = "post"
                THEN [job[j] EXCEPT !.status = "published", !.waiting = FALSE]
                ELSE [job[j] EXCEPT !.status = "processing",
                                    !.container = TRUE, !.waiting = TRUE])
  /\ pc' = [pc EXCEPT ![r] = "done"]
  /\ UNCHANGED <<purged, preparing, req, call>>

\* The UPDATE throws: an accepted call counts as one without an answer.
SettleFails(r) ==
  /\ pc[r] = "settle"
  /\ pc' = [pc EXCEPT ![r] = "fail"]
  /\ req' = [req EXCEPT ![r].answer = "unknown"]
  /\ UNCHANGED <<job, purged, preparing, call>>

\* recordPublishFailure
RecordFailure(r) ==
  LET j == req[r].job IN
  /\ pc[r] = "fail"
  /\ Current(j, req[r].rev)
  /\ Write(j, [job[j] EXCEPT !.status = req[r].answer, !.waiting = FALSE])
  /\ pc' = [pc EXCEPT ![r] = "done"]
  /\ UNCHANGED <<purged, preparing, req, call>>

\* The row has changed or is gone: the request ends with a conflict.
Conflict(r) ==
  /\ \/ pc[r] \in {"start", "advance", "settle", "fail"}
        /\ ~Current(req[r].job, req[r].rev)
     \/ pc[r] = "stored" /\ ~Live(req[r].job)
  /\ pc' = [pc EXCEPT ![r] = "done"]
  /\ UNCHANGED <<job, purged, preparing, req, call>>

\* The process ends, or the request is given up before anything is sent.
Crash(r) ==
  /\ pc[r] \notin {"idle", "done", "crashed"}
  /\ pc' = [pc EXCEPT ![r] = "crashed"]
  /\ UNCHANGED <<job, purged, preparing, req, call>>

---------------------------------------------------------------------------
(* cancel and the cleanup                                                  *)

\* Mutant: a final call that is under way does not stop a cancellation.
CancelAnytime(j) ==
  /\ Live(j)
  /\ job[j].status \in {"prepared", "processing"}
  /\ Write(j, [job[j] EXCEPT !.status = "cancelled", !.waiting = FALSE])
  /\ UNCHANGED <<purged, preparing, handler, call>>

Cancel(j) ==
  /\ Live(j)
  /\ \/ job[j].status = "prepared"
     \/ job[j].status = "processing" /\ ~job[j].attempted
  /\ Write(j, [job[j] EXCEPT !.status = "cancelled", !.waiting = FALSE])
  /\ UNCHANGED <<purged, preparing, handler, call>>

\* expire, and the first statement of the cleanup.
Expire(j) ==
  /\ Live(j)
  /\ job[j].late
  /\ job[j].status \in {"prepared", "processing"}
  /\ Write(j, [job[j] EXCEPT !.status = "expired"])
  /\ UNCHANGED <<purged, preparing, handler, call>>

\* The second: rows past the retention time are deleted, and their key is free.
Purge(j) ==
  /\ Live(j)
  /\ job[j].late
  /\ job[j].status \notin {"prepared", "processing"}
  /\ purged' = purged \cup {j}
  /\ UNCHANGED <<job, preparing, handler, call>>

\* The clock passes nextAdvanceTimeUtc, or expiresTimeUtc.
WaitOver(j) ==
  /\ job[j].waiting
  /\ job' = [job EXCEPT ![j].waiting = FALSE]
  /\ UNCHANGED <<purged, preparing, handler, call>>

GrowLate(j) ==
  /\ Live(j)
  /\ ~job[j].late
  /\ job' = [job EXCEPT ![j].late = TRUE]
  /\ UNCHANGED <<purged, preparing, handler, call>>

---------------------------------------------------------------------------
(* Meta                                                                    *)

\* A call that is on its way is carried out, and so may be one that a server
\* in front of Meta has already answered with an error.
MetaTakes(r) ==
  /\ call[r] \in {"pending", "rejected"}
  /\ call' = [call EXCEPT ![r] = IF @ = "pending" THEN "taken"
                                                 ELSE "takenRejected"]
  /\ UNCHANGED <<job, purged, preparing, handler>>

\* The answer is an error: Meta refuses the call, or a 502 or 504 tells nothing
\* of what became of it.
MetaRejects(r) ==
  /\ pc[r] = "wait"
  /\ call[r] \in {"pending", "taken"}
  /\ call' = [call EXCEPT ![r] = IF @ = "pending" THEN "rejected"
                                                 ELSE "takenRejected"]
  /\ UNCHANGED <<job, purged, preparing, handler>>

---------------------------------------------------------------------------
Next ==
  \/ \E j \in Jobs :
       \/ \E k \in Keys, post \in Posts : PrepareFind(j, k, post)
       \/ PrepareInsert(j)
       \/ PrepareRaced(j)
       \/ PrepareFails(j)
       \/ Cancel(j)
       \/ Expire(j)
       \/ Purge(j)
       \/ WaitOver(j)
       \/ GrowLate(j)
  \/ \E r \in Requests :
       \/ \E j \in Jobs : PublishRead(r, j) \/ AdvanceRead(r, j)
       \/ PublishStart(r)
       \/ Reread(r)
       \/ AdvanceStop(r)
       \/ AdvancePostpone(r)
       \/ AdvanceFailed(r)
       \/ AdvanceAttempt(r)
       \/ Send(r)
       \/ AnswerAccepted(r)
       \/ AnswerRefused(r)
       \/ AnswerUnknown(r)
       \/ Settle(r)
       \/ SettleFails(r)
       \/ RecordFailure(r)
       \/ Conflict(r)
       \/ Crash(r)
       \/ MetaTakes(r)
       \/ MetaRejects(r)

Spec == Init /\ [][Next]_vars

---------------------------------------------------------------------------
(* Properties.                                                             *)

\* Every variable keeps its type.
TypeOK ==
  /\ job \in [Jobs -> [status : Statuses \cup {"none"}, rev : Nat,
                       started : BOOLEAN, container : BOOLEAN,
                       attempted : BOOLEAN, waiting : BOOLEAN, late : BOOLEAN]]
  /\ purged \subseteq Jobs
  /\ prep \in [Jobs -> {"idle", "stage", "done"}]
  /\ asked \in [Jobs -> [key : Keys \cup {Nil}, post : Posts \cup {Nil}]]
  /\ reply \in [Jobs -> Jobs \cup {Nil}]
  /\ pc \in [Requests -> {"idle", "start", "advance", "stored", "send", "wait",
                          "settle", "fail", "done", "crashed"}]
  /\ req \in [Requests -> [kind : {"none", "post", "container"},
                           job : Jobs \cup {Nil}, rev : Nat,
                           answer : {"none", "failed", "unknown"}]]
  /\ call \in [Requests -> {"none"} \cup Left]

\* The requests that send the post of a job to Meta.
Posters(j) == {r \in Requests : req[r].job = j /\ req[r].kind = "post"}
Sent(j) == \E r \in Posters(j) : call[r] # "none"
Taken(j) == \E r \in Posters(j) : call[r] \in CarriedOut
PostCalls(states) ==
  {c \in Jobs \X Requests : c[2] \in Posters(c[1]) /\ call[c[2]] \in states}

\* A key that is in use names one job, and a prepare request is only ever
\* answered with a job for exactly the post it asked for.
IdempotencyHolds ==
  /\ \A j1, j2 \in Jobs :
       Live(j1) /\ Live(j2) /\ asked[j1].key = asked[j2].key => j1 = j2
  /\ \A j \in Jobs : reply[j] # Nil => asked[reply[j]] = asked[j]

\* However many publish and advance requests run, and wherever they are cut
\* off, each job makes at most one post and at most one container.
AtMostOnePost ==
  \A r1, r2 \in Requests :
    /\ req[r1].job = req[r2].job /\ req[r1].kind = req[r2].kind
    /\ call[r1] # "none" /\ call[r2] # "none"
    => r1 = r2

\* A cancelled Instagram job is never posted: the cancellation and the final
\* call cannot both succeed.
CancelledStaysOff ==
  \A j \in Jobs : job[j].status = "cancelled" /\ ~Facebook(j) => ~Sent(j)

\* A record of published means that Meta made the post.  A record of failed
\* means that every call that was sent for the post got an error for an answer,
\* never that the answer was lost, late or cut off.  An error by a server in
\* front of Meta counts, so failed does not mean that there is no post.
RecordIsTrue ==
  \A j \in Jobs :
    /\ job[j].status = "published" => Taken(j)
    /\ job[j].status = "failed" => \A r \in Posters(j) : call[r] \in Rejected

\* "A request that times out after the platform took it leaves the job unknown":
\* no post exists for a job recorded as failed.  An error by a server in front of
\* Meta counts as a refusal, whatever Meta made of the call, which breaks this
\* sentence of the documentation (see MCSocialPublishing_errors.cfg).
FailedIsNotPosted ==
  \A j \in Jobs : job[j].status = "failed" => ~Taken(j)

---------------------------------------------------------------------------
(* The promise of WriteOnce, for the post of each job.                     *)

Intended(j) == IF Facebook(j) THEN job[j].started ELSE job[j].attempted

\* A job that was given up before it was started is withdrawn for good.  One
\* that was given up later may still be taken up again by the handler that
\* started it (Reread), so nothing is promised until it sends the post.
Verdict(j) ==
  CASE job[j].status = "published" -> "done"
    [] job[j].status = "failed" -> "refused"
    [] job[j].status \in {"cancelled", "expired"} /\ ~job[j].started ->
         "withdrawn"
    [] job[j].status \in {"unknown", "cancelled", "expired"} /\ Intended(j) ->
         "unknown"
    [] OTHER -> "none"

Promise == INSTANCE WriteOnce WITH
  Writes <- Jobs,
  Senders <- Requests,
  intent <- {j \in Jobs : Intended(j)},
  sent <- PostCalls(Left),
  rejected <- PostCalls(Rejected),
  taken <- PostCalls(CarriedOut),
  verdict <- [j \in Jobs |-> Verdict(j)]

\* Every step of the publishing service is a step of WriteOnce or invisible to
\* it: one post per job, on record before it leaves, with a final verdict that
\* rests on what Meta did or answered.
KeepsPromise == Promise!Spec
===========================================================================
