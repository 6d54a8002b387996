----------------------- MODULE SocialPublishingProofs -----------------------
(***************************************************************************)
(* Proofs about SocialPublishing, for every number of jobs, requests, keys *)
(* and posts; the last part proves that it implements WriteOnce, through   *)
(* the mapping Promise of SocialPublishing.                                *)
(***************************************************************************)
EXTENDS SocialPublishing, TLAPS

USE DEF CarriedOut, Rejected, Left

\* What a row can look like.
RowFits(j) ==
  /\ job[j].status = "none" => job[j] = NoJob
  /\ job[j].status # "none" => prep[j] = "done"
  /\ job[j].status \in {"none", "prepared"} =>
       ~job[j].started /\ ~job[j].container
  /\ job[j].status = "processing" => job[j].started
  /\ job[j].attempted => job[j].container
  /\ Facebook(j) => ~job[j].container
  /\ job[j].status = "cancelled" /\ ~Facebook(j) => ~job[j].attempted

RowInv == \A j \in Jobs : RowFits(j)

\* The handler has put its call on record and not written its outcome yet.
Active(r) == pc[r] \in {"stored", "send", "wait", "settle", "fail"}

\* What can become of a row while such a handler is at work on it.
Undecided == {"processing", "unknown", "cancelled", "expired"}

\* Nobody has written the row since the handler did.
Unchanged(r) == req[r].rev = job[req[r].job].rev

\* What a handler knows at each step.
Knows(r) ==
  /\ pc[r] = "idle" => req[r] = NoRequest /\ call[r] = "none"
  /\ pc[r] # "idle" =>
       /\ req[r].job \in Jobs
       /\ job[req[r].job].status # "none"
       /\ req[r].rev \leq job[req[r].job].rev
  /\ pc[r] \in {"start", "advance"} => req[r].kind = "none"
  /\ pc[r] \in {"stored", "send"} \/ req[r].kind = "none" => call[r] = "none"
  /\ pc[r] = "settle" => call[r] = "taken"
  /\ pc[r] = "fail" => req[r].answer # "none"
  /\ req[r].kind # "none" => job[req[r].job].started
  /\ req[r].kind = "container" => ~Facebook(req[r].job)
  /\ req[r].kind = "post" =>
       Facebook(req[r].job) \/ job[req[r].job].attempted
  /\ pc[r] = "start" /\ Unchanged(r) => job[req[r].job].status = "prepared"
  /\ pc[r] = "advance" => ~Facebook(req[r].job)
  /\ pc[r] = "advance" /\ Unchanged(r) =>
       job[req[r].job].status = "processing"
  /\ Active(r) => req[r].kind # "none" /\ job[req[r].job].status \in Undecided
  /\ Active(r) /\ req[r].kind = "container" => ~job[req[r].job].container

HandlerInv == \A r \in Requests : Knows(r)

\* A job is posted, and its container made, by one request.
OneSender ==
  \A r1, r2 \in Requests :
    /\ req[r1].job = req[r2].job
    /\ req[r1].kind = req[r2].kind /\ req[r1].kind # "none"
    => r1 = r2

Inductive == TypeOK /\ RowInv /\ HandlerInv /\ OneSender

---------------------------------------------------------------------------
\* Rows and handler locals as TypeOK has them.
Rows == [status : Statuses \cup {"none"}, rev : Nat, started : BOOLEAN,
         container : BOOLEAN, attempted : BOOLEAN, waiting : BOOLEAN,
         late : BOOLEAN]
Locals == [kind : {"none", "post", "container"}, job : Jobs \cup {Nil},
           rev : Nat, answer : {"none", "failed", "unknown"}]

\* What the UPDATE statements put into a row: what they leave alone and what
\* they set.
LEMMA ClosedRow ==
  ASSUME NEW row \in Rows, NEW st \in Statuses
  PROVE  LET new == [row EXCEPT !.status = st, !.waiting = FALSE] IN
         /\ new \in Rows /\ new.status = st /\ new.rev = row.rev
         /\ new.started = row.started /\ new.attempted = row.attempted
         /\ new.container = row.container
BY DEF Rows

\* publish, before the call
LEMMA StartedRow ==
  ASSUME NEW row \in Rows, NEW b \in BOOLEAN
  PROVE  LET new == [row EXCEPT !.status = "processing", !.started = TRUE,
                                !.waiting = b] IN
         /\ new \in Rows /\ new.status = "processing" /\ new.rev = row.rev
         /\ new.started /\ new.attempted = row.attempted
         /\ new.container = row.container
BY DEF Rows, Statuses

\* advance, later
LEMMA PostponedRow ==
  ASSUME NEW row \in Rows
  PROVE  LET new == [row EXCEPT !.waiting = TRUE] IN
         /\ new \in Rows /\ new.status = row.status /\ new.rev = row.rev
         /\ new.started = row.started /\ new.attempted = row.attempted
         /\ new.container = row.container
BY DEF Rows

\* publish, container made
LEMMA ContainedRow ==
  ASSUME NEW row \in Rows
  PROVE  LET new == [row EXCEPT !.status = "processing", !.container = TRUE,
                                !.waiting = TRUE] IN
         /\ new \in Rows /\ new.status = "processing" /\ new.rev = row.rev
         /\ new.started = row.started /\ new.attempted = row.attempted
         /\ new.container
BY DEF Rows, Statuses

\* advance, final call
LEMMA AttemptedRow ==
  ASSUME NEW row \in Rows
  PROVE  LET new == [row EXCEPT !.attempted = TRUE, !.waiting = FALSE] IN
         /\ new \in Rows /\ new.status = row.status /\ new.rev = row.rev
         /\ new.started = row.started /\ new.attempted
         /\ new.container = row.container
BY DEF Rows

\* The types of single rows and locals.
LEMMA RowsTyped ==
  TypeOK => /\ job \in [Jobs -> Rows] /\ req \in [Requests -> Locals]
            /\ \A j \in Jobs : job[j] \in Rows /\ job[j].rev \in Nat
            /\ \A r \in Requests : req[r] \in Locals
BY DEF TypeOK, Rows, Locals

\* What a handler remembers when it has put its call on record.
LEMMA CallingLocals ==
  ASSUME NEW locals \in [Requests -> Locals], NEW r \in Requests, NEW kind
  PROVE  [locals EXCEPT ![r].kind = kind, ![r].rev = @ + 1] =
           [locals EXCEPT ![r] = [locals[r] EXCEPT !.kind = kind,
                                                   !.rev = locals[r].rev + 1]]
BY DEF Locals

\* What an UPDATE leaves of a row.
LEMMA Written ==
  ASSUME TypeOK, NEW j \in Jobs, NEW row \in Rows, Write(j, row)
  PROVE  /\ job' \in [Jobs -> Rows]
         /\ \A i \in Jobs \ {j} : job'[i] = job[i]
         /\ job'[j].rev = row.rev + 1
         /\ job'[j].status = row.status
         /\ job'[j].started = row.started
         /\ job'[j].container = row.container
         /\ job'[j].attempted = row.attempted
<1> DEFINE new == [row EXCEPT !.rev = @ + 1]
<1>1. /\ new \in Rows
      /\ new.rev = row.rev + 1 /\ new.status = row.status
      /\ new.started = row.started /\ new.container = row.container
      /\ new.attempted = row.attempted
  BY DEF Rows
<1>2. job' = [job EXCEPT ![j] = new] /\ job \in [Jobs -> Rows]
  BY DEF Write, TypeOK, Rows
<1> HIDE DEF new
<1> QED
  BY <1>1, <1>2

\* Only one handler is at work on a job at a time.
LEMMA Alone ==
  ASSUME Inductive, NEW r \in Requests, NEW s \in Requests,
         Active(r), Active(s), req[r].job = req[s].job
  PROVE  r = s
<1>1. Knows(r) /\ Knows(s) /\ RowFits(req[r].job)
  BY DEF Inductive, HandlerInv, RowInv, Knows, Active
<1>2. req[r].kind \in {"post", "container"} /\ req[s].kind \in {"post", "container"}
  BY <1>1 DEF Inductive, TypeOK, Knows
<1>3. req[r].kind = req[s].kind
  BY <1>1, <1>2 DEF Knows, RowFits
<1> QED
  BY <1>2, <1>3 DEF Inductive, OneSender

\* A step that writes a row and at most ends one handler, the one at work on
\* the row when what it writes is final or a container.
LEMMA WritePreserves ==
  ASSUME Inductive, NEW j \in Jobs, NEW row \in Rows, Write(j, row),
         job[j].status # "none",
         row.status \notin {"none", "prepared"},
         row.status = "cancelled" /\ ~Facebook(j) => ~job[j].attempted,
         row.status = "processing" => job[j].started,
         row.rev = job[j].rev,
         row.started = job[j].started,
         row.attempted = job[j].attempted,
         UNCHANGED <<purged, prep, asked, reply, req, call>>,
         \/ pc' = pc
         \/ \E r \in Requests :
              pc[r] # "idle" /\ pc' = [pc EXCEPT ![r] = "done"],
         \/ row.status \in Undecided /\ row.container = job[j].container
         \/ /\ \A s \in Requests : req[s].job = j => ~Active(s)'
            /\ \/ row.container = job[j].container
               \/ row.container /\ ~Facebook(j)
  PROVE  Inductive'
<1> USE DEF Inductive
<1>0. /\ job' \in [Jobs -> Rows]
      /\ \A i \in Jobs \ {j} : job'[i] = job[i]
      /\ job'[j].rev = job[j].rev + 1
      /\ job'[j].status = row.status
      /\ job'[j].started = job[j].started
      /\ job'[j].attempted = job[j].attempted
      /\ job'[j].container = row.container
  BY Written
<1>1. TypeOK'
  BY <1>0 DEF TypeOK, Rows
<1>2. RowInv'
  <2>1. row.container = job[j].container \/ (row.container /\ ~Facebook(j))
    OBVIOUS
  <2>2. RowFits(j)'
    BY <1>0, <2>1 DEF RowInv, RowFits, Facebook, Undecided
  <2>3. ASSUME NEW i \in Jobs \ {j} PROVE RowFits(i)'
    BY <1>0, <2>3 DEF RowInv, RowFits, Facebook
  <2> QED
    BY <2>2, <2>3 DEF RowInv
<1>3. ASSUME NEW s \in Requests PROVE Knows(s)'
  <2>1. Knows(s) /\ (pc'[s] = pc[s] \/ (pc[s] # "idle" /\ pc'[s] = "done"))
    BY DEF HandlerInv, TypeOK
  <2>2. CASE req[s].job # j
    <3>1. req[s].job \in Jobs => job'[req[s].job] = job[req[s].job]
      BY <1>0, <2>2
    <3> QED
      BY <2>1, <3>1 DEF Knows, Active, Undecided, Unchanged, Facebook, NoRequest
  <2>3. CASE req[s].job = j
    <3>1. pc[s] # "idle"
      BY <2>1, <2>3, SocialAssumption DEF Knows, NoRequest
    <3>2. ~Unchanged(s)'
      BY <1>0, <2>1, <2>3, <3>1 DEF Knows, Unchanged, TypeOK
    <3>3. req[s].rev \in Nat /\ job[j].rev \in Nat
      BY DEF TypeOK
    <3>4. Active(s)' => Active(s) /\ job'[j].status \in Undecided
                                 /\ job'[j].container = job[j].container
      BY <1>0, <2>1, <2>3 DEF Active
    <3> HIDE DEF Active
    <3>5. pc'[s] # "idle" /\ (pc'[s] \in {"start", "advance", "stored", "send",
            "settle", "fail"} => pc'[s] = pc[s])
      BY <2>1, <3>1
    <3> QED
      BY <1>0, <2>1, <2>3, <3>1, <3>2, <3>3, <3>4, <3>5 DEF Knows, Facebook
  <2> QED
    BY <2>2, <2>3
<1>4. OneSender'
  BY DEF OneSender
<1> QED
  BY <1>1, <1>2, <1>3, <1>4 DEF HandlerInv

\* A handler whose locals and row do not change knows what it knew.
LEMMA StillKnows ==
  ASSUME NEW s \in Requests, Knows(s),
         pc'[s] = pc[s], req'[s] = req[s], call'[s] = call[s], asked' = asked,
         req[s].job \in Jobs => job'[req[s].job] = job[req[s].job]
  PROVE  Knows(s)'
BY DEF Knows, Active, Undecided, Unchanged, Facebook, NoRequest

\* A handler that gives up on its call.
LEMMA GivingUpPreserves ==
  ASSUME Inductive, NEW r \in Requests, NEW a \in {"failed", "unknown"},
         pc[r] \in {"wait", "settle"},
         pc' = [pc EXCEPT ![r] = "fail"],
         req' = [req EXCEPT ![r].answer = a],
         UNCHANGED <<job, purged, prep, asked, reply, call>>
  PROVE  Inductive'
<1> USE DEF Inductive
<1> DEFINE new == [req[r] EXCEPT !.answer = a]
<1>1. /\ new \in Locals /\ new.answer = a
      /\ new.job = req[r].job /\ new.rev = req[r].rev
      /\ new.kind = req[r].kind
  BY RowsTyped DEF Locals
<1>2. req' = [req EXCEPT ![r] = new]
  OBVIOUS
<1> HIDE DEF new
<1>3. /\ req \in [Requests -> Locals] /\ req' \in [Requests -> Locals]
      /\ req'[r] = new
      /\ \A s \in Requests \ {r} : req'[s] = req[s]
  BY <1>1, <1>2, RowsTyped
<1>4. TypeOK'
  BY <1>3 DEF TypeOK, Locals
<1>5. RowInv'
  BY DEF RowInv, RowFits, Facebook
<1>6. ASSUME NEW s \in Requests PROVE Knows(s)'
  <2>1. Knows(s) /\ pc \in [Requests -> {"idle", "start", "advance", "stored",
          "send", "wait", "settle", "fail", "done", "crashed"}]
    BY DEF HandlerInv, TypeOK
  <2>2. CASE s = r
    BY <1>1, <1>3, <2>1, <2>2 DEF Knows, Active, Undecided, Unchanged, Facebook
  <2>3. CASE s # r
    BY <1>3, <2>1, <2>3, StillKnows
  <2> QED
    BY <2>2, <2>3
<1>7. OneSender'
  <2> SUFFICES ASSUME NEW s \in Requests
               PROVE  req'[s].job = req[s].job /\ req'[s].kind = req[s].kind
    BY DEF OneSender
  <2> QED
    BY <1>1, <1>3
<1> QED
  BY <1>4, <1>5, <1>6, <1>7 DEF HandlerInv

\* A step of the clock, which only touches what no conjunct looks at.
LEMMA TouchPreserves ==
  ASSUME Inductive, NEW j \in Jobs, job' \in [Jobs -> Rows],
         \A i \in Jobs \ {j} : job'[i] = job[i],
         job[j].status # "none",
         job'[j].status = job[j].status,
         job'[j].rev = job[j].rev,
         job'[j].started = job[j].started,
         job'[j].attempted = job[j].attempted,
         job'[j].container = job[j].container,
         UNCHANGED <<purged, prep, asked, reply, pc, req, call>>
  PROVE  Inductive'
<1> USE DEF Inductive
<1>1. TypeOK'
  BY DEF TypeOK, Rows
<1>2. RowInv'
  BY DEF RowInv, RowFits, Facebook
<1>3. ASSUME NEW s \in Requests PROVE Knows(s)'
  <2>1. Knows(s)
    BY DEF HandlerInv
  <2>2. req[s].job \in Jobs =>
          LET i == req[s].job IN
          /\ job'[i].status = job[i].status
          /\ job'[i].rev = job[i].rev
          /\ job'[i].started = job[i].started
          /\ job'[i].attempted = job[i].attempted
          /\ job'[i].container = job[i].container
    OBVIOUS
  <2> QED
    BY <2>1, <2>2 DEF Knows, Active, Undecided, Unchanged, Facebook, NoRequest
<1>4. OneSender'
  BY DEF OneSender
<1> QED
  BY <1>1, <1>2, <1>3, <1>4 DEF HandlerInv

\* The invariant holds before any request.
LEMMA InitInductive == Init => Inductive
BY SocialAssumption DEF Init, Inductive, TypeOK, RowInv, RowFits,
   HandlerInv, Knows,
   OneSender, NoJob, NoRequest, Active, Undecided, Unchanged, Facebook

\* Every step keeps it: one case per action of Next.
LEMMA StepInductive == Inductive /\ [Next]_vars => Inductive'
<1> SUFFICES ASSUME Inductive, [Next]_vars PROVE Inductive'
  OBVIOUS
<1> USE SocialAssumption DEF Inductive
<1>1. ASSUME NEW j \in Jobs, NEW k \in Keys, NEW post \in Posts,
             PrepareFind(j, k, post)
       PROVE  Inductive'
  <2>1. TypeOK'
    <3>1. /\ asked' = [asked EXCEPT ![j] = [key |-> k, post |-> post]]
          /\ UNCHANGED <<job, purged, pc, req, call>>
      BY <1>1 DEF PrepareFind, handler
    <3>2. /\ prep \in [Jobs -> {"idle", "stage", "done"}]
          /\ reply \in [Jobs -> Jobs \cup {Nil}]
      BY DEF TypeOK
    <3>3. /\ prep' \in [Jobs -> {"idle", "stage", "done"}]
          /\ reply' \in [Jobs -> Jobs \cup {Nil}]
      <4>1. CASE Holders(k) = {}
        BY <1>1, <3>2, <4>1 DEF PrepareFind
      <4>2. CASE Holders(k) # {}
        <5>1. PICK h \in Jobs : Answer(j, h, post)
          BY <1>1, <4>2 DEF PrepareFind, Holders
        <5>2. PICK a \in Jobs \cup {Nil} : reply' = [reply EXCEPT ![j] = a]
          BY <5>1 DEF Answer
        <5> QED
          BY <3>2, <5>1, <5>2 DEF Answer
      <4> QED
        BY <4>1, <4>2
    <3> QED
      BY <3>1, <3>3 DEF TypeOK
  <2>2. /\ job[j].status = "none"
        /\ prep' \in [Jobs -> {"idle", "stage", "done"}]
        /\ \A i \in Jobs \ {j} : asked'[i] = asked[i] /\ prep'[i] = prep[i]
        /\ UNCHANGED <<job, pc, req, call>>
    <3>1. prep[j] = "idle" /\ UNCHANGED <<job, pc, req, call>>
      BY <1>1 DEF PrepareFind, handler
    <3>2. job[j].status = "none"
      BY <3>1 DEF RowInv, RowFits
    <3>3. \A i \in Jobs \ {j} : asked'[i] = asked[i]
      BY <1>1 DEF PrepareFind, TypeOK
    <3>4. \E step : prep' = [prep EXCEPT ![j] = step]
      BY <1>1 DEF PrepareFind, Answer
    <3> QED
      BY <2>1, <3>1, <3>2, <3>3, <3>4 DEF TypeOK
  <2>3. RowInv'
    BY <2>2 DEF RowInv, RowFits, Facebook, NoJob
  <2>4. ASSUME NEW s \in Requests PROVE Knows(s)'
    <3>1. Knows(s) /\ (pc[s] = "idle" \/ req[s].job \in Jobs \ {j})
      BY <2>2 DEF HandlerInv, Knows
    <3> QED
      BY <2>2, <3>1 DEF Knows, Active, Undecided, Unchanged, Facebook, NoRequest
  <2>5. OneSender'
    BY <2>2 DEF OneSender
  <2> QED
    BY <2>1, <2>3, <2>4, <2>5 DEF HandlerInv
<1>2. ASSUME NEW j \in Jobs, PrepareInsert(j)
       PROVE  Inductive'
  <2>1. /\ prep[j] = "stage" /\ job[j] = NoJob
        /\ job' = [job EXCEPT ![j].status = "prepared", ![j].rev = 1]
        /\ prep' = [prep EXCEPT ![j] = "done"]
        /\ reply' = [reply EXCEPT ![j] = j]
        /\ UNCHANGED <<purged, asked, pc, req, call>>
    BY <1>2 DEF PrepareInsert, handler, RowInv, RowFits
  <2> DEFINE row == [NoJob EXCEPT !.status = "prepared", !.rev = 1]
  <2>2. /\ row \in Rows /\ row.status = "prepared" /\ row.rev = 1
        /\ ~row.started /\ ~row.attempted /\ ~row.container
    BY DEF NoJob, Rows, Statuses
  <2>3. job' = [job EXCEPT ![j] = row]
    BY <2>1
  <2> HIDE DEF row
  <2>4. /\ job' \in [Jobs -> Rows] /\ job'[j] = row
        /\ \A i \in Jobs \ {j} : job'[i] = job[i]
    BY <2>2, <2>3, RowsTyped
  <2>5. TypeOK'
    BY <2>1, <2>4 DEF TypeOK, Rows
  <2>6. RowInv'
    <3> SUFFICES ASSUME NEW i \in Jobs PROVE RowFits(i)'
      BY DEF RowInv
    <3>1. CASE i = j
      BY <2>1, <2>2, <2>4, <3>1 DEF TypeOK, RowFits, Facebook
    <3>2. CASE i # j
      BY <2>1, <2>4, <3>2 DEF TypeOK, RowInv, RowFits, Facebook
    <3> QED
      BY <3>1, <3>2
  <2>7. ASSUME NEW s \in Requests PROVE Knows(s)'
    <3>1. Knows(s)
      BY DEF HandlerInv
    <3>2. req[s].job # j
      BY <2>1, <3>1 DEF Knows, NoJob, NoRequest
    <3>3. req[s].job \in Jobs => job'[req[s].job] = job[req[s].job]
      BY <2>4, <3>2
    <3> QED
      BY <2>1, <3>1, <3>3, StillKnows
  <2>8. OneSender'
    BY <2>1 DEF OneSender
  <2> QED
    BY <2>5, <2>6, <2>7, <2>8 DEF HandlerInv
<1>3. ASSUME NEW j \in Jobs, PrepareRaced(j)
       PROVE  Inductive'
  BY <1>3 DEF PrepareRaced, Answer, Holders, Live, handler, TypeOK, RowInv,
     RowFits, HandlerInv, Knows, OneSender, Facebook, Active, Undecided, Unchanged
<1>4. ASSUME NEW j \in Jobs, PrepareFails(j)
       PROVE  Inductive'
  BY <1>4 DEF PrepareFails, handler, TypeOK, RowInv, RowFits, HandlerInv,
     Knows, OneSender, Facebook, Active, Undecided, Unchanged
<1>5. ASSUME NEW j \in Jobs, Cancel(j)
       PROVE  Inductive'
  <2> DEFINE row == [job[j] EXCEPT !.status = "cancelled", !.waiting = FALSE]
  <2>1. Write(j, row) /\ UNCHANGED <<purged, prep, asked, reply, req, call>>
    BY <1>5 DEF Cancel, preparing, handler
  <2>2. /\ job[j].status \in {"prepared", "processing"}
        /\ ~job[j].attempted /\ pc' = pc
    BY <1>5 DEF Cancel, handler, RowInv, RowFits
  <2>3. /\ row \in Rows /\ row.status = "cancelled" /\ row.rev = job[j].rev
        /\ row.started = job[j].started /\ row.attempted = job[j].attempted
        /\ row.container = job[j].container
    BY RowsTyped, ClosedRow DEF Statuses
  <2> HIDE DEF row
  <2> QED
    BY <2>1, <2>2, <2>3, WritePreserves DEF Undecided
<1>6. ASSUME NEW j \in Jobs, Expire(j)
       PROVE  Inductive'
  <2> DEFINE row == [job[j] EXCEPT !.status = "expired"]
  <2>1. Write(j, row) /\ UNCHANGED <<purged, prep, asked, reply, req, call>>
    BY <1>6 DEF Expire, preparing, handler
  <2>2. job[j].status \in {"prepared", "processing"} /\ pc' = pc
    BY <1>6 DEF Expire, handler
  <2>3. /\ row \in Rows /\ row.status = "expired" /\ row.rev = job[j].rev
        /\ row.started = job[j].started /\ row.attempted = job[j].attempted
        /\ row.container = job[j].container
    BY RowsTyped DEF Rows, Statuses
  <2> HIDE DEF row
  <2> QED
    BY <2>1, <2>2, <2>3, WritePreserves DEF Undecided
<1>7. ASSUME NEW j \in Jobs, Purge(j)
       PROVE  Inductive'
  BY <1>7 DEF Purge, Live, preparing, handler, TypeOK, RowInv, RowFits,
     HandlerInv, Knows, OneSender, Facebook, Active, Undecided, Unchanged
<1>8. ASSUME NEW j \in Jobs, WaitOver(j)
       PROVE  Inductive'
  <2> DEFINE row == [job[j] EXCEPT !.waiting = FALSE]
  <2>1. /\ job' = [job EXCEPT ![j] = row] /\ job \in [Jobs -> Rows]
        /\ UNCHANGED <<purged, prep, asked, reply, pc, req, call>>
    BY <1>8 DEF WaitOver, preparing, handler, TypeOK, Rows
  <2>2. /\ row \in Rows
        /\ row.status = job[j].status /\ row.rev = job[j].rev
        /\ row.started = job[j].started /\ row.attempted = job[j].attempted
        /\ row.container = job[j].container
    BY <2>1 DEF Rows
  <2>3. job[j].status # "none"
    BY <1>8 DEF WaitOver, Live, RowInv, RowFits, NoJob
  <2> HIDE DEF row
  <2>4. /\ job' \in [Jobs -> Rows]
        /\ \A i \in Jobs \ {j} : job'[i] = job[i]
        /\ job'[j] = row
    BY <2>1, <2>2
  <2> QED
    BY <2>1, <2>2, <2>3, <2>4, TouchPreserves
<1>9. ASSUME NEW j \in Jobs, GrowLate(j)
       PROVE  Inductive'
  <2> DEFINE row == [job[j] EXCEPT !.late = TRUE]
  <2>1. /\ job' = [job EXCEPT ![j] = row] /\ job \in [Jobs -> Rows]
        /\ UNCHANGED <<purged, prep, asked, reply, pc, req, call>>
    BY <1>9 DEF GrowLate, preparing, handler, TypeOK, Rows
  <2>2. /\ row \in Rows
        /\ row.status = job[j].status /\ row.rev = job[j].rev
        /\ row.started = job[j].started /\ row.attempted = job[j].attempted
        /\ row.container = job[j].container
    BY <2>1 DEF Rows
  <2>3. job[j].status # "none"
    BY <1>9 DEF GrowLate, Live, RowInv, RowFits, NoJob
  <2> HIDE DEF row
  <2>4. /\ job' \in [Jobs -> Rows]
        /\ \A i \in Jobs \ {j} : job'[i] = job[i]
        /\ job'[j] = row
    BY <2>1, <2>2
  <2> QED
    BY <2>1, <2>2, <2>3, <2>4, TouchPreserves
<1>10. ASSUME NEW r \in Requests, NEW j \in Jobs, PublishRead(r, j)
       PROVE  Inductive'
  <2>1. /\ req' = [req EXCEPT ![r].job = j, ![r].rev = job[j].rev]
        /\ pc' = [pc EXCEPT ![r] = "start"] /\ req[r] = NoRequest
        /\ pc[r] = "idle" /\ call[r] = "none"
        /\ job[j].status = "prepared"
        /\ UNCHANGED <<job, purged, prep, asked, reply, call>>
    BY <1>10 DEF PublishRead, preparing, HandlerInv, Knows
  <2> DEFINE new == [req[r] EXCEPT !.job = j, !.rev = job[j].rev]
  <2>7. /\ new \in Locals /\ new.job = j
        /\ new.rev = job[j].rev /\ new.kind = "none"
    <3>1. req[r] \in Locals /\ job[j].rev \in Nat /\ req[r].kind = "none"
      BY <2>1, RowsTyped DEF NoRequest
    <3> QED
      BY <3>1 DEF Locals
  <2>8. req' = [req EXCEPT ![r] = new]
    BY <2>1
  <2> HIDE DEF new
  <2>2. /\ req' \in [Requests -> Locals]
        /\ req'[r].job = j /\ req'[r].rev = job[j].rev
        /\ req'[r].kind = "none"
        /\ \A s \in Requests \ {r} : req'[s] = req[s] /\ pc'[s] = pc[s]
    <3>1. req \in [Requests -> Locals] /\ pc \in [Requests -> {"idle", "start",
            "advance", "stored", "send", "wait", "settle", "fail", "done",
            "crashed"}]
      BY RowsTyped DEF TypeOK
    <3>2. req'[r] = new /\ req' \in [Requests -> Locals]
      BY <2>7, <2>8, <3>1
    <3>3. \A s \in Requests \ {r} : req'[s] = req[s]
      BY <2>8, <3>1
    <3>4. \A s \in Requests \ {r} : pc'[s] = pc[s]
      BY <2>1, <3>1
    <3> QED
      BY <2>7, <3>2, <3>3, <3>4
  <2>3. TypeOK'
    BY <2>1, <2>2 DEF TypeOK, Locals
  <2>4. RowInv'
    BY <2>1 DEF RowInv, RowFits, Facebook
  <2>5. ASSUME NEW s \in Requests PROVE Knows(s)'
    <3>1. CASE s = r
      BY <2>1, <2>2, <3>1 DEF Knows, Active, Undecided, Unchanged, Facebook, TypeOK
    <3>2. CASE s # r
      BY <2>1, <2>2, <3>2 DEF HandlerInv, Knows, Active, Undecided, Unchanged, Facebook
    <3> QED
      BY <3>1, <3>2
  <2>6. OneSender'
    BY <2>1, <2>2 DEF OneSender, NoRequest
  <2> QED
    BY <2>3, <2>4, <2>5, <2>6 DEF HandlerInv
<1>11. ASSUME NEW r \in Requests, NEW j \in Jobs, AdvanceRead(r, j)
       PROVE  Inductive'
  <2>1. /\ req' = [req EXCEPT ![r].job = j, ![r].rev = job[j].rev]
        /\ pc' = [pc EXCEPT ![r] = "advance"] /\ req[r] = NoRequest
        /\ pc[r] = "idle" /\ call[r] = "none"
        /\ job[j].status = "processing" /\ ~Facebook(j)
        /\ UNCHANGED <<job, purged, prep, asked, reply, call>>
    BY <1>11 DEF AdvanceRead, preparing, HandlerInv, Knows
  <2> DEFINE new == [req[r] EXCEPT !.job = j, !.rev = job[j].rev]
  <2>7. /\ new \in Locals /\ new.job = j
        /\ new.rev = job[j].rev /\ new.kind = "none"
    <3>1. req[r] \in Locals /\ job[j].rev \in Nat /\ req[r].kind = "none"
      BY <2>1, RowsTyped DEF NoRequest
    <3> QED
      BY <3>1 DEF Locals
  <2>8. req' = [req EXCEPT ![r] = new]
    BY <2>1
  <2> HIDE DEF new
  <2>2. /\ req' \in [Requests -> Locals]
        /\ req'[r].job = j /\ req'[r].rev = job[j].rev
        /\ req'[r].kind = "none"
        /\ \A s \in Requests \ {r} : req'[s] = req[s] /\ pc'[s] = pc[s]
    <3>1. req \in [Requests -> Locals] /\ pc \in [Requests -> {"idle", "start",
            "advance", "stored", "send", "wait", "settle", "fail", "done",
            "crashed"}]
      BY RowsTyped DEF TypeOK
    <3>2. req'[r] = new /\ req' \in [Requests -> Locals]
      BY <2>7, <2>8, <3>1
    <3>3. \A s \in Requests \ {r} : req'[s] = req[s]
      BY <2>8, <3>1
    <3>4. \A s \in Requests \ {r} : pc'[s] = pc[s]
      BY <2>1, <3>1
    <3> QED
      BY <2>7, <3>2, <3>3, <3>4
  <2>3. TypeOK'
    BY <2>1, <2>2 DEF TypeOK, Locals
  <2>4. RowInv'
    BY <2>1 DEF RowInv, RowFits, Facebook
  <2>5. ASSUME NEW s \in Requests PROVE Knows(s)'
    <3>1. CASE s = r
      BY <2>1, <2>2, <3>1 DEF Knows, Active, Undecided, Unchanged, Facebook, TypeOK
    <3>2. CASE s # r
      BY <2>1, <2>2, <3>2 DEF HandlerInv, Knows, Active, Undecided, Unchanged, Facebook
    <3> QED
      BY <3>1, <3>2
  <2>6. OneSender'
    BY <2>1, <2>2 DEF OneSender, NoRequest
  <2> QED
    BY <2>3, <2>4, <2>5, <2>6 DEF HandlerInv
<1>12. ASSUME NEW r \in Requests, PublishStart(r)
       PROVE  Inductive'
  <2> DEFINE j == req[r].job
             kind == IF Facebook(j) THEN "post" ELSE "container"
             wait == ~Facebook(j)
             row == [job[j] EXCEPT !.status = "processing", !.started = TRUE,
                                       !.waiting = wait]
             new == [req[r] EXCEPT !.kind = kind, !.rev = job[j].rev + 1]
  <2>1. /\ pc[r] = "start" /\ j \in Jobs /\ Unchanged(r) /\ call[r] = "none"
        /\ job[j].status = "prepared" /\ ~job[j].started
        /\ ~job[j].attempted /\ ~job[j].container
        /\ kind = "post" => Facebook(j)
        /\ kind \in {"post", "container"}
        /\ kind = "container" => ~Facebook(j)
    BY <1>12 DEF PublishStart, Current, HandlerInv, Knows, RowInv, RowFits,
       Unchanged
  <2>2. /\ Write(j, row) /\ pc' = [pc EXCEPT ![r] = "stored"]
        /\ UNCHANGED <<purged, prep, asked, reply, call>>
    BY <1>12 DEF PublishStart, preparing
  <2>3. req' = [req EXCEPT ![r] = new]
    <3>1. req' = [req EXCEPT ![r].kind = kind, ![r].rev = @ + 1]
      BY <1>12 DEF PublishStart
    <3> HIDE DEF kind
    <3>2. req' = [req EXCEPT ![r] = [req[r] EXCEPT !.kind = kind,
                                                   !.rev = req[r].rev + 1]]
      BY <3>1, RowsTyped, CallingLocals
    <3> QED
      BY <2>1, <3>2 DEF Unchanged
  <2>4. /\ row \in Rows /\ row.status = "processing" /\ row.rev = job[j].rev
        /\ row.started /\ row.attempted = job[j].attempted
        /\ row.container = job[j].container
    <3>1. job[j] \in Rows /\ wait \in BOOLEAN
      BY <2>1, RowsTyped
    <3> HIDE DEF wait
    <3> QED
      BY <3>1, StartedRow
  <2> HIDE DEF wait, row
  <2>5. /\ new \in Locals /\ new.job = j /\ new.kind = kind
        /\ new.rev = job[j].rev + 1
    <3>1. req[r] \in Locals /\ job[j].rev + 1 \in Nat
      BY <2>1, RowsTyped
    <3> QED
      BY <2>1, <3>1 DEF Locals
  <2> HIDE DEF kind, new
  <2>6. /\ job' \in [Jobs -> Rows]
        /\ \A i \in Jobs \ {j} : job'[i] = job[i]
        /\ job'[j].status = "processing" /\ job'[j].rev = job[j].rev + 1
        /\ job'[j].started /\ job'[j].attempted = job[j].attempted
        /\ job'[j].container = job[j].container
    <3>1. /\ job' \in [Jobs -> Rows]
          /\ \A i \in Jobs \ {j} : job'[i] = job[i]
          /\ job'[j].rev = row.rev + 1 /\ job'[j].status = row.status
          /\ job'[j].started = row.started /\ job'[j].attempted = row.attempted
          /\ job'[j].container = row.container
      BY <2>1, <2>2, <2>4, Written
    <3> QED
      BY <2>4, <3>1
  <2>7. /\ req' \in [Requests -> Locals]
        /\ req'[r].job = j /\ req'[r].kind = kind
        /\ req'[r].rev = job[j].rev + 1
        /\ \A s \in Requests \ {r} : req'[s] = req[s] /\ pc'[s] = pc[s]
        /\ pc'[r] = "stored"
    <3>1. req \in [Requests -> Locals] /\ pc \in [Requests -> {"idle", "start",
            "advance", "stored", "send", "wait", "settle", "fail", "done",
            "crashed"}]
      BY RowsTyped DEF TypeOK
    <3> QED
      BY <2>2, <2>3, <2>5, <3>1
  <2>8. TypeOK'
    BY <2>2, <2>6, <2>7 DEF TypeOK, Locals, Rows
  <2>9. RowInv'
    <3> SUFFICES ASSUME NEW i \in Jobs PROVE RowFits(i)'
      BY DEF RowInv
    <3>1. CASE i = j
      BY <2>1, <2>2, <2>6, <3>1 DEF RowInv, RowFits, Facebook
    <3>2. CASE i # j
      BY <2>2, <2>6, <3>2 DEF RowInv, RowFits, Facebook
    <3> QED
      BY <3>1, <3>2
  <2>10. ASSUME NEW s \in Requests PROVE Knows(s)'
    <3>1. CASE s = r
      BY <2>1, <2>2, <2>6, <2>7, <3>1 DEF Knows, Active, Undecided, Unchanged, Facebook,
         TypeOK
    <3>2. CASE s # r /\ req[s].job # j
      <4>1. Knows(s)
        BY DEF HandlerInv
      <4>2. req[s].job \in Jobs => job'[req[s].job] = job[req[s].job]
        BY <2>6, <3>2
      <4>3. /\ pc'[s] = pc[s] /\ req'[s] = req[s]
            /\ call' = call /\ asked' = asked
        BY <2>2, <2>7, <3>2
      <4> QED
        BY <4>1, <4>2, <4>3, StillKnows
    <3>3. CASE s # r /\ req[s].job = j
      <4>1. Knows(s) /\ pc[s] # "idle"
        BY <2>1, <3>3, SocialAssumption DEF HandlerInv, Knows, NoRequest
      <4>2. ~Unchanged(s)'
        BY <2>6, <2>7, <3>3, <4>1 DEF Knows, Unchanged, TypeOK
      <4>3. req[s].rev \in Nat /\ job[j].rev \in Nat
        BY <2>1 DEF TypeOK
      <4>4. ~Active(s)
        <5>1. req[s].kind \in {"none", "post", "container"}
          BY DEF TypeOK
        <5> QED
          BY <2>1, <3>3, <4>1, <5>1 DEF Knows
      <4>5. pc'[s] = pc[s] /\ req'[s] = req[s] /\ call' = call /\ asked' = asked
        BY <2>2, <2>7, <3>3
      <4> QED
        BY <2>1, <2>6, <3>3, <4>1, <4>2, <4>3, <4>4, <4>5
           DEF Knows, Active, Facebook
    <3> QED
      BY <3>1, <3>2, <3>3
  <2>11. OneSender'
    <3>1. ASSUME NEW s \in Requests, s # r, req[s].job = j
          PROVE  req[s].kind # kind
      BY <2>1, <3>1 DEF HandlerInv, Knows, RowInv, RowFits, kind
    <3> QED
      BY <2>7, <3>1 DEF OneSender
  <2> QED
    BY <2>8, <2>9, <2>10, <2>11 DEF HandlerInv
<1>13. ASSUME NEW r \in Requests, AdvanceStop(r)
       PROVE  Inductive'
  <2> DEFINE j == req[r].job
             row == [job[j] EXCEPT !.status = "unknown", !.waiting = FALSE]
  <2>1. /\ pc[r] = "advance" /\ j \in Jobs /\ job[j].status = "processing"
        /\ Write(j, row) /\ pc' = [pc EXCEPT ![r] = "done"]
        /\ UNCHANGED <<purged, prep, asked, reply, req, call>>
    BY <1>13 DEF AdvanceStop, AdvanceWith, Current, preparing, HandlerInv,
       Knows, Unchanged
  <2>2. /\ row \in Rows /\ row.status = "unknown" /\ row.rev = job[j].rev
        /\ row.started = job[j].started /\ row.attempted = job[j].attempted
        /\ row.container = job[j].container
    BY <2>1, RowsTyped, ClosedRow DEF Statuses
  <2>3. job[j].started
    BY <2>1 DEF RowInv, RowFits
  <2> HIDE DEF row
  <2> QED
    BY <2>1, <2>2, <2>3, WritePreserves DEF Undecided
<1>14. ASSUME NEW r \in Requests, AdvancePostpone(r)
       PROVE  Inductive'
  <2> DEFINE j == req[r].job
             row == [job[j] EXCEPT !.waiting = TRUE]
  <2>1. /\ pc[r] = "advance" /\ j \in Jobs /\ job[j].status = "processing"
        /\ Write(j, row) /\ pc' = [pc EXCEPT ![r] = "done"]
        /\ UNCHANGED <<purged, prep, asked, reply, req, call>>
    BY <1>14 DEF AdvancePostpone, AdvanceWith, Current, preparing,
       HandlerInv, Knows, Unchanged
  <2>2. /\ row \in Rows /\ row.status = "processing" /\ row.rev = job[j].rev
        /\ row.started = job[j].started /\ row.attempted = job[j].attempted
        /\ row.container = job[j].container
    BY <2>1, RowsTyped, PostponedRow
  <2>3. job[j].started
    BY <2>1 DEF RowInv, RowFits
  <2> HIDE DEF row
  <2> QED
    BY <2>1, <2>2, <2>3, WritePreserves DEF Undecided
<1>15. ASSUME NEW r \in Requests, AdvanceFailed(r)
       PROVE  Inductive'
  <2> DEFINE j == req[r].job
             row == [job[j] EXCEPT !.status = "failed", !.waiting = FALSE]
  <2>1. /\ pc[r] = "advance" /\ j \in Jobs /\ job[j].status = "processing"
        /\ Write(j, row) /\ pc' = [pc EXCEPT ![r] = "done"]
        /\ UNCHANGED <<purged, prep, asked, reply, req, call>>
    BY <1>15 DEF AdvanceFailed, AdvanceWith, Current, preparing, HandlerInv,
       Knows, Unchanged
  <2>2. /\ row \in Rows /\ row.status = "failed" /\ row.rev = job[j].rev
        /\ row.started = job[j].started /\ row.attempted = job[j].attempted
        /\ row.container = job[j].container
    BY <2>1, RowsTyped, ClosedRow DEF Statuses
  <2>3. job[j].started
    BY <2>1 DEF RowInv, RowFits
  <2>4. ASSUME NEW s \in Requests, req[s].job = j PROVE ~Active(s)'
    <3>1. ~Facebook(j) /\ job[j].container /\ ~job[j].attempted
      BY <1>15 DEF AdvanceFailed, Ready, HandlerInv, Knows
    <3>2. req[s].kind \in {"none", "post", "container"}
      BY DEF TypeOK
    <3>3. ~Active(s)
      BY <2>4, <3>1, <3>2 DEF HandlerInv, Knows
    <3> QED
      BY <2>1, <3>3 DEF Active, TypeOK
  <2> HIDE DEF row
  <2> QED
    BY <2>1, <2>2, <2>3, <2>4, WritePreserves
<1>16. ASSUME NEW r \in Requests, AdvanceAttempt(r)
       PROVE  Inductive'
  <2> DEFINE j == req[r].job
             kind == "post"
             row == [job[j] EXCEPT !.attempted = TRUE, !.waiting = FALSE]
             new == [req[r] EXCEPT !.kind = kind, !.rev = job[j].rev + 1]
  <2>1. /\ pc[r] = "advance" /\ j \in Jobs /\ Unchanged(r) /\ call[r] = "none"
        /\ job[j].status = "processing" /\ job[j].started
        /\ ~job[j].attempted /\ job[j].container
        /\ ~Facebook(j) /\ kind = "post"
        /\ kind \in {"post", "container"}
        /\ kind = "container" => ~Facebook(j)
    BY <1>16 DEF AdvanceAttempt, Ready, Current, HandlerInv, Knows, RowInv,
       RowFits, Unchanged
  <2>2. /\ Write(j, row) /\ pc' = [pc EXCEPT ![r] = "stored"]
        /\ UNCHANGED <<purged, prep, asked, reply, call>>
    BY <1>16 DEF AdvanceAttempt, Ready, preparing
  <2>3. req' = [req EXCEPT ![r] = new]
    <3>1. req' = [req EXCEPT ![r].kind = kind, ![r].rev = @ + 1]
      BY <1>16 DEF AdvanceAttempt
    <3>2. req' = [req EXCEPT ![r] = [req[r] EXCEPT !.kind = kind,
                                                   !.rev = req[r].rev + 1]]
      BY <3>1, RowsTyped, CallingLocals
    <3> QED
      BY <2>1, <3>2 DEF Unchanged
  <2>4. /\ row \in Rows /\ row.status = "processing" /\ row.rev = job[j].rev
        /\ row.started /\ row.attempted /\ row.container = job[j].container
    BY <2>1, RowsTyped, AttemptedRow
  <2> HIDE DEF row
  <2>5. /\ new \in Locals /\ new.job = j /\ new.kind = kind
        /\ new.rev = job[j].rev + 1
    <3>1. req[r] \in Locals /\ job[j].rev + 1 \in Nat
      BY <2>1, RowsTyped
    <3> QED
      BY <2>1, <3>1 DEF Locals
  <2> HIDE DEF kind, new
  <2>6. /\ job' \in [Jobs -> Rows]
        /\ \A i \in Jobs \ {j} : job'[i] = job[i]
        /\ job'[j].status = "processing" /\ job'[j].rev = job[j].rev + 1
        /\ job'[j].started /\ job'[j].attempted
        /\ job'[j].container = job[j].container
    <3>1. /\ job' \in [Jobs -> Rows]
          /\ \A i \in Jobs \ {j} : job'[i] = job[i]
          /\ job'[j].rev = row.rev + 1 /\ job'[j].status = row.status
          /\ job'[j].started = row.started /\ job'[j].attempted = row.attempted
          /\ job'[j].container = row.container
      BY <2>1, <2>2, <2>4, Written
    <3> QED
      BY <2>4, <3>1
  <2>7. /\ req' \in [Requests -> Locals]
        /\ req'[r].job = j /\ req'[r].kind = kind
        /\ req'[r].rev = job[j].rev + 1
        /\ \A s \in Requests \ {r} : req'[s] = req[s] /\ pc'[s] = pc[s]
        /\ pc'[r] = "stored"
    <3>1. req \in [Requests -> Locals] /\ pc \in [Requests -> {"idle", "start",
            "advance", "stored", "send", "wait", "settle", "fail", "done",
            "crashed"}]
      BY RowsTyped DEF TypeOK
    <3> QED
      BY <2>2, <2>3, <2>5, <3>1
  <2>8. TypeOK'
    BY <2>2, <2>6, <2>7 DEF TypeOK, Locals, Rows
  <2>9. RowInv'
    <3> SUFFICES ASSUME NEW i \in Jobs PROVE RowFits(i)'
      BY DEF RowInv
    <3>1. CASE i = j
      BY <2>1, <2>2, <2>6, <3>1 DEF RowInv, RowFits, Facebook
    <3>2. CASE i # j
      BY <2>2, <2>6, <3>2 DEF RowInv, RowFits, Facebook
    <3> QED
      BY <3>1, <3>2
  <2>10. ASSUME NEW s \in Requests PROVE Knows(s)'
    <3>1. CASE s = r
      BY <2>1, <2>2, <2>6, <2>7, <3>1 DEF Knows, Active, Undecided, Unchanged, Facebook,
         TypeOK
    <3>2. CASE s # r /\ req[s].job # j
      <4>1. Knows(s)
        BY DEF HandlerInv
      <4>2. req[s].job \in Jobs => job'[req[s].job] = job[req[s].job]
        BY <2>6, <3>2
      <4>3. /\ pc'[s] = pc[s] /\ req'[s] = req[s]
            /\ call' = call /\ asked' = asked
        BY <2>2, <2>7, <3>2
      <4> QED
        BY <4>1, <4>2, <4>3, StillKnows
    <3>3. CASE s # r /\ req[s].job = j
      <4>1. Knows(s) /\ pc[s] # "idle"
        BY <2>1, <3>3, SocialAssumption DEF HandlerInv, Knows, NoRequest
      <4>2. ~Unchanged(s)'
        BY <2>6, <2>7, <3>3, <4>1 DEF Knows, Unchanged, TypeOK
      <4>3. req[s].rev \in Nat /\ job[j].rev \in Nat
        BY <2>1 DEF TypeOK
      <4>4. ~Active(s)
        <5>1. req[s].kind \in {"none", "post", "container"}
          BY DEF TypeOK
        <5> QED
          BY <2>1, <3>3, <4>1, <5>1 DEF Knows
      <4>5. pc'[s] = pc[s] /\ req'[s] = req[s] /\ call' = call /\ asked' = asked
        BY <2>2, <2>7, <3>3
      <4> QED
        BY <2>1, <2>6, <3>3, <4>1, <4>2, <4>3, <4>4, <4>5
           DEF Knows, Active, Facebook
    <3> QED
      BY <3>1, <3>2, <3>3
  <2>11. OneSender'
    <3>1. ASSUME NEW s \in Requests, s # r, req[s].job = j
          PROVE  req[s].kind # kind
      BY <2>1, <3>1 DEF HandlerInv, Knows, RowInv, RowFits, kind
    <3> QED
      BY <2>7, <3>1 DEF OneSender
  <2> QED
    BY <2>8, <2>9, <2>10, <2>11 DEF HandlerInv
<1>17. ASSUME NEW r \in Requests, Send(r)
       PROVE  Inductive'
  <2>1. /\ pc[r] = "send" /\ pc' = [pc EXCEPT ![r] = "wait"]
        /\ call' = [call EXCEPT ![r] = "pending"]
        /\ UNCHANGED <<job, purged, prep, asked, reply, req>>
    BY <1>17 DEF Send, preparing
  <2>2. TypeOK'
    BY <2>1 DEF TypeOK
  <2>3. RowInv'
    BY <2>1 DEF RowInv, RowFits, Facebook
  <2>4. HandlerInv'
    BY <2>1 DEF TypeOK, HandlerInv, Knows, Active, Undecided, Unchanged, Facebook
  <2>5. OneSender'
    BY <2>1 DEF OneSender
  <2> QED
    BY <2>2, <2>3, <2>4, <2>5
<1>18. ASSUME NEW r \in Requests, AnswerAccepted(r)
       PROVE  Inductive'
  BY <1>18 DEF AnswerAccepted, preparing, TypeOK, RowInv, RowFits,
     HandlerInv, Knows, OneSender, Facebook, Active, Undecided, Unchanged
<1>19. ASSUME NEW r \in Requests, AnswerRefused(r)
       PROVE  Inductive'
  BY <1>19, GivingUpPreserves DEF AnswerRefused, preparing
<1>20. ASSUME NEW r \in Requests, AnswerUnknown(r)
       PROVE  Inductive'
  BY <1>20, GivingUpPreserves DEF AnswerUnknown, preparing
<1>21. ASSUME NEW r \in Requests, Settle(r)
       PROVE  Inductive'
  <2> DEFINE j == req[r].job
             row == IF req[r].kind = "post"
                      THEN [job[j] EXCEPT !.status = "published",
                                          !.waiting = FALSE]
                      ELSE [job[j] EXCEPT !.status = "processing",
                                          !.container = TRUE, !.waiting = TRUE]
  <2>1. /\ pc[r] = "settle" /\ j \in Jobs /\ job[j].status \in Undecided
        /\ job[j].started
        /\ Write(j, row) /\ pc' = [pc EXCEPT ![r] = "done"]
        /\ UNCHANGED <<purged, prep, asked, reply, req, call>>
    BY <1>21 DEF Settle, preparing, HandlerInv, Knows, Active
  <2>2. /\ row \in Rows /\ row.status \in {"published", "processing"}
        /\ row.rev = job[j].rev
        /\ row.started = job[j].started /\ row.attempted = job[j].attempted
        /\ \/ row.container = job[j].container
           \/ row.container /\ ~Facebook(j)
    <3>1. CASE req[r].kind = "post"
      <4>1. job[j] \in Rows /\ "published" \in Statuses
        BY <2>1, RowsTyped DEF Statuses
      <4> QED
        BY <3>1, <4>1, ClosedRow
    <3>2. CASE req[r].kind # "post"
      <4>1. ~Facebook(j)
        BY <2>1, <3>2 DEF HandlerInv, Knows, Active, TypeOK
      <4> QED
        BY <2>1, <3>2, <4>1, RowsTyped, ContainedRow
    <3> QED
      BY <3>1, <3>2
  <2>3. ASSUME NEW s \in Requests, req[s].job = j PROVE ~Active(s)'
    BY <2>1, <2>3, Alone DEF Active, TypeOK
  <2> HIDE DEF row
  <2> QED
    BY <2>1, <2>2, <2>3, WritePreserves DEF Undecided
<1>22. ASSUME NEW r \in Requests, SettleFails(r)
       PROVE  Inductive'
  BY <1>22, GivingUpPreserves DEF SettleFails, preparing
<1>23. ASSUME NEW r \in Requests, RecordFailure(r)
       PROVE  Inductive'
  <2> DEFINE j == req[r].job
             row == [job[j] EXCEPT !.status = req[r].answer, !.waiting = FALSE]
  <2>1. /\ pc[r] = "fail" /\ j \in Jobs /\ job[j].status \in Undecided
        /\ Write(j, row) /\ pc' = [pc EXCEPT ![r] = "done"]
        /\ UNCHANGED <<purged, prep, asked, reply, req, call>>
        /\ req[r].answer \in {"failed", "unknown"}
    BY <1>23 DEF RecordFailure, Current, preparing, HandlerInv, Knows, Active, Undecided,
       Unchanged, TypeOK
  <2>2. /\ row \in Rows /\ row.status = req[r].answer /\ row.rev = job[j].rev
        /\ row.started = job[j].started /\ row.attempted = job[j].attempted
        /\ row.container = job[j].container
    <3>1. req[r].answer \in Statuses /\ job[j] \in Rows
      BY <2>1, RowsTyped DEF Statuses
    <3> QED
      BY <3>1, ClosedRow
  <2>3. job[j].started /\ job[j].status # "none"
    BY <2>1 DEF HandlerInv, Knows, Active, Undecided
  <2>4. ASSUME NEW s \in Requests, req[s].job = j PROVE ~Active(s)'
    BY <2>1, <2>4, Alone DEF Active, TypeOK
  <2> HIDE DEF row
  <2> QED
    BY <2>1, <2>2, <2>3, <2>4, WritePreserves DEF Undecided
<1>24. ASSUME NEW r \in Requests, Conflict(r)
       PROVE  Inductive'
  BY <1>24 DEF Conflict, preparing, TypeOK, RowInv, RowFits, HandlerInv,
     Knows, OneSender, Facebook, Active, Undecided, Unchanged
<1>25. ASSUME NEW r \in Requests, Crash(r)
       PROVE  Inductive'
  BY <1>25 DEF Crash, preparing, TypeOK, RowInv, RowFits, HandlerInv, Knows,
     OneSender, Facebook, Active, Undecided, Unchanged
<1>26. ASSUME NEW r \in Requests, MetaTakes(r)
       PROVE  Inductive'
  BY <1>26 DEF MetaTakes, preparing, handler, TypeOK, RowInv, RowFits,
     HandlerInv, Knows, OneSender, Facebook, Active, Undecided, Unchanged
<1>27. ASSUME NEW r \in Requests, MetaRejects(r)
       PROVE  Inductive'
  BY <1>27 DEF MetaRejects, preparing, handler, TypeOK, RowInv, RowFits,
     HandlerInv, Knows, OneSender, Facebook, Active, Undecided, Unchanged
<1>28. ASSUME NEW r \in Requests, Reread(r)
       PROVE  Inductive'
  <2> DEFINE j == req[r].job
             new == [req[r] EXCEPT !.rev = job[j].rev]
  <2>1. /\ pc[r] = "stored" /\ j \in Jobs
        /\ pc' = [pc EXCEPT ![r] = "send"]
        /\ req' = [req EXCEPT ![r] = new]
        /\ UNCHANGED <<job, purged, prep, asked, reply, call>>
    BY <1>28 DEF Reread, preparing, HandlerInv, Knows
  <2>2. /\ new \in Locals /\ new.job = j /\ new.rev = job[j].rev
        /\ new.kind = req[r].kind /\ new.answer = req[r].answer
    <3>1. req[r] \in Locals /\ job[j].rev \in Nat
      BY <2>1, RowsTyped
    <3> QED
      BY <3>1 DEF Locals
  <2> HIDE DEF new
  <2>3. /\ req' \in [Requests -> Locals] /\ req'[r] = new
        /\ \A s \in Requests \ {r} : req'[s] = req[s] /\ pc'[s] = pc[s]
        /\ pc'[r] = "send"
    <3>1. req \in [Requests -> Locals] /\ pc \in [Requests -> {"idle", "start",
            "advance", "stored", "send", "wait", "settle", "fail", "done",
            "crashed"}]
      BY RowsTyped DEF TypeOK
    <3> QED
      BY <2>1, <2>2, <3>1
  <2>4. TypeOK'
    BY <2>1, <2>3 DEF TypeOK, Locals
  <2>5. RowInv'
    BY <2>1 DEF RowInv, RowFits, Facebook
  <2>6. ASSUME NEW s \in Requests PROVE Knows(s)'
    <3>1. CASE s = r
      <4>1. Knows(r) /\ job[j].rev \in Nat
        BY <2>1 DEF HandlerInv, TypeOK
      <4> QED
        BY <2>1, <2>2, <2>3, <3>1, <4>1 DEF Knows, Active, Unchanged, Facebook
    <3>2. CASE s # r
      BY <2>1, <2>3, <3>2, StillKnows DEF HandlerInv
    <3> QED
      BY <3>1, <3>2
  <2>7. OneSender'
    <3> SUFFICES ASSUME NEW s \in Requests
                 PROVE  req'[s].job = req[s].job /\ req'[s].kind = req[s].kind
      BY DEF OneSender
    <3> QED
      BY <2>2, <2>3
  <2> QED
    BY <2>4, <2>5, <2>6, <2>7 DEF HandlerInv
<1>29. CASE UNCHANGED vars
  BY <1>29 DEF vars, handler, preparing, TypeOK, RowInv, RowFits,
     HandlerInv, Knows, OneSender, Facebook, Active, Undecided, Unchanged
<1> QED
  BY <1>1, <1>2, <1>3, <1>4, <1>5, <1>6, <1>7, <1>8, <1>9, <1>10, <1>11,
     <1>12, <1>13, <1>14, <1>15, <1>16, <1>17, <1>18, <1>19, <1>20, <1>21,
     <1>22, <1>23, <1>24, <1>25, <1>26, <1>27, <1>28,
     <1>29 DEF Next

\* Each job is posted at most once, and has at most one container, whatever
\* publish, advance, cancel and cleanup requests run and wherever they stop.
THEOREM PostedOnce == Spec => []AtMostOnePost
<1>1. Inductive => AtMostOnePost
  BY DEF Inductive, HandlerInv, Knows, OneSender, AtMostOnePost
<1> QED
  BY <1>1, InitInductive, StepInductive, PTL DEF Spec

\* Rows, handlers and calls keep their types.
THEOREM TypeCorrect == Spec => []TypeOK
<1>1. Inductive => TypeOK
  BY DEF Inductive
<1> QED
  BY <1>1, InitInductive, StepInductive, PTL DEF Spec

\* A cancellation and the final call of an Instagram post exclude each other.
THEOREM CancelledNeverPosted == Spec => []CancelledStaysOff
<1>1. Inductive => CancelledStaysOff
  BY DEF Inductive, HandlerInv, Knows, RowInv, RowFits, CancelledStaysOff,
     Sent,
     Posters
<1> QED
  BY <1>1, InitInductive, StepInductive, PTL DEF Spec

---------------------------------------------------------------------------
(* The record rests on what Meta did or answered.                          *)

TruthOf(j) ==
  /\ job[j].status = "published" => Taken(j)
  /\ job[j].status = "failed" => \A r \in Posters(j) : call[r] \in Rejected

FailKnows ==
  \A r \in Requests :
    pc[r] = "fail" /\ req[r].answer = "failed" => call[r] \in Rejected

Truth == FailKnows /\ \A j \in Jobs : TruthOf(j)

\* Only three actions can give a row its last word.
LEMMA TruthKept ==
  ASSUME Truth, NEW j \in Jobs,
         job'[j].status \in {"published", "failed"} =>
           /\ job'[j].status = job[j].status
           /\ Posters(j)' = Posters(j),
         \A r \in Requests :
           /\ call[r] \in CarriedOut => call'[r] \in CarriedOut
           /\ call[r] \in Rejected => call'[r] \in Rejected
  PROVE  TruthOf(j)'
<1>1. CASE job'[j].status = "published"
  <2>1. PICK r \in Posters(j) : call[r] \in CarriedOut
    BY <1>1 DEF Truth, TruthOf, Taken
  <2>2. r \in Posters(j)' /\ call'[r] \in CarriedOut
    BY <1>1, <2>1 DEF Posters
  <2> QED
    BY <1>1, <2>2 DEF TruthOf, Taken
<1>2. CASE job'[j].status = "failed"
  <2>1. \A r \in Posters(j)' : call[r] \in Rejected
    BY <1>2 DEF Truth, TruthOf
  <2>2. \A r \in Posters(j)' : r \in Requests
    BY DEF Posters
  <2> QED
    BY <1>2, <2>1, <2>2 DEF TruthOf
<1> QED
  BY <1>1, <1>2 DEF TruthOf

\* Before any request the record says nothing.
LEMMA InitTruth == Init => Truth
BY DEF Init, Truth, FailKnows, TruthOf, NoJob, NoRequest

\* Meta takes back neither what it did with a call nor its answer.
LEMMA CallsStay ==
  ASSUME Inductive, Next, NEW r \in Requests
  PROVE  /\ call[r] \in CarriedOut => call'[r] \in CarriedOut
         /\ call[r] \in Rejected => call'[r] \in Rejected
<1>1. ASSUME NEW j \in Jobs,
             \/ \E k \in Keys, post \in Posts : PrepareFind(j, k, post)
             \/ PrepareInsert(j) \/ PrepareRaced(j) \/ PrepareFails(j)
             \/ Cancel(j) \/ Expire(j) \/ Purge(j) \/ WaitOver(j) \/ GrowLate(j)
      PROVE  UNCHANGED call
  BY <1>1 DEF PrepareFind, PrepareInsert, PrepareRaced, PrepareFails, Cancel,
     Expire, Purge, WaitOver, GrowLate
<1>2. ASSUME NEW s \in Requests,
             \/ \E j \in Jobs : PublishRead(s, j) \/ AdvanceRead(s, j)
             \/ PublishStart(s) \/ AdvanceStop(s) \/ AdvancePostpone(s)
             \/ AdvanceFailed(s) \/ AdvanceAttempt(s) \/ Reread(s)
      PROVE  UNCHANGED call
  BY <1>2 DEF Reread, PublishRead, AdvanceRead, PublishStart, AdvanceStop,
     AdvancePostpone, AdvanceFailed, AdvanceAttempt, AdvanceWith
<1>3. ASSUME NEW s \in Requests,
             \/ AnswerAccepted(s) \/ AnswerRefused(s) \/ AnswerUnknown(s)
             \/ Settle(s) \/ SettleFails(s) \/ RecordFailure(s)
             \/ Conflict(s) \/ Crash(s)
      PROVE  UNCHANGED call
  BY <1>3 DEF AnswerAccepted, AnswerRefused, AnswerUnknown, Settle,
     SettleFails, RecordFailure, Conflict, Crash
<1>4. ASSUME NEW s \in Requests, Send(s)
      PROVE  call[r] # "none" => call'[r] = call[r]
  BY <1>4 DEF Inductive, TypeOK, HandlerInv, Knows, Send
<1>5. ASSUME NEW s \in Requests, MetaTakes(s) \/ MetaRejects(s)
      PROVE  /\ call[r] \in CarriedOut => call'[r] \in CarriedOut
             /\ call[r] \in Rejected => call'[r] \in Rejected
  BY <1>5 DEF Inductive, TypeOK, MetaTakes, MetaRejects
<1> QED
  BY <1>1, <1>2, <1>3, <1>4, <1>5 DEF Next

\* What every other action leaves alone.
Calm ==
  \A i \in Jobs :
    /\ Posters(i)' = Posters(i)
    /\ job'[i].status \in {"published", "failed"} =>
         job'[i].status = job[i].status

\* The actions that can put a verdict on record, or a call on its way.
LEMMA Calmness ==
  ASSUME Inductive, Next
  PROVE  \/ Calm
         \/ \E r \in Requests :
              \/ PublishStart(r) \/ AdvanceAttempt(r)
              \/ AdvanceFailed(r) \/ Settle(r) \/ RecordFailure(r)
<1> USE DEF Inductive, TypeOK, Calm, Posters
<1>1. ASSUME NEW j \in Jobs, NEW k \in Keys, NEW post \in Posts,
             PrepareFind(j, k, post)
      PROVE  Calm
  BY <1>1 DEF PrepareFind, handler
<1>2. ASSUME NEW j \in Jobs, PrepareInsert(j) PROVE Calm
  BY <1>2 DEF PrepareInsert, handler
<1>3. ASSUME NEW j \in Jobs, PrepareRaced(j) PROVE Calm
  BY <1>3 DEF PrepareRaced, handler
<1>4. ASSUME NEW j \in Jobs, PrepareFails(j) PROVE Calm
  BY <1>4 DEF PrepareFails, handler
<1>5. ASSUME NEW j \in Jobs, Cancel(j) PROVE Calm
  BY <1>5 DEF Cancel, Write, handler
<1>6. ASSUME NEW j \in Jobs, Expire(j) PROVE Calm
  BY <1>6 DEF Expire, Write, handler
<1>7. ASSUME NEW j \in Jobs, Purge(j) PROVE Calm
  BY <1>7 DEF Purge, handler
<1>8. ASSUME NEW j \in Jobs, WaitOver(j) PROVE Calm
  BY <1>8 DEF WaitOver, handler
<1>9. ASSUME NEW j \in Jobs, GrowLate(j) PROVE Calm
  BY <1>9 DEF GrowLate, handler
<1>10. ASSUME NEW r \in Requests, NEW j \in Jobs, PublishRead(r, j) PROVE Calm
  BY <1>10 DEF PublishRead, HandlerInv, Knows, NoRequest
<1>11. ASSUME NEW r \in Requests, NEW j \in Jobs, AdvanceRead(r, j) PROVE Calm
  BY <1>11 DEF AdvanceRead, HandlerInv, Knows, NoRequest
<1>12. ASSUME NEW r \in Requests, AdvanceStop(r) PROVE Calm
  BY <1>12 DEF AdvanceStop, AdvanceWith, Write
<1>13. ASSUME NEW r \in Requests, AdvancePostpone(r) PROVE Calm
  BY <1>13 DEF AdvancePostpone, AdvanceWith, Write
<1>14. ASSUME NEW r \in Requests, Send(r) PROVE Calm
  BY <1>14 DEF Send
<1>15. ASSUME NEW r \in Requests, AnswerAccepted(r) PROVE Calm
  BY <1>15 DEF AnswerAccepted
<1>16. ASSUME NEW r \in Requests, AnswerRefused(r) PROVE Calm
  BY <1>16 DEF AnswerRefused
<1>17. ASSUME NEW r \in Requests, AnswerUnknown(r) PROVE Calm
  BY <1>17 DEF AnswerUnknown
<1>18. ASSUME NEW r \in Requests, SettleFails(r) PROVE Calm
  BY <1>18 DEF SettleFails
<1>19. ASSUME NEW r \in Requests, Conflict(r) PROVE Calm
  BY <1>19 DEF Conflict
<1>20. ASSUME NEW r \in Requests, Crash(r) PROVE Calm
  BY <1>20 DEF Crash
<1>21. ASSUME NEW r \in Requests, MetaTakes(r) PROVE Calm
  BY <1>21 DEF MetaTakes, handler
<1>22. ASSUME NEW r \in Requests, MetaRejects(r) PROVE Calm
  BY <1>22 DEF MetaRejects, handler
<1>23. ASSUME NEW r \in Requests, Reread(r) PROVE Calm
  BY <1>23 DEF Reread
<1> QED
  BY <1>1, <1>2, <1>3, <1>4, <1>5, <1>6, <1>7, <1>8, <1>9, <1>10, <1>11,
     <1>12, <1>13, <1>14, <1>15, <1>16, <1>17, <1>18, <1>19, <1>20, <1>21,
     <1>22, <1>23 DEF Next

\* How a handler comes to give up on its call.
LEMMA Failing ==
  ASSUME Inductive, Next, NEW r \in Requests, pc'[r] = "fail",
         req'[r].answer = "failed"
  PROVE  \/ pc[r] = "fail" /\ req[r].answer = "failed"
         \/ AnswerRefused(r)
<1> USE DEF Inductive, TypeOK
<1>1. CASE UNCHANGED <<pc, req>>
  BY <1>1
<1>2. ASSUME NEW s \in Requests,
             \E j \in Jobs : PublishRead(s, j) \/ AdvanceRead(s, j)
      PROVE  pc[r] = "fail" /\ req[r].answer = "failed"
  BY <1>2 DEF PublishRead, AdvanceRead
<1>3. ASSUME NEW s \in Requests, PublishStart(s) \/ AdvanceAttempt(s)
      PROVE  pc[r] = "fail" /\ req[r].answer = "failed"
  BY <1>3 DEF PublishStart, AdvanceAttempt
<1>4. ASSUME NEW s \in Requests,
             \/ AdvanceStop(s) \/ AdvancePostpone(s) \/ AdvanceFailed(s)
             \/ Settle(s) \/ RecordFailure(s)
      PROVE  pc[r] = "fail" /\ req[r].answer = "failed"
  BY <1>4 DEF AdvanceStop, AdvancePostpone, AdvanceFailed, AdvanceWith, Settle,
     RecordFailure
<1>5. ASSUME NEW s \in Requests,
             \/ Send(s) \/ AnswerAccepted(s) \/ Conflict(s) \/ Crash(s)
             \/ Reread(s)
      PROVE  pc[r] = "fail" /\ req[r].answer = "failed"
  BY <1>5 DEF Reread, Send, AnswerAccepted, Conflict, Crash
<1>6. ASSUME NEW s \in Requests, AnswerUnknown(s) \/ SettleFails(s)
      PROVE  pc[r] = "fail" /\ req[r].answer = "failed"
  <2>1. pc' = [pc EXCEPT ![s] = "fail"] /\ req'[s].answer = "unknown"
    BY <1>6 DEF AnswerUnknown, SettleFails
  <2>2. r # s
    BY <2>1
  <2> QED
    BY <1>6, <2>1, <2>2 DEF AnswerUnknown, SettleFails
<1>7. ASSUME NEW s \in Requests, AnswerRefused(s)
      PROVE  (pc[r] = "fail" /\ req[r].answer = "failed") \/ AnswerRefused(r)
  BY <1>7 DEF AnswerRefused
<1>8. ASSUME NEW j \in Jobs,
             \/ \E k \in Keys, post \in Posts : PrepareFind(j, k, post)
             \/ PrepareInsert(j) \/ PrepareRaced(j) \/ PrepareFails(j)
             \/ Cancel(j) \/ Expire(j) \/ Purge(j) \/ WaitOver(j) \/ GrowLate(j)
      PROVE  UNCHANGED <<pc, req>>
  BY <1>8 DEF PrepareFind, PrepareInsert, PrepareRaced, PrepareFails, Cancel,
     Expire, Purge, WaitOver, GrowLate, handler
<1>9. ASSUME NEW s \in Requests, MetaTakes(s) \/ MetaRejects(s)
      PROVE  UNCHANGED <<pc, req>>
  BY <1>9 DEF MetaTakes, MetaRejects, handler
<1> QED
  BY <1>1, <1>2, <1>3, <1>4, <1>5, <1>6, <1>7, <1>8, <1>9 DEF Next

\* Every step keeps the record true.
LEMMA StepTruth ==
  ASSUME Inductive, Truth, Next PROVE Truth'
<1> USE DEF Inductive
<1>1. FailKnows'
  <2> SUFFICES ASSUME NEW r \in Requests, pc'[r] = "fail",
                      req'[r].answer = "failed"
               PROVE  call'[r] \in Rejected
    BY DEF FailKnows
  <2>1. CASE pc[r] = "fail" /\ req[r].answer = "failed"
    BY <2>1, CallsStay DEF Truth, FailKnows
  <2>2. CASE ~(pc[r] = "fail" /\ req[r].answer = "failed")
    <3>1. AnswerRefused(r)
      BY <2>2, Failing
    <3> QED
      BY <3>1 DEF AnswerRefused
  <2> QED
    BY <2>1, <2>2
<1>2. CASE Calm
  BY <1>1, <1>2, TruthKept, CallsStay DEF Calm, Truth
<1>3. ASSUME NEW r \in Requests, PublishStart(r) \/ AdvanceAttempt(r)
      PROVE  Truth'
  <2> DEFINE j == req[r].job
  <2>1. /\ j \in Jobs /\ job'[j].status = "processing"
        /\ \A i \in Jobs \ {j} : job'[i] = job[i]
        /\ \A s \in Requests \ {r} : req'[s] = req[s]
        /\ req'[r].job = j
    <3>1. /\ pc[r] \in {"start", "advance"} /\ req[r].rev = job[j].rev
          /\ \E kind \in {"post", "container"} :
               req' = [req EXCEPT ![r].kind = kind, ![r].rev = @ + 1]
      BY <1>3 DEF PublishStart, AdvanceAttempt, Current
    <3>2. j \in Jobs
      BY <3>1 DEF HandlerInv, Knows
    <3>3. pc[r] = "advance" => job[j].status = "processing"
      BY <3>1 DEF HandlerInv, Knows, Unchanged
    <3>4. /\ \A i \in Jobs \ {j} : job'[i] = job[i]
          /\ job'[j].status = "processing"
      <4>1. PICK row \in Rows : /\ row.status = "processing"
                               /\ Write(j, row)
        <5>1. job[j] \in Rows
          BY <3>2, RowsTyped
        <5>2. CASE PublishStart(r)
          BY <5>1, <5>2, StartedRow DEF PublishStart
        <5>3. CASE AdvanceAttempt(r)
          BY <3>3, <5>1, <5>3, AttemptedRow DEF AdvanceAttempt
        <5> QED
          BY <1>3, <5>2, <5>3
      <4> QED
        BY <3>2, <4>1, Written
    <3> QED
      BY <3>1, <3>2, <3>4 DEF TypeOK
  <2>2. ASSUME NEW i \in Jobs PROVE TruthOf(i)'
    <3>1. CASE i = j
      BY <2>1, <3>1 DEF TruthOf
    <3>2. CASE i # j
      <4>1. Posters(i)' = Posters(i)
        BY <2>1, <3>2 DEF Posters
      <4> QED
        BY <2>1, <3>2, <4>1, TruthKept, CallsStay
    <3> QED
      BY <3>1, <3>2
  <2> QED
    BY <1>1, <2>2 DEF Truth
<1>4. ASSUME NEW r \in Requests,
             AdvanceFailed(r) \/ Settle(r) \/ RecordFailure(r)
      PROVE  Truth'
  <2> DEFINE j == req[r].job
  <2>1. /\ j \in Jobs /\ UNCHANGED <<req, call>>
        /\ \A i \in Jobs \ {j} : job'[i] = job[i]
    BY <1>4 DEF AdvanceFailed, AdvanceWith, Settle, RecordFailure, Write,
       HandlerInv, Knows, TypeOK
  <2>2. TruthOf(j)'
    <3>1. CASE AdvanceFailed(r)
      <4>1. Posters(j) = {} /\ job'[j].status = "failed"
        BY <2>1, <3>1 DEF AdvanceFailed, AdvanceWith, Write, Ready, TypeOK,
           HandlerInv, Knows, Posters
      <4> QED
        BY <2>1, <4>1 DEF TruthOf, Posters
    <3>2. CASE Settle(r)
      <4>1. call[r] = "taken"
        BY <3>2 DEF Settle, HandlerInv, Knows
      <4>2. CASE req[r].kind = "post"
        <5>1. job'[j].status = "published"
          BY <2>1, <3>2, <4>2 DEF Settle, Write, TypeOK
        <5> QED
          BY <2>1, <4>1, <4>2, <5>1 DEF TruthOf, Taken, Posters
      <4>3. CASE req[r].kind # "post"
        <5>1. job'[j].status = "processing"
          BY <2>1, <3>2, <4>1, <4>3 DEF Settle, Write, TypeOK
        <5> QED
          BY <2>1, <5>1 DEF TruthOf
      <4> QED
        BY <4>2, <4>3
    <3>3. CASE RecordFailure(r)
      <4>1. /\ pc[r] = "fail" /\ job'[j].status = req[r].answer
            /\ req[r].answer \in {"failed", "unknown"}
            /\ Unchanged(r)
        BY <2>1, <3>3 DEF RecordFailure, Write, TypeOK, Current, HandlerInv,
           Knows,
           Unchanged
      <4>2. ASSUME req[r].answer = "failed", NEW s \in Posters(j)
            PROVE  call[s] \in Rejected
        <5>1. req[r].kind = "post"
          BY <2>1, <4>1, <4>2 DEF HandlerInv, Knows, Active, Posters, TypeOK,
             RowInv, RowFits
        <5>2. s = r
          BY <5>1, <4>2 DEF OneSender, Posters
        <5> QED
          BY <4>1, <4>2, <5>2 DEF Truth, FailKnows
      <4> QED
        BY <2>1, <4>1, <4>2 DEF TruthOf, Posters
    <3> QED
      BY <1>4, <3>1, <3>2, <3>3
  <2>3. ASSUME NEW i \in Jobs \ {j} PROVE TruthOf(i)'
    BY <2>1, TruthKept, CallsStay DEF Posters
  <2> QED
    BY <1>1, <2>1, <2>2, <2>3 DEF Truth
<1> QED
  BY <1>2, <1>3, <1>4, Calmness

\* Published means that Meta made the post, failed that an error answered every
\* call for it: a lost or late answer, a broken connection or the end of the
\* process never reads as a failure.
THEOREM RecordTrue == Spec => []RecordIsTrue
<1> DEFINE Inv == Inductive /\ Truth
<1>1. Init => Inv
  BY InitInductive, InitTruth
<1>2. Inv /\ [Next]_vars => Inv'
  <2>1. CASE UNCHANGED vars
    BY <2>1, StepInductive DEF Truth, FailKnows, TruthOf, Taken, Posters, vars,
       handler, preparing
  <2> QED
    BY <2>1, StepInductive, StepTruth
<1>3. Inv => RecordIsTrue
  BY DEF Truth, TruthOf, RecordIsTrue
<1> QED
  BY <1>1, <1>2, <1>3, PTL DEF Spec

---------------------------------------------------------------------------
(* Idempotency keys.                                                        *)

\* An answered request is finished, and so is the one that made the job.
Answered ==
  \A j \in Jobs :
    reply[j] # Nil => prep[j] = "done" /\ prep[reply[j]] = "done"

\* Every step keeps the meaning of a key.
LEMMA StepKeys ==
  ASSUME Inductive, IdempotencyHolds, Answered, [Next]_vars
  PROVE  IdempotencyHolds' /\ Answered'
<1> USE SocialAssumption DEF Inductive, TypeOK, IdempotencyHolds, Answered
<1>0. \A j \in Jobs : Live(j) => prep[j] = "done"
  BY DEF Live, RowInv, RowFits
<1>1. CASE /\ UNCHANGED preparing
           /\ \A j \in Jobs : Live(j)' => Live(j)
  BY <1>1 DEF preparing
<1>2. ASSUME NEW j \in Jobs, NEW k \in Keys, NEW post \in Posts,
             PrepareFind(j, k, post)
      PROVE  IdempotencyHolds' /\ Answered'
  <2>1. /\ prep[j] = "idle" /\ UNCHANGED <<job, purged>>
        /\ asked' = [asked EXCEPT ![j] = [key |-> k, post |-> post]]
    BY <1>2 DEF PrepareFind
  <2>2. ~Live(j) /\ reply[j] = Nil /\ \A i \in Jobs : reply[i] # j
    BY <2>1, <1>0
  <2>3. CASE prep' = [prep EXCEPT ![j] = "stage"] /\ UNCHANGED reply
    BY <2>1, <2>2, <2>3 DEF Live
  <2>4. ASSUME NEW holder \in Holders(k), Answer(j, holder, post)
        PROVE  IdempotencyHolds' /\ Answered'
    <3>1. /\ holder \in Jobs \ {j} /\ asked[holder].key = k
          /\ prep[holder] = "done"
      BY <2>2, <2>4, <1>0 DEF Holders
    <3>2. /\ prep' = [prep EXCEPT ![j] = "done"]
          /\ reply' = [reply EXCEPT ![j] =
                         IF asked[holder].post = post THEN holder ELSE Nil]
      BY <2>4 DEF Answer
    <3>3. asked[holder].post = post =>
            asked[holder] = [key |-> k, post |-> post]
      BY <3>1
    <3> QED
      BY <2>1, <2>2, <3>1, <3>2, <3>3 DEF Live
  <2> QED
    BY <1>2, <2>3, <2>4 DEF PrepareFind
<1>3. ASSUME NEW j \in Jobs, PrepareInsert(j)
      PROVE  IdempotencyHolds' /\ Answered'
  <2>1. /\ prep[j] = "stage" /\ UNCHANGED <<purged, asked>>
        /\ prep' = [prep EXCEPT ![j] = "done"]
        /\ reply' = [reply EXCEPT ![j] = j]
        /\ \A i \in Jobs \ {j} : job'[i] = job[i]
        /\ \A i \in Jobs : Live(i) => asked[i].key # asked[j].key
    BY <1>3 DEF PrepareInsert, Holders
  <2>2. ASSUME NEW i \in Jobs PROVE reply[i] # j
    <3>1. reply[i] \in Jobs => prep[reply[i]] = "done"
      OBVIOUS
    <3> QED
      BY <2>1, <3>1
  <2>3. \A i \in Jobs \ {j} : Live(i)' <=> Live(i)
    BY <2>1 DEF Live
  <2>4. IdempotencyHolds'
    BY <2>1, <2>3
  <2>5. Answered'
    BY <2>1, <2>2
  <2> QED
    BY <2>4, <2>5
<1>4. ASSUME NEW j \in Jobs, PrepareRaced(j)
      PROVE  IdempotencyHolds' /\ Answered'
  <2>1. PICK holder \in Holders(asked[j].key) : Answer(j, holder, asked[j].post)
    BY <1>4 DEF PrepareRaced
  <2>2. /\ prep[j] = "stage" /\ UNCHANGED <<job, purged, asked>>
        /\ prep' = [prep EXCEPT ![j] = "done"]
        /\ reply' = [reply EXCEPT ![j] =
                       IF asked[holder].post = asked[j].post THEN holder
                                                             ELSE Nil]
    BY <1>4, <2>1 DEF PrepareRaced, Answer
  <2>3. /\ holder \in Jobs /\ prep[holder] = "done"
        /\ asked[holder].key = asked[j].key
    BY <2>1, <1>0 DEF Holders
  <2>4. asked[holder].post = asked[j].post => asked[holder] = asked[j]
    BY <2>3
  <2> QED
    BY <2>2, <2>3, <2>4 DEF Live
<1>5. ASSUME NEW j \in Jobs, PrepareFails(j)
      PROVE  IdempotencyHolds' /\ Answered'
  BY <1>5 DEF PrepareFails, Live
<1>6. ASSUME NEW j \in Jobs,
             Cancel(j) \/ Expire(j) \/ Purge(j) \/ WaitOver(j) \/ GrowLate(j)
      PROVE  UNCHANGED preparing /\ \A i \in Jobs : Live(i)' => Live(i)
  <2>1. /\ UNCHANGED preparing /\ purged \subseteq purged'
        /\ job[j].status # "none"
        /\ \A i \in Jobs \ {j} : job'[i] = job[i]
    <3>1. CASE Cancel(j) \/ Expire(j)
      BY <3>1 DEF Cancel, Expire, Write, Live
    <3>2. CASE Purge(j)
      BY <3>2 DEF Purge, Live
    <3>3. CASE WaitOver(j)
      BY <3>3 DEF WaitOver, RowInv, RowFits, NoJob
    <3>4. CASE GrowLate(j)
      BY <3>4 DEF GrowLate, Live
    <3> QED
      BY <1>6, <3>1, <3>2, <3>3, <3>4
  <2> QED
    BY <2>1 DEF Live
<1>7. ASSUME NEW r \in Requests,
             \/ PublishStart(r) \/ AdvanceStop(r) \/ AdvancePostpone(r)
             \/ AdvanceFailed(r) \/ AdvanceAttempt(r) \/ Settle(r)
             \/ RecordFailure(r)
      PROVE  UNCHANGED preparing /\ \A i \in Jobs : Live(i)' => Live(i)
  <2>1. /\ UNCHANGED <<preparing, purged>> /\ Live(req[r].job)
        /\ \A i \in Jobs : i # req[r].job => job'[i] = job[i]
    BY <1>7 DEF PublishStart, AdvanceStop, AdvancePostpone, AdvanceFailed,
       AdvanceAttempt, AdvanceWith, Settle, RecordFailure, Write, Current
  <2> QED
    BY <2>1 DEF Live
<1>8. ASSUME NEW r \in Requests,
             \/ \E j \in Jobs : PublishRead(r, j) \/ AdvanceRead(r, j)
             \/ Reread(r) \/ Send(r) \/ AnswerAccepted(r) \/ AnswerRefused(r)
             \/ AnswerUnknown(r) \/ SettleFails(r) \/ Conflict(r) \/ Crash(r)
             \/ MetaTakes(r) \/ MetaRejects(r)
      PROVE  UNCHANGED preparing /\ \A i \in Jobs : Live(i)' => Live(i)
  BY <1>8 DEF PublishRead, AdvanceRead, Reread, Send, AnswerAccepted,
     AnswerRefused,
     AnswerUnknown, SettleFails, Conflict, Crash, MetaTakes, MetaRejects, Live
<1>9. CASE UNCHANGED vars
  BY <1>9, <1>1 DEF vars, Live
<1> QED
  BY <1>1, <1>2, <1>3, <1>4, <1>5, <1>6, <1>7, <1>8, <1>9 DEF Next

\* A key in use names one job, and a prepare request is only ever answered with
\* a job for the very post it asked for, however the requests race.
THEOREM KeysHold == Spec => []IdempotencyHolds
<1> DEFINE Inv == Inductive /\ IdempotencyHolds /\ Answered
<1>1. Init => Inv
  BY InitInductive DEF Init, IdempotencyHolds, Answered, Live, NoJob
<1>2. Inv /\ [Next]_vars => Inv'
  BY StepInductive, StepKeys
<1> QED
  BY <1>1, <1>2, PTL DEF Spec

-----------------------------------------------------------------------------
(* The refinement of WriteOnce *)

\* The calls of a job, one by one.
LEMMA PostCall ==
  ASSUME NEW j \in Jobs, NEW r \in Requests, NEW states
  PROVE  <<j, r>> \in PostCalls(states) <=>
           r \in Posters(j) /\ call[r] \in states
BY DEF PostCalls, Posters

\* The initial states map to the initial state of WriteOnce.
LEMMA InitPromise == Init => Promise!Init
<1> SUFFICES ASSUME Init PROVE Promise!Init
  OBVIOUS
<1>1. \A r \in Requests : req[r].kind = "none"
  BY DEF Init, NoRequest
<1>2. \A j \in Jobs : Posters(j) = {}
  BY <1>1 DEF Posters
<1>3. \A states : PostCalls(states) = {}
  BY <1>2 DEF PostCalls
<1>4. {j \in Jobs : Intended(j)} = {}
  BY DEF Init, Intended, NoJob
<1>5. \A j \in Jobs : Verdict(j) = "none"
  BY DEF Init, Verdict, NoJob
<1> QED
  BY <1>3, <1>4, <1>5 DEF Promise!Init

\* A step that leaves the abstract variables alone.
LEMMA Stutter ==
  ASSUME \A j \in Jobs : /\ Intended(j)' = Intended(j)
                         /\ Verdict(j)' = Verdict(j)
                         /\ Posters(j)' = Posters(j),
         UNCHANGED call
  PROVE  UNCHANGED Promise!vars
<1>1. {j \in Jobs : Intended(j)}' = {j \in Jobs : Intended(j)}
  OBVIOUS
<1>2. \A states : PostCalls(states)' = PostCalls(states)
  BY DEF PostCalls
<1>3. [j \in Jobs |-> Verdict(j)]' = [j \in Jobs |-> Verdict(j)]
  OBVIOUS
<1> QED
  BY <1>1, <1>2, <1>3 DEF Promise!vars

\* A step that ends a job, or ends it again.
LEMMA Concluding ==
  ASSUME NEW j \in Jobs, Verdict(j) \in {"none", "unknown"},
         Verdict(j)' \in Promise!Verdicts \ {"none"},
         \A i \in Jobs \ {j} : Verdict(i)' = Verdict(i),
         \A i \in Jobs : Intended(i)' = Intended(i) /\ Posters(i)' = Posters(i),
         UNCHANGED call,
         Verdict(j)' = "done" => Taken(j),
         Verdict(j)' = "refused" => \A r \in Posters(j) : call[r] \in Rejected,
         Verdict(j)' = "withdrawn" => ~Intended(j)
  PROVE  Promise!Next
<1>1. {i \in Jobs : Intended(i)}' = {i \in Jobs : Intended(i)}
  OBVIOUS
<1>2. \A states : PostCalls(states)' = PostCalls(states)
  BY DEF PostCalls
<1>3. [i \in Jobs |-> Verdict(i)]' =
        [[i \in Jobs |-> Verdict(i)] EXCEPT ![j] = Verdict(j)']
  <2> DEFINE old == [i \in Jobs |-> Verdict(i)]
             end == Verdict(j)'
  <2>1. \A i \in Jobs : Verdict(i)' = IF i = j THEN end ELSE old[i]
    OBVIOUS
  <2> HIDE DEF end
  <2>2. [i \in Jobs |-> Verdict(i)'] = [old EXCEPT ![j] = end]
    BY <2>1
  <2> QED
    BY <2>2 DEF end
<1>4. /\ Taken(j) <=> \E r \in Requests : <<j, r>> \in PostCalls(CarriedOut)
      /\ (\A r \in Posters(j) : call[r] \in Rejected) =>
           \A r \in Requests : <<j, r>> \in PostCalls(Left) =>
                               <<j, r>> \in PostCalls(Rejected)
  <2>1. \A r \in Requests :
          /\ <<j, r>> \in PostCalls(CarriedOut) <=>
               r \in Posters(j) /\ call[r] \in CarriedOut
          /\ <<j, r>> \in PostCalls(Left) <=>
               r \in Posters(j) /\ call[r] \in Left
          /\ <<j, r>> \in PostCalls(Rejected) <=>
               r \in Posters(j) /\ call[r] \in Rejected
    BY PostCall
  <2> QED
    BY <2>1 DEF Taken, Posters
<1>5. Promise!Conclude(j, Verdict(j)')
  BY <1>1, <1>2, <1>3, <1>4 DEF Promise!Conclude
<1> QED
  BY <1>5 DEF Promise!Next

\* What a row means to WriteOnce.
LEMMA SameMeaning ==
  ASSUME NEW j \in Jobs, asked'[j] = asked[j],
         job'[j].status = job[j].status,
         job'[j].started = job[j].started,
         job'[j].attempted = job[j].attempted
  PROVE  Intended(j)' = Intended(j) /\ Verdict(j)' = Verdict(j)
<1>1. Intended(j)' = Intended(j)
  BY DEF Intended, Facebook
<1> QED
  BY <1>1 DEF Verdict

\* Steps that end a row, or end it again after its handler was overtaken.
LEMMA Closing ==
  ASSUME Inductive, Truth, Truth', NEW j \in Jobs,
         job[j].status \in Undecided \cup {"prepared"},
         job[j].status \in Undecided => job[j].started,
         job'[j].status \in {"published", "failed", "unknown", "cancelled",
                             "expired"},
         job'[j].started = job[j].started,
         job'[j].attempted = job[j].attempted,
         \A i \in Jobs \ {j} : job'[i] = job[i],
         UNCHANGED <<asked, req, call>>
  PROVE  Promise!Next \/ UNCHANGED Promise!vars
<1>1. \A i \in Jobs \ {j} :
          Intended(i)' = Intended(i) /\ Verdict(i)' = Verdict(i)
  BY SameMeaning
<1>2. \A i \in Jobs : Posters(i)' = Posters(i)
  BY DEF Posters
<1>3. Intended(j)' = Intended(j)
  BY DEF Intended, Facebook
<1>4. Verdict(j) \in {"none", "unknown"} /\ (Verdict(j) = "unknown" => Intended(j))
  BY DEF Verdict, Undecided
<1>5. Verdict(j)' = "none" => ~Intended(j)
  BY <1>3 DEF Verdict
<1>6. Verdict(j)' \in Promise!Verdicts
  BY DEF Verdict, Promise!Verdicts
<1>7. Verdict(j)' = "done" => Taken(j)
  <2>1. Verdict(j)' = "done" => job'[j].status = "published"
    BY DEF Verdict
  <2>2. job'[j].status = "published" => Taken(j)'
    BY DEF Truth, TruthOf
  <2>3. Taken(j)' <=> Taken(j)
    BY <1>2 DEF Taken
  <2> QED
    BY <2>1, <2>2, <2>3
<1>8. Verdict(j)' = "refused" => \A r \in Posters(j) : call[r] \in Rejected
  <2>1. Verdict(j)' = "refused" => job'[j].status = "failed"
    BY DEF Verdict
  <2>2. job'[j].status = "failed" => \A r \in Posters(j) : call[r] \in Rejected
    BY <1>2 DEF Truth, TruthOf
  <2> QED
    BY <2>1, <2>2
<1>9. Verdict(j)' = "withdrawn" => ~Intended(j)
  <2>1. Verdict(j)' = "withdrawn" => ~job[j].started
    BY DEF Verdict
  <2>2. ~job[j].started => ~job[j].attempted
    BY DEF Inductive, RowInv, RowFits, Undecided
  <2> QED
    BY <2>1, <2>2 DEF Intended
<1>10. CASE Verdict(j)' = "none"
  <2>1. Verdict(j)' = Verdict(j)
    BY <1>4, <1>5, <1>10
  <2> QED
    BY <1>1, <1>2, <1>3, <2>1, Stutter
<1>11. CASE Verdict(j)' # "none"
  BY <1>1, <1>2, <1>3, <1>4, <1>6, <1>7, <1>8, <1>9, <1>11, Concluding
<1> QED
  BY <1>10, <1>11

\* Steps that only write what WriteOnce does not see.
LEMMA Hidden ==
  ASSUME UNCHANGED <<asked, req, call>>,
         \A i \in Jobs : /\ job'[i].status = job[i].status
                         /\ job'[i].started = job[i].started
                         /\ job'[i].attempted = job[i].attempted
  PROVE  UNCHANGED Promise!vars
<1>1. \A i \in Jobs : Posters(i)' = Posters(i)
  BY DEF Posters
<1>2. \A i \in Jobs : Intended(i)' = Intended(i) /\ Verdict(i)' = Verdict(i)
  BY SameMeaning
<1> QED
  BY <1>1, <1>2, Stutter

\* The intent to post is recorded.
LEMMA Recording ==
  ASSUME NEW j \in Jobs, ~Intended(j), Intended(j)', Verdict(j) = "none",
         \A i \in Jobs \ {j} : Intended(i)' = Intended(i),
         \A i \in Jobs : Verdict(i)' = Verdict(i),
         \A states :
           "none" \notin states => PostCalls(states)' = PostCalls(states)
  PROVE  Promise!Next
<1>1. {i \in Jobs : Intended(i)}' = {i \in Jobs : Intended(i)} \cup {j}
  OBVIOUS
<1>2. [i \in Jobs |-> Verdict(i)]' = [i \in Jobs |-> Verdict(i)]
  OBVIOUS
<1>3. Promise!Record(j)
  BY <1>1, <1>2 DEF Promise!Record
<1> QED
  BY <1>3 DEF Promise!Next

\* What the UPDATEs leave of a row, as far as WriteOnce is concerned.
LEMMA Ended ==
  ASSUME TypeOK, NEW j \in Jobs, NEW st \in Statuses,
         Write(j, [job[j] EXCEPT !.status = st, !.waiting = FALSE])
  PROVE  /\ job'[j].status = st
         /\ job'[j].started = job[j].started
         /\ job'[j].attempted = job[j].attempted
         /\ \A i \in Jobs \ {j} : job'[i] = job[i]
<1> DEFINE row == [job[j] EXCEPT !.status = st, !.waiting = FALSE]
<1>1. /\ row \in Rows /\ row.status = st
      /\ row.started = job[j].started /\ row.attempted = job[j].attempted
  <2>1. job[j] \in Rows
    BY RowsTyped
  <2> QED
    BY <2>1, ClosedRow
<1>2. Write(j, row)
  OBVIOUS
<1> HIDE DEF row
<1> QED
  BY <1>1, <1>2, Written

\* Every step is a step of WriteOnce or invisible to it.
LEMMA StepPromise ==
  ASSUME Inductive, Truth, Truth', Next
  PROVE  Promise!Next \/ UNCHANGED Promise!vars
<1> USE DEF Inductive
<1>1. ASSUME NEW j \in Jobs, NEW k \in Keys, NEW post \in Posts,
             PrepareFind(j, k, post)
      PROVE  UNCHANGED Promise!vars
  <2>1. /\ job[j] = NoJob /\ UNCHANGED <<job, req, call>>
        /\ \A i \in Jobs \ {j} : asked'[i] = asked[i]
    BY <1>1 DEF PrepareFind, handler, TypeOK, RowInv, RowFits
  <2>2. \A i \in Jobs : Intended(i)' = Intended(i)
    <3>1. Intended(j)' = Intended(j)
      <4>1. /\ job[j].started = FALSE /\ job[j].attempted = FALSE
            /\ job'[j].started = FALSE /\ job'[j].attempted = FALSE
        BY <2>1 DEF NoJob
      <4>2. Intended(j) = FALSE
        BY <4>1 DEF Intended
      <4>3. Intended(j)' = FALSE
        BY <4>1 DEF Intended
      <4> QED
        BY <4>2, <4>3
    <3>2. \A i \in Jobs \ {j} : Intended(i)' = Intended(i)
      BY <2>1, SameMeaning
    <3> QED
      BY <3>1, <3>2
  <2>3. \A i \in Jobs : Verdict(i)' = Verdict(i)
    BY <2>1, <2>2 DEF Verdict
  <2>4. \A i \in Jobs : Posters(i)' = Posters(i)
    BY <2>1 DEF Posters
  <2> QED
    BY <2>1, <2>2, <2>3, <2>4, Stutter
<1>2. ASSUME NEW j \in Jobs, PrepareInsert(j)
      PROVE  UNCHANGED Promise!vars
  <2>1. /\ UNCHANGED <<asked, req, call>>
        /\ \A i \in Jobs \ {j} : job'[i] = job[i]
        /\ job'[j].status = "prepared"
        /\ job'[j].started = job[j].started
        /\ job'[j].attempted = job[j].attempted
    BY <1>2 DEF PrepareInsert, handler, TypeOK
  <2>2. job[j].status = "none"
    BY <1>2 DEF PrepareInsert, RowInv, RowFits
  <2>3. Intended(j)' = Intended(j)
    BY <2>1 DEF Intended, Facebook
  <2>4. Verdict(j)' = Verdict(j)
    BY <2>1, <2>2 DEF Verdict
  <2>5. \A i \in Jobs \ {j} :
          Intended(i)' = Intended(i) /\ Verdict(i)' = Verdict(i)
    BY <2>1, SameMeaning
  <2>6. \A i \in Jobs : Posters(i)' = Posters(i)
    BY <2>1 DEF Posters
  <2> QED
    BY <2>1, <2>3, <2>4, <2>5, <2>6, Stutter
<1>3. ASSUME NEW j \in Jobs, PrepareRaced(j) \/ PrepareFails(j) \/ Purge(j)
      PROVE  UNCHANGED Promise!vars
  BY <1>3, Hidden DEF PrepareRaced, PrepareFails, Purge, preparing, handler
<1>4. ASSUME NEW j \in Jobs, WaitOver(j) \/ GrowLate(j)
      PROVE  UNCHANGED Promise!vars
  <2>1. /\ UNCHANGED <<asked, req, call>>
        /\ \A i \in Jobs : /\ job'[i].status = job[i].status
                           /\ job'[i].started = job[i].started
                           /\ job'[i].attempted = job[i].attempted
    <3>1. CASE WaitOver(j)
      BY <3>1 DEF WaitOver, preparing, handler, TypeOK
    <3>2. CASE GrowLate(j)
      BY <3>2 DEF GrowLate, preparing, handler, TypeOK
    <3> QED
      BY <1>4, <3>1, <3>2
  <2> QED
    BY <2>1, Hidden
<1>5. ASSUME NEW j \in Jobs, Cancel(j)
      PROVE  Promise!Next \/ UNCHANGED Promise!vars
  <2>1. /\ job[j].status \in {"prepared", "processing"}
        /\ Write(j, [job[j] EXCEPT !.status = "cancelled", !.waiting = FALSE])
        /\ UNCHANGED <<asked, req, call>>
    BY <1>5 DEF Cancel, preparing, handler
  <2>2. job[j].status = "processing" => job[j].started
    BY DEF RowInv, RowFits
  <2> QED
    BY <2>1, <2>2, Ended, Closing DEF Statuses, Undecided
<1>6. ASSUME NEW j \in Jobs, Expire(j)
      PROVE  Promise!Next \/ UNCHANGED Promise!vars
  <2>1. /\ job[j].status \in {"prepared", "processing"}
        /\ UNCHANGED <<asked, req, call>>
        /\ job'[j].status = "expired"
        /\ job'[j].started = job[j].started
        /\ job'[j].attempted = job[j].attempted
        /\ \A i \in Jobs \ {j} : job'[i] = job[i]
    BY <1>6 DEF Expire, Write, preparing, handler, TypeOK
  <2>2. job[j].status = "processing" => job[j].started
    BY DEF RowInv, RowFits
  <2> QED
    BY <2>1, <2>2, Closing DEF Undecided
<1>7. ASSUME NEW r \in Requests,
             \/ \E j \in Jobs : PublishRead(r, j) \/ AdvanceRead(r, j)
             \/ AnswerAccepted(r) \/ AnswerRefused(r) \/ AnswerUnknown(r)
             \/ SettleFails(r) \/ Conflict(r) \/ Crash(r) \/ Reread(r)
      PROVE  UNCHANGED Promise!vars
  <2>1. UNCHANGED <<job, asked, call>>
    BY <1>7 DEF PublishRead, AdvanceRead, AnswerAccepted, AnswerRefused,
       AnswerUnknown, SettleFails, Conflict, Crash, Reread, preparing
  <2>2. \A i \in Jobs : Posters(i)' = Posters(i)
    <3>1. CASE UNCHANGED req
      BY <3>1 DEF Posters
    <3>2. CASE \/ AnswerRefused(r) \/ AnswerUnknown(r) \/ SettleFails(r)
               \/ Reread(r)
      <4>1. \A s \in Requests :
              req'[s].job = req[s].job /\ req'[s].kind = req[s].kind
        <5>1. CASE AnswerRefused(r)
          BY <5>1 DEF AnswerRefused, TypeOK
        <5>2. CASE AnswerUnknown(r)
          BY <5>2 DEF AnswerUnknown, TypeOK
        <5>3. CASE SettleFails(r)
          BY <5>3 DEF SettleFails, TypeOK
        <5>4. CASE Reread(r)
          BY <5>4 DEF Reread, TypeOK
        <5> QED
          BY <3>2, <5>1, <5>2, <5>3, <5>4
      <4> QED
        BY <4>1 DEF Posters
    <3>3. CASE \E j \in Jobs : PublishRead(r, j) \/ AdvanceRead(r, j)
      <4>1. /\ req'[r].kind = "none" /\ req[r].kind = "none"
            /\ \A s \in Requests \ {r} : req'[s] = req[s]
        BY <3>3 DEF PublishRead, AdvanceRead, HandlerInv, Knows, NoRequest,
           TypeOK
      <4> QED
        BY <4>1 DEF Posters
    <3> QED
      BY <1>7, <3>1, <3>2, <3>3 DEF AnswerAccepted, Conflict, Crash
  <2> QED
    BY <2>1, <2>2, SameMeaning, Stutter
<1>8. ASSUME NEW r \in Requests, PublishStart(r) \/ AdvanceAttempt(r)
      PROVE  Promise!Next \/ UNCHANGED Promise!vars
  <2>0. PICK j \in Jobs : req[r].job = j
    BY <1>8 DEF PublishStart, AdvanceAttempt, HandlerInv, Knows
  <2>1. /\ job[j].status \in {"prepared", "processing"}
        /\ call[r] = "none" /\ UNCHANGED <<asked, call>>
        /\ \A i \in Jobs \ {j} : job'[i] = job[i]
        /\ job'[j].status = "processing" /\ req'[r].job = j
        /\ \A s \in Requests \ {r} : req'[s] = req[s]
    <3>1. CASE PublishStart(r)
      BY <2>0, <3>1 DEF PublishStart, Write, Current, preparing, HandlerInv,
         Knows,
         Unchanged, TypeOK
    <3>2. CASE AdvanceAttempt(r)
      BY <2>0, <3>2 DEF AdvanceAttempt, Write, Current, preparing, HandlerInv,
         Knows, Unchanged, TypeOK
    <3> QED
      BY <1>8, <3>1, <3>2
  <2>2. ASSUME NEW states, "none" \notin states
        PROVE  PostCalls(states)' = PostCalls(states)
    BY <2>0, <2>1, <2>2 DEF PostCalls, Posters, HandlerInv, Knows
  <2>3. Verdict(j)' = Verdict(j) /\ Verdict(j) = "none"
    BY <2>1 DEF Verdict
  <2>4. \A i \in Jobs \ {j} :
          Intended(i)' = Intended(i) /\ Verdict(i)' = Verdict(i)
    BY <2>0, <2>1, SameMeaning
  <2>5. CASE PublishStart(r) /\ Facebook(j)
    <3>1. ~Intended(j)
      BY <2>0, <2>1, <2>5 DEF PublishStart, Current, HandlerInv, Knows,
         Unchanged,
         RowInv, RowFits, Intended
    <3>2. Intended(j)'
      BY <2>0, <2>1, <2>5 DEF PublishStart, Write, Intended, Facebook, TypeOK,
         HandlerInv, Knows
    <3> QED
      BY <2>0, <2>1, <2>2, <2>3, <2>4, <3>1, <3>2, Recording
  <2>6. CASE PublishStart(r) /\ ~Facebook(j)
    <3>1. job'[j].attempted = job[j].attempted
      BY <2>0, <2>1, <2>6 DEF PublishStart, Write, TypeOK
    <3>2. Intended(j)' = Intended(j)
      BY <2>0, <2>1, <2>6, <3>1 DEF Intended, Facebook, PublishStart, TypeOK
    <3>3. \A i \in Jobs : Posters(i)' = Posters(i)
      BY <2>0, <2>1, <2>6 DEF Posters, PublishStart, HandlerInv, Knows, TypeOK
    <3> QED
      BY <2>0, <2>1, <2>3, <2>4, <3>2, <3>3, Stutter
  <2>7. CASE AdvanceAttempt(r)
    <3>1. ~Facebook(j) /\ ~Intended(j)
      BY <2>0, <2>1, <2>7 DEF AdvanceAttempt, Ready, HandlerInv, Knows,
         Intended
    <3>2. Intended(j)'
      BY <2>0, <2>1, <2>7, <3>1 DEF AdvanceAttempt, Write, Intended,
         Facebook, TypeOK
    <3> QED
      BY <2>0, <2>1, <2>2, <2>3, <2>4, <3>1, <3>2, Recording
  <2> QED
    BY <1>8, <2>5, <2>6, <2>7
<1>9. ASSUME NEW r \in Requests,
             AdvanceStop(r) \/ AdvanceFailed(r) \/ RecordFailure(r)
      PROVE  Promise!Next \/ UNCHANGED Promise!vars
  <2> DEFINE j == req[r].job
  <2>1. PICK st \in Statuses :
          /\ st \in {"unknown", "failed"}
          /\ Write(j, [job[j] EXCEPT !.status = st, !.waiting = FALSE])
    <3>1. CASE AdvanceStop(r)
      BY <3>1 DEF AdvanceStop, AdvanceWith, Statuses
    <3>2. CASE AdvanceFailed(r)
      BY <3>2 DEF AdvanceFailed, AdvanceWith, Statuses
    <3>3. CASE RecordFailure(r)
      BY <3>3 DEF RecordFailure, HandlerInv, Knows, TypeOK, Statuses
    <3> QED
      BY <1>9, <3>1, <3>2, <3>3
  <2>2. /\ j \in Jobs /\ job[j].status \in Undecided
        /\ job[j].started
        /\ UNCHANGED <<asked, req, call>>
    <3>1. UNCHANGED <<asked, req, call>>
      BY <1>9 DEF AdvanceStop, AdvanceFailed, AdvanceWith, RecordFailure,
         preparing
    <3>2. Knows(r) /\ pc[r] \in {"advance", "fail"} /\ j \in Jobs
      BY <1>9 DEF AdvanceStop, AdvanceFailed, RecordFailure, HandlerInv, Knows
    <3>3. CASE AdvanceStop(r) \/ AdvanceFailed(r)
      <4>1. pc[r] = "advance" /\ Unchanged(r)
        BY <3>3 DEF AdvanceStop, AdvanceFailed, AdvanceWith, Current, Unchanged
      <4>2. job[j].status = "processing"
        BY <3>2, <4>1 DEF Knows
      <4> QED
        BY <3>1, <3>2, <4>2 DEF RowInv, RowFits, Undecided
    <3>4. CASE RecordFailure(r)
      BY <3>1, <3>2, <3>4 DEF RecordFailure, Knows, Active
    <3> QED
      BY <1>9, <3>3, <3>4
  <2> HIDE DEF j
  <2>3. /\ job'[j].status = st
        /\ job'[j].started = job[j].started
        /\ job'[j].attempted = job[j].attempted
        /\ \A i \in Jobs \ {j} : job'[i] = job[i]
    BY <2>1, <2>2, Ended
  <2> QED
    BY <2>1, <2>2, <2>3, Closing
<1>10. ASSUME NEW r \in Requests, AdvancePostpone(r)
       PROVE  UNCHANGED Promise!vars
  <2>1. /\ UNCHANGED <<asked, req, call>>
        /\ \A i \in Jobs : /\ job'[i].status = job[i].status
                           /\ job'[i].started = job[i].started
                           /\ job'[i].attempted = job[i].attempted
    BY <1>10 DEF AdvancePostpone, AdvanceWith, Write, preparing, TypeOK
  <2> QED
    BY <2>1, Hidden
<1>11. ASSUME NEW r \in Requests, Settle(r)
       PROVE  Promise!Next \/ UNCHANGED Promise!vars
  <2> DEFINE j == req[r].job
  <2>1. /\ j \in Jobs /\ job[j].status \in Undecided /\ job[j].started
        /\ UNCHANGED <<asked, req, call>>
    BY <1>11 DEF Settle, preparing, HandlerInv, Knows, Active
  <2>2. CASE req[r].kind = "post"
    <3>1. Write(j, [job[j] EXCEPT !.status = "published", !.waiting = FALSE])
      BY <1>11, <2>2 DEF Settle
    <3> QED
      BY <2>1, <3>1, Ended, Closing DEF Statuses
  <2>3. CASE req[r].kind # "post"
    <3> DEFINE row == [job[j] EXCEPT !.status = "processing",
                                     !.container = TRUE, !.waiting = TRUE]
    <3>1. /\ row \in Rows /\ row.status = "processing"
          /\ row.started = job[j].started /\ row.attempted = job[j].attempted
      BY <2>1, RowsTyped, ContainedRow
    <3>2. Write(j, row)
      BY <1>11, <2>3 DEF Settle
    <3> HIDE DEF row
    <3>3. /\ job'[j].status = "processing"
          /\ job'[j].started = job[j].started
          /\ job'[j].attempted = job[j].attempted
          /\ \A i \in Jobs \ {j} : job'[i] = job[i]
      BY <2>1, <3>1, <3>2, Written
    <3>4. ~Facebook(j) /\ ~job[j].attempted
      <4>1. req[r].kind = "container"
        BY <1>11, <2>3 DEF Settle, HandlerInv, Knows, Active, TypeOK
      <4>2. Knows(r) /\ Active(r) /\ RowFits(j)
        BY <1>11, <2>1 DEF Settle, HandlerInv, Active, RowInv
      <4> QED
        BY <4>1, <4>2 DEF Knows, RowFits
    <3>5. Intended(j)' = Intended(j) /\ ~Intended(j)
      BY <2>1, <3>3, <3>4 DEF Intended, Facebook
    <3>6. Verdict(j) = "none" /\ Verdict(j)' = "none"
      BY <2>1, <3>3, <3>5 DEF Verdict, Undecided
    <3>7. \A i \in Jobs \ {j} :
            Intended(i)' = Intended(i) /\ Verdict(i)' = Verdict(i)
      BY <2>1, <3>3, SameMeaning
    <3>8. \A i \in Jobs : Posters(i)' = Posters(i)
      BY <2>1 DEF Posters
    <3> QED
      BY <2>1, <3>5, <3>6, <3>7, <3>8, Stutter
  <2> QED
    BY <2>2, <2>3
<1>12. ASSUME NEW r \in Requests, Send(r) \/ MetaTakes(r) \/ MetaRejects(r)
       PROVE  Promise!Next \/ UNCHANGED Promise!vars
  <2> DEFINE j == req[r].job
             allSent == PostCalls(Left)
             allRejected == PostCalls(Rejected)
             allTaken == PostCalls(CarriedOut)
  <2>1. /\ UNCHANGED <<job, asked, req>> /\ j \in Jobs
        /\ \A s \in Requests \ {r} : call'[s] = call[s]
    BY <1>12 DEF Send, MetaTakes, MetaRejects, preparing, handler, HandlerInv,
       Knows, TypeOK
  <2>2. /\ \A i \in Jobs :
             Intended(i)' = Intended(i) /\ Verdict(i)' = Verdict(i)
        /\ \A i \in Jobs : Posters(i)' = Posters(i)
    BY <2>1, SameMeaning DEF Posters
  <2>3. /\ {i \in Jobs : Intended(i)}' = {i \in Jobs : Intended(i)}
        /\ [i \in Jobs |-> Verdict(i)]' = [i \in Jobs |-> Verdict(i)]
    BY <2>2
  <2>4. CASE req[r].kind # "post"
    <3>1. \A states : PostCalls(states)' = PostCalls(states)
      BY <2>1, <2>4 DEF PostCalls, Posters
    <3> QED
      BY <2>3, <3>1 DEF Promise!vars
  <2>5. CASE req[r].kind = "post" /\ Send(r)
    <3>1. /\ allSent' = allSent \cup {<<j, r>>} /\ allTaken' = allTaken
          /\ allRejected' = allRejected
      BY <2>1, <2>5 DEF Send, PostCalls, Posters, TypeOK, HandlerInv, Knows
    <3>2. \A s \in Requests : <<j, s>> \notin allSent
      BY <2>5 DEF Send, PostCalls, Posters, OneSender, HandlerInv, Knows
    <3>3. Intended(j)
      BY <2>1, <2>5 DEF Intended, HandlerInv, Knows
    <3>4. Verdict(j) # "refused"
      BY <2>1, <2>5 DEF Verdict, Truth, TruthOf, Posters, Send, HandlerInv,
         Knows
    <3>5. Promise!Dispatch(j, r)
      BY <2>1, <2>3, <3>1, <3>2, <3>3, <3>4 DEF Promise!Dispatch
    <3> QED
      BY <2>1, <3>5 DEF Promise!Next
  <2>6. CASE req[r].kind = "post" /\ MetaTakes(r)
    <3>1. /\ allSent' = allSent /\ allTaken' = allTaken \cup {<<j, r>>}
          /\ allRejected' = allRejected
          /\ <<j, r>> \in allSent \ allTaken
      BY <2>1, <2>6 DEF MetaTakes, PostCalls, Posters, TypeOK
    <3>2. Promise!Take(j, r)
      BY <2>1, <2>3, <3>1 DEF Promise!Take
    <3> QED
      BY <2>1, <3>2 DEF Promise!Next
  <2>7. CASE req[r].kind = "post" /\ MetaRejects(r)
    <3>1. /\ allSent' = allSent /\ allTaken' = allTaken
          /\ allRejected' = allRejected \cup {<<j, r>>}
          /\ <<j, r>> \in allSent \ allRejected
      BY <2>1, <2>7 DEF MetaRejects, PostCalls, Posters, TypeOK
    <3>2. Promise!Reject(j, r)
      BY <2>1, <2>3, <3>1 DEF Promise!Reject
    <3> QED
      BY <2>1, <3>2 DEF Promise!Next
  <2> QED
    BY <1>12, <2>4, <2>5, <2>6, <2>7
<1> QED
  BY <1>1, <1>2, <1>3, <1>4, <1>5, <1>6, <1>7, <1>8, <1>9, <1>10, <1>11, <1>12
     DEF Next

\* The publishing service implements WriteOnce: the post of a job leaves at most
\* once and only with its intent on record, and what the record says of it rests
\* on what Meta did or answered.
THEOREM ImplementsWriteOnce == Spec => KeepsPromise
<1> DEFINE Inv == Inductive /\ Truth
<1>1. Init => Inv /\ Promise!Init
  BY InitInductive, InitTruth, InitPromise
<1>2. Inv /\ [Next]_vars => Inv' /\ [Promise!Next]_(Promise!vars)
  <2>1. CASE UNCHANGED vars
    <3>1. Inv /\ UNCHANGED vars => Truth'
      BY DEF Truth, FailKnows, TruthOf, Taken, Posters, vars, handler,
         preparing
    <3>2. UNCHANGED vars => UNCHANGED Promise!vars
      BY Hidden DEF vars, preparing, handler
    <3> QED
      BY <2>1, <3>1, <3>2, StepInductive
  <2>2. CASE Next /\ ~UNCHANGED vars
    BY <2>2, StepInductive, StepTruth, StepPromise
  <2> QED
    BY <2>1, <2>2
<1> QED
  BY <1>1, <1>2, PTL DEF Spec, KeepsPromise, Promise!Spec
=============================================================================
