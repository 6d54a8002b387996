---------------------- MODULE ExtensionMutationsProofs ----------------------
(* What the jobs of the browser extension promise, for every set of jobs,  *)
(* products and contents: every property of MCExtensionMutations.cfg, and  *)
(* that a product never has two unfinished jobs.                           *)
EXTENDS ExtensionMutations, TLAPS

---------------------------------------------------------------------------
(* The inductive invariant.                                                *)

\* A creation is never put back, and a job nobody tried to put back sent no
\* recovery write.
JobInv(i) ==
  job[i] # NoJob =>
    /\ job[i].kind = "create" =>
         ~job[i].recovery /\ job[i].status \notin {"recovering", "recovered"}
    /\ ~job[i].recovery => undo[i] = "none"

\* What the worker relies on at each await, whatever was pruned meanwhile.
WorkInv ==
  /\ work.at = "store" => \A k \in work.keys : Free(work.kind, k)
  /\ work.at \in {"send", "wait"} =>
       \A i \in work.ids : job[i] \in Job /\ job[i].status = "submitted"
                           /\ ~job[i].recovery
  /\ work.at = "send" => \A i \in work.ids : call[i] = "none"
  /\ work.at = "readback" =>
       \A i \in work.ids : job[i] \in Job /\ job[i].status = "verifying"
                           /\ ~job[i].recovery
  /\ work.at \in {"restore", "restoring"} =>
       \A i \in work.ids : job[i] \in Job /\ job[i].status = "recovering"
                           /\ job[i].recovery
  /\ work.at = "restore" => \A i \in work.ids : undo[i] = "none"

\* Of two creations of one content, one was refused.
CreationsInv ==
  \A i, j \in Stored :
    /\ job[i].kind = "create" /\ job[j].kind = "create"
    /\ job[i].key = job[j].key /\ i # j
    => job[i].status = "failed" \/ job[j].status = "failed"

JobsInOrder ==
  /\ OneOpenJob
  /\ FailedNeverApplied
  /\ \A i \in Ids : JobInv(i)
  /\ CreationsInv

Inductive == TypeOK /\ JobsInOrder /\ WorkInv

---------------------------------------------------------------------------
(* What a write of the storage does to each job.                           *)

\* Job i keeps what names it; if it is still stored it has the given status.
Moved(i, status) ==
  /\ job'[i] \in Job /\ job[i] \in Job
  /\ job'[i].kind = job[i].kind /\ job'[i].key = job[i].key
  /\ job'[i].target = job[i].target
  /\ job'[i].status \in {status, "pruned"}
  /\ status \in BlockingStatuses => job'[i].status = status

\* Job i is as it was, or a finished one that is dropped.
Left(i) ==
  \/ job'[i] = job[i]
  \/ /\ job[i] \in Job /\ job[i].status \in TerminalStatuses
     /\ job'[i] \in Job /\ job'[i].status = "pruned"
     /\ job'[i].kind = job[i].kind /\ job'[i].key = job[i].key
     /\ job'[i].recovery = job[i].recovery

\* A write changes the jobs it names and drops finished ones.
LEMMA Writes ==
  ASSUME TypeOK,
         NEW ids \in SUBSET Ids,
         NEW new, new \in [Ids -> Job \cup {NoJob}],
         \A i \in Ids \ ids : new[i] = job[i],
         Write(new)
  PROVE  /\ job' \in [Ids -> Job \cup {NoJob}]
         /\ \A i \in Ids : \/ job'[i] = new[i]
                           \/ /\ new[i] \in Job
                              /\ new[i].status \in TerminalStatuses
                              /\ job'[i] = [new[i] EXCEPT !.status = "pruned"]
         /\ \A i \in Ids \ ids : Left(i)
<1>1. PICK old \in SUBSET {i \in Ids : new[i].status \in TerminalStatuses} :
        job' = [i \in Ids |->
                  IF i \in old THEN [new[i] EXCEPT !.status = "pruned"]
                  ELSE new[i]]
  BY DEF Write, Retained
<1>2. ASSUME NEW i \in old
      PROVE  /\ new[i] \in Job /\ new[i].status \in TerminalStatuses
             /\ [new[i] EXCEPT !.status = "pruned"] \in Job
  <2>1. new[i] # NoJob
    BY <1>2 DEF NoJob, TerminalStatuses
  <2> QED
    BY <1>2, <2>1 DEF Job
<1>3. job' \in [Ids -> Job \cup {NoJob}]
  BY <1>1, <1>2
<1>4. \A i \in Ids : \/ job'[i] = new[i]
                     \/ /\ new[i] \in Job
                        /\ new[i].status \in TerminalStatuses
                        /\ job'[i] = [new[i] EXCEPT !.status = "pruned"]
  BY <1>1, <1>2
<1>5. ASSUME NEW i \in Ids \ ids PROVE Left(i)
  <2>1. CASE job'[i] = new[i]
    BY <2>1 DEF Left
  <2>2. CASE /\ new[i] \in Job
             /\ new[i].status \in TerminalStatuses
             /\ job'[i] = [new[i] EXCEPT !.status = "pruned"]
    <3>1. new[i] = job[i]
      OBVIOUS
    <3> QED
      BY <2>2, <3>1 DEF Left, Job
  <2> QED
    BY <1>4, <2>1, <2>2
<1> QED
  BY <1>3, <1>4, <1>5

\* A transition gives the jobs it names a status and nothing else.
LEMMA Transitions ==
  ASSUME TypeOK,
         NEW ids \in SUBSET Ids, \A i \in ids : job[i] \in Job,
         NEW status \in Statuses,
         Transition(ids, status)
  PROVE  /\ job' \in [Ids -> Job \cup {NoJob}]
         /\ \A i \in ids :
              Moved(i, status) /\ job'[i].recovery = job[i].recovery
         /\ \A i \in Ids \ ids : Left(i)
<1> DEFINE new == [i \in Ids |->
                     IF i \in ids THEN [job[i] EXCEPT !.status = status]
                     ELSE job[i]]
<1>1. new \in [Ids -> Job \cup {NoJob}]
  BY DEF TypeOK, Job
<1>2. \A i \in Ids \ ids : new[i] = job[i]
  OBVIOUS
<1>3. Write(new)
  BY DEF Transition
<1>4. \A i \in ids : new[i] = [job[i] EXCEPT !.status = status]
  OBVIOUS
<1> HIDE DEF new
<1>5. /\ job' \in [Ids -> Job \cup {NoJob}]
      /\ \A i \in Ids : \/ job'[i] = new[i]
                        \/ /\ new[i] \in Job
                           /\ new[i].status \in TerminalStatuses
                           /\ job'[i] = [new[i] EXCEPT !.status = "pruned"]
      /\ \A i \in Ids \ ids : Left(i)
  BY <1>1, <1>2, <1>3, Writes
<1>6. ASSUME NEW i \in ids
      PROVE  Moved(i, status) /\ job'[i].recovery = job[i].recovery
  <2>1. /\ new[i] = [job[i] EXCEPT !.status = status]
        /\ new[i] \in Job /\ new[i].status = status
    BY <1>4 DEF Job
  <2>2. CASE job'[i] = new[i]
    BY <2>1, <2>2 DEF Moved, Job
  <2>3. CASE /\ new[i].status \in TerminalStatuses
             /\ job'[i] = [new[i] EXCEPT !.status = "pruned"]
    BY <2>1, <2>3 DEF Moved, Job, TerminalStatuses, BlockingStatuses
  <2> QED
    BY <1>5, <2>2, <2>3
<1> QED
  BY <1>5, <1>6

---------------------------------------------------------------------------
(* The jobs under a write that moves some of them.                         *)

\* What must be known of a transition for the jobs to stay in order.
Allowed(ids, status) ==
  /\ status \in Statuses
  /\ \A i \in ids :
       /\ Blocking(i) /\ Moved(i, status)
       /\ job'[i].recovery = job[i].recovery \/ job'[i].recovery
       /\ status = "failed" => job'[i].recovery \/ call[i] = "refused"
       /\ job[i].kind = "create" =>
            /\ status \notin {"recovering", "recovered"}
            /\ job'[i].recovery = job[i].recovery
  /\ \A i \in Ids \ ids : Left(i)
  /\ job' \in [Ids -> Job \cup {NoJob}]
  /\ call' = call /\ undo' = undo

\* Where a job that is stored after an allowed step comes from.
LEMMA StoredComesFrom ==
  ASSUME TypeOK, NEW ids \in SUBSET Ids, NEW status, Allowed(ids, status),
         NEW i \in Stored'
  PROVE  /\ i \in Stored /\ job[i] \in Job /\ job'[i] \in Job
         /\ job'[i].kind = job[i].kind /\ job'[i].key = job[i].key
         /\ i \in ids => job'[i].status = status /\ Blocking(i)
         /\ i \notin ids => job'[i] = job[i]
<1>1. i \in Ids /\ job'[i].status \in Statuses /\ job'[i].status # "pruned"
  BY DEF Stored, Statuses, BlockingStatuses, TerminalStatuses
<1>2. CASE i \in ids
  BY <1>1, <1>2 DEF Allowed, Moved, Blocking
<1>3. CASE i \notin ids
  <2>1. job'[i] = job[i]
    BY <1>1, <1>3 DEF Allowed, Left
  <2>2. job[i] # NoJob
    BY <1>1, <2>1 DEF NoJob, Statuses, BlockingStatuses, TerminalStatuses
  <2> QED
    BY <1>1, <1>3, <2>1, <2>2 DEF TypeOK, Stored
<1> QED
  BY <1>2, <1>3

LEMMA AllowedKeepsOrder ==
  ASSUME TypeOK, JobsInOrder,
         NEW ids \in SUBSET Ids, NEW status, Allowed(ids, status)
  PROVE  JobsInOrder'
<1>1. OneOpenJob'
  <2> SUFFICES ASSUME NEW i \in Ids, NEW j \in Ids,
                      Blocking(i)', Blocking(j)', job'[i].key = job'[j].key
               PROVE  i = j
    BY DEF OneOpenJob
  <2>1. ASSUME NEW k \in Ids, Blocking(k)'
        PROVE  Blocking(k) /\ job'[k].key = job[k].key
    <3>1. k \in Stored'
      BY <2>1 DEF Blocking
    <3> QED
      BY <2>1, <3>1, StoredComesFrom DEF Blocking
  <2> QED
    BY <2>1 DEF JobsInOrder, OneOpenJob
<1>2. FailedNeverApplied'
  <2> SUFFICES ASSUME NEW i \in Stored', job'[i].status = "failed",
                      ~job'[i].recovery
               PROVE  call'[i] = "refused"
    BY DEF FailedNeverApplied
  <2>1. i \in Ids
    BY DEF Stored
  <2>2. CASE i \in ids
    BY <2>1, <2>2, StoredComesFrom DEF Allowed
  <2>3. CASE i \notin ids
    BY <2>1, <2>3, StoredComesFrom
       DEF Allowed, JobsInOrder, FailedNeverApplied
  <2> QED
    BY <2>2, <2>3
<1>3. \A i \in Ids : JobInv(i)'
  <2> SUFFICES ASSUME NEW i \in Ids PROVE JobInv(i)'
    OBVIOUS
  <2>0. JobInv(i)
    BY DEF JobsInOrder
  <2>1. CASE i \in ids
    <3>1. /\ Moved(i, status) /\ job[i] # NoJob /\ undo' = undo
          /\ job[i].kind = "create" =>
               /\ status \notin {"recovering", "recovered"}
               /\ job'[i].recovery = job[i].recovery
          /\ job'[i].recovery = job[i].recovery \/ job'[i].recovery
      BY <2>1 DEF Allowed, Blocking, Stored, NoJob, Statuses,
                  BlockingStatuses, TerminalStatuses
    <3> QED
      BY <2>0, <3>1 DEF JobInv, Moved
  <2>2. CASE i \notin ids
    <3>1. Left(i) /\ undo' = undo
      BY <2>2 DEF Allowed
    <3>2. CASE job'[i] = job[i]
      BY <2>0, <3>1, <3>2 DEF JobInv
    <3>3. CASE job'[i] # job[i]
      <4>1. job[i] # NoJob
        BY <3>1, <3>3 DEF Left, NoJob, TerminalStatuses
      <4> QED
        BY <2>0, <3>1, <3>3, <4>1 DEF JobInv, Left
    <3> QED
      BY <3>2, <3>3
  <2> QED
    BY <2>1, <2>2
<1>4. CreationsInv'
  <2> SUFFICES ASSUME NEW i \in Stored', NEW j \in Stored',
                      job'[i].kind = "create", job'[j].kind = "create",
                      job'[i].key = job'[j].key, i # j
               PROVE  job'[i].status = "failed" \/ job'[j].status = "failed"
    BY DEF CreationsInv
  <2>1. job[i].status = "failed" \/ job[j].status = "failed"
    BY StoredComesFrom DEF JobsInOrder, CreationsInv
  <2>2. ASSUME NEW k \in Stored', job[k].status = "failed"
        PROVE  job'[k].status = "failed"
    BY <2>2, StoredComesFrom DEF Blocking, BlockingStatuses
  <2> QED
    BY <2>1, <2>2
<1> QED
  BY <1>1, <1>2, <1>3, <1>4 DEF JobsInOrder

\* A step that leaves the storage alone and sends no more than it may.
Sending ==
  /\ job' = job
  /\ \A i \in Ids : call'[i] = call[i] \/ call[i] # "refused"
  /\ \A i \in Ids : \/ undo'[i] = undo[i]
                    \/ undo[i] # "none"
                    \/ job[i] \in Job /\ job[i].recovery

LEMMA SendingKeepsOrder ==
  ASSUME TypeOK, JobsInOrder, Sending
  PROVE  JobsInOrder'
<1>1. OneOpenJob' /\ CreationsInv'
  BY DEF Sending, JobsInOrder, OneOpenJob, CreationsInv, Blocking, Stored
<1>2. FailedNeverApplied'
  BY DEF Sending, JobsInOrder, FailedNeverApplied, Stored
<1>3. \A i \in Ids : JobInv(i)'
  BY DEF Sending, JobsInOrder, JobInv
<1> QED
  BY <1>1, <1>2, <1>3 DEF JobsInOrder

---------------------------------------------------------------------------
(* The steps of the worker.                                                *)

LEMMA InitHolds == Init => Inductive
<1> SUFFICES ASSUME Init PROVE Inductive
  OBVIOUS
<1>1. \A i \in Ids : job[i] = NoJob /\ i \notin Stored
  BY DEF Init, Stored, NoJob, Statuses, BlockingStatuses, TerminalStatuses
<1>2. TypeOK
  BY DEF Init, TypeOK, Calls
<1>3. JobsInOrder
  BY <1>1 DEF JobsInOrder, OneOpenJob, FailedNeverApplied, JobInv,
              CreationsInv, Blocking, Stored
<1>4. WorkInv
  BY DEF Init, Idle, WorkInv
<1> QED
  BY <1>2, <1>3, <1>4 DEF Inductive

LEMMA BeginHolds ==
  ASSUME Inductive, SubmitDisplay \/ SubmitUpdate \/ SubmitCreation
  PROVE  Inductive'
<1>1. PICK kind \in Kinds, keys \in SUBSET Keys, d \in Displays :
        Begin(kind, keys, d)
  BY DEF SubmitDisplay, SubmitUpdate, SubmitCreation, Kinds, Keys, Displays
<1>2. TypeOK'
  BY <1>1 DEF Inductive, Begin, TypeOK, Work
<1>3. JobsInOrder'
  <2>1. UNCHANGED <<job, call, undo>>
    BY <1>1 DEF Begin
  <2>2. Sending
    BY <2>1 DEF Sending
  <2> QED
    BY <2>1, <2>2, SendingKeepsOrder DEF Inductive
<1>4. WorkInv'
  BY <1>1 DEF Begin, WorkInv, Free, Stored
<1> QED
  BY <1>2, <1>3, <1>4 DEF Inductive

\* The stored jobs are new ones, each under a free key of its own.
LEMMA StoreHolds ==
  ASSUME Inductive, Store
  PROVE  Inductive'
<1>0. /\ TypeOK /\ JobsInOrder /\ WorkInv /\ work.at = "store"
      /\ UNCHANGED <<call, undo, shelf>>
  BY DEF Inductive, Store
<1>1. /\ work.kind \in Kinds /\ work.keys \in SUBSET Keys
      /\ work.target \in Displays
  BY <1>0 DEF TypeOK, Work, Idle
<1> DEFINE key(f, i) == CHOOSE k \in work.keys : f[k] = i
           new(f, i) == [status |-> "submitted", kind |-> work.kind,
                         key |-> key(f, i), target |-> work.target,
                         recovery |-> FALSE, resolved |-> work.kind # "create"]
           ids(f) == {f[k] : k \in work.keys}
           jobs(f) == [i \in Ids |-> IF i \in ids(f) THEN new(f, i) ELSE job[i]]
<1>2. PICK f \in [work.keys -> {i \in Ids : job[i] = NoJob}] :
        /\ \A k, l \in work.keys : f[k] = f[l] => k = l
        /\ Write(jobs(f))
        /\ work' = [at |-> "send", ids |-> ids(f)]
  BY DEF Store
<1>3. ids(f) \in SUBSET Ids /\ \A i \in ids(f) : job[i] = NoJob
  BY <1>2
<1>4. \A i \in ids(f) : key(f, i) \in work.keys /\ f[key(f, i)] = i
  BY <1>2
<1>5. \A i \in ids(f) :
        /\ new(f, i) \in Job /\ new(f, i) # NoJob
        /\ new(f, i).status = "submitted" /\ ~new(f, i).recovery
        /\ new(f, i).kind = work.kind /\ new(f, i).key = key(f, i)
  BY <1>1, <1>4 DEF Job, NoJob, Statuses, BlockingStatuses
<1> HIDE DEF new, ids
<1>6. /\ jobs(f) \in [Ids -> Job \cup {NoJob}]
      /\ \A i \in Ids \ ids(f) : jobs(f)[i] = job[i]
      /\ \A i \in ids(f) : jobs(f)[i] = new(f, i)
  BY <1>0, <1>3, <1>5 DEF TypeOK
<1> HIDE DEF jobs
<1>7. /\ job' \in [Ids -> Job \cup {NoJob}]
      /\ \A i \in Ids \ ids(f) : Left(i)
      /\ \A i \in Ids : \/ job'[i] = jobs(f)[i]
                        \/ jobs(f)[i].status \in TerminalStatuses
  BY <1>0, <1>2, <1>3, <1>6, Writes
<1>8. \A i \in ids(f) :
        /\ job'[i] \in Job /\ job[i] = NoJob /\ job'[i] # NoJob
        /\ job'[i].status = "submitted" /\ ~job'[i].recovery
        /\ job'[i].kind = work.kind /\ job'[i].key = key(f, i)
        /\ call'[i] = "none" /\ undo'[i] = "none"
  BY <1>0, <1>3, <1>5, <1>6, <1>7 DEF TerminalStatuses, TypeOK
<1>9. TypeOK'
  <2>1. work' \in Work
    BY <1>2, <1>3 DEF Work
  <2>2. \A i \in Ids : job'[i] = NoJob => job[i] = NoJob
    BY <1>7, <1>8 DEF Left, Job, NoJob
  <2> QED
    BY <1>0, <1>7, <2>1, <2>2 DEF TypeOK
<1>10. ASSUME NEW i \in Stored', i \notin ids(f)
       PROVE  job'[i] = job[i] /\ i \in Stored /\ i \in Ids
  BY <1>7, <1>10 DEF Left, Stored, Statuses, BlockingStatuses, TerminalStatuses
<1>11. ASSUME NEW i \in Stored', i \notin ids(f),
              NEW j \in ids(f), job'[i].key = job'[j].key
       PROVE  /\ ~Blocking(i)'
              /\ job'[i].kind = "create" /\ work.kind = "create" =>
                   job'[i].status = "failed"
  <2>1. key(f, j) \in work.keys /\ job[i].key = key(f, j) /\ i \in Stored
    BY <1>4, <1>8, <1>10, <1>11
  <2>2. /\ job[i].status \notin BlockingStatuses
        /\ work.kind = "create" => job[i].status # "verified"
    BY <1>0, <2>1 DEF WorkInv, Free
  <2>3. /\ job[i].status \in Statuses /\ JobInv(i) /\ job[i] # NoJob
    BY <1>0, <2>1 DEF JobsInOrder, Stored, NoJob, Statuses, BlockingStatuses,
                      TerminalStatuses
  <2> QED
    BY <1>10, <1>11, <2>2, <2>3
       DEF Blocking, JobInv, Statuses, TerminalStatuses
<1>12. ASSUME NEW i \in ids(f), NEW j \in ids(f), job'[i].key = job'[j].key
       PROVE  i = j
  BY <1>4, <1>8, <1>12
<1>13. OneOpenJob'
  <2> SUFFICES ASSUME NEW i \in Ids, NEW j \in Ids,
                      Blocking(i)', Blocking(j)', job'[i].key = job'[j].key
               PROVE  i = j
    BY DEF OneOpenJob
  <2>1. i \in Stored' /\ j \in Stored'
    BY DEF Blocking
  <2>2. CASE i \in ids(f) \/ j \in ids(f)
    BY <1>11, <1>12, <2>1, <2>2
  <2>3. CASE i \notin ids(f) /\ j \notin ids(f)
    BY <1>0, <1>10, <2>1, <2>3 DEF JobsInOrder, OneOpenJob, Blocking
  <2> QED
    BY <2>2, <2>3
<1>14. FailedNeverApplied'
  BY <1>0, <1>8, <1>10 DEF JobsInOrder, FailedNeverApplied
<1>15. \A i \in Ids : JobInv(i)'
  <2> SUFFICES ASSUME NEW i \in Ids PROVE JobInv(i)'
    OBVIOUS
  <2>1. CASE i \in ids(f)
    BY <1>8, <2>1 DEF JobInv
  <2>2. CASE i \notin ids(f)
    <3>1. JobInv(i) /\ Left(i) /\ undo' = undo
      BY <1>0, <1>7, <2>2 DEF JobsInOrder
    <3>2. job'[i] # job[i] => job[i] # NoJob
      BY <3>1 DEF Left, NoJob, TerminalStatuses
    <3> QED
      BY <3>1, <3>2 DEF JobInv, Left
  <2> QED
    BY <2>1, <2>2
<1>16. CreationsInv'
  <2> SUFFICES ASSUME NEW i \in Stored', NEW j \in Stored',
                      job'[i].kind = "create", job'[j].kind = "create",
                      job'[i].key = job'[j].key, i # j
               PROVE  job'[i].status = "failed" \/ job'[j].status = "failed"
    BY DEF CreationsInv
  <2>1. CASE i \in ids(f)
    BY <1>8, <1>11, <1>12, <2>1
  <2>2. CASE j \in ids(f)
    BY <1>8, <1>11, <1>12, <2>2
  <2>3. CASE i \notin ids(f) /\ j \notin ids(f)
    BY <1>0, <1>10, <2>3 DEF JobsInOrder, CreationsInv
  <2> QED
    BY <2>1, <2>2, <2>3
<1>17. WorkInv'
  <2>1. work'.at = "send" /\ work'.ids = ids(f)
    BY <1>2
  <2> QED
    BY <1>8, <2>1 DEF WorkInv
<1> QED
  BY <1>9, <1>13, <1>14, <1>15, <1>16, <1>17 DEF Inductive, JobsInOrder

LEMMA NoJobIsNone == NoJob \notin Job
BY DEF NoJob, Job

LEMMA NoneLost ==
  ASSUME NEW ids, NEW status, Allowed(ids, status)
  PROVE  \A i \in Ids : job'[i] = NoJob => job[i] = NoJob
BY NoJobIsNone DEF Allowed, Left, Moved

\* A worker at an await past the storing names its jobs.
LEMMA WorksOnJobs ==
  ASSUME TypeOK,
         work.at \in {"send", "wait", "readback", "restore", "restoring"}
  PROVE  work.ids \in SUBSET Ids /\ work \in Work
BY DEF TypeOK, Work, Idle

\* After a transition of the jobs it names, with an idle worker or one that
\* goes on with them.
LEMMA TransitionHolds ==
  ASSUME Inductive,
         NEW ids \in SUBSET Ids, NEW status \in Statuses,
         \A i \in ids : Blocking(i),
         Transition(ids, status),
         UNCHANGED <<call, undo, shelf>>,
         status = "failed" =>
           \A i \in ids : job[i].recovery \/ call[i] = "refused",
         status \in {"recovering", "recovered"} =>
           \A i \in ids : job[i].kind # "create",
         work' = Idle
  PROVE  Inductive'
<1>0. TypeOK /\ JobsInOrder
  BY DEF Inductive
<1>1. \A i \in ids : job[i] \in Job
  BY <1>0 DEF TypeOK, Blocking, Stored, NoJob, Statuses, BlockingStatuses,
              TerminalStatuses
<1>2. /\ job' \in [Ids -> Job \cup {NoJob}]
      /\ \A i \in ids : Moved(i, status) /\ job'[i].recovery = job[i].recovery
      /\ \A i \in Ids \ ids : Left(i)
  BY <1>0, <1>1, Transitions
<1>3. Allowed(ids, status)
  BY <1>2 DEF Allowed
<1>4. JobsInOrder'
  BY <1>0, <1>3, AllowedKeepsOrder
<1>5. \A i \in Ids : job'[i] = NoJob => job[i] = NoJob
  BY <1>3, NoneLost
<1>6. TypeOK'
  BY <1>0, <1>2, <1>5 DEF TypeOK
<1>7. WorkInv'
  BY DEF WorkInv, Idle
<1> QED
  BY <1>4, <1>6, <1>7 DEF Inductive

LEMMA SendHolds ==
  ASSUME Inductive, Send
  PROVE  Inductive'
<1>0. TypeOK /\ JobsInOrder /\ WorkInv
  BY DEF Inductive
<1>1. work.ids \in SUBSET Ids /\ work \in Work
  BY <1>0 DEF Send, TypeOK, Work, Idle
<1>2. \A i \in work.ids : /\ job[i] \in Job /\ job[i].status = "submitted"
                           /\ ~job[i].recovery /\ call[i] = "none"
  BY <1>0 DEF WorkInv, Send
<1>3. /\ UNCHANGED <<job, undo, shelf>> /\ call' \in [Ids -> Calls]
      /\ \A i \in Ids : call'[i] = IF i \in work.ids THEN "sent" ELSE call[i]
  BY <1>0 DEF Send, TypeOK, Calls
<1>4. work'.at = "wait" /\ work'.ids = work.ids /\ work' \in Work
  BY <1>1 DEF Send, Work
<1>5. TypeOK'
  BY <1>0, <1>2, <1>3, <1>4, NoJobIsNone DEF TypeOK
<1>6. JobsInOrder'
  <2>1. Sending
    BY <1>2, <1>3 DEF Sending
  <2> QED
    BY <1>0, <2>1, SendingKeepsOrder
<1>7. WorkInv'
  BY <1>2, <1>3, <1>4 DEF WorkInv
<1> QED
  BY <1>5, <1>6, <1>7 DEF Inductive

\* A refused submission, or one without an answer.
LEMMA AnswerFailsHolds ==
  ASSUME Inductive, work.at = "wait",
         NEW outcome \in Outcomes(call, work.ids), outcome # "accepted",
         Transition(work.ids, FailureStatus(outcome)), work' = Idle,
         UNCHANGED <<call, undo, shelf>>
  PROVE  Inductive'
<1>1. work.ids \in SUBSET Ids
  BY DEF Inductive, TypeOK, Work, Idle
<1>2. \A i \in work.ids : Blocking(i)
  BY <1>1 DEF Inductive, WorkInv, Blocking, Stored, Statuses, BlockingStatuses
<1>3. FailureStatus(outcome) \in {"failed", "recovery-required"}
  BY DEF FailureStatus
<1>4. FailureStatus(outcome) = "failed" =>
        \A i \in work.ids : call[i] = "refused"
  BY DEF FailureStatus, Outcomes
<1> HIDE DEF FailureStatus
<1> QED
  BY <1>1, <1>2, <1>3, <1>4, TransitionHolds
     DEF Statuses, BlockingStatuses, TerminalStatuses

LEMMA AnswerAcceptedHolds ==
  ASSUME Inductive, work.at = "wait", NEW kind,
         Write([i \in Ids |->
                 IF i \in work.ids
                 THEN [job[i] EXCEPT !.status = Accepted(kind),
                                     !.resolved = TRUE]
                 ELSE job[i]]),
         work' \in {Idle, [work EXCEPT !.at = "readback"]},
         kind = "create" \/ work' = Idle,
         UNCHANGED <<call, undo, shelf>>
  PROVE  Inductive'
<1> DEFINE status == Accepted(kind)
           new == [i \in Ids |->
                    IF i \in work.ids
                    THEN [job[i] EXCEPT !.status = status, !.resolved = TRUE]
                    ELSE job[i]]
<1>0. TypeOK /\ JobsInOrder /\ WorkInv
  BY DEF Inductive
<1>1. work.ids \in SUBSET Ids /\ work \in Work
  BY <1>0, WorksOnJobs
<1>2. \A i \in work.ids : /\ job[i] \in Job /\ job[i].status = "submitted"
                           /\ ~job[i].recovery
  BY <1>0 DEF WorkInv
<1>3. /\ status \in {"auditing", "verifying"}
      /\ kind = "create" => status = "verifying"
  BY DEF Accepted
<1>4. Write(new)
  OBVIOUS
<1> HIDE DEF status
<1>5. /\ new \in [Ids -> Job \cup {NoJob}]
      /\ \A i \in Ids \ work.ids : new[i] = job[i]
      /\ \A i \in work.ids :
           new[i] = [job[i] EXCEPT !.status = status, !.resolved = TRUE]
  BY <1>0, <1>1, <1>2, <1>3
     DEF TypeOK, Job, Statuses, BlockingStatuses
<1> HIDE DEF new
<1>6. /\ job' \in [Ids -> Job \cup {NoJob}]
      /\ \A i \in Ids \ work.ids : Left(i)
      /\ \A i \in Ids : \/ job'[i] = new[i]
                        \/ new[i].status \in TerminalStatuses
  BY <1>0, <1>1, <1>4, <1>5, Writes
<1>7. \A i \in work.ids : Moved(i, status) /\ job'[i].recovery = job[i].recovery
  <2> SUFFICES ASSUME NEW i \in work.ids
               PROVE  Moved(i, status) /\ job'[i].recovery = job[i].recovery
    OBVIOUS
  <2>1. /\ new[i] \in Job /\ new[i].status = status
        /\ new[i].recovery = job[i].recovery /\ new[i].kind = job[i].kind
        /\ new[i].key = job[i].key /\ new[i].target = job[i].target
    BY <1>2, <1>3, <1>5 DEF Job, Statuses, BlockingStatuses
  <2>2. job'[i] = new[i]
    BY <1>1, <1>3, <1>6, <2>1 DEF TerminalStatuses
  <2> QED
    BY <1>2, <2>1, <2>2 DEF Moved
<1>8. Allowed(work.ids, status)
  BY <1>1, <1>2, <1>3, <1>6, <1>7
     DEF Allowed, Blocking, Stored, Statuses, BlockingStatuses
<1>9. JobsInOrder'
  BY <1>0, <1>1, <1>8, AllowedKeepsOrder
<1>10. \A i \in Ids : job'[i] = NoJob => job[i] = NoJob
  BY <1>8, NoneLost
<1>11. work' = Idle \/ (work'.at = "readback" /\ work'.ids = work.ids
                         /\ work' \in Work)
  BY <1>1 DEF Work
<1>12. TypeOK'
  BY <1>0, <1>6, <1>10, <1>11 DEF TypeOK
<1>13. WorkInv'
  <2>1. CASE work' = Idle
    BY <2>1 DEF WorkInv, Idle
  <2>2. CASE work' # Idle
    <3>1. /\ status = "verifying" /\ work'.at = "readback"
          /\ work'.ids = work.ids
      BY <1>3, <1>11, <2>2
    <3>2. \A i \in work.ids : /\ job'[i] \in Job /\ ~job'[i].recovery
                               /\ job'[i].status = "verifying"
      BY <1>2, <1>7, <3>1 DEF Moved, BlockingStatuses
    <3> QED
      BY <3>1, <3>2 DEF WorkInv
  <2> QED
    BY <2>1, <2>2
<1> QED
  BY <1>9, <1>12, <1>13 DEF Inductive

LEMMA AnswerHolds ==
  ASSUME Inductive, Answer
  PROVE  Inductive'
<1> DEFINE kind == job[CHOOSE i \in work.ids : TRUE].kind
<1>0. work.at = "wait" /\ UNCHANGED <<call, undo, shelf>>
  BY DEF Answer
<1>1. PICK outcome \in Outcomes(call, work.ids) :
        IF outcome = "accepted"
        THEN /\ Write([i \in Ids |->
                  IF i \in work.ids
                  THEN [job[i] EXCEPT !.status = Accepted(kind),
                                      !.resolved = TRUE]
                  ELSE job[i]])
             /\ work' = IF kind = "create" THEN [work EXCEPT !.at = "readback"]
                        ELSE Idle
        ELSE Transition(work.ids, FailureStatus(outcome)) /\ work' = Idle
  BY DEF Answer
<1> HIDE DEF kind
<1>2. CASE outcome = "accepted"
  BY <1>0, <1>1, <1>2, AnswerAcceptedHolds
<1>3. CASE outcome # "accepted"
  BY <1>0, <1>1, <1>3, AnswerFailsHolds
<1> QED
  BY <1>2, <1>3

LEMMA DieHolds ==
  ASSUME Inductive, Die
  PROVE  Inductive'
<1>1. TypeOK' /\ WorkInv'
  BY DEF Inductive, Die, TypeOK, WorkInv, Idle
<1>2. JobsInOrder'
  <2>1. Sending
    BY DEF Die, Sending
  <2> QED
    BY <2>1, SendingKeepsOrder DEF Inductive
<1> QED
  BY <1>1, <1>2 DEF Inductive

LEMMA RefreshDisplayHolds ==
  ASSUME Inductive, NEW i \in Ids, RefreshDisplay(i)
  PROVE  Inductive'
<1>1. PICK shown \in Readings(job[i].key), timedOut \in BOOLEAN :
        Transition({i}, DisplayVerdict(job[i], shown, timedOut))
  BY DEF RefreshDisplay
<1> DEFINE status == DisplayVerdict(job[i], shown, timedOut)
<1>2. /\ Blocking(i) /\ job[i].kind = "display"
      /\ UNCHANGED <<call, undo, shelf>> /\ work' = Idle
  BY DEF RefreshDisplay
<1>3. status \in Statuses /\ status # "failed"
  BY <1>2 DEF DisplayVerdict, Blocking, Statuses, BlockingStatuses,
              TerminalStatuses
<1> HIDE DEF status
<1>4. Transition({i}, status)
  BY <1>1 DEF status
<1> QED
  BY <1>2, <1>3, <1>4, TransitionHolds

LEMMA RefreshCreationHolds ==
  ASSUME Inductive, NEW i \in Ids, RefreshCreation(i)
  PROVE  Inductive'
<1>1. PICK verdict \in CreationVerdicts(i) : Transition({i}, verdict)
  BY DEF RefreshCreation
<1>2. work' = Idle /\ UNCHANGED <<call, undo, shelf>>
  BY DEF RefreshCreation
<1>3. verdict \in {"recovery-required", "verifying", "verified"}
  BY DEF CreationVerdicts
<1>4. Blocking(i)
  BY DEF RefreshCreation, Inductive, WorkInv, Blocking, Stored, Statuses,
         BlockingStatuses
<1> QED
  BY <1>1, <1>2, <1>3, <1>4, TransitionHolds
     DEF Statuses, BlockingStatuses, TerminalStatuses

LEMMA CompleteUpdateReadbackHolds ==
  ASSUME Inductive, NEW i \in Ids, CompleteUpdateReadback(i)
  PROVE  Inductive'
<1>1. PICK verdict \in {"verified", "auditing", "recovery-required"} :
        Transition({i}, verdict)
  BY DEF CompleteUpdateReadback, StatusAfterRefreshError
<1>2. Blocking(i) /\ work' = Idle /\ UNCHANGED <<call, undo, shelf>>
  BY DEF CompleteUpdateReadback
<1> QED
  BY <1>1, <1>2, TransitionHolds
     DEF Statuses, BlockingStatuses, TerminalStatuses

\* The mark of the recovery is stored with the intent.
LEMMA RecoverMarks ==
  ASSUME Inductive, NEW i \in Ids, Recoverable(i),
         Write([job EXCEPT ![i].status = "recovering", ![i].recovery = TRUE]),
         work' = [at |-> "restore", ids |-> {i}],
         UNCHANGED <<call, undo, shelf>>
  PROVE  Inductive'
<1> DEFINE new == [job EXCEPT ![i].status = "recovering", ![i].recovery = TRUE]
<1>0. TypeOK /\ JobsInOrder
  BY DEF Inductive
<1>1. /\ job[i] \in Job /\ Blocking(i) /\ job[i].kind = "display"
      /\ ~job[i].recovery /\ undo[i] = "none"
  BY <1>0 DEF TypeOK, Recoverable, Blocking, Stored, NoJob, Statuses,
              BlockingStatuses, TerminalStatuses, JobsInOrder, JobInv
<1>2. Write(new)
  OBVIOUS
<1>3. /\ new \in [Ids -> Job \cup {NoJob}]
      /\ \A j \in Ids \ {i} : new[j] = job[j]
      /\ new[i] = [job[i] EXCEPT !.status = "recovering", !.recovery = TRUE]
  BY <1>0, <1>1 DEF TypeOK, Job, Statuses, BlockingStatuses
<1> HIDE DEF new
<1>4. /\ new[i] \in Job /\ new[i].status = "recovering" /\ new[i].recovery
      /\ new[i].kind = job[i].kind /\ new[i].key = job[i].key
      /\ new[i].target = job[i].target
  BY <1>1, <1>3 DEF Job, Statuses, BlockingStatuses
<1>5. /\ job' \in [Ids -> Job \cup {NoJob}]
      /\ \A j \in Ids \ {i} : Left(j)
      /\ job'[i] = new[i] \/ new[i].status \in TerminalStatuses
  BY <1>0, <1>2, <1>3, Writes
<1>6. job'[i] = new[i]
  BY <1>4, <1>5 DEF TerminalStatuses
<1>7. Allowed({i}, "recovering")
  BY <1>1, <1>4, <1>5, <1>6
     DEF Allowed, Moved, Statuses, BlockingStatuses
<1>8. JobsInOrder'
  BY <1>0, <1>7, AllowedKeepsOrder
<1>9. TypeOK'
  <2>1. work' \in Work
    BY DEF Work
  <2> QED
    BY <1>0, <1>5, <1>7, <2>1, NoneLost DEF TypeOK
<1>10. WorkInv'
  BY <1>1, <1>4, <1>6 DEF WorkInv
<1> QED
  BY <1>8, <1>9, <1>10 DEF Inductive

LEMMA RecoverHolds ==
  ASSUME Inductive, NEW i \in Ids, Recover(i)
  PROVE  Inductive'
<1>1. Recoverable(i) /\ work = Idle /\ UNCHANGED <<call, undo, shelf>>
  BY DEF Recover
<1>2. CASE Transition({i}, "recovered") /\ UNCHANGED work
  <2>1. Blocking(i) /\ job[i].kind # "create" /\ work' = Idle
    BY <1>1, <1>2 DEF Recoverable
  <2> QED
    BY <1>1, <1>2, <2>1, TransitionHolds DEF Statuses, TerminalStatuses
<1>3. CASE /\ Write([job EXCEPT ![i].status = "recovering",
                                ![i].recovery = TRUE])
           /\ work' = [at |-> "restore", ids |-> {i}]
  BY <1>1, <1>3, RecoverMarks
<1> QED
  BY <1>2, <1>3 DEF Recover

LEMMA RestoreHolds ==
  ASSUME Inductive, Restore
  PROVE  Inductive'
<1>0. TypeOK /\ JobsInOrder /\ WorkInv
  BY DEF Inductive
<1>1. work.ids \in SUBSET Ids /\ work \in Work
  BY <1>0, WorksOnJobs DEF Restore
<1>2. \A i \in work.ids : /\ job[i] \in Job /\ job[i].status = "recovering"
                           /\ job[i].recovery
  BY <1>0 DEF WorkInv, Restore
<1>3. /\ UNCHANGED <<job, call, shelf>> /\ undo' \in [Ids -> Calls]
      /\ \A i \in Ids : undo'[i] = IF i \in work.ids THEN "sent" ELSE undo[i]
  BY <1>0 DEF Restore, TypeOK, Calls
<1>4. work'.at = "restoring" /\ work'.ids = work.ids /\ work' \in Work
  BY <1>1 DEF Restore, Work
<1>5. TypeOK'
  BY <1>0, <1>2, <1>3, <1>4, NoJobIsNone DEF TypeOK
<1>6. JobsInOrder'
  <2>1. Sending
    BY <1>2, <1>3 DEF Sending
  <2> QED
    BY <1>0, <2>1, SendingKeepsOrder
<1>7. WorkInv'
  BY <1>2, <1>3, <1>4 DEF WorkInv
<1> QED
  BY <1>5, <1>6, <1>7 DEF Inductive

LEMMA AnswerRestoreHolds ==
  ASSUME Inductive, AnswerRestore
  PROVE  Inductive'
<1>0. TypeOK /\ JobsInOrder /\ WorkInv /\ work.at = "restoring"
  BY DEF Inductive, AnswerRestore
<1>1. work.ids \in SUBSET Ids
  BY <1>0, WorksOnJobs
<1>2. PICK status \in {"recovering", "failed", "recovery-required"} :
        Transition(work.ids, status)
  BY DEF AnswerRestore, FailureStatus
<1>3. work' = Idle /\ UNCHANGED <<call, undo, shelf>>
  BY DEF AnswerRestore
<1>4. \A i \in work.ids : /\ job[i].recovery /\ Blocking(i)
                           /\ job[i].kind # "create"
  BY <1>0, <1>1, NoJobIsNone
     DEF WorkInv, JobsInOrder, JobInv, Blocking, Stored, Statuses,
         BlockingStatuses
<1> QED
  BY <1>1, <1>2, <1>3, <1>4, TransitionHolds
     DEF Statuses, BlockingStatuses, TerminalStatuses

---------------------------------------------------------------------------
(* The steps of the platform.                                              *)

LEMMA PlatformHolds ==
  ASSUME Inductive, NEW i \in Ids, Decide(i) \/ Apply(i)
  PROVE  Inductive'
<1>0. TypeOK /\ JobsInOrder /\ WorkInv
  BY DEF Inductive
<1>1. UNCHANGED <<job, work>>
  BY DEF Decide, Apply
<1>2. /\ call' \in [Ids -> Calls] /\ undo' \in [Ids -> Calls]
      /\ \A j \in Ids : call'[j] = call[j] \/ call[j] \in {"sent", "taken"}
      /\ \A j \in Ids : undo'[j] = undo[j] \/ undo[j] \in {"sent", "taken"}
  BY <1>0 DEF Decide, Apply, TypeOK, Calls
<1>3. shelf' \in [Products -> Displays]
  <2>1. CASE Decide(i)
    BY <1>0, <2>1 DEF Decide, TypeOK
  <2>2. CASE Apply(i)
    <3>1. job[i] # NoJob
      BY <1>0, <2>2 DEF Apply, TypeOK
    <3>2. job[i].target \in Displays
      BY <1>0, <3>1 DEF TypeOK, Job
    <3>3. PICK d \in Displays : Shows(i, d)
      BY <2>2, <3>2 DEF Apply, Other, Displays
    <3>4. shelf \in [Products -> Displays]
      BY <1>0 DEF TypeOK
    <3> QED
      BY <3>3, <3>4 DEF Shows
  <2> QED
    BY <2>1, <2>2
<1>4. TypeOK'
  BY <1>0, <1>1, <1>2, <1>3 DEF TypeOK
<1>5. JobsInOrder'
  <2>1. Sending
    BY <1>1, <1>2 DEF Sending
  <2> QED
    BY <1>0, <2>1, SendingKeepsOrder
<1>6. WorkInv'
  <2>1. work.at \in {"send", "restore"} => work.ids \in SUBSET Ids
    BY <1>0, WorksOnJobs
  <2> QED
    BY <1>0, <1>1, <1>2, <2>1 DEF WorkInv, Free, Stored
<1> QED
  BY <1>4, <1>5, <1>6 DEF Inductive

LEMMA StepHolds == Inductive /\ [Next]_vars => Inductive'
<1> SUFFICES ASSUME Inductive, [Next]_vars PROVE Inductive'
  OBVIOUS
<1>1. CASE UNCHANGED vars
  BY <1>1 DEF vars, Inductive, TypeOK, JobsInOrder, OneOpenJob,
              FailedNeverApplied, JobInv, CreationsInv, WorkInv, Blocking,
              Stored, Free
<1>2. CASE SubmitDisplay \/ SubmitUpdate \/ SubmitCreation
  BY <1>2, BeginHolds
<1>3. CASE Store
  BY <1>3, StoreHolds
<1>4. CASE Send
  BY <1>4, SendHolds
<1>5. CASE Answer
  BY <1>5, AnswerHolds
<1>6. CASE Restore
  BY <1>6, RestoreHolds
<1>7. CASE AnswerRestore
  BY <1>7, AnswerRestoreHolds
<1>8. CASE Die
  BY <1>8, DieHolds
<1>9. ASSUME NEW i \in Ids, RefreshDisplay(i) PROVE Inductive'
  BY <1>9, RefreshDisplayHolds
<1>10. ASSUME NEW i \in Ids, RefreshCreation(i) PROVE Inductive'
  BY <1>10, RefreshCreationHolds
<1>11. ASSUME NEW i \in Ids, CompleteUpdateReadback(i) PROVE Inductive'
  BY <1>11, CompleteUpdateReadbackHolds
<1>12. ASSUME NEW i \in Ids, Recover(i) PROVE Inductive'
  BY <1>12, RecoverHolds
<1>13. ASSUME NEW i \in Ids, Decide(i) \/ Apply(i) PROVE Inductive'
  BY <1>13, PlatformHolds
<1> QED
  BY <1>1, <1>2, <1>3, <1>4, <1>5, <1>6, <1>7, <1>8, <1>9, <1>10, <1>11,
     <1>12, <1>13 DEF Next

\* The invariant holds in every state that can be reached.
LEMMA InductiveHolds == Spec => []Inductive
BY InitHolds, StepHolds, PTL DEF Spec

---------------------------------------------------------------------------
(* The theorems.                                                           *)

\* The store, the worker and the platform only ever hold states of their kind.
THEOREM TypeCorrect == Spec => []TypeOK
<1>1. Inductive => TypeOK
  BY DEF Inductive
<1> QED
  BY <1>1, InductiveHolds, PTL

\* At most one unfinished job per product or payload in the storage, although
\* nothing but the order of the operations keeps two apart.
THEOREM OneJobPerProduct == Spec => []OneOpenJob
<1>1. Inductive => OneOpenJob
  BY DEF Inductive, JobsInOrder
<1> QED
  BY <1>1, InductiveHolds, PTL

\* A job that failed, and whose product nobody tried to put back, was refused.
THEOREM FailedIsHarmless == Spec => []FailedNeverApplied
<1>1. Inductive => FailedNeverApplied
  BY DEF Inductive, JobsInOrder
<1> QED
  BY <1>1, InductiveHolds, PTL

\* The same content is not created twice while the record of the first
\* creation is kept.
THEOREM NoContentTwice == Spec => []CreatedOnce
<1>1. Inductive => CreatedOnce
  <2> SUFFICES ASSUME Inductive,
                      NEW i \in Stored, NEW j \in Stored,
                      job[i].kind = "create", job[j].kind = "create",
                      job[i].key = job[j].key,
                      call[i] \notin {"none", "refused"},
                      call[j] \notin {"none", "refused"}
               PROVE  i = j
    BY DEF CreatedOnce
  <2>1. ASSUME NEW k \in Stored, job[k].kind = "create",
               job[k].status = "failed"
        PROVE  call[k] = "refused"
    <3>1. JobInv(k) /\ job[k] # NoJob
      BY DEF Inductive, JobsInOrder, Stored, NoJob, Statuses,
             BlockingStatuses, TerminalStatuses
    <3> QED
      BY <2>1, <3>1 DEF Inductive, JobsInOrder, FailedNeverApplied, JobInv
  <2> QED
    BY <2>1 DEF Inductive, JobsInOrder, CreationsInv
<1> QED
  BY <1>1, InductiveHolds, PTL

\* No write, and no recovery write, leaves while another job of its product is
\* unfinished.
THEOREM WritesWaitForOpenJobs == Spec => OutboundRespectsOpenJobs
<1> DEFINE Respects ==
      \A i \in Ids :
        (call[i] = "none" /\ call'[i] = "sent")
          \/ (undo[i] = "none" /\ undo'[i] = "sent") =>
        /\ Blocking(i)
        /\ \A j \in Ids \ {i} : Blocking(j) => job[j].key # job[i].key
<1>1. Inductive /\ [Next]_vars => [Respects]_vars
  <2> SUFFICES ASSUME Inductive, Next, NEW i \in Ids,
                      \/ call[i] = "none" /\ call'[i] = "sent"
                      \/ undo[i] = "none" /\ undo'[i] = "sent"
               PROVE  /\ Blocking(i)
                      /\ \A j \in Ids \ {i} :
                           Blocking(j) => job[j].key # job[i].key
    OBVIOUS
  <2>1. (Send \/ Restore) /\ i \in work.ids
    BY DEF Next, SubmitDisplay, SubmitUpdate, SubmitCreation, Begin, Store,
           Send, Answer, Restore, AnswerRestore, Die, RefreshDisplay,
           RefreshCreation, CompleteUpdateReadback, Recover, Decide, Apply,
           Inductive, TypeOK
  <2>2. Blocking(i)
    BY <2>1 DEF Send, Restore, Inductive, WorkInv, Blocking, Stored, Statuses,
                BlockingStatuses
  <2> QED
    BY <2>2 DEF Inductive, JobsInOrder, OneOpenJob
<1> QED
  BY <1>1, InductiveHolds, PTL DEF Spec, OutboundRespectsOpenJobs

\* The product is put back by one recovery write at most per job.
THEOREM OneRestore == Spec => RestoreOnce
<1> DEFINE Once ==
      \A i \in Ids : undo'[i] = "sent" => undo[i] \in {"none", "sent"}
<1>1. Inductive /\ [Next]_vars => [Once]_vars
  <2> SUFFICES ASSUME Inductive, Next, NEW i \in Ids, undo'[i] = "sent"
               PROVE  undo[i] \in {"none", "sent"}
    OBVIOUS
  <2>1. undo' = undo \/ Restore \/ \E j \in Ids : Decide(j) \/ Apply(j)
    BY DEF Next, SubmitDisplay, SubmitUpdate, SubmitCreation, Begin, Store,
           Send, Answer, AnswerRestore, Die, RefreshDisplay, RefreshCreation,
           CompleteUpdateReadback, Recover
  <2>2. CASE undo' = undo
    BY <2>2
  <2>3. CASE Restore
    BY <2>3 DEF Restore, Inductive, WorkInv, TypeOK
  <2>4. ASSUME NEW j \in Ids, Decide(j) \/ Apply(j)
        PROVE  undo[i] \in {"none", "sent"}
    BY <2>4 DEF Decide, Apply, Inductive, TypeOK
  <2> QED
    BY <2>1, <2>2, <2>3, <2>4
<1> QED
  BY <1>1, InductiveHolds, PTL DEF Spec, RestoreOnce
===========================================================================
