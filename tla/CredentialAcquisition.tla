----------------------- MODULE CredentialAcquisition -----------------------
(* The jobs with which an administrator has the gateway fetch its Alibaba  *)
(* credentials through a remote browser: service.ts, repository.ts and     *)
(* cloudflare-playwright-driver.ts of apps/api/src/                        *)
(* alibaba-credential-acquisition, with the state machine of               *)
(* packages/core/src/alibaba-credential-acquisition.ts.                    *)
(* A request (start, continue, status, cancel) is a handler that reads the *)
(* job, drives the browser, and writes the job back; between those steps   *)
(* any other request runs, and the process may be stopped.                 *)
(* "asking" is selection-required and callback-confirmation-required;      *)
(* "ended" is failed, extension-required and prerequisite-required.        *)
(* Left out: the pages and the forms, what is selected or confirmed, and   *)
(* the limit of three jobs in thirty minutes (a start it refuses changes   *)
(* only what Expire changes).                                              *)
CONSTANTS Jobs,       \* the jobs that may be started
          Handlers,   \* the requests that may be at work at one time
          None        \* no job

ASSUME AcquisitionAssumption == None \notin Jobs

VARIABLES row,        \* the row of each job
          open,       \* the jobs whose browser session is signed in
          late,       \* the jobs whose expiry time has passed
          imported,   \* the jobs whose credentials reached the vault
          hand,       \* what each request is at
          calm,       \* frozen: requests hold a snapshot one at a time
          doubled,    \* history: the jobs two requests resumed at one time
          loose       \* history: the jobs whose session escaped its close

history == <<doubled, loose>>
vars == <<row, open, late, imported, hand, calm, history>>

Active == {"running", "asking"}
Over == {"completed", "ended"}
Statuses == {"absent"} \cup Active \cup Over

Idle == [at |-> "idle", job |-> None, seen |-> "absent",
         session |-> FALSE, to |-> "absent"]

TypeOK ==
    /\ row \in [Jobs -> [status : Statuses, session : BOOLEAN]]
    /\ open \subseteq Jobs /\ late \subseteq Jobs /\ imported \subseteq Jobs
    /\ calm \in BOOLEAN
    /\ doubled \subseteq Jobs /\ loose \subseteq Jobs
    /\ \A c \in Handlers :
         /\ hand[c].at \in {"idle", "insert", "acquire", "attach", "login",
                            "resume", "advance", "apply", "import", "close",
                            "write"}
         /\ hand[c].job \in Jobs \cup {None}
         /\ hand[c].seen \in Statuses /\ hand[c].to \in Statuses
         /\ hand[c].session \in BOOLEAN
         /\ hand[c].at # "idle" => hand[c].job \in Jobs
         /\ hand[c].at = "import" => hand[c].seen \in Active
         /\ hand[c].at = "close" => hand[c].to \in Over
         /\ hand[c].at = "write" => hand[c].to \in Over \cup {"asking"}

Init ==
    /\ row = [j \in Jobs |-> [status |-> "absent", session |-> FALSE]]
    /\ open = {} /\ late = {} /\ imported = {}
    /\ hand = [c \in Handlers |-> Idle]
    /\ calm \in BOOLEAN
    /\ doubled = {} /\ loose = {}

(* ------------------------------ parts of steps ------------------------- *)

JobOf(c) == hand[c].job
At(c, place) == hand[c].at = place

Goes(c, h) == hand' = [hand EXCEPT ![c] = h]
GoesTo(c, place) == Goes(c, [hand[c] EXCEPT !.at = place])
Leaves(c) == Goes(c, Idle)

(* A request that has read the job and will write what it decided then.    *)
Holding(c) == hand[c].at \in {"resume", "import", "close", "write"}

(* In a calm behaviour the job is read or expired only while no other      *)
(* request stands between its read and its write. Calls may fail and       *)
(* requests may die all the same. Only EndIsFinal speaks of calm.          *)
Quiet(j) == calm => \A c \in Handlers : JobOf(c) = j => ~ Holding(c)

(* The unique index over active_slot: another job holds the only slot.     *)
Occupied(j) == \E k \in Jobs \ {j} : row[k].status \in Active

(* closeSession does nothing without a session id. With one, the driver    *)
(* may fail to connect, or to clear the cookies: it says nothing of it and *)
(* the session stays signed in.                                            *)
Closes(j, known) ==
    \/ known /\ open' = open \ {j} /\ UNCHANGED loose
    \/ known /\ j \in open /\ loose' = loose \cup {j} /\ UNCHANGED open
    \/ ~ known /\ UNCHANGED <<open, loose>>

SetStatus(j, s) == row' = [row EXCEPT ![j].status = s]

(* ------------------------------- start --------------------------------- *)

(* repository.create first fails every active job that is past its expiry. *)
Stale == {j \in late : row[j].status \in Active}

Expire(c, j) ==
    /\ At(c, "idle") /\ row[j].status = "absent"
    /\ \A d \in Handlers : JobOf(d) # j
    /\ \A k \in Stale : Quiet(k)
    /\ row' = [k \in Jobs |-> IF k \in Stale
                              THEN [row[k] EXCEPT !.status = "ended"]
                              ELSE row[k]]
    /\ loose' = loose \cup (Stale \cap open)      \* expire closes nothing
    /\ Goes(c, [Idle EXCEPT !.at = "insert", !.job = j])
    /\ UNCHANGED <<open, late, imported, calm, doubled>>

\* Mutant: no unique index over the active jobs.
InsertUnindexed(c) ==
    /\ At(c, "insert")
    /\ SetStatus(JobOf(c), "running")
    /\ GoesTo(c, "acquire")
    /\ UNCHANGED <<open, late, imported, calm, history>>

Insert(c) ==
    /\ At(c, "insert")
    /\ \/ /\ Occupied(JobOf(c))                  \* ACQUISITION_BUSY
          /\ Leaves(c) /\ UNCHANGED row
       \/ /\ ~ Occupied(JobOf(c))
          /\ SetStatus(JobOf(c), "running")
          /\ GoesTo(c, "acquire")
    /\ UNCHANGED <<open, late, imported, calm, history>>

(* The browser service gives a session, or has no quota or no answer.      *)
Acquire(c) ==
    /\ At(c, "acquire")
    /\ \/ /\ open' = open \cup {JobOf(c)}
          /\ GoesTo(c, "attach")
       \/ /\ Goes(c, [hand[c] EXCEPT !.at = "apply", !.to = "ended"])
          /\ UNCHANGED open
    /\ UNCHANGED <<row, late, imported, calm, history>>

(* Another request has read the job and is yet to write it: it may be      *)
(* ending the job, and knows of no session.                                *)
Overtaken(j) == \E c \in Handlers : JobOf(c) = j /\ Holding(c)

Attaches(c) ==
    LET j == JobOf(c) IN
    /\ row' = [row EXCEPT ![j].session = TRUE]
    /\ loose' = IF Overtaken(j) THEN loose \cup {j} ELSE loose
    /\ GoesTo(c, "login")
    /\ UNCHANGED open

\* Mutant: the session is attached to a job in any status.
AttachAnyway(c) ==
    /\ At(c, "attach")
    /\ Attaches(c)
    /\ UNCHANGED <<late, imported, calm, doubled>>

(* attachBrowserSession changes an active row only; otherwise it throws    *)
(* and the driver closes the session it has just acquired.                 *)
Attach(c) ==
    LET j == JobOf(c) IN
    /\ At(c, "attach")
    /\ \/ row[j].status \in Active /\ Attaches(c)
       \/ /\ row[j].status \notin Active
          /\ Closes(j, TRUE)
          /\ Goes(c, [hand[c] EXCEPT !.at = "apply", !.to = "ended"])
          /\ UNCHANGED row
    /\ UNCHANGED <<late, imported, calm, doubled>>

(* ------------------------------ the browser ---------------------------- *)

(* What the driver may answer. An error it maps to a fallback closes the   *)
(* session, a failure it returns does not.                                 *)
Results == {"asking", "completed", "ended"}
Ends(j, result) == IF result = "ended" THEN {open \ {j}} ELSE {}

(* The driver signs in and advances; in a session closed under it, it      *)
(* cannot.                                                                 *)
Login(c) ==
    LET j == JobOf(c) IN
    /\ At(c, "login")
    /\ \E result \in Results :
         /\ j \notin open => result = "ended"
         /\ open' \in {open} \cup Ends(j, result)
         /\ Goes(c, [hand[c] EXCEPT !.at = "apply", !.to = result])
    /\ UNCHANGED <<row, late, imported, calm, history>>

(* A continued job advances in the session recorded for it, if any.        *)
Advance(c) ==
    LET j == JobOf(c) IN
    /\ At(c, "advance")
    /\ \E result \in Results :
         /\ ~ (hand[c].session /\ j \in open) => result = "ended"
         /\ open' \in {open} \cup
                     (IF hand[c].session THEN Ends(j, result) ELSE {})
         /\ Goes(c, [hand[c] EXCEPT !.at = "apply", !.to = result,
                                    !.session = FALSE])
    /\ UNCHANGED <<row, late, imported, calm, history>>

(* --------------------------- applyDriverResult ------------------------- *)

\* Mutant: the driver's result is applied to the job it was started for.
ApplyUnread(c) ==
    LET from == [hand[c] EXCEPT !.session = row[JobOf(c)].session,
                                !.seen = "running"] IN
    /\ At(c, "apply") /\ Quiet(JobOf(c))
    /\ Goes(c, [from EXCEPT !.at =
          CASE hand[c].to = "completed" -> "import"
            [] hand[c].to = "asking" -> "write"
            [] OTHER -> "close"])
    /\ UNCHANGED <<row, open, late, imported, calm, history>>

(* requireActive refuses a job that is over, and closes the session of one *)
(* past its expiry. Asking the user needs a job still running.             *)
Apply(c) ==
    LET j == JobOf(c)
        result == hand[c].to
        snapshot == [hand[c] EXCEPT !.session = row[j].session]
    IN
    /\ At(c, "apply") /\ Quiet(j)
    /\ \/ /\ row[j].status \notin Active          \* ..._ALREADY_FINISHED
          /\ Leaves(c) /\ UNCHANGED <<open, loose>>
       \/ /\ row[j].status \in Active /\ j \in late
          /\ Closes(j, row[j].session)
          /\ Leaves(c)
       \/ /\ row[j].status \in Active /\ j \notin late
          /\ \/ /\ result = "completed"
                /\ Goes(c, [snapshot EXCEPT !.at = "import",
                                            !.seen = row[j].status])
             \/ /\ result = "asking" /\ row[j].status = "running"
                /\ GoesTo(c, "write")
             \/ /\ result = "asking" /\ row[j].status # "running"
                /\ Leaves(c)                      \* the transition throws
             \/ result = "ended" /\ Goes(c, [snapshot EXCEPT !.at = "close"])
          /\ UNCHANGED <<open, loose>>
    /\ UNCHANGED <<row, late, imported, calm, doubled>>

(* The import into the vault answers or throws; then the job is completed  *)
(* from the status read before, unless its time has run out meanwhile.     *)
Import(c) ==
    LET j == JobOf(c)
        decides(s) == Goes(c, [hand[c] EXCEPT !.at = "close", !.to = s,
                                               !.seen = "absent"])
    IN
    /\ At(c, "import")
    /\ \/ /\ imported' = imported \cup {j}
          /\ \/ /\ hand[c].seen # "running" /\ j \notin late
                /\ Leaves(c)                      \* the transition throws
             \/ /\ hand[c].seen = "running" \/ j \in late
                /\ decides(IF j \in late THEN "ended" ELSE "completed")
       \/ decides("ended") /\ UNCHANGED imported
    /\ UNCHANGED <<row, open, late, calm, history>>

Close(c) ==
    /\ At(c, "close")
    /\ Closes(JobOf(c), hand[c].session)
    /\ Goes(c, [hand[c] EXCEPT !.at = "write", !.session = FALSE])
    /\ UNCHANGED <<row, late, imported, calm, doubled>>

(* repository.update writes whatever status the row has by now; only the   *)
(* unique index can refuse it.                                             *)
Write(c) ==
    LET j == JobOf(c) IN
    /\ At(c, "write")
    /\ \/ hand[c].to \in Active /\ Occupied(j) /\ UNCHANGED row
       \/ /\ ~ (hand[c].to \in Active /\ Occupied(j))
          /\ SetStatus(j, hand[c].to)
    /\ Leaves(c)
    /\ UNCHANGED <<open, late, imported, calm, history>>

(* ---------------------- continue, cancel and status -------------------- *)

Resumes(c, j) ==
    /\ Goes(c, [Idle EXCEPT !.at = "resume", !.job = j])
    /\ doubled' = IF \E d \in Handlers : At(d, "resume") /\ JobOf(d) = j
                  THEN doubled \cup {j} ELSE doubled
    /\ UNCHANGED <<open, loose>>

\* Mutant: a job that asks nothing is continued as well.
ContinueAny(c, j) ==
    /\ At(c, "idle") /\ row[j].status \in Active /\ Quiet(j) /\ j \notin late
    /\ Resumes(c, j)
    /\ UNCHANGED <<row, late, imported, calm>>

(* continue reads the job, and takes what the user chose if it asks.       *)
Continue(c, j) ==
    /\ At(c, "idle") /\ row[j].status \in Active /\ Quiet(j)
    /\ \/ /\ j \in late                           \* ACQUISITION_EXPIRED
          /\ Closes(j, row[j].session)
          /\ UNCHANGED <<hand, doubled>>
       \/ j \notin late /\ row[j].status = "asking" /\ Resumes(c, j)
    /\ UNCHANGED <<row, late, imported, calm>>

(* The job is written as running, and read again for the driver.           *)
Resume(c) ==
    LET j == JobOf(c) IN
    /\ At(c, "resume")
    /\ \/ Occupied(j) /\ Leaves(c) /\ UNCHANGED row
       \/ /\ ~ Occupied(j)
          /\ SetStatus(j, "running")
          /\ Goes(c, [hand[c] EXCEPT !.at = "advance",
                                     !.session = row[j].session])
    /\ UNCHANGED <<open, late, imported, calm, history>>

(* cancel, and status of a job past its expiry: close, then write the end. *)
EndJob(c, j) ==
    /\ At(c, "idle") /\ row[j].status \in Active /\ Quiet(j)
    /\ Goes(c, [at |-> "close", job |-> j, seen |-> "absent",
                session |-> row[j].session, to |-> "ended"])
    /\ UNCHANGED <<row, open, late, imported, calm, history>>

(* ------------------------------ environment ---------------------------- *)

Lapse(j) ==
    /\ row[j].status # "absent" /\ j \notin late
    /\ late' = late \cup {j}
    /\ UNCHANGED <<row, open, imported, hand, calm, history>>

(* The browser service ends a session that was idle for too long.          *)
SessionEnds(j) ==
    /\ j \in open
    /\ open' = open \ {j}
    /\ UNCHANGED <<row, late, imported, hand, calm, history>>

(* The process that serves the request is stopped. Nobody knows of a       *)
(* session that was acquired and not yet attached.                         *)
Die(c) ==
    /\ ~ At(c, "idle")
    /\ Leaves(c)
    /\ loose' = IF At(c, "attach") THEN loose \cup {JobOf(c)} ELSE loose
    /\ UNCHANGED <<row, open, late, imported, calm, doubled>>

Work(c) ==
    \/ Insert(c) \/ Acquire(c) \/ Attach(c) \/ Login(c) \/ Advance(c)
    \/ Apply(c) \/ Import(c) \/ Close(c) \/ Write(c) \/ Resume(c)

Next ==
    \/ \E c \in Handlers : Work(c) \/ Die(c)
    \/ \E c \in Handlers, j \in Jobs :
         Expire(c, j) \/ Continue(c, j) \/ EndJob(c, j)
    \/ \E j \in Jobs : Lapse(j) \/ SessionEnds(j)

Spec == Init /\ [][Next]_vars

(* ------------------------------ properties ----------------------------- *)

(* One administrator at a time: whatever the requests, deaths and expiries *)
(* do, and although update puts a job back in the slot from a stale read,  *)
(* no two jobs are active.                                                 *)
OneActive ==
    \A j, k \in Jobs :
      row[j].status \in Active /\ row[k].status \in Active => j = k

(* A job that shows the summary of the credentials has stored them, also   *)
(* when two requests finish the same job from their own snapshots.         *)
CompletedIsStored ==
    \A j \in Jobs : row[j].status = "completed" => j \in imported

(* When no request acts on a snapshot another one has made stale, a job    *)
(* that is over stays as it ended, and nothing is stored on its behalf     *)
(* after it was cancelled or expired, however late the browser answers.    *)
EndIsFinal ==
    [][calm => \A j \in Jobs : row[j].status \in Over =>
                 /\ row'[j].status = row[j].status
                 /\ j \in imported' => j \in imported]_vars

(* "refuses transitions after a terminal result": a job that is over never *)
(* changes its status again. The state machine refuses it, but the status  *)
(* it is given is that of a snapshot, so that the rows do not keep it (see *)
(* MCCredentialAcquisition_reactivation.cfg).                              *)
OverStaysOver ==
    [][\A j \in Jobs : row[j].status \in Over =>
                          row'[j].status = row[j].status]_vars

(* The status is the lock of the browser session: a second request drives  *)
(* the browser of a job only if two of them read that it asks the user     *)
(* before either wrote it as running. Neither a cancellation or an expiry  *)
(* under a driver at work, nor its late answer, nor a job put back from a  *)
(* stale read lets another one in.                                         *)
Driving(c) == hand[c].at \in {"acquire", "attach", "login", "advance"}

OneDriver ==
    \A c, d \in Handlers :
      Driving(c) /\ Driving(d) /\ JobOf(c) = JobOf(d) /\ c # d
      => JobOf(c) \in doubled

(* A job that is over and has no request left has a browser signed in to   *)
(* the account only if a close of it failed, Expire ended the job, the     *)
(* process stopped before it wrote the session down, or the session was    *)
(* attached under a request that had read the job before. A session        *)
(* acquired for a job that is over by then is closed, and so is one whose  *)
(* job is ended while it signs in, or is put back from a stale read.       *)
NoSessionLeft ==
    \A j \in Jobs :
      /\ row[j].status \in Over
      /\ \A c \in Handlers : JobOf(c) # j
      => j \notin open \/ j \in loose
=============================================================================
