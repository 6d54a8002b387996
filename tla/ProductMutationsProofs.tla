----------------------- MODULE ProductMutationsProofs -----------------------
(* What the product mutation jobs of the BFF promise for every set of      *)
(* requests, products and contents: one unfinished job per product, one    *)
(* recovery write per job, a failed job that changed nothing, and, in calm *)
(* weather, no write for a product that another unfinished job holds and   *)
(* no closed job that says of its product what is not so.                  *)
EXTENDS ProductMutations, TLAPS

---------------------------------------------------------------------------
(* The inductive invariant.                                                *)

\* A recover request that has stored its intent, and one that may have sent.
Restorer(r) ==
  /\ req[r].kind = "recover"
  /\ pc[r] \in {"stored", "send", "wait", "settle", "giveup"}

Committed(r) == req[r].kind = "recover" /\ (Restorer(r) \/ call[r] # "none")

\* A request that has read a row and will write it.
Reader(r) ==
  req[r].kind \in {"refresh", "recover"} /\ pc[r] \in {"refresh", "restore"}

\* The steps of each kind of request, and what it knows of its products.
Places(r) ==
  /\ pc[r] = "idle" <=> req[r].kind = "none"
  /\ req[r].kind = "display" =>
       pc[r] \in {"check", "insert", "send", "wait", "settle", "giveup", "done"}
  /\ req[r].kind = "update" =>
       pc[r] \in {"insert", "stored", "send", "wait", "settle", "settled",
                  "audit", "giveup", "done"}
  /\ req[r].kind = "recover" =>
       pc[r] \in {"restore", "stored", "send", "wait", "settle", "giveup",
                  "done"}
  /\ req[r].kind = "refresh" => pc[r] \in {"refresh", "done"}
  /\ req[r].kind = "update" =>
       \E p \in Products : req[r].prods = {p} /\ req[r].todo = {p}
  /\ req[r].kind = "display" /\ pc[r] \in {"check", "insert"} =>
       /\ req[r].todo \subseteq req[r].prods
       /\ \A p \in req[r].prods :
            \/ req[r].seen[p] \in Displays
            \/ pc[r] = "check" /\ p \in req[r].todo

\* What a request has written into a product, and what it knows of the answer.
Sent(r) ==
  /\ pc[r] \in {"idle", "check", "insert", "stored", "send", "refresh",
                "restore"} => call[r] = "none"
  /\ req[r].kind = "refresh" => call[r] = "none"
  /\ call[r] \in {"none", "pending", "rejected"} => left[r] = {}
  /\ left[r] \subseteq req[r].prods
  /\ req[r].kind \in {"display", "recover"} => req[r].want \in Displays
  /\ req[r].kind = "update" => req[r].want \in Contents
  /\ pc[r] = "giveup" =>
       /\ req[r].verdict \in {"failed", "recovery-required"}
       /\ req[r].verdict = "failed" => call[r] = "rejected"

\* The row a request works on, and the rows it has still to insert.
Rows(r) ==
  /\ req[r].kind = "update" /\ pc[r] \notin {"insert", "done"} =>
       req[r].job \in Jobs
  /\ req[r].kind \in {"refresh", "recover"} =>
       /\ req[r].job \in Jobs
       /\ job[req[r].job].status # "none"
  /\ req[r].kind = "recover" => req[r].prods = {req[r].job[2]}
  /\ Reader(r) =>
       /\ req[r].rev <= job[req[r].job].rev
       /\ req[r].kind = "recover" /\ req[r].rev = job[req[r].job].rev =>
            ~ job[req[r].job].recovery
  /\ Committed(r) => job[req[r].job].recovery
  /\ pc[r] \in {"idle", "check"} => \A p \in Products : job[<<r, p>>] = NoJob
  /\ pc[r] = "insert" => \A p \in req[r].todo : job[<<r, p>>] = NoJob

\* The rows of display changes remember a display state.
Remembers(j) ==
  job[j].kind = "display" =>
    job[j].original \in Displays /\ job[j].target \in Displays

\* In calm weather a row is its creator's until that one is done, and then a
\* restorer's.
Held(r) ==
  /\ req[r].kind \in {"refresh", "recover"} => pc[req[r].job[1]] = "done"
  /\ pc[r] = "insert" =>
       \A p \in req[r].prods \ req[r].todo : job[<<r, p>>].status = "submitted"
  /\ /\ req[r].kind \in {"display", "update"}
     /\ pc[r] \in {"stored", "send", "wait"}
     => \A p \in req[r].prods : job[<<r, p>>].status = "submitted"
  /\ Restorer(r) =>
       /\ job[req[r].job].status = "recovering"
       /\ \A d \in Requests \ {r} :
            Reader(d) /\ req[d].job = req[r].job =>
              req[d].rev < job[req[r].job].rev

OneRestorer ==
  \A r1, r2 \in Requests :
    Committed(r1) /\ Committed(r2) /\ req[r1].job = req[r2].job => r1 = r2

Inductive ==
  /\ TypeOK
  /\ OneOpenJob
  /\ FailedNeverApplied
  /\ OneRestorer
  /\ \A r \in Requests : Places(r) /\ Sent(r) /\ Rows(r)
  /\ \A j \in Jobs : Remembers(j)
  /\ calm => \A r \in Requests : Held(r)

LEMMA InitHolds == Init => Inductive
<1> SUFFICES ASSUME Init PROVE Inductive
  OBVIOUS
<1>1. /\ \A j \in Jobs : job[j] = NoJob
      /\ \A r \in Requests : /\ pc[r] = "idle" /\ req[r] = NoRequest
                             /\ call[r] = "none" /\ left[r] = {}
  BY DEF Init
<1>2. NoJob \in JobRows /\ NoJob.status = "none" /\ NoJob.kind = "none"
  BY DEF NoJob, JobRows
<1>3. /\ NoRequest \in HandlerLocals /\ NoRequest.kind = "none"
      /\ NoRequest.prods = {} /\ NoRequest.todo = {}
  BY DEF NoRequest, HandlerLocals, Kinds
<1>4. TypeOK
  <2>1. job \in [Jobs -> JobRows] /\ req \in [Requests -> HandlerLocals]
    BY <1>2, <1>3 DEF Init
  <2> QED
    BY <2>1 DEF Init, TypeOK, Steps, Calls
<1>5. OneOpenJob /\ FailedNeverApplied
  BY <1>1, <1>2 DEF OneOpenJob, FailedNeverApplied, Open, BlockingStatuses,
                    Jobs
<1>6. \A r \in Requests : Places(r) /\ Sent(r)
  BY <1>1, <1>3 DEF Places, Sent
<1>7. \A r \in Requests : Rows(r) /\ Held(r) /\ ~ Committed(r)
  BY <1>1, <1>3 DEF Rows, Held, Committed, Reader, Restorer, Jobs
<1>8. \A j \in Jobs : Remembers(j)
  BY <1>1, <1>2 DEF Remembers
<1> QED
  BY <1>4, <1>5, <1>6, <1>7, <1>8 DEF Inductive, OneRestorer

---------------------------------------------------------------------------
(* The kinds of steps a request takes.                                     *)

\* Only request r moves, and what it has done stays done.
Advances(r) ==
  /\ pc' \in [Requests -> Steps] /\ req' \in [Requests -> HandlerLocals]
  /\ call' \in [Requests -> Calls] /\ left' \in [Requests -> SUBSET Products]
  /\ \A d \in Requests \ {r} :
       /\ pc'[d] = pc[d] /\ req'[d] = req[d]
       /\ call'[d] = call[d] /\ left'[d] = left[d]
  /\ pc[r] = "done" => pc'[r] = "done"
  /\ call[r] = "rejected" => call'[r] = "rejected"
  /\ Places(r)' /\ Sent(r)'
  /\ UNCHANGED calm

Scene == /\ latest' \in [Products -> Requests \cup {Nil}]
         /\ shelf' \in [Products -> Displays]
         /\ content' \in [Products -> Contents]
         /\ review' \in SUBSET Products

\* The rows after a step: a stored row keeps what it says of the write and goes
\* forward; new rows are request r's.
Forward(r) ==
  /\ job' \in [Jobs -> JobRows]
  /\ \A j \in Jobs :
       /\ job[j].status # "none" =>
            /\ job'[j].status # "none"
            /\ job[j].rev <= job'[j].rev
            /\ job[j].rev = job'[j].rev => job'[j].recovery = job[j].recovery
            /\ job[j].recovery => job'[j].recovery
       /\ job[j] = NoJob /\ j[1] # r => job'[j] = NoJob

LEMMA OthersKeep ==
  ASSUME Inductive, NEW r \in Requests, Advances(r), Forward(r),
         NEW d \in Requests \ {r}
  PROVE  /\ Places(d)' /\ Sent(d)' /\ Rows(d)'
         /\ Reader(d)' <=> Reader(d)
         /\ Restorer(d)' <=> Restorer(d)
         /\ Committed(d)' <=> Committed(d)
<1>1. /\ pc'[d] = pc[d] /\ req'[d] = req[d]
      /\ call'[d] = call[d] /\ left'[d] = left[d]
      /\ Places(d) /\ Sent(d) /\ Rows(d)
  BY DEF Advances, Inductive
<1>2. Places(d)'
  BY <1>1 DEF Places
<1>3. Sent(d)'
  BY <1>1 DEF Sent
<1>4. /\ Reader(d)' <=> Reader(d)
      /\ Restorer(d)' <=> Restorer(d)
      /\ Committed(d)' <=> Committed(d)
  BY <1>1 DEF Reader, Restorer, Committed
<1>5. \A p \in Products : job[<<d, p>>] = NoJob => job'[<<d, p>>] = NoJob
  BY DEF Forward, Jobs
<1>6. req[d] \in HandlerLocals
  BY DEF Inductive, TypeOK
<1>7. req[d].todo \in SUBSET Products /\ req[d].rev \in Nat
  BY <1>6 DEF HandlerLocals
<1>8. req[d].job \in Jobs /\ job[req[d].job].status # "none" =>
        /\ job'[req[d].job].status # "none"
        /\ job[req[d].job].rev <= job'[req[d].job].rev
        /\ job[req[d].job].rev = job'[req[d].job].rev =>
             job'[req[d].job].recovery = job[req[d].job].recovery
        /\ job[req[d].job].recovery => job'[req[d].job].recovery
        /\ job[req[d].job].rev \in Nat /\ job'[req[d].job].rev \in Nat
  BY DEF Forward, Inductive, TypeOK, JobRows
<1>9. Rows(d)'
  <2>1. Reader(d)' =>
          /\ req[d].rev <= job'[req[d].job].rev
          /\ req[d].kind = "recover" /\ req[d].rev = job'[req[d].job].rev =>
               ~ job'[req[d].job].recovery
    BY <1>1, <1>4, <1>7, <1>8 DEF Rows, Reader
  <2>2. Committed(d)' => job'[req[d].job].recovery
    BY <1>1, <1>4, <1>8 DEF Rows, Committed
  <2> QED
    BY <1>1, <1>5, <1>7, <1>8, <2>1, <2>2 DEF Rows
<1> QED
  BY <1>2, <1>3, <1>4, <1>9

---------------------------------------------------------------------------
(* What a step of request r must do for the invariant to survive it.       *)

\* What happens to the rows of others: no status is lost, nothing is called
\* failed without a refusal, and in calm weather a row that somebody holds is
\* left alone.
Respects(r) ==
  \A j \in Jobs :
    /\ Remembers(j)'
    /\ job'[j].status = "failed" =>
         job[j].status = "failed" \/ (j[1] = r /\ call'[r] = "rejected")
    /\ calm =>
         \/ job'[j].status = job[j].status /\ job'[j].rev = job[j].rev
         \/ /\ j[1] = r \/ pc[j[1]] = "done"
            /\ \A d \in Requests \ {r} : Restorer(d) => req[d].job # j

\* What request r itself may become: a restorer nobody else is, and a reader
\* of a row no restorer holds.
Behaves(r) ==
  /\ Rows(r)'
  /\ calm => Held(r)'
  /\ Committed(r)' => \A d \in Requests \ {r} :
       Committed(d) => req[d].job # req'[r].job
  /\ calm /\ Reader(r)' => \A d \in Requests \ {r} :
       Restorer(d) /\ req[d].job = req'[r].job =>
         req'[r].rev < job'[req'[r].job].rev

Effect(r) ==
  Advances(r) /\ Scene /\ Forward(r) /\ OneOpenJob' /\ Respects(r) /\ Behaves(r)

LEMMA OthersHold ==
  ASSUME Inductive, NEW r \in Requests, Effect(r), calm,
         NEW d \in Requests \ {r}
  PROVE  Held(d)'
<1>1. /\ pc'[d] = pc[d] /\ req'[d] = req[d] /\ req[d] \in HandlerLocals
      /\ Rows(d) /\ Held(d)
  BY DEF Effect, Advances, Inductive, TypeOK
<1>2. req[d].prods \in SUBSET Products
  BY <1>1 DEF HandlerLocals
<1>3. \A e \in Requests : pc[e] = "done" => pc'[e] = "done"
  BY DEF Effect, Advances
<1>4. /\ Restorer(d)' <=> Restorer(d)
      /\ \A e \in Requests \ {r} : /\ Reader(e)' <=> Reader(e)
                                   /\ req'[e] = req[e]
  BY OthersKeep DEF Effect, Advances
<1>5. req[d].kind \in {"refresh", "recover"} =>
        /\ req[d].job \in Jobs
        /\ pc'[req[d].job[1]] = "done"
  BY <1>1, <1>3 DEF Rows, Held, Jobs
<1>6. \A p \in Products : pc[d] # "done" =>
        job'[<<d, p>>].status = job[<<d, p>>].status
  BY DEF Effect, Respects, Jobs
<1>7. Restorer(d) =>
        /\ req[d].kind = "recover"
        /\ job'[req[d].job].status = "recovering"
        /\ job'[req[d].job].rev = job[req[d].job].rev
  BY <1>1, <1>5 DEF Effect, Respects, Held, Restorer
<1>8. Restorer(d) => \A e \in Requests \ {d} :
        Reader(e)' /\ req'[e].job = req[d].job =>
          req'[e].rev < job'[req[d].job].rev
  <2> SUFFICES ASSUME Restorer(d), NEW e \in Requests \ {d},
                      Reader(e)', req'[e].job = req[d].job
               PROVE  req'[e].rev < job'[req[d].job].rev
    OBVIOUS
  <2>1. CASE e = r
    BY <2>1 DEF Effect, Behaves
  <2>2. CASE e # r
    BY <2>2, <1>1, <1>4, <1>7 DEF Held
  <2> QED
    BY <2>1, <2>2
<1> QED
  BY <1>1, <1>2, <1>4, <1>5, <1>6, <1>7, <1>8 DEF Held

LEMMA StepKeeps ==
  ASSUME Inductive, NEW r \in Requests, Effect(r)
  PROVE  Inductive'
<1>1. TypeOK'
  BY DEF Effect, Advances, Scene, Forward, Inductive, TypeOK
<1>2. \A d \in Requests : Places(d)' /\ Sent(d)' /\ Rows(d)'
  BY OthersKeep DEF Effect, Advances, Behaves
<1>3. FailedNeverApplied'
  <2> SUFFICES ASSUME NEW d \in Requests, NEW p \in Products,
                      job'[<<d, p>>].status = "failed"
               PROVE  call'[d] = "rejected" /\ left'[d] = {}
    BY DEF FailedNeverApplied
  <2>1. call'[d] = "rejected"
    <3>1. \/ job[<<d, p>>].status = "failed"
          \/ d = r /\ call'[r] = "rejected"
      BY DEF Effect, Respects, Jobs
    <3>2. call[d] = "rejected" => call'[d] = "rejected"
      BY DEF Effect, Advances
    <3> QED
      BY <3>1, <3>2 DEF Inductive, FailedNeverApplied
  <2> QED
    BY <2>1, <1>2 DEF Sent
<1>4. OneRestorer'
  <2> SUFFICES ASSUME NEW d \in Requests, NEW e \in Requests,
                      Committed(d)', Committed(e)', req'[d].job = req'[e].job
               PROVE  d = e
    BY DEF OneRestorer
  <2>1. \A x \in Requests \ {r} :
          /\ Committed(x)' <=> Committed(x)
          /\ req'[x] = req[x]
    BY OthersKeep DEF Effect, Advances
  <2>2. CASE d # r /\ e # r
    BY <2>1, <2>2 DEF Inductive, OneRestorer
  <2>3. CASE d = r /\ e # r
    BY <2>1, <2>3 DEF Effect, Behaves
  <2>4. CASE d # r /\ e = r
    BY <2>1, <2>4 DEF Effect, Behaves
  <2> QED
    BY <2>2, <2>3, <2>4
<1>5. \A j \in Jobs : Remembers(j)'
  BY DEF Effect, Respects
<1>6. calm' => \A d \in Requests : Held(d)'
  BY OthersHold DEF Effect, Advances, Behaves
<1> QED
  BY <1>1, <1>2, <1>3, <1>4, <1>5, <1>6 DEF Inductive, Effect

---------------------------------------------------------------------------
(* The three things a step does to the job table: nothing, a move of one   *)
(* row, a new row.                                                         *)

LEMMA StillTable ==
  ASSUME Inductive, NEW r \in Requests, UNCHANGED job
  PROVE  Forward(r) /\ OneOpenJob' /\ Respects(r)
<1>1. job' = job /\ job \in [Jobs -> JobRows]
  BY DEF Inductive, TypeOK
<1>2. Forward(r)
  BY <1>1 DEF Forward, JobRows
<1>3. OneOpenJob'
  BY <1>1 DEF Inductive, OneOpenJob, Open
<1>4. Respects(r)
  BY <1>1 DEF Respects, Inductive, Remembers
<1> QED
  BY <1>2, <1>3, <1>4

\* Request r moves row j to status s.
Turns(r, j, s) ==
  /\ j \in Jobs /\ Open(j) /\ s \in Statuses
  /\ job' \in [Jobs -> JobRows]
  /\ \A k \in Jobs \ {j} : job'[k] = job[k]
  /\ job'[j].status = s /\ job'[j].rev = job[j].rev + 1
  /\ job'[j].kind = job[j].kind
  /\ job'[j].target = job[j].target /\ job'[j].original = job[j].original
  /\ job[j].recovery => job'[j].recovery
  /\ s = "failed" => j[1] = r /\ call'[r] = "rejected"
  /\ calm => j[1] = r \/ pc[j[1]] = "done"
  /\ calm => \A d \in Requests \ {r} : Restorer(d) => req[d].job # j

LEMMA TurnedTable ==
  ASSUME Inductive, NEW r \in Requests, NEW j, NEW s, Turns(r, j, s)
  PROVE  Forward(r) /\ OneOpenJob' /\ Respects(r)
<1>1. /\ j \in Jobs /\ Open(j) /\ s \in Statuses
      /\ job \in [Jobs -> JobRows] /\ job' \in [Jobs -> JobRows]
      /\ \A k \in Jobs \ {j} : job'[k] = job[k]
      /\ job'[j].status = s /\ job'[j].rev = job[j].rev + 1
      /\ job[j].recovery => job'[j].recovery
  BY DEF Turns, Inductive, TypeOK
<1>2. /\ \A k \in Jobs : job[k].rev \in Nat
      /\ s # "none" /\ job[j].status # "none"
  BY <1>1 DEF JobRows, Statuses, BlockingStatuses, TerminalStatuses, Open
<1>3. Forward(r)
  <2>1. NoJob.status = "none"
    BY DEF NoJob
  <2>2. job[j].rev <= job[j].rev + 1 /\ job[j].rev # job[j].rev + 1
    BY <1>1, <1>2
  <2>3. \A k \in Jobs : job[k].rev <= job[k].rev
    BY <1>2
  <2> QED
    BY <1>1, <1>2, <2>1, <2>2, <2>3 DEF Forward
<1>4. OneOpenJob'
  <2>1. \A k \in Jobs : Open(k)' => Open(k)
    BY <1>1 DEF Open
  <2> QED
    BY <2>1 DEF Inductive, OneOpenJob, Jobs
<1>5. Respects(r)
  <2>1. \A k \in Jobs : Remembers(k)'
    BY <1>1 DEF Turns, Inductive, Remembers
  <2>2. \A k \in Jobs \ {j} : job'[k] = job[k]
    BY <1>1
  <2> QED
    BY <1>1, <2>1, <2>2 DEF Respects, Turns
<1> QED
  BY <1>3, <1>4, <1>5

LEMMA InsertedTable ==
  ASSUME Inductive, NEW r \in Requests, NEW p \in Products,
         NEW kind \in {"display", "update"}, NEW target \in Values,
         NEW original \in Displays \cup {"none"},
         kind = "display" => target \in Displays /\ original \in Displays,
         job[<<r, p>>] = NoJob, Insert(r, p, kind, target, original)
  PROVE  /\ Forward(r) /\ OneOpenJob' /\ Respects(r)
         /\ \A k \in Jobs \ {<<r, p>>} : job'[k] = job[k]
         /\ job'[<<r, p>>].status = "submitted"
         /\ latest' \in [Products -> Requests \cup {Nil}]
<1> DEFINE row == [status |-> "submitted", kind |-> kind, rev |-> 1,
                   target |-> target, original |-> original,
                   recovery |-> FALSE, aged |-> FALSE]
<1>1. /\ job' = [job EXCEPT ![<<r, p>>] = row]
      /\ job \in [Jobs -> JobRows] /\ <<r, p>> \in Jobs
      /\ latest' = [latest EXCEPT ![p] = r] /\ Unblocked(p)
  BY DEF Insert, Inductive, TypeOK, Jobs
<1>2. row \in JobRows
  BY DEF JobRows, Statuses, BlockingStatuses
<1>3. row.status = "submitted" /\ row.kind = kind /\ row.target = target
      /\ row.original = original
  OBVIOUS
<1>4. NoJob.status = "none"
  BY DEF NoJob
<1> HIDE DEF row
<1>5. /\ job' \in [Jobs -> JobRows]
      /\ \A k \in Jobs \ {<<r, p>>} : job'[k] = job[k]
      /\ job'[<<r, p>>] = row
  BY <1>1, <1>2
<1>6. \A k \in Jobs : job[k].rev <= job[k].rev
  BY <1>1 DEF JobRows
<1>7. Forward(r)
  <2>1. \A k \in Jobs : k[1] # r => k # <<r, p>>
    OBVIOUS
  <2>2. \A k \in Jobs : job[k].status # "none" => k # <<r, p>>
    BY <1>4
  <2> QED
    BY <1>5, <1>6, <2>1, <2>2 DEF Forward
<1>8. OneOpenJob'
  <2>1. \A d \in Requests, q \in Products :
          Open(<<d, q>>)' => Open(<<d, q>>) \/ (d = r /\ q = p)
    BY <1>5 DEF Open, Jobs
  <2>2. \A d \in Requests : ~ Open(<<d, p>>)
    BY <1>1 DEF Unblocked
  <2> QED
    BY <2>1, <2>2 DEF Inductive, OneOpenJob
<1>9. Respects(r)
  <2>1. \A k \in Jobs : Remembers(k)'
    BY <1>3, <1>5 DEF Inductive, Remembers
  <2>2. \A d \in Requests : Restorer(d) => req[d].job # <<r, p>>
    BY <1>4 DEF Inductive, Rows, Restorer
  <2>3. <<r, p>>[1] = r
    OBVIOUS
  <2> QED
    BY <1>3, <1>5, <2>1, <2>2, <2>3 DEF Respects
<1>10. latest' \in [Products -> Requests \cup {Nil}]
  BY <1>1 DEF Inductive, TypeOK
<1> QED
  BY <1>3, <1>5, <1>7, <1>8, <1>9, <1>10

---------------------------------------------------------------------------
(* The locals after a step.                                                *)

\* Request r goes to step s with the locals q; nobody else moves.
Takes(r, s, q) ==
  /\ pc' \in [Requests -> Steps] /\ req' \in [Requests -> HandlerLocals]
  /\ \A d \in Requests \ {r} : pc'[d] = pc[d] /\ req'[d] = req[d]
  /\ pc[r] # "done" /\ pc'[r] = s /\ req'[r] = q
  /\ UNCHANGED calm

LEMMA TakesFrom ==
  ASSUME Inductive, NEW r \in Requests, NEW s \in Steps,
         NEW q \in HandlerLocals, pc[r] # "done",
         pc' = [pc EXCEPT ![r] = s], req' = [req EXCEPT ![r] = q],
         UNCHANGED calm
  PROVE  Takes(r, s, q)
BY DEF Inductive, TypeOK, Takes

LEMMA TakesOn ==
  ASSUME Inductive, NEW r \in Requests, NEW s \in Steps, pc[r] # "done",
         pc' = [pc EXCEPT ![r] = s], UNCHANGED <<req, calm>>
  PROVE  Takes(r, s, req[r])
BY DEF Inductive, TypeOK, Takes

\* The scene and the answers stay as they are.
Quiet == UNCHANGED platform

LEMMA Advanced ==
  ASSUME Inductive, NEW r \in Requests, NEW s, NEW q, Takes(r, s, q), Quiet,
         Places(r)', Sent(r)'
  PROVE  Advances(r)
BY DEF Takes, Quiet, platform, Inductive, TypeOK, Advances

LEMMA SceneStays ==
  ASSUME Inductive, Quiet, UNCHANGED latest
  PROVE  Scene
BY DEF Inductive, TypeOK, Quiet, platform, Scene

\* A step that leaves the locals alone.
LEMMA LocalsStay ==
  ASSUME Inductive, NEW r \in Requests, Advances(r), Forward(r),
         pc'[r] = pc[r], req'[r] = req[r], call[r] # "none" \/ call' = call,
         \A j \in Jobs : /\ job'[j].status = job[j].status
                         /\ job'[j].rev = job[j].rev
                         /\ job[j] = NoJob => job'[j] = NoJob
  PROVE  Behaves(r)
<1>1. /\ Rows(r) /\ Places(r) /\ req[r] \in HandlerLocals
      /\ \A p \in Products : job[<<r, p>>] = NoJob => job'[<<r, p>>] = NoJob
  BY DEF Inductive, TypeOK, Jobs
<1>2. req[r].todo \in SUBSET Products /\ req[r].prods \in SUBSET Products
  BY <1>1 DEF HandlerLocals
<1>3. /\ Reader(r)' <=> Reader(r)
      /\ Restorer(r)' <=> Restorer(r)
      /\ Committed(r)' => Committed(r)
      /\ \A d \in Requests \ {r} : /\ Reader(d)' <=> Reader(d)
                                   /\ req'[d] = req[d]
  BY OthersKeep DEF Reader, Restorer, Committed, Advances
<1>4. req[r].job \in Jobs /\ job[req[r].job].status # "none" =>
        /\ job'[req[r].job].status = job[req[r].job].status
        /\ job'[req[r].job].rev = job[req[r].job].rev
        /\ job'[req[r].job].recovery = job[req[r].job].recovery
  BY DEF Forward
<1>5. Rows(r)'
  <2>1. Reader(r)' =>
          /\ req[r].rev <= job'[req[r].job].rev
          /\ req[r].kind = "recover" /\ req[r].rev = job'[req[r].job].rev =>
               ~ job'[req[r].job].recovery
    BY <1>1, <1>3, <1>4 DEF Rows, Reader
  <2>2. Committed(r)' => job'[req[r].job].recovery
    BY <1>1, <1>3, <1>4 DEF Rows, Committed
  <2> QED
    BY <1>1, <1>2, <1>4, <2>1, <2>2 DEF Rows
<1>6. ASSUME calm PROVE Held(r)'
  <2>1. Held(r)
    BY <1>6 DEF Inductive
  <2>2. req[r].kind \in {"refresh", "recover"} => pc'[req[r].job[1]] = "done"
    BY <2>1, <1>1 DEF Rows, Held, Jobs, Advances
  <2>3. \A p \in Products : job'[<<r, p>>].status = job[<<r, p>>].status
    BY DEF Jobs
  <2>4. Restorer(r) => req[r].kind = "recover"
    BY DEF Restorer
  <2>5. Restorer(r)' =>
          /\ job'[req[r].job].status = "recovering"
          /\ \A d \in Requests \ {r} :
               Reader(d)' /\ req'[d].job = req[r].job =>
                 req'[d].rev < job'[req[r].job].rev
    BY <2>1, <2>4, <1>1, <1>3, <1>4 DEF Held, Rows
  <2> QED
    BY <2>1, <2>2, <2>3, <2>5, <1>2 DEF Held
<1>7. Committed(r)' => \A d \in Requests \ {r} :
        Committed(d) => req[d].job # req'[r].job
  BY <1>3 DEF Inductive, OneRestorer
<1>8. ASSUME calm, Reader(r)', NEW d \in Requests \ {r},
             Restorer(d), req[d].job = req'[r].job
      PROVE  req'[r].rev < job'[req'[r].job].rev
  <2>1. Held(d) /\ Rows(d) /\ req[d].kind = "recover"
    BY <1>8 DEF Inductive, Restorer
  <2>2. Reader(r) /\ req[r].job = req[d].job /\ r \in Requests \ {d}
    BY <1>3, <1>8
  <2>3. req[r].rev < job[req[r].job].rev
    BY <2>1, <2>2, <1>8 DEF Held
  <2> QED
    BY <2>1, <2>2, <2>3, <1>4 DEF Rows
<1> QED
  BY <1>5, <1>6, <1>7, <1>8 DEF Behaves

\* A step on the way from the sending of a write to the end of a request.
GoesOn(r, s, q) ==
  /\ Takes(r, s, q)
  /\ q.kind = req[r].kind /\ q.job = req[r].job /\ q.prods = req[r].prods
  /\ s \in {"send", "wait", "settle", "settled", "audit", "giveup", "done"}
  /\ q.kind = "update" /\ pc[r] = "insert" => s = "done"
  /\ Committed(r)' => Committed(r)
  /\ Restorer(r)' => Restorer(r) /\ UNCHANGED job
  /\ s = "send" => pc[r] = "stored" /\ UNCHANGED job
  /\ s = "wait" => pc[r] = "send" /\ UNCHANGED job

LEMMA OnTheWay ==
  ASSUME Inductive, NEW r \in Requests, NEW s, NEW q, GoesOn(r, s, q),
         Advances(r), Scene, Forward(r), OneOpenJob', Respects(r)
  PROVE  Effect(r)
<1>1. /\ Rows(r) /\ Places(r) /\ Places(r)'
      /\ req[r] \in HandlerLocals /\ q \in HandlerLocals
      /\ pc'[r] = s /\ req'[r] = q
  BY DEF GoesOn, Takes, Advances, Inductive, TypeOK
<1>2. q.prods \in SUBSET Products
  BY <1>1 DEF HandlerLocals
<1>3. ~ Reader(r)' /\ s \notin {"idle", "check", "insert", "stored"}
  BY <1>1 DEF Reader, GoesOn
<1>4. /\ Committed(r)' => Committed(r)
      /\ \A d \in Requests \ {r} : /\ Reader(d)' <=> Reader(d)
                                   /\ req'[d] = req[d]
  BY OthersKeep DEF GoesOn, Advances
<1>5. Committed(r) => /\ req[r].kind = "recover"
                      /\ job'[req[r].job].recovery
  <2>1. Committed(r) => /\ req[r].kind = "recover" /\ req[r].job \in Jobs
                        /\ job[req[r].job].status # "none"
                        /\ job[req[r].job].recovery
    BY <1>1 DEF Rows, Committed
  <2> QED
    BY <2>1 DEF Forward
<1>6. Rows(r)'
  <2>1. q.kind \in {"refresh", "recover"} =>
          q.job \in Jobs /\ job'[q.job].status # "none"
    BY <1>1 DEF Rows, GoesOn, Forward
  <2>2. q.kind = "update" /\ s # "done" => q.job \in Jobs
    BY <1>1 DEF Rows, GoesOn, Takes
  <2>3. q.kind = "recover" => q.prods = {q.job[2]}
    BY <1>1 DEF Rows, GoesOn
  <2>4. Committed(r)' => job'[q.job].recovery
    BY <1>4, <1>5 DEF GoesOn
  <2> QED
    BY <1>1, <1>3, <2>1, <2>2, <2>3, <2>4 DEF Rows
<1>7. ASSUME calm PROVE Held(r)'
  <2>1. Held(r)
    BY <1>7 DEF Inductive
  <2>2. q.kind \in {"refresh", "recover"} => pc'[q.job[1]] = "done"
    BY <2>1, <1>1 DEF Rows, Held, Jobs, Advances, GoesOn
  <2>3. q.kind \in {"display", "update"} /\ s \in {"send", "wait"} =>
          \A p \in q.prods : job'[<<r, p>>].status = "submitted"
    BY <2>1, <1>1, <1>2 DEF Held, GoesOn
  <2>4. Restorer(r)' =>
          /\ job'[q.job].status = "recovering"
          /\ \A d \in Requests \ {r} :
               Reader(d)' /\ req'[d].job = q.job =>
                 req'[d].rev < job'[q.job].rev
    BY <2>1, <1>4 DEF Held, GoesOn
  <2> QED
    BY <1>1, <1>3, <2>2, <2>3, <2>4 DEF Held
<1>8. Committed(r)' => \A d \in Requests \ {r} :
        Committed(d) => req[d].job # req'[r].job
  BY <1>1, <1>4 DEF Inductive, OneRestorer, GoesOn
<1> QED
  BY <1>3, <1>6, <1>7, <1>8 DEF Effect, Behaves

---------------------------------------------------------------------------
(* The platform and the clock.                                             *)

LEMMA PlatformTakeKeeps ==
  ASSUME Inductive, NEW r \in Requests, NEW ps \in SUBSET Products,
         PlatformTake(r, ps), UNCHANGED calm
  PROVE  Inductive'
<1> DEFINE answer == IF ps = req[r].prods THEN "accepted" ELSE "partial"
<1>1. /\ answer \in {"accepted", "partial"} /\ call[r] = "pending"
      /\ ps \subseteq req[r].prods
      /\ call' = [call EXCEPT ![r] = answer]
      /\ left' = [left EXCEPT ![r] = ps]
      /\ UNCHANGED <<job, latest, pc, req, shelf, content, review, calm>>
  BY DEF PlatformTake, handler
<1> HIDE DEF answer
<1>2. /\ call' \in [Requests -> Calls]
      /\ left' \in [Requests -> SUBSET Products]
      /\ call'[r] = answer
      /\ \A d \in Requests \ {r} : call'[d] = call[d] /\ left'[d] = left[d]
  BY <1>1 DEF Inductive, TypeOK, Calls
<1>3. Places(r)' /\ Sent(r)'
  BY <1>1, <1>2 DEF Inductive, Places, Sent
<1>4. Advances(r) /\ Scene
  BY <1>1, <1>2, <1>3 DEF Inductive, TypeOK, Advances, Scene
<1>5. Forward(r) /\ OneOpenJob' /\ Respects(r)
  BY <1>1, StillTable
<1>6. Behaves(r)
  BY <1>1, <1>4, <1>5, LocalsStay
<1> QED
  BY <1>4, <1>5, <1>6, StepKeeps DEF Effect

LEMMA PlatformRejectKeeps ==
  ASSUME Inductive, NEW r \in Requests, PlatformReject(r), UNCHANGED calm
  PROVE  Inductive'
<1>1. /\ call[r] = "pending" /\ call' = [call EXCEPT ![r] = "rejected"]
      /\ UNCHANGED <<job, latest, pc, req, left, shelf, content, review, calm>>
  BY DEF PlatformReject, handler
<1>2. /\ call' \in [Requests -> Calls] /\ call'[r] = "rejected"
      /\ \A d \in Requests \ {r} : call'[d] = call[d]
  BY <1>1 DEF Inductive, TypeOK, Calls
<1>3. Places(r)' /\ Sent(r)'
  BY <1>1, <1>2 DEF Inductive, Places, Sent
<1>4. Advances(r) /\ Scene
  BY <1>1, <1>2, <1>3 DEF Inductive, TypeOK, Advances, Scene
<1>5. Forward(r) /\ OneOpenJob' /\ Respects(r)
  BY <1>1, StillTable
<1>6. Behaves(r)
  BY <1>1, <1>4, <1>5, LocalsStay
<1> QED
  BY <1>4, <1>5, <1>6, StepKeeps DEF Effect

LEMMA PlatformApplyKeeps ==
  ASSUME Inductive, NEW r \in Requests, NEW p \in Products,
         PlatformApply(r, p), UNCHANGED calm
  PROVE  Inductive'
<1>1. /\ p \in left[r] /\ left' = [left EXCEPT ![r] = @ \ {p}]
      /\ UNCHANGED <<job, latest, pc, req, call, calm>>
  BY DEF PlatformApply, handler
<1>2. /\ left' \in [Requests -> SUBSET Products]
      /\ left'[r] \subseteq left[r]
      /\ \A d \in Requests \ {r} : left'[d] = left[d]
  BY <1>1 DEF Inductive, TypeOK
<1>3. /\ Sent(r) /\ Places(r) /\ call[r] \in Calls
      /\ req[r].kind \in Kinds /\ pc[r] \in Steps
  BY DEF Inductive, TypeOK, HandlerLocals
<1>4. Places(r)' /\ Sent(r)'
  BY <1>1, <1>2, <1>3 DEF Places, Sent
<1>5. req[r].want \in Displays \cup Contents
  <2>1. call[r] # "none"
    BY <1>1, <1>3 DEF Sent
  <2>2. req[r].kind \in {"display", "update", "recover"}
    BY <2>1, <1>3 DEF Sent, Places, Kinds
  <2> QED
    BY <2>2, <1>3 DEF Sent
<1>6. /\ shelf' \in [Products -> Displays]
      /\ content' \in [Products -> Contents]
  <2>1. CASE req[r].want \in Displays
    BY <2>1 DEF PlatformApply, Inductive, TypeOK
  <2>2. CASE req[r].want \notin Displays
    BY <2>2, <1>5 DEF PlatformApply, Inductive, TypeOK
  <2> QED
    BY <2>1, <2>2
<1>7. Scene
  BY <1>1, <1>6 DEF PlatformApply, Inductive, TypeOK, Scene
<1>8. Advances(r)
  BY <1>1, <1>2, <1>4 DEF Inductive, TypeOK, Advances
<1>9. Forward(r) /\ OneOpenJob' /\ Respects(r)
  BY <1>1, StillTable
<1>10. call[r] # "none" \/ call' = call
  BY <1>1
<1>11. Behaves(r)
  BY <1>1, <1>8, <1>9, <1>10, LocalsStay
<1> QED
  BY <1>7, <1>8, <1>9, <1>11, StepKeeps DEF Effect

\* Nothing of the invariant but the type of the scene is about the scene.
LEMMA SceneKeeps ==
  ASSUME Inductive, Scene, UNCHANGED <<job, pc, req, call, left, calm>>
  PROVE  Inductive'
<1>1. TypeOK'
  BY DEF Inductive, TypeOK, Scene
<1>2. OneOpenJob' /\ FailedNeverApplied'
  BY DEF Inductive, OneOpenJob, FailedNeverApplied, Open
<1>3. \A r \in Requests : /\ Places(r)' <=> Places(r)
                          /\ Sent(r)' <=> Sent(r)
                          /\ Rows(r)' <=> Rows(r)
                          /\ Held(r)' <=> Held(r)
                          /\ Committed(r)' <=> Committed(r)
  <2>1. \A r \in Requests : /\ Reader(r)' <=> Reader(r)
                            /\ Restorer(r)' <=> Restorer(r)
                            /\ Committed(r)' <=> Committed(r)
    BY DEF Reader, Restorer, Committed
  <2> QED
    BY <2>1 DEF Places, Sent, Rows, Held
<1>4. OneRestorer'
  BY <1>3 DEF Inductive, OneRestorer
<1>5. \A j \in Jobs : Remembers(j)'
  BY DEF Inductive, Remembers
<1> QED
  BY <1>1, <1>2, <1>3, <1>4, <1>5 DEF Inductive

LEMMA ReviewEndsKeeps ==
  ASSUME Inductive, NEW p \in Products, ReviewEnds(p), UNCHANGED calm
  PROVE  Inductive'
<1>1. Scene
  BY DEF ReviewEnds, Inductive, TypeOK, Scene
<1> QED
  BY <1>1, SceneKeeps DEF ReviewEnds, handler

LEMMA AgeKeeps ==
  ASSUME Inductive, NEW j \in Jobs, Age(j), UNCHANGED calm
  PROVE  Inductive'
<1> DEFINE r == j[1]
<1>1. /\ r \in Requests /\ Open(j)
      /\ job' = [job EXCEPT ![j].aged = TRUE]
      /\ UNCHANGED <<latest, pc, req, platform, calm>>
  BY DEF Age, Jobs, handler
<1>2. /\ job \in [Jobs -> JobRows] /\ job[j].status # "none"
      /\ \A k \in Jobs : job[k].rev <= job[k].rev
      /\ NoJob.status = "none"
  BY <1>1 DEF Inductive, TypeOK, Open, BlockingStatuses, JobRows, NoJob
<1>3. /\ job' \in [Jobs -> JobRows]
      /\ \A k \in Jobs \ {j} : job'[k] = job[k]
      /\ job'[j].status = job[j].status /\ job'[j].rev = job[j].rev
      /\ job'[j].kind = job[j].kind /\ job'[j].recovery = job[j].recovery
      /\ job'[j].target = job[j].target /\ job'[j].original = job[j].original
  BY <1>1, <1>2 DEF JobRows
<1> HIDE DEF r
<1>4. \A k \in Jobs : /\ job'[k].status = job[k].status
                      /\ job'[k].rev = job[k].rev
                      /\ job'[k].recovery = job[k].recovery
                      /\ Remembers(k)'
                      /\ job[k] = NoJob => job'[k] = NoJob
  BY <1>2, <1>3 DEF Inductive, Remembers
<1>5. Forward(r) /\ Respects(r)
  BY <1>2, <1>3, <1>4 DEF Forward, Respects
<1>6. OneOpenJob'
  BY <1>4 DEF Inductive, OneOpenJob, Open, Jobs
<1>7. Places(r)' /\ Sent(r)'
  BY <1>1 DEF Inductive, Places, Sent, platform
<1>8. Advances(r) /\ Scene
  BY <1>1, <1>7 DEF Inductive, TypeOK, Advances, Scene, platform
<1>9. pc' = pc /\ req' = req /\ call' = call
  BY <1>1 DEF platform
<1>10. Behaves(r)
  BY <1>1, <1>4, <1>5, <1>8, <1>9, LocalsStay
<1> QED
  BY <1>1, <1>5, <1>6, <1>8, <1>10, StepKeeps DEF Effect

---------------------------------------------------------------------------
(* The steps between the sending of a write and the end of a request.      *)

LEMMA QuietStep ==
  ASSUME Inductive, NEW r \in Requests, NEW s, NEW q, GoesOn(r, s, q), Quiet,
         UNCHANGED <<job, latest>>, Places(r)', Sent(r)'
  PROVE  Inductive'
<1>1. Advances(r)
  BY Advanced DEF GoesOn
<1> QED
  BY <1>1, SceneStays, StillTable, OnTheWay, StepKeeps

LEMMA DisplayInsertFailsKeeps ==
  ASSUME Inductive, NEW r \in Requests, DisplayInsertFails(r), UNCHANGED calm
  PROVE  Inductive'
<1> DEFINE q == [req[r] EXCEPT !.todo = req[r].prods,
                               !.verdict = "recovery-required"]
<1>1. /\ pc[r] \in {"insert", "send"} /\ req[r].kind = "display"
      /\ pc' = [pc EXCEPT ![r] = "giveup"] /\ req' = [req EXCEPT ![r] = q]
      /\ UNCHANGED <<job, latest>> /\ Quiet
  BY DEF DisplayInsertFails, Inductive, TypeOK, HandlerLocals, FailureStatus,
         Quiet
<1>2. /\ q \in HandlerLocals /\ q.kind = req[r].kind /\ q.job = req[r].job
      /\ q.prods = req[r].prods /\ q.want = req[r].want
      /\ q.todo = req[r].prods /\ q.verdict = "recovery-required"
  <2>1. req[r] \in HandlerLocals /\ req[r].prods \in SUBSET Products
    BY DEF Inductive, TypeOK, HandlerLocals
  <2>2. q \in HandlerLocals
    BY <2>1 DEF HandlerLocals
  <2>3. /\ q.kind = req[r].kind /\ q.job = req[r].job
        /\ q.prods = req[r].prods /\ q.want = req[r].want
        /\ q.todo = req[r].prods /\ q.verdict = "recovery-required"
    BY <2>1 DEF HandlerLocals
  <2> QED
    BY <2>2, <2>3
<1> HIDE DEF q
<1>3. Takes(r, "giveup", q)
  BY <1>1, <1>2, TakesFrom DEF Steps
<1>4. Places(r)' /\ Sent(r)'
  BY <1>1, <1>2, <1>3 DEF Inductive, Takes, Places, Sent, Quiet, platform
<1>5. GoesOn(r, "giveup", q)
  BY <1>1, <1>2, <1>3 DEF Takes, GoesOn, Committed, Restorer
<1> QED
  BY <1>1, <1>4, <1>5, QuietStep

LEMMA RereadKeeps ==
  ASSUME Inductive, NEW r \in Requests, Reread(r), UNCHANGED calm
  PROVE  Inductive'
<1> DEFINE q == [req[r] EXCEPT !.rev = job[req[r].job].rev]
           s == IF pc[r] = "stored" THEN "send" ELSE "audit"
<1>1. /\ pc[r] \in {"stored", "settled"}
      /\ pc' = [pc EXCEPT ![r] = s] /\ req' = [req EXCEPT ![r] = q]
      /\ UNCHANGED <<job, latest>> /\ Quiet
  BY DEF Reread, Inductive, TypeOK, HandlerLocals, Quiet
<1>2. /\ req[r] \in HandlerLocals /\ Places(r) /\ Sent(r) /\ Rows(r)
      /\ job \in [Jobs -> JobRows]
  BY DEF Inductive, TypeOK
<1>3. req[r].job \in Jobs /\ req[r].kind \in {"update", "recover"}
  BY <1>1, <1>2 DEF Places, Rows, HandlerLocals, Kinds
<1>4. job[req[r].job].rev \in Nat
  BY <1>2, <1>3 DEF JobRows
<1>5. /\ q \in HandlerLocals /\ q.kind = req[r].kind /\ q.job = req[r].job
      /\ q.prods = req[r].prods /\ q.want = req[r].want
      /\ q.todo = req[r].todo
  BY <1>2, <1>4 DEF HandlerLocals
<1>6. /\ s \in {"send", "audit"}
      /\ s = "send" => pc[r] = "stored"
      /\ s = "audit" => pc[r] = "settled"
  BY <1>1
<1> HIDE DEF q, s
<1>7. Takes(r, s, q)
  BY <1>1, <1>5, <1>6, TakesFrom DEF Steps
<1>8. Places(r)' /\ Sent(r)'
  BY <1>1, <1>2, <1>3, <1>5, <1>6, <1>7
     DEF Takes, Places, Sent, Quiet, platform
<1>9. GoesOn(r, s, q)
  BY <1>1, <1>2, <1>3, <1>5, <1>6, <1>7
     DEF Takes, GoesOn, Committed, Restorer, Quiet, platform, Places
<1> QED
  BY <1>1, <1>8, <1>9, QuietStep

LEMMA SendKeeps ==
  ASSUME Inductive, NEW r \in Requests, Send(r), UNCHANGED calm
  PROVE  Inductive'
<1>1. /\ pc[r] = "send" /\ pc' = [pc EXCEPT ![r] = "wait"]
      /\ call' = [call EXCEPT ![r] = "pending"]
      /\ UNCHANGED <<job, latest, req, left, shelf, content, review>>
  BY DEF Send
<1>2. /\ call' \in [Requests -> Calls] /\ call'[r] = "pending"
      /\ \A d \in Requests \ {r} : call'[d] = call[d]
  BY <1>1 DEF Inductive, TypeOK, Calls
<1>3. Takes(r, "wait", req[r])
  BY <1>1, TakesOn DEF Steps
<1>4. req[r].kind \in Kinds /\ Places(r) /\ Sent(r)
  BY DEF Inductive, TypeOK, HandlerLocals
<1>5. Places(r)' /\ Sent(r)'
  BY <1>1, <1>2, <1>3, <1>4 DEF Takes, Places, Sent
<1>6. Advances(r) /\ Scene
  <2>1. call[r] = "none"
    BY <1>1, <1>4 DEF Sent
  <2> QED
    BY <2>1, <1>1, <1>2, <1>3, <1>5
       DEF Takes, Advances, Inductive, TypeOK, Scene
<1>7. GoesOn(r, "wait", req[r])
  BY <1>1, <1>3 DEF Takes, GoesOn, Committed, Restorer
<1> QED
  BY <1>1, <1>6, <1>7, StillTable, OnTheWay, StepKeeps

LEMMA AnswerAcceptedKeeps ==
  ASSUME Inductive, NEW r \in Requests, AnswerAccepted(r), UNCHANGED calm
  PROVE  Inductive'
<1>1. /\ pc[r] = "wait" /\ pc' = [pc EXCEPT ![r] = "settle"]
      /\ UNCHANGED <<job, latest, req>> /\ Quiet
  BY DEF AnswerAccepted, Quiet
<1>2. Takes(r, "settle", req[r])
  BY <1>1, TakesOn DEF Steps
<1>3. Places(r)' /\ Sent(r)'
  BY <1>1, <1>2 DEF Inductive, Takes, Places, Sent, Quiet, platform
<1>4. GoesOn(r, "settle", req[r])
  BY <1>1, <1>2
     DEF Takes, GoesOn, Committed, Restorer, Quiet, platform
<1> QED
  BY <1>1, <1>3, <1>4, QuietStep

\* A request gives up with the verdict v.
LEMMA GivesUp ==
  ASSUME Inductive, NEW r \in Requests, pc[r] \in {"wait", "settle"},
         NEW q \in HandlerLocals, q.kind = req[r].kind, q.job = req[r].job,
         q.prods = req[r].prods, q.want = req[r].want,
         q.kind = "update" => q.todo = req[r].todo,
         q.verdict \in {"failed", "recovery-required"},
         q.verdict = "failed" => call[r] = "rejected",
         pc' = [pc EXCEPT ![r] = "giveup"], req' = [req EXCEPT ![r] = q],
         UNCHANGED <<job, latest, calm>>, Quiet
  PROVE  Inductive'
<1>1. Takes(r, "giveup", q)
  BY TakesFrom DEF Steps
<1>2. Places(r)' /\ Sent(r)'
  BY <1>1 DEF Inductive, Takes, Places, Sent, Quiet, platform
<1>3. GoesOn(r, "giveup", q)
  BY <1>1 DEF Takes, GoesOn, Committed, Restorer, Quiet, platform
<1> QED
  BY <1>2, <1>3, QuietStep

LEMMA AnswerRejectedKeeps ==
  ASSUME Inductive, NEW r \in Requests, AnswerRejected(r), UNCHANGED calm
  PROVE  Inductive'
<1> DEFINE q == [req[r] EXCEPT !.verdict = "failed"]
<1>1. /\ pc[r] = "wait" /\ call[r] = "rejected"
      /\ pc' = [pc EXCEPT ![r] = "giveup"] /\ req' = [req EXCEPT ![r] = q]
      /\ UNCHANGED <<job, latest>> /\ Quiet
  BY DEF AnswerRejected, Inductive, TypeOK, HandlerLocals, FailureStatus, Quiet
<1>2. /\ q \in HandlerLocals /\ q.kind = req[r].kind /\ q.job = req[r].job
      /\ q.prods = req[r].prods /\ q.want = req[r].want
      /\ q.todo = req[r].todo /\ q.verdict = "failed"
  <2>1. req[r] \in HandlerLocals
    BY DEF Inductive, TypeOK
  <2>2. q \in HandlerLocals
    BY <2>1 DEF HandlerLocals
  <2>3. /\ q.kind = req[r].kind /\ q.job = req[r].job
        /\ q.prods = req[r].prods /\ q.want = req[r].want
        /\ q.todo = req[r].todo /\ q.verdict = "failed"
    BY <2>1 DEF HandlerLocals
  <2> QED
    BY <2>2, <2>3
<1> HIDE DEF q
<1> QED
  BY <1>1, <1>2, GivesUp

LEMMA AnswerUnknownKeeps ==
  ASSUME Inductive, NEW r \in Requests, AnswerUnknown(r), UNCHANGED calm
  PROVE  Inductive'
<1> DEFINE q == [req[r] EXCEPT !.verdict = "recovery-required"]
<1>1. /\ pc[r] = "wait"
      /\ pc' = [pc EXCEPT ![r] = "giveup"] /\ req' = [req EXCEPT ![r] = q]
      /\ UNCHANGED <<job, latest>> /\ Quiet
  BY DEF AnswerUnknown, Inductive, TypeOK, HandlerLocals, FailureStatus, Quiet
<1>2. /\ q \in HandlerLocals /\ q.kind = req[r].kind /\ q.job = req[r].job
      /\ q.prods = req[r].prods /\ q.want = req[r].want
      /\ q.todo = req[r].todo /\ q.verdict = "recovery-required"
  <2>1. req[r] \in HandlerLocals
    BY DEF Inductive, TypeOK
  <2>2. q \in HandlerLocals
    BY <2>1 DEF HandlerLocals
  <2>3. /\ q.kind = req[r].kind /\ q.job = req[r].job
        /\ q.prods = req[r].prods /\ q.want = req[r].want
        /\ q.todo = req[r].todo /\ q.verdict = "recovery-required"
    BY <2>1 DEF HandlerLocals
  <2> QED
    BY <2>2, <2>3
<1> HIDE DEF q
<1> QED
  BY <1>1, <1>2, GivesUp

LEMMA SettleFailsKeeps ==
  ASSUME Inductive, NEW r \in Requests, SettleFails(r), UNCHANGED calm
  PROVE  Inductive'
<1> DEFINE q == [req[r] EXCEPT !.todo = req[r].prods,
                               !.verdict = "recovery-required"]
<1>1. /\ pc[r] = "settle"
      /\ pc' = [pc EXCEPT ![r] = "giveup"] /\ req' = [req EXCEPT ![r] = q]
      /\ UNCHANGED <<job, latest>> /\ Quiet
  BY DEF SettleFails, Inductive, TypeOK, HandlerLocals, FailureStatus, Quiet
<1>2. /\ q \in HandlerLocals /\ q.kind = req[r].kind /\ q.job = req[r].job
      /\ q.prods = req[r].prods /\ q.want = req[r].want
      /\ q.todo = req[r].prods /\ q.verdict = "recovery-required"
  <2>1. req[r] \in HandlerLocals /\ req[r].prods \in SUBSET Products
    BY DEF Inductive, TypeOK, HandlerLocals
  <2>2. q \in HandlerLocals
    BY <2>1 DEF HandlerLocals
  <2>3. /\ q.kind = req[r].kind /\ q.job = req[r].job
        /\ q.prods = req[r].prods /\ q.want = req[r].want
        /\ q.todo = req[r].prods /\ q.verdict = "recovery-required"
    BY <2>1 DEF HandlerLocals
  <2> QED
    BY <2>2, <2>3
<1>3. q.kind = "update" => q.todo = req[r].todo
  BY <1>2 DEF Inductive, Places
<1> HIDE DEF q
<1> QED
  BY <1>1, <1>2, <1>3, GivesUp

\* A request that is done owes nothing.
LEMMA EndsQuietly ==
  ASSUME Inductive, NEW r \in Requests, Takes(r, "done", req[r]),
         pc[r] # "idle", Quiet
  PROVE  /\ GoesOn(r, "done", req[r])
         /\ Places(r)' /\ Sent(r)' /\ Advances(r)
<1>1. Places(r)' /\ Sent(r)'
  BY DEF Inductive, Takes, Places, Sent, Quiet, platform
<1>2. GoesOn(r, "done", req[r])
  BY DEF Takes, GoesOn, Committed, Restorer, Quiet, platform
<1> QED
  BY <1>1, <1>2, Advanced

LEMMA AbortKeeps ==
  ASSUME Inductive, NEW r \in Requests, Abort(r), UNCHANGED calm
  PROVE  Inductive'
<1>1. /\ pc[r] \notin {"idle", "done"} /\ pc' = [pc EXCEPT ![r] = "done"]
      /\ UNCHANGED <<job, latest, req>> /\ Quiet
  BY DEF Abort, Quiet
<1>2. Takes(r, "done", req[r])
  BY <1>1, TakesOn DEF Steps
<1> QED
  BY <1>1, <1>2, EndsQuietly, QuietStep

---------------------------------------------------------------------------
(* The moves of a row.                                                     *)

LEMMA LegalMoves ==
  ASSUME NEW from, NEW to, MayMove(from, to)
  PROVE  from \in BlockingStatuses /\ to \in Statuses
BY DEF MayMove, Moves, BlockingStatuses, Statuses, TerminalStatuses

\* Who may touch row j: its creator, who is still there, a request that has
\* read it, or the one that restores it.
Handles(r, j, rev) ==
  \/ \E p \in Products : j = <<r, p>> /\ pc[r] # "done"
  \/ Reader(r) /\ j = req[r].job /\ rev = req[r].rev
  \/ Restorer(r) /\ j = req[r].job

LEMMA NobodyElse ==
  ASSUME Inductive, NEW r \in Requests, NEW j, NEW rev, Handles(r, j, rev),
         rev = job[j].rev, calm
  PROVE  /\ j[1] = r \/ pc[j[1]] = "done"
         /\ \A d \in Requests \ {r} : Restorer(d) => req[d].job # j
<1>1. \A d \in Requests : Held(d) /\ Rows(d)
  BY DEF Inductive
<1>2. \A d \in Requests : Reader(d) \/ Restorer(d) => pc[req[d].job[1]] = "done"
  BY <1>1 DEF Held, Reader, Restorer
<1>3. CASE \E p \in Products : j = <<r, p>> /\ pc[r] # "done"
  BY <1>2, <1>3
<1>4. CASE Reader(r) /\ j = req[r].job /\ rev = req[r].rev
  <2>1. ASSUME NEW d \in Requests \ {r}, Restorer(d), req[d].job = j
        PROVE  FALSE
    <3>1. req[r].rev < job[req[d].job].rev
      BY <1>1, <1>4, <2>1 DEF Held
    <3>2. req[d].job \in Jobs /\ job \in [Jobs -> JobRows]
      BY <1>1, <2>1 DEF Rows, Restorer, Inductive, TypeOK
    <3>3. job[req[d].job].rev \in Nat
      BY <3>2 DEF JobRows
    <3> QED
      BY <3>1, <3>3, <2>1, <1>4
  <2> QED
    BY <2>1, <1>2, <1>4
<1>5. CASE Restorer(r) /\ j = req[r].job
  <2>1. \A d \in Requests : Restorer(d) => Committed(d)
    BY DEF Restorer, Committed
  <2> QED
    BY <2>1, <1>2, <1>5 DEF Inductive, OneRestorer
<1> QED
  BY <1>3, <1>4, <1>5 DEF Handles

LEMMA Turned ==
  ASSUME Inductive, NEW r \in Requests, NEW j \in Jobs, NEW rev, NEW s,
         CanTransition(j, rev, s), Transition(j, s), Handles(r, j, rev),
         s = "failed" => j[1] = r /\ call'[r] = "rejected"
  PROVE  Turns(r, j, s)
<1>1. rev = job[j].rev /\ Open(j) /\ s \in Statuses
  BY LegalMoves DEF CanTransition, Open
<1>2. job \in [Jobs -> JobRows]
  BY DEF Inductive, TypeOK
<1>3. job' = [job EXCEPT ![j] = [job[j] EXCEPT !.status = s, !.rev = @ + 1]]
  BY <1>2 DEF Transition
<1> DEFINE row == [job[j] EXCEPT !.status = s, !.rev = @ + 1]
<1>4. /\ row \in JobRows /\ row.status = s /\ row.rev = job[j].rev + 1
      /\ row.kind = job[j].kind /\ row.target = job[j].target
      /\ row.original = job[j].original /\ row.recovery = job[j].recovery
  <2>1. job[j] \in JobRows /\ s \in Statuses \cup {"none"}
    BY <1>1, <1>2
  <2>2. job[j].rev + 1 \in Nat
    BY <2>1 DEF JobRows
  <2> QED
    BY <2>1, <2>2 DEF JobRows
<1>5. job' = [job EXCEPT ![j] = row]
  BY <1>3
<1> HIDE DEF row
<1>6. /\ job' \in [Jobs -> JobRows] /\ job'[j] = row
      /\ \A k \in Jobs \ {j} : job'[k] = job[k]
  BY <1>2, <1>4, <1>5
<1> QED
  BY <1>1, <1>4, <1>6, NobodyElse DEF Turns

\* A step on the way that moves a row.
LEMMA RowStep ==
  ASSUME Inductive, NEW r \in Requests, NEW j, NEW st, Turns(r, j, st),
         NEW s, NEW q, GoesOn(r, s, q), Quiet, UNCHANGED latest,
         Places(r)', Sent(r)'
  PROVE  Inductive'
<1>1. Advances(r)
  BY Advanced DEF GoesOn
<1> QED
  BY <1>1, SceneStays, TurnedTable, OnTheWay, StepKeeps

\* The last write of a request.
LEMMA LastWrite ==
  ASSUME Inductive, NEW r \in Requests, NEW j \in Jobs, NEW rev, NEW st,
         CanTransition(j, rev, st), Transition(j, st), Handles(r, j, rev),
         st = "failed" => j[1] = r /\ call[r] = "rejected",
         pc[r] \notin {"idle", "done"}, pc' = [pc EXCEPT ![r] = "done"],
         UNCHANGED <<req, latest, calm>>, Quiet
  PROVE  Inductive'
<1>1. Takes(r, "done", req[r])
  BY TakesOn DEF Steps
<1>2. Turns(r, j, st)
  BY Turned DEF Quiet, platform
<1> QED
  BY <1>1, <1>2, EndsQuietly, RowStep

LEMMA UpdateSettleKeeps ==
  ASSUME Inductive, NEW r \in Requests, NEW p \in Products,
         UpdateSettle(r, p), UNCHANGED calm
  PROVE  Inductive'
<1>1. /\ pc[r] = "settle" /\ req[r].kind = "update"
      /\ CanTransition(<<r, p>>, req[r].rev, "auditing")
      /\ Transition(<<r, p>>, "auditing")
      /\ pc' = [pc EXCEPT ![r] = "settled"]
      /\ UNCHANGED <<req, latest>> /\ Quiet
  BY DEF UpdateSettle, Quiet
<1>2. Takes(r, "settled", req[r])
  BY <1>1, TakesOn DEF Steps
<1>3. Places(r)' /\ Sent(r)'
  BY <1>1, <1>2 DEF Inductive, Takes, Places, Sent, Quiet, platform
<1>4. GoesOn(r, "settled", req[r])
  BY <1>1, <1>2 DEF Takes, GoesOn, Committed, Restorer, Quiet, platform
<1>5. Turns(r, <<r, p>>, "auditing")
  BY <1>1, Turned DEF Handles, Jobs
<1> QED
  BY <1>1, <1>3, <1>4, <1>5, RowStep

LEMMA UpdateAuditFailsKeeps ==
  ASSUME Inductive, NEW r \in Requests, NEW p \in Products,
         UpdateAuditFails(r, p), UNCHANGED calm
  PROVE  Inductive'
<1>1. /\ FailureStatus("unknown") = "recovery-required" /\ <<r, p>> \in Jobs
      /\ Handles(r, <<r, p>>, req[r].rev)
  BY DEF FailureStatus, Jobs, UpdateAuditFails, Handles
<1> QED
  BY <1>1, LastWrite DEF UpdateAuditFails, Quiet

LEMMA UpdateGiveUpKeeps ==
  ASSUME Inductive, NEW r \in Requests, NEW p \in Products,
         UpdateGiveUp(r, p), UNCHANGED calm
  PROVE  Inductive'
<1>1. /\ <<r, p>> \in Jobs /\ Handles(r, <<r, p>>, req[r].rev)
      /\ <<r, p>>[1] = r /\ pc[r] = "giveup"
  BY DEF Jobs, UpdateGiveUp, Handles
<1>2. req[r].verdict = "failed" => call[r] = "rejected"
  BY <1>1 DEF Inductive, Sent
<1> QED
  BY <1>1, <1>2, LastWrite DEF UpdateGiveUp, Quiet

LEMMA RefreshNeverFails ==
  ASSUME NEW j, NEW reading, MayMove(job[j].status, RefreshStatus(j, reading))
  PROVE  RefreshStatus(j, reading) # "failed"
<1>1. job[j].status # "failed"
  BY LegalMoves DEF BlockingStatuses
<1>2. DisplayFallback(j) # "failed"
  BY <1>1 DEF DisplayFallback
<1>3. \A x : UpdateFallback(j, x) # "failed"
  BY DEF UpdateFallback, StatusAfterRefreshError
<1>4. DisplayVerdict(j, reading) # "failed"
  BY <1>2 DEF DisplayVerdict
<1>5. UpdateVerdict(j, reading) # "failed"
  BY <1>3 DEF UpdateVerdict
<1> QED
  BY <1>2, <1>3, <1>4, <1>5 DEF RefreshStatus, Verdict

LEMMA RefreshWriteKeeps ==
  ASSUME Inductive, NEW r \in Requests, RefreshWrite(r), UNCHANGED calm
  PROVE  Inductive'
<1> DEFINE st == RefreshStatus(req[r].job, req[r].want)
<1>1. /\ pc[r] = "refresh" /\ CanTransition(req[r].job, req[r].rev, st)
      /\ Transition(req[r].job, st) /\ pc' = [pc EXCEPT ![r] = "done"]
      /\ UNCHANGED <<req, latest>> /\ Quiet
  BY DEF RefreshWrite, Quiet
<1>2. req[r].kind = "refresh"
  BY <1>1 DEF Inductive, Places, TypeOK, HandlerLocals, Kinds
<1>3. req[r].job \in Jobs /\ Handles(r, req[r].job, req[r].rev)
  BY <1>1, <1>2 DEF Inductive, Rows, Handles, Reader
<1>4. st # "failed"
  BY <1>1, RefreshNeverFails DEF CanTransition
<1> HIDE DEF st
<1> QED
  BY <1>1, <1>3, <1>4, LastWrite

\* A recover request has a row.
LEMMA RecoversARow ==
  ASSUME Inductive, NEW r \in Requests, req[r].kind = "recover"
  PROVE  /\ req[r].job \in Jobs /\ job[req[r].job].status # "none"
         /\ req[r].prods = {req[r].job[2]}
BY DEF Inductive, Rows

LEMMA RecoverMatchedKeeps ==
  ASSUME Inductive, NEW r \in Requests, RecoverMatched(r), UNCHANGED calm
  PROVE  Inductive'
<1>1. pc[r] = "restore" /\ req[r].kind = "recover"
  BY DEF RecoverMatched, Inductive, Places, TypeOK, HandlerLocals, Kinds
<1>2. req[r].job \in Jobs /\ Handles(r, req[r].job, req[r].rev)
  BY <1>1, RecoversARow DEF Handles, Reader
<1> QED
  BY <1>1, <1>2, LastWrite DEF RecoverMatched, Quiet

LEMMA RecoverSettleKeeps ==
  ASSUME Inductive, NEW r \in Requests, RecoverSettle(r), UNCHANGED calm
  PROVE  Inductive'
<1>1. pc[r] = "settle" /\ req[r].kind = "recover"
  BY DEF RecoverSettle
<1>2. req[r].job \in Jobs /\ Handles(r, req[r].job, req[r].rev)
  BY <1>1, RecoversARow DEF Handles, Restorer
<1> QED
  BY <1>1, <1>2, LastWrite DEF RecoverSettle, Quiet

LEMMA RecoverGiveUpKeeps ==
  ASSUME Inductive, NEW r \in Requests, RecoverGiveUp(r), UNCHANGED calm
  PROVE  Inductive'
<1>1. pc[r] = "giveup" /\ req[r].kind = "recover"
  BY DEF RecoverGiveUp
<1>2. req[r].job \in Jobs /\ Handles(r, req[r].job, req[r].rev)
  BY <1>1, RecoversARow DEF Handles, Restorer
<1> QED
  BY <1>1, <1>2, LastWrite DEF RecoverGiveUp, Quiet

---------------------------------------------------------------------------
(* The display changes of several products, one after the other.           *)

LEMMA DisplaySettleKeeps ==
  ASSUME Inductive, NEW r \in Requests, NEW p \in Products,
         DisplaySettle(r, p), UNCHANGED calm
  PROVE  Inductive'
<1> DEFINE rest == req[r].todo \ {p}
           q == [req[r] EXCEPT !.todo = rest]
           s == IF rest = {} THEN "done" ELSE "settle"
<1>1. /\ pc[r] = "settle" /\ req[r].kind = "display"
      /\ CanTransition(<<r, p>>, 1, "verifying")
      /\ Transition(<<r, p>>, "verifying")
      /\ pc' = [pc EXCEPT ![r] = s] /\ req' = [req EXCEPT ![r] = q]
      /\ UNCHANGED latest /\ Quiet
  BY DEF DisplaySettle, Inductive, TypeOK, HandlerLocals, Quiet
<1>2. /\ q \in HandlerLocals /\ q.kind = req[r].kind /\ q.job = req[r].job
      /\ q.prods = req[r].prods /\ q.want = req[r].want
      /\ s \in {"settle", "done"}
  <2>1. /\ req[r] \in HandlerLocals /\ rest \in SUBSET Products
        /\ s \in {"settle", "done"}
    BY DEF Inductive, TypeOK, HandlerLocals
  <2> HIDE DEF rest, s
  <2>2. q \in HandlerLocals
    BY <2>1 DEF HandlerLocals
  <2>3. /\ q.kind = req[r].kind /\ q.job = req[r].job
        /\ q.prods = req[r].prods /\ q.want = req[r].want
        /\ q.verdict = req[r].verdict
    BY <2>1 DEF HandlerLocals
  <2> QED
    BY <2>1, <2>2, <2>3
<1> HIDE DEF q, s
<1>3. Takes(r, s, q)
  BY <1>1, <1>2, TakesFrom DEF Steps
<1>4. Places(r)' /\ Sent(r)'
  BY <1>1, <1>2, <1>3 DEF Inductive, Takes, Places, Sent, Quiet, platform
<1>5. GoesOn(r, s, q)
  BY <1>1, <1>2, <1>3 DEF Takes, GoesOn, Committed, Restorer
<1>6. Turns(r, <<r, p>>, "verifying")
  BY <1>1, Turned DEF Handles, Jobs
<1> QED
  BY <1>1, <1>4, <1>5, <1>6, RowStep

LEMMA DisplayGiveUpKeeps ==
  ASSUME Inductive, NEW r \in Requests, NEW p \in Products,
         DisplayGiveUp(r, p), UNCHANGED calm
  PROVE  Inductive'
<1> DEFINE rest == req[r].todo \ {p}
           q == [req[r] EXCEPT !.todo = rest]
           s == IF rest = {} THEN "done" ELSE "giveup"
<1>1. /\ pc[r] = "giveup" /\ req[r].kind = "display"
      /\ IF job[<<r, p>>].status = "submitted"
           THEN Transition(<<r, p>>, req[r].verdict)
           ELSE UNCHANGED job
      /\ pc' = [pc EXCEPT ![r] = s] /\ req' = [req EXCEPT ![r] = q]
      /\ UNCHANGED latest /\ Quiet
  BY DEF DisplayGiveUp, Inductive, TypeOK, HandlerLocals, Quiet
<1>2. /\ q \in HandlerLocals /\ q.kind = req[r].kind /\ q.job = req[r].job
      /\ q.prods = req[r].prods /\ q.want = req[r].want
      /\ q.verdict = req[r].verdict /\ s \in {"giveup", "done"}
  <2>1. /\ req[r] \in HandlerLocals /\ rest \in SUBSET Products
        /\ s \in {"giveup", "done"}
    BY DEF Inductive, TypeOK, HandlerLocals
  <2> HIDE DEF rest, s
  <2>2. q \in HandlerLocals
    BY <2>1 DEF HandlerLocals
  <2>3. /\ q.kind = req[r].kind /\ q.job = req[r].job
        /\ q.prods = req[r].prods /\ q.want = req[r].want
        /\ q.verdict = req[r].verdict
    BY <2>1 DEF HandlerLocals
  <2> QED
    BY <2>1, <2>2, <2>3
<1> HIDE DEF q, s
<1>3. Takes(r, s, q)
  BY <1>1, <1>2, TakesFrom DEF Steps
<1>4. /\ req[r].verdict \in {"failed", "recovery-required"}
      /\ req[r].verdict = "failed" => call[r] = "rejected"
  BY <1>1 DEF Inductive, Sent
<1>5. Places(r)' /\ Sent(r)'
  BY <1>1, <1>2, <1>3, <1>4 DEF Inductive, Takes, Places, Sent, Quiet, platform
<1>6. GoesOn(r, s, q)
  BY <1>1, <1>2, <1>3 DEF Takes, GoesOn, Committed, Restorer
<1>7. CASE job[<<r, p>>].status = "submitted"
  <2>1. CanTransition(<<r, p>>, job[<<r, p>>].rev, req[r].verdict)
    BY <1>4, <1>7 DEF CanTransition, MayMove, Moves
  <2>2. /\ <<r, p>> \in Jobs /\ <<r, p>>[1] = r /\ call'[r] = call[r]
        /\ Handles(r, <<r, p>>, job[<<r, p>>].rev)
    BY <1>1 DEF Jobs, Handles, Quiet, platform
  <2>3. Turns(r, <<r, p>>, req[r].verdict)
    BY <2>1, <2>2, <1>1, <1>4, <1>7, Turned
  <2> QED
    BY <2>3, <1>1, <1>5, <1>6, RowStep
<1>8. CASE job[<<r, p>>].status # "submitted"
  BY <1>1, <1>5, <1>6, <1>8, QuietStep
<1> QED
  BY <1>7, <1>8

LEMMA DisplayCheckKeeps ==
  ASSUME Inductive, NEW r \in Requests, NEW p \in Products,
         DisplayCheck(r, p), UNCHANGED calm
  PROVE  Inductive'
<1> DEFINE rest == req[r].todo \ {p}
           todo == IF rest = {} THEN req[r].prods ELSE rest
           q == [req[r] EXCEPT !.todo = todo]
           s == IF rest = {} THEN "insert" ELSE "check"
<1>1. /\ pc[r] = "check" /\ pc' = [pc EXCEPT ![r] = s]
      /\ req' = [req EXCEPT ![r] = q]
      /\ p \in req[r].todo /\ req[r].seen[p] \in Displays
      /\ UNCHANGED <<job, latest>> /\ Quiet
  BY DEF DisplayCheck, Inductive, TypeOK, HandlerLocals, Quiet
<1>2. /\ req[r] \in HandlerLocals /\ Places(r) /\ Sent(r) /\ Rows(r)
  BY DEF Inductive, TypeOK
<1>3. todo \in SUBSET Products
  BY <1>2 DEF HandlerLocals
<1>4. \/ s = "check" /\ todo = req[r].todo \ {p}
      \/ s = "insert" /\ todo = req[r].prods /\ req[r].todo \subseteq {p}
  OBVIOUS
<1> HIDE DEF todo, s
<1>5. /\ q \in HandlerLocals /\ q.kind = req[r].kind /\ q.job = req[r].job
      /\ q.prods = req[r].prods /\ q.want = req[r].want /\ q.todo = todo
      /\ q.seen = req[r].seen
  BY <1>2, <1>3 DEF HandlerLocals
<1> HIDE DEF q
<1>6. req[r].kind = "display"
  BY <1>1, <1>2 DEF Places, HandlerLocals, Kinds
<1>7. Takes(r, s, q)
  BY <1>1, <1>4, <1>5, TakesFrom DEF Steps
<1>8. Places(r)' /\ Sent(r)'
  BY <1>1, <1>2, <1>4, <1>5, <1>6, <1>7
     DEF Takes, Places, Sent, Quiet, platform
<1>9. Advances(r) /\ Scene
  BY <1>1, <1>7, <1>8, Advanced, SceneStays
<1>10. Rows(r)'
  BY <1>1, <1>2, <1>3, <1>4, <1>5, <1>6, <1>7
     DEF Takes, Rows, Reader, Committed, Restorer
<1>11. Held(r)'
  BY <1>4, <1>5, <1>6, <1>7 DEF Takes, Held, Restorer
<1>12. ~ Committed(r)' /\ ~ Reader(r)'
  BY <1>5, <1>6, <1>7 DEF Takes, Reader, Committed
<1> QED
  BY <1>1, <1>9, <1>10, <1>11, <1>12, StillTable, StepKeeps
     DEF Effect, Behaves

LEMMA DisplayInsertKeeps ==
  ASSUME Inductive, NEW r \in Requests, NEW p \in Products,
         DisplayInsert(r, p), UNCHANGED calm
  PROVE  Inductive'
<1> DEFINE rest == req[r].todo \ {p}
           todo == IF rest = {} THEN req[r].prods ELSE rest
           q == [req[r] EXCEPT !.todo = todo]
           s == IF rest = {} THEN "send" ELSE "insert"
<1>1. /\ pc[r] = "insert" /\ req[r].kind = "display" /\ p \in req[r].todo
      /\ Insert(r, p, "display", req[r].want, req[r].seen[p])
      /\ pc' = [pc EXCEPT ![r] = s] /\ req' = [req EXCEPT ![r] = q] /\ Quiet
  BY DEF DisplayInsert, Inductive, TypeOK, HandlerLocals, Quiet
<1>2. /\ req[r] \in HandlerLocals /\ Places(r) /\ Sent(r) /\ Rows(r)
  BY DEF Inductive, TypeOK
<1>3. todo \in SUBSET Products
  BY <1>2 DEF HandlerLocals
<1>4. \/ s = "insert" /\ todo = req[r].todo \ {p}
      \/ s = "send" /\ req[r].todo \subseteq {p}
  OBVIOUS
<1> HIDE DEF todo, s
<1>5. /\ q \in HandlerLocals /\ q.kind = req[r].kind /\ q.job = req[r].job
      /\ q.prods = req[r].prods /\ q.want = req[r].want /\ q.todo = todo
      /\ q.seen = req[r].seen
      /\ q.prods \in SUBSET Products
  BY <1>2, <1>3 DEF HandlerLocals
<1> HIDE DEF q
<1>6. Takes(r, s, q)
  BY <1>1, <1>4, <1>5, TakesFrom DEF Steps
<1>7. Places(r)' /\ Sent(r)'
  BY <1>1, <1>2, <1>4, <1>5, <1>6 DEF Takes, Places, Sent, Quiet, platform
<1>8. /\ Forward(r) /\ OneOpenJob' /\ Respects(r)
      /\ \A k \in Jobs \ {<<r, p>>} : job'[k] = job[k]
      /\ job'[<<r, p>>].status = "submitted"
      /\ latest' \in [Products -> Requests \cup {Nil}]
  <2>1. job[<<r, p>>] = NoJob
    BY <1>1, <1>2 DEF Rows
  <2>2. /\ req[r].want \in Displays /\ req[r].want \in Values
        /\ req[r].seen[p] \in Displays
    BY <1>1, <1>2 DEF Sent, Values, Places
  <2> QED
    BY <1>1, <2>1, <2>2, InsertedTable
<1>9. Advances(r) /\ Scene
  BY <1>1, <1>6, <1>7, <1>8, Advanced
     DEF Scene, Inductive, TypeOK, Quiet, platform
<1>10. \A x \in Products : /\ x # p => job'[<<r, x>>] = job[<<r, x>>]
                           /\ x = p => job'[<<r, x>>].status = "submitted"
  BY <1>8 DEF Jobs
<1>11. Rows(r)'
  BY <1>1, <1>2, <1>3, <1>4, <1>5, <1>6, <1>10
     DEF Takes, Rows, Reader, Committed, Restorer
<1>12. calm => Held(r)'
  BY <1>1, <1>4, <1>5, <1>6, <1>10 DEF Inductive, Takes, Held, Restorer
<1>13. ~ Committed(r)' /\ ~ Reader(r)'
  BY <1>1, <1>5, <1>6 DEF Takes, Reader, Committed
<1> QED
  BY <1>8, <1>9, <1>11, <1>12, <1>13, StepKeeps DEF Effect, Behaves

---------------------------------------------------------------------------
(* The steps of an update up to its write, and the intent of a recovery.   *)

LEMMA UpdateInsertKeeps ==
  ASSUME Inductive, NEW r \in Requests, NEW p \in Products,
         UpdateInsert(r, p), UNCHANGED calm
  PROVE  Inductive'
<1> DEFINE q == [req[r] EXCEPT !.job = <<r, p>>]
<1>1. /\ pc[r] = "insert" /\ req[r].kind = "update" /\ p \in req[r].todo
      /\ Insert(r, p, "update", req[r].want, "none")
      /\ pc' = [pc EXCEPT ![r] = "stored"] /\ req' = [req EXCEPT ![r] = q]
      /\ Quiet
  BY DEF UpdateInsert, Inductive, TypeOK, HandlerLocals, Quiet
<1>2. /\ req[r] \in HandlerLocals /\ Places(r) /\ Sent(r) /\ Rows(r)
      /\ <<r, p>> \in Jobs
  BY DEF Inductive, TypeOK, Jobs
<1>3. /\ q \in HandlerLocals /\ q.kind = "update" /\ q.job = <<r, p>>
      /\ q.prods = req[r].prods /\ q.want = req[r].want
      /\ q.todo = req[r].todo
  BY <1>1, <1>2 DEF HandlerLocals
<1> HIDE DEF q
<1>4. q.prods = {p}
  BY <1>1, <1>2, <1>3 DEF Places
<1>5. Takes(r, "stored", q)
  BY <1>1, <1>3, TakesFrom DEF Steps
<1>6. Places(r)' /\ Sent(r)'
  BY <1>1, <1>2, <1>3, <1>5 DEF Takes, Places, Sent, Quiet, platform
<1>7. /\ Forward(r) /\ OneOpenJob' /\ Respects(r)
      /\ job'[<<r, p>>].status = "submitted"
      /\ latest' \in [Products -> Requests \cup {Nil}]
  <2>1. job[<<r, p>>] = NoJob
    BY <1>1, <1>2 DEF Rows
  <2>2. req[r].want \in Values
    BY <1>1, <1>2 DEF Sent, Values
  <2> QED
    BY <1>1, <2>1, <2>2, InsertedTable
<1>8. Advances(r) /\ Scene
  BY <1>1, <1>5, <1>6, <1>7, Advanced
     DEF Scene, Inductive, TypeOK, Quiet, platform
<1>9. ~ Committed(r)' /\ ~ Reader(r)' /\ ~ Restorer(r)'
  BY <1>3, <1>5 DEF Takes, Reader, Committed, Restorer
<1>10. Rows(r)'
  BY <1>2, <1>3, <1>5, <1>9 DEF Takes, Rows
<1>11. Held(r)'
  BY <1>3, <1>4, <1>5, <1>7, <1>9 DEF Takes, Held
<1> QED
  BY <1>7, <1>8, <1>9, <1>10, <1>11, StepKeeps DEF Effect, Behaves

LEMMA RecoverIntentKeeps ==
  ASSUME Inductive, NEW r \in Requests, RecoverIntent(r), UNCHANGED calm
  PROVE  Inductive'
<1> DEFINE j == req[r].job
           row == [job[j] EXCEPT !.status = "recovering", !.rev = @ + 1,
                                 !.recovery = TRUE]
<1>1. /\ pc[r] = "restore" /\ CanTransition(j, req[r].rev, "recovering")
      /\ pc' = [pc EXCEPT ![r] = "stored"]
      /\ UNCHANGED <<req, latest>> /\ Quiet
      /\ job' = [job EXCEPT ![j].status = "recovering", ![j].rev = @ + 1,
                            ![j].recovery = TRUE]
  BY DEF RecoverIntent, Quiet
<1>2. /\ req[r] \in HandlerLocals /\ Places(r) /\ Sent(r) /\ Rows(r)
      /\ job \in [Jobs -> JobRows]
  BY DEF Inductive, TypeOK
<1>3. req[r].kind = "recover" /\ Reader(r) /\ j \in Jobs
  BY <1>1, <1>2 DEF Places, Rows, HandlerLocals, Kinds, Reader
<1>4. /\ req[r].rev = job[j].rev /\ Open(j) /\ ~ job[j].recovery
  BY <1>1, <1>2, <1>3, LegalMoves DEF CanTransition, Open, Rows
<1>5. /\ row \in JobRows /\ row.status = "recovering"
      /\ row.rev = job[j].rev + 1 /\ row.kind = job[j].kind
      /\ row.target = job[j].target /\ row.original = job[j].original
      /\ row.recovery
  <2>1. job[j] \in JobRows /\ "recovering" \in Statuses
    BY <1>2, <1>3 DEF Statuses, BlockingStatuses
  <2>2. job[j].rev + 1 \in Nat
    BY <2>1 DEF JobRows
  <2> QED
    BY <2>1, <2>2 DEF JobRows
<1>6. job' = [job EXCEPT ![j] = row]
  BY <1>1, <1>2, <1>3
<1> HIDE DEF row, j
<1>7. /\ job' \in [Jobs -> JobRows] /\ job'[j] = row
      /\ \A k \in Jobs \ {j} : job'[k] = job[k]
  BY <1>2, <1>3, <1>5, <1>6
<1>8. Handles(r, j, req[r].rev)
  BY <1>3 DEF Handles, j
<1>9. Turns(r, j, "recovering")
  BY <1>3, <1>4, <1>5, <1>7, <1>8, NobodyElse
     DEF Turns, Statuses, BlockingStatuses
<1>10. Forward(r) /\ OneOpenJob' /\ Respects(r)
  BY <1>9, TurnedTable
<1>11. Takes(r, "stored", req[r])
  BY <1>1, TakesOn DEF Steps
<1>12. Places(r)' /\ Sent(r)'
  BY <1>1, <1>2, <1>3, <1>11 DEF Takes, Places, Sent, Quiet, platform
<1>13. Advances(r) /\ Scene
  BY <1>1, <1>11, <1>12, Advanced, SceneStays
<1>14. /\ pc'[r] = "stored" /\ req'[r] = req[r] /\ ~ Reader(r)'
       /\ req'[r].job = j
  BY <1>11 DEF Takes, Reader, j
<1>15. Rows(r)'
  BY <1>2, <1>3, <1>5, <1>7, <1>14 DEF Rows, j
<1>16. ASSUME calm PROVE Held(r)'
  <2>1. pc'[j[1]] = "done"
    BY <1>3, <1>13, <1>16 DEF Inductive, Held, Advances, Jobs, j
  <2>2. \A d \in Requests \ {r} :
          Reader(d)' /\ req'[d].job = j => req'[d].rev < job'[j].rev
    <3> SUFFICES ASSUME NEW d \in Requests \ {r},
                        Reader(d)', req'[d].job = j
                 PROVE  req'[d].rev < job'[j].rev
      OBVIOUS
    <3>1. Reader(d) /\ req'[d] = req[d]
      BY <1>10, <1>13, OthersKeep DEF Advances
    <3>2. req[d].rev <= job[j].rev
      BY <3>1 DEF Inductive, Rows
    <3>3. req[d].rev \in Nat /\ job[j].rev \in Nat
      BY <1>2, <1>3 DEF Inductive, TypeOK, HandlerLocals, JobRows
    <3> QED
      BY <3>1, <3>2, <3>3, <1>5, <1>7
  <2> QED
    BY <2>1, <2>2, <1>3, <1>5, <1>7, <1>14 DEF Held
<1>17. \A d \in Requests \ {r} : Committed(d) => req[d].job # j
  BY <1>4 DEF Inductive, Rows
<1> QED
  BY <1>10, <1>13, <1>14, <1>15, <1>16, <1>17, StepKeeps DEF Effect, Behaves

---------------------------------------------------------------------------
(* The first step of a request.                                            *)

\* Request r begins: with the products it will write, or with the row it read.
Begins(r, s, q) ==
  /\ pc[r] = "idle"
  /\ Takes(r, s, q)
  /\ \/ s = "check" /\ q.kind = "display" /\ q.todo = q.prods
     \/ s = "insert" /\ q.kind = "update" /\ q.todo = q.prods
     \/ /\ \/ s = "refresh" /\ q.kind = "refresh"
           \/ s = "restore" /\ q.kind = "recover"
        /\ q.job \in Jobs /\ Open(q.job) /\ q.rev = job[q.job].rev
        /\ q.kind = "recover" => ~ job[q.job].recovery /\ q.prods = {q.job[2]}
        /\ calm => ~ Busy(q.job)

LEMMA FirstStep ==
  ASSUME Inductive, NEW r \in Requests, NEW s, NEW q, Begins(r, s, q), Quiet,
         UNCHANGED <<job, latest>>, Places(r)', Sent(r)'
  PROVE  Inductive'
<1>1. Advances(r) /\ Scene
  BY Advanced, SceneStays DEF Begins
<1>2. /\ pc'[r] = s /\ req'[r] = q /\ q \in HandlerLocals /\ pc[r] = "idle"
      /\ job' = job /\ job \in [Jobs -> JobRows] /\ call'[r] = "none"
      /\ Rows(r)
  BY DEF Begins, Takes, Inductive, TypeOK, Quiet, platform, Sent
<1>3. ~ Restorer(r)' /\ ~ Committed(r)'
  BY <1>2 DEF Begins, Restorer, Committed
<1>4. q.todo \in SUBSET Products
  BY <1>2 DEF HandlerLocals
<1>5. \A p \in Products : job'[<<r, p>>] = NoJob
  BY <1>2 DEF Rows
<1>6. Reader(r)' =>
        /\ q.job \in Jobs /\ Open(q.job) /\ q.rev = job[q.job].rev
        /\ q.kind = "recover" => ~ job[q.job].recovery
        /\ job[q.job].rev \in Nat
        /\ calm => ~ Busy(q.job)
  BY <1>2 DEF Begins, Reader, JobRows
<1>7. q.kind \in {"refresh", "recover"} => Reader(r)'
  BY <1>2 DEF Begins, Reader
<1>8. Rows(r)'
  <2>1. Reader(r)' => q.rev <= job[q.job].rev /\ job[q.job].status # "none"
    BY <1>6 DEF Open, BlockingStatuses
  <2>2. q.kind = "recover" => q.prods = {q.job[2]}
    BY DEF Begins
  <2>3. q.kind = "update" => s = "insert"
    BY DEF Begins
  <2> QED
    BY <1>2, <1>3, <1>4, <1>5, <1>6, <1>7, <2>1, <2>2, <2>3 DEF Rows
<1>9. ASSUME calm PROVE Held(r)'
  <2>1. q.kind \in {"refresh", "recover"} => pc'[q.job[1]] = "done"
    BY <1>1, <1>6, <1>7, <1>9 DEF Busy, Jobs, Advances
  <2>2. s = "insert" => q.prods \ q.todo = {}
    BY DEF Begins
  <2>3. s \notin {"stored", "send", "wait"}
    BY DEF Begins
  <2> QED
    BY <1>2, <1>3, <2>1, <2>2, <2>3 DEF Held
<1>10. ASSUME calm, Reader(r)', NEW d \in Requests \ {r}, Restorer(d),
              req[d].job = q.job
       PROVE  FALSE
  BY <1>6, <1>10 DEF Busy, Restorer
<1>11. Behaves(r)
  BY <1>2, <1>3, <1>8, <1>9, <1>10 DEF Behaves
<1> QED
  BY <1>1, <1>11, StillTable, StepKeeps DEF Effect

LEMMA DisplayReadKeeps ==
  ASSUME Inductive, NEW r \in Requests, NEW ps \in SUBSET Products,
         NEW d \in Displays, DisplayRead(r, ps, d), UNCHANGED calm
  PROVE  Inductive'
<1> DEFINE found == [p \in Products |-> IF p \in ps THEN Shown(p) ELSE "none"]
           q == [NoRequest EXCEPT !.kind = "display", !.prods = ps, !.todo = ps,
                                  !.want = d, !.seen = found]
<1>1. /\ pc[r] = "idle" /\ pc' = [pc EXCEPT ![r] = "check"]
      /\ req' = [req EXCEPT ![r] = q]
      /\ UNCHANGED <<job, latest>> /\ Quiet
  BY DEF DisplayRead, Quiet
<1>2. found \in [Products -> Displays \cup {"auditing", "none"}]
  BY DEF Shown, Inductive, TypeOK
<1> HIDE DEF found
<1>3. /\ q \in HandlerLocals /\ q.kind = "display" /\ q.prods = ps
      /\ q.todo = ps /\ q.want = d
  BY <1>2 DEF NoRequest, HandlerLocals, Kinds, Readings, Values
<1> HIDE DEF q
<1>4. Takes(r, "check", q)
  BY <1>1, <1>3, TakesFrom DEF Steps
<1>5. Places(r)' /\ Sent(r)'
  BY <1>1, <1>3, <1>4 DEF Inductive, Takes, Places, Sent, Quiet, platform
<1>6. Begins(r, "check", q)
  BY <1>1, <1>3, <1>4 DEF Begins
<1> QED
  BY <1>1, <1>5, <1>6, FirstStep

LEMMA UpdateCheckKeeps ==
  ASSUME Inductive, NEW r \in Requests, NEW p \in Products, NEW c \in Contents,
         UpdateCheck(r, p, c), UNCHANGED calm
  PROVE  Inductive'
<1> DEFINE q == [NoRequest EXCEPT !.kind = "update", !.prods = {p},
                                  !.todo = {p}, !.want = c]
<1>1. /\ pc[r] = "idle" /\ pc' = [pc EXCEPT ![r] = "insert"]
      /\ req' = [req EXCEPT ![r] = q]
      /\ UNCHANGED <<job, latest>> /\ Quiet
  BY DEF UpdateCheck, Quiet
<1>2. /\ q \in HandlerLocals /\ q.kind = "update" /\ q.prods = {p}
      /\ q.todo = {p} /\ q.want = c
  BY DEF NoRequest, HandlerLocals, Kinds, Readings, Values
<1> HIDE DEF q
<1>3. Takes(r, "insert", q)
  BY <1>1, <1>2, TakesFrom DEF Steps
<1>4. Places(r)' /\ Sent(r)'
  BY <1>1, <1>2, <1>3 DEF Inductive, Takes, Places, Sent, Quiet, platform
<1>5. Begins(r, "insert", q)
  BY <1>1, <1>2, <1>3 DEF Begins
<1> QED
  BY <1>1, <1>4, <1>5, FirstStep

LEMMA RefreshReadKeeps ==
  ASSUME Inductive, NEW r \in Requests, NEW j \in Jobs,
         RefreshRead(r, j), UNCHANGED calm
  PROVE  Inductive'
<1>1. PICK reading \in ReadingsOf(j) :
        req' = [req EXCEPT ![r] =
                  [NoRequest EXCEPT !.kind = "refresh", !.job = j,
                                    !.rev = job[j].rev, !.want = reading]]
  BY DEF RefreshRead
<1> DEFINE q == [NoRequest EXCEPT !.kind = "refresh", !.job = j,
                                  !.rev = job[j].rev, !.want = reading]
<1>2. /\ pc[r] = "idle" /\ pc' = [pc EXCEPT ![r] = "refresh"]
      /\ req' = [req EXCEPT ![r] = q]
      /\ Open(j)
      /\ calm => ~ Busy(j)
      /\ UNCHANGED <<job, latest>> /\ Quiet
  BY <1>1 DEF RefreshRead, Quiet
<1>3. job[j].rev \in Nat
  BY DEF Inductive, TypeOK, JobRows
<1>4. reading \in Readings
  <2>1. /\ j[2] \in Products /\ shelf[j[2]] \in Displays
        /\ content[j[2]] \in Contents
    BY DEF Jobs, Inductive, TypeOK
  <2> QED
    BY <2>1 DEF ReadingsOf, Shown, Readings, Values
<1>5. /\ q \in HandlerLocals /\ q.kind = "refresh" /\ q.job = j
      /\ q.rev = job[j].rev
  BY <1>3, <1>4 DEF NoRequest, HandlerLocals, Kinds
<1> HIDE DEF q
<1>6. Takes(r, "refresh", q)
  BY <1>2, <1>5, TakesFrom DEF Steps
<1>7. Places(r)' /\ Sent(r)'
  BY <1>2, <1>5, <1>6 DEF Inductive, Takes, Places, Sent, Quiet, platform
<1>8. Begins(r, "refresh", q)
  BY <1>2, <1>5, <1>6 DEF Begins
<1> QED
  BY <1>2, <1>7, <1>8, FirstStep

LEMMA RecoverReadKeeps ==
  ASSUME Inductive, NEW r \in Requests, NEW j \in Jobs,
         RecoverRead(r, j), UNCHANGED calm
  PROVE  Inductive'
<1> DEFINE found == [p \in Products |-> IF p = j[2] THEN Shown(p) ELSE "none"]
           q == [NoRequest EXCEPT !.kind = "recover", !.prods = {j[2]},
                                  !.todo = {j[2]}, !.job = j,
                                  !.rev = job[j].rev,
                                  !.want = job[j].original, !.seen = found]
<1>1. /\ pc[r] = "idle" /\ pc' = [pc EXCEPT ![r] = "restore"]
      /\ req' = [req EXCEPT ![r] = q]
      /\ Open(j) /\ ~ job[j].recovery /\ job[j].kind = "display"
      /\ calm => ~ Busy(j)
      /\ UNCHANGED <<job, latest>> /\ Quiet
  BY DEF RecoverRead, Quiet, Open, BlockingStatuses
<1>2. /\ found \in [Products -> Displays \cup {"auditing", "none"}]
      /\ job[j].rev \in Nat /\ j[2] \in Products
      /\ job[j].original \in Displays
  BY <1>1 DEF Shown, Inductive, TypeOK, JobRows, Jobs, Remembers
<1> HIDE DEF found
<1>3. /\ q \in HandlerLocals /\ q.kind = "recover" /\ q.job = j
      /\ q.rev = job[j].rev /\ q.prods = {j[2]} /\ q.want = job[j].original
  BY <1>2 DEF NoRequest, HandlerLocals, Kinds, Readings, Values
<1> HIDE DEF q
<1>4. Takes(r, "restore", q)
  BY <1>1, <1>3, TakesFrom DEF Steps
<1>5. Places(r)' /\ Sent(r)'
  BY <1>1, <1>2, <1>3, <1>4 DEF Inductive, Takes, Places, Sent, Quiet, platform
<1>6. Begins(r, "restore", q)
  BY <1>1, <1>3, <1>4 DEF Begins
<1> QED
  BY <1>1, <1>5, <1>6, FirstStep

---------------------------------------------------------------------------
(* The theorems.                                                           *)

LEMMA HandlerKeeps ==
  ASSUME Inductive, NEW r \in Requests, HandlerStep(r), UNCHANGED calm
  PROVE  Inductive'
<1>1. ASSUME NEW ps \in (SUBSET Products) \ {{}}, NEW d \in Displays,
             DisplayRead(r, ps, d)
      PROVE  Inductive'
  BY <1>1, DisplayReadKeeps
<1>2. ASSUME NEW p \in Products,
             \/ DisplayCheck(r, p)
             \/ DisplayInsert(r, p)
             \/ DisplaySettle(r, p)
             \/ DisplayGiveUp(r, p)
      PROVE  Inductive'
  BY <1>2, DisplayCheckKeeps, DisplayInsertKeeps, DisplaySettleKeeps,
     DisplayGiveUpKeeps
<1>3. ASSUME NEW p \in Products,
             \/ UpdateInsert(r, p)
             \/ UpdateSettle(r, p)
             \/ UpdateAuditFails(r, p)
             \/ UpdateGiveUp(r, p)
      PROVE  Inductive'
  BY <1>3, UpdateInsertKeeps, UpdateSettleKeeps, UpdateAuditFailsKeeps,
     UpdateGiveUpKeeps
<1>4. ASSUME NEW p \in Products, NEW c \in Contents, UpdateCheck(r, p, c)
      PROVE  Inductive'
  BY <1>4, UpdateCheckKeeps
<1>5. ASSUME NEW j \in Jobs, RefreshRead(r, j) \/ RecoverRead(r, j)
      PROVE  Inductive'
  BY <1>5, RefreshReadKeeps, RecoverReadKeeps
<1>6. ASSUME \/ DisplayInsertFails(r)
             \/ Reread(r)
             \/ Send(r)
             \/ AnswerAccepted(r)
             \/ AnswerRejected(r)
             \/ AnswerUnknown(r)
             \/ SettleFails(r)
             \/ Abort(r)
      PROVE  Inductive'
  BY <1>6, DisplayInsertFailsKeeps, RereadKeeps, SendKeeps,
     AnswerAcceptedKeeps, AnswerRejectedKeeps, AnswerUnknownKeeps,
     SettleFailsKeeps, AbortKeeps
<1>7. ASSUME \/ RefreshWrite(r)
             \/ RecoverMatched(r)
             \/ RecoverIntent(r)
             \/ RecoverSettle(r)
             \/ RecoverGiveUp(r)
      PROVE  Inductive'
  BY <1>7, RefreshWriteKeeps, RecoverMatchedKeeps, RecoverIntentKeeps,
     RecoverSettleKeeps, RecoverGiveUpKeeps
<1> QED
  BY <1>1, <1>2, <1>3, <1>4, <1>5, <1>6, <1>7 DEF HandlerStep

LEMMA InductiveKeeps == Inductive /\ [Next]_vars => Inductive'
<1> SUFFICES ASSUME Inductive, [Next]_vars PROVE Inductive'
  OBVIOUS
<1>1. CASE Next
  <2>1. ASSUME NEW r \in Requests, HandlerStep(r) PROVE Inductive'
    BY <1>1, <2>1, HandlerKeeps DEF Next
  <2>2. ASSUME NEW j \in Jobs, Age(j) PROVE Inductive'
    BY <1>1, <2>2, AgeKeeps DEF Next
  <2>3. ASSUME PlatformStep PROVE Inductive'
    BY <1>1, <2>3, PlatformTakeKeeps, PlatformRejectKeeps,
       PlatformApplyKeeps, ReviewEndsKeeps DEF Next, PlatformStep
  <2> QED
    BY <1>1, <2>1, <2>2, <2>3 DEF Next
<1>2. CASE UNCHANGED vars
  <2>1. Scene
    BY <1>2 DEF Scene, Inductive, TypeOK, vars
  <2> QED
    BY <1>2, <2>1, SceneKeeps DEF vars
<1> QED
  BY <1>1, <1>2

THEOREM Invariance == Spec => []Inductive
<1> QED
  BY InitHolds, InductiveKeeps, PTL DEF Spec

\* Every row, every handler and the platform keep their types: every status a
\* handler writes is one of the table's, every reading one that can be judged.
THEOREM TypeCorrect == Spec => []TypeOK
<1>1. Inductive => TypeOK
  BY DEF Inductive
<1> QED
  BY <1>1, Invariance, PTL

\* A product never has two unfinished jobs, in any weather: an INSERT waits for
\* every open row of the product, and no move reopens a closed row.
THEOREM OneJobPerProduct == Spec => []OneOpenJob
<1>1. Inductive => OneOpenJob
  BY DEF Inductive
<1> QED
  BY <1>1, Invariance, PTL

\* A job is put back at most once, however many recover requests race: the row
\* takes the intent of the first and refuses the revision of the others.
THEOREM OneRestore == Spec => []RecoverOnce
<1>1. Inductive => RecoverOnce
  BY DEF Inductive, OneRestorer, Committed, RecoverOnce
<1> QED
  BY <1>1, Invariance, PTL

\* A failed job changed nothing on the platform and never will, in any weather:
\* only an explicit refusal is recorded as a failure.
THEOREM FailedIsHarmless == Spec => []FailedNeverApplied
<1>1. Inductive => FailedNeverApplied
  BY DEF Inductive
<1> QED
  BY <1>1, Invariance, PTL

LEMMA SendsOwnJob ==
  ASSUME Inductive, NEW r \in Requests, Send(r), calm
  PROVE  SendsForItsJob(r)
<1> SUFFICES ASSUME NEW p \in req[r].prods, NEW d \in Requests, Open(<<d, p>>)
             PROVE  <<d, p>> = Own(r, p)
  BY DEF SendsForItsJob
<1>1. /\ pc[r] = "send" /\ Held(r) /\ Places(r) /\ req[r] \in HandlerLocals
      /\ p \in Products
  BY DEF Send, Inductive, TypeOK, HandlerLocals
<1>2. CASE req[r].kind = "recover"
  <2>1. /\ req[r].job \in Jobs /\ req[r].prods = {req[r].job[2]}
        /\ job[req[r].job].status = "recovering"
    BY <1>1, <1>2, RecoversARow DEF Held, Restorer
  <2>2. PICK e \in Requests : req[r].job = <<e, p>>
    BY <2>1 DEF Jobs
  <2>3. Open(<<e, p>>)
    BY <2>1, <2>2 DEF Open, BlockingStatuses
  <2>4. d = e
    BY <2>3, <1>1 DEF Inductive, OneOpenJob
  <2> QED
    BY <2>2, <2>4, <1>2 DEF Own
<1>3. CASE req[r].kind # "recover"
  <2>1. req[r].kind \in {"display", "update"}
    BY <1>1, <1>3 DEF Places, HandlerLocals, Kinds
  <2>2. Open(<<r, p>>)
    BY <2>1, <1>1 DEF Held, Open, BlockingStatuses
  <2>3. d = r
    BY <2>2, <1>1 DEF Inductive, OneOpenJob
  <2> QED
    BY <2>3, <1>3 DEF Own
<1> QED
  BY <1>2, <1>3

\* Only Send makes a write leave.
LEMMA OnlySendSends ==
  ASSUME [Next]_vars, NEW r \in Requests, call[r] = "none",
         call'[r] = "pending", Inductive
  PROVE  Send(r)
<1>1. call \in [Requests -> Calls]
  BY DEF Inductive, TypeOK
<1>2. ASSUME NEW d \in Requests, HandlerStep(d) PROVE Send(r)
  <2>1. Send(d) \/ call' = call
    BY <1>2 DEF HandlerStep, DisplayRead, DisplayCheck, DisplayInsert,
      DisplaySettle, DisplayGiveUp, UpdateInsert, UpdateSettle,
      UpdateAuditFails, UpdateGiveUp, UpdateCheck, RefreshRead, RecoverRead,
      DisplayInsertFails, Reread, AnswerAccepted, AnswerRejected,
      AnswerUnknown, SettleFails, RefreshWrite, RecoverMatched,
      RecoverIntent, RecoverSettle, RecoverGiveUp, Abort, platform
  <2>2. Send(d) => d = r
    BY <1>1 DEF Send
  <2> QED
    BY <2>1, <2>2
<1>3. ASSUME NEW j \in Jobs, Age(j) PROVE FALSE
  BY <1>3 DEF Age, platform
<1>4. ASSUME PlatformStep PROVE FALSE
  BY <1>1, <1>4 DEF PlatformStep, PlatformTake, PlatformReject, PlatformApply,
    ReviewEnds
<1> QED
  BY <1>2, <1>3, <1>4 DEF Next, vars

\* In calm weather a job is the lock of its product: no write leaves for a
\* product that another request's unfinished job holds.
THEOREM WritesWaitForOpenJobs == Spec => OutboundRespectsOpenJobsWhenCalm
<1>1. ASSUME Inductive, [Next]_vars, calm, NEW r \in Requests
      PROVE  SendsForItsJob(r)
  <2>1. CASE call[r] = "none" /\ call'[r] = "pending"
    BY <1>1, <2>1, OnlySendSends, SendsOwnJob
  <2> QED
    BY <2>1 DEF SendsForItsJob
<1>2. Inductive /\ [Next]_vars =>
        [calm => \A r \in Requests : SendsForItsJob(r)]_vars
  BY <1>1
<1> QED
  BY <1>2, Invariance, PTL DEF Spec, OutboundRespectsOpenJobsWhenCalm
---------------------------------------------------------------------------
(* What a closed job says.                                                 *)

\* Request r has read a row that nobody has written since.
Current(r) == Reader(r) /\ req[r].rev = job[req[r].job].rev

\* What such a request read is what the product still is.
Reads(r) ==
  Current(r) =>
    LET j == req[r].job IN
    /\ Open(j)
    /\ req[r].kind = "refresh" =>
         /\ job[j].kind = "display" /\ req[r].want \in Displays =>
              shelf[j[2]] = req[r].want
         /\ job[j].kind = "update" /\ req[r].want \in Contents =>
              content[j[2]] = req[r].want
    /\ req[r].kind = "recover" =>
         req[r].want = job[j].original /\ req[r].seen[j[2]] = shelf[j[2]]

\* What row j says of its product when it is closed.
TellsTruth(j) ==
  /\ job[j].status = "verified" /\ job[j].kind = "display" =>
       shelf[j[2]] = job[j].target
  /\ job[j].status = "verified" /\ job[j].kind = "update" =>
       content[j[2]] = job[j].target
  /\ job[j].status = "recovered" => shelf[j[2]] = job[j].original

\* An open job is the last of its product, and the last job of a product that
\* is closed tells the truth; in between, no reading is stale that still counts.
Truthful ==
  /\ \A r \in Requests, p \in Products : Open(<<r, p>>) => latest[p] = r
  /\ \A j \in Jobs : job[j].kind = "update" => job[j].target \in Contents
  /\ calm => \A r \in Requests : Reads(r)
  /\ calm => \A p \in Products :
       latest[p] # Nil => TellsTruth(<<latest[p], p>>)

\* No product has a job yet.
LEMMA InitTruthful == Init => Truthful
<1> SUFFICES ASSUME Init PROVE Truthful
  OBVIOUS
<1>1. /\ \A j \in Jobs : job[j] = NoJob
      /\ \A p \in Products : latest[p] = Nil
      /\ \A r \in Requests : pc[r] = "idle"
  BY DEF Init
<1>2. NoJob.status = "none" /\ NoJob.kind = "none"
  BY DEF NoJob
<1>3. \A r \in Requests, p \in Products : ~ Open(<<r, p>>)
  BY <1>1, <1>2 DEF Jobs, Open, BlockingStatuses
<1>4. \A r \in Requests : ~ Current(r)
  BY <1>1 DEF Current, Reader
<1> QED
  BY <1>1, <1>2, <1>3, <1>4 DEF Truthful, Reads

\* A step that leaves row j alone, and one that writes it.
SameRow(j) ==
  /\ job'[j].status = job[j].status /\ job'[j].rev = job[j].rev
  /\ job'[j].kind = job[j].kind
  /\ job'[j].target = job[j].target /\ job'[j].original = job[j].original

Written(j) ==
  /\ Open(j) /\ job'[j].rev = job[j].rev + 1
  /\ job'[j].kind = job[j].kind
  /\ job'[j].target = job[j].target /\ job'[j].original = job[j].original

\* Who has read a row after the step had read it before.
NobodyReads == \A r \in Requests : Reader(r)' => Reader(r) /\ req'[r] = req[r]

\* A reading is of the row before a write, not of the row after it.
LEMMA ReadingsLast ==
  ASSUME Inductive, NEW r \in Requests, Reads(r), UNCHANGED <<shelf, content>>,
         Reader(r), req'[r] = req[r],
         SameRow(req[r].job) \/ Written(req[r].job)
  PROVE  Reads(r)'
<1> SUFFICES ASSUME Current(r)' PROVE Reads(r)'
  BY DEF Reads
<1>1. req[r].job \in Jobs /\ req[r].rev <= job[req[r].job].rev
  BY DEF Inductive, Rows, Reader
<1>2. req[r].rev \in Nat /\ job[req[r].job].rev \in Nat
  BY <1>1 DEF Inductive, TypeOK, HandlerLocals, JobRows
<1>3. SameRow(req[r].job)
  BY <1>1, <1>2 DEF Current, Written
<1>4. Current(r)
  BY <1>3 DEF Current, SameRow
<1> QED
  BY <1>3, <1>4 DEF Reads, SameRow, Open

\* The products stay as they are: what is written must be true of them.
LEMMA RowsKeepTruth ==
  ASSUME Inductive, Truthful, UNCHANGED <<latest, shelf, content, calm>>,
         \A j \in Jobs : SameRow(j) \/ Written(j),
         calm => \A j \in Jobs : Written(j) => TellsTruth(j)',
         calm => \A r \in Requests : Reads(r)'
  PROVE  Truthful'
<1>1. \A r \in Requests, p \in Products : Open(<<r, p>>)' => Open(<<r, p>>)
  BY DEF Open, SameRow, Written, Jobs
<1>2. \A j \in Jobs : job'[j].kind = "update" => job'[j].target \in Contents
  BY DEF Truthful, SameRow, Written
<1>3. ASSUME calm, NEW p \in Products, latest[p] # Nil
      PROVE  TellsTruth(<<latest[p], p>>)'
  <2>1. <<latest[p], p>> \in Jobs /\ TellsTruth(<<latest[p], p>>)
    BY <1>3 DEF Inductive, TypeOK, Jobs, Truthful
  <2> QED
    BY <2>1, <1>3 DEF TellsTruth, SameRow
<1> QED
  BY <1>1, <1>2, <1>3 DEF Truthful

\* Nobody reads and nothing is written.
LEMMA StillTruthful ==
  ASSUME Inductive, Truthful, NobodyReads, \A j \in Jobs : SameRow(j),
         UNCHANGED <<latest, shelf, content, calm>>
  PROVE  Truthful'
<1>1. \A j \in Jobs : ~ Written(j)
  BY DEF Inductive, TypeOK, JobRows, SameRow, Written
<1>2. ASSUME calm, NEW r \in Requests PROVE Reads(r)'
  <2>1. CASE Reader(r)'
    <3>1. Reader(r) /\ req'[r] = req[r] /\ Reads(r)
      BY <1>2, <2>1 DEF NobodyReads, Truthful
    <3>2. req[r].job \in Jobs
      BY <3>1 DEF Inductive, Rows, Reader
    <3> QED
      BY <3>1, <3>2, ReadingsLast
  <2>2. CASE ~ Reader(r)'
    BY <2>2 DEF Reads, Current
  <2> QED
    BY <2>1, <2>2
<1> QED
  BY <1>1, <1>2, RowsKeepTruth

\* What a verdict on row j may say of the products.
Proves(j, s) ==
  /\ s = "verified" /\ job[j].kind = "display" => shelf[j[2]] = job[j].target
  /\ s = "verified" /\ job[j].kind = "update" => content[j[2]] = job[j].target
  /\ s = "recovered" => shelf[j[2]] = job[j].original

\* Nobody reads, and row j moves to a status that is proved.
LEMMA MovedTruthful ==
  ASSUME Inductive, Truthful, NobodyReads, NEW j \in Jobs, NEW s, Written(j),
         job'[j].status = s, \A k \in Jobs \ {j} : job'[k] = job[k],
         calm => Proves(j, s), UNCHANGED <<latest, shelf, content, calm>>
  PROVE  Truthful'
<1>1. \A k \in Jobs : SameRow(k) \/ Written(k)
  BY DEF SameRow
<1>2. ASSUME calm, NEW k \in Jobs, Written(k) PROVE TellsTruth(k)'
  <2>1. k = j
    BY <1>2 DEF Inductive, TypeOK, JobRows, Written
  <2> QED
    BY <1>2, <2>1 DEF Proves, TellsTruth, Written
<1>3. ASSUME calm, NEW r \in Requests PROVE Reads(r)'
  <2>1. CASE Reader(r)'
    <3>1. Reader(r) /\ req'[r] = req[r] /\ Reads(r)
      BY <1>3, <2>1 DEF NobodyReads, Truthful
    <3>2. req[r].job \in Jobs
      BY <3>1 DEF Inductive, Rows, Reader
    <3> QED
      BY <1>1, <3>1, <3>2, ReadingsLast
  <2>2. CASE ~ Reader(r)'
    BY <2>2 DEF Reads, Current
  <2> QED
    BY <2>1, <2>2
<1> QED
  BY <1>1, <1>2, <1>3, RowsKeepTruth

\* A transition writes its row and no other.
LEMMA TransitionWrites ==
  ASSUME Inductive, NEW j \in Jobs, NEW rev, NEW s, CanTransition(j, rev, s),
         Transition(j, s)
  PROVE  /\ Written(j) /\ job'[j].status = s /\ rev = job[j].rev
         /\ \A k \in Jobs \ {j} : job'[k] = job[k]
<1>1. job \in [Jobs -> JobRows] /\ Open(j) /\ rev = job[j].rev
  BY LegalMoves DEF Inductive, TypeOK, CanTransition, Open
<1> QED
  BY <1>1 DEF Transition, Written, JobRows

\* Request r goes to a step at which it has read nothing.
LEMMA ReadsNothing ==
  ASSUME Inductive, NEW r \in Requests,
         NEW s \in Steps \ {"refresh", "restore"},
         pc' = [pc EXCEPT ![r] = s], \A d \in Requests \ {r} : req'[d] = req[d]
  PROVE  NobodyReads
<1>1. pc'[r] = s /\ \A d \in Requests \ {r} : pc'[d] = pc[d]
  BY DEF Inductive, TypeOK
<1> QED
  BY <1>1 DEF NobodyReads, Reader

\* The steps of a request that neither read the platform nor write a row.
LEMMA QuietTruthful ==
  ASSUME Inductive, Truthful, NEW r \in Requests, UNCHANGED calm,
         \/ \E ps \in SUBSET Products, d \in Displays : DisplayRead(r, ps, d)
         \/ \E p \in Products : DisplayCheck(r, p)
         \/ \E p \in Products, c \in Contents : UpdateCheck(r, p, c)
         \/ DisplayInsertFails(r)
         \/ Reread(r)
         \/ Send(r)
         \/ AnswerAccepted(r)
         \/ AnswerRejected(r)
         \/ AnswerUnknown(r)
         \/ SettleFails(r)
         \/ Abort(r)
  PROVE  Truthful'
<1>1. \E s \in Steps \ {"refresh", "restore"} : pc' = [pc EXCEPT ![r] = s]
  BY DEF DisplayRead, DisplayCheck, UpdateCheck, DisplayInsertFails, Reread,
    Send, AnswerAccepted, AnswerRejected, AnswerUnknown, SettleFails, Abort,
    Steps
<1>2. \A d \in Requests \ {r} : req'[d] = req[d]
  BY DEF Inductive, TypeOK, DisplayRead, DisplayCheck, UpdateCheck,
    DisplayInsertFails, Reread, Send, AnswerAccepted, AnswerRejected,
    AnswerUnknown, SettleFails, Abort
<1>3. UNCHANGED <<job, latest, shelf, content>>
  BY DEF DisplayRead, DisplayCheck, UpdateCheck, DisplayInsertFails, Reread,
    Send, AnswerAccepted, AnswerRejected, AnswerUnknown, SettleFails, Abort,
    platform
<1>4. \A j \in Jobs : SameRow(j)
  BY <1>3 DEF SameRow
<1> QED
  BY <1>1, <1>2, <1>3, <1>4, ReadsNothing, StillTruthful

\* A handler that settles, gives up or restores claims nothing of a product.
LEMMA SettlingTruthful ==
  ASSUME Inductive, Truthful, NEW r \in Requests, UNCHANGED calm,
         \/ \E p \in Products : \/ DisplaySettle(r, p)
                                \/ UpdateSettle(r, p)
                                \/ UpdateAuditFails(r, p)
                                \/ UpdateGiveUp(r, p)
         \/ RecoverSettle(r)
         \/ RecoverGiveUp(r)
  PROVE  Truthful'
<1>1. \E s \in Steps \ {"refresh", "restore"} : pc' = [pc EXCEPT ![r] = s]
  BY DEF DisplaySettle, UpdateSettle, UpdateAuditFails, UpdateGiveUp,
    RecoverSettle, RecoverGiveUp, Steps
<1>2. \A d \in Requests \ {r} : req'[d] = req[d]
  BY DEF Inductive, TypeOK, DisplaySettle, UpdateSettle, UpdateAuditFails,
    UpdateGiveUp, RecoverSettle, RecoverGiveUp
<1>3. UNCHANGED <<latest, shelf, content>>
  BY DEF DisplaySettle, UpdateSettle, UpdateAuditFails, UpdateGiveUp,
    RecoverSettle, RecoverGiveUp, platform
<1>4. \E j \in Jobs, rev \in Nat, s \in Statuses \ {"verified", "recovered"} :
        CanTransition(j, rev, s) /\ Transition(j, s)
  <2>1. \A p \in Products : <<r, p>> \in Jobs
    BY DEF Jobs
  <2>2. req[r].kind = "recover" => req[r].job \in Jobs
    BY RecoversARow
  <2>3. pc[r] = "giveup" => req[r].verdict \in {"failed", "recovery-required"}
    BY DEF Inductive, Sent
  <2>4. req[r].rev \in Nat /\ 1 \in Nat
    BY DEF Inductive, TypeOK, HandlerLocals
  <2>5. FailureStatus("unknown") = "recovery-required"
    BY DEF FailureStatus
  <2> QED
    BY <2>1, <2>2, <2>3, <2>4, <2>5 DEF DisplaySettle, UpdateSettle,
      UpdateAuditFails, UpdateGiveUp, RecoverSettle, RecoverGiveUp, Statuses,
      BlockingStatuses, TerminalStatuses
<1>5. PICK j \in Jobs, rev \in Nat, s \in Statuses \ {"verified", "recovered"} :
        CanTransition(j, rev, s) /\ Transition(j, s)
  BY <1>4
<1>6. Proves(j, s)
  BY DEF Proves
<1> QED
  BY <1>1, <1>2, <1>3, <1>5, <1>6, ReadsNothing, TransitionWrites,
     MovedTruthful

\* The catch block of a display change claims nothing either.
LEMMA DisplayGiveUpTruthful ==
  ASSUME Inductive, Truthful, NEW r \in Requests, NEW p \in Products,
         DisplayGiveUp(r, p), UNCHANGED calm
  PROVE  Truthful'
<1>1. \E s \in Steps \ {"refresh", "restore"} : pc' = [pc EXCEPT ![r] = s]
  BY DEF DisplayGiveUp, Steps
<1>2. /\ \A d \in Requests \ {r} : req'[d] = req[d]
      /\ UNCHANGED <<latest, shelf, content>>
      /\ req[r].verdict \in {"failed", "recovery-required"}
  BY DEF Inductive, TypeOK, Sent, DisplayGiveUp, platform
<1>3. NobodyReads
  BY <1>1, <1>2, ReadsNothing
<1>4. CASE job[<<r, p>>].status = "submitted"
  <2>1. /\ <<r, p>> \in Jobs /\ Transition(<<r, p>>, req[r].verdict)
        /\ CanTransition(<<r, p>>, job[<<r, p>>].rev, req[r].verdict)
    BY <1>2, <1>4 DEF DisplayGiveUp, Jobs, CanTransition, MayMove, Moves
  <2>2. Proves(<<r, p>>, req[r].verdict)
    BY <1>2 DEF Proves
  <2> QED
    BY <1>2, <1>3, <2>1, <2>2, TransitionWrites, MovedTruthful
<1>5. CASE job[<<r, p>>].status # "submitted"
  <2>1. \A j \in Jobs : SameRow(j)
    BY <1>5 DEF DisplayGiveUp, SameRow
  <2> QED
    BY <1>2, <1>3, <2>1, StillTruthful
<1> QED
  BY <1>4, <1>5

\* A row that is being put back says nothing yet.
LEMMA RecoverIntentTruthful ==
  ASSUME Inductive, Truthful, NEW r \in Requests, RecoverIntent(r),
         UNCHANGED calm
  PROVE  Truthful'
<1> DEFINE j == req[r].job
<1>1. /\ pc[r] = "restore" /\ pc' = [pc EXCEPT ![r] = "stored"]
      /\ CanTransition(j, req[r].rev, "recovering")
      /\ job' = [job EXCEPT ![j].status = "recovering", ![j].rev = @ + 1,
                            ![j].recovery = TRUE]
      /\ UNCHANGED <<req, latest, shelf, content>>
  BY DEF RecoverIntent, platform
<1>2. j \in Jobs
  BY <1>1, RecoversARow DEF Inductive, Places, TypeOK, HandlerLocals, Kinds
<1>3. Open(j) /\ job \in [Jobs -> JobRows]
  BY <1>1, LegalMoves DEF CanTransition, Open, Inductive, TypeOK
<1> HIDE DEF j
<1>4. /\ Written(j) /\ job'[j].status = "recovering"
      /\ \A k \in Jobs \ {j} : job'[k] = job[k]
  BY <1>1, <1>2, <1>3 DEF Written, JobRows
<1>5. NobodyReads
  BY <1>1, ReadsNothing DEF Steps
<1>6. Proves(j, "recovering")
  BY DEF Proves
<1> QED
  BY <1>1, <1>2, <1>4, <1>5, <1>6, MovedTruthful

\* The product already is what it was before the job.
LEMMA RecoverMatchedTruthful ==
  ASSUME Inductive, Truthful, NEW r \in Requests, RecoverMatched(r),
         UNCHANGED calm
  PROVE  Truthful'
<1> DEFINE j == req[r].job
<1>1. /\ pc[r] = "restore" /\ pc' = [pc EXCEPT ![r] = "done"]
      /\ req[r].seen[j[2]] = req[r].want
      /\ CanTransition(j, req[r].rev, "recovered")
      /\ Transition(j, "recovered")
      /\ UNCHANGED <<req, latest, shelf, content>>
  BY DEF RecoverMatched, platform
<1>2. req[r].kind = "recover" /\ j \in Jobs
  BY <1>1, RecoversARow DEF Inductive, Places, TypeOK, HandlerLocals, Kinds
<1>3. /\ Written(j) /\ job'[j].status = "recovered" /\ req[r].rev = job[j].rev
      /\ \A k \in Jobs \ {j} : job'[k] = job[k]
  BY <1>1, <1>2, TransitionWrites
<1>4. NobodyReads
  BY <1>1, ReadsNothing DEF Steps
<1>5. ASSUME calm PROVE shelf[j[2]] = job[j].original
  <2>1. Current(r) /\ Reads(r)
    BY <1>1, <1>2, <1>3, <1>5 DEF Current, Reader, Truthful
  <2> QED
    BY <1>1, <1>2, <2>1 DEF Reads
<1> HIDE DEF j
<1>6. calm => Proves(j, "recovered")
  BY <1>5 DEF Proves
<1> QED
  BY <1>1, <1>2, <1>3, <1>4, <1>6, MovedTruthful

\* A refresh calls a job verified or recovered only for a reading that matches.
LEMMA VerdictsMatch ==
  ASSUME NEW j, NEW reading, Open(j)
  PROVE  /\ RefreshStatus(j, reading) = "verified" => reading = job[j].target
         /\ RefreshStatus(j, reading) = "recovered" =>
              job[j].kind = "display" /\ reading = job[j].original
<1>1. DisplayFallback(j) \notin {"verified", "recovered"}
  BY DEF DisplayFallback, Open, BlockingStatuses
<1>2. \A x : UpdateFallback(j, x) \notin {"verified", "recovered"}
  BY DEF UpdateFallback, StatusAfterRefreshError
<1>3. /\ DisplayVerdict(j, reading) = "verified" => reading = job[j].target
      /\ DisplayVerdict(j, reading) = "recovered" => reading = job[j].original
  BY <1>1 DEF DisplayVerdict
<1>4. /\ UpdateVerdict(j, reading) = "verified" => reading = job[j].target
      /\ UpdateVerdict(j, reading) # "recovered"
  BY <1>2 DEF UpdateVerdict
<1> QED
  BY <1>1, <1>2, <1>3, <1>4 DEF RefreshStatus, Verdict

\* What a refresh writes is what it compared, and that still holds.
LEMMA RefreshWriteTruthful ==
  ASSUME Inductive, Truthful, NEW r \in Requests, RefreshWrite(r),
         UNCHANGED calm
  PROVE  Truthful'
<1> DEFINE j == req[r].job
           s == RefreshStatus(j, req[r].want)
<1>1. /\ pc[r] = "refresh" /\ pc' = [pc EXCEPT ![r] = "done"]
      /\ CanTransition(j, req[r].rev, s) /\ Transition(j, s)
      /\ UNCHANGED <<req, latest, shelf, content>>
  BY DEF RefreshWrite, platform
<1>2. /\ s = "verified" => req[r].want = job[j].target
      /\ s = "recovered" =>
           job[j].kind = "display" /\ req[r].want = job[j].original
  BY <1>1, LegalMoves, VerdictsMatch DEF CanTransition, Open
<1> HIDE DEF s
<1>3. req[r].kind = "refresh" /\ j \in Jobs
  BY <1>1 DEF Inductive, Places, Rows, TypeOK, HandlerLocals, Kinds
<1>4. /\ Written(j) /\ job'[j].status = s /\ req[r].rev = job[j].rev
      /\ \A k \in Jobs \ {j} : job'[k] = job[k]
  BY <1>1, <1>3, TransitionWrites
<1>5. NobodyReads
  BY <1>1, ReadsNothing DEF Steps
<1>6. ASSUME calm PROVE Proves(j, s)
  <2>1. Current(r) /\ Reads(r)
    BY <1>1, <1>3, <1>4, <1>6 DEF Current, Reader, Truthful
  <2>2. job[j].kind = "display" =>
          job[j].target \in Displays /\ job[j].original \in Displays
    BY <1>3 DEF Inductive, Remembers
  <2>3. job[j].kind = "update" => job[j].target \in Contents
    BY <1>3 DEF Truthful
  <2> QED
    BY <1>2, <1>3, <2>1, <2>2, <2>3 DEF Reads, Proves
<1> HIDE DEF j
<1> QED
  BY <1>1, <1>3, <1>4, <1>5, <1>6, MovedTruthful

\* A new row is the last of its product, and nobody has read it yet.
LEMMA InsertTruthful ==
  ASSUME Inductive, Truthful, NobodyReads, NEW r \in Requests,
         NEW p \in Products, NEW kind \in {"display", "update"}, NEW target,
         NEW original, kind = "update" => target \in Contents,
         job[<<r, p>>] = NoJob, Insert(r, p, kind, target, original),
         UNCHANGED <<shelf, content, calm>>
  PROVE  Truthful'
<1>1. /\ Unblocked(p) /\ <<r, p>> \in Jobs
      /\ job'[<<r, p>>].status = "submitted" /\ job'[<<r, p>>].kind = kind
      /\ job'[<<r, p>>].target = target
      /\ \A k \in Jobs \ {<<r, p>>} : job'[k] = job[k]
      /\ latest'[p] = r
      /\ \A x \in Products \ {p} : latest'[x] = latest[x]
  BY DEF Insert, Jobs, Inductive, TypeOK
<1>2. ASSUME NEW d \in Requests, NEW x \in Products, Open(<<d, x>>)'
      PROVE  latest'[x] = d
  <2>1. <<d, x>> \in Jobs
    BY DEF Jobs
  <2>2. CASE x = p
    BY <1>1, <1>2, <2>1, <2>2 DEF Unblocked, Open
  <2>3. CASE x # p
    BY <1>1, <1>2, <2>1, <2>3 DEF Truthful, Open
  <2> QED
    BY <2>2, <2>3
<1>3. \A j \in Jobs : job'[j].kind = "update" => job'[j].target \in Contents
  BY <1>1 DEF Truthful
<1>4. ASSUME calm, NEW d \in Requests PROVE Reads(d)'
  <2>1. CASE Reader(d)'
    <3>1. Reader(d) /\ req'[d] = req[d] /\ Reads(d)
      BY <1>4, <2>1 DEF NobodyReads, Truthful
    <3>2. req[d].job \in Jobs /\ job[req[d].job].status # "none"
      BY <3>1 DEF Inductive, Rows, Reader
    <3>3. SameRow(req[d].job)
      BY <1>1, <3>2 DEF SameRow, NoJob
    <3> QED
      BY <3>1, <3>3, ReadingsLast
  <2>2. CASE ~ Reader(d)'
    BY <2>2 DEF Reads, Current
  <2> QED
    BY <2>1, <2>2
<1>5. ASSUME calm, NEW x \in Products, latest'[x] # Nil
      PROVE  TellsTruth(<<latest[x], x>>)'
  <2>1. CASE x = p
    BY <1>1, <2>1 DEF TellsTruth
  <2>2. CASE x # p
    <3>1. /\ latest'[x] = latest[x] /\ <<latest[x], x>> \in Jobs
          /\ TellsTruth(<<latest[x], x>>)
          /\ job'[<<latest[x], x>>] = job[<<latest[x], x>>]
      BY <1>1, <1>5, <2>2 DEF Inductive, TypeOK, Jobs, Truthful
    <3> QED
      BY <3>1 DEF TellsTruth
  <2> QED
    BY <2>1, <2>2
<1> QED
  BY <1>2, <1>3, <1>4, <1>5 DEF Truthful

\* The two INSERTs.
LEMMA InsertsTruthful ==
  ASSUME Inductive, Truthful, NEW r \in Requests, NEW p \in Products,
         DisplayInsert(r, p) \/ UpdateInsert(r, p), UNCHANGED calm
  PROVE  Truthful'
<1>1. /\ pc[r] = "insert" /\ p \in req[r].todo
      /\ UNCHANGED <<shelf, content>>
      /\ \A d \in Requests \ {r} : req'[d] = req[d]
      /\ \E s \in Steps \ {"refresh", "restore"} : pc' = [pc EXCEPT ![r] = s]
  BY DEF DisplayInsert, UpdateInsert, platform, Inductive, TypeOK, Steps
<1>2. NobodyReads
  BY <1>1, ReadsNothing
<1>3. job[<<r, p>>] = NoJob
  BY <1>1 DEF Inductive, Rows
<1>4. CASE DisplayInsert(r, p)
  BY <1>1, <1>2, <1>3, <1>4, InsertTruthful DEF DisplayInsert
<1>5. CASE UpdateInsert(r, p)
  <2>1. req[r].want \in Contents
    BY <1>5 DEF UpdateInsert, Inductive, Sent
  <2> QED
    BY <1>1, <1>2, <1>3, <1>5, <2>1, InsertTruthful DEF UpdateInsert
<1> QED
  BY <1>4, <1>5

\* A request begins with what the row and the platform show at that moment.
LEMMA FirstReadTruthful ==
  ASSUME Inductive, Truthful, NEW r \in Requests, NEW s \in Steps,
         pc' = [pc EXCEPT ![r] = s], \A d \in Requests \ {r} : req'[d] = req[d],
         calm => Reads(r)', UNCHANGED <<job, latest, shelf, content, calm>>
  PROVE  Truthful'
<1>1. \A j \in Jobs : SameRow(j) /\ ~ Written(j)
  BY DEF SameRow, Written, Inductive, TypeOK, JobRows
<1>2. ASSUME calm, NEW d \in Requests \ {r} PROVE Reads(d)'
  <2>1. pc'[d] = pc[d] /\ req'[d] = req[d] /\ Reads(d)
    BY <1>2 DEF Inductive, TypeOK, Truthful
  <2> QED
    BY <2>1 DEF Reads, Current, Reader, Open
<1> QED
  BY <1>1, <1>2, RowsKeepTruth

\* A refresh reads what the platform shows; a failed read is no content.
LEMMA RefreshReadTruthful ==
  ASSUME Inductive, Truthful, NEW r \in Requests, NEW j \in Jobs,
         RefreshRead(r, j), UNCHANGED calm
  PROVE  Truthful'
<1>1. PICK reading \in ReadingsOf(j) :
        req' = [req EXCEPT ![r] =
                  [NoRequest EXCEPT !.kind = "refresh", !.job = j,
                                    !.rev = job[j].rev, !.want = reading]]
  BY DEF RefreshRead
<1>2. /\ pc' = [pc EXCEPT ![r] = "refresh"] /\ Open(j)
      /\ UNCHANGED <<job, latest, shelf, content>>
  BY DEF RefreshRead, platform
<1>3. /\ req'[r].kind = "refresh" /\ req'[r].job = j /\ req'[r].want = reading
      /\ \A d \in Requests \ {r} : req'[d] = req[d]
  BY <1>1 DEF Inductive, TypeOK, NoRequest
<1>4. job[j].kind = "display" /\ reading \in Displays => shelf[j[2]] = reading
  BY DEF ReadingsOf, Shown, Displays
<1>5. job[j].kind = "update" /\ reading \in Contents => content[j[2]] = reading
  BY MutationsAssumption DEF ReadingsOf
<1>6. Reads(r)'
  BY <1>2, <1>3, <1>4, <1>5 DEF Reads, Open
<1> QED
  BY <1>2, <1>3, <1>6, FirstReadTruthful DEF Steps

\* A recovery reads a display state, never a product under review.
LEMMA RecoverReadTruthful ==
  ASSUME Inductive, Truthful, NEW r \in Requests, NEW j \in Jobs,
         RecoverRead(r, j), UNCHANGED calm
  PROVE  Truthful'
<1> DEFINE found == [p \in Products |-> IF p = j[2] THEN Shown(p) ELSE "none"]
<1>1. /\ pc' = [pc EXCEPT ![r] = "restore"] /\ Open(j)
      /\ Shown(j[2]) \in Displays
      /\ req' = [req EXCEPT ![r] =
           [NoRequest EXCEPT !.kind = "recover", !.prods = {j[2]},
                             !.todo = {j[2]}, !.job = j, !.rev = job[j].rev,
                             !.want = job[j].original, !.seen = found]]
      /\ UNCHANGED <<job, latest, shelf, content>>
  BY DEF RecoverRead, platform, Open, BlockingStatuses
<1>2. found[j[2]] = shelf[j[2]]
  BY <1>1 DEF Jobs, Shown, Displays
<1> HIDE DEF found
<1>3. /\ req'[r].kind = "recover" /\ req'[r].job = j
      /\ req'[r].want = job[j].original /\ req'[r].seen = found
      /\ \A d \in Requests \ {r} : req'[d] = req[d]
  BY <1>1 DEF Inductive, TypeOK, NoRequest
<1>4. Reads(r)'
  BY <1>1, <1>2, <1>3 DEF Reads, Open
<1> QED
  BY <1>1, <1>3, <1>4, FirstReadTruthful DEF Steps

\* In calm weather the platform carries out a write while its handler waits,
\* and then the unfinished job of the product is the one the write belongs to.
LEMMA AppliesToItsJob ==
  ASSUME Inductive, calm, NEW k \in Requests, NEW p \in Products,
         PlatformApply(k, p)
  PROVE  /\ Own(k, p) \in Jobs /\ Own(k, p)[2] = p /\ Open(Own(k, p))
         /\ \A d \in Requests : Reader(d) /\ req[d].job = Own(k, p) =>
              req[d].rev < job[Own(k, p)].rev
<1>1. /\ pc[k] = "wait" /\ p \in left[k] /\ req[k].kind \in Kinds
      /\ Places(k) /\ Sent(k) /\ Held(k)
  BY DEF PlatformApply, Attended, Inductive, TypeOK, HandlerLocals
<1>2. p \in req[k].prods /\ req[k].kind \in {"display", "update", "recover"}
  BY <1>1 DEF Sent, Places, Kinds
<1>3. CASE req[k].kind = "recover"
  <2>1. req[k].job \in Jobs /\ req[k].job[2] = p /\ Own(k, p) = req[k].job
    BY <1>2, <1>3, RecoversARow DEF Own
  <2>2. Restorer(k)
    BY <1>1, <1>3 DEF Restorer
  <2>3. Open(req[k].job)
    BY <1>1, <2>2 DEF Held, Open, BlockingStatuses
  <2>4. \A d \in Requests : Reader(d) => d # k
    BY <1>1 DEF Reader
  <2> QED
    BY <1>1, <2>1, <2>2, <2>3, <2>4 DEF Held
<1>4. CASE req[k].kind # "recover"
  <2>1. Own(k, p) = <<k, p>> /\ <<k, p>> \in Jobs
    BY <1>4 DEF Own, Jobs
  <2>2. Open(<<k, p>>)
    BY <1>1, <1>2, <1>4 DEF Held, Open, BlockingStatuses
  <2>3. \A d \in Requests : Reader(d) => req[d].job # <<k, p>>
    BY <1>1 DEF Inductive, Held, Reader
  <2> QED
    BY <2>1, <2>2, <2>3
<1> QED
  BY <1>3, <1>4

\* A write that lands changes one product, whose last job is still open.
LEMMA PlatformApplyTruthful ==
  ASSUME Inductive, Truthful, NEW k \in Requests, NEW p \in Products,
         PlatformApply(k, p), UNCHANGED calm
  PROVE  Truthful'
<1>1. /\ UNCHANGED <<job, latest, pc, req, calm>>
      /\ \A x \in Products \ {p} : /\ shelf'[x] = shelf[x]
                                  /\ content'[x] = content[x]
  BY DEF PlatformApply, handler, Inductive, TypeOK
<1>2. /\ \A r \in Requests, x \in Products : Open(<<r, x>>)' => latest'[x] = r
      /\ \A j \in Jobs : job'[j].kind = "update" => job'[j].target \in Contents
  BY <1>1 DEF Truthful, Open
<1>3. ASSUME calm PROVE /\ \A r \in Requests : Reads(r)'
                        /\ \A x \in Products : latest[x] # Nil =>
                             TellsTruth(<<latest[x], x>>)'
  <2> DEFINE own == Own(k, p)
  <2>1. /\ own \in Jobs /\ own[2] = p /\ Open(own)
        /\ \A d \in Requests : Reader(d) /\ req[d].job = own =>
             req[d].rev < job[own].rev
    BY <1>3, AppliesToItsJob
  <2> HIDE DEF own
  <2>2. PICK o \in Requests : own = <<o, p>>
    BY <2>1 DEF Jobs
  <2>3. ASSUME NEW r \in Requests PROVE Reads(r)'
    <3> SUFFICES ASSUME Current(r) PROVE Reads(r)'
      BY <1>1 DEF Reads, Current, Reader
    <3>1. /\ Reads(r) /\ req[r].job \in Jobs /\ Open(req[r].job)
          /\ job[req[r].job].rev \in Nat
      BY <1>3 DEF Truthful, Reads, Current, Reader, Inductive, Rows, TypeOK,
        JobRows
    <3>2. req[r].job # own
      BY <2>1, <3>1 DEF Current
    <3>3. req[r].job[2] \in Products \ {p}
      <4>1. PICK e \in Requests, x \in Products : req[r].job = <<e, x>>
        BY <3>1 DEF Jobs
      <4>2. x # p
        BY <2>1, <2>2, <3>1, <3>2, <4>1 DEF Inductive, OneOpenJob
      <4> QED
        BY <4>1, <4>2
    <3> QED
      BY <1>1, <3>1, <3>3 DEF Reads, Current, Reader, Open
  <2>4. ASSUME NEW x \in Products, latest[x] # Nil
        PROVE  TellsTruth(<<latest[x], x>>)'
    <3>1. CASE x = p
      <4>1. latest[p] = o /\ job'[<<o, p>>].status \in BlockingStatuses
        BY <1>1, <2>1, <2>2 DEF Truthful, Open
      <4> QED
        BY <1>1, <3>1, <4>1 DEF TellsTruth, BlockingStatuses
    <3>2. CASE x # p
      <4>1. TellsTruth(<<latest[x], x>>)
        BY <1>3, <2>4 DEF Truthful
      <4>2. <<latest[x], x>>[2] = x
        OBVIOUS
      <4> QED
        BY <1>1, <3>2, <4>1, <4>2 DEF TellsTruth
    <3> QED
      BY <3>1, <3>2
  <2> QED
    BY <2>3, <2>4
<1> QED
  BY <1>1, <1>2, <1>3 DEF Truthful

\* The clock, and what the platform does without touching a product.
LEMMA SurroundingsTruthful ==
  ASSUME Inductive, Truthful, UNCHANGED calm,
         \/ \E j \in Jobs : Age(j)
         \/ \E r \in Requests, ps \in SUBSET Products : PlatformTake(r, ps)
         \/ \E r \in Requests : PlatformReject(r)
         \/ \E p \in Products : ReviewEnds(p)
         \/ UNCHANGED vars
  PROVE  Truthful'
<1>1. UNCHANGED <<pc, req, latest, shelf, content>>
  BY DEF Age, PlatformTake, PlatformReject, ReviewEnds, handler, platform, vars
<1>2. \A j \in Jobs : SameRow(j)
  BY DEF Age, PlatformTake, PlatformReject, ReviewEnds, vars, SameRow,
    Inductive, TypeOK, JobRows
<1>3. NobodyReads
  BY <1>1 DEF NobodyReads, Reader
<1> QED
  BY <1>1, <1>2, <1>3, StillTruthful

\* Every step of a handler.
LEMMA HandlerTruthful ==
  ASSUME Inductive, Truthful, NEW r \in Requests, HandlerStep(r),
         UNCHANGED calm
  PROVE  Truthful'
BY QuietTruthful, SettlingTruthful, DisplayGiveUpTruthful,
   RecoverIntentTruthful, RecoverMatchedTruthful, RefreshWriteTruthful,
   InsertsTruthful, RefreshReadTruthful, RecoverReadTruthful DEF HandlerStep

\* Every step of the system.
LEMMA TruthfulKeeps == Inductive /\ Truthful /\ [Next]_vars => Truthful'
<1> SUFFICES ASSUME Inductive, Truthful, [Next]_vars PROVE Truthful'
  OBVIOUS
<1>1. CASE Next
  BY <1>1, HandlerTruthful, SurroundingsTruthful, PlatformApplyTruthful
     DEF Next, PlatformStep
<1>2. CASE UNCHANGED vars
  BY <1>2, SurroundingsTruthful DEF vars
<1> QED
  BY <1>1, <1>2

\* In calm weather the last job of a product tells the truth when it is closed:
\* what a refresh or a recovery compared is still what the product is when the
\* row takes its verdict, because the write of the open job is the only one.
THEOREM ClosedJobsTellTheTruth == Spec => []OutcomeHolds
<1>1. Truthful => OutcomeHolds
  BY DEF Truthful, OutcomeHolds, TellsTruth
<1> QED
  BY <1>1, InitHolds, InductiveKeeps, InitTruthful, TruthfulKeeps, PTL
     DEF Spec

=============================================================================
