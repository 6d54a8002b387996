----------------------- MODULE ProductCreationProofs -----------------------
(***************************************************************************)
(* Proofs about ProductCreation, for every set of requests and payloads.   *)
(* The invariant Inductive adds to the checked properties what a handler   *)
(* knows at each of its steps.                                             *)
(***************************************************************************)
EXTENDS ProductCreation, TLAPS

\* What a row can look like: the statuses a creation uses, its payload and what
\* the platform made of it.
RowFits(r) ==
  /\ job[r].status \in {"none", "submitted", "verifying",
                        "recovery-required", "verified", "failed"}
  /\ job[r].status = "none" => job[r] = NoJob /\ call[r] = "none"
  /\ job[r].status # "none" =>
       job[r].payload = req[r].payload /\ job[r].rev \geq 1
  /\ job[r].status = "verified" => r \in listed
  /\ r \in made <=> call[r] = "accepted"

RowInv == \A r \in Requests : RowFits(r)

\* What a handler knows at each step.
Knows(r) ==
  /\ pc[r] \in {"idle", "insert"} => job[r] = NoJob /\ call[r] = "none"
  /\ pc[r] = "idle" => req[r] = NoRequest
  /\ pc[r] \in {"stored", "send", "wait"} => Open(r)
  /\ pc[r] \in {"stored", "send"} => call[r] = "none"
  /\ pc[r] \in {"stored", "send", "wait", "settle", "giveup"} =>
       job[r].product = Nil
  /\ pc[r] = "settle" => call[r] = "accepted"
  /\ pc[r] = "giveup" =>
       /\ req[r].verdict \in {"failed", "recovery-required"}
       /\ req[r].verdict = "failed" => call[r] = "rejected"
  /\ pc[r] \in {"send", "wait", "settle", "confirm"} => req[r].job = r
  /\ pc[r] = "refresh" => req[r].job \in Requests
  /\ pc[r] = "refresh" /\ req[r].found => req[r].job \in listed

HandlerInv == \A r \in Requests : Knows(r)

Inductive ==
  /\ TypeOK
  /\ OneOpenCreation
  /\ AcceptedKeepsProduct
  /\ FailedMadeNothing
  /\ OneLockPerProduct
  /\ RowInv
  /\ HandlerInv

---------------------------------------------------------------------------
\* What the status machine allows: only an open job moves, never back to
\* submitted.
LEMMA Movement ==
  ASSUME NEW from, NEW to, MayMove(from, to)
  PROVE  from \in BlockingStatuses /\ to \in Statuses \ {"submitted"}
BY DEF MayMove, Moves, BlockingStatuses, TerminalStatuses, Statuses

\* Rows and handler locals as TypeOK has them.
Rows == [status : Statuses \cup {"none"}, payload : Payloads \cup {Nil},
         rev : Nat, product : Requests \cup {Nil}, aged : BOOLEAN]
Locals == [payload : Payloads \cup {Nil}, job : Requests \cup {Nil},
           rev : Nat, found : BOOLEAN,
           verdict : {"failed", "recovery-required", "none"}]

\* What growing old leaves of a row (Age).
LEMMA AgedRow ==
  ASSUME NEW row \in Rows
  PROVE  LET old == [row EXCEPT !.aged = TRUE] IN
         /\ old \in Rows
         /\ old.status = row.status /\ old.payload = row.payload
         /\ old.rev = row.rev /\ old.product = row.product
BY DEF Rows

\* What the acceptance leaves of a row (CreationSettle).
LEMMA AcceptedRow ==
  ASSUME NEW row \in Rows, NEW p \in Requests
  PROVE  LET new == [row EXCEPT !.status = "verifying", !.rev = @ + 1,
                                !.product = p] IN
         /\ new \in Rows /\ new.status = "verifying"
         /\ new.rev = row.rev + 1 /\ new.product = p
         /\ new.payload = row.payload
<1> DEFINE n == row.rev + 1
           new == [row EXCEPT !.status = "verifying", !.rev = n, !.product = p]
<1>1. "verifying" \in Statuses \cup {"none"} /\ n \in Nat
  BY DEF Statuses, BlockingStatuses, Rows
<1> HIDE DEF n
<1>2. /\ new \in Rows /\ new.status = "verifying" /\ new.rev = n
      /\ new.product = p /\ new.payload = row.payload
  BY <1>1 DEF Rows
<1> QED
  BY <1>2 DEF n

\* An update that changes the status of an open row and ends a handler.
LEMMA MovePreserves ==
  ASSUME Inductive, NEW r \in Requests, NEW j \in Requests,
         NEW st \in {"verifying", "recovery-required", "verified", "failed"},
         pc[r] \in {"giveup", "refresh"},
         job[j].status \in BlockingStatuses,
         st \in {"verifying", "verified"} => job[j].product # Nil,
         st = "verified" => j \in listed,
         st = "failed" => call[j] = "rejected" /\ job[j].product = Nil,
         pc[j] \in {"stored", "send", "wait"} => st = "recovery-required",
         job' = [job EXCEPT ![j].status = st, ![j].rev = @ + 1],
         pc' = [pc EXCEPT ![r] = "done"],
         UNCHANGED <<locked, req, call, made, listed>>
  PROVE  Inductive'
<1> USE DEF Inductive
<1> DEFINE row == [job[j] EXCEPT !.status = st, !.rev = @ + 1]
<1>1. job \in [Requests -> Rows] /\ job[j] \in Rows
  BY DEF TypeOK, Rows
<1>2. /\ row \in Rows /\ row.status = st /\ row.payload = job[j].payload
      /\ row.product = job[j].product /\ row.rev = job[j].rev + 1
      /\ job[j].rev \in Nat
  BY <1>1 DEF Rows, Statuses, BlockingStatuses, TerminalStatuses
<1>3. job' = [job EXCEPT ![j] = row]
  OBVIOUS
<1> HIDE DEF row
<1>4. /\ job' \in [Requests -> Rows] /\ job'[j] = row
      /\ \A s \in Requests \ {j} : job'[s] = job[s]
  BY <1>1, <1>2, <1>3
<1>5. \A s \in Requests : Open(s)' => Open(s)
  BY <1>4 DEF Open
<1>6. TypeOK'
  BY <1>4 DEF TypeOK, Rows, Steps
<1>7. \A s \in Requests : /\ job'[s].payload = job[s].payload
                          /\ job'[s].product = job[s].product
  BY <1>2, <1>4
<1>8. OneOpenCreation' /\ OneLockPerProduct'
  BY <1>5, <1>7 DEF OneOpenCreation, OneLockPerProduct
<1>9. AcceptedKeepsProduct'
  BY <1>2, <1>4, <1>7 DEF AcceptedKeepsProduct
<1>10. FailedMadeNothing'
  BY <1>2, <1>4 DEF FailedMadeNothing, RowInv, RowFits
<1>11. RowInv'
  <2> SUFFICES ASSUME NEW s \in Requests PROVE RowFits(s)'
    BY DEF RowInv
  <2>1. RowFits(s)
    BY DEF RowInv
  <2>2. CASE s # j
    BY <1>4, <2>1, <2>2 DEF RowFits
  <2>3. CASE s = j
    BY <1>2, <1>4, <2>1, <2>3 DEF RowFits, BlockingStatuses, NoJob
  <2> QED
    BY <2>2, <2>3
<1>12. HandlerInv'
  <2> SUFFICES ASSUME NEW s \in Requests PROVE Knows(s)'
    BY DEF HandlerInv
  <2>1. Knows(s) /\ (pc'[s] = pc[s] \/ pc'[s] = "done")
    BY DEF HandlerInv, TypeOK
  <2>2. CASE s # j
    BY <1>4, <2>1, <2>2 DEF Knows, Open
  <2>3. CASE s = j
    <3>1. pc[s] \notin {"idle", "insert"}
      BY <2>1, <2>3 DEF Knows, NoJob, BlockingStatuses
    <3> QED
      BY <1>2, <1>4, <2>1, <2>3, <3>1 DEF Knows, Open, BlockingStatuses
  <2> QED
    BY <2>2, <2>3
<1> QED
  BY <1>6, <1>8, <1>9, <1>10, <1>11, <1>12

\* A step that only changes where a handler is and what it remembers.
LEMMA LocalPreserves ==
  ASSUME Inductive, NEW r \in Requests, NEW step \in Steps, NEW new \in Locals,
         new.payload = req[r].payload,
         pc' = [pc EXCEPT ![r] = step],
         req' = [req EXCEPT ![r] = new],
         UNCHANGED <<job, locked, call, made, listed>>,
         Knows(r)'
  PROVE  Inductive'
<1> USE DEF Inductive
<1>1. /\ req \in [Requests -> Locals] /\ pc \in [Requests -> Steps]
  BY DEF TypeOK, Locals
<1>2. /\ req' \in [Requests -> Locals] /\ pc' \in [Requests -> Steps]
      /\ req'[r] = new
      /\ \A s \in Requests \ {r} : req'[s] = req[s] /\ pc'[s] = pc[s]
  BY <1>1
<1>3. TypeOK'
  BY <1>2 DEF TypeOK, Locals
<1>4. /\ OneOpenCreation' /\ AcceptedKeepsProduct'
      /\ FailedMadeNothing' /\ OneLockPerProduct'
  BY DEF OneOpenCreation, AcceptedKeepsProduct, FailedMadeNothing,
     OneLockPerProduct, Open
<1>5. RowInv'
  BY <1>2 DEF RowInv, RowFits
<1>6. HandlerInv'
  <2> SUFFICES ASSUME NEW s \in Requests, s # r PROVE Knows(s)'
    BY DEF HandlerInv
  <2>1. Knows(s)
    BY DEF HandlerInv
  <2> QED
    BY <1>2, <2>1 DEF Knows, Open
<1> QED
  BY <1>3, <1>4, <1>5, <1>6

\* A handler that gives up on its call.
LEMMA GivingUpPreserves ==
  ASSUME Inductive, NEW r \in Requests,
         NEW v \in {"failed", "recovery-required"},
         pc[r] = "wait", v = "failed" => call[r] = "rejected",
         pc' = [pc EXCEPT ![r] = "giveup"],
         req' = [req EXCEPT ![r].verdict = v],
         UNCHANGED <<job, locked, call, made, listed>>
  PROVE  Inductive'
<1> DEFINE new == [req[r] EXCEPT !.verdict = v]
<1>1. /\ req \in [Requests -> Locals] /\ req[r] \in Locals
      /\ pc \in [Requests -> Steps] /\ Knows(r)
  BY DEF Inductive, TypeOK, Locals, HandlerInv
<1>2. /\ new \in Locals /\ new.verdict = v /\ new.payload = req[r].payload
  BY <1>1 DEF Locals
<1>3. req' = [req EXCEPT ![r] = new]
  OBVIOUS
<1> HIDE DEF new
<1>4. Knows(r)'
  <2>1. pc'[r] = "giveup" /\ req'[r] = new
    BY <1>1, <1>3
  <2> QED
    BY <1>1, <1>2, <2>1 DEF Knows
<1>5. "giveup" \in Steps
  BY DEF Steps
<1> QED
  BY <1>2, <1>3, <1>4, <1>5, LocalPreserves

\* A handler that reads its row back after the INSERT.
LEMMA RereadPreserves ==
  ASSUME Inductive, NEW r \in Requests, Reread(r) PROVE Inductive'
<1> DEFINE new == [req[r] EXCEPT !.job = r, !.rev = job[r].rev]
<1>1. /\ req \in [Requests -> Locals] /\ req[r] \in Locals
      /\ pc \in [Requests -> Steps] /\ Knows(r) /\ job[r].rev \in Nat
  BY DEF Inductive, TypeOK, Locals, HandlerInv
<1>2. /\ new \in Locals /\ new.job = r /\ new.payload = req[r].payload
  BY <1>1 DEF Locals
<1>3. /\ req' = [req EXCEPT ![r] = new] /\ pc[r] = "stored"
      /\ pc' = [pc EXCEPT ![r] = "send"]
      /\ UNCHANGED <<job, locked, call, made, listed>>
  BY DEF Reread, platform
<1> HIDE DEF new
<1>4. Knows(r)'
  <2>1. pc'[r] = "send" /\ req'[r] = new
    BY <1>1, <1>3
  <2> QED
    BY <1>1, <1>2, <1>3, <2>1 DEF Knows, Open
<1>5. "send" \in Steps
  BY DEF Steps
<1> QED
  BY <1>2, <1>3, <1>4, <1>5, LocalPreserves

\* A handler that looks for the product it was just told of.
LEMMA ConfirmPreserves ==
  ASSUME Inductive, NEW r \in Requests, Confirm(r) PROVE Inductive'
<1>1. PICK found \in Readings(r) :
        req' = [req EXCEPT ![r].rev = job[r].rev, ![r].found = found]
  BY DEF Confirm
<1> DEFINE new == [req[r] EXCEPT !.rev = job[r].rev, !.found = found]
<1>2. /\ req \in [Requests -> Locals] /\ req[r] \in Locals
      /\ pc \in [Requests -> Steps] /\ Knows(r) /\ job[r].rev \in Nat
  BY DEF Inductive, TypeOK, Locals, HandlerInv
<1>3. found \in BOOLEAN /\ (found => r \in listed)
  BY DEF Readings
<1>4. /\ new \in Locals /\ new.job = req[r].job /\ new.found = found
      /\ new.payload = req[r].payload
  BY <1>2, <1>3 DEF Locals
<1>5. /\ req' = [req EXCEPT ![r] = new] /\ pc[r] = "confirm"
      /\ pc' = [pc EXCEPT ![r] = "refresh"]
      /\ UNCHANGED <<job, locked, call, made, listed>>
  BY <1>1 DEF Confirm, platform
<1> HIDE DEF new
<1>6. Knows(r)'
  <2>1. pc'[r] = "refresh" /\ req'[r] = new /\ req[r].job = r
    BY <1>2, <1>5 DEF Knows
  <2> QED
    BY <1>3, <1>4, <1>5, <2>1 DEF Knows
<1>7. "refresh" \in Steps
  BY DEF Steps
<1> QED
  BY <1>4, <1>5, <1>6, <1>7, LocalPreserves

\* The catch block keeps the invariant.
LEMMA GiveUpInductive ==
  ASSUME Inductive, NEW r \in Requests, CreationGiveUp(r) PROVE Inductive'
<1> DEFINE st == req[r].verdict
<1>1. /\ pc[r] = "giveup"
      /\ job[r].status \in BlockingStatuses
      /\ job' = [job EXCEPT ![r].status = st, ![r].rev = @ + 1]
      /\ pc' = [pc EXCEPT ![r] = "done"]
      /\ UNCHANGED <<locked, req, call, made, listed>>
  BY Movement DEF CreationGiveUp, CanTransition, Transition, platform
<1>2. Knows(r) /\ RowFits(r)
  BY DEF Inductive, HandlerInv, RowInv
<1>3. /\ st \in {"failed", "recovery-required"} /\ job[r].product = Nil
      /\ st = "failed" => call[r] = "rejected"
  BY <1>1, <1>2 DEF Knows
<1> HIDE DEF st
<1> QED
  BY <1>1, <1>3, MovePreserves

\* So does the end of a refresh.
LEMMA RefreshInductive ==
  ASSUME Inductive, NEW r \in Requests, RefreshWrite(r) PROVE Inductive'
<1> DEFINE j == req[r].job
           st == RefreshStatus(j, req[r].found)
<1>1. /\ pc[r] = "refresh" /\ job[j].status \in BlockingStatuses
      /\ job' = [job EXCEPT ![j].status = st, ![j].rev = @ + 1]
      /\ pc' = [pc EXCEPT ![r] = "done"]
      /\ UNCHANGED <<locked, req, call, made, listed>>
  BY Movement DEF RefreshWrite, CanTransition, Transition, platform
<1>2. /\ j \in Requests
      /\ req[r].found => j \in listed
      /\ pc[j] \in {"stored", "send", "wait"} => job[j].product = Nil
  BY <1>1 DEF Inductive, HandlerInv, Knows
<1>3. /\ st \in {"verifying", "verified", "recovery-required"}
      /\ job[j].product = Nil => st = "recovery-required"
      /\ st = "verified" => j \in listed
  BY <1>2 DEF RefreshStatus
<1> HIDE DEF st
<1>4. \E i \in Requests :
        /\ job[i].status \in BlockingStatuses
        /\ job' = [job EXCEPT ![i].status = st, ![i].rev = @ + 1]
        /\ pc[i] \in {"stored", "send", "wait"} => job[i].product = Nil
        /\ job[i].product = Nil => st = "recovery-required"
        /\ st = "verified" => i \in listed
  BY <1>1, <1>2, <1>3
<1> QED
  BY <1>1, <1>3, <1>4, MovePreserves

\* And the step that records the new product.
LEMMA SettleInductive ==
  ASSUME Inductive, NEW r \in Requests, CreationSettle(r) PROVE Inductive'
<1> DEFINE row == [job[r] EXCEPT !.status = "verifying", !.rev = @ + 1,
                                 !.product = r]
<1>1. /\ pc[r] = "settle" /\ r \notin locked
      /\ job[r].status \in BlockingStatuses
      /\ job' = [job EXCEPT ![r] = row]
      /\ pc' = [pc EXCEPT ![r] = "confirm"]
      /\ UNCHANGED <<locked, req, call, made, listed>>
  BY Movement DEF CreationSettle, CanTransition, platform
<1>2. /\ job \in [Requests -> Rows] /\ job[r] \in Rows
      /\ job[r].rev \in Nat /\ pc \in [Requests -> Steps]
  BY DEF Inductive, TypeOK, Rows
<1>3. /\ row \in Rows /\ row.status = "verifying"
      /\ row.rev = job[r].rev + 1
      /\ row.product = r /\ row.payload = job[r].payload
  BY <1>2, AcceptedRow
<1> HIDE DEF row
<1>5. /\ job' \in [Requests -> Rows] /\ job'[r] = row
      /\ pc' \in [Requests -> Steps] /\ pc'[r] = "confirm"
      /\ \A s \in Requests \ {r} : job'[s] = job[s] /\ pc'[s] = pc[s]
  BY <1>1, <1>2, <1>3 DEF Steps
<1>6. /\ call[r] = "accepted" /\ r \in made
      /\ Open(r) /\ job'[r].payload = job[r].payload
      /\ \A s \in Requests : Open(s)' => Open(s)
  BY <1>1, <1>3, <1>5
     DEF Inductive, HandlerInv, Knows, RowInv, RowFits, Open
<1>7. TypeOK'
  BY <1>1, <1>5 DEF Inductive, TypeOK, Rows
<1>8. OneOpenCreation' /\ AcceptedKeepsProduct'
  BY <1>1, <1>3, <1>5, <1>6 DEF Inductive, OneOpenCreation, AcceptedKeepsProduct
<1>9. FailedMadeNothing' /\ OneLockPerProduct'
  BY <1>1, <1>3, <1>5 DEF Inductive, FailedMadeNothing, OneLockPerProduct, Open
<1>10. ASSUME NEW s \in Requests PROVE RowFits(s)' /\ Knows(s)'
  <2>1. RowFits(s) /\ Knows(s)
    BY DEF Inductive, HandlerInv, RowInv
  <2>2. CASE s = r
    <3>1. Knows(r)'
      BY <1>1, <1>3, <1>5 DEF Knows, Inductive, HandlerInv
    <3>2. RowFits(r)'
      BY <1>1, <1>2, <1>3, <1>5, <1>6, <2>1, <2>2
         DEF RowFits, BlockingStatuses, NoJob
    <3> QED
      BY <2>2, <3>1, <3>2
  <2>3. CASE s # r
    BY <1>1, <1>5, <2>1, <2>3 DEF RowFits, Knows, Open
  <2> QED
    BY <2>2, <2>3
<1> QED
  BY <1>7, <1>8, <1>9, <1>10 DEF Inductive, RowInv, HandlerInv

\* The invariant holds before any request.
LEMMA InitInductive == Init => Inductive
BY CreationAssumption DEF Init, Inductive, TypeOK, OneOpenCreation,
   AcceptedKeepsProduct, FailedMadeNothing, OneLockPerProduct, RowInv,
   RowFits, HandlerInv, Knows, NoJob, NoRequest, Open, Statuses, BlockingStatuses,
   TerminalStatuses, Steps, Calls

\* Every step keeps it: one case per action of Next.
LEMMA StepInductive == Inductive /\ [Next]_vars => Inductive'
<1> SUFFICES ASSUME Inductive, [Next]_vars PROVE Inductive'
  OBVIOUS
<1> USE CreationAssumption DEF Inductive, TypeOK, OneOpenCreation,
      AcceptedKeepsProduct, FailedMadeNothing, OneLockPerProduct, RowInv,
      RowFits, HandlerInv, Knows, Open
<1>1. ASSUME NEW r \in Requests, \E f \in Payloads : CreationCheck(r, f)
      PROVE  Inductive'
  BY <1>1 DEF CreationCheck, platform, NoJob, NoRequest, Steps, BlockingStatuses
<1>2. ASSUME NEW r \in Requests, CreationInsert(r) PROVE Inductive'
  BY <1>2 DEF CreationInsert, platform, Unblocked, NoJob, Statuses,
     BlockingStatuses, TerminalStatuses, Steps, Calls
<1>3. ASSUME NEW r \in Requests, Send(r) PROVE Inductive'
  BY <1>3 DEF Send, Steps, Calls, BlockingStatuses
<1>4. ASSUME NEW r \in Requests, AnswerAccepted(r) PROVE Inductive'
  BY <1>4 DEF AnswerAccepted, platform, Steps
<1>5. ASSUME NEW r \in Requests, AnswerRejected(r) PROVE Inductive'
  BY <1>5, GivingUpPreserves DEF AnswerRejected, platform, FailureStatus
<1>6. ASSUME NEW r \in Requests, AnswerUnknown(r) PROVE Inductive'
  BY <1>6, GivingUpPreserves DEF AnswerUnknown, platform, FailureStatus
<1>7. ASSUME NEW r \in Requests, CreationGiveUp(r) PROVE Inductive'
  BY <1>7, GiveUpInductive
<1>8. ASSUME NEW r \in Requests, CreationSettle(r) PROVE Inductive'
  BY <1>8, SettleInductive
<1>9. ASSUME NEW r \in Requests, Confirm(r) PROVE Inductive'
  BY <1>9, ConfirmPreserves
<1>10. ASSUME NEW r \in Requests, \E j \in Requests : RefreshRead(r, j)
       PROVE  Inductive'
  BY <1>10 DEF RefreshRead, Readings, platform, NoRequest, Statuses,
     BlockingStatuses, TerminalStatuses, Steps, Calls
<1>11. ASSUME NEW r \in Requests, RefreshWrite(r) PROVE Inductive'
  BY <1>11, RefreshInductive
<1>12. ASSUME NEW r \in Requests, Abort(r) PROVE Inductive'
  BY <1>12 DEF Abort, platform, Steps
<1>13. ASSUME NEW r \in Requests, Age(r) PROVE Inductive'
  <2> DEFINE old == [job[r] EXCEPT !.aged = TRUE]
  <2>1. job[r].status # "none" /\ UNCHANGED <<locked, handler, platform>>
    BY <1>13 DEF Age, BlockingStatuses
  <2>2. /\ job' = [job EXCEPT ![r] = old]
        /\ job \in [Requests -> Rows]
    BY <1>13 DEF Age, Rows
  <2>3. /\ old \in Rows
        /\ old.status = job[r].status /\ old.payload = job[r].payload
        /\ old.rev = job[r].rev /\ old.product = job[r].product
    BY <2>2, AgedRow
  <2> HIDE DEF old
  <2>4. \A s \in Requests :
          /\ job'[s].status = job[s].status
          /\ job'[s].payload = job[s].payload
          /\ job'[s].rev = job[s].rev
          /\ job'[s].product = job[s].product
          /\ job[s].status = "none" => job'[s] = job[s]
    BY <2>1, <2>2, <2>3
  <2>5. \A s \in Requests : job[s] = NoJob => job'[s] = NoJob
    <3>1. job[r] # NoJob
      BY <2>1 DEF NoJob
    <3> QED
      BY <3>1, <2>2
  <2>6. TypeOK'
    <3>1. job' \in [Requests -> Rows]
      BY <2>2, <2>3
    <3>2. UNCHANGED <<locked, pc, req, call, made, listed>>
      BY <2>1 DEF handler, platform
    <3> QED
      BY <3>1, <3>2 DEF Rows
  <2>7. /\ OneOpenCreation' /\ AcceptedKeepsProduct'
        /\ FailedMadeNothing' /\ OneLockPerProduct'
    BY <2>1, <2>4 DEF handler, platform
  <2>8. RowInv'
    BY <2>1, <2>4 DEF handler, platform
  <2>9. HandlerInv'
    BY <2>1, <2>4, <2>5 DEF handler, platform
  <2> QED
    BY <2>6, <2>7, <2>8, <2>9
<1>14. ASSUME NEW r \in Requests, OtherOpens(r) PROVE Inductive'
  BY <1>14 DEF OtherOpens, handler, platform
<1>15. ASSUME NEW r \in Requests, OtherCloses(r) PROVE Inductive'
  BY <1>15 DEF OtherCloses, handler, platform
<1>16. ASSUME NEW r \in Requests, PlatformCreate(r) PROVE Inductive'
  BY <1>16 DEF PlatformCreate, handler, Calls
<1>17. ASSUME NEW r \in Requests, PlatformReject(r) PROVE Inductive'
  BY <1>17 DEF PlatformReject, handler, Calls
<1>18. ASSUME NEW r \in Requests, PlatformList(r) PROVE Inductive'
  BY <1>18 DEF PlatformList, handler
<1>19. ASSUME NEW r \in Requests, Reread(r) PROVE Inductive'
  BY <1>19, RereadPreserves
<1>20. CASE UNCHANGED vars
  BY <1>20 DEF vars, handler, platform
<1> QED
  BY <1>1, <1>2, <1>3, <1>4, <1>5, <1>6, <1>7, <1>8, <1>9, <1>10, <1>11,
     <1>12, <1>13, <1>14, <1>15, <1>16, <1>17, <1>18, <1>19,
     <1>20 DEF Next

\* However creation requests, refreshes, lost answers and evictions interleave:
\* rows, handlers and platform state keep their types.
THEOREM TypeCorrect == Spec => []TypeOK
BY InitInductive, StepInductive, PTL DEF Spec, Inductive

\* A payload is never in two unfinished creations (the check and the insert of
\* submitCreation are separate steps).
THEOREM OneCreationPerPayload == Spec => []OneOpenCreation
BY InitInductive, StepInductive, PTL DEF Spec, Inductive

\* A row that records an acceptance names the product that was made.
THEOREM ProductNeverLost == Spec => []AcceptedKeepsProduct
BY InitInductive, StepInductive, PTL DEF Spec, Inductive

\* A failed creation made nothing.
THEOREM FailedIsHarmless == Spec => []FailedMadeNothing
BY InitInductive, StepInductive, PTL DEF Spec, Inductive

\* No new product is locked by its creation and by another job.
THEOREM ProductLockedOnce == Spec => []OneLockPerProduct
BY InitInductive, StepInductive, PTL DEF Spec, Inductive

\* A creation leaves only when what became of every earlier one with the same
\* payload is known.
THEOREM NoRepeatInTheDark == Spec => NoBlindRepeat
<1> DEFINE Repeats == \A r1, r2 \in Requests :
       /\ call[r1] = "none" /\ call'[r1] = "pending"
       /\ r1 # r2 /\ call[r2] # "none" /\ req[r1].payload = req[r2].payload
       => Known(r2)
<1>1. Inductive /\ [Next]_vars => [Repeats]_vars
  <2> SUFFICES ASSUME Inductive, Next, NEW r1 \in Requests, NEW r2 \in Requests,
                      call[r1] = "none", call'[r1] = "pending", r1 # r2,
                      call[r2] # "none", req[r1].payload = req[r2].payload
               PROVE  Known(r2)
    OBVIOUS
  <2>1. Send(r1)
    <3>1. \/ UNCHANGED call
          \/ \E r \in Requests : Send(r) \/ PlatformCreate(r) \/ PlatformReject(r)
      <4>1. ASSUME NEW r \in Requests,
                   \/ \E f \in Payloads : CreationCheck(r, f)
                   \/ CreationInsert(r) \/ Reread(r)
                   \/ AnswerAccepted(r) \/ AnswerRejected(r) \/ AnswerUnknown(r)
                   \/ CreationGiveUp(r) \/ CreationSettle(r)
            PROVE  UNCHANGED call
        BY <4>1 DEF CreationCheck, CreationInsert, Reread, AnswerAccepted,
           AnswerRejected, AnswerUnknown, CreationGiveUp, CreationSettle,
           platform
      <4>2. ASSUME NEW r \in Requests,
                   \/ Confirm(r) \/ \E j \in Requests : RefreshRead(r, j)
                   \/ RefreshWrite(r) \/ Abort(r) \/ Age(r) \/ OtherOpens(r)
                   \/ OtherCloses(r) \/ PlatformList(r)
            PROVE  UNCHANGED call
        BY <4>2 DEF Confirm, RefreshRead, RefreshWrite, Abort, Age, OtherOpens,
           OtherCloses, PlatformList, platform
      <4> QED
        BY <4>1, <4>2 DEF Next
    <3>2. ASSUME NEW r \in Requests,
                 PlatformCreate(r) \/ PlatformReject(r)
          PROVE  FALSE
      BY <3>2 DEF PlatformCreate, PlatformReject, Inductive, TypeOK
    <3>3. ASSUME NEW r \in Requests, Send(r), r # r1 PROVE FALSE
      BY <3>3 DEF Send
    <3> QED
      BY <3>1, <3>2, <3>3
  <2>2. Open(r1)
    BY <2>1 DEF Send, Inductive, HandlerInv, Knows
  <2>3. ~Open(r2)
    BY <2>2 DEF Inductive, OneOpenCreation, RowInv, RowFits, Open, BlockingStatuses
  <2> QED
    BY <2>3 DEF Inductive, RowInv, RowFits, FailedMadeNothing, Known, Open,
       BlockingStatuses
<1> QED
  BY <1>1, InitInductive, StepInductive, PTL DEF Spec, NoBlindRepeat
===========================================================================
