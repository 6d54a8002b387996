--------------------------- MODULE CredentialVault ---------------------------
(***************************************************************************)
(* One slot of the gateway credential vault: the encrypted document an     *)
(* administrator imports, replaces or clears, and the requests that renew  *)
(* its access token.                                                       *)
(*                                                                         *)
(* A renewal spends the refresh token of the document it read, and the     *)
(* platform takes an IOP token only once.  What keeps two renewals from    *)
(* spending the same token, and a renewal from overwriting a new import,   *)
(* is the revision of the row, a lease with a time limit, and for IOP an   *)
(* error code written together with the lease.                             *)
(***************************************************************************)
EXTENDS Naturals

CONSTANTS
  Requests,      \* requests that renew; each draws a lease id of its own
  Saves,         \* imports; each brings a document with a fresh refresh token
  Deletes,       \* requests to clear the slot
  Iop,           \* the imports whose document speaks IOP; the others are TOP
  MaxGeneration, \* bound: how often the document of one import is renewed
  Nil            \* no row, no lease

Clients == Requests \cup Saves \cup Deletes

\* A document and with it the refresh token it holds: the import it comes from
\* and how often it has been renewed since.
Documents == [origin : Saves, generation : 0..MaxGeneration]
Versions == [doc : Documents, revision : Nat]
Errors == {"none", "unknown", "rejected", "failed", "expired"}
Rows == [doc : Documents, revision : Nat, lease : Requests \cup {Nil},
         lapsed : BOOLEAN, error : Errors]

ASSUME VaultAssumption ==
  /\ MaxGeneration \in Nat
  /\ Requests \cap (Saves \cup Deletes) = {}
  /\ Saves \cap Deletes = {}
  /\ Iop \subseteq Saves
  /\ Nil \notin Requests \cup Rows \cup Versions

VARIABLES
  row,      \* the row of alibaba_gateway_credentials, or Nil
  control,  \* the revision in alibaba_gateway_credential_control, 0 if absent
  pc,       \* where each client is
  seen,     \* the document and revision each client read, Nil if none
  base,     \* the control revision an import read for its own
  code,     \* the error code a failing renewal is about to record
  wire,     \* what the platform made of each renewal
  versions  \* history: every version the row has had

vars == <<row, control, pc, seen, base, code, wire, versions>>

Steps == {"idle", "found", "leased", "sent", "failing", "selected", "done"}
Calls == {"none", "submitted", "granted", "refused"}

SpeaksIop(doc) == doc.origin \in Iop
Version(r) == [doc |-> r.doc, revision |-> r.revision]
NewRow(doc, revision) ==
  [doc |-> doc, revision |-> revision, lease |-> Nil, lapsed |-> FALSE,
   error |-> "none"]
Renewed(doc) == [doc EXCEPT !.generation = @ + 1]

Init ==
  /\ row = Nil
  /\ control = 0
  /\ pc = [c \in Clients |-> "idle"]
  /\ seen = [c \in Clients |-> Nil]
  /\ base = [s \in Saves |-> 0]
  /\ code = [r \in Requests |-> "none"]
  /\ wire = [r \in Requests |-> "none"]
  /\ versions = {}

Goto(c, step) == pc' = [pc EXCEPT ![c] = step]

\* The row gets a new document; the triggers copy its revision to control.
Store(new) ==
  /\ row' = new
  /\ control' = new.revision
  /\ versions' = versions \cup {Version(new)}

---------------------------------------------------------------------------
(* requireCredentials and refresh                                          *)

\* A document may be renewed on demand whatever its last error, unless the
\* fence is up or its refresh token has expired.  (A renewal by itself also
\* wants no error at all, which is less.)
Renewable(r) ==
  /\ r.error # "expired"
  /\ SpeaksIop(r.doc) => r.error # "unknown"

Find(r) ==
  /\ pc[r] = "idle"
  /\ row # Nil /\ Renewable(row)
  /\ seen' = [seen EXCEPT ![r] = Version(row)]
  /\ Goto(r, "found")
  /\ UNCHANGED <<row, control, base, code, wire, versions>>

\* Mutant: the fence is left to failRefresh.
AcquireUnfenced(r) ==
  /\ pc[r] = "found"
  /\ row # Nil /\ row.revision = seen[r].revision
  /\ row.lease = Nil \/ row.lapsed
  /\ SpeaksIop(seen[r].doc) => row.error # "unknown"
  /\ row' = [row EXCEPT !.lease = r, !.lapsed = FALSE]
  /\ Goto(r, "leased")
  /\ UNCHANGED <<control, seen, base, code, wire, versions>>

\* Mutant: a lease that ran out may be taken over whatever the fence says.
AcquireLapsed(r) ==
  /\ pc[r] = "found"
  /\ row # Nil /\ row.revision = seen[r].revision
  /\ row.lease = Nil \/ row.lapsed
  /\ row' = [row EXCEPT !.lease = r, !.lapsed = FALSE,
               !.error = IF SpeaksIop(seen[r].doc) THEN "unknown" ELSE @]
  /\ Goto(r, "leased")
  /\ UNCHANGED <<control, seen, base, code, wire, versions>>

\* acquireRefreshLease: lease and fence in one UPDATE.  A request that does not
\* get the lease writes nothing any more (Leave).
Acquire(r) ==
  /\ pc[r] = "found"
  /\ row # Nil /\ row.revision = seen[r].revision
  /\ row.lease = Nil \/ row.lapsed
  /\ SpeaksIop(seen[r].doc) => row.error # "unknown"
  /\ row' = [row EXCEPT !.lease = r, !.lapsed = FALSE,
               !.error = IF SpeaksIop(seen[r].doc) THEN "unknown" ELSE @]
  /\ Goto(r, "leased")
  /\ UNCHANGED <<control, seen, base, code, wire, versions>>

Send(r) ==
  /\ pc[r] = "leased"
  /\ Goto(r, "sent")
  /\ wire' = [wire EXCEPT ![r] = "submitted"]
  /\ UNCHANGED <<row, control, seen, base, code, versions>>

\* completeRefresh
Complete(r) ==
  /\ pc[r] = "sent" /\ wire[r] = "granted"
  /\ row # Nil /\ row.revision = seen[r].revision /\ row.lease = r
  /\ Store(NewRow(Renewed(seen[r].doc), seen[r].revision + 1))
  /\ Goto(r, "done")
  /\ UNCHANGED <<seen, base, code, wire>>

\* The platform's refusal arrives.
Refused(r) ==
  /\ pc[r] = "sent" /\ wire[r] = "refused"
  /\ \E e \in IF SpeaksIop(seen[r].doc) THEN {"rejected"}
              ELSE {"failed", "expired"} :
       code' = [code EXCEPT ![r] = e]
  /\ Goto(r, "failing")
  /\ UNCHANGED <<row, control, seen, base, wire, versions>>

\* Mutant: an IOP call without an answer counts as refused.
UncertainRejected(r) ==
  /\ pc[r] = "sent"
  /\ code' = [code EXCEPT ![r] = "rejected"]
  /\ Goto(r, "failing")
  /\ UNCHANGED <<row, control, seen, base, wire, versions>>

\* No answer, an unreadable one, or completeRefresh fails: the catch block does
\* not know what became of the token.
Uncertain(r) ==
  /\ pc[r] = "sent"
  /\ code' = [code EXCEPT ![r] =
                IF SpeaksIop(seen[r].doc) THEN "unknown" ELSE "failed"]
  /\ Goto(r, "failing")
  /\ UNCHANGED <<row, control, seen, base, wire, versions>>

\* Mutant: a failure is recorded without a look at the lease.
FailAnyLease(r) ==
  /\ pc[r] = "failing"
  /\ row # Nil
  /\ row' = [row EXCEPT !.lease = Nil, !.lapsed = FALSE, !.error = code[r]]
  /\ Goto(r, "done")
  /\ UNCHANGED <<control, seen, base, code, wire, versions>>

\* failRefresh
Fail(r) ==
  /\ pc[r] = "failing"
  /\ row # Nil /\ row.lease = r
  /\ row' = [row EXCEPT !.lease = Nil, !.lapsed = FALSE, !.error = code[r]]
  /\ Goto(r, "done")
  /\ UNCHANGED <<control, seen, base, code, wire, versions>>

\* A client ends without writing: its lease or its revision is gone, or the
\* process is.  What it has sent stays sent and its lease stays in the row.
Leave(c) ==
  /\ pc[c] \notin {"idle", "done"}
  /\ Goto(c, "done")
  /\ UNCHANGED <<row, control, seen, base, code, wire, versions>>

\* The 60 seconds of the lease pass.
Lapse ==
  /\ row # Nil /\ row.lease # Nil /\ ~row.lapsed
  /\ row' = [row EXCEPT !.lapsed = TRUE]
  /\ UNCHANGED <<control, pc, seen, base, code, wire, versions>>

---------------------------------------------------------------------------
(* The platform's token endpoint: an IOP token is taken once, and a call   *)
(* may arrive long after its client gave up.                               *)

Spent(doc) == \E r \in Requests : wire[r] = "granted" /\ seen[r].doc = doc

Grant(r) ==
  /\ wire[r] = "submitted"
  /\ SpeaksIop(seen[r].doc) => ~Spent(seen[r].doc)
  /\ seen[r].doc.generation < MaxGeneration
  /\ wire' = [wire EXCEPT ![r] = "granted"]
  /\ UNCHANGED <<row, control, pc, seen, base, code, versions>>

Refuse(r) ==
  /\ wire[r] = "submitted"
  /\ wire' = [wire EXCEPT ![r] = "refused"]
  /\ UNCHANGED <<row, control, pc, seen, base, code, versions>>

---------------------------------------------------------------------------
(* Imports and clearing                                                    *)

\* The administrator's page shows the slot; its revision comes back with the
\* request, null if the slot is empty.
Show(c) ==
  /\ pc[c] = "idle"
  /\ seen' = [seen EXCEPT ![c] = IF row = Nil THEN Nil ELSE Version(row)]
  /\ Goto(c, "found")
  /\ UNCHANGED <<row, control, base, code, wire, versions>>

\* save reads the control row before it writes.
Select(s) ==
  /\ pc[s] = "found"
  /\ base' = [base EXCEPT ![s] = control]
  /\ Goto(s, "selected")
  /\ UNCHANGED <<row, control, seen, code, wire, versions>>

NewDocument(s) == [origin |-> s, generation |-> 0]

Insert(s) ==
  /\ pc[s] = "selected"
  /\ seen[s] = Nil /\ row = Nil
  /\ Store(NewRow(NewDocument(s), base[s] + 1))
  /\ Goto(s, "done")
  /\ UNCHANGED <<seen, base, code, wire>>

Replace(s) ==
  /\ pc[s] = "selected"
  /\ seen[s] # Nil /\ row # Nil /\ row.revision = seen[s].revision
  /\ Store(NewRow(NewDocument(s), seen[s].revision + 1))
  /\ Goto(s, "done")
  /\ UNCHANGED <<seen, base, code, wire>>

\* delete: the trigger moves control past the revision that goes.
Delete(d) ==
  /\ pc[d] = "found"
  /\ seen[d] # Nil /\ row # Nil /\ row.revision = seen[d].revision
  /\ row' = Nil
  /\ control' = row.revision + 1
  /\ Goto(d, "done")
  /\ UNCHANGED <<seen, base, code, wire, versions>>

\* disableLegacy: an empty slot without a control row gets one.
DisableLegacy(d) ==
  /\ pc[d] = "found"
  /\ seen[d] = Nil /\ row = Nil /\ control = 0
  /\ control' = 1
  /\ Goto(d, "done")
  /\ UNCHANGED <<row, seen, base, code, wire, versions>>

---------------------------------------------------------------------------
Renewal(r) ==
  \/ Find(r)
  \/ Acquire(r)
  \/ Send(r)
  \/ Complete(r)
  \/ Refused(r)
  \/ Uncertain(r)
  \/ Fail(r)

Next ==
  \/ \E r \in Requests : Renewal(r) \/ Grant(r) \/ Refuse(r)
  \/ \E s \in Saves : Select(s) \/ Insert(s) \/ Replace(s)
  \/ \E d \in Deletes : Delete(d) \/ DisableLegacy(d)
  \/ \E c \in Saves \cup Deletes : Show(c)
  \/ \E c \in Clients : Leave(c)
  \/ Lapse

Spec == Init /\ [][Next]_vars

---------------------------------------------------------------------------
(* Properties.                                                             *)

\* Every variable keeps its type.
TypeOK ==
  /\ row \in Rows \cup {Nil}
  /\ control \in Nat
  /\ pc \in [Clients -> Steps]
  /\ seen \in [Clients -> Versions \cup {Nil}]
  /\ base \in [Saves -> Nat]
  /\ code \in [Requests -> Errors]
  /\ wire \in [Requests -> Calls]
  /\ versions \subseteq Versions

\* A revision has named one document only.  This is what every conditional
\* UPDATE relies on, and what save does not ensure: it computes the revision of
\* a new row from a control row that may have moved on.
RevisionsUnique ==
  \A v, w \in versions : v.revision = w.revision => v.doc = w.doc

\* The calls that may have spent the refresh token of a document: sent, and
\* not refused.
OutWith(doc) ==
  {r \in Requests : wire[r] \in {"submitted", "granted"} /\ seen[r].doc = doc}

\* An IOP refresh token whose fate is open is never sent again
\* (acquireRefreshLease: "a one-shot fence before I/O").
SpentOnce ==
  \A r1, r2 \in Requests : \A v \in versions :
    SpeaksIop(v.doc) /\ r1 \in OutWith(v.doc) /\ r2 \in OutWith(v.doc)
      => r1 = r2

\* A row without the fence holds an IOP token that nobody may have spent: when
\* the vault calls its document renewable, it is.
UnfencedIsFresh ==
  row # Nil /\ SpeaksIop(row.doc) /\ row.error # "unknown"
    => OutWith(row.doc) = {}

\* An IOP renewal under way keeps its lease for as long as the document it
\* renews is there, even after the 60 seconds: its answer is never thrown away
\* in favour of another renewal.
HolderKeepsLease ==
  \A r \in Requests :
    /\ pc[r] \in {"leased", "sent"} /\ SpeaksIop(seen[r].doc)
    /\ row # Nil /\ row.doc = seen[r].doc
    => row.lease = r

\* Without a reused revision the three hold (acquireRefreshLease,
\* completeRefresh, failRefresh, save and delete together).
SpentOnceIfUnique == RevisionsUnique => SpentOnce
UnfencedIsFreshIfUnique == RevisionsUnique => UnfencedIsFresh
HolderKeepsLeaseIfUnique == RevisionsUnique => HolderKeepsLease

\* The client that takes this step has read the document in the row, or, if it
\* finds no row, has read that there is none.
HasSeen(c) == IF row = Nil THEN seen[c] = Nil
                           ELSE seen[c] # Nil /\ seen[c].doc = row.doc

\* Whatever a renewal, an import or a clearing writes, the row holds the
\* document that client read, as long as no revision is reused: nothing is
\* leased, renewed, marked as failed, replaced or deleted by somebody who has
\* not seen it.
NoBlindWriteIfUnique ==
  [][RevisionsUnique =>
       \A c \in Clients : pc'[c] # pc[c] /\ row' # row => HasSeen(c)]_vars

\* A document is replaced, renewed or deleted only by somebody who has read it
\* (docs/node-credential-management.md: revision and lease prevent concurrent
\* overwriting).
NoBlindOverwrite ==
  [][\A c \in Clients :
       /\ pc'[c] # pc[c]
       /\ row # Nil /\ (row' = Nil \/ row'.doc # row.doc)
       => HasSeen(c)]_vars
=============================================================================
