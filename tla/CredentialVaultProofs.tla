------------------------ MODULE CredentialVaultProofs ------------------------
(***************************************************************************)
(* Proofs about CredentialVault, for every set of renewals, imports and    *)
(* clearings, whatever protocol each import speaks.                        *)
(*                                                                         *)
(* Inductive has a part that always holds and a part, Exclusive, that      *)
(* holds as long as no revision has been reused.                           *)
(***************************************************************************)
EXTENDS CredentialVault, TLAPS

\* What is known of a renewal at each of its steps.
RenewalFits(r) ==
  /\ pc[r] # "idle" => seen[r] # Nil
  /\ pc[r] \in {"idle", "found", "leased"} => wire[r] = "none"
  /\ wire[r] = "granted" => seen[r].doc.generation < MaxGeneration
  /\ pc[r] = "failing" /\ SpeaksIop(seen[r].doc) =>
       code[r] \in {"unknown", "rejected"}
  /\ pc[r] = "failing" /\ code[r] = "rejected" => wire[r] = "refused"
  /\ row # Nil /\ row.lease = r =>
       pc[r] \notin {"idle", "found"} /\ row.revision = seen[r].revision

RenewalInv == \A r \in Requests : RenewalFits(r)

\* Every document that is or was read has been a version of the row, and its
\* import is over.
HistoryInv ==
  /\ row # Nil => Version(row) \in versions
  /\ \A c \in Clients : seen[c] # Nil => seen[c] \in versions
  /\ \A v \in versions : pc[v.doc.origin] = "done"

\* A document has one version, and the row the latest of its import.
DocumentsAdvance ==
  /\ \A v, w \in versions : v.doc = w.doc => v.revision = w.revision
  /\ row # Nil => \A v \in versions :
       v.doc.origin = row.doc.origin => v.doc.generation \leq row.doc.generation

\* A leased IOP row is fenced, and only the holder's call may have spent its
\* token.
LeaseFenced ==
  row # Nil /\ SpeaksIop(row.doc) /\ row.lease # Nil
    => row.error = "unknown" /\ OutWith(row.doc) \subseteq {row.lease}

\* A renewal about to send is the only one with its token.
SenderAlone ==
  \A r \in Requests : pc[r] = "leased" /\ SpeaksIop(seen[r].doc) =>
    /\ OutWith(seen[r].doc) = {}
    /\ \A q \in Requests :
         pc[q] = "leased" /\ seen[q].doc = seen[r].doc => q = r

Exclusive ==
  /\ DocumentsAdvance
  /\ LeaseFenced
  /\ SenderAlone
  /\ SpentOnce
  /\ UnfencedIsFresh
  /\ HolderKeepsLease

Sound == TypeOK /\ HistoryInv /\ RenewalInv

Inductive == Sound /\ (RevisionsUnique => Exclusive)

---------------------------------------------------------------------------
\* The row after acquireRefreshLease.
LEMMA LeasedRow ==
  ASSUME TypeOK, NEW r \in Requests, Acquire(r)
  PROVE  /\ row \in Rows /\ row # Nil /\ row' \in Rows /\ row' # Nil
         /\ row'.doc = row.doc /\ row'.revision = row.revision
         /\ row'.lease = r
         /\ SpeaksIop(seen[r].doc) => row'.error = "unknown"
<1> DEFINE e == IF SpeaksIop(seen[r].doc) THEN "unknown" ELSE row.error
<1>1. row \in Rows /\ e \in Errors
  BY DEF Acquire, TypeOK, Rows, Errors
<1>2. row' = [row EXCEPT !.lease = r, !.lapsed = FALSE, !.error = e]
  BY DEF Acquire
<1>3. SpeaksIop(seen[r].doc) => e = "unknown"
  OBVIOUS
<1> HIDE DEF e
<1>4. row' \in Rows
  BY <1>1, <1>2 DEF Rows
<1>5. /\ row'.doc = row.doc /\ row'.revision = row.revision
      /\ row'.lease = r /\ row'.error = e
  BY <1>1, <1>2 DEF Rows
<1> QED
  BY <1>1, <1>3, <1>4, <1>5, VaultAssumption

\* The row after failRefresh.
LEMMA FailedRow ==
  ASSUME TypeOK, NEW r \in Requests, Fail(r)
  PROVE  /\ row \in Rows /\ row # Nil /\ row' \in Rows /\ row' # Nil
         /\ row'.doc = row.doc /\ row'.revision = row.revision
         /\ row'.lease = Nil /\ row'.error = code[r]
<1>1. row \in Rows /\ code[r] \in Errors
  BY DEF Fail, TypeOK
<1>2. row' = [row EXCEPT !.lease = Nil, !.lapsed = FALSE, !.error = code[r]]
  BY DEF Fail
<1>3. row' \in Rows
  BY <1>1, <1>2 DEF Rows
<1>4. /\ row'.doc = row.doc /\ row'.revision = row.revision
      /\ row'.lease = Nil /\ row'.error = code[r]
  BY <1>1, <1>2 DEF Rows
<1> QED
  BY <1>1, <1>3, <1>4, VaultAssumption

\* The row after save and completeRefresh.
LEMMA StoredRow ==
  ASSUME NEW d \in Documents, NEW n \in Nat
  PROVE  /\ NewRow(d, n) \in Rows /\ NewRow(d, n) # Nil
         /\ NewRow(d, n).doc = d /\ NewRow(d, n).revision = n
         /\ NewRow(d, n).lease = Nil /\ NewRow(d, n).error = "none"
         /\ Version(NewRow(d, n)) = [doc |-> d, revision |-> n]
         /\ Version(NewRow(d, n)) \in Versions
<1>1. NewRow(d, n) \in Rows
  BY DEF Rows, NewRow, Errors
<1>2. [doc |-> d, revision |-> n] \in Versions
  BY DEF Versions
<1>3. /\ NewRow(d, n).doc = d /\ NewRow(d, n).revision = n
      /\ NewRow(d, n).lease = Nil /\ NewRow(d, n).error = "none"
  BY DEF NewRow
<1> QED
  BY <1>1, <1>2, <1>3, VaultAssumption DEF Version

\* The version of a row, as Find and Show read it.
LEMMA ReadVersion ==
  ASSUME NEW old \in Rows
  PROVE  /\ Version(old) \in Versions /\ Version(old) # Nil /\ old # Nil
         /\ Version(old).doc = old.doc /\ Version(old).revision = old.revision
BY VaultAssumption DEF Rows, Version, Versions

\* A renewed document.
LEMMA RenewedDocument ==
  ASSUME NEW d \in Documents, d.generation < MaxGeneration
  PROVE  /\ Renewed(d) \in Documents
         /\ Renewed(d).origin = d.origin
         /\ Renewed(d).generation = d.generation + 1
BY VaultAssumption DEF Documents, Renewed

\* The document of an import.
LEMMA ImportedDocument ==
  ASSUME NEW s \in Saves
  PROVE  /\ NewDocument(s) \in Documents
         /\ NewDocument(s).origin = s /\ NewDocument(s).generation = 0
BY VaultAssumption DEF Documents, NewDocument

\* The fields of a version and of a document.
LEMMA Fields ==
  ASSUME NEW v \in Versions
  PROVE  /\ v.doc \in Documents /\ v.revision \in Nat
         /\ v.doc.origin \in Saves /\ v.doc.generation \in Nat
         /\ v # Nil
BY VaultAssumption DEF Versions, Documents

---------------------------------------------------------------------------
\* A client that moves; TypeOK and what the steps leave alone.
LEMMA TypeStep ==
  ASSUME Sound, [Next]_vars
  PROVE  TypeOK'
<1> USE DEF Sound
<1>1. \A r \in Requests : seen[r] # Nil => seen[r] \in Versions
  BY DEF TypeOK, Clients
<1>2. ASSUME NEW c \in Clients, NEW step \in Steps, Goto(c, step)
      PROVE  pc' \in [Clients -> Steps]
  BY <1>2 DEF TypeOK, Goto
<1>3. ASSUME NEW d \in Documents, NEW n \in Nat, Store(NewRow(d, n))
      PROVE  /\ row' \in Rows \cup {Nil} /\ control' \in Nat
             /\ versions' \subseteq Versions
  BY <1>3, StoredRow DEF TypeOK, Store
<1>4. ASSUME NEW r \in Requests, Find(r)
      PROVE  TypeOK'
  <2>1. seen' \in [Clients -> Versions \cup {Nil}]
    BY <1>4, ReadVersion DEF Find, TypeOK, Clients
  <2> QED
    BY <1>4, <1>2, <2>1 DEF Find, TypeOK, Clients, Steps
<1>5. ASSUME NEW r \in Requests, Acquire(r)
      PROVE  TypeOK'
  <2>3. row' \in Rows
    BY <1>5, LeasedRow
  <2> QED
    BY <1>5, <1>2, <2>3 DEF Acquire, TypeOK, Clients, Steps
<1>6. ASSUME NEW r \in Requests, Send(r)
      PROVE  TypeOK'
  BY <1>6, <1>2 DEF Send, TypeOK, Clients, Steps, Calls
<1>7. ASSUME NEW r \in Requests, Complete(r)
      PROVE  TypeOK'
  <2>1. seen[r] \in Versions /\ seen[r].doc.generation < MaxGeneration
    BY <1>7, <1>1 DEF Complete, RenewalInv, RenewalFits
  <2>2. Renewed(seen[r].doc) \in Documents /\ seen[r].revision + 1 \in Nat
    BY <2>1, Fields, RenewedDocument
  <2> QED
    BY <1>7, <1>2, <1>3, <2>2 DEF Complete, TypeOK, Clients, Steps
<1>8. ASSUME NEW r \in Requests, Refused(r)
      PROVE  TypeOK'
  BY <1>8, <1>2 DEF Refused, TypeOK, Clients, Steps, Errors
<1>9. ASSUME NEW r \in Requests, Uncertain(r)
      PROVE  TypeOK'
  BY <1>9, <1>2 DEF Uncertain, TypeOK, Clients, Steps, Errors
<1>10. ASSUME NEW r \in Requests, Fail(r)
       PROVE  TypeOK'
  <2>3. row' \in Rows
    BY <1>10, FailedRow
  <2> QED
    BY <1>10, <1>2, <2>3 DEF Fail, TypeOK, Clients, Steps
<1>11. ASSUME NEW r \in Requests, Grant(r) \/ Refuse(r)
       PROVE  TypeOK'
  BY <1>11 DEF Grant, Refuse, TypeOK, Calls
<1>12. ASSUME NEW s \in Saves, Select(s)
       PROVE  TypeOK'
  BY <1>12, <1>2 DEF Select, TypeOK, Clients, Steps
<1>13. ASSUME NEW s \in Saves, Insert(s)
       PROVE  TypeOK'
  <2>1. NewDocument(s) \in Documents /\ base[s] + 1 \in Nat
    BY ImportedDocument DEF TypeOK
  <2> QED
    BY <1>13, <1>2, <1>3, <2>1 DEF Insert, TypeOK, Clients, Steps
<1>14. ASSUME NEW s \in Saves, Replace(s)
       PROVE  TypeOK'
  <2>1. NewDocument(s) \in Documents /\ seen[s].revision + 1 \in Nat
    BY <1>14, ImportedDocument, Fields DEF Replace, TypeOK, Clients
  <2> QED
    BY <1>14, <1>2, <1>3, <2>1 DEF Replace, TypeOK, Clients, Steps
<1>15. ASSUME NEW d \in Deletes, Delete(d)
       PROVE  TypeOK'
  <2>1. row.revision + 1 \in Nat
    BY <1>15 DEF Delete, TypeOK, Rows
  <2> QED
    BY <1>15, <1>2, <2>1 DEF Delete, TypeOK, Clients, Steps
<1>16. ASSUME NEW d \in Deletes, DisableLegacy(d)
       PROVE  TypeOK'
  BY <1>16, <1>2 DEF DisableLegacy, TypeOK, Clients, Steps
<1>17. ASSUME NEW c \in Saves \cup Deletes, Show(c)
       PROVE  TypeOK'
  <2>1. seen' \in [Clients -> Versions \cup {Nil}]
    BY <1>17, ReadVersion DEF Show, TypeOK, Clients
  <2> QED
    BY <1>17, <1>2, <2>1 DEF Show, TypeOK, Clients, Steps
<1>18. ASSUME NEW c \in Clients, Leave(c)
       PROVE  TypeOK'
  BY <1>18, <1>2 DEF Leave, TypeOK, Steps
<1>19. CASE Lapse
  <2>1. row' = [row EXCEPT !.lapsed = TRUE] /\ row \in Rows
    BY <1>19 DEF Lapse, TypeOK
  <2>2. row' \in Rows
    BY <2>1 DEF Rows
  <2> QED
    BY <1>19, <2>2 DEF Lapse, TypeOK
<1>20. CASE UNCHANGED vars
  BY <1>20 DEF vars, TypeOK
<1> QED
  BY <1>4, <1>5, <1>6, <1>7, <1>8, <1>9, <1>10, <1>11, <1>12, <1>13, <1>14,
     <1>15, <1>16, <1>17, <1>18, <1>19, <1>20 DEF Next, Renewal

---------------------------------------------------------------------------
\* A renewal that does not move, while the row keeps its lease and revision or
\* gives the lease up.
LEMMA StillRenewal ==
  ASSUME NEW q \in Requests, RenewalFits(q),
         pc'[q] = pc[q], seen'[q] = seen[q], code'[q] = code[q],
         wire'[q] = wire[q],
         row' # Nil /\ row'.lease = q =>
           row # Nil /\ row.lease = q /\ row'.revision = row.revision
  PROVE  RenewalFits(q)'
BY DEF RenewalFits, SpeaksIop

\* Only the version of the new row joins the history (completeRefresh, save).
LEMMA StoredHistory ==
  ASSUME Sound, NEW c \in Clients, NEW d \in Documents, NEW n \in Nat,
         pc[c] \in {"sent", "selected"}, pc' = [pc EXCEPT ![c] = "done"],
         d.origin = c \/ \E v \in versions : d.origin = v.doc.origin,
         Store(NewRow(d, n)), UNCHANGED <<seen, code, wire>>
  PROVE  HistoryInv' /\ RenewalInv'
<1> USE DEF Sound
<1>1. /\ row' # Nil /\ row'.lease = Nil
      /\ versions' = versions \cup {[doc |-> d, revision |-> n]}
      /\ Version(row)' = [doc |-> d, revision |-> n]
  BY StoredRow DEF Store
<1>2. pc'[d.origin] = "done" /\ \A v \in versions : pc'[v.doc.origin] = "done"
  <2>1. \A v \in versions :
          v.doc.origin \in Clients /\ pc[v.doc.origin] = "done"
    BY Fields DEF TypeOK, HistoryInv, Clients
  <2> QED
    BY <2>1 DEF TypeOK
<1>3. HistoryInv'
  BY <1>1, <1>2 DEF HistoryInv
<1>4. ASSUME NEW q \in Requests
      PROVE  RenewalFits(q)'
  <2>1. RenewalFits(q) /\ row'.lease # q
    BY <1>1, VaultAssumption DEF RenewalInv
  <2>2. CASE q # c
    BY <2>1, <2>2, StillRenewal DEF TypeOK, Clients
  <2>3. CASE q = c
    BY <2>1, <2>3 DEF RenewalFits, TypeOK, Clients
  <2> QED
    BY <2>2, <2>3
<1> QED
  BY <1>3, <1>4 DEF RenewalInv

\* HistoryInv when no version is added and no import is undone.
LEMMA SameHistory ==
  ASSUME Sound, NEW c \in Clients, NEW step \in Steps, pc[c] # "done",
         Goto(c, step), UNCHANGED <<seen, versions>>,
         row' # Nil => row # Nil /\ Version(row)' = Version(row)
  PROVE  HistoryInv'
<1>1. \A v \in versions : pc[v.doc.origin] = "done" /\ v.doc.origin \in Clients
  BY Fields DEF Sound, HistoryInv, TypeOK, Clients
<1>2. \A v \in versions : pc'[v.doc.origin] = "done"
  BY <1>1 DEF Goto, Sound, TypeOK
<1> QED
  BY <1>2 DEF Sound, HistoryInv

\* The same for a client that reads the row.
LEMMA ReadHistory ==
  ASSUME Sound, NEW c \in Clients, pc[c] = "idle", Goto(c, "found"),
         seen' = [seen EXCEPT ![c] = IF row = Nil THEN Nil ELSE Version(row)],
         UNCHANGED <<row, versions>>
  PROVE  HistoryInv'
<1>1. \A v \in versions : pc[v.doc.origin] = "done" /\ v.doc.origin \in Clients
  BY Fields DEF Sound, HistoryInv, TypeOK, Clients
<1>2. \A v \in versions : pc'[v.doc.origin] = "done"
  BY <1>1 DEF Goto, Sound, TypeOK
<1> QED
  BY <1>2 DEF Sound, HistoryInv, TypeOK

LEMMA SoundStep ==
  ASSUME Sound, [Next]_vars
  PROVE  Sound'
<1> USE DEF Sound
<1>1. \A r \in Requests : RenewalFits(r) /\ r \in Clients
  BY DEF RenewalInv, Clients
<1>2. ASSUME NEW c \in Saves \cup Deletes, NEW step \in Steps, Goto(c, step),
             \/ UNCHANGED row
             \/ row' = Nil,
             \A q \in Requests : seen'[q] = seen[q],
             UNCHANGED <<code, wire>>
      PROVE  RenewalInv'
  <2>1. ASSUME NEW q \in Requests
        PROVE  pc'[q] = pc[q]
    BY <1>2, VaultAssumption DEF Goto, TypeOK, Clients
  <2> QED
    BY <1>1, <1>2, <2>1, StillRenewal DEF RenewalInv
<1>3. ASSUME NEW r \in Requests, Find(r)
      PROVE  HistoryInv' /\ RenewalInv'
  <2>1. HistoryInv'
    BY <1>1, <1>3, ReadHistory DEF Find
  <2>2. seen'[r] # Nil
    BY <1>1, <1>3, ReadVersion DEF Find, TypeOK
  <2>3. RenewalFits(r)'
    BY <1>1, <1>3, <2>2 DEF Find, Goto, RenewalFits, TypeOK
  <2>4. \A q \in Requests \ {r} : RenewalFits(q)'
    BY <1>1, <1>3, StillRenewal DEF Find, Goto, TypeOK
  <2> QED
    BY <2>1, <2>3, <2>4 DEF RenewalInv
<1>4. ASSUME NEW r \in Requests, Acquire(r)
      PROVE  HistoryInv' /\ RenewalInv'
  <2>3. /\ row' # Nil /\ row'.lease = r /\ row'.revision = row.revision
        /\ row'.doc = row.doc
    BY <1>4, LeasedRow
  <2>4. HistoryInv'
    BY <1>1, <1>4, <2>3, SameHistory DEF Acquire, Steps, Version
  <2>5. RenewalFits(r)'
    BY <1>1, <1>4, <2>3 DEF Acquire, Goto, RenewalFits, TypeOK
  <2>6. \A q \in Requests \ {r} : RenewalFits(q)'
    BY <1>1, <1>4, <2>3, StillRenewal DEF Acquire, Goto, TypeOK
  <2> QED
    BY <2>4, <2>5, <2>6 DEF RenewalInv
<1>5. ASSUME NEW r \in Requests, Send(r)
      PROVE  HistoryInv' /\ RenewalInv'
  <2>1. HistoryInv'
    BY <1>1, <1>5, SameHistory DEF Send, Steps, Version
  <2>2. RenewalFits(r)'
    BY <1>1, <1>5 DEF Send, Goto, RenewalFits, TypeOK
  <2>3. \A q \in Requests \ {r} : RenewalFits(q)'
    BY <1>1, <1>5, StillRenewal DEF Send, Goto, TypeOK
  <2> QED
    BY <2>1, <2>2, <2>3 DEF RenewalInv
<1>6. ASSUME NEW r \in Requests, Complete(r)
      PROVE  HistoryInv' /\ RenewalInv'
  <2>1. /\ seen[r] \in versions /\ seen[r] \in Versions
        /\ seen[r].doc.generation < MaxGeneration
    BY <1>1, <1>6 DEF Complete, RenewalFits, HistoryInv, TypeOK
  <2>2. /\ Renewed(seen[r].doc) \in Documents
        /\ Renewed(seen[r].doc).origin = seen[r].doc.origin
        /\ seen[r].revision + 1 \in Nat
    BY <2>1, Fields, RenewedDocument
  <2> QED
    BY <1>1, <1>6, <2>1, <2>2, StoredHistory DEF Complete, Goto
<1>7. ASSUME NEW r \in Requests, Refused(r) \/ Uncertain(r)
      PROVE  HistoryInv' /\ RenewalInv'
  <2>1. HistoryInv'
    BY <1>1, <1>7, SameHistory DEF Refused, Uncertain, Steps, Version
  <2>2. RenewalFits(r)'
    BY <1>1, <1>7
    DEF Refused, Uncertain, Goto, RenewalFits, TypeOK, SpeaksIop
  <2>3. \A q \in Requests \ {r} : RenewalFits(q)'
    BY <1>1, <1>7, StillRenewal DEF Refused, Uncertain, Goto, TypeOK
  <2> QED
    BY <2>1, <2>2, <2>3 DEF RenewalInv
<1>8. ASSUME NEW r \in Requests, Fail(r)
      PROVE  HistoryInv' /\ RenewalInv'
  <2>1. /\ row' # Nil /\ row'.lease = Nil /\ row'.doc = row.doc
        /\ row'.revision = row.revision
    BY <1>8, FailedRow
  <2>2. HistoryInv'
    BY <1>1, <1>8, <2>1, SameHistory DEF Fail, Steps, Version
  <2>3. RenewalFits(r)'
    BY <1>1, <1>8, <2>1, VaultAssumption DEF Fail, Goto, RenewalFits, TypeOK
  <2>4. \A q \in Requests \ {r} : RenewalFits(q)'
    BY <1>1, <1>8, <2>1, StillRenewal, VaultAssumption DEF Fail, Goto, TypeOK
  <2> QED
    BY <2>2, <2>3, <2>4 DEF RenewalInv
<1>9. ASSUME NEW r \in Requests, Grant(r) \/ Refuse(r)
      PROVE  HistoryInv' /\ RenewalInv'
  <2>1. HistoryInv'
    BY <1>9 DEF Grant, Refuse, HistoryInv, Version
  <2>2. RenewalFits(r)'
    BY <1>1, <1>9 DEF Grant, Refuse, RenewalFits, TypeOK, SpeaksIop
  <2>3. \A q \in Requests \ {r} : RenewalFits(q)'
    BY <1>1, <1>9, StillRenewal DEF Grant, Refuse, TypeOK
  <2> QED
    BY <2>1, <2>2, <2>3 DEF RenewalInv
<1>10. ASSUME NEW s \in Saves, Select(s)
       PROVE  HistoryInv' /\ RenewalInv'
  <2>1. HistoryInv'
    BY <1>10, SameHistory DEF Select, Steps, Version, Clients
  <2> QED
    BY <1>10, <1>2, <2>1 DEF Select, Steps
<1>11. ASSUME NEW s \in Saves, Insert(s)
       PROVE  HistoryInv' /\ RenewalInv'
  <2>1. base[s] + 1 \in Nat /\ s \in Clients
    BY DEF TypeOK, Clients
  <2> QED
    BY <1>11, <2>1, ImportedDocument, StoredHistory DEF Insert, Goto
<1>12. ASSUME NEW s \in Saves, Replace(s)
       PROVE  HistoryInv' /\ RenewalInv'
  <2>1. seen[s].revision + 1 \in Nat /\ s \in Clients
    BY <1>12, Fields DEF Replace, TypeOK, Clients
  <2> QED
    BY <1>12, <2>1, ImportedDocument, StoredHistory DEF Replace, Goto
<1>13. ASSUME NEW d \in Deletes, Delete(d) \/ DisableLegacy(d)
       PROVE  HistoryInv' /\ RenewalInv'
  <2>1. HistoryInv'
    BY <1>13, SameHistory DEF Delete, DisableLegacy, Steps, Version, Clients
  <2> QED
    BY <1>13, <1>2, <2>1 DEF Delete, DisableLegacy, Steps
<1>14. ASSUME NEW c \in Saves \cup Deletes, Show(c)
       PROVE  HistoryInv' /\ RenewalInv'
  <2>1. HistoryInv'
    BY <1>14, ReadHistory DEF Show, Clients
  <2>2. \A q \in Requests : seen'[q] = seen[q]
    BY <1>14, VaultAssumption DEF Show, TypeOK, Clients
  <2> QED
    BY <1>14, <1>2, <2>1, <2>2 DEF Show, Steps
<1>15. ASSUME NEW c \in Clients, Leave(c)
       PROVE  HistoryInv' /\ RenewalInv'
  <2>1. HistoryInv'
    BY <1>15, SameHistory DEF Leave, Steps, Version
  <2>2. ASSUME NEW q \in Requests, q # c
        PROVE  RenewalFits(q)'
    BY <1>1, <1>15, <2>2, StillRenewal DEF Leave, Goto, TypeOK
  <2>3. ASSUME NEW q \in Requests, q = c
        PROVE  RenewalFits(q)'
    BY <1>1, <1>15, <2>3 DEF Leave, Goto, RenewalFits, TypeOK
  <2> QED
    BY <2>1, <2>2, <2>3 DEF RenewalInv
<1>16. CASE Lapse
  <2>1. row' = [row EXCEPT !.lapsed = TRUE] /\ row \in Rows
    BY <1>16 DEF Lapse, TypeOK
  <2>2. /\ row'.lease = row.lease /\ row'.revision = row.revision
        /\ Version(row)' = Version(row) /\ row # Nil
    BY <1>16, <2>1 DEF Rows, Version, Lapse
  <2>3. HistoryInv'
    BY <1>16, <2>2 DEF Lapse, HistoryInv
  <2>4. ASSUME NEW q \in Requests
        PROVE  RenewalFits(q)'
    BY <1>1, <1>16, <2>2, StillRenewal DEF Lapse
  <2> QED
    BY <2>3, <2>4, TypeStep DEF RenewalInv
<1>17. CASE UNCHANGED vars
  <2>1. HistoryInv'
    BY <1>17 DEF vars, HistoryInv, Version
  <2>2. ASSUME NEW q \in Requests
        PROVE  RenewalFits(q)'
    BY <1>1, <1>17, StillRenewal DEF vars
  <2> QED
    BY <2>1, <2>2, TypeStep DEF RenewalInv
<1>18. HistoryInv' /\ RenewalInv'
  BY <1>3, <1>4, <1>5, <1>6, <1>7, <1>8, <1>9, <1>10, <1>11, <1>12, <1>13,
     <1>14, <1>15, <1>16, <1>17 DEF Next, Renewal
<1> QED
  BY <1>18, TypeStep

---------------------------------------------------------------------------
\* A revision that is still the row's names the document that was read with it.
LEMMA SameDocument ==
  ASSUME Sound, RevisionsUnique, NEW c \in Clients, seen[c] # Nil, row # Nil,
         row.revision = seen[c].revision
  PROVE  row.doc = seen[c].doc
<1>1. Version(row) \in versions /\ seen[c] \in versions
  BY DEF Sound, HistoryInv
<1> QED
  BY <1>1 DEF RevisionsUnique, Version

\* A holder of the fenced lease stands in the way of everybody who read the
\* same IOP document: at most one request is about to send.
LEMMA FenceKeepsOut ==
  ASSUME Sound, Exclusive, RevisionsUnique, NEW r \in Requests, Acquire(r),
         SpeaksIop(row.doc)
  PROVE  /\ row.doc = seen[r].doc
         /\ row.error # "unknown" /\ row.lease = Nil
         /\ OutWith(row.doc) = {}
         /\ \A q \in Requests : pc[q] \in {"leased", "sent"} =>
              seen[q].doc # row.doc
<1>1. row # Nil /\ row.doc = seen[r].doc
  BY SameDocument DEF Acquire, Sound, RenewalInv, RenewalFits, Clients
<1>2. row.error # "unknown" /\ row.lease = Nil
  BY <1>1 DEF Acquire, Exclusive, LeaseFenced, SpeaksIop
<1>3. OutWith(row.doc) = {}
  BY <1>1, <1>2 DEF Exclusive, UnfencedIsFresh
<1>4. ASSUME NEW q \in Requests, pc[q] \in {"leased", "sent"},
             seen[q].doc = row.doc
      PROVE  FALSE
  BY <1>1, <1>2, <1>4, VaultAssumption DEF Exclusive, HolderKeepsLease
<1> QED
  BY <1>1, <1>2, <1>3, <1>4

\* Steps that neither lease, send nor store.
LEMMA QuietExclusive ==
  ASSUME Sound, Exclusive, UNCHANGED versions,
         row' # Nil => /\ row # Nil /\ row'.doc = row.doc
                       /\ row'.lease = row.lease /\ row'.error = row.error,
         \A q \in Requests : wire'[q] \in {"submitted", "granted"} =>
           wire[q] \in {"submitted", "granted"} /\ seen'[q] = seen[q],
         \A q \in Requests : pc'[q] \in {"leased", "sent"} =>
           pc[q] = pc'[q] /\ seen'[q] = seen[q]
  PROVE  Exclusive'
<1> USE DEF Exclusive
<1>1. ASSUME NEW doc, NEW q \in OutWith(doc)'
      PROVE  q \in OutWith(doc)
  BY <1>1 DEF OutWith
<1>2. DocumentsAdvance'
  BY DEF DocumentsAdvance
<1>3. LeaseFenced'
  BY <1>1 DEF LeaseFenced, SpeaksIop
<1>4. SenderAlone'
  BY <1>1 DEF SenderAlone, SpeaksIop
<1>5. SpentOnce'
  BY <1>1 DEF SpentOnce, SpeaksIop
<1>6. UnfencedIsFresh'
  BY <1>1 DEF UnfencedIsFresh, SpeaksIop
<1>7. HolderKeepsLease'
  BY DEF HolderKeepsLease, SpeaksIop
<1> QED
  BY <1>2, <1>3, <1>4, <1>5, <1>6, <1>7

\* Steps that store a document later than any other of its import.
LEMMA StoredExclusive ==
  ASSUME Sound, Exclusive,
         NEW c \in Clients, NEW d \in Documents, NEW n \in Nat,
         \A v \in versions : v.doc.origin = d.origin =>
           v.doc.generation < d.generation,
         pc' = [pc EXCEPT ![c] = "done"],
         Store(NewRow(d, n)), UNCHANGED <<seen, wire>>
  PROVE  Exclusive'
<1> USE DEF Exclusive
<1>1. /\ row' # Nil /\ row'.doc = d /\ row'.lease = Nil
      /\ row'.error = "none"
      /\ versions' = versions \cup {[doc |-> d, revision |-> n]}
  BY StoredRow DEF Store
<1>2. d.generation \in Nat
  BY VaultAssumption DEF Documents
<1>3. \A v \in versions : v.doc # d /\ v.doc.generation \in Nat
  BY <1>2, Fields DEF Sound, TypeOK
<1>4. \A q \in Requests :
        seen[q] # Nil => seen[q] \in versions /\ seen[q].doc # d
  BY <1>3 DEF Sound, HistoryInv, Clients
<1>5. \A q \in Requests :
        /\ wire[q] # "none" \/ pc[q] \in {"leased", "sent"} => seen[q] # Nil
        /\ pc'[q] \in {"leased", "sent"} => pc'[q] = pc[q]
  BY DEF Sound, RenewalInv, RenewalFits, TypeOK, Clients
<1>6. \A doc : OutWith(doc)' = OutWith(doc)
  BY DEF OutWith
<1>7. OutWith(d) = {}
  BY <1>4, <1>5 DEF OutWith
<1>8. DocumentsAdvance'
  BY <1>1, <1>2, <1>3 DEF DocumentsAdvance
<1>9. LeaseFenced' /\ UnfencedIsFresh'
  BY <1>1, <1>6, <1>7 DEF LeaseFenced, UnfencedIsFresh
<1>10. SenderAlone'
  BY <1>5, <1>6 DEF SenderAlone, SpeaksIop
<1>11. SpentOnce'
  BY <1>1, <1>6, <1>7 DEF SpentOnce, SpeaksIop
<1>12. HolderKeepsLease'
  BY <1>1, <1>4, <1>5 DEF HolderKeepsLease, SpeaksIop
<1> QED
  BY <1>8, <1>9, <1>10, <1>11, <1>12

\* acquireRefreshLease raises the fence together with the lease.
LEMMA AcquireExclusive ==
  ASSUME Sound, Exclusive, RevisionsUnique, NEW r \in Requests, Acquire(r)
  PROVE  Exclusive'
<1> USE DEF Sound, Exclusive
<1>1. row # Nil /\ row \in Rows /\ row.doc = seen[r].doc
  BY SameDocument
  DEF Acquire, RenewalInv, RenewalFits, Clients, TypeOK
<1>5. /\ row' # Nil /\ row'.doc = row.doc /\ row'.lease = r
      /\ SpeaksIop(row.doc) => row'.error = "unknown"
  BY <1>1, LeasedRow
<1>6. /\ UNCHANGED <<seen, wire, versions>>
      /\ pc'[r] = "leased" /\ \A q \in Requests \ {r} : pc'[q] = pc[q]
  BY DEF Acquire, Goto, TypeOK, Clients
<1>7. \A doc : OutWith(doc)' = OutWith(doc)
  BY <1>6 DEF OutWith
<1>8. DocumentsAdvance'
  BY <1>1, <1>5, <1>6 DEF DocumentsAdvance
<1>9. SpentOnce'
  BY <1>6, <1>7 DEF SpentOnce, SpeaksIop
<1>10. UnfencedIsFresh'
  BY <1>5 DEF UnfencedIsFresh, SpeaksIop
<1>11. CASE SpeaksIop(row.doc)
  <2>1. /\ OutWith(row.doc) = {}
        /\ \A q \in Requests : pc[q] \in {"leased", "sent"} =>
             seen[q].doc # row.doc
    BY <1>11, FenceKeepsOut
  <2>2. LeaseFenced'
    BY <1>5, <1>7, <2>1 DEF LeaseFenced, SpeaksIop
  <2>3. SenderAlone'
    BY <1>1, <1>6, <1>7, <2>1 DEF SenderAlone, SpeaksIop
  <2>4. HolderKeepsLease'
    BY <1>5, <1>6, <2>1 DEF HolderKeepsLease, SpeaksIop
  <2> QED
    BY <1>8, <1>9, <1>10, <2>2, <2>3, <2>4
<1>12. CASE ~SpeaksIop(row.doc)
  <2>1. LeaseFenced'
    BY <1>5, <1>12 DEF LeaseFenced, SpeaksIop
  <2>2. SenderAlone'
    BY <1>1, <1>6, <1>7, <1>12 DEF SenderAlone, SpeaksIop
  <2>3. HolderKeepsLease'
    BY <1>5, <1>12 DEF HolderKeepsLease, SpeaksIop
  <2> QED
    BY <1>8, <1>9, <1>10, <2>1, <2>2, <2>3
<1> QED
  BY <1>11, <1>12

\* The call leaves: the token joins those that may be spent.
LEMMA SendExclusive ==
  ASSUME Sound, Exclusive, NEW r \in Requests, Send(r)
  PROVE  Exclusive'
<1> USE DEF Sound, Exclusive
<1>1. /\ UNCHANGED <<row, seen, versions>>
      /\ pc[r] = "leased" /\ pc'[r] = "sent"
      /\ \A q \in Requests \ {r} : pc'[q] = pc[q] /\ wire'[q] = wire[q]
      /\ wire'[r] = "submitted"
  BY DEF Send, Goto, TypeOK, Clients
<1>2. \A doc : /\ doc # seen[r].doc => OutWith(doc)' = OutWith(doc)
               /\ doc = seen[r].doc => OutWith(doc)' = OutWith(doc) \cup {r}
  BY <1>1 DEF OutWith
<1>3. SpeaksIop(seen[r].doc) => OutWith(seen[r].doc) = {}
  BY <1>1 DEF SenderAlone
<1>4. SpeaksIop(seen[r].doc) /\ row # Nil /\ row.doc = seen[r].doc =>
        row.lease = r /\ row.error = "unknown"
  BY <1>1, VaultAssumption DEF HolderKeepsLease, LeaseFenced
<1>5. DocumentsAdvance' /\ HolderKeepsLease'
  BY <1>1 DEF DocumentsAdvance, HolderKeepsLease, SpeaksIop
<1>6. LeaseFenced' /\ UnfencedIsFresh'
  BY <1>1, <1>2, <1>3, <1>4 DEF LeaseFenced, UnfencedIsFresh, SpeaksIop
<1>7. SenderAlone'
  BY <1>1, <1>2 DEF SenderAlone, SpeaksIop
<1>8. SpentOnce'
  BY <1>1, <1>2, <1>3 DEF SpentOnce, SpeaksIop
<1> QED
  BY <1>5, <1>6, <1>7, <1>8

\* failRefresh lowers the fence only after a refusal.
LEMMA FailExclusive ==
  ASSUME Sound, Exclusive, RevisionsUnique, NEW r \in Requests, Fail(r)
  PROVE  Exclusive'
<1> USE DEF Sound, Exclusive
<1>1. /\ row # Nil /\ row \in Rows /\ row.lease = r /\ code[r] \in Errors
      /\ row.doc = seen[r].doc
  BY SameDocument
  DEF Fail, RenewalInv, RenewalFits, Clients, TypeOK
<1>3. /\ row' # Nil /\ row'.doc = row.doc /\ row'.lease = Nil
      /\ row'.error = code[r]
  BY FailedRow
<1>4. /\ UNCHANGED <<seen, wire, versions>>
      /\ pc[r] = "failing" /\ pc'[r] = "done"
      /\ \A q \in Requests \ {r} : pc'[q] = pc[q]
  BY DEF Fail, Goto, TypeOK, Clients
<1>5. \A doc : OutWith(doc)' = OutWith(doc)
  BY <1>4 DEF OutWith
<1>6. SpeaksIop(row.doc) /\ code[r] # "unknown" => OutWith(row.doc) = {}
  <2>1. ASSUME SpeaksIop(row.doc), code[r] # "unknown"
        PROVE  wire[r] = "refused" /\ OutWith(row.doc) \subseteq {r}
    BY <1>1, <1>4, <2>1, VaultAssumption
    DEF RenewalInv, RenewalFits, LeaseFenced
  <2> QED
    BY <2>1 DEF OutWith
<1>7. DocumentsAdvance' /\ SpentOnce'
  BY <1>1, <1>3, <1>4, <1>5 DEF DocumentsAdvance, SpentOnce, SpeaksIop
<1>8. LeaseFenced' /\ UnfencedIsFresh'
  BY <1>3, <1>5, <1>6 DEF LeaseFenced, UnfencedIsFresh, SpeaksIop
<1>9. SenderAlone'
  BY <1>4, <1>5 DEF SenderAlone, SpeaksIop
<1>10. HolderKeepsLease'
  BY <1>1, <1>3, <1>4 DEF HolderKeepsLease, SpeaksIop
<1> QED
  BY <1>7, <1>8, <1>9, <1>10

LEMMA ExclusiveStep ==
  ASSUME Sound, Exclusive, [Next]_vars, RevisionsUnique'
  PROVE  Exclusive'
<1> USE DEF Sound
<1>1. versions \subseteq versions'
  BY DEF Next, Renewal, vars, Find, Acquire, Send, Complete, Refused, Uncertain,
         Fail, Grant, Refuse, Select, Insert, Replace, Delete, DisableLegacy,
         Show, Leave, Lapse, Store
<1>2. RevisionsUnique
  BY <1>1 DEF RevisionsUnique
<1>3. ASSUME NEW r \in Requests, Find(r)
      PROVE  Exclusive'
  <2>1. wire[r] = "none" /\ r \in Clients
    BY <1>3 DEF Find, RenewalInv, RenewalFits, Clients
  <2>2. \A q \in Requests \ {r} : seen'[q] = seen[q] /\ pc'[q] = pc[q]
    BY <1>3, <2>1 DEF Find, Goto, TypeOK, Clients
  <2>3. pc'[r] = "found"
    BY <1>3, <2>1 DEF Find, Goto, TypeOK
  <2> QED
    BY <1>3, <2>1, <2>2, <2>3, QuietExclusive DEF Find
<1>4. ASSUME NEW r \in Requests, Acquire(r)
      PROVE  Exclusive'
  BY <1>2, <1>4, AcquireExclusive
<1>5. ASSUME NEW r \in Requests, Send(r)
      PROVE  Exclusive'
  BY <1>5, SendExclusive
<1>6. ASSUME NEW r \in Requests, Complete(r)
      PROVE  Exclusive'
  <2>1. /\ seen[r] \in Versions /\ r \in Clients /\ row # Nil
        /\ seen[r].doc.generation < MaxGeneration /\ row.doc = seen[r].doc
    BY <1>2, <1>6, SameDocument
    DEF Complete, RenewalInv, RenewalFits, TypeOK, Clients
  <2>2. /\ Renewed(seen[r].doc) \in Documents
        /\ Renewed(seen[r].doc).origin = seen[r].doc.origin
        /\ Renewed(seen[r].doc).generation = seen[r].doc.generation + 1
        /\ seen[r].revision + 1 \in Nat
    BY <2>1, Fields, RenewedDocument
  <2>3. \A v \in versions : v.doc.origin = seen[r].doc.origin =>
          v.doc.generation < Renewed(seen[r].doc).generation
    <3>1. \A v \in versions : v.doc.generation \in Nat
      BY Fields DEF TypeOK
    <3>2. seen[r].doc.generation \in Nat
      BY <2>1, Fields
    <3> QED
      BY <2>1, <2>2, <3>1, <3>2 DEF Exclusive, DocumentsAdvance
  <2> QED
    BY <1>6, <2>1, <2>2, <2>3, StoredExclusive DEF Complete, Goto
<1>7. ASSUME NEW r \in Requests, Refused(r) \/ Uncertain(r)
      PROVE  Exclusive'
  <2>1. pc'[r] = "failing" /\ \A q \in Requests \ {r} : pc'[q] = pc[q]
    BY <1>7 DEF Refused, Uncertain, Goto, TypeOK, Clients
  <2> QED
    BY <1>7, <2>1, QuietExclusive DEF Refused, Uncertain
<1>8. ASSUME NEW r \in Requests, Fail(r)
      PROVE  Exclusive'
  BY <1>2, <1>8, FailExclusive
<1>9. ASSUME NEW r \in Requests, Grant(r) \/ Refuse(r)
      PROVE  Exclusive'
  <2>1. \A q \in Requests : wire'[q] \in {"submitted", "granted"} =>
          wire[q] \in {"submitted", "granted"}
    BY <1>9 DEF Grant, Refuse, TypeOK
  <2> QED
    BY <1>9, <2>1, QuietExclusive DEF Grant, Refuse
<1>10. ASSUME NEW c \in Saves \cup Deletes, NEW step \in Steps, Goto(c, step),
              UNCHANGED row \/ row' = Nil, UNCHANGED <<wire, versions>>,
              \A q \in Requests : seen'[q] = seen[q]
       PROVE  Exclusive'
  <2>1. \A q \in Requests : pc'[q] = pc[q]
    BY <1>10, VaultAssumption DEF Goto, TypeOK, Clients
  <2> QED
    BY <1>10, <2>1, QuietExclusive
<1>11. ASSUME NEW s \in Saves, Select(s)
       PROVE  Exclusive'
  BY <1>10, <1>11 DEF Select, Steps
<1>12. ASSUME NEW s \in Saves, Insert(s) \/ Replace(s)
       PROVE  Exclusive'
  <2>1. \A v \in versions : v.doc.origin # s
    BY <1>12 DEF Insert, Replace, HistoryInv
  <2>2. /\ NewDocument(s) \in Documents /\ NewDocument(s).origin = s
        /\ s \in Clients /\ base[s] + 1 \in Nat
    BY ImportedDocument DEF TypeOK, Clients
  <2>3. Replace(s) => seen[s].revision + 1 \in Nat
    BY <2>2, Fields DEF Replace, TypeOK
  <2> QED
    BY <1>12, <2>1, <2>2, <2>3, StoredExclusive DEF Insert, Replace, Goto
<1>13. ASSUME NEW d \in Deletes, Delete(d) \/ DisableLegacy(d)
       PROVE  Exclusive'
  BY <1>10, <1>13 DEF Delete, DisableLegacy, Steps
<1>14. ASSUME NEW c \in Saves \cup Deletes, Show(c)
       PROVE  Exclusive'
  <2>1. \A q \in Requests : seen'[q] = seen[q]
    BY <1>14, VaultAssumption DEF Show, TypeOK, Clients
  <2> QED
    BY <1>10, <1>14, <2>1 DEF Show, Steps
<1>15. ASSUME NEW c \in Clients, Leave(c)
       PROVE  Exclusive'
  <2>1. \A q \in Requests : pc'[q] \in {"leased", "sent"} => pc'[q] = pc[q]
    BY <1>15 DEF Leave, Goto, TypeOK, Clients
  <2> QED
    BY <1>15, <2>1, QuietExclusive DEF Leave
<1>16. CASE Lapse
  <2>1. row \in Rows /\ row # Nil /\ row' = [row EXCEPT !.lapsed = TRUE]
    BY <1>16 DEF Lapse, TypeOK
  <2>2. row'.doc = row.doc /\ row'.lease = row.lease /\ row'.error = row.error
    BY <2>1 DEF Rows
  <2> QED
    BY <1>16, <2>1, <2>2, QuietExclusive DEF Lapse
<1>17. CASE UNCHANGED vars
  BY <1>17, QuietExclusive DEF vars
<1> QED
  BY <1>3, <1>4, <1>5, <1>6, <1>7, <1>8, <1>9, <1>11, <1>12, <1>13, <1>14,
     <1>15, <1>16, <1>17 DEF Next, Renewal

---------------------------------------------------------------------------
LEMMA InitInductive ==
  ASSUME Init
  PROVE  Inductive
<1> USE DEF Init
<1>1. TypeOK
  BY DEF TypeOK, Clients, Steps, Calls, Errors
<1>2. HistoryInv
  BY DEF HistoryInv
<1>3. RenewalInv
  BY DEF RenewalInv, RenewalFits, Clients
<1>4. \A doc : OutWith(doc) = {}
  BY DEF OutWith
<1>5. Exclusive
  BY <1>4
  DEF Exclusive, DocumentsAdvance, LeaseFenced, SenderAlone, SpentOnce,
      UnfencedIsFresh, HolderKeepsLease, Clients
<1> QED
  BY <1>1, <1>2, <1>3, <1>5 DEF Inductive, Sound

LEMMA InductiveStep ==
  ASSUME Inductive, [Next]_vars
  PROVE  Inductive'
<1>1. RevisionsUnique' => RevisionsUnique
  BY DEF Next, Renewal, vars, Find, Acquire, Send, Complete, Refused, Uncertain,
         Fail, Grant, Refuse, Select, Insert, Replace, Delete, DisableLegacy,
         Show, Leave, Lapse, Store, RevisionsUnique
<1> QED
  BY <1>1, SoundStep, ExclusiveStep DEF Inductive

LEMMA Invariance == Spec => []Inductive
<1>1. Init => Inductive
  BY InitInductive
<1>2. Inductive /\ [Next]_vars => Inductive'
  BY InductiveStep
<1> QED
  BY <1>1, <1>2, PTL DEF Spec

\* Every variable of the vault keeps its type.
THEOREM TypeCorrect == Spec => []TypeOK
<1>1. Inductive => TypeOK
  BY DEF Inductive, Sound
<1> QED
  BY <1>1, Invariance, PTL

\* As long as no revision is reused, an IOP token whose fate is open is never
\* sent a second time, whatever leases run out and processes die.
THEOREM TokenSpentOnce == Spec => []SpentOnceIfUnique
<1>1. Inductive => SpentOnceIfUnique
  BY DEF Inductive, Exclusive, SpentOnceIfUnique
<1> QED
  BY <1>1, Invariance, PTL

\* Likewise, a document the vault calls renewable holds a token nobody spent.
THEOREM UnfencedFresh == Spec => []UnfencedIsFreshIfUnique
<1>1. Inductive => UnfencedIsFreshIfUnique
  BY DEF Inductive, Exclusive, UnfencedIsFreshIfUnique
<1> QED
  BY <1>1, Invariance, PTL

\* Likewise, no second renewal takes the lease from an IOP call under way.
THEOREM LeaseKept == Spec => []HolderKeepsLeaseIfUnique
<1>1. Inductive => HolderKeepsLeaseIfUnique
  BY DEF Inductive, Exclusive, HolderKeepsLeaseIfUnique
<1> QED
  BY <1>1, Invariance, PTL

\* A step that changes the row is taken by a client that has read it.
LEMMA WriterHasSeen ==
  ASSUME Inductive, [Next]_vars, RevisionsUnique, NEW c \in Clients,
         pc'[c] # pc[c], row' # row
  PROVE  HasSeen(c)
<1> USE DEF Inductive, Sound
<1>1. ASSUME NEW b \in Clients, NEW step \in Steps, Goto(b, step)
      PROVE  b = c
  BY <1>1 DEF Goto, TypeOK
<1>2. ASSUME row # Nil, seen[c] # Nil, row.revision = seen[c].revision
      PROVE  HasSeen(c)
  BY <1>2, SameDocument DEF HasSeen
<1>3. ASSUME NEW r \in Requests, Acquire(r) \/ Complete(r) \/ Fail(r)
      PROVE  HasSeen(c)
  <2>1. r = c
    BY <1>1, <1>3 DEF Acquire, Complete, Fail, Clients, Steps
  <2>2. /\ row # Nil /\ row.revision = seen[r].revision
        /\ seen[r] # Nil
    BY <1>3 DEF Acquire, Complete, Fail, RenewalInv, RenewalFits
  <2> QED
    BY <1>2, <2>1, <2>2
<1>4. ASSUME NEW s \in Saves, Insert(s)
      PROVE  HasSeen(c)
  BY <1>1, <1>4 DEF Insert, HasSeen, Clients, Steps
<1>5. ASSUME NEW s \in Saves, Replace(s)
      PROVE  HasSeen(c)
  <2>1. s = c
    BY <1>1, <1>5 DEF Replace, Clients, Steps
  <2> QED
    BY <1>2, <1>5, <2>1 DEF Replace
<1>6. ASSUME NEW d \in Deletes, Delete(d)
      PROVE  HasSeen(c)
  <2>1. d = c
    BY <1>1, <1>6 DEF Delete, Clients, Steps
  <2> QED
    BY <1>2, <1>6, <2>1 DEF Delete
<1>7. CASE Lapse \/ UNCHANGED vars
  BY <1>7 DEF Lapse, vars
<1>8. CASE UNCHANGED row
  BY <1>8
<1> QED
  BY <1>3, <1>4, <1>5, <1>6, <1>7, <1>8
  DEF Next, Renewal, Find, Send, Refused, Uncertain, Grant, Refuse, Select,
      DisableLegacy, Show, Leave

\* As long as no revision is reused, nobody leases, renews, marks as failed,
\* replaces or deletes a document it has not read.
THEOREM NothingBlind == Spec => NoBlindWriteIfUnique
<1>1. Inductive /\ [Next]_vars =>
        [RevisionsUnique =>
           \A c \in Clients : pc'[c] # pc[c] /\ row' # row => HasSeen(c)]_vars
  BY WriterHasSeen
<1> QED
  BY <1>1, Invariance, PTL DEF Spec, NoBlindWriteIfUnique
=============================================================================
