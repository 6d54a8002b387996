----------------------------- MODULE WriteOnce -----------------------------
(***************************************************************************)
(* What the persistent jobs of this system promise about a write to an     *)
(* outside platform, whatever the table and the handlers look like: the    *)
(* write leaves only after its intent is on record, it leaves at most      *)
(* once, and the verdict on record rests on what is known: "done" on a     *)
(* write that was carried out, "refused" on an error for an answer to      *)
(* every call that left.  Such an error may come from a server in front of *)
(* the platform, so a rejected call may still be carried out.  "unknown"   *)
(* is always an honest verdict, and the only one that may be replaced.     *)
(***************************************************************************)
CONSTANTS
  Writes,
  Senders   \* the requests that may send a write

VARIABLES
  intent,   \* writes whose intent is on record
  sent,     \* <<write, sender>> for every call that left
  rejected, \* the calls that were answered with an error
  taken,    \* the calls the platform carried out
  verdict   \* what the record says became of a write

vars == <<intent, sent, rejected, taken, verdict>>

Verdicts == {"none", "done", "refused", "unknown", "withdrawn"}

Init ==
  /\ intent = {}
  /\ sent = {}
  /\ rejected = {}
  /\ taken = {}
  /\ verdict = [w \in Writes |-> "none"]

Record(w) ==
  /\ w \notin intent
  /\ verdict[w] = "none"
  /\ intent' = intent \cup {w}
  /\ UNCHANGED <<sent, rejected, taken, verdict>>

\* Only while no other call for the same write ever left.
Dispatch(w, s) ==
  /\ w \in intent
  /\ \A other \in Senders : <<w, other>> \notin sent
  /\ verdict[w] # "refused"
  /\ sent' = sent \cup {<<w, s>>}
  /\ UNCHANGED <<intent, rejected, taken, verdict>>

Take(w, s) ==
  /\ <<w, s>> \in sent \ taken
  /\ taken' = taken \cup {<<w, s>>}
  /\ UNCHANGED <<intent, sent, rejected, verdict>>

Reject(w, s) ==
  /\ <<w, s>> \in sent \ rejected
  /\ rejected' = rejected \cup {<<w, s>>}
  /\ UNCHANGED <<intent, sent, taken, verdict>>

\* A write is withdrawn only before its intent is recorded.
Conclude(w, v) ==
  /\ verdict[w] \in {"none", "unknown"}
  /\ v \in Verdicts \ {"none"}
  /\ v = "done" => \E s \in Senders : <<w, s>> \in taken
  /\ v = "refused" =>
       \A s \in Senders : <<w, s>> \in sent => <<w, s>> \in rejected
  /\ v = "withdrawn" => w \notin intent
  /\ verdict' = [verdict EXCEPT ![w] = v]
  /\ UNCHANGED <<intent, sent, rejected, taken>>

Next ==
  \E w \in Writes :
    \/ Record(w)
    \/ \E s \in Senders : Dispatch(w, s) \/ Take(w, s) \/ Reject(w, s)
    \/ \E v \in Verdicts : Conclude(w, v)

Spec == Init /\ [][Next]_vars
===========================================================================
