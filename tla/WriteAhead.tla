----------------------------- MODULE WriteAhead -----------------------------
(***************************************************************************)
(* What a task that runs in a browser tab promises about a write that may  *)
(* be tried again: a receipt is on record before the call leaves, the call *)
(* is not repeated while an earlier one may still land or has landed, and  *)
(* the receipt is torn up only for a call that is known to have had no     *)
(* effect.  The effect happens at most once, however often the tab dies.   *)
(***************************************************************************)
CONSTANT Writes

VARIABLES
  receipt,  \* "clear", "intent" before the call, "settled" for good or left out
  live,     \* the writes with a call that may still land
  landed    \* the writes that took effect

vars == <<receipt, live, landed>>

Init ==
  /\ receipt \in [Writes -> {"clear", "settled"}]
  /\ live = {}
  /\ landed = {}

Intend(w) ==
  /\ receipt[w] = "clear"
  /\ receipt' = [receipt EXCEPT ![w] = "intent"]
  /\ UNCHANGED <<live, landed>>

Dispatch(w) ==
  /\ receipt[w] = "intent"
  /\ w \notin live \cup landed
  /\ live' = live \cup {w}
  /\ UNCHANGED <<receipt, landed>>

Land(w) ==
  /\ w \in live
  /\ live' = live \ {w}
  /\ landed' = landed \cup {w}
  /\ UNCHANGED receipt

\* The call is known, or turns out, to have had no effect.
Vanish(w) ==
  /\ w \in live
  /\ live' = live \ {w}
  /\ UNCHANGED <<receipt, landed>>

TearUp(w) ==
  /\ receipt[w] = "intent"
  /\ w \notin live \cup landed
  /\ receipt' = [receipt EXCEPT ![w] = "clear"]
  /\ UNCHANGED <<live, landed>>

Settle(w) ==
  /\ receipt' = [receipt EXCEPT ![w] = "settled"]
  /\ UNCHANGED <<live, landed>>

Next ==
  \E w \in Writes :
    \/ Intend(w) \/ Dispatch(w) \/ Land(w) \/ Vanish(w)
    \/ TearUp(w) \/ Settle(w)

Spec == Init /\ [][Next]_vars
=============================================================================
