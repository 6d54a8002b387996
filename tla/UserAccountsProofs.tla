------------------------- MODULE UserAccountsProofs -------------------------
(* What the rows of users and sessions keep for every set of users and     *)
(* requests and every bound on the revisions, in any interleaving and      *)
(* wherever a request is stopped: no request undoes another, a session     *)
(* outlives its password only in three ways, and the last administrator is *)
(* lost in one.                                                            *)
EXTENDS UserAccounts, TLAPS

---------------------------------------------------------------------------
(* The inductive invariant.                                                *)

\* A request knows a version of its user's row that is the row itself as long
\* as the revision is the same; and it gives back what it does not change.
Snapshot(c) ==
  Busy(c) =>
    /\ hand[c].seen.revision <= row[hand[c].user].revision
    /\ hand[c].seen.revision = row[hand[c].user].revision =>
         hand[c].seen = row[hand[c].user]
    /\ hand[c].op # "update" =>
         /\ hand[c].admin = hand[c].seen.admin
         /\ hand[c].active = hand[c].seen.active
    /\ hand[c].at = "verify" => hand[c].seen.active

\* As long as no two demotions have met, each of them has counted someone who
\* still is an administrator.
Witness(c) ==
  Demoting(c) => \E v \in Users \ {hand[c].user} : ActiveAdmin(row[v])

\* A session that is not current has one of the three causes.
Explained(s) ==
  \/ row[s.user].active /\ s.pw = row[s.user].pw
  \/ \E c \in Handlers :
       Busy(c) /\ hand[c].at = "revoke" /\ hand[c].user = s.user
  \/ s.user \in owed
  \/ s.late

Inductive ==
  /\ TypeOK
  /\ \A c \in Handlers : Snapshot(c)
  /\ ~ raced => \A c \in Handlers : Witness(c)
  /\ AdminRemains
  /\ \A s \in sessions : Explained(s)

LEMMA IdleIsNoHand == Idle \notin Hand
BY DEF Idle, Hand

LEMMA InitHolds == Init => Inductive
<1> SUFFICES ASSUME Init PROVE Inductive
  OBVIOUS
<1>1. PICK admins \in (SUBSET Users) \ {{}} :
        row = [u \in Users |-> [admin |-> u \in admins, active |-> TRUE,
                                pw |-> 1, revision |-> 1]]
  BY DEF Init
<1>2. \A u \in Users : /\ row[u].active /\ row[u].pw = 1
                       /\ row[u].admin <=> u \in admins
  BY <1>1
<1>3. 1 \in Revisions
  BY AccountsAssumption DEF Revisions
<1>4. TypeOK
  <2>1. row \in [Users -> Row]
    BY <1>1, <1>3 DEF Row
  <2>2. sessions \subseteq Session
    BY <1>3 DEF Init, Session
  <2> QED
    BY <2>1, <2>2 DEF Init, TypeOK
<1>5. \A c \in Handlers : ~ Busy(c)
  BY DEF Init, Busy
<1>6. AdminRemains
  BY <1>1, <1>2 DEF AdminRemains, ActiveAdmin
<1>7. \A s \in sessions : Explained(s)
  BY <1>2 DEF Init, Explained
<1> QED
  BY <1>4, <1>5, <1>6, <1>7 DEF Inductive, Snapshot, Witness, Demoting

---------------------------------------------------------------------------
(* Steps of requests that leave the rows alone.                            *)

\* Only request c moves, to h.
Moves(c, h) ==
  /\ hand' \in [Handlers -> Hand \cup {Idle}] /\ hand'[c] = h
  /\ \A d \in Handlers \ {c} : hand'[d] = hand[d]

LEMMA OneMoves ==
  ASSUME TypeOK, NEW c \in Handlers, NEW h \in Hand \cup {Idle}, Goes(c, h)
  PROVE  Moves(c, h)
BY DEF TypeOK, Goes, Moves

\* A request starts on the row as it is.
LEMMA StartHolds ==
  ASSUME Inductive, NEW c \in Handlers, NEW h \in Hand,
         ~ Busy(c), Goes(c, h), h.seen = row[h.user],
         h.at = "verify" => h.seen.active,
         h.op # "update" => h.admin = h.seen.admin /\ h.active = h.seen.active,
         h.at = "write" => ~ Demotes(h), h.at # "revoke",
         UNCHANGED <<row, sessions, history>>
  PROVE  Inductive'
<1>0. TypeOK /\ h \in Hand \cup {Idle} /\ h.user \in Users
  BY DEF Inductive, Hand
<1>1. Moves(c, h)
  BY <1>0, OneMoves
<1>2. TypeOK'
  BY <1>0, <1>1 DEF TypeOK, Moves, history
<1>3. \A d \in Handlers \ {c} : hand'[d] = hand[d] /\ (Busy(d)' <=> Busy(d))
  BY <1>1 DEF Moves, Busy
<1>4. ASSUME NEW d \in Handlers PROVE Snapshot(d)'
  <2>1. CASE d = c
    <3>1. row[h.user] \in Row
      BY <1>0 DEF TypeOK
    <3>2. h.seen.revision \in Nat
      BY <3>1, AccountsAssumption DEF Row, Revisions
    <3> QED
      BY <1>1, <2>1, <3>2 DEF Moves, Snapshot
  <2>2. CASE d # c
    BY <1>3, <2>2 DEF Inductive, Snapshot
  <2> QED
    BY <2>1, <2>2
<1>5. ASSUME ~ raced, NEW d \in Handlers PROVE Witness(d)'
  <2>1. CASE d = c
    BY <1>1, <2>1 DEF Moves, Witness, Demoting
  <2>2. CASE d # c
    BY <1>3, <1>5, <2>2 DEF Inductive, Witness, Demoting
  <2> QED
    BY <2>1, <2>2
<1>6. AdminRemains'
  BY DEF Inductive, AdminRemains, history
<1>7. ASSUME NEW s \in sessions PROVE Explained(s)'
  BY <1>3, <1>7 DEF Inductive, Explained, history
<1> QED
  BY <1>2, <1>4, <1>5, <1>6, <1>7 DEF Inductive, history

\* A request leaves; every session that is left is explained, and those of its
\* user without it.
LEMMA LeaveHolds ==
  ASSUME Inductive, NEW c \in Handlers, Leaves(c), UNCHANGED <<row, raced>>,
         sessions' \subseteq Session, owed' \subseteq Users,
         \A s \in sessions' :
           \/ row[s.user].active /\ s.pw = row[s.user].pw
           \/ s.user \in owed' \/ s.late
           \/ /\ s \in sessions
              /\ s.user \in owed => s.user \in owed'
              /\ Busy(c) /\ hand[c].at = "revoke" => s.user # hand[c].user
  PROVE  Inductive'
<1>0. TypeOK
  BY DEF Inductive
<1>1. Moves(c, Idle)
  BY <1>0, OneMoves DEF Leaves
<1>2. TypeOK'
  BY <1>0, <1>1 DEF TypeOK, Moves
<1>3. /\ \A d \in Handlers \ {c} : hand'[d] = hand[d] /\ (Busy(d)' <=> Busy(d))
      /\ ~ Busy(c)'
  BY <1>1 DEF Moves, Busy
<1>4. ASSUME NEW d \in Handlers PROVE Snapshot(d)'
  BY <1>3 DEF Inductive, Snapshot
<1>5. ASSUME ~ raced, NEW d \in Handlers PROVE Witness(d)'
  BY <1>3, <1>5 DEF Inductive, Witness, Demoting
<1>6. AdminRemains'
  BY DEF Inductive, AdminRemains
<1>7. ASSUME NEW s \in sessions' PROVE Explained(s)'
  BY <1>3, <1>7 DEF Inductive, Explained
<1> QED
  BY <1>2, <1>4, <1>5, <1>6, <1>7 DEF Inductive

LEMMA CountHolds ==
  ASSUME Inductive, NEW c \in Handlers, CountActiveAdmins(c)
  PROVE  Inductive'
<1>0. TypeOK /\ hand[c].at = "count" /\ UNCHANGED <<row, sessions, history>>
  BY DEF Inductive, CountActiveAdmins
<1>1. hand[c] \in Hand /\ Busy(c)
  BY <1>0, IdleIsNoHand DEF TypeOK, Busy, Idle
<1>2. CASE Leaves(c)
  BY <1>0, <1>1, <1>2, LeaveHolds DEF TypeOK, history
<1>3. CASE /\ \E v \in Users \ {hand[c].user} : ActiveAdmin(row[v])
           /\ Goes(c, [hand[c] EXCEPT !.at = "write"])
  <2> DEFINE h == [hand[c] EXCEPT !.at = "write"]
  <2>1. /\ h \in Hand /\ h.at = "write" /\ h.user = hand[c].user
        /\ h.seen = hand[c].seen /\ h.op = hand[c].op
        /\ h.admin = hand[c].admin /\ h.active = hand[c].active
    BY <1>1 DEF Hand
  <2>2. Goes(c, h)
    BY <1>3
  <2> HIDE DEF h
  <2>3. Moves(c, h)
    BY <1>0, <2>1, <2>2, OneMoves
  <2>4. /\ \A d \in Handlers \ {c} : hand'[d] = hand[d]
                                     /\ (Busy(d)' <=> Busy(d))
        /\ hand'[c] = h /\ (Demotes(h) <=> Demotes(hand[c]))
    BY <2>1, <2>3 DEF Moves, Busy, Demotes
  <2>5. TypeOK'
    BY <1>0, <2>3 DEF TypeOK, Moves, history
  <2>6. ASSUME NEW d \in Handlers PROVE Snapshot(d)'
    BY <1>0, <1>1, <2>1, <2>4 DEF Inductive, Snapshot
  <2>7. ASSUME ~ raced, NEW d \in Handlers PROVE Witness(d)'
    BY <1>0, <1>3, <2>1, <2>4, <2>7 DEF Inductive, Witness, Demoting
  <2>8. AdminRemains'
    BY <1>0 DEF Inductive, AdminRemains, history
  <2>9. ASSUME NEW s \in sessions PROVE Explained(s)'
    BY <1>0, <2>1, <2>4, <2>9 DEF Inductive, Explained, history
  <2> QED
    BY <1>0, <2>5, <2>6, <2>7, <2>8, <2>9 DEF Inductive, history
<1> QED
  BY <1>2, <1>3 DEF CountActiveAdmins

\* The session of a login is current or late.
LEMMA OpenSessionHolds ==
  ASSUME Inductive, NEW c \in Handlers, OpenSession(c)
  PROVE  Inductive'
<1> DEFINE u == hand[c].user
           pw == hand[c].seen.pw
           late == ~ row[u].active \/ row[u].pw # pw
           s == [user |-> u, pw |-> pw, late |-> late]
<1>0. /\ TypeOK /\ hand[c].at = "verify" /\ Leaves(c)
      /\ UNCHANGED <<row, owed, raced>> /\ sessions' = sessions \cup {s}
  BY DEF Inductive, OpenSession, history
<1>1. hand[c] \in Hand /\ Busy(c)
  BY <1>0, IdleIsNoHand DEF TypeOK, Busy, Idle
<1>2. /\ s \in Session /\ s.user = u /\ s.pw = pw /\ (s.late <=> late)
  BY <1>1 DEF Hand, Row, Session
<1> HIDE DEF s
<1>3. (row[s.user].active /\ s.pw = row[s.user].pw) \/ s.late
  BY <1>2
<1> QED
  BY <1>0, <1>1, <1>2, <1>3, LeaveHolds DEF TypeOK

LEMMA RevokeHolds ==
  ASSUME Inductive, NEW c \in Handlers, Revoke(c)
  PROVE  Inductive'
<1>1. /\ Leaves(c) /\ UNCHANGED <<row, raced>>
      /\ owed' = owed \ {hand[c].user} /\ owed \subseteq Users
      /\ sessions' = Ended(hand[c].user) /\ sessions \subseteq Session
  BY DEF Inductive, TypeOK, Revoke
<1>2. sessions' \subseteq Session
      /\ \A s \in sessions' : s \in sessions /\ s.user # hand[c].user
  BY <1>1 DEF Ended
<1> QED
  BY <1>1, <1>2, LeaveHolds

\* A request that is stopped owes the end of its user's sessions.
LEMMA DieHolds ==
  ASSUME Inductive, NEW c \in Handlers, Die(c)
  PROVE  Inductive'
<1>1. /\ Busy(c) /\ Leaves(c) /\ UNCHANGED <<row, sessions, raced>>
      /\ owed \subseteq owed' /\ owed' \subseteq owed \cup {hand[c].user}
      /\ hand[c].at = "revoke" => hand[c].user \in owed'
  BY DEF Die
<1>2. /\ hand[c].user \in Users /\ owed \subseteq Users
      /\ sessions \subseteq Session
  BY <1>1 DEF Inductive, TypeOK, Busy, Hand
<1> QED
  BY <1>1, <1>2, LeaveHolds

\* Sessions are ended and nothing else; those of a user whose sessions are no
\* longer owed are all gone.
LEMMA EndingHolds ==
  ASSUME Inductive, sessions' \in SUBSET sessions, UNCHANGED <<row, hand, raced>>,
         owed' \in SUBSET owed,
         \A s \in sessions' : s.user \in owed => s.user \in owed'
  PROVE  Inductive'
<1>1. TypeOK'
  BY DEF Inductive, TypeOK
<1>2. \A c \in Handlers : Snapshot(c)' /\ (~ raced => Witness(c)')
  BY DEF Inductive, Snapshot, Witness, Demoting, Busy
<1>3. \A s \in sessions' : Explained(s)'
  BY DEF Inductive, Explained, Busy
<1> QED
  BY <1>1, <1>2, <1>3 DEF Inductive, AdminRemains

---------------------------------------------------------------------------
(* The write of a user's row.                                              *)

\* What a write does to the row, if the revision is still the one read.
LEMMA WriteRow ==
  ASSUME TypeOK, NEW c \in Handlers, WriteUser(c),
         row[hand[c].user].revision = hand[c].seen.revision
  PROVE  LET h == hand[c]
             new == row'[h.user]
         IN /\ h \in Hand /\ Busy(c) /\ h.at = "write"
            /\ row' \in [Users -> Row]
            /\ \A v \in Users \ {h.user} : row'[v] = row[v]
            /\ new.revision = row[h.user].revision + 1
            /\ new.admin = h.admin /\ new.active = h.active
            /\ h.op = "update" => new.pw = h.seen.pw
            /\ \/ h.op = "update" /\ h.active /\ Leaves(c)
               \/ Goes(c, [h EXCEPT !.at = "revoke"])
            /\ UNCHANGED <<sessions, owed>> /\ raced' \in BOOLEAN
            /\ raced => raced'
            /\ ~ raced' => \A d \in Handlers :
                 Demoting(c) /\ Demoting(d) => hand[d].user = h.user
<1> DEFINE h == hand[c]
           next == h.seen.revision + 1
           new == [admin |-> h.admin, active |-> h.active,
                   pw |-> IF h.op = "update" THEN h.seen.pw ELSE next,
                   revision |-> next]
<1>1. h \in Hand /\ Busy(c) /\ h.at = "write"
  BY IdleIsNoHand DEF TypeOK, WriteUser, Busy, Idle
<1>2. /\ next <= MaxRevision /\ row' = [row EXCEPT ![h.user] = new]
      /\ Goes(c, IF EndsSessions(h) THEN [h EXCEPT !.at = "revoke"] ELSE Idle)
      /\ UNCHANGED <<sessions, owed>>
      /\ raced' = (raced \/ \E d \in Handlers :
                     Demoting(c) /\ Demoting(d) /\ hand[d].user # h.user)
  BY DEF WriteUser, Stores
<1>7. \/ h.op = "update" /\ h.active /\ Leaves(c)
      \/ Goes(c, [h EXCEPT !.at = "revoke"])
  BY <1>2 DEF EndsSessions, Leaves
<1>3. /\ h.user \in Users /\ h.seen.pw \in Revisions
      /\ h.seen.revision \in Revisions
      /\ h.admin \in BOOLEAN /\ h.active \in BOOLEAN
  BY <1>1 DEF Hand, Row
<1>4. next \in Revisions
  BY <1>2, <1>3, AccountsAssumption DEF Revisions
<1>5. /\ new \in Row /\ new.revision = next /\ new.admin = h.admin
      /\ new.active = h.active /\ (h.op = "update" => new.pw = h.seen.pw)
  BY <1>3, <1>4 DEF Row
<1> HIDE DEF new
<1>6. /\ row' \in [Users -> Row] /\ row'[h.user] = new
      /\ \A v \in Users \ {h.user} : row'[v] = row[v]
  BY <1>2, <1>3, <1>5 DEF TypeOK
<1>8. raced' \in BOOLEAN /\ raced \in BOOLEAN
  BY <1>2 DEF TypeOK
<1> QED
  BY <1>1, <1>2, <1>5, <1>6, <1>7, <1>8

LEMMA WriteUserHolds ==
  ASSUME Inductive, NEW c \in Handlers, WriteUser(c)
  PROVE  Inductive'
<1>0. TypeOK /\ hand[c].at = "write" /\ UNCHANGED <<sessions, owed>>
  BY DEF Inductive, WriteUser, Stores, history
<1>1. CASE row[hand[c].user].revision # hand[c].seen.revision
  <2>1. Leaves(c) /\ UNCHANGED <<row, sessions, owed, raced>>
    BY <1>1 DEF WriteUser, history
  <2> QED
    BY <1>0, <2>1, LeaveHolds DEF TypeOK
<1>2. CASE row[hand[c].user].revision = hand[c].seen.revision
  <2> DEFINE h == hand[c]
             u == h.user
  <2>1. /\ h \in Hand /\ Busy(c) /\ h.at = "write"
        /\ row' \in [Users -> Row]
        /\ \A v \in Users \ {u} : row'[v] = row[v]
        /\ row'[u].revision = row[u].revision + 1
        /\ row'[u].admin = h.admin /\ row'[u].active = h.active
        /\ h.op = "update" => row'[u].pw = h.seen.pw
        /\ \/ h.op = "update" /\ h.active /\ Leaves(c)
           \/ Goes(c, [h EXCEPT !.at = "revoke"])
        /\ raced' \in BOOLEAN /\ (raced => raced')
        /\ ~ raced' => \A d \in Handlers :
             Demoting(c) /\ Demoting(d) => hand[d].user = u
    BY <1>0, <1>2, WriteRow
  <2>2. u \in Users /\ h.seen = row[u] /\ Snapshot(c)
    BY <1>2, <2>1 DEF Inductive, Snapshot, Hand
  <2>3. PICK g \in Hand \cup {Idle} :
          /\ Goes(c, g)
          /\ \/ g = Idle /\ h.op = "update" /\ h.active
             \/ /\ g \in Hand /\ g.at = "revoke" /\ g.user = u
                /\ g.seen = h.seen /\ g.op = h.op
                /\ g.admin = h.admin /\ g.active = h.active
    <3>1. CASE Leaves(c) /\ h.op = "update" /\ h.active
      BY <3>1 DEF Leaves
    <3>2. CASE Goes(c, [h EXCEPT !.at = "revoke"])
      <4>1. [h EXCEPT !.at = "revoke"] \in Hand
        BY <2>1 DEF Hand
      <4> QED
        BY <2>1, <3>2, <4>1 DEF Hand
    <3> QED
      BY <2>1, <3>1, <3>2
  <2>4. Moves(c, g)
    BY <1>0, <2>3, OneMoves
  <2>5. /\ hand'[c] = g
        /\ \A d \in Handlers \ {c} : hand'[d] = hand[d]
                                     /\ (Busy(d)' <=> Busy(d))
        /\ Busy(c)' => g \in Hand /\ g.at = "revoke" /\ g.user = u
                       /\ g.seen = h.seen /\ g.op = h.op
                       /\ g.admin = h.admin /\ g.active = h.active
    BY <2>3, <2>4 DEF Moves, Busy
  <2>6. row[u].revision \in Nat
    BY <1>0, <2>2, AccountsAssumption DEF TypeOK, Row, Revisions
  <2>7. TypeOK'
    BY <1>0, <2>1, <2>4 DEF TypeOK, Moves
  <2> HIDE DEF h, u
  <2>8. ASSUME NEW d \in Handlers PROVE Snapshot(d)'
    <3>1. CASE d = c
      BY <2>1, <2>2, <2>5, <2>6, <3>1 DEF Snapshot, h, u
    <3>2. CASE d # c
      <4>1. Snapshot(d) /\ hand'[d] = hand[d] /\ (Busy(d)' <=> Busy(d))
        BY <2>5, <3>2 DEF Inductive
      <4>2. Busy(d) => hand[d].user \in Users
                       /\ hand[d].seen.revision \in Nat
        BY <1>0, AccountsAssumption DEF TypeOK, Busy, Hand, Row, Revisions
      <4>3. CASE Busy(d) /\ hand[d].user = u
        BY <2>1, <2>6, <4>1, <4>2, <4>3 DEF Snapshot
      <4>4. CASE Busy(d) /\ hand[d].user # u
        BY <2>1, <4>1, <4>2, <4>4 DEF Snapshot
      <4>5. CASE ~ Busy(d)
        BY <4>1, <4>5 DEF Snapshot
      <4> QED
        BY <4>3, <4>4, <4>5
    <3> QED
      BY <3>1, <3>2
  <2>9. ActiveAdmin(row[u]) /\ ~ Demotes(h) => ActiveAdmin(row'[u])
    BY <2>1, <2>2 DEF ActiveAdmin, Demotes, Snapshot, h
  <2>10. ASSUME ~ raced', NEW d \in Handlers PROVE Witness(d)'
    <3>1. ~ raced /\ Witness(d)
      BY <2>1, <2>10 DEF Inductive
    <3>2. CASE d = c
      BY <2>5, <3>2 DEF Witness, Demoting
    <3>3. CASE d # c /\ Demoting(d)
      <4>1. hand'[d] = hand[d]
        BY <2>5, <3>3
      <4>2. PICK v \in Users \ {hand[d].user} : ActiveAdmin(row[v])
        BY <3>1, <3>3 DEF Witness
      <4>3. CASE v # u
        BY <2>1, <4>1, <4>2, <4>3 DEF Witness
      <4>4. CASE v = u
        <5>1. ~ Demotes(h)
          BY <2>1, <2>10, <3>3, <4>2, <4>4 DEF Demoting, h
        <5> QED
          BY <2>9, <4>1, <4>2, <4>4, <5>1 DEF Witness
      <4> QED
        BY <4>3, <4>4
    <3>4. CASE d # c /\ ~ Demoting(d)
      BY <2>5, <3>4 DEF Witness, Demoting
    <3> QED
      BY <3>2, <3>3, <3>4
  <2>11. AdminRemains'
    <3> SUFFICES ASSUME ~ raced' PROVE \E v \in Users : ActiveAdmin(row'[v])
      BY DEF AdminRemains
    <3>1. ~ raced /\ Witness(c)
      BY <2>1 DEF Inductive
    <3>2. CASE Demotes(h)
      BY <2>1, <3>1, <3>2 DEF Witness, Demoting, h, u
    <3>3. CASE ~ Demotes(h)
      BY <2>1, <2>2, <2>9, <3>1, <3>3 DEF Inductive, AdminRemains
    <3> QED
      BY <3>2, <3>3
  <2>12. ASSUME NEW s \in sessions PROVE Explained(s)'
    <3>1. Explained(s) /\ s.user \in Users
      BY <1>0, <2>12 DEF Inductive, TypeOK, Session
    <3>2. CASE s.user # u
      BY <1>0, <2>1, <2>5, <3>1, <3>2 DEF Explained, h, u
    <3>3. CASE s.user = u /\ Busy(c)'
      BY <2>5, <3>3 DEF Explained
    <3>4. CASE s.user = u /\ ~ Busy(c)'
      <4>1. h.op = "update" /\ h.active
        BY <2>3, <2>5, <3>4, IdleIsNoHand DEF Busy
      <4>2. row'[u].active /\ row'[u].pw = row[u].pw
        BY <2>1, <2>2, <4>1
      <4>3. \A d \in Handlers :
              Busy(d) /\ hand[d].at = "revoke" => d # c /\ Busy(d)'
                                                 /\ hand'[d] = hand[d]
        BY <2>1, <2>5 DEF h
      <4> QED
        BY <1>0, <3>1, <3>4, <4>2, <4>3 DEF Explained
    <3> QED
      BY <3>2, <3>3, <3>4
  <2>13. ~ raced' => ~ raced
    BY <2>1
  <2> QED
    BY <1>0, <2>7, <2>8, <2>10, <2>11, <2>12, <2>13 DEF Inductive
<1> QED
  BY <1>1, <1>2

---------------------------------------------------------------------------
(* Every step.                                                             *)

LEMMA StartsHolds ==
  ASSUME Inductive, NEW c \in Handlers, NEW u \in Users,
         NEW op \in {"login", "update", "reset", "change"},
         NEW at \in {"verify", "count", "write"},
         NEW admin \in BOOLEAN, NEW active \in BOOLEAN,
         Starts(c, op, u, at, admin, active),
         at = "verify" => row[u].active,
         op # "update" => admin = row[u].admin /\ active = row[u].active,
         op = "update" /\ at = "write" =>
           ~ (ActiveAdmin(row[u]) /\ ~ (admin /\ active)),
         UNCHANGED <<row, sessions, history>>
  PROVE  Inductive'
<1> DEFINE h == [at |-> at, op |-> op, user |-> u, seen |-> row[u],
                 admin |-> admin, active |-> active]
<1>1. /\ h \in Hand /\ h.at = at /\ h.op = op /\ h.user = u /\ h.seen = row[u]
      /\ h.admin = admin /\ h.active = active
  BY DEF Inductive, TypeOK, Hand
<1>2. ~ Busy(c) /\ Goes(c, h)
  BY DEF Starts
<1> HIDE DEF h
<1>3. h.at = "write" => ~ Demotes(h)
  BY <1>1 DEF Demotes
<1> QED
  BY <1>1, <1>2, <1>3, StartHolds

LEMMA StepHolds == Inductive /\ [Next]_vars => Inductive'
<1> SUFFICES ASSUME Inductive, [Next]_vars PROVE Inductive'
  OBVIOUS
<1>0. \A u \in Users : row[u] \in Row /\ row[u].admin \in BOOLEAN
                                    /\ row[u].active \in BOOLEAN
  BY DEF Inductive, TypeOK, Row
<1>1. CASE UNCHANGED vars
  BY <1>1, EndingHolds DEF vars
<1>2. ASSUME NEW c \in Handlers,
             \/ OpenSession(c) \/ CountActiveAdmins(c) \/ WriteUser(c)
             \/ Revoke(c)
      PROVE  Inductive'
  BY <1>2, OpenSessionHolds, CountHolds, WriteUserHolds, RevokeHolds
<1>3. ASSUME NEW c \in Handlers, Die(c) PROVE Inductive'
  BY <1>3, DieHolds
<1>4. ASSUME NEW c \in Handlers, NEW u \in Users, Login(c, u)
      PROVE  Inductive'
  <2>1. /\ Starts(c, "login", u, "verify", row[u].admin, TRUE)
        /\ row[u].active = TRUE /\ UNCHANGED <<row, sessions, history>>
    BY <1>0, <1>4 DEF Login
  <2> QED
    BY <1>0, <2>1, StartsHolds
<1>5. ASSUME NEW c \in Handlers, NEW u \in Users, ResetPassword(c, u)
      PROVE  Inductive'
  BY <1>0, <1>5, StartsHolds DEF ResetPassword
<1>6. ASSUME NEW c \in Handlers, NEW u \in Users,
             NEW admin \in BOOLEAN, NEW active \in BOOLEAN,
             UpdateUser(c, u, admin, active)
      PROVE  Inductive'
  <2>1. PICK at \in {"count", "write"} :
          /\ Starts(c, "update", u, at, admin, active)
          /\ at = "write" => ~ (ActiveAdmin(row[u]) /\ ~ (admin /\ active))
          /\ UNCHANGED <<row, sessions, history>>
    BY <1>6 DEF UpdateUser
  <2> QED
    BY <2>1, StartsHolds
<1>7. ASSUME NEW c \in Handlers, NEW s \in sessions, ChangePassword(c, s)
      PROVE  Inductive'
  <2>1. PICK u \in Users : u = s.user
    BY DEF Inductive, TypeOK, Session
  <2>2. /\ Starts(c, "change", u, "write", row[u].admin, TRUE)
        /\ row[u].active = TRUE /\ UNCHANGED <<row, sessions, history>>
    BY <1>0, <1>7, <2>1 DEF ChangePassword, Authenticated
  <2> QED
    BY <1>0, <2>2, StartsHolds
<1>8. ASSUME NEW u \in Users, RevokeSessions(u) PROVE Inductive'
  <2>1. /\ sessions' \in SUBSET sessions /\ UNCHANGED <<row, hand, raced>>
        /\ owed' = owed \ {u} /\ \A s \in sessions' : s.user # u
    BY <1>8 DEF RevokeSessions, Ended
  <2> QED
    BY <2>1, EndingHolds
<1>9. ASSUME NEW s \in sessions, EndSession(s) PROVE Inductive'
  BY <1>9, EndingHolds DEF EndSession, history
<1> QED
  BY <1>1, <1>2, <1>3, <1>4, <1>5, <1>6, <1>7, <1>8, <1>9 DEF Next

\* The invariant holds in every state that can be reached.
LEMMA InductiveHolds == Spec => []Inductive
BY InitHolds, StepHolds, PTL DEF Spec

---------------------------------------------------------------------------
(* The theorems.                                                           *)

\* The rows, the sessions and the requests only ever hold states of their kind.
THEOREM TypeCorrect == Spec => []TypeOK
<1>1. Inductive => TypeOK
  BY DEF Inductive
<1> QED
  BY <1>1, InductiveHolds, PTL

\* The last active administrator is lost in one way only: two demotions of
\* different users are both past their count when one of them is written.
THEOREM AdministratorRemains == Spec => []AdminRemains
<1>1. Inductive => AdminRemains
  BY DEF Inductive
<1> QED
  BY <1>1, InductiveHolds, PTL

\* A session that is left after its user was disabled or given another password
\* is about to be ended, or the request that was to end it was stopped, or its
\* login inserted it late.
THEOREM NoSessionOutlives == Spec => []SessionsAreCurrent
<1>1. Inductive => SessionsAreCurrent
  BY DEF Inductive, SessionsAreCurrent, Explained
<1> QED
  BY <1>1, InductiveHolds, PTL

\* No request undoes another, in any interleaving.
THEOREM NothingUndone == Spec => WritesOnlyItsOwn
<1> DEFINE Own ==
      \A u \in Users :
         \/ row'[u] = row[u]
         \/ \E c \in Handlers :
              /\ hand[c] # hand'[c] /\ Busy(c) /\ hand[c].user = u
              /\ IF hand[c].op = "update" THEN row'[u].pw = row[u].pw
                 ELSE /\ row'[u].admin = row[u].admin
                      /\ row'[u].active = row[u].active
<1>1. Inductive /\ [Next]_vars => [Own]_vars
  <2> SUFFICES ASSUME Inductive, Next PROVE Own
    OBVIOUS
  <2>1. row' = row \/ \E c \in Handlers : WriteUser(c)
    BY DEF Next, OpenSession, CountActiveAdmins, Revoke, Die, Login,
           ResetPassword, UpdateUser, ChangePassword, RevokeSessions, EndSession
  <2>2. CASE row' = row
    BY <2>2
  <2>3. ASSUME NEW c \in Handlers, WriteUser(c), row' # row PROVE Own
    <3>1. row[hand[c].user].revision = hand[c].seen.revision /\ TypeOK
      BY <2>3 DEF WriteUser, Inductive
    <3> DEFINE h == hand[c]
    <3>2. /\ h \in Hand /\ Busy(c) /\ h.at = "write"
          /\ \A v \in Users \ {h.user} : row'[v] = row[v]
          /\ row'[h.user].admin = h.admin /\ row'[h.user].active = h.active
          /\ h.op = "update" => row'[h.user].pw = h.seen.pw
          /\ Leaves(c) \/ Goes(c, [h EXCEPT !.at = "revoke"])
      BY <2>3, <3>1, WriteRow
    <3>3. h.seen = row[h.user] /\ Snapshot(c)
      BY <3>1, <3>2 DEF Inductive, Snapshot
    <3>4. hand'[c] # h
      <4>1. hand'[c] = Idle \/ hand'[c] = [h EXCEPT !.at = "revoke"]
        BY <3>1, <3>2 DEF Leaves, Goes, TypeOK
      <4>2. [h EXCEPT !.at = "revoke"].at = "revoke"
        BY <3>2 DEF Hand
      <4>3. h # Idle
        BY <3>2, IdleIsNoHand
      <4> QED
        BY <3>2, <4>1, <4>2, <4>3
    <3>5. IF h.op = "update" THEN row'[h.user].pw = row[h.user].pw
          ELSE /\ row'[h.user].admin = row[h.user].admin
               /\ row'[h.user].active = row[h.user].active
      BY <3>2, <3>3 DEF Snapshot
    <3> QED
      BY <3>2, <3>4, <3>5
  <2> QED
    BY <2>1, <2>2, <2>3
<1> QED
  BY <1>1, InductiveHolds, PTL DEF Spec, WritesOnlyItsOwn
===========================================================================
