---------------------------- MODULE UserAccounts ----------------------------
(* The rows of users and sessions under concurrent requests: login,        *)
(* changePassword and logout of apps/api/src/auth/service.ts, updateUser,  *)
(* resetPassword and revokeSessions of admin-service.ts, and the statements *)
(* of repository.ts. Each request reads a row, works on that snapshot (a   *)
(* password check or hash takes long) and writes with a test of the        *)
(* revision; the next statement, which ends the sessions, may come much    *)
(* later or never.                                                         *)
(* A password is named by the revision of the row that set it. Left out:   *)
(* first-time setup, new users, passkeys, the lock after failed logins (a  *)
(* refused login changes nothing here), and the expiry of a session, which *)
(* ends it as logout does.                                                 *)
EXTENDS Naturals

CONSTANTS Users,        \* the users
          Handlers,     \* the requests that may be at work at one time
          MaxRevision   \* bound: no row gets a revision above it

ASSUME AccountsAssumption == MaxRevision \in Nat \ {0}

VARIABLES row,          \* the row of each user
          sessions,     \* the sessions: the user, the password that opened it,
                        \*   and whether the login was late (see OpenSession)
          hand,         \* what each request is at
          owed,         \* history: users whose sessions a request had yet to
                        \*   end when it was stopped
          raced         \* history: a demotion was written while another one
                        \*   stood between its count and its write

vars == <<row, sessions, hand, owed, raced>>
history == <<owed, raced>>

Revisions == 1 .. MaxRevision
Row == [admin : BOOLEAN, active : BOOLEAN, pw : Revisions, revision : Revisions]
Session == [user : Users, pw : Revisions, late : BOOLEAN]
Hand == [at : {"verify", "count", "write", "revoke"},
         op : {"login", "update", "reset", "change"},
         user : Users, seen : Row, admin : BOOLEAN, active : BOOLEAN]
Idle == [at |-> "idle"]

TypeOK ==
    /\ row \in [Users -> Row]
    /\ sessions \subseteq Session
    /\ hand \in [Handlers -> Hand \cup {Idle}]
    /\ owed \subseteq Users
    /\ raced \in BOOLEAN

Init ==
    /\ \E admins \in (SUBSET Users) \ {{}} :
         row = [u \in Users |-> [admin |-> u \in admins, active |-> TRUE,
                                 pw |-> 1, revision |-> 1]]
    /\ sessions = [user : Users, pw : {1}, late : {FALSE}]
    /\ hand = [c \in Handlers |-> Idle]
    /\ owed = {}
    /\ raced = FALSE

(* ------------------------------ parts of steps ------------------------- *)

ActiveAdmin(r) == r.admin /\ r.active
Busy(c) == hand[c] # Idle
Goes(c, h) == hand' = [hand EXCEPT ![c] = h]
Leaves(c) == Goes(c, Idle)
Ended(u) == {s \in sessions : s.user # u}

(* updateUser takes the last active role away from an administrator.       *)
Demotes(h) == h.op = "update" /\ ActiveAdmin(h.seen) /\ ~ (h.admin /\ h.active)

(* The demotion has passed its count and is about to be written.           *)
Demoting(c) == Busy(c) /\ hand[c].at = "write" /\ Demotes(hand[c])

(* authenticate accepts the session of an active user.                     *)
Authenticated(s) == s \in sessions /\ row[s.user].active
ByAdmin == \E s \in sessions : Authenticated(s) /\ row[s.user].admin

Starts(c, op, u, at, admin, active) ==
    LET h == [at |-> at, op |-> op, user |-> u, seen |-> row[u],
              admin |-> admin, active |-> active]
    IN ~ Busy(c) /\ Goes(c, h)

(* -------------------------------- requests ----------------------------- *)

Login(c, u) ==
    /\ row[u].active
    /\ Starts(c, "login", u, "verify", row[u].admin, TRUE)
    /\ UNCHANGED <<row, sessions, history>>

(* The password of the snapshot was right: the session is inserted. It is  *)
(* late if the password has been changed, or the user disabled, since.     *)
OpenSession(c) ==
    LET u == hand[c].user
        pw == hand[c].seen.pw
        late == ~ row[u].active \/ row[u].pw # pw
    IN
    /\ hand[c].at = "verify"
    /\ sessions' = sessions \cup {[user |-> u, pw |-> pw, late |-> late]}
    /\ Leaves(c)
    /\ UNCHANGED <<row, history>>

(* The revision given is the one read, or the request ends in a conflict.  *)
UpdateUser(c, u, admin, active) ==
    LET demotes == ActiveAdmin(row[u]) /\ ~ (admin /\ active) IN
    /\ ByAdmin
    /\ Starts(c, "update", u, IF demotes THEN "count" ELSE "write",
              admin, active)
    /\ UNCHANGED <<row, sessions, history>>

\* Mutant: the user to be demoted is counted as well.
CountAllAdmins(c) ==
    /\ hand[c].at = "count"
    /\ \E v \in Users : ActiveAdmin(row[v])
    /\ Goes(c, [hand[c] EXCEPT !.at = "write"])
    /\ UNCHANGED <<row, sessions, history>>

CountActiveAdmins(c) ==
    LET others == {v \in Users \ {hand[c].user} : ActiveAdmin(row[v])} IN
    /\ hand[c].at = "count"
    /\ \/ others = {} /\ Leaves(c)                \* LAST_ACTIVE_ADMIN
       \/ others # {} /\ Goes(c, [hand[c] EXCEPT !.at = "write"])
    /\ UNCHANGED <<row, sessions, history>>

ResetPassword(c, u) ==
    /\ ByAdmin
    /\ Starts(c, "reset", u, "write", row[u].admin, row[u].active)
    /\ UNCHANGED <<row, sessions, history>>

(* changePassword writes back the user that authenticate has read.         *)
ChangePassword(c, s) ==
    /\ Authenticated(s)
    /\ Starts(c, "change", s.user, "write", row[s.user].admin, TRUE)
    /\ UNCHANGED <<row, sessions, history>>

EndsSessions(h) == h.op # "update" \/ ~ h.active

(* The row is stored; the sessions are still to be ended, or not.          *)
Stores(c, ends) ==
    LET h == hand[c]
        next == h.seen.revision + 1
        new == [admin |-> h.admin, active |-> h.active,
                pw |-> IF h.op = "update" THEN h.seen.pw ELSE next,
                revision |-> next]
    IN
    /\ next <= MaxRevision
    /\ row' = [row EXCEPT ![h.user] = new]
    /\ Goes(c, IF ends THEN [h EXCEPT !.at = "revoke"] ELSE Idle)
    /\ raced' = (raced \/ \E d \in Handlers :
                   Demoting(c) /\ Demoting(d) /\ hand[d].user # h.user)
    /\ UNCHANGED <<sessions, owed>>

\* Mutants: the revision is not tested; only resets end the sessions.
WriteUserBlindly(c) ==
    hand[c].at = "write" /\ Stores(c, EndsSessions(hand[c]))

WriteUserKeepsSessions(c) ==
    /\ hand[c].at = "write"
    /\ row[hand[c].user].revision = hand[c].seen.revision
    /\ Stores(c, hand[c].op = "reset")

(* UPDATE users ... WHERE id = ? AND revision = ?                          *)
WriteUser(c) ==
    LET h == hand[c] IN
    /\ h.at = "write"
    /\ \/ /\ row[h.user].revision # h.seen.revision   \* ..._VERSION_CONFLICT
          /\ Leaves(c)
          /\ UNCHANGED <<row, sessions, history>>
       \/ /\ row[h.user].revision = h.seen.revision
          /\ Stores(c, EndsSessions(h))

(* deleteSessionsForUser, after a reset, a change or a disabling update.   *)
Revoke(c) ==
    /\ hand[c].at = "revoke"
    /\ sessions' = Ended(hand[c].user)
    /\ owed' = owed \ {hand[c].user}
    /\ Leaves(c)
    /\ UNCHANGED <<row, raced>>

RevokeSessions(u) ==
    /\ ByAdmin
    /\ sessions' = Ended(u)
    /\ owed' = owed \ {u}
    /\ UNCHANGED <<row, hand, raced>>

(* logout, and authenticate of a session whose user is disabled.           *)
EndSession(s) ==
    /\ s \in sessions
    /\ sessions' = sessions \ {s}
    /\ UNCHANGED <<row, hand, history>>

(* The process that serves the request is stopped, before any of its steps. *)
Die(c) ==
    /\ Busy(c)
    /\ owed' = IF hand[c].at = "revoke" THEN owed \cup {hand[c].user} ELSE owed
    /\ Leaves(c)
    /\ UNCHANGED <<row, sessions, raced>>

Next ==
    \/ \E c \in Handlers :
         \/ OpenSession(c) \/ CountActiveAdmins(c) \/ WriteUser(c)
         \/ Revoke(c) \/ Die(c)
    \/ \E c \in Handlers, u \in Users :
         \/ Login(c, u) \/ ResetPassword(c, u)
         \/ \E admin, active \in BOOLEAN : UpdateUser(c, u, admin, active)
    \/ \E c \in Handlers, s \in sessions : ChangePassword(c, s)
    \/ \E u \in Users : RevokeSessions(u)
    \/ \E s \in sessions : EndSession(s)

Spec == Init /\ [][Next]_vars

(* ------------------------------ properties ----------------------------- *)

(* An active administrator is left, whatever updates, resets, changes and  *)
(* logins of how many requests run between and wherever they are stopped:  *)
(* the only way to lose the last one is two demotions of different users   *)
(* that are both past their count when one of them is written.             *)
AdminRemains == raced \/ \E u \in Users : ActiveAdmin(row[u])

(* What the administrator is told: "The last active administrator cannot   *)
(* be demoted." Two demotions that count each other break it (see          *)
(* MCUserAccounts_demotions.cfg).                                          *)
LastAdminStays == \E u \in Users : ActiveAdmin(row[u])

(* No request undoes another: a password written from an old snapshot does *)
(* not bring back a role or a status that an update has taken away since,  *)
(* nor does an update bring back an old password, in any interleaving.     *)
WritesOnlyItsOwn ==
    [][\A u \in Users :
         \/ row'[u] = row[u]
         \/ \E c \in Handlers :
              /\ hand[c] # hand'[c] /\ Busy(c) /\ hand[c].user = u
              /\ IF hand[c].op = "update" THEN row'[u].pw = row[u].pw
                 ELSE /\ row'[u].admin = row[u].admin
                      /\ row'[u].active = row[u].active]_vars

(* A session lives on the password it was opened with. One that is left    *)
(* after its user was disabled or given another password has one of three  *)
(* causes: the request that did so has yet to end the sessions, it was     *)
(* stopped before it could and nobody has ended them since, or the login   *)
(* inserted the session late, after the change.                            *)
SessionsAreCurrent ==
    \A s \in sessions :
      \/ row[s.user].active /\ s.pw = row[s.user].pw
      \/ \E c \in Handlers :
           Busy(c) /\ hand[c].at = "revoke" /\ hand[c].user = s.user
      \/ s.user \in owed
      \/ s.late
=============================================================================
