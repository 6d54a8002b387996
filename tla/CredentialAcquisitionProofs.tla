--------------------- MODULE CredentialAcquisitionProofs ---------------------
(* What the acquisition jobs promise for every set of jobs and requests:   *)
(* that one job is active at a time, a completed one has stored its        *)
(* credentials, a second request drives the browser of a job only after a  *)
(* doubled continue, and a signed-in session outlives its job only when it *)
(* escaped its close. The last theorem is about calm behaviours: where     *)
(* requests hold a snapshot of a job one at a time, its end is final.      *)
EXTENDS CredentialAcquisition, TLAPS

---------------------------------------------------------------------------
(* The inductive invariant.                                                *)

Places == {"idle", "insert", "acquire", "attach", "login", "resume",
           "advance", "apply", "import", "close", "write"}

Hand == [at : Places, job : Jobs \cup {None}, seen : Statuses,
         session : BOOLEAN, to : Statuses]

Shape ==
  /\ row \in [Jobs -> [status : Statuses, session : BOOLEAN]]
  /\ open \in SUBSET Jobs /\ late \in SUBSET Jobs /\ imported \in SUBSET Jobs
  /\ calm \in BOOLEAN
  /\ doubled \in SUBSET Jobs /\ loose \in SUBSET Jobs
  /\ hand \in [Handlers -> Hand]
  /\ \A c \in Handlers : hand[c].at # "idle" => hand[c].job \in Jobs

\* What a request has decided by the step it stands at.
Decided(c) ==
  /\ hand[c].at = "import" => hand[c].seen \in Active
  /\ hand[c].at = "apply" => hand[c].to \in Results
  /\ hand[c].at = "close" => hand[c].to \in Over
  /\ hand[c].at = "write" => hand[c].to \in Over \cup {"asking"}
  /\ hand[c].at \in {"close", "write"} /\ hand[c].to = "completed" =>
       hand[c].job \in imported

\* A request about to insert its job is the first to know of it.
Newborn(c) ==
  hand[c].at = "insert" =>
    /\ row[hand[c].job].status = "absent"
    /\ \A d \in Handlers \ {c} : hand[d].job # hand[c].job

\* A request that drives the browser of its job, is about to, or has just done
\* so and will ask the user.
Engaged(c) ==
  \/ hand[c].at \in {"insert", "acquire", "attach", "login", "resume",
                     "advance", "apply", "import"}
  \/ hand[c].at = "write" /\ hand[c].to = "asking"

\* A snapshot that is held is of an active job and nobody else's.
Alone(c) ==
  /\ Holding(c) => row[hand[c].job].status \in Active
  /\ \A d \in Handlers \ {c} :
       hand[d].job = hand[c].job => ~ (Holding(c) /\ Holding(d))

\* Only one request is engaged with a job, and while a user is asked only the
\* one that is about to resume it, unless two have resumed it at one time.
Single(c) ==
  hand[c].job \notin doubled =>
    /\ \A d \in Handlers \ {c} :
         hand[d].job = hand[c].job => ~ (Engaged(c) /\ Engaged(d))
    /\ Engaged(c) /\ row[hand[c].job].status = "asking" =>
         hand[c].at = "resume"

\* Some request is about to attach the session it acquired for j.
Attaching(j) == \E c \in Handlers : hand[c].at = "attach" /\ hand[c].job = j

\* An open session is known to the row of its job, and to whoever will close
\* it, or to a request that has yet to attach it.
Known(j) ==
  /\ j \in open => row[j].session \/ Attaching(j)
  /\ \A c \in Handlers :
       hand[c].at \in {"import", "close"} /\ hand[c].job = j /\ row[j].session
         => hand[c].session
  /\ \A c \in Handlers :
       /\ hand[c].at = "write" /\ hand[c].to \in Over /\ hand[c].job = j
       /\ j \in open
       => Attaching(j)
  /\ row[j].status \in Over /\ j \in open => Attaching(j)

Inductive ==
  /\ Shape
  /\ OneActive
  /\ CompletedIsStored
  /\ \A c \in Handlers : Decided(c) /\ Newborn(c)
  /\ calm => \A c \in Handlers : Alone(c)
  /\ \A c \in Handlers : Single(c)
  /\ \A j \in Jobs \ loose : Known(j)

LEMMA InitHolds == Init => Inductive
<1> SUFFICES ASSUME Init PROVE Inductive
  OBVIOUS
<1>1. /\ \A c \in Handlers : hand[c] = Idle
      /\ \A j \in Jobs : row[j].status = "absent"
      /\ open = {} /\ late = {} /\ imported = {} /\ calm \in BOOLEAN
      /\ doubled = {} /\ loose = {}
  BY DEF Init
<1>2. Shape
  <2>1. Idle \in Hand
    BY DEF Idle, Hand, Places, Statuses
  <2>2. hand \in [Handlers -> Hand] /\ Idle.at = "idle"
    BY <2>1 DEF Init, Idle
  <2>3. row \in [Jobs -> [status : Statuses, session : BOOLEAN]]
    BY DEF Init, Statuses
  <2> QED
    BY <1>1, <2>2, <2>3 DEF Shape
<1>3. OneActive /\ CompletedIsStored
  BY <1>1 DEF OneActive, CompletedIsStored, Active
<1>4. \A c \in Handlers : Decided(c) /\ Newborn(c)
  BY <1>1 DEF Idle, Decided, Newborn
<1>5. \A c \in Handlers : Alone(c) /\ Single(c)
  BY <1>1 DEF Idle, Alone, Single, Holding, Engaged
<1>6. \A j \in Jobs : Known(j)
  <2>1. \A c \in Handlers : hand[c].at = "idle"
    BY <1>1 DEF Idle
  <2>2. \A j \in Jobs : row[j].status \notin Over /\ j \notin open
    BY <1>1 DEF Over
  <2> QED
    BY <2>1, <2>2 DEF Known
<1> QED
  BY <1>2, <1>3, <1>4, <1>5, <1>6 DEF Inductive

\* A request that goes on leaves the others where they are.
LEMMA OneGoes ==
  ASSUME Shape, NEW c \in Handlers, NEW h \in Hand, Goes(c, h),
         h.at # "idle" => h.job \in Jobs
  PROVE  /\ hand' \in [Handlers -> Hand] /\ hand'[c] = h
         /\ \A d \in Handlers \ {c} : hand'[d] = hand[d]
         /\ \A d \in Handlers : hand'[d].at # "idle" => hand'[d].job \in Jobs
<1>1. hand \in [Handlers -> Hand]
  BY DEF Shape
<1>2. /\ hand' \in [Handlers -> Hand] /\ hand'[c] = h
      /\ \A d \in Handlers \ {c} : hand'[d] = hand[d]
  BY <1>1 DEF Goes
<1> QED
  BY <1>2 DEF Shape

---------------------------------------------------------------------------
(* Steps that leave the rows alone.                                        *)

\* Only request c moves.
Frame(c) ==
  /\ hand' \in [Handlers -> Hand]
  /\ \A d \in Handlers \ {c} : hand'[d] = hand[d]
  /\ \A d \in Handlers : hand'[d].at # "idle" => hand'[d].job \in Jobs
  /\ open' \in SUBSET Jobs /\ late' \in SUBSET Jobs /\ imported' \in SUBSET Jobs
  /\ late \subseteq late' /\ imported \subseteq imported'
  /\ doubled' \in SUBSET Jobs /\ loose' \in SUBSET Jobs
  /\ doubled \subseteq doubled' /\ loose \subseteq loose'
  /\ calm' = calm

\* Request c takes no snapshot that is another's.
Modest(c) ==
  Holding(c)' =>
    \/ Holding(c) /\ hand'[c].job = hand[c].job
    \/ /\ row[hand'[c].job].status \in Active
       /\ \A d \in Handlers \ {c} :
            hand[d].job = hand'[c].job => ~ Holding(d)

\* Request c takes no task that is another's.
Fair(c) ==
  Engaged(c)' /\ hand'[c].job \notin doubled' =>
    \/ /\ Engaged(c) /\ hand'[c].job = hand[c].job
       /\ row[hand[c].job].status = "asking" => hand'[c].at = "resume"
    \/ /\ hand'[c].at = "resume"
       /\ \A d \in Handlers \ {c} :
            hand[d].job = hand'[c].job => ~ Engaged(d)

\* Request c loses sight of no session but those that are loose.
Careful(c) ==
  /\ \A j \in open' \ open : hand'[c].at = "attach" /\ hand'[c].job = j
  /\ hand[c].at = "attach" => hand[c].job \notin open' \ loose'
  /\ /\ hand'[c].at \in {"import", "close"} /\ row[hand'[c].job].session
     /\ hand'[c].job \notin loose'
     => hand'[c].session
  /\ /\ hand'[c].at = "write" /\ hand'[c].to \in Over
     /\ row[hand'[c].job].session
     => hand'[c].job \notin open' \ loose'

LEMMA HandStep ==
  ASSUME Inductive, NEW c \in Handlers, Frame(c), row' = row,
         Decided(c)', hand'[c].at # "insert",
         hand'[c].job = hand[c].job \/ hand'[c].at = "idle"
           \/ row[hand'[c].job].status \in Active,
         hand'[c].at = "idle" => hand'[c].job = None,
         calm => Modest(c), Fair(c), Careful(c)
  PROVE  Inductive'
<1>1. Shape'
  BY DEF Frame, Shape, Inductive
<1>2. OneActive' /\ CompletedIsStored'
  BY DEF Inductive, OneActive, CompletedIsStored, Frame
<1>3. ASSUME NEW d \in Handlers
      PROVE  Decided(d)' /\ Newborn(d)'
  <2>1. CASE d = c
    BY <2>1 DEF Newborn
  <2>2. CASE d # c
    <3>1. hand'[d] = hand[d] /\ Decided(d) /\ Newborn(d)
      BY <2>2 DEF Frame, Inductive
    <3>2. Decided(d)'
      BY <3>1 DEF Decided, Frame
    <3>3. hand[d].at = "insert" =>
            hand[d].job \in Jobs /\ row[hand[d].job].status = "absent"
      BY <3>1 DEF Newborn, Inductive, Shape
    <3>4. Newborn(d)'
      BY <2>2, <3>1, <3>3, AcquisitionAssumption DEF Newborn, Frame, Active
    <3> QED
      BY <3>2, <3>4
  <2> QED
    BY <2>1, <2>2
<1>4. ASSUME calm, NEW d \in Handlers PROVE Alone(d)'
  <2>1. /\ Modest(c) /\ \A e \in Handlers : Alone(e)
        /\ \A e \in Handlers \ {c} : hand'[e] = hand[e]
    BY <1>4 DEF Inductive, Frame
  <2>2. \A e \in Handlers \ {c} : Holding(e)' <=> Holding(e)
    BY <2>1 DEF Holding
  <2>3. CASE d = c
    <3>1. Holding(c)' => row[hand'[c].job].status \in Active
      BY <2>1 DEF Modest, Alone
    <3>2. \A e \in Handlers \ {c} :
            hand[e].job = hand'[c].job => ~ (Holding(c)' /\ Holding(e))
      BY <2>1 DEF Modest, Alone
    <3> QED
      BY <2>1, <2>2, <2>3, <3>1, <3>2 DEF Alone
  <2>4. CASE d # c
    <3>1. Alone(d) /\ hand'[d] = hand[d]
      BY <2>1, <2>4
    <3>2. hand'[c].job = hand[d].job => ~ (Holding(d) /\ Holding(c)')
      BY <2>1, <2>4 DEF Modest, Alone
    <3> QED
      BY <2>1, <2>2, <2>4, <3>1, <3>2 DEF Alone
  <2> QED
    BY <2>3, <2>4
<1>5. ASSUME NEW d \in Handlers PROVE Single(d)'
  <2>1. /\ \A e \in Handlers : Single(e)
        /\ \A e \in Handlers \ {c} : hand'[e] = hand[e]
        /\ doubled \subseteq doubled'
    BY DEF Inductive, Frame
  <2>2. \A e \in Handlers \ {c} : Engaged(e)' <=> Engaged(e)
    BY <2>1 DEF Engaged
  <2>3. \A e \in Handlers \ {c} :
          hand[e].job = hand'[c].job /\ hand'[c].job \notin doubled' =>
            ~ (Engaged(c)' /\ Engaged(e))
    BY <2>1 DEF Fair, Single
  <2>4. CASE d = c
    <3>1. /\ Engaged(c)' /\ row[hand'[c].job].status = "asking"
          /\ hand'[c].job \notin doubled'
          => hand'[c].at = "resume"
      BY DEF Fair
    <3> QED
      BY <2>1, <2>2, <2>3, <2>4, <3>1 DEF Single
  <2>5. CASE d # c
    <3>1. Single(d) /\ hand'[d] = hand[d]
      BY <2>1, <2>5
    <3> QED
      BY <2>1, <2>2, <2>3, <2>5, <3>1 DEF Single
  <2> QED
    BY <2>4, <2>5
<1>6. ASSUME NEW j \in Jobs \ loose' PROVE Known(j)'
  <2>1. /\ Known(j) /\ j \notin loose
        /\ \A e \in Handlers \ {c} : hand'[e] = hand[e]
    BY <1>6 DEF Inductive, Frame
  <2>2. j \in open' /\ (j \in open => Attaching(j)) => Attaching(j)'
    BY <1>6, <2>1 DEF Careful, Attaching
  <2>3. j \in open' => row[j].session \/ Attaching(j)'
    BY <2>1, <2>2 DEF Known
  <2>4. \A e \in Handlers :
          hand'[e].at \in {"import", "close"} /\ hand'[e].job = j
          /\ row[j].session => hand'[e].session
    BY <1>6, <2>1 DEF Known, Careful
  <2>5. \A e \in Handlers :
          /\ hand'[e].at = "write" /\ hand'[e].to \in Over
          /\ hand'[e].job = j /\ j \in open'
          => Attaching(j)'
    BY <1>6, <2>1, <2>2, <2>3 DEF Known, Careful
  <2>6. row[j].status \in Over /\ j \in open' => Attaching(j)'
    BY <2>1, <2>2 DEF Known
  <2> QED
    BY <2>3, <2>4, <2>5, <2>6 DEF Known
<1> QED
  BY <1>1, <1>2, <1>3, <1>4, <1>5, <1>6 DEF Inductive, Frame

\* No request moves, and no session is opened.
LEMMA EnvironmentStep ==
  ASSUME Inductive, UNCHANGED <<row, imported, hand, calm, doubled>>,
         open' \in SUBSET open, late' \in SUBSET Jobs, late \subseteq late',
         loose' \in SUBSET Jobs, loose \subseteq loose'
  PROVE  Inductive'
<1>1. Shape'
  BY DEF Shape, Inductive
<1>2. OneActive' /\ CompletedIsStored'
  BY DEF Inductive, OneActive, CompletedIsStored
<1>3. \A c \in Handlers : Decided(c)' /\ Newborn(c)'
  BY DEF Inductive, Decided, Newborn
<1>4. calm' => \A c \in Handlers : Alone(c)'
  BY DEF Inductive, Alone, Holding
<1>5. \A c \in Handlers : Single(c)'
  BY DEF Inductive, Single, Engaged
<1>6. \A j \in Jobs \ loose' : Known(j)'
  BY DEF Inductive, Known, Attaching
<1> QED
  BY <1>1, <1>2, <1>3, <1>4, <1>5, <1>6 DEF Inductive

LEMMA IdleHand ==
  /\ Idle \in Hand /\ Idle.at = "idle" /\ Idle.job = None
  /\ Idle.session = FALSE
BY DEF Idle, Hand, Places, Statuses

\* A request that gives up takes nothing with it but the session it was
\* attaching, which is loose then.
LEMMA LeaveStep ==
  ASSUME Inductive, NEW c \in Handlers, Leaves(c), row' = row,
         open' \in SUBSET open, UNCHANGED <<late, calm, doubled>>,
         imported' \in SUBSET Jobs, imported \subseteq imported',
         loose' \in SUBSET Jobs, loose \subseteq loose',
         hand[c].at = "attach" => hand[c].job \in loose'
  PROVE  Inductive'
<1>0. Shape
  BY DEF Inductive
<1>1. /\ hand' \in [Handlers -> Hand] /\ hand'[c] = Idle
      /\ \A d \in Handlers \ {c} : hand'[d] = hand[d]
      /\ \A d \in Handlers : hand'[d].at # "idle" => hand'[d].job \in Jobs
  BY <1>0, IdleHand, OneGoes DEF Leaves
<1>2. Frame(c)
  BY <1>0, <1>1 DEF Frame, Shape
<1>3. hand'[c].at = "idle" /\ hand'[c].job = None
  BY <1>1, IdleHand
<1>4. Decided(c)'
  BY <1>3 DEF Decided
<1>5. Modest(c) /\ Fair(c) /\ Careful(c)
  BY <1>3 DEF Modest, Fair, Careful, Holding, Engaged
<1> QED
  BY <1>2, <1>3, <1>4, <1>5, HandStep

LEMMA AcquireHolds ==
  ASSUME Inductive, NEW c \in Handlers, Acquire(c)
  PROVE  Inductive'
<1>0. /\ Shape /\ hand[c] \in Hand /\ hand[c].at = "acquire"
      /\ hand[c].job \in Jobs
      /\ UNCHANGED <<row, late, imported, calm, doubled, loose>>
  BY DEF Inductive, Shape, Acquire, At, history
<1>1. PICK h \in Hand :
        /\ Goes(c, h) /\ h.job = hand[c].job
        /\ \/ open' = open \cup {hand[c].job} /\ h.at = "attach"
           \/ open' = open /\ h.at = "apply" /\ h.to = "ended"
  <2>1. CASE /\ open' = open \cup {JobOf(c)} /\ GoesTo(c, "attach")
    <3>1. [hand[c] EXCEPT !.at = "attach"] \in Hand
      BY <1>0 DEF Hand, Places
    <3> QED
      BY <1>0, <2>1, <3>1 DEF GoesTo, JobOf, Hand
  <2>2. CASE /\ Goes(c, [hand[c] EXCEPT !.at = "apply", !.to = "ended"])
             /\ UNCHANGED open
    <3>1. [hand[c] EXCEPT !.at = "apply", !.to = "ended"] \in Hand
      BY <1>0 DEF Hand, Places, Statuses, Over
    <3> QED
      BY <1>0, <2>2, <3>1 DEF Hand
  <2> QED
    BY <2>1, <2>2 DEF Acquire
<1>2. /\ hand' \in [Handlers -> Hand] /\ hand'[c] = h
      /\ \A d \in Handlers \ {c} : hand'[d] = hand[d]
      /\ \A d \in Handlers : hand'[d].at # "idle" => hand'[d].job \in Jobs
  BY <1>0, <1>1, OneGoes
<1>3. Frame(c)
  BY <1>0, <1>1, <1>2 DEF Frame, Shape
<1>4. Decided(c)'
  BY <1>1, <1>2 DEF Decided, Results
<1>5. Modest(c) /\ Fair(c) /\ Careful(c)
  <2>1. /\ Engaged(c)
        /\ hand[c].job \notin doubled => row[hand[c].job].status # "asking"
    BY <1>0 DEF Inductive, Single, Engaged
  <2> QED
    BY <1>0, <1>1, <1>2, <2>1 DEF Modest, Fair, Careful, Holding
<1> QED
  BY <1>0, <1>1, <1>2, <1>3, <1>4, <1>5, HandStep

LEMMA LoginHolds ==
  ASSUME Inductive, NEW c \in Handlers, Login(c) \/ Advance(c)
  PROVE  Inductive'
<1>0. /\ Shape /\ hand[c] \in Hand /\ hand[c].at \in {"login", "advance"}
      /\ hand[c].job \in Jobs /\ open' \in SUBSET open
      /\ UNCHANGED <<row, late, imported, calm, doubled, loose>>
  BY DEF Inductive, Shape, Login, Advance, At, Ends, history
<1>1. PICK h \in Hand :
        Goes(c, h) /\ h.job = hand[c].job /\ h.at = "apply" /\ h.to \in Results
  <2>1. CASE Login(c)
    <3>1. PICK result \in Results :
            Goes(c, [hand[c] EXCEPT !.at = "apply", !.to = result])
      BY <2>1 DEF Login
    <3>2. [hand[c] EXCEPT !.at = "apply", !.to = result] \in Hand
      BY <1>0 DEF Hand, Places, Statuses, Over, Active, Results
    <3> QED
      BY <1>0, <3>1, <3>2 DEF Hand
  <2>2. CASE Advance(c)
    <3>1. PICK result \in Results :
            Goes(c, [hand[c] EXCEPT !.at = "apply", !.to = result,
                                    !.session = FALSE])
      BY <2>2 DEF Advance
    <3>2. [hand[c] EXCEPT !.at = "apply", !.to = result, !.session = FALSE]
            \in Hand
      BY <1>0 DEF Hand, Places, Statuses, Over, Active, Results
    <3> QED
      BY <1>0, <3>1, <3>2 DEF Hand
  <2> QED
    BY <2>1, <2>2
<1>2. /\ hand' \in [Handlers -> Hand] /\ hand'[c] = h
      /\ \A d \in Handlers \ {c} : hand'[d] = hand[d]
      /\ \A d \in Handlers : hand'[d].at # "idle" => hand'[d].job \in Jobs
  BY <1>0, <1>1, OneGoes
<1>3. Frame(c)
  BY <1>0, <1>2 DEF Frame, Shape
<1>4. Decided(c)'
  BY <1>1, <1>2 DEF Decided
<1>5. Modest(c) /\ Fair(c) /\ Careful(c)
  <2>1. /\ Engaged(c)
        /\ hand[c].job \notin doubled => row[hand[c].job].status # "asking"
    BY <1>0 DEF Inductive, Single, Engaged
  <2> QED
    BY <1>0, <1>1, <1>2, <2>1 DEF Modest, Fair, Careful, Holding
<1> QED
  BY <1>0, <1>1, <1>2, <1>3, <1>4, <1>5, HandStep

\* A close closes the session it knows of, or leaves it loose.
LEMMA ClosesSession ==
  ASSUME Shape, NEW j \in Jobs, NEW known \in BOOLEAN, Closes(j, known)
  PROVE  /\ open' \in SUBSET open /\ loose' \in SUBSET Jobs
         /\ loose \subseteq loose'
         /\ known => j \notin open' \ loose'
BY DEF Shape, Closes

LEMMA ApplyHolds ==
  ASSUME Inductive, NEW c \in Handlers, Apply(c)
  PROVE  Inductive'
<1>0. /\ Shape /\ hand[c] \in Hand /\ hand[c].at = "apply"
      /\ hand[c].job \in Jobs
      /\ UNCHANGED <<row, late, imported, calm, doubled>>
      /\ Quiet(hand[c].job)
      /\ row[hand[c].job].session \in BOOLEAN
      /\ row[hand[c].job].status \in Statuses
  BY DEF Inductive, Shape, Apply, At, JobOf
<1>1. CASE Leaves(c)
  <2>1. /\ open' \in SUBSET open /\ loose' \in SUBSET Jobs
        /\ loose \subseteq loose'
    <3>1. CASE UNCHANGED <<open, loose>>
      BY <1>0, <3>1 DEF Shape
    <3>2. CASE Closes(hand[c].job, row[hand[c].job].session)
      BY <1>0, <3>2, ClosesSession
    <3> QED
      BY <3>1, <3>2 DEF Apply, JobOf
  <2> QED
    BY <1>0, <1>1, <2>1, LeaveStep DEF Shape
<1>2. CASE ~ Leaves(c)
  <2> DEFINE j == hand[c].job
             s == row[j].session
             import == [[hand[c] EXCEPT !.session = s] EXCEPT
                          !.at = "import", !.seen = row[j].status]
             write == [hand[c] EXCEPT !.at = "write"]
             close == [[hand[c] EXCEPT !.session = s] EXCEPT !.at = "close"]
  <2>1. /\ row[j].status \in Active /\ UNCHANGED <<open, loose>>
        /\ \/ hand[c].to = "completed" /\ Goes(c, import)
           \/ /\ hand[c].to = "asking" /\ row[j].status = "running"
              /\ Goes(c, write)
           \/ hand[c].to = "ended" /\ Goes(c, close)
    BY <1>2 DEF Apply, JobOf, GoesTo
  <2>2. import \in Hand /\ write \in Hand /\ close \in Hand
    BY <1>0 DEF Hand, Places
  <2>3. /\ import.job = j /\ write.job = j /\ close.job = j
        /\ import.at = "import" /\ write.at = "write" /\ close.at = "close"
        /\ import.to = hand[c].to /\ write.to = hand[c].to
        /\ close.to = hand[c].to
        /\ import.seen = row[j].status
        /\ import.session = s /\ close.session = s
    BY <1>0 DEF Hand
  <2> HIDE DEF import, write, close
  <2>4. PICK h \in Hand :
          /\ Goes(c, h) /\ h.job = j /\ h.to = hand[c].to
          /\ \/ h.at = "import" /\ h.seen = row[j].status /\ h.session = s
                /\ h.to = "completed"
             \/ h.at = "write" /\ h.to = "asking" /\ row[j].status = "running"
             \/ h.at = "close" /\ h.to = "ended" /\ h.session = s
    BY <2>1, <2>2, <2>3
  <2>5. /\ hand' \in [Handlers -> Hand] /\ hand'[c] = h
        /\ \A d \in Handlers \ {c} : hand'[d] = hand[d]
        /\ \A d \in Handlers : hand'[d].at # "idle" => hand'[d].job \in Jobs
    BY <1>0, <2>4, OneGoes
  <2>6. Frame(c)
    BY <1>0, <2>1, <2>5 DEF Frame, Shape
  <2>7. Decided(c)'
    BY <2>1, <2>4, <2>5 DEF Decided, Over
  <2>8. (calm => Modest(c)) /\ Fair(c) /\ Careful(c)
    <3>1. Engaged(c) /\ (j \notin doubled => row[j].status # "asking")
      BY <1>0 DEF Inductive, Single, Engaged
    <3>2. calm => \A d \in Handlers \ {c} : hand[d].job = j => ~ Holding(d)
      BY <1>0 DEF Quiet, JobOf
    <3>3. calm => Modest(c)
      BY <2>1, <2>4, <2>5, <3>2 DEF Modest
    <3>4. Fair(c)
      BY <1>0, <2>4, <2>5, <3>1 DEF Fair
    <3>5. Careful(c)
      BY <1>0, <2>1, <2>4, <2>5 DEF Careful, Over
    <3> QED
      BY <3>3, <3>4, <3>5
  <2> QED
    BY <1>0, <2>1, <2>4, <2>5, <2>6, <2>7, <2>8, HandStep
<1> QED
  BY <1>1, <1>2

LEMMA ImportHolds ==
  ASSUME Inductive, NEW c \in Handlers, Import(c)
  PROVE  Inductive'
<1>0. /\ Shape /\ hand[c] \in Hand /\ hand[c].at = "import"
      /\ hand[c].job \in Jobs
      /\ UNCHANGED <<row, open, late, calm, doubled, loose>>
      /\ imported' \in SUBSET Jobs /\ imported \subseteq imported'
  BY DEF Inductive, Shape, Import, At, JobOf, history
<1>1. CASE Leaves(c)
  BY <1>0, <1>1, LeaveStep DEF Shape
<1>2. CASE ~ Leaves(c)
  <2> DEFINE next(s) == [hand[c] EXCEPT !.at = "close", !.to = s,
                                        !.seen = "absent"]
  <2>1. PICK s \in Over :
          Goes(c, next(s)) /\ (s = "completed" => hand[c].job \in imported')
    BY <1>2 DEF Import, JobOf, Over
  <2>2. next(s) \in Hand
    BY <1>0 DEF Hand, Places, Statuses, Over
  <2>3. /\ next(s).job = hand[c].job /\ next(s).at = "close"
        /\ next(s).to = s /\ next(s).session = hand[c].session
    BY <1>0 DEF Hand
  <2> HIDE DEF next
  <2>4. /\ hand' \in [Handlers -> Hand] /\ hand'[c] = next(s)
        /\ \A d \in Handlers \ {c} : hand'[d] = hand[d]
        /\ \A d \in Handlers : hand'[d].at # "idle" => hand'[d].job \in Jobs
    BY <1>0, <2>1, <2>2, <2>3, OneGoes
  <2>5. Frame(c)
    BY <1>0, <2>4 DEF Frame, Shape
  <2>6. Decided(c)'
    BY <2>1, <2>3, <2>4 DEF Decided
  <2>7. Modest(c) /\ Fair(c) /\ Careful(c)
    <3>1. hand[c].job \notin loose => Known(hand[c].job)
      BY <1>0 DEF Inductive
    <3>2. Modest(c) /\ Fair(c)
      BY <1>0, <2>1, <2>3, <2>4 DEF Modest, Fair, Holding, Engaged, Over
    <3>3. Careful(c)
      BY <1>0, <2>3, <2>4, <3>1 DEF Careful, Known
    <3> QED
      BY <3>2, <3>3
  <2> QED
    BY <1>0, <2>3, <2>4, <2>5, <2>6, <2>7, HandStep
<1> QED
  BY <1>1, <1>2

LEMMA CloseHolds ==
  ASSUME Inductive, NEW c \in Handlers, Close(c)
  PROVE  Inductive'
<1> DEFINE h == [hand[c] EXCEPT !.at = "write", !.session = FALSE]
<1>0. /\ Shape /\ hand[c] \in Hand /\ hand[c].at = "close"
      /\ hand[c].job \in Jobs
      /\ UNCHANGED <<row, late, imported, calm, doubled>>
      /\ Closes(hand[c].job, hand[c].session) /\ Goes(c, h)
      /\ hand[c].session \in BOOLEAN
  BY DEF Inductive, Shape, Close, At, JobOf, Hand
<1>a. /\ open' \in SUBSET open /\ loose' \in SUBSET Jobs
      /\ loose \subseteq loose'
      /\ hand[c].session => hand[c].job \notin open' \ loose'
  BY <1>0, ClosesSession
<1>1. /\ h \in Hand /\ h.job = hand[c].job /\ h.at = "write"
      /\ h.to = hand[c].to
  BY <1>0 DEF Hand, Places
<1> HIDE DEF h
<1>2. /\ hand' \in [Handlers -> Hand] /\ hand'[c] = h
      /\ \A d \in Handlers \ {c} : hand'[d] = hand[d]
      /\ \A d \in Handlers : hand'[d].at # "idle" => hand'[d].job \in Jobs
  BY <1>0, <1>1, OneGoes
<1>3. Frame(c)
  BY <1>0, <1>a, <1>2 DEF Frame, Shape
<1>4. Decided(c) /\ hand[c].to \in Over
  BY <1>0 DEF Inductive, Decided
<1>5. Decided(c)'
  BY <1>0, <1>1, <1>2, <1>4 DEF Decided
<1>6. Modest(c) /\ Fair(c) /\ Careful(c)
  <2>1. hand[c].job \notin loose => Known(hand[c].job)
    BY <1>0 DEF Inductive
  <2>2. Modest(c) /\ Fair(c)
    BY <1>0, <1>1, <1>2, <1>4 DEF Modest, Fair, Holding, Engaged, Over
  <2>3. Careful(c)
    BY <1>0, <1>a, <1>1, <1>2, <2>1 DEF Careful, Known
  <2> QED
    BY <2>2, <2>3
<1> QED
  BY <1>0, <1>1, <1>2, <1>3, <1>5, <1>6, HandStep

\* A request that has read an active job takes it on.
LEMMA TakesJob ==
  ASSUME Inductive, NEW c \in Handlers, NEW j \in Jobs,
         row[j].status \in Active, Quiet(j), hand[c].at = "idle",
         NEW h \in Hand, Goes(c, h), h.job = j,
         \/ /\ h.at = "resume" /\ row[j].status = "asking"
            /\ \A d \in Handlers \ {c} :
                 hand[d].at = "resume" /\ hand[d].job = j => j \in doubled'
         \/ h.at = "close" /\ h.to = "ended" /\ h.session = row[j].session,
         doubled' \in SUBSET Jobs, doubled \subseteq doubled',
         UNCHANGED <<row, open, late, imported, calm, loose>>
  PROVE  Inductive'
<1>0. Shape
  BY DEF Inductive
<1>1. /\ hand' \in [Handlers -> Hand] /\ hand'[c] = h
      /\ \A d \in Handlers \ {c} : hand'[d] = hand[d]
      /\ \A d \in Handlers : hand'[d].at # "idle" => hand'[d].job \in Jobs
  BY <1>0, OneGoes
<1>2. Frame(c)
  BY <1>0, <1>1 DEF Frame, Shape
<1>3. Decided(c)'
  BY <1>1 DEF Decided, Over
<1>4. calm => Modest(c)
  BY <1>1 DEF Modest, Quiet, JobOf
<1>5. Fair(c)
  <2>1. ASSUME h.at = "resume", j \notin doubled', NEW d \in Handlers \ {c},
               hand[d].job = j
        PROVE  ~ Engaged(d)
    <3>1. Single(d) /\ j \notin doubled
      BY <2>1 DEF Inductive
    <3> QED
      BY <2>1, <3>1 DEF Single
  <2> QED
    BY <1>1, <2>1 DEF Fair, Engaged
<1>6. Careful(c)
  BY <1>1 DEF Careful
<1> QED
  BY <1>1, <1>2, <1>3, <1>4, <1>5, <1>6, HandStep

LEMMA ContinueHolds ==
  ASSUME Inductive, NEW c \in Handlers, NEW j \in Jobs, Continue(c, j)
  PROVE  Inductive'
<1>0. Shape /\ UNCHANGED <<row, late, imported, calm>>
  BY DEF Inductive, Continue
<1>1. CASE Closes(j, row[j].session) /\ UNCHANGED <<hand, doubled>>
  <2>1. late' \in SUBSET Jobs /\ row[j].session \in BOOLEAN
    BY <1>0 DEF Shape
  <2>2. /\ open' \in SUBSET open /\ loose' \in SUBSET Jobs
        /\ loose \subseteq loose'
    BY <1>0, <1>1, <2>1, ClosesSession
  <2> QED
    BY <1>0, <1>1, <2>1, <2>2, EnvironmentStep
<1>2. CASE row[j].status = "asking" /\ Resumes(c, j)
  <2> DEFINE h == [Idle EXCEPT !.at = "resume", !.job = j]
  <2>1. h \in Hand /\ h.at = "resume" /\ h.job = j
    BY DEF Idle, Hand, Places, Statuses
  <2>2. Goes(c, h) /\ UNCHANGED <<open, loose>>
    BY <1>2 DEF Resumes
  <2> HIDE DEF h
  <2>3. hand[c].at = "idle" /\ row[j].status \in Active /\ Quiet(j)
    BY DEF Continue, At
  <2>4. /\ doubled' \in SUBSET Jobs /\ doubled \subseteq doubled'
        /\ \A d \in Handlers \ {c} :
             hand[d].at = "resume" /\ hand[d].job = j => j \in doubled'
    BY <1>0, <1>2 DEF Resumes, At, JobOf, Shape
  <2> QED
    BY <1>0, <1>2, <2>1, <2>2, <2>3, <2>4, TakesJob
<1> QED
  BY <1>1, <1>2 DEF Continue

LEMMA EndJobHolds ==
  ASSUME Inductive, NEW c \in Handlers, NEW j \in Jobs, EndJob(c, j)
  PROVE  Inductive'
<1> DEFINE h == [at |-> "close", job |-> j, seen |-> "absent",
                 session |-> row[j].session, to |-> "ended"]
<1>1. /\ h \in Hand /\ h.at = "close" /\ h.job = j /\ h.to = "ended"
      /\ h.session = row[j].session
  BY DEF Inductive, Shape, Hand, Places, Statuses, Over
<1>2. Goes(c, h) /\ hand[c].at = "idle" /\ row[j].status \in Active
      /\ Quiet(j)
      /\ UNCHANGED <<row, open, late, imported, calm, doubled, loose>>
  BY DEF EndJob, At, history
<1>3. doubled' \in SUBSET Jobs
  BY <1>2 DEF Inductive, Shape
<1> HIDE DEF h
<1> QED
  BY <1>1, <1>2, <1>3, TakesJob

---------------------------------------------------------------------------
(* Steps that change a row.                                                *)

LEMMA SetsStatus ==
  ASSUME Shape, NEW j \in Jobs, NEW s \in Statuses, SetStatus(j, s)
  PROVE  /\ row' \in [Jobs -> [status : Statuses, session : BOOLEAN]]
         /\ row'[j].status = s /\ row'[j].session = row[j].session
         /\ \A k \in Jobs \ {j} : row'[k] = row[k]
BY DEF Shape, SetStatus

\* Request c gives the job it is about a status.
LEMMA StatusStep ==
  ASSUME Inductive, NEW c \in Handlers, NEW j \in Jobs, NEW s \in Statuses,
         hand[c].job = j, hand[c].at \in {"insert", "resume", "write"},
         SetStatus(j, s), s # "absent",
         UNCHANGED <<open, late, imported, calm, doubled, loose>>,
         s \in Active => ~ Occupied(j),
         s = "completed" => j \in imported,
         NEW h \in Hand, Goes(c, h),
         \/ h = Idle
         \/ /\ h.job = j /\ h.at \in {"acquire", "advance"}
            /\ Engaged(c) /\ s = "running",
         s \in Over => hand[c].at = "write" /\ hand[c].to = s,
         s = "asking" => Engaged(c)
  PROVE  Inductive'
<1>0. /\ Shape /\ row' \in [Jobs -> [status : Statuses, session : BOOLEAN]]
      /\ row'[j].status = s /\ row'[j].session = row[j].session
      /\ \A k \in Jobs \ {j} : row'[k] = row[k]
  BY SetsStatus DEF Inductive
<1>1. /\ hand' \in [Handlers -> Hand] /\ hand'[c] = h
      /\ \A d \in Handlers \ {c} : hand'[d] = hand[d]
      /\ \A d \in Handlers : hand'[d].at # "idle" => hand'[d].job \in Jobs
  BY <1>0, IdleHand, OneGoes
<1>2. \/ h.at = "idle" /\ h.job = None
      \/ h.job = j /\ h.at \in {"acquire", "advance"}
  BY IdleHand
<1>3. Shape'
  BY <1>0, <1>1 DEF Shape
<1>4. OneActive' /\ CompletedIsStored'
  BY <1>0 DEF Inductive, OneActive, CompletedIsStored, Occupied, Active
<1>5. ASSUME NEW d \in Handlers PROVE Decided(d)' /\ Newborn(d)'
  <2>1. CASE d = c
    BY <1>1, <1>2, <2>1 DEF Decided, Newborn
  <2>2. CASE d # c
    <3>1. hand'[d] = hand[d] /\ Decided(d) /\ Newborn(d)
      BY <1>1, <2>2 DEF Inductive
    <3>2. hand[d].at = "insert" => hand[d].job \in Jobs \ {j}
      BY <1>0, <2>2, <3>1 DEF Newborn, Shape
    <3>3. Decided(d)'
      BY <3>1 DEF Decided
    <3>4. Newborn(d)'
      BY <1>0, <1>1, <1>2, <2>2, <3>1, <3>2, AcquisitionAssumption DEF Newborn
    <3> QED
      BY <3>3, <3>4
  <2> QED
    BY <2>1, <2>2
<1>6. ASSUME calm, NEW d \in Handlers PROVE Alone(d)'
  <2>1. \A e \in Handlers : Alone(e)
    BY <1>6 DEF Inductive
  <2>2. \A e \in Handlers \ {c} :
          hand'[e] = hand[e] /\ (Holding(e)' <=> Holding(e))
    BY <1>1 DEF Holding
  <2>3. \A e \in Handlers \ {c} : hand[e].job = j => ~ Holding(e)
    <3>1. CASE hand[c].at = "insert"
      BY <3>1 DEF Inductive, Newborn
    <3>2. CASE hand[c].at \in {"resume", "write"}
      BY <2>1, <3>2 DEF Alone, Holding
    <3> QED
      BY <3>1, <3>2
  <2>4. ~ Holding(c)'
    BY <1>1, <1>2 DEF Holding
  <2>5. CASE d = c
    BY <2>2, <2>4, <2>5 DEF Alone
  <2>6. CASE d # c
    <3>1. Alone(d) /\ (hand[d].job = j => ~ Holding(d))
      BY <2>1, <2>3, <2>6
    <3>2. Holding(d) => hand[d].job \in Jobs
      BY <1>0 DEF Shape, Holding
    <3>3. Holding(d) => row'[hand[d].job].status \in Active
      BY <1>0, <3>1, <3>2 DEF Alone
    <3> QED
      BY <2>2, <2>4, <2>6, <3>1, <3>3 DEF Alone
  <2> QED
    BY <2>5, <2>6
<1>7. ASSUME NEW d \in Handlers PROVE Single(d)'
  <2>1. \A e \in Handlers : Single(e)
    BY DEF Inductive
  <2>2. \A e \in Handlers \ {c} :
          hand'[e] = hand[e] /\ (Engaged(e)' <=> Engaged(e))
    BY <1>1 DEF Engaged
  <2>3. Engaged(c)' => Engaged(c) /\ s = "running" /\ hand'[c].job = j
    BY <1>1, <1>2, IdleHand DEF Engaged
  <2>4. \A e \in Handlers \ {c} :
          hand[e].job = j /\ j \notin doubled => ~ (Engaged(c) /\ Engaged(e))
    BY <2>1 DEF Single
  <2>5. CASE d = c
    <3>1. Engaged(c)' => row'[hand'[c].job].status # "asking"
      BY <1>0, <2>3
    <3> QED
      BY <2>2, <2>3, <2>4, <2>5, <3>1 DEF Single
  <2>6. CASE d # c
    <3>1. Single(d) /\ hand'[d] = hand[d]
      BY <2>1, <2>2, <2>6
    <3>2. Engaged(d) => hand[d].job \in Jobs
      BY <1>0 DEF Shape, Engaged
    <3>3. Engaged(c)' /\ hand'[c].job = hand[d].job
          /\ hand[d].job \notin doubled => ~ Engaged(d)
      BY <2>3, <2>4, <2>6
    <3>4. /\ Engaged(d) /\ row'[hand[d].job].status = "asking"
          /\ hand[d].job \notin doubled
          => hand[d].at = "resume"
      BY <1>0, <2>4, <2>6, <3>1, <3>2 DEF Single
    <3> QED
      BY <2>2, <2>6, <3>1, <3>3, <3>4 DEF Single
  <2> QED
    BY <2>5, <2>6
<1>8. ASSUME NEW k \in Jobs \ loose PROVE Known(k)'
  <2>1. Known(k) /\ (Attaching(k)' <=> Attaching(k))
    <3>1. Known(k)
      BY <1>8 DEF Inductive
    <3>2. Attaching(k)' <=> Attaching(k)
      BY <1>1, <1>2 DEF Attaching
    <3> QED
      BY <3>1, <3>2
  <2>2. row'[k].session = row[k].session
    BY <1>0
  <2>3. \A e \in Handlers :
          /\ hand'[e].at \in {"import", "close"} =>
               hand'[e] = hand[e]
          /\ hand'[e].at = "write" => hand'[e] = hand[e]
    BY <1>1, <1>2
  <2>4. row'[k].status \in Over /\ k \in open => Attaching(k)
    <3>1. CASE k = j
      BY <1>0, <2>1, <3>1 DEF Known
    <3>2. CASE k # j
      BY <1>0, <2>1, <3>2 DEF Known
    <3> QED
      BY <3>1, <3>2
  <2> QED
    BY <2>1, <2>2, <2>3, <2>4 DEF Known
<1> QED
  BY <1>3, <1>4, <1>5, <1>6, <1>7, <1>8 DEF Inductive

LEMMA InsertHolds ==
  ASSUME Inductive, NEW c \in Handlers, Insert(c)
  PROVE  Inductive'
<1>0. /\ Shape /\ hand[c] \in Hand /\ hand[c].at = "insert"
      /\ hand[c].job \in Jobs
      /\ UNCHANGED <<open, late, imported, calm, doubled, loose>>
  BY DEF Inductive, Shape, Insert, At, history
<1>1. CASE Leaves(c) /\ UNCHANGED row
  BY <1>0, <1>1, LeaveStep DEF Shape
<1>2. CASE /\ ~ Occupied(JobOf(c)) /\ SetStatus(JobOf(c), "running")
           /\ GoesTo(c, "acquire")
  <2> DEFINE h == [hand[c] EXCEPT !.at = "acquire"]
  <2>1. /\ h \in Hand /\ h.job = hand[c].job /\ h.at = "acquire"
        /\ Goes(c, h)
    BY <1>0, <1>2 DEF Hand, Places, GoesTo
  <2> HIDE DEF h
  <2>2. Engaged(c)
    BY <1>0 DEF Engaged
  <2> QED
    BY <1>0, <1>2, <2>1, <2>2, StatusStep DEF JobOf, Statuses, Active, Over
<1> QED
  BY <1>1, <1>2 DEF Insert

LEMMA ResumeHolds ==
  ASSUME Inductive, NEW c \in Handlers, Resume(c)
  PROVE  Inductive'
<1>0. /\ Shape /\ hand[c] \in Hand /\ hand[c].at = "resume"
      /\ hand[c].job \in Jobs
      /\ UNCHANGED <<open, late, imported, calm, doubled, loose>>
  BY DEF Inductive, Shape, Resume, At, history
<1>1. CASE Leaves(c) /\ UNCHANGED row
  BY <1>0, <1>1, LeaveStep DEF Shape
<1>2. CASE ~ (Leaves(c) /\ UNCHANGED row)
  <2> DEFINE h == [hand[c] EXCEPT !.at = "advance",
                                  !.session = row[hand[c].job].session]
  <2>1. /\ ~ Occupied(hand[c].job) /\ SetStatus(hand[c].job, "running")
        /\ Goes(c, h)
    BY <1>2 DEF Resume, JobOf
  <2>2. row[hand[c].job].session \in BOOLEAN
    BY <1>0 DEF Shape
  <2>3. h \in Hand /\ h.job = hand[c].job /\ h.at = "advance"
    BY <1>0, <2>2 DEF Hand, Places
  <2> HIDE DEF h
  <2>4. Engaged(c)
    BY <1>0 DEF Engaged
  <2> QED
    BY <1>0, <2>1, <2>3, <2>4, StatusStep DEF Statuses, Active, Over
<1> QED
  BY <1>1, <1>2

LEMMA WriteHolds ==
  ASSUME Inductive, NEW c \in Handlers, Write(c)
  PROVE  Inductive'
<1>0. /\ Shape /\ hand[c] \in Hand /\ hand[c].at = "write"
      /\ hand[c].job \in Jobs /\ Leaves(c) /\ Decided(c)
      /\ UNCHANGED <<open, late, imported, calm, doubled, loose>>
  BY DEF Inductive, Shape, Write, At, history
<1>1. CASE UNCHANGED row
  BY <1>0, <1>1, LeaveStep DEF Shape
<1>2. CASE ~ UNCHANGED row
  <2>1. /\ SetStatus(hand[c].job, hand[c].to)
        /\ hand[c].to \in Active => ~ Occupied(hand[c].job)
    BY <1>2 DEF Write, JobOf
  <2>2. /\ hand[c].to \in Over \cup {"asking"}
        /\ hand[c].to = "completed" => hand[c].job \in imported
    BY <1>0 DEF Decided
  <2>3. PICK j \in Jobs, s \in Statuses, h \in Hand :
          /\ hand[c].job = j /\ hand[c].to = s /\ h = Idle /\ Goes(c, h)
    BY <1>0, IdleHand DEF Hand, Leaves
  <2>4. /\ SetStatus(j, s) /\ (s \in Active => ~ Occupied(j))
        /\ (s = "completed" => j \in imported)
        /\ s # "absent" /\ (s = "asking" => Engaged(c))
    BY <1>0, <2>1, <2>2, <2>3 DEF Over, Engaged
  <2>5. /\ hand[c].at \in {"insert", "resume", "write"}
        /\ s \in Over => hand[c].at = "write" /\ hand[c].to = s
        /\ UNCHANGED <<open, late, imported, calm, doubled, loose>>
    BY <1>0, <2>3
  <2> QED
    BY <2>3, <2>4, <2>5, StatusStep
<1> QED
  BY <1>1, <1>2

LEMMA AttachHolds ==
  ASSUME Inductive, NEW c \in Handlers, Attach(c)
  PROVE  Inductive'
<1> DEFINE j == hand[c].job
<1>0. /\ Shape /\ hand[c] \in Hand /\ hand[c].at = "attach" /\ j \in Jobs
      /\ UNCHANGED <<late, imported, calm, doubled>>
  BY DEF Inductive, Shape, Attach, At, JobOf
<1>1. CASE /\ row[j].status \in Active
           /\ row' = [row EXCEPT ![j].session = TRUE]
           /\ loose' = IF Overtaken(j) THEN loose \cup {j} ELSE loose
           /\ GoesTo(c, "login") /\ UNCHANGED open
  <2> DEFINE h == [hand[c] EXCEPT !.at = "login"]
  <2>1. h \in Hand /\ h.job = j /\ h.at = "login" /\ Goes(c, h)
    BY <1>0, <1>1 DEF Hand, Places, GoesTo
  <2> HIDE DEF h
  <2>2. /\ hand' \in [Handlers -> Hand] /\ hand'[c] = h
        /\ \A d \in Handlers \ {c} : hand'[d] = hand[d]
        /\ \A d \in Handlers : hand'[d].at # "idle" => hand'[d].job \in Jobs
    BY <1>0, <2>1, OneGoes
  <2>3. /\ row' \in [Jobs -> [status : Statuses, session : BOOLEAN]]
        /\ row'[j].session /\ \A k \in Jobs \ {j} : row'[k] = row[k]
        /\ \A k \in Jobs : row'[k].status = row[k].status
    BY <1>0, <1>1 DEF Shape
  <2> HIDE DEF j
  <2>4. Shape'
    BY <1>0, <1>1, <2>2, <2>3 DEF Shape
  <2>5. OneActive' /\ CompletedIsStored'
    BY <1>0, <2>3 DEF Inductive, OneActive, CompletedIsStored
  <2>6. ASSUME NEW d \in Handlers PROVE Decided(d)' /\ Newborn(d)'
    <3>1. CASE d = c
      BY <2>1, <2>2, <3>1 DEF Decided, Newborn
    <3>2. CASE d # c
      <4>1. hand'[d] = hand[d] /\ Decided(d) /\ Newborn(d)
        BY <2>2, <3>2 DEF Inductive
      <4>2. hand'[c].job = hand[c].job
        BY <1>0, <2>1, <2>2 DEF j
      <4>3. hand[d].at = "insert" => hand[d].job \in Jobs
        BY <1>0 DEF Shape
      <4>4. Decided(d)'
        BY <1>0, <4>1 DEF Decided
      <4>5. Newborn(d)'
        BY <2>2, <2>3, <4>1, <4>2, <4>3 DEF Newborn
      <4> QED
        BY <4>4, <4>5
    <3> QED
      BY <3>1, <3>2
  <2>7. ASSUME NEW d \in Handlers PROVE (calm => Alone(d)') /\ Single(d)'
    <3>1. \A e \in Handlers : (calm => Alone(e)) /\ Single(e)
      BY DEF Inductive
    <3>2. \A e \in Handlers :
            /\ hand'[e].job = hand[e].job
            /\ hand'[e].at = "resume" <=> hand[e].at = "resume"
            /\ Holding(e)' <=> Holding(e)
            /\ Engaged(e)' <=> Engaged(e)
      BY <1>0, <2>1, <2>2 DEF Holding, Engaged, j
    <3>3. Holding(d) \/ Engaged(d) => hand[d].job \in Jobs
      BY <1>0 DEF Shape, Holding, Engaged
    <3>4. calm => Alone(d)'
      BY <2>3, <3>1, <3>2, <3>3 DEF Alone
    <3>5. Single(d)'
      BY <1>0, <2>3, <3>1, <3>2, <3>3 DEF Single
    <3> QED
      BY <3>4, <3>5
  <2>8. ASSUME NEW k \in Jobs \ loose' PROVE Known(k)'
    <3>1. Known(k)
      BY <1>1, <2>8 DEF Inductive
    <3>2. k = j => \A d \in Handlers : hand[d].job = j => ~ Holding(d)
      BY <1>1, <2>8 DEF Overtaken, JobOf
    <3>3. CASE k = j
      <4>1. \A d \in Handlers : hand'[d].job = j =>
              hand'[d].at \notin {"import", "close", "write"}
        BY <2>1, <2>2, <3>2, <3>3 DEF Holding
      <4>2. row'[j].status \notin Over
        BY <1>0, <1>1, <2>3 DEF Active, Over
      <4> QED
        BY <2>3, <3>3, <4>1, <4>2 DEF Known
    <3>4. CASE k # j
      <4>1. Attaching(k) => Attaching(k)'
        BY <2>2, <3>4 DEF Attaching, j
      <4>2. row'[k] = row[k]
        BY <2>3, <3>4
      <4>3. \A d \in Handlers : hand'[d].at \in {"import", "close", "write"}
              => hand'[d] = hand[d]
        BY <2>1, <2>2
      <4> QED
        BY <1>0, <1>1, <3>1, <4>1, <4>2, <4>3 DEF Known
    <3> QED
      BY <3>3, <3>4
  <2> QED
    BY <1>0, <2>4, <2>5, <2>6, <2>7, <2>8 DEF Inductive
<1>2. CASE /\ row[j].status \notin Active /\ Closes(j, TRUE)
           /\ Goes(c, [hand[c] EXCEPT !.at = "apply", !.to = "ended"])
           /\ UNCHANGED row
  <2> DEFINE h == [hand[c] EXCEPT !.at = "apply", !.to = "ended"]
  <2>1. h \in Hand /\ h.job = j /\ h.at = "apply" /\ h.to = "ended"
    BY <1>0 DEF Hand, Places, Statuses, Over
  <2>2. Goes(c, h)
    BY <1>2
  <2> HIDE DEF h
  <2>3. /\ hand' \in [Handlers -> Hand] /\ hand'[c] = h
        /\ \A d \in Handlers \ {c} : hand'[d] = hand[d]
        /\ \A d \in Handlers : hand'[d].at # "idle" => hand'[d].job \in Jobs
    BY <1>0, <2>1, <2>2, OneGoes
  <2>4. /\ open' \in SUBSET open /\ loose' \in SUBSET Jobs
        /\ loose \subseteq loose' /\ j \notin open' \ loose'
    BY <1>0, <1>2, ClosesSession
  <2>5. Frame(c)
    BY <1>0, <2>3, <2>4 DEF Frame, Shape
  <2>6. Decided(c)'
    BY <2>1, <2>3 DEF Decided, Results
  <2>7. Modest(c) /\ Fair(c) /\ Careful(c)
    BY <1>0, <1>2, <2>1, <2>3, <2>4
       DEF Modest, Fair, Careful, Holding, Engaged, Active
  <2> QED
    BY <1>2, <2>1, <2>3, <2>5, <2>6, <2>7, HandStep
<1> QED
  BY <1>1, <1>2 DEF Attach, Attaches, JobOf

LEMMA ExpireHolds ==
  ASSUME Inductive, NEW c \in Handlers, NEW j \in Jobs, Expire(c, j)
  PROVE  Inductive'
<1> DEFINE h == [Idle EXCEPT !.at = "insert", !.job = j]
<1>0. /\ Shape /\ hand[c].at = "idle" /\ row[j].status = "absent"
      /\ \A d \in Handlers : hand[d].job # j
      /\ \A k \in Stale : Quiet(k)
      /\ UNCHANGED <<open, late, imported, calm, doubled>> /\ Goes(c, h)
      /\ loose' = loose \cup (Stale \cap open)
  BY DEF Inductive, Expire, At, JobOf
<1>1. h \in Hand /\ h.job = j /\ h.at = "insert"
  BY DEF Idle, Hand, Places, Statuses
<1> HIDE DEF h
<1>2. /\ hand' \in [Handlers -> Hand] /\ hand'[c] = h
      /\ \A d \in Handlers \ {c} : hand'[d] = hand[d]
      /\ \A d \in Handlers : hand'[d].at # "idle" => hand'[d].job \in Jobs
  BY <1>0, <1>1, OneGoes
<1>3. /\ row' \in [Jobs -> [status : Statuses, session : BOOLEAN]]
      /\ \A k \in Jobs : row'[k].session = row[k].session
      /\ \A k \in Stale : row'[k].status = "ended"
      /\ \A k \in Jobs \ Stale : row'[k] = row[k]
  BY <1>0 DEF Expire, Shape, Stale, Statuses, Over
<1>4. \A k \in Stale : k \in Jobs /\ k \in late /\ row[k].status \in Active
  BY <1>0 DEF Stale, Shape
<1>5. Shape'
  BY <1>0, <1>2, <1>3 DEF Shape
<1>6. OneActive' /\ CompletedIsStored'
  BY <1>0, <1>3, <1>4 DEF Inductive, OneActive, CompletedIsStored, Active
<1>7. ASSUME NEW d \in Handlers PROVE Decided(d)' /\ Newborn(d)'
  <2>1. CASE d = c
    <3>1. j \notin Stale
      BY <1>0, <1>4 DEF Active
    <3> QED
      BY <1>0, <1>1, <1>2, <1>3, <2>1, <3>1 DEF Decided, Newborn
  <2>2. CASE d # c
    <3>1. hand'[d] = hand[d] /\ Decided(d) /\ Newborn(d)
      BY <1>2, <2>2 DEF Inductive
    <3>2. hand[d].at = "insert" => hand[d].job \in Jobs \ Stale
      BY <1>0, <1>4, <3>1 DEF Newborn, Shape, Active
    <3>3. Decided(d)'
      BY <1>0, <3>1 DEF Decided
    <3>4. Newborn(d)'
      BY <1>0, <1>1, <1>2, <1>3, <2>2, <3>1, <3>2 DEF Newborn
    <3> QED
      BY <3>3, <3>4
  <2> QED
    BY <2>1, <2>2
<1>8. \A e \in Handlers \ {c} :
        /\ hand'[e] = hand[e] /\ hand'[e].job # j
        /\ Holding(e)' <=> Holding(e)
        /\ Engaged(e)' <=> Engaged(e)
  BY <1>0, <1>2 DEF Holding, Engaged
<1>9. hand'[c].job = j /\ hand'[c].at = "insert" /\ ~ Holding(c)'
  BY <1>1, <1>2 DEF Holding
<1>10. ASSUME calm, NEW d \in Handlers PROVE Alone(d)'
  <2>1. CASE d = c
    BY <1>8, <1>9, <2>1 DEF Alone
  <2>2. CASE d # c
    <3>1. Alone(d)
      BY <1>10 DEF Inductive
    <3>2. Holding(d) => hand[d].job \in Jobs \ Stale
      BY <1>0, <1>10 DEF Shape, Holding, Quiet, JobOf
    <3>3. Holding(d) => row'[hand[d].job].status \in Active
      BY <1>3, <3>1, <3>2 DEF Alone
    <3> QED
      BY <1>8, <1>9, <1>10, <2>2, <3>1, <3>3 DEF Alone, Inductive
  <2> QED
    BY <2>1, <2>2
<1>11. ASSUME NEW d \in Handlers PROVE Single(d)'
  <2>1. CASE d = c
    <3>1. row'[j].status = "absent"
      BY <1>0, <1>3, <1>4 DEF Active
    <3> QED
      BY <1>8, <1>9, <2>1, <3>1 DEF Single
  <2>2. CASE d # c
    <3>1. Engaged(d) => hand[d].job \in Jobs
      BY <1>0 DEF Shape, Engaged
    <3>2. /\ Engaged(d) /\ row'[hand[d].job].status = "asking"
          => row[hand[d].job].status = "asking"
      BY <1>3, <3>1
    <3> QED
      BY <1>0, <1>8, <1>9, <2>2, <3>2 DEF Single, Inductive
  <2> QED
    BY <2>1, <2>2
<1>12. ASSUME NEW k \in Jobs \ loose' PROVE Known(k)'
  <2>1. Known(k) /\ k \notin Stale \cap open
    BY <1>0, <1>12 DEF Inductive
  <2>2. Attaching(k) => Attaching(k)'
    BY <1>0, <1>2 DEF Attaching
  <2>3. \A d \in Handlers : hand'[d].at \in {"import", "close", "write"}
          => hand'[d] = hand[d]
    BY <1>1, <1>2
  <2>4. row'[k].status \in Over /\ k \in open => row[k].status \in Over
    BY <1>3, <2>1
  <2> QED
    BY <1>0, <1>3, <2>1, <2>2, <2>3, <2>4 DEF Known
<1> QED
  BY <1>0, <1>5, <1>6, <1>7, <1>10, <1>11, <1>12 DEF Inductive

LEMMA StepHolds == Inductive /\ [Next]_vars => Inductive'
<1> SUFFICES ASSUME Inductive, [Next]_vars PROVE Inductive'
  OBVIOUS
<1>0. Shape
  BY DEF Inductive
<1>1. CASE UNCHANGED vars
  <2>1. open' \in SUBSET open /\ late' \in SUBSET Jobs /\ loose' \in SUBSET Jobs
    BY <1>0, <1>1 DEF vars, history, Shape
  <2> QED
    BY <1>1, <2>1, EnvironmentStep DEF vars, history
<1>2. ASSUME NEW c \in Handlers, Work(c) PROVE Inductive'
  BY <1>2, InsertHolds, AcquireHolds, AttachHolds, LoginHolds, ApplyHolds,
     ImportHolds, CloseHolds, WriteHolds, ResumeHolds DEF Work
<1>3. ASSUME NEW c \in Handlers, Die(c) PROVE Inductive'
  <2>1. /\ loose' \in SUBSET Jobs /\ loose \subseteq loose'
        /\ hand[c].at = "attach" => hand[c].job \in loose'
    BY <1>0, <1>3 DEF Die, At, JobOf, Shape
  <2>2. open' \in SUBSET open /\ imported' \in SUBSET Jobs
    BY <1>0, <1>3 DEF Die, Shape
  <2> QED
    BY <1>3, <2>1, <2>2, LeaveStep DEF Die
<1>4. ASSUME NEW c \in Handlers, NEW j \in Jobs,
             Expire(c, j) \/ Continue(c, j) \/ EndJob(c, j)
      PROVE  Inductive'
  BY <1>4, ExpireHolds, ContinueHolds, EndJobHolds
<1>5. ASSUME NEW j \in Jobs, Lapse(j) \/ SessionEnds(j) PROVE Inductive'
  <2>1. /\ UNCHANGED <<row, imported, hand, calm, doubled, loose>>
        /\ open' \in SUBSET open /\ late' \in SUBSET Jobs
        /\ late \subseteq late' /\ loose' \in SUBSET Jobs
    BY <1>0, <1>5 DEF Lapse, SessionEnds, Shape, history
  <2> QED
    BY <2>1, EnvironmentStep
<1> QED
  BY <1>1, <1>2, <1>3, <1>4, <1>5 DEF Next

\* The invariant holds in every state that can be reached.
LEMMA InductiveHolds == Spec => []Inductive
BY InitHolds, StepHolds, PTL DEF Spec

---------------------------------------------------------------------------
(* The theorems.                                                           *)

\* The rows and the requests only ever hold states of their kind.
THEOREM TypeCorrect == Spec => []TypeOK
<1>1. Inductive => TypeOK
  BY DEF Inductive, Shape, Decided, TypeOK, Hand, Places
<1> QED
  BY <1>1, InductiveHolds, PTL

\* No two jobs are active, whatever requests, deaths and expiries do.
THEOREM OneJobActive == Spec => []OneActive
<1>1. Inductive => OneActive
  BY DEF Inductive
<1> QED
  BY <1>1, InductiveHolds, PTL

\* A completed job has stored its credentials, also when two requests finish it
\* from their own snapshots.
THEOREM CompletedStored == Spec => []CompletedIsStored
<1>1. Inductive => CompletedIsStored
  BY DEF Inductive
<1> QED
  BY <1>1, InductiveHolds, PTL

\* A second request drives the browser of a job only if two of them resumed the
\* job from the same question, whatever cancels, expires or dies meanwhile.
THEOREM OneDriverPerJob == Spec => []OneDriver
<1>1. Inductive => OneDriver
  BY DEF Inductive, OneDriver, Single, Driving, Engaged, JobOf
<1> QED
  BY <1>1, InductiveHolds, PTL

\* A job that is over and has no request left has a signed-in session only if
\* that is loose: its close failed, nobody had written it down, or it was
\* attached under a request that had read the job before.
THEOREM SessionsClosed == Spec => []NoSessionLeft
<1>1. Inductive => NoSessionLeft
  BY DEF Inductive, NoSessionLeft, Known, Attaching, JobOf
<1> QED
  BY <1>1, InductiveHolds, PTL

\* While snapshots are held one at a time, a job that is over stays as it
\* ended, and nothing is stored on its behalf any more.
THEOREM EndStands == Spec => EndIsFinal
<1> DEFINE Final ==
      calm => \A j \in Jobs : row[j].status \in Over =>
                /\ row'[j].status = row[j].status
                /\ j \in imported' => j \in imported
<1>1. Inductive /\ [Next]_vars => [Final]_vars
  <2> SUFFICES ASSUME Inductive, Next, calm,
                      NEW j \in Jobs, row[j].status \in Over
               PROVE  /\ row'[j].status = row[j].status
                      /\ j \in imported' => j \in imported
    OBVIOUS
  <2>0. Shape /\ row[j].status \notin Active
        /\ \A c \in Handlers : Alone(c) /\ Newborn(c)
    BY DEF Inductive, Active, Over
  <2>1. \A c \in Handlers : hand[c].job = j =>
          ~ Holding(c) /\ hand[c].at # "insert"
    BY <2>0 DEF Alone, Newborn, Over
  <2>2. UNCHANGED <<row, imported>> \/ \E c \in Handlers :
          \/ Insert(c) \/ Attach(c) \/ Import(c) \/ Write(c) \/ Resume(c)
          \/ \E k \in Jobs : Expire(c, k)
    BY DEF Next, Work, Acquire, Login, Advance, Apply, Close, Die, Continue,
           EndJob, Lapse, SessionEnds
  <2>3. CASE UNCHANGED <<row, imported>>
    BY <2>3
  <2>4. ASSUME NEW c \in Handlers, Import(c)
        PROVE  /\ row'[j].status = row[j].status
               /\ j \in imported' => j \in imported
    BY <2>1, <2>4 DEF Import, Holding, At, JobOf
  <2>5. ASSUME NEW c \in Handlers, Insert(c) \/ Write(c) \/ Resume(c)
        PROVE  row'[j] = row[j] /\ imported' = imported
    <3>1. hand[c].job # j /\ hand[c].job \in Jobs /\ imported' = imported
      BY <2>0, <2>1, <2>5
         DEF Insert, Write, Resume, At, Holding, Shape
    <3>2. row' = row \/ \E s \in Statuses : SetStatus(hand[c].job, s)
      BY <2>0, <2>5 DEF Insert, Write, Resume, JobOf, Statuses, Active, Shape,
                        Hand
    <3> QED
      BY <2>0, <3>1, <3>2 DEF SetStatus, Shape
  <2>6. ASSUME NEW c \in Handlers, Attach(c)
        PROVE  row'[j].status = row[j].status /\ imported' = imported
    BY <2>0, <2>6 DEF Attach, Attaches, JobOf, Shape
  <2>7. ASSUME NEW c \in Handlers, NEW k \in Jobs, Expire(c, k)
        PROVE  row'[j].status = row[j].status /\ imported' = imported
    BY <2>0, <2>7 DEF Expire, Stale, Shape
  <2> QED
    BY <2>2, <2>3, <2>4, <2>5, <2>6, <2>7
<1> QED
  BY <1>1, InductiveHolds, PTL DEF Spec, EndIsFinal
===========================================================================
