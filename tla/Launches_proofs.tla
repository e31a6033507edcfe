--------------------------- MODULE Launches_proofs ---------------------------
(***************************************************************************)
(* Proofs about Launches, for any jobs, kinds of jobs, limits, delays,     *)
(* requests, failures and crashes.                                         *)
(***************************************************************************)
EXTENDS Launches, TLAPS

-----------------------------------------------------------------------------
(* One job's record *)

Phases == {"absent", "prepared", "reviewing", "input", "reviewed", "running", "paused",
           "stopping", "done", "trash"}
Records == [kind : {"none", "live", "review", "web"}, phase : Phases, stage : {"author", "review"},
            queued : BOOLEAN, due : Late .. Never, hold : Holds, check : Late .. Never, home : Jobs,
            review : BOOLEAN, feedback : BOOLEAN, stopped : BOOLEAN, elsewhere : BOOLEAN]

\* The author has worked, or works, for the job: no statement review comes any more.
Settled(J) == J.stage = "author" /\ J.phase \notin {"absent", "prepared"}

\* What holds of a job by its record alone.  Only a settled job has the workspace
\* of another, and only a prepared one waits for the checks of its batch.
Sane(j, J) ==
    /\ J \in Records
    /\ J.phase \in {"reviewing", "input", "reviewed"} => J.kind # "web" /\ J.stage = "review"
    /\ J.phase = "reviewed" => J.review
    /\ J.hold = "retry" /\ J.phase # "trash" => J.check # Never
    /\ J.hold = "pending" /\ J.phase # "trash" => J.phase = "prepared" /\ J.kind = "web"
    /\ J.home # j => J.kind # "web" /\ Settled(J)
    /\ J.elsewhere => J.phase # "trash"

\* A pending hold is the one the job had, or its check is scheduled.
StillPending(J, K) ==
    K.hold = "pending" /\ K.phase # "trash" /\ ~K.elsewhere =>
      \/ K.check # Never
      \/ J.hold = "pending" /\ J.phase # "trash" /\ ~J.elsewhere /\ J.check = Never

\* What a step may make of an existing job: its kind and its workspace stay.
Follows(J, K) ==
    /\ K.phase = "absent" => J.phase = "absent"
    /\ J.phase # "absent" =>
         /\ K.kind = J.kind /\ K.home = J.home
         /\ Settled(J) => Settled(K)

Leads(J, K) == StillPending(J, K) /\ Follows(J, K)

LEMMA Times ==
    /\ Wait \in Late .. Never /\ Never \in Late .. Never /\ 0 \in Late .. Never
    /\ Wait # Never /\ 0 # Never /\ Late \in Int /\ Never \in Int
  BY LaunchConstants DEF Late, Never

LEMMA NewIs ==
    ASSUME NEW j \in Jobs
    PROVE  /\ Sane(j, NewJob(j)) /\ NewJob(j).phase = "absent" /\ NewJob(j).kind = "none"
           /\ NewJob(j).hold = "" /\ NewJob(j).home = j /\ NewJob(j).stage = "author"
           /\ ~NewJob(j).elsewhere
  BY Times DEF NewJob, Sane, Records, Phases, Holds

OfKind(j, k) == [NewJob(j) EXCEPT !.kind = k]

LEMMA OfKindIs ==
    ASSUME NEW j \in Jobs, NEW k \in {"live", "review", "web"}
    PROVE  /\ Sane(j, OfKind(j, k)) /\ OfKind(j, k).kind = k /\ OfKind(j, k).phase = "absent"
           /\ OfKind(j, k).hold = "" /\ OfKind(j, k).home = j /\ ~OfKind(j, k).elsewhere
  BY Times DEF OfKind, NewJob, Sane, Records, Phases, Holds

LEMMA PreparedIs ==
    ASSUME NEW j \in Jobs, NEW J, Sane(j, J), J.phase = "absent", J.hold = "", J.home = j
    PROVE  /\ Sane(j, [J EXCEPT !.phase = "prepared"])
           /\ [J EXCEPT !.phase = "prepared"].kind = J.kind
           /\ [J EXCEPT !.phase = "prepared"].phase = "prepared"
           /\ [J EXCEPT !.phase = "prepared"].home = J.home
  BY DEF Sane, Records, Phases, Settled

LEMMA HeldIs ==
    ASSUME NEW j \in Jobs, NEW J, Sane(j, J), NEW cause \in {"fix", "retry"}
    PROVE  /\ Sane(j, HeldFor(J, cause)) /\ Leads(J, HeldFor(J, cause))
           /\ HeldFor(J, cause).phase = J.phase /\ HeldFor(J, cause).kind = J.kind
           /\ HeldFor(J, cause).stage = J.stage /\ HeldFor(J, cause).home = J.home
           /\ HeldFor(J, cause).hold = cause
  BY Times DEF HeldFor, Sane, Records, Settled, Leads, Follows, StillPending, Holds

LEMMA AuthorIs ==
    ASSUME NEW j \in Jobs, NEW J, Sane(j, J), J.hold = ""
    PROVE  /\ Sane(j, Works4Author(J)) /\ Leads(J, Works4Author(J))
           /\ Works4Author(J).phase = "running" /\ Works4Author(J).stage = "author"
           /\ Works4Author(J).kind = J.kind /\ Works4Author(J).hold = J.hold
           /\ Works4Author(J).home = J.home
  BY Times DEF Works4Author, Sane, Records, Phases, Settled, Leads, Follows, StillPending

LEMMA AgainIs ==
    ASSUME NEW j \in Jobs, NEW J, Sane(j, J), J.hold = ""
    PROVE  /\ Sane(j, [Works4Author(J) EXCEPT !.stopped = FALSE])
           /\ Leads(J, [Works4Author(J) EXCEPT !.stopped = FALSE])
           /\ [Works4Author(J) EXCEPT !.stopped = FALSE].phase = "running"
           /\ [Works4Author(J) EXCEPT !.stopped = FALSE].kind = J.kind
           /\ [Works4Author(J) EXCEPT !.stopped = FALSE].hold = J.hold
           /\ [Works4Author(J) EXCEPT !.stopped = FALSE].home = J.home
           /\ [Works4Author(J) EXCEPT !.stopped = FALSE].stage = "author"
  BY Times DEF Works4Author, Sane, Records, Phases, Settled, Leads, Follows, StillPending

LEMMA ReviewingIs ==
    ASSUME NEW j \in Jobs, NEW J, Sane(j, J), J.kind # "web", ~Settled(J), J.phase # "trash",
           NEW fb \in BOOLEAN
    PROVE  /\ Sane(j, Reviewing(J, fb)) /\ Leads(J, Reviewing(J, fb))
           /\ Reviewing(J, fb).phase = "reviewing" /\ Reviewing(J, fb).kind = J.kind
           /\ Reviewing(J, fb).stage = "review" /\ Reviewing(J, fb).home = J.home
  BY ZenonT(40), Times DEF Reviewing, Sane, Records, Phases, Settled, Leads, Follows, StillPending

LEMMA RequeuedIs ==
    ASSUME NEW j \in Jobs, NEW J, Sane(j, J), J.phase = "prepared"
    PROVE  /\ Sane(j, Requeued(J)) /\ Leads(J, Requeued(J))
           /\ Requeued(J).phase = "prepared" /\ Requeued(J).home = J.home
           /\ Requeued(J).kind = J.kind /\ Requeued(J).stage = J.stage
  BY Times DEF Requeued, Sane, Records, Phases, Settled, Leads, Follows, StillPending

LEMMA FailedReviewIs ==
    ASSUME NEW j \in Jobs, NEW J, Sane(j, J), J.phase = "reviewing"
    PROVE  /\ Sane(j, FailedReview(J)) /\ Leads(J, FailedReview(J))
           /\ FailedReview(J).phase \in {"input", "reviewed"} /\ FailedReview(J).home = J.home
  BY Times DEF FailedReview, Sane, Records, Phases, Settled, Leads, Follows, StillPending

LEMMA ReleasedIs ==
    ASSUME NEW j \in Jobs, NEW J, Sane(j, J)
    PROVE  /\ Sane(j, Released(J)) /\ Leads(J, Released(J))
           /\ Released(J).hold = "" /\ Released(J).phase = J.phase /\ Released(J).kind = J.kind
           /\ Released(J).stage = J.stage /\ Released(J).home = J.home
  BY Times DEF Released, Sane, Records, Settled, Leads, Follows, StillPending, Holds

LEMMA RestoredIs ==
    ASSUME NEW j \in Jobs, NEW J, Sane(j, J), J.phase \notin {"absent", "trash"}
    PROVE  /\ Sane(j, Restored(J)) /\ Leads(J, Restored(J)) /\ Restored(J).kind = J.kind
           /\ Restored(J).home = J.home /\ Restored(J).stage = J.stage
           /\ Restored(J).phase \notin {"absent", "trash"}
           /\ Restored(J).hold = "pending" => Restored(J).check # Never
  <1>1. Restored(J) \in Records
    BY Times DEF Restored, Sane, Records, Phases
  <1>2. /\ Restored(J).kind = J.kind /\ Restored(J).home = J.home /\ Restored(J).stage = J.stage
        /\ Restored(J).review = J.review /\ Restored(J).hold = J.hold /\ ~Restored(J).elsewhere
        /\ Restored(J).check = IF Rechecked(J) THEN 0 ELSE Never
        /\ Restored(J).phase = CASE J.phase = "reviewing" -> IF J.review /\ J.feedback THEN "reviewed" ELSE "input"
                                 [] J.phase = "running" -> "paused"
                                 [] J.phase = "stopping" -> "done"
                                 [] OTHER -> J.phase
    BY DEF Restored, Sane, Records
  <1> QED BY <1>1, <1>2, Times DEF Sane, Rechecked, Settled, Leads, Follows, StillPending

\* What does not touch the phase, or ends, pauses or stops the work.
DueIn(J, t)    == [J EXCEPT !.due = t]
CheckIn(J, t)  == [J EXCEPT !.check = t]
Later(J, d, c) == [J EXCEPT !.due = d, !.check = c]
Ended(J, p)    == [J EXCEPT !.phase = p]
PausedFor(J, t) == [J EXCEPT !.phase = "paused", !.due = t]
Stopped(J) == [J EXCEPT !.phase = "stopping", !.stopped = TRUE, !.due = Never]
Reported(J) == [J EXCEPT !.phase = "reviewed", !.review = TRUE, !.stopped = FALSE]
Deleted(J) == [J EXCEPT !.phase = "trash", !.check = Never, !.due = Never]

LEMMA DueInIs ==
    ASSUME NEW j \in Jobs, NEW J, Sane(j, J), NEW t \in Late .. Never
    PROVE  /\ Sane(j, DueIn(J, t)) /\ Leads(J, DueIn(J, t)) /\ DueIn(J, t).home = J.home
           /\ DueIn(J, t).phase = J.phase /\ DueIn(J, t).stage = J.stage
  BY DEF DueIn, Sane, Records, Settled, Leads, Follows, StillPending

LEMMA CheckInIs ==
    ASSUME NEW j \in Jobs, NEW J, Sane(j, J), NEW t \in Late .. Never, t # Never
    PROVE  /\ Sane(j, CheckIn(J, t)) /\ Leads(J, CheckIn(J, t)) /\ CheckIn(J, t).home = J.home
           /\ CheckIn(J, t).phase = J.phase /\ CheckIn(J, t).stage = J.stage
  BY DEF CheckIn, Sane, Records, Settled, Leads, Follows, StillPending

LEMMA LaterIs ==
    ASSUME NEW j \in Jobs, NEW J, Sane(j, J), NEW d \in Late .. Never, NEW c \in Late .. Never,
           c = Never <=> J.check = Never
    PROVE  /\ Sane(j, Later(J, d, c)) /\ Leads(J, Later(J, d, c)) /\ Later(J, d, c).home = J.home
           /\ Later(J, d, c).phase = J.phase /\ Later(J, d, c).kind = J.kind
           /\ Later(J, d, c).stage = J.stage /\ Later(J, d, c).check = c
           /\ Later(J, d, c).hold = J.hold /\ Later(J, d, c).elsewhere = J.elsewhere
  BY DEF Later, Sane, Records, Settled, Leads, Follows, StillPending

LEMMA EndedIs ==
    ASSUME NEW j \in Jobs, NEW J, Sane(j, J), J.phase \notin {"absent", "prepared", "trash"},
           NEW t \in Late .. Never, NEW p \in {"done", "paused"}
    PROVE  /\ Sane(j, Ended(J, p)) /\ Leads(J, Ended(J, p)) /\ Ended(J, p).phase = p
           /\ Ended(J, p).home = J.home
           /\ Sane(j, PausedFor(J, t)) /\ Leads(J, PausedFor(J, t))
           /\ PausedFor(J, t).phase = "paused" /\ PausedFor(J, t).home = J.home
  BY DEF Ended, PausedFor, Sane, Records, Phases, Settled, Leads, Follows, StillPending

LEMMA StoppedIs ==
    ASSUME NEW j \in Jobs, NEW J, Sane(j, J), J.phase \notin {"absent", "prepared", "trash"}
    PROVE  /\ Sane(j, Stopped(J)) /\ Leads(J, Stopped(J)) /\ Stopped(J).phase = "stopping"
           /\ Stopped(J).home = J.home /\ Stopped(J).stage = J.stage
  BY Times DEF Stopped, Sane, Records, Phases, Settled, Leads, Follows, StillPending

LEMMA ReportedIs ==
    ASSUME NEW j \in Jobs, NEW J, Sane(j, J), J.phase \notin {"absent", "trash"},
           J.kind # "web", J.stage = "review"
    PROVE  /\ Sane(j, Reported(J)) /\ Leads(J, Reported(J)) /\ Reported(J).home = J.home
           /\ Reported(J).phase = "reviewed"
  BY DEF Reported, Sane, Records, Phases, Settled, Leads, Follows, StillPending

LEMMA DeletedIs ==
    ASSUME NEW j \in Jobs, NEW J, Sane(j, J), J.phase \notin {"absent", "trash"},
           ~J.elsewhere
    PROVE  /\ Sane(j, Deleted(J)) /\ Leads(J, Deleted(J)) /\ Deleted(J).home = J.home
           /\ Deleted(J).phase = "trash"
  BY Times DEF Deleted, Sane, Records, Phases, Settled, Leads, Follows, StillPending
-----------------------------------------------------------------------------
(* The state, and a step that concerns one job *)

Shapes ==
    /\ job \in [Jobs -> Records] /\ sound \in [Jobs -> BOOLEAN]
    /\ reader \in [Jobs -> Works] /\ runner \in [Jobs -> Works]
    /\ checks \in [Jobs -> {"none", "asked"} \cup Holds]
    /\ talk \in [Jobs -> {"none", "queued", "running", "again"}] /\ up \in BOOLEAN

\* A job with what works for it: a reader follows a listed job only, a review or a
\* check runs for the right kind of job, and only web-cutoff jobs are damaged.
Attended(j, J, r, c, s) ==
    /\ Sane(j, J) /\ (J.phase = "absent" => J = NewJob(j))
    /\ r # "none" => J.phase \notin {"absent", "trash"}
    /\ r = "review" => J.kind # "web" /\ J.stage = "review"
    /\ c \in Holds => J.kind = "web"
    /\ J.kind # "web" => s

AllAttended == \A j \in Jobs : Attended(j, job[j], reader[j], checks[j], sound[j])

\* A workspace that a job shares belongs to a job that is settled.
HomesSettled ==
    \A i \in Jobs : job[i].home # i =>
      /\ job[job[i].home].home = job[i].home
      /\ job[job[i].home].kind # "web" /\ Settled(job[job[i].home])

RequestsSettled == requests \subseteq Jobs /\ \A s \in requests : Settled(job[s])

Orders ==
    /\ batch = [at |-> batch.at, kind |-> batch.kind, todo |-> batch.todo, made |-> batch.made,
                free |-> batch.free]
    /\ batch.kind \in {"live", "review", "web"} /\ batch.todo \subseteq Jobs /\ batch.made \subseteq Jobs
    /\ batch.at \in {"none", "create", "start"}
    /\ \A j \in batch.todo : job[j].phase = "absent"
    /\ \A j \in batch.made : job[j].phase # "absent" /\ job[j].kind = batch.kind
    /\ \A p \in pending :
         /\ p = [job |-> p.job, kind |-> p.kind, due |-> p.due]
         /\ p.job \in Jobs \ batch.todo /\ p.kind \in {"live", "review", "web"}
         /\ job[p.job].phase = "absent"
         /\ \A q \in pending : q.job = p.job => q = p

\* The checks of a pending hold are scheduled, or its batch is about to run them.
PendingChecked ==
    up => \A j \in Jobs :
      job[j].hold = "pending" /\ Listed(j) /\ ~job[j].elsewhere =>
        job[j].check # Never \/ (j \in batch.made /\ batch.at = "create")

Inv == /\ Shapes /\ AllAttended /\ HomesSettled /\ RequestsSettled /\ Orders
       /\ PendingChecked /\ AloneUnlessRaced

\* A job's new runner: of a checked web-cutoff job, and alone in its workspace
\* unless its check was overtaken.
Starts(j) ==
    /\ job'[j].kind = "web" => sound[j] /\ job'[j].hold = ""
    /\ j \in raced' \/ \A i \in Jobs \ {j} : job[i].home = job'[j].home => runner[i] = "none"

\* What a step that concerns one job may do.
Turn(j) ==
    /\ job' = [job EXCEPT ![j] = job'[j]]
    /\ reader' = [reader EXCEPT ![j] = reader'[j]] /\ runner' = [runner EXCEPT ![j] = runner'[j]]
    /\ checks' = [checks EXCEPT ![j] = checks'[j]] /\ sound' = [sound EXCEPT ![j] = sound'[j]]
    /\ reader'[j] \in Works /\ runner'[j] \in Works /\ sound'[j] \in BOOLEAN
    /\ checks'[j] \in {"none", "asked"} \cup Holds
    /\ Attended(j, job'[j], reader'[j], checks'[j], sound'[j]) /\ Leads(job[j], job'[j])
    /\ \/ runner'[j] = "none"
       \/ runner'[j] = runner[j] /\ job'[j].home = job[j].home
       \/ Starts(j)
    /\ \/ job'[j].home = job[j].home
       \/ /\ job'[j].home \in Jobs \ {j} /\ job[job'[j].home].home = job'[j].home
          /\ job[job'[j].home].kind # "web" /\ Settled(job[job'[j].home])
    /\ raced \subseteq raced'

LEMMA TurnShapes ==
    ASSUME Inv, NEW j \in Jobs, Turn(j)
    PROVE  /\ job' \in [Jobs -> Records] /\ sound' \in [Jobs -> BOOLEAN]
           /\ reader' \in [Jobs -> Works] /\ runner' \in [Jobs -> Works]
           /\ checks' \in [Jobs -> {"none", "asked"} \cup Holds]
           /\ \A i \in Jobs \ {j} : /\ job'[i] = job[i] /\ reader'[i] = reader[i]
                                    /\ runner'[i] = runner[i] /\ checks'[i] = checks[i]
                                    /\ sound'[i] = sound[i]
  <1>1. job'[j] \in Records
    BY DEF Turn, Attended, Sane
  <1> QED BY <1>1 DEF Inv, Shapes, Turn

LEMMA TurnKeeps ==
    ASSUME Inv, NEW j \in Jobs, Turn(j)
    PROVE  AllAttended' /\ HomesSettled' /\ AloneUnlessRaced'
  <1>1. \A i \in Jobs \ {j} : /\ job'[i] = job[i] /\ reader'[i] = reader[i]
                              /\ runner'[i] = runner[i] /\ checks'[i] = checks[i]
                              /\ sound'[i] = sound[i]
    BY TurnShapes
  <1>2. AllAttended'
    BY <1>1 DEF AllAttended, Turn, Inv
  <1>3. \A i \in Jobs : Leads(job[i], job'[i]) \/ job'[i] = job[i]
    BY <1>1 DEF Turn
  <1>4. HomesSettled'
    <2> SUFFICES ASSUME NEW i \in Jobs, job'[i].home # i
                 PROVE  /\ job'[job'[i].home].home = job'[i].home
                        /\ job'[job'[i].home].kind # "web" /\ Settled(job'[job'[i].home])
      BY DEF HomesSettled
    <2> DEFINE h == job'[i].home
    <2>1. h \in Jobs /\ job[h].home = h /\ job[h].kind # "web" /\ Settled(job[h])
      <3>1. job'[i].home = job[i].home => job[i].home \in Jobs
        BY DEF Inv, Shapes, Records
      <3> QED BY <1>1, <3>1 DEF Turn, Inv, HomesSettled
    <2>2. job[h].phase # "absent"
      BY <2>1 DEF Settled
    <2> QED BY <1>3, <2>1, <2>2 DEF Leads, Follows
  <1>5. AloneUnlessRaced'
    <2> SUFFICES ASSUME NEW i \in Jobs, NEW k \in Jobs, i # k, runner'[i] # "none",
                        runner'[k] # "none", job'[i].home = job'[k].home
                 PROVE  i \in raced' \/ k \in raced'
      BY DEF AloneUnlessRaced, Together
    <2>1. ASSUME NEW m \in Jobs, m # j, runner'[m] # "none", job'[m].home = job'[j].home,
                 runner'[j] # "none"
          PROVE  m \in raced' \/ j \in raced'
      <3>1. job'[m] = job[m] /\ runner'[m] = runner[m]
        BY <1>1, <2>1
      <3>2. CASE runner'[j] = runner[j] /\ job'[j].home = job[j].home
        BY <2>1, <3>1, <3>2 DEF Inv, AloneUnlessRaced, Together, Turn
      <3>3. CASE Starts(j)
        BY <2>1, <3>1, <3>3 DEF Starts
      <3> QED BY <2>1, <3>2, <3>3 DEF Turn
    <2>2. CASE i # j /\ k # j
      BY <1>1, <2>2 DEF Inv, AloneUnlessRaced, Together, Turn
    <2> QED BY <2>1, <2>2
  <1> QED BY <1>2, <1>4, <1>5

\* The hold of a batch is checked as long as the batch is there to do it.
LEMMA TurnPending ==
    ASSUME Inv, NEW j \in Jobs, Turn(j), up' \in {up, FALSE},
           batch.at = "create" => batch'.at = "create" /\ batch.made \subseteq batch'.made
    PROVE  PendingChecked'
  <1> SUFFICES ASSUME up', NEW i \in Jobs, job'[i].hold = "pending", Listed(i)', ~job'[i].elsewhere
               PROVE  job'[i].check # Never \/ (i \in batch'.made /\ batch'.at = "create")
    BY DEF PendingChecked
  <1>1. \A k \in Jobs \ {j} : job'[k] = job[k]
    BY TurnShapes
  <1>2. CASE i # j
    BY <1>1, <1>2 DEF Inv, PendingChecked, Listed
  <1>3. CASE i = j
    <2>1. job'[j].check # Never
          \/ (job[j].hold = "pending" /\ job[j].phase # "trash" /\ ~job[j].elsewhere /\ job[j].check = Never)
      BY <1>3 DEF Leads, StillPending, Listed, Turn
    <2>2. job[j].phase = "absent" => job[j].hold = ""
      <3>1. job[j].phase = "absent" => job[j] = NewJob(j)
        BY DEF Inv, AllAttended, Attended
      <3>2. NewJob(j).hold = ""
        BY NewIs
      <3> QED BY <3>1, <3>2, Zenon
    <2> QED BY <1>3, <2>1, <2>2 DEF Inv, PendingChecked, Listed
  <1> QED BY <1>2, <1>3

LEMMA TurnOrders ==
    ASSUME Inv, NEW j \in Jobs, Turn(j), up' \in BOOLEAN, requests' \subseteq requests,
           talk' \in [Jobs -> {"none", "queued", "running", "again"}], Orders', PendingChecked'
    PROVE  Inv'
  <1>1. \A i \in Jobs \ {j} : job'[i] = job[i]
    BY TurnShapes
  <1>2. Follows(job[j], job'[j])
    BY DEF Turn, Leads
  <1>3. Shapes'
    BY TurnShapes DEF Shapes
  <1>4. RequestsSettled'
    <2>1. ASSUME NEW s \in requests PROVE s \in Jobs /\ Settled(job'[s])
      <3>1. s \in Jobs /\ Settled(job[s]) /\ job[s].phase # "absent"
        BY DEF Inv, RequestsSettled, Settled
      <3> QED BY <1>1, <1>2, <3>1 DEF Follows
    <2> QED BY <2>1 DEF RequestsSettled
  <1> QED BY <1>3, <1>4, TurnKeeps DEF Inv

\* A step of one existing job that leaves requests and batches alone.
LEMMA TurnInv ==
    ASSUME Inv, NEW j \in Jobs, Turn(j), up' \in {up, FALSE},
           talk' \in [Jobs -> {"none", "queued", "running", "again"}],
           UNCHANGED batch, requests' \subseteq requests, pending' = pending,
           job'[j] = job[j] \/ (j \notin batch.todo /\ \A p \in pending : p.job # j)
    PROVE  Inv'
  <1>1. \A i \in Jobs \ {j} : job'[i] = job[i]
    BY TurnShapes
  <1>2. Follows(job[j], job'[j])
    BY DEF Turn, Leads
  <1>3. Orders'
    <2>1. \A i \in batch.made : job'[i].phase # "absent" /\ job'[i].kind = batch.kind
      BY <1>1, <1>2 DEF Inv, Orders, Follows
    <2>2. \A i \in batch.todo : job'[i].phase = "absent"
      BY <1>1 DEF Inv, Orders
    <2>3. \A p \in pending : job'[p.job].phase = "absent"
      BY <1>1 DEF Inv, Orders
    <2> QED BY <2>1, <2>2, <2>3 DEF Inv, Orders
  <1> QED BY <1>3, TurnPending, TurnOrders DEF Inv, Shapes

\* A step of many jobs, in which no runner starts.
NoneStarts == \A j \in Jobs : runner'[j] \in {"none", runner[j]}

LEMMA SweepKeeps ==
    ASSUME Inv, requests' \subseteq requests, raced \subseteq raced', NoneStarts,
           \A j \in Jobs : Follows(job[j], job'[j]) /\ job'[j].home = job[j].home
    PROVE  HomesSettled' /\ RequestsSettled' /\ AloneUnlessRaced'
  <1>1. HomesSettled'
    <2> SUFFICES ASSUME NEW i \in Jobs, job'[i].home # i
                 PROVE  /\ job'[job'[i].home].home = job'[i].home
                        /\ job'[job'[i].home].kind # "web" /\ Settled(job'[job'[i].home])
      BY DEF HomesSettled
    <2> DEFINE h == job[i].home
    <2>1. /\ h \in Jobs /\ job[h].home = h /\ job[h].kind # "web" /\ Settled(job[h])
          /\ job'[i].home = h
      BY DEF Inv, Shapes, Records, HomesSettled
    <2>2. job[h].phase # "absent"
      BY <2>1 DEF Settled
    <2> QED BY <2>1, <2>2 DEF Follows
  <1>2. RequestsSettled'
    <2>1. ASSUME NEW s \in requests PROVE s \in Jobs /\ Settled(job'[s])
      <3>1. s \in Jobs /\ Settled(job[s]) /\ job[s].phase # "absent"
        BY DEF Inv, RequestsSettled, Settled
      <3> QED BY <3>1 DEF Follows
    <2> QED BY <2>1 DEF RequestsSettled
  <1>3. AloneUnlessRaced'
    BY DEF Inv, AloneUnlessRaced, Together, NoneStarts
  <1> QED BY <1>1, <1>2, <1>3
-----------------------------------------------------------------------------
(* Kinds of turns *)

LEMMA AbsentIs ==
    ASSUME Inv, NEW j \in Jobs, job[j].phase = "absent"
    PROVE  /\ job[j] = NewJob(j) /\ Sane(j, job[j]) /\ job[j].kind = "none" /\ job[j].home = j
           /\ job[j].hold = "" /\ sound[j] /\ checks[j] \notin Holds /\ reader[j] = "none"
           /\ ~Settled(job[j])
  <1>1. Attended(j, job[j], reader[j], checks[j], sound[j])
    BY DEF Inv, AllAttended
  <1>2. job[j] = NewJob(j)
    BY <1>1 DEF Attended
  <1>3. NewJob(j).kind = "none" /\ NewJob(j).hold = "" /\ NewJob(j).home = j
    BY NewIs
  <1>4. job[j].kind = "none" /\ job[j].hold = "" /\ job[j].home = j
    BY <1>2, <1>3, Zenon
  <1>5. Sane(j, job[j]) /\ sound[j] /\ checks[j] \notin Holds /\ reader[j] = "none"
    BY <1>1, <1>4 DEF Attended
  <1> QED BY <1>2, <1>4, <1>5 DEF Settled

LEMMA JobIs ==
    ASSUME Inv, NEW j \in Jobs
    PROVE  /\ Sane(j, job[j]) /\ job[j] \in Records /\ sound[j] \in BOOLEAN
           /\ reader[j] \in Works /\ runner[j] \in Works
           /\ reader[j] # "none" => job[j].phase \notin {"absent", "trash"}
           /\ reader[j] = "review" => job[j].kind # "web" /\ job[j].stage = "review"
           /\ checks[j] \in Holds => job[j].kind = "web"
           /\ checks[j] \in {"none", "asked"} \cup Holds
           /\ job[j].kind # "web" => sound[j]
  BY DEF Inv, Shapes, AllAttended, Attended, Sane

\* The job's record changes and no runner starts.
LEMMA EditTurn ==
    ASSUME Inv, NEW j \in Jobs, NEW K, Becomes(j, K), Stays, UNCHANGED <<sound, raced>>,
           checks' = [checks EXCEPT ![j] = checks'[j]],
           checks'[j] \in {"none", "asked"} \cup Holds,
           checks'[j] \in Holds => checks'[j] = checks[j] \/ job[j].kind = "web",
           Sane(j, K), Leads(job[j], K), K.phase # "absent", K.home = job[j].home,
           reader[j] # "none" => K.phase # "trash" /\ K.stage = job[j].stage
    PROVE  Turn(j) /\ job'[j] = K
  <1>1. job' = [job EXCEPT ![j] = K] /\ UNCHANGED <<reader, runner>>
    BY DEF Becomes, Stays
  <1>2. job'[j] = K
    BY <1>1 DEF Inv, Shapes
  <1>3. job[j].phase # "absent" => K.kind = job[j].kind
    BY DEF Leads, Follows
  <1>4. job[j].phase = "absent" => sound[j] /\ checks[j] \notin Holds /\ reader[j] = "none"
                                   /\ job[j].kind = "none"
    BY AbsentIs
  <1>5. Attended(j, K, reader[j], checks'[j], sound[j])
    BY <1>3, <1>4, JobIs DEF Attended
  <1>6. /\ reader[j] \in Works /\ runner[j] \in Works /\ sound[j] \in BOOLEAN
        /\ reader = [reader EXCEPT ![j] = reader[j]] /\ runner = [runner EXCEPT ![j] = runner[j]]
        /\ sound = [sound EXCEPT ![j] = sound[j]]
    BY DEF Inv, Shapes
  <1> QED BY <1>1, <1>2, <1>5, <1>6 DEF Turn

\* A runner starts for the job.
LEMMA RunTurn ==
    ASSUME Inv, NEW j \in Jobs, NEW K, NEW work \in {"review", "author", "reply"}, Runs(j, K, work),
           UNCHANGED sound, raced \subseteq raced',
           checks' = [checks EXCEPT ![j] = checks'[j]], checks'[j] \in {"none", checks[j]},
           Sane(j, K), Leads(job[j], K), K.phase \notin {"absent", "trash"},
           work = "review" => K.kind # "web" /\ K.stage = "review",
           K.kind = "web" => sound[j] /\ K.hold = "",
           j \in raced' \/ \A i \in Jobs \ {j} : job[i].home = K.home => runner[i] = "none",
           \/ K.home = job[j].home
           \/ /\ K.home \in Jobs \ {j} /\ job[K.home].home = K.home
              /\ job[K.home].kind # "web" /\ Settled(job[K.home])
    PROVE  Turn(j) /\ job'[j] = K
  <1>1. /\ job' = [job EXCEPT ![j] = K] /\ reader' = [reader EXCEPT ![j] = work]
        /\ runner' = [runner EXCEPT ![j] = work]
    BY DEF Becomes, Runs
  <1>2. job'[j] = K /\ reader'[j] = work /\ runner'[j] = work /\ work \in Works /\ work # "none"
    BY <1>1 DEF Inv, Shapes, Works
  <1>3. job[j].phase # "absent" => K.kind = job[j].kind
    BY DEF Leads, Follows
  <1>4. job[j].phase = "absent" => sound[j] /\ checks[j] \notin Holds
    BY AbsentIs
  <1>5. Attended(j, K, work, checks'[j], sound[j])
    BY <1>3, <1>4, JobIs DEF Attended, Holds
  <1>6. sound[j] \in BOOLEAN /\ sound = [sound EXCEPT ![j] = sound[j]]
        /\ checks'[j] \in {"none", "asked"} \cup Holds
    BY JobIs DEF Inv, Shapes
  <1>7. Starts(j)
    BY <1>2 DEF Starts
  <1> QED BY <1>1, <1>2, <1>5, <1>6, <1>7 DEF Turn

\* The record stays; a reader, a runner or a check may end.
LEMMA RestTurn ==
    ASSUME Inv, NEW j \in Jobs, UNCHANGED <<job, raced>>,
           sound' = [sound EXCEPT ![j] = sound'[j]], sound'[j] \in BOOLEAN,
           sound'[j] \/ job[j].kind = "web",
           reader' = [reader EXCEPT ![j] = reader'[j]], reader'[j] \in {"none", reader[j]},
           runner' = [runner EXCEPT ![j] = runner'[j]], runner'[j] \in {"none", runner[j]},
           checks' = [checks EXCEPT ![j] = checks'[j]],
           checks'[j] \in {"none", "asked"} \cup Holds,
           checks'[j] \in Holds => checks'[j] = checks[j] \/ job[j].kind = "web"
    PROVE  Turn(j) /\ job'[j] = job[j]
  <1>1. Attended(j, job[j], reader'[j], checks'[j], sound'[j])
    <2>1. job[j].phase = "absent" => job[j] = NewJob(j)
      BY AbsentIs
    <2>2. /\ reader'[j] # "none" => job[j].phase \notin {"absent", "trash"}
          /\ reader'[j] = "review" => job[j].kind # "web" /\ job[j].stage = "review"
      BY JobIs
    <2>3. checks'[j] \in Holds => job[j].kind = "web"
      BY JobIs
    <2> QED BY <2>1, <2>2, <2>3, JobIs DEF Attended
  <1>2. Leads(job[j], job[j])
    BY DEF Leads, Follows, StillPending
  <1>3. /\ job = [job EXCEPT ![j] = job[j]] /\ "none" \in Works
        /\ reader[j] \in Works /\ runner[j] \in Works
    BY DEF Inv, Shapes, Works
  <1> QED BY <1>1, <1>2, <1>3 DEF Turn

\* Nobody shares the workspace of a web-cutoff job or of one that is not settled.
LEMMA OwnAlone ==
    ASSUME Inv, NEW j \in Jobs, job[j].kind = "web" \/ ~Settled(job[j])
    PROVE  job[j].home = j /\ \A i \in Jobs \ {j} : job[i].home # job[j].home
  <1>1. job[j].home = j
    BY JobIs DEF Sane
  <1> QED BY <1>1 DEF Inv, HomesSettled

\* What the check of the workspace finds.
LEMMA IdleAlone ==
    ASSUME Inv, NEW s \in Jobs, NEW but, Idle(s, but)
    PROVE  \A i \in Jobs \ but : job[i].home = job[s].home => runner[i] = "none"
  <1> SUFFICES ASSUME NEW i \in Jobs \ but, job[i].home = job[s].home, runner[i] # "none"
               PROVE  FALSE
    OBVIOUS
  <1>1. ~Held(job[s].home) /\ ~Busy(i)
    BY DEF Idle
  <1>2. reader[i] # "none"
    BY <1>1 DEF Held
  <1>3. Listed(i)
    BY <1>2, JobIs DEF Listed
  <1> QED BY <1>1, <1>2, <1>3 DEF Busy
-----------------------------------------------------------------------------
(* Requests of the user *)

\* What a job's requests and helpers leave to the others.
LEMMA OthersAre ==
    ASSUME Others
    PROVE  UNCHANGED <<up, sound, batch, pending, requests, raced, loop, quiet>>
  BY DEF Others, server

LEMMA Talks ==
    ASSUME Inv, NEW j \in Jobs, NEW t \in {"none", "queued", "running", "again"},
           talk' = [talk EXCEPT ![j] = t]
    PROVE  talk' \in [Jobs -> {"none", "queued", "running", "again"}]
  BY DEF Inv, Shapes

LEMMA Present ==
    ASSUME Inv, NEW j \in Jobs, job[j].phase # "absent"
    PROVE  j \notin batch.todo /\ \A p \in pending : p.job # j
  BY DEF Inv, Orders

\* A job's turn in which only its own thread takes part.
LEMMA OtherTurn ==
    ASSUME Inv, NEW j \in Jobs, Turn(j), Others,
           talk' \in [Jobs -> {"none", "queued", "running", "again"}],
           Unused(j) \/ job[j].phase # "absent" \/ job'[j] = job[j]
    PROVE  Inv'
  BY OthersAre, Present, TurnInv DEF Unused

LEMMA StartNewTurn ==
    ASSUME Inv, NEW j \in Jobs, NEW k, StartNew(j, k)
    PROVE  Turn(j) /\ Inv'
  <1>1. k \in {"live", "review", "web"} /\ Unused(j) /\ Others /\ UNCHANGED <<talk, checks>>
    BY LaunchConstants DEF StartNew
  <1> DEFINE J == [job[j] EXCEPT !.kind = k]
  <1>2. /\ job[j] = NewJob(j) /\ job[j].home = j /\ sound[j] /\ reader[j] = "none" /\ ~Settled(job[j])
        /\ job[j].phase = "absent"
    BY <1>1, AbsentIs DEF Unused
  <1>3. /\ Sane(j, J) /\ J.kind = k /\ J.phase = "absent" /\ J.hold = "" /\ J.home = j /\ ~Settled(J)
        /\ ~J.elsewhere
    <2>1. J = OfKind(j, k)
      <3>1. [job[j] EXCEPT !.kind = k] = [NewJob(j) EXCEPT !.kind = k]
        BY <1>2, Zenon
      <3> QED BY <3>1 DEF OfKind
    <2> HIDE DEF J
    <2>2. /\ Sane(j, OfKind(j, k)) /\ OfKind(j, k).kind = k /\ OfKind(j, k).phase = "absent"
          /\ OfKind(j, k).hold = "" /\ OfKind(j, k).home = j /\ ~OfKind(j, k).elsewhere
      BY ZenonT(40), <1>1, OfKindIs
    <2>3. ~Settled(OfKind(j, k))
      BY <2>2 DEF Settled
    <2> QED BY <2>1, <2>2, <2>3, Zenon
  <1>4. UNCHANGED <<sound, raced>> /\ checks' = [checks EXCEPT ![j] = checks'[j]]
        /\ checks'[j] = checks[j]
    BY <1>1, OthersAre DEF Inv, Shapes
  <1>5. \A i \in Jobs \ {j} : job[i].home # j
    BY <1>2, OwnAlone
  <1>6. \/ k = "review" /\ Runs(j, Reviewing(J, FALSE), "review")
        \/ k # "review" /\ Runs(j, Works4Author(J), "author")
        \/ /\ k = "web" /\ Stays
           /\ \E cause \in {"fix", "retry"} :
                Becomes(j, HeldFor([J EXCEPT !.phase = "prepared"], cause))
    BY Zenon DEF StartNew
  <1> HIDE DEF J
  <1>7. \A K : StillPending(J, K) => Leads(job[j], K)
    <2>1. ~job[j].elsewhere /\ job[j].hold = "" /\ job[j].phase = "absent"
      <3>1. ~NewJob(j).elsewhere /\ NewJob(j).hold = ""
        BY NewIs
      <3> QED BY <1>2, <3>1, Zenon
    <2> QED BY <1>3, <2>1 DEF Leads, Follows, StillPending
  <1>8. CASE k = "review" /\ Runs(j, Reviewing(J, FALSE), "review")
    <2>1. /\ Sane(j, Reviewing(J, FALSE)) /\ Leads(J, Reviewing(J, FALSE))
          /\ Reviewing(J, FALSE).phase = "reviewing" /\ Reviewing(J, FALSE).kind = k
          /\ Reviewing(J, FALSE).stage = "review" /\ Reviewing(J, FALSE).home = j
      BY <1>3, <1>8, ReviewingIs
    <2>2. Leads(job[j], Reviewing(J, FALSE))
      BY <1>7, <2>1 DEF Leads, Follows
    <2>3. Turn(j)
      BY <1>2, <1>4, <1>5, <1>8, <2>1, <2>2, RunTurn
    <2> QED BY <1>1, <2>3, OtherTurn DEF Inv, Shapes
  <1>9. CASE k # "review" /\ Runs(j, Works4Author(J), "author")
    <2>1. /\ Sane(j, Works4Author(J)) /\ Leads(J, Works4Author(J))
          /\ Works4Author(J).phase = "running" /\ Works4Author(J).kind = k
          /\ Works4Author(J).hold = "" /\ Works4Author(J).home = j
      BY <1>3, AuthorIs
    <2>2. Leads(job[j], Works4Author(J))
      BY <1>7, <2>1 DEF Leads, Follows
    <2>3. Turn(j)
      BY <1>2, <1>4, <1>5, <1>9, <2>1, <2>2, RunTurn
    <2> QED BY <1>1, <2>3, OtherTurn DEF Inv, Shapes
  <1>10. ASSUME k = "web", Stays, NEW cause \in {"fix", "retry"},
                Becomes(j, HeldFor([J EXCEPT !.phase = "prepared"], cause))
         PROVE  Turn(j) /\ Inv'
    <2> DEFINE P == [J EXCEPT !.phase = "prepared"]
    <2>1. Sane(j, P) /\ P.kind = k /\ P.phase = "prepared" /\ P.home = j
      BY <1>3, PreparedIs
    <2> HIDE DEF P
    <2>2. /\ Sane(j, HeldFor(P, cause)) /\ HeldFor(P, cause).phase = "prepared"
          /\ HeldFor(P, cause).home = j /\ HeldFor(P, cause).hold = cause
      BY <2>1, HeldIs
    <2>3. Leads(job[j], HeldFor(P, cause))
      BY <1>7, <2>2 DEF StillPending
    <2>4. Becomes(j, HeldFor(P, cause))
      BY <1>10 DEF P
    <2>5. Turn(j)
      BY <1>2, <1>4, <1>10, <2>2, <2>3, <2>4, JobIs, EditTurn
    <2> QED BY <1>1, <2>5, OtherTurn DEF Inv, Shapes
  <1> QED BY <1>6, <1>8, <1>9, <1>10

\* start_queued, whoever calls it.
LEMMA StartsQueuedTurn ==
    ASSUME Inv, NEW j \in Jobs, NEW again, StartsQueued(j, again), UNCHANGED <<sound, raced, checks>>
    PROVE  Turn(j) /\ job[j].phase = "prepared"
  <1>1. job[j].phase = "prepared" /\ job[j].hold = "" /\ reader[j] = "none"
    BY DEF StartsQueued
  <1>2. /\ Sane(j, job[j]) /\ checks' = [checks EXCEPT ![j] = checks'[j]] /\ checks'[j] = checks[j]
        /\ checks[j] \in {"none", "asked"} \cup Holds
    BY JobIs DEF Inv, Shapes
  <1>3. \A i \in Jobs \ {j} : job[i].home # job[j].home
    BY <1>1, OwnAlone DEF Settled
  <1>4. \/ Sound(j) /\ ReviewFirst(j) /\ Runs(j, Reviewing(job[j], FALSE), "review")
        \/ Sound(j) /\ Runs(j, Works4Author(job[j]), "author")
        \/ /\ Stays
           /\ \/ Becomes(j, Requeued(job[j])) \/ Becomes(j, job[j])
              \/ Becomes(j, Requeued(HeldFor(job[j], "fix"))) \/ Becomes(j, HeldFor(job[j], "fix"))
    BY Zenon DEF StartsQueued
  <1>5. CASE Sound(j) /\ ReviewFirst(j) /\ Runs(j, Reviewing(job[j], FALSE), "review")
    <2>1. job[j].kind = "review" /\ ~Settled(job[j])
      BY <1>1, <1>5 DEF ReviewFirst, Settled
    <2>2. /\ Sane(j, Reviewing(job[j], FALSE)) /\ Leads(job[j], Reviewing(job[j], FALSE))
          /\ Reviewing(job[j], FALSE).phase = "reviewing" /\ Reviewing(job[j], FALSE).kind = "review"
          /\ Reviewing(job[j], FALSE).stage = "review"
          /\ Reviewing(job[j], FALSE).home = job[j].home
      BY <1>1, <1>2, <2>1, ReviewingIs
    <2> QED BY <1>1, <1>2, <1>3, <1>5, <2>2, RunTurn
  <1>6. CASE Sound(j) /\ Runs(j, Works4Author(job[j]), "author")
    <2>1. /\ Sane(j, Works4Author(job[j])) /\ Leads(job[j], Works4Author(job[j]))
          /\ Works4Author(job[j]).phase = "running" /\ Works4Author(job[j]).kind = job[j].kind
          /\ Works4Author(job[j]).hold = "" /\ Works4Author(job[j]).home = job[j].home
      BY <1>1, <1>2, AuthorIs
    <2> QED BY <1>1, <1>2, <1>3, <1>6, <2>1, RunTurn DEF Sound
  <1>7. ASSUME NEW K, Becomes(j, K), Stays, Sane(j, K), Leads(job[j], K), K.phase = "prepared",
               K.home = job[j].home
        PROVE  Turn(j)
    BY <1>1, <1>2, <1>7, EditTurn
  <1>8. /\ Sane(j, HeldFor(job[j], "fix")) /\ Leads(job[j], HeldFor(job[j], "fix"))
        /\ HeldFor(job[j], "fix").phase = "prepared" /\ HeldFor(job[j], "fix").home = job[j].home
        /\ HeldFor(job[j], "fix").hold = "fix" /\ HeldFor(job[j], "fix").kind = job[j].kind
    BY <1>1, <1>2, HeldIs
  <1>9. /\ Sane(j, Requeued(job[j])) /\ Leads(job[j], Requeued(job[j]))
        /\ Requeued(job[j]).phase = "prepared" /\ Requeued(job[j]).home = job[j].home
    BY <1>1, <1>2, RequeuedIs
  <1>10. LET K == Requeued(HeldFor(job[j], "fix"))
         IN  Sane(j, K) /\ Leads(job[j], K) /\ K.phase = "prepared" /\ K.home = job[j].home
    <2> DEFINE H == HeldFor(job[j], "fix")
    <2> HIDE DEF H
    <2>1. /\ Sane(j, H) /\ H.phase = "prepared" /\ H.home = job[j].home /\ H.hold = "fix"
          /\ H.kind = job[j].kind /\ Leads(job[j], H)
      BY <1>8 DEF H
    <2>2. /\ Sane(j, Requeued(H)) /\ Requeued(H).phase = "prepared" /\ Requeued(H).home = H.home
          /\ Leads(H, Requeued(H)) /\ Requeued(H).kind = H.kind
      BY <2>1, RequeuedIs
    <2>3. Leads(job[j], Requeued(H))
      BY <1>1, <2>1, <2>2 DEF Leads, Follows, StillPending, Settled
    <2> QED BY <2>1, <2>2, <2>3 DEF H
  <1>11. Leads(job[j], job[j])
    BY DEF Leads, Follows, StillPending
  <1>12. CASE /\ Stays
              /\ \/ Becomes(j, Requeued(job[j])) \/ Becomes(j, job[j])
                 \/ Becomes(j, Requeued(HeldFor(job[j], "fix"))) \/ Becomes(j, HeldFor(job[j], "fix"))
    BY <1>1, <1>2, <1>7, <1>8, <1>9, <1>10, <1>11, <1>12
  <1> QED BY <1>1, <1>4, <1>5, <1>6, <1>12

LEMMA StartNowTurn ==
    ASSUME Inv, NEW j \in Jobs, StartNow(j)
    PROVE  Turn(j) /\ Inv'
  <1>1. StartsQueued(j, FALSE) /\ Others /\ UNCHANGED <<talk, checks>>
    BY DEF StartNow
  <1>2. Turn(j) /\ job[j].phase = "prepared"
    BY <1>1, OthersAre, StartsQueuedTurn
  <1> QED BY <1>1, <1>2, OtherTurn DEF Inv, Shapes

LEMMA AskReviewTurn ==
    ASSUME Inv, NEW j \in Jobs, AskReview(j)
    PROVE  Turn(j) /\ Inv'
  <1>1. job[j].phase \in {"input", "reviewed"} /\ Others /\ UNCHANGED <<talk, checks>>
    BY DEF AskReview
  <1>2. /\ Sane(j, job[j]) /\ job[j].kind # "web" /\ ~Settled(job[j])
        /\ checks' = [checks EXCEPT ![j] = checks'[j]] /\ checks'[j] = checks[j]
    BY <1>1, JobIs DEF Sane, Settled, Inv, Shapes
  <1>3. \A i \in Jobs \ {j} : job[i].home # job[j].home
    BY <1>2, OwnAlone
  <1>4. PICK fb \in BOOLEAN : Runs(j, Reviewing(job[j], fb), "review")
    BY DEF AskReview
  <1>5. /\ Sane(j, Reviewing(job[j], fb)) /\ Leads(job[j], Reviewing(job[j], fb))
        /\ Reviewing(job[j], fb).phase = "reviewing" /\ Reviewing(job[j], fb).kind = job[j].kind
        /\ Reviewing(job[j], fb).stage = "review" /\ Reviewing(job[j], fb).home = job[j].home
    BY <1>1, <1>2, ReviewingIs
  <1>6. Turn(j)
    BY <1>1, <1>2, <1>3, <1>4, <1>5, OthersAre, RunTurn
  <1> QED BY <1>1, <1>6, OtherTurn DEF Inv, Shapes

LEMMA ApproveTurn ==
    ASSUME Inv, NEW j \in Jobs, Approve(j)
    PROVE  Turn(j) /\ Inv'
  <1>1. /\ job[j].phase = "reviewed" /\ Others /\ UNCHANGED <<talk, checks>> /\ job[j].hold = ""
        /\ Runs(j, Works4Author(job[j]), "author")
    BY DEF Approve
  <1>2. /\ Sane(j, job[j]) /\ job[j].kind # "web" /\ ~Settled(job[j])
        /\ checks' = [checks EXCEPT ![j] = checks'[j]] /\ checks'[j] = checks[j]
    BY ZenonT(40), <1>1, JobIs DEF Sane, Settled, Inv, Shapes
  <1>3. \A i \in Jobs \ {j} : job[i].home # job[j].home
    BY <1>2, OwnAlone
  <1>4. /\ Sane(j, Works4Author(job[j])) /\ Leads(job[j], Works4Author(job[j]))
        /\ Works4Author(job[j]).phase = "running" /\ Works4Author(job[j]).kind = job[j].kind
        /\ Works4Author(job[j]).home = job[j].home
    BY <1>1, <1>2, AuthorIs
  <1>5. Turn(j)
    BY <1>1, <1>2, <1>3, <1>4, OthersAre, RunTurn
  <1> QED BY <1>1, <1>5, OtherTurn DEF Inv, Shapes

LEMMA StopTurn ==
    ASSUME Inv, NEW j \in Jobs, Stop(j)
    PROVE  Turn(j) /\ Inv'
  <1>1. /\ job[j].phase \in {"reviewing", "running"} /\ Others /\ UNCHANGED <<talk, checks>>
        /\ Becomes(j, Stopped(job[j])) /\ Stays
    BY DEF Stop, Stopped
  <1>2. /\ Sane(j, Stopped(job[j])) /\ Leads(job[j], Stopped(job[j]))
        /\ Stopped(job[j]).phase = "stopping" /\ Stopped(job[j]).home = job[j].home
        /\ Stopped(job[j]).stage = job[j].stage
    BY <1>1, JobIs, StoppedIs
  <1>3. checks' = [checks EXCEPT ![j] = checks'[j]] /\ checks'[j] = checks[j]
    BY <1>1 DEF Inv, Shapes
  <1>4. Turn(j)
    BY <1>1, <1>2, <1>3, OthersAre, JobIs, EditTurn
  <1> QED BY <1>1, <1>4, OtherTurn DEF Inv, Shapes

\* resume under jobs_lock, by the user or by the loop.
LEMMA ResumesTurn ==
    ASSUME Inv, NEW j \in Jobs, Resumes(j), UNCHANGED <<sound, raced, checks>>
    PROVE  Turn(j) /\ job[j].phase = "paused"
  <1>1. /\ job[j].phase = "paused" /\ job[j].hold = "" /\ Idle(j, {}) /\ reader[j] = "none"
    BY DEF Resumes
  <1>2. \/ Sound(j) /\ Runs(j, Works4Author(job[j]), "author")
        \/ Becomes(j, HeldFor(job[j], "fix")) /\ Stays
    BY Zenon DEF Resumes
  <1>3. /\ Sane(j, job[j]) /\ checks' = [checks EXCEPT ![j] = checks'[j]] /\ checks'[j] = checks[j]
        /\ checks[j] \in {"none", "asked"} \cup Holds
    BY JobIs DEF Inv, Shapes
  <1>4. CASE Sound(j) /\ Runs(j, Works4Author(job[j]), "author")
    <2>1. /\ Sane(j, Works4Author(job[j])) /\ Leads(job[j], Works4Author(job[j]))
          /\ Works4Author(job[j]).phase = "running" /\ Works4Author(job[j]).kind = job[j].kind
          /\ Works4Author(job[j]).hold = "" /\ Works4Author(job[j]).home = job[j].home
      BY <1>1, <1>3, AuthorIs
    <2>2. \A i \in Jobs \ {j} : job[i].home = job[j].home => runner[i] = "none"
      <3>1. \A i \in Jobs \ {} : job[i].home = job[j].home => runner[i] = "none"
        BY <1>1, IdleAlone
      <3> QED BY <3>1
    <2> QED BY <1>1, <1>3, <1>4, <2>1, <2>2, RunTurn DEF Sound
  <1>5. CASE Becomes(j, HeldFor(job[j], "fix")) /\ Stays
    <2>1. /\ Sane(j, HeldFor(job[j], "fix")) /\ Leads(job[j], HeldFor(job[j], "fix"))
          /\ HeldFor(job[j], "fix").phase = "paused" /\ HeldFor(job[j], "fix").home = job[j].home
      BY <1>1, <1>3, HeldIs
    <2> QED BY <1>1, <1>3, <1>5, <2>1, EditTurn
  <1> QED BY <1>1, <1>2, <1>4, <1>5

LEMMA ResumeTurn ==
    ASSUME Inv, NEW j \in Jobs, Resume(j)
    PROVE  Turn(j) /\ Inv'
  <1>1. Resumes(j) /\ Others /\ UNCHANGED <<talk, checks>>
    BY DEF Resume
  <1>2. Turn(j) /\ job[j].phase = "paused"
    BY <1>1, OthersAre, ResumesTurn
  <1> QED BY <1>1, <1>2, OtherTurn DEF Inv, Shapes

LEMMA AskReplyTurn ==
    ASSUME Inv, NEW j \in Jobs, AskReply(j) \/ StopReply(j)
    PROVE  Turn(j) /\ Inv'
  <1>1. /\ Others /\ Stays /\ UNCHANGED <<job, checks>>
        /\ talk' = [talk EXCEPT ![j] = "queued"] \/ talk' = [talk EXCEPT ![j] = "none"]
    BY DEF AskReply, StopReply
  <1>2. Turn(j) /\ job'[j] = job[j]
    BY <1>1, OthersAre, JobIs, RestTurn DEF Stays, Inv, Shapes
  <1> QED BY <1>1, <1>2, Talks, OtherTurn

\* continue_historical.
LEMMA InPlaceTurn ==
    ASSUME Inv, NEW j \in Jobs, job[j].kind = "web", ContinuesInPlace(j),
           UNCHANGED <<sound, raced, checks>>
    PROVE  Turn(j) /\ job[j].phase # "absent"
  <1>1. job[j].hold = "" /\ reader[j] = "none" /\ job[j].phase # "absent"
    BY AbsentIs DEF ContinuesInPlace
  <1>2. \/ Sound(j) /\ Runs(j, [Works4Author(job[j]) EXCEPT !.stopped = FALSE], "author")
        \/ Becomes(j, HeldFor(job[j], "fix")) /\ Stays
    BY Zenon DEF ContinuesInPlace
  <1>3. /\ Sane(j, job[j]) /\ checks' = [checks EXCEPT ![j] = checks'[j]] /\ checks'[j] = checks[j]
        /\ checks[j] \in {"none", "asked"} \cup Holds
    BY JobIs DEF Inv, Shapes
  <1>4. CASE Sound(j) /\ Runs(j, [Works4Author(job[j]) EXCEPT !.stopped = FALSE], "author")
    <2> DEFINE K == [Works4Author(job[j]) EXCEPT !.stopped = FALSE]
    <2>1. /\ Sane(j, K) /\ Leads(job[j], K) /\ K.phase = "running" /\ K.kind = job[j].kind
          /\ K.hold = "" /\ K.home = job[j].home
      BY <1>1, <1>3, AgainIs
    <2>2. Runs(j, K, "author")
      BY <1>4
    <2> HIDE DEF K
    <2>3. \A i \in Jobs \ {j} : job[i].home # job[j].home
      BY OwnAlone
    <2> QED BY <1>1, <1>3, <1>4, <2>1, <2>2, <2>3, RunTurn DEF Sound
  <1>5. CASE Becomes(j, HeldFor(job[j], "fix")) /\ Stays
    <2>1. /\ Sane(j, HeldFor(job[j], "fix")) /\ Leads(job[j], HeldFor(job[j], "fix"))
          /\ HeldFor(job[j], "fix").phase = job[j].phase /\ HeldFor(job[j], "fix").home = job[j].home
      BY <1>3, HeldIs
    <2> QED BY <1>1, <1>3, <1>5, <2>1, EditTurn
  <1> QED BY <1>1, <1>2, <1>4, <1>5

\* A job that continues the author of s.
LEMMA ContinuationTurn ==
    ASSUME Inv, NEW s \in Jobs, NEW j \in Jobs, job[s].kind # "web", Settled(job[s]),
           Unused(j), Runs(j, Continuation(s, j), "author"), UNCHANGED <<sound, checks>>,
           raced \subseteq raced', j \in raced' \/ Idle(s, {})
    PROVE  Turn(j)
  <1> DEFINE h == job[s].home
             N == [NewJob(j) EXCEPT !.kind = "live", !.home = h]
  <1>1. /\ h \in Jobs /\ job[h].home = h /\ job[h].kind # "web" /\ Settled(job[h])
    BY JobIs DEF Inv, HomesSettled, Records
  <1>2. job[j].phase = "absent" /\ job[j].home = j /\ job[j].hold = "" /\ h # j /\ sound[j]
    BY <1>1, AbsentIs DEF Unused, Settled
  <1> DEFINE K == Continuation(s, j)
  <1>3. /\ K = Works4Author(N) /\ K \in Records /\ K.kind = "live" /\ K.home = h /\ K.phase = "running"
        /\ K.stage = "author" /\ K.hold = "" /\ ~K.review
    BY <1>1, Times DEF Continuation, Works4Author, NewJob, Records, Phases, Holds
  <1> HIDE DEF h, N, K
  <1>4. Sane(j, K) /\ Leads(job[j], K)
    BY <1>2, <1>3 DEF Sane, Leads, Follows, StillPending, Settled
  <1>5. Runs(j, K, "author")
    BY DEF K
  <1>6. j \in raced' \/ \A i \in Jobs \ {j} : job[i].home = K.home => runner[i] = "none"
    <2>1. Idle(s, {}) => \A i \in Jobs \ {} : job[i].home = job[s].home => runner[i] = "none"
      BY IdleAlone
    <2> QED BY <1>3, <2>1 DEF h
  <1>7. checks' = [checks EXCEPT ![j] = checks'[j]] /\ checks'[j] = checks[j]
    BY DEF Inv, Shapes
  <1> QED BY <1>1, <1>2, <1>3, <1>4, <1>5, <1>6, <1>7, RunTurn

\* A new job for the statement review that a stopped one leaves.
LEMMA FreshReviewTurn ==
    ASSUME Inv, NEW j \in Jobs, NEW fb \in BOOLEAN, Unused(j),
           Runs(j, Reviewing(OfKind(j, "review"), fb), "review"), UNCHANGED <<sound, raced, checks>>
    PROVE  Turn(j)
  <1> DEFINE J == OfKind(j, "review")
             K == Reviewing(J, fb)
  <1>1. /\ Sane(j, J) /\ J.kind = "review" /\ J.phase = "absent" /\ J.hold = "" /\ J.home = j
        /\ ~J.elsewhere
    BY ZenonT(40), OfKindIs
  <1>2. job[j].phase = "absent" /\ job[j].home = j /\ ~Settled(job[j])
    BY AbsentIs DEF Unused
  <1> HIDE DEF J
  <1>3. /\ Sane(j, K) /\ Leads(J, K) /\ K.phase = "reviewing" /\ K.kind = "review"
        /\ K.stage = "review" /\ K.home = j
    BY <1>1, ReviewingIs DEF Settled
  <1>4. Runs(j, K, "review")
    BY DEF J
  <1> HIDE DEF K
  <1>5. Leads(job[j], K)
    BY <1>1, <1>2, <1>3 DEF Leads, Follows, StillPending
  <1>6. \A i \in Jobs \ {j} : job[i].home # j
    BY <1>2, OwnAlone
  <1>7. checks' = [checks EXCEPT ![j] = checks'[j]] /\ checks'[j] = checks[j]
    BY DEF Inv, Shapes
  <1> QED BY <1>2, <1>3, <1>4, <1>5, <1>6, <1>7, RunTurn

LEMMA ContinueStoppedTurn ==
    ASSUME Inv, NEW s \in Jobs, ContinueStopped(s)
    PROVE  Inv' /\ \E j \in Jobs : Turn(j)
  <1>1. job[s].phase = "done" /\ Others /\ UNCHANGED <<talk, checks>>
    BY DEF ContinueStopped, Phase
  <1>2. talk' \in [Jobs -> {"none", "queued", "running", "again"}]
    BY <1>1 DEF Inv, Shapes
  <1>3. CASE job[s].kind = "web" /\ ContinuesInPlace(s)
    <2>1. Turn(s) /\ job[s].phase # "absent"
      BY <1>1, <1>3, OthersAre, InPlaceTurn
    <2> QED BY <1>1, <1>2, <2>1, OtherTurn
  <1>4. ASSUME NEW j \in Jobs, Unused(j),
               Runs(j, Reviewing([NewJob(j) EXCEPT !.kind = "review"], job[s].feedback), "review")
        PROVE  Inv' /\ Turn(j)
    <2>1. job[s].feedback \in BOOLEAN
      BY JobIs DEF Records
    <2>2. Runs(j, Reviewing(OfKind(j, "review"), job[s].feedback), "review")
      BY <1>4 DEF OfKind
    <2>3. Turn(j)
      BY <1>1, <1>4, <2>1, <2>2, OthersAre, FreshReviewTurn
    <2> QED BY <1>1, <1>2, <1>4, <2>3, OtherTurn
  <1>5. ASSUME NEW j \in Jobs, Unused(j), job[s].kind # "web", job[s].stage = "author", Idle(s, {}),
               Runs(j, Continuation(s, j), "author")
        PROVE  Inv' /\ Turn(j)
    <2>1. Settled(job[s])
      BY <1>1, <1>5 DEF Settled
    <2>2. Turn(j)
      BY <1>1, <1>5, <2>1, OthersAre, ContinuationTurn
    <2> QED BY <1>1, <1>2, <1>5, <2>2, OtherTurn
  <1>6. \/ job[s].kind = "web" /\ ContinuesInPlace(s)
        \/ \E j \in Jobs :
             /\ Unused(j)
             /\ \/ Runs(j, Reviewing([NewJob(j) EXCEPT !.kind = "review"], job[s].feedback), "review")
                \/ /\ job[s].kind # "web" /\ job[s].stage = "author" /\ Idle(s, {})
                   /\ Runs(j, Continuation(s, j), "author")
    <2>1. job[s].stage # "place"
      BY JobIs DEF Records
    <2>2. Plan(s) = "place" => job[s].kind = "web"
      BY <2>1 DEF Plan
    <2>3. Plan(s) = "author" => job[s].kind # "web" /\ job[s].stage = "author"
      BY DEF Plan
    <2> QED BY <2>2, <2>3, Zenon DEF ContinueStopped
  <1> QED BY <1>3, <1>4, <1>5, <1>6

\* The sources of saved continuations are settled when they are checked.
LEMMA SavedCheckInv ==
    ASSUME Inv, NEW s \in Jobs, SavedCheck(s)
    PROVE  Inv' /\ Turn(s)
  <1>1. /\ requests' = requests \cup {s} /\ Listed(s) /\ job[s].stage = "author"
        /\ job[s].phase # "prepared"
    BY DEF SavedCheck
  <1>2. UNCHANGED <<up, job, reader, runner, talk, checks, sound, batch, pending, raced>>
    BY DEF SavedCheck, Stays
  <1>3. RequestsSettled'
    BY <1>1, <1>2 DEF Inv, RequestsSettled, Settled, Listed
  <1>4. Shapes' /\ AllAttended' /\ HomesSettled' /\ AloneUnlessRaced'
    BY <1>2 DEF Inv, Shapes, AllAttended, HomesSettled, AloneUnlessRaced, Together
  <1>5. Orders' /\ PendingChecked'
    BY <1>2 DEF Inv, Orders, PendingChecked, Listed
  <1>6. Turn(s)
    BY <1>2, JobIs, RestTurn DEF Inv, Shapes
  <1> QED BY <1>3, <1>4, <1>5, <1>6 DEF Inv

LEMMA SavedStartTurn ==
    ASSUME Inv, NEW s \in Jobs, SavedStart(s)
    PROVE  Inv' /\ \E j \in Jobs : Turn(j)
  <1>1. /\ s \in requests /\ requests' = requests \ {s}
        /\ UNCHANGED <<up, talk, checks, sound, batch, pending>>
    BY DEF SavedStart
  <1>2. talk' \in [Jobs -> {"none", "queued", "running", "again"}]
    BY <1>1 DEF Inv, Shapes
  <1>3. Settled(job[s])
    BY <1>1 DEF Inv, RequestsSettled
  <1>4. ASSUME NEW j \in Jobs, Turn(j), Unused(j) \/ job[j].phase # "absent" \/ job'[j] = job[j]
        PROVE  Inv'
    BY <1>1, <1>2, <1>4, Present, TurnInv DEF Unused
  <1>5. CASE job[s].kind = "web" /\ ContinuesInPlace(s) /\ UNCHANGED raced
    <2>1. Turn(s) /\ job[s].phase # "absent"
      BY <1>1, <1>5, InPlaceTurn
    <2> QED BY <1>4, <2>1
  <1>6. ASSUME NEW j \in Jobs, job[s].kind # "web", Unused(j), Runs(j, Continuation(s, j), "author"),
               raced' = IF Idle(s, {}) THEN raced ELSE raced \cup {j}
        PROVE  Inv' /\ Turn(j)
    <2>1. raced \subseteq raced' /\ (j \in raced' \/ Idle(s, {}))
      BY <1>6
    <2>2. Turn(j)
      BY <1>1, <1>3, <1>6, <2>1, ContinuationTurn
    <2> QED BY <1>4, <1>6, <2>2
  <1>7. CASE UNCHANGED <<job, raced>> /\ Stays
    <2>1. Turn(s) /\ job'[s] = job[s]
      BY <1>1, <1>7, JobIs, RestTurn DEF Stays, Inv, Shapes
    <2> QED BY <1>4, <2>1
  <1>8. \/ job[s].kind = "web" /\ ContinuesInPlace(s) /\ UNCHANGED raced
        \/ \E j \in Jobs : /\ job[s].kind # "web" /\ Unused(j) /\ Runs(j, Continuation(s, j), "author")
                           /\ raced' = IF Idle(s, {}) THEN raced ELSE raced \cup {j}
        \/ UNCHANGED <<job, raced>> /\ Stays
    BY Zenon DEF SavedStart
  <1> QED BY <1>5, <1>6, <1>7, <1>8

LEMMA DeleteTurn ==
    ASSUME Inv, NEW j \in Jobs, Delete(j)
    PROVE  Inv' /\ Turn(j)
  <1>1. /\ Becomes(j, Deleted(job[j])) /\ Stays /\ Others /\ UNCHANGED <<talk, checks>>
        /\ Listed(j) /\ ~Busy(j) /\ ~job[j].elsewhere
    BY DEF Delete, Deletable, Deleted
  <1>2. reader[j] = "none" /\ job[j].phase \notin {"absent", "trash"}
    BY <1>1 DEF Busy, Listed
  <1>3. /\ Sane(j, Deleted(job[j])) /\ Leads(job[j], Deleted(job[j]))
        /\ Deleted(job[j]).phase = "trash" /\ Deleted(job[j]).home = job[j].home
    BY <1>1, <1>2, JobIs, DeletedIs
  <1>4. checks' = [checks EXCEPT ![j] = checks'[j]] /\ checks'[j] = checks[j]
    BY <1>1 DEF Inv, Shapes
  <1>5. Turn(j)
    BY <1>1, <1>2, <1>3, <1>4, OthersAre, JobIs, EditTurn
  <1> QED BY <1>1, <1>2, <1>5, OtherTurn DEF Inv, Shapes
-----------------------------------------------------------------------------
(* Runners, readers and checks *)

LEMMA RunnerEndsTurn ==
    ASSUME Inv, NEW j \in Jobs, RunnerEnds(j)
    PROVE  Inv' /\ Turn(j)
  <1>1. /\ runner' = [runner EXCEPT ![j] = "none"] /\ Others
        /\ UNCHANGED <<job, reader, talk, checks>>
    BY DEF RunnerEnds, Others
  <1>2. Turn(j) /\ job'[j] = job[j]
    BY <1>1, OthersAre, JobIs, RestTurn DEF Inv, Shapes
  <1> QED BY <1>1, <1>2, OtherTurn DEF Inv, Shapes

\* The reader of a job is done, and its record says how the work ended.
LEMMA DoneTurn ==
    ASSUME Inv, NEW j \in Jobs, NEW K, Becomes(j, K), reader' = [reader EXCEPT ![j] = "none"],
           UNCHANGED <<runner, checks, sound, raced>>,
           Sane(j, K), Leads(job[j], K), K.phase # "absent", K.home = job[j].home
    PROVE  Turn(j)
  <1>1. job' = [job EXCEPT ![j] = K]
    BY DEF Becomes
  <1>2. job'[j] = K /\ reader'[j] = "none" /\ "none" \in Works
    BY <1>1 DEF Inv, Shapes, Works
  <1>3. job[j].phase # "absent" => K.kind = job[j].kind
    BY DEF Leads, Follows
  <1>4. job[j].phase = "absent" => sound[j] /\ checks[j] \notin Holds
    BY AbsentIs
  <1>5. Attended(j, K, "none", checks[j], sound[j])
    BY <1>3, <1>4, JobIs DEF Attended
  <1>6. /\ runner[j] \in Works /\ sound[j] \in BOOLEAN /\ checks[j] \in {"none", "asked"} \cup Holds
        /\ runner = [runner EXCEPT ![j] = runner[j]] /\ sound = [sound EXCEPT ![j] = sound[j]]
        /\ checks = [checks EXCEPT ![j] = checks[j]]
    BY DEF Inv, Shapes
  <1> QED BY <1>1, <1>2, <1>5, <1>6 DEF Turn

LEMMA SettleTurn ==
    ASSUME Inv, NEW j \in Jobs, Settle(j)
    PROVE  Inv' /\ Turn(j)
  <1>1. /\ reader[j] # "none" /\ reader' = [reader EXCEPT ![j] = "none"]
        /\ UNCHANGED <<runner, checks>> /\ Others
    BY DEF Settle
  <1>2. UNCHANGED <<sound, raced>>
    BY <1>1, OthersAre
  <1>3. job[j].phase \notin {"absent", "trash"} /\ Sane(j, job[j])
    BY <1>1, JobIs
  <1>4. talk' \in [Jobs -> {"none", "queued", "running", "again"}]
    <2>1. talk' = talk \/ \E t \in {"none", "again"} : talk' = [talk EXCEPT ![j] = t]
      BY Zenon DEF Settle
    <2> QED BY <2>1 DEF Inv, Shapes
  <1>5. ASSUME NEW K, Becomes(j, K), Sane(j, K), Leads(job[j], K), K.phase # "absent",
               K.home = job[j].home
        PROVE  Turn(j)
    BY <1>1, <1>2, <1>5, DoneTurn
  <1>6. CASE reader[j] = "review" /\ SettleReview(j)
    <2>1. job[j].kind # "web" /\ job[j].stage = "review"
      BY <1>6, JobIs
    <2>2. \/ Becomes(j, Reported(job[j]))
          \/ job[j].phase = "stopping" /\ Becomes(j, Ended(job[j], "done"))
          \/ job[j].phase = "reviewing" /\ Becomes(j, FailedReview(job[j]))
      BY <1>6 DEF SettleReview, Reported, Ended
    <2>3. ASSUME Becomes(j, Reported(job[j])) PROVE Turn(j)
      <3>1. /\ Sane(j, Reported(job[j])) /\ Leads(job[j], Reported(job[j]))
            /\ Reported(job[j]).phase # "absent" /\ Reported(job[j]).home = job[j].home
        BY <1>3, <2>1, ReportedIs
      <3> QED BY <1>5, <2>3, <3>1, Zenon
    <2>4. ASSUME job[j].phase = "stopping", Becomes(j, Ended(job[j], "done")) PROVE Turn(j)
      <3>1. /\ Sane(j, Ended(job[j], "done")) /\ Leads(job[j], Ended(job[j], "done"))
            /\ Ended(job[j], "done").phase # "absent" /\ Ended(job[j], "done").home = job[j].home
        BY <1>3, <2>4, Times, EndedIs
      <3> QED BY <1>5, <2>4, <3>1, Zenon
    <2>5. ASSUME job[j].phase = "reviewing", Becomes(j, FailedReview(job[j])) PROVE Turn(j)
      <3>1. /\ Sane(j, FailedReview(job[j])) /\ Leads(job[j], FailedReview(job[j]))
            /\ FailedReview(job[j]).phase # "absent" /\ FailedReview(job[j]).home = job[j].home
        BY <1>3, <2>5, FailedReviewIs
      <3> QED BY <1>5, <2>5, <3>1, Zenon
    <2>6. Turn(j)
      BY <2>2, <2>3, <2>4, <2>5
    <2> QED BY <1>1, <1>3, <1>4, <2>6, OtherTurn
  <1>7. CASE reader[j] = "author" /\ SettleAuthor(j)
    <2>1. /\ job[j].phase \in {"stopping", "running"}
          /\ \/ Becomes(j, Ended(job[j], "done")) \/ Becomes(j, Ended(job[j], "paused"))
             \/ Becomes(j, PausedFor(job[j], Wait))
      BY <1>7 DEF SettleAuthor, Ended, PausedFor
    <2>2. \A p \in {"done", "paused"} :
            /\ Sane(j, Ended(job[j], p)) /\ Leads(job[j], Ended(job[j], p))
            /\ Ended(job[j], p).phase = p /\ Ended(job[j], p).home = job[j].home
      BY <1>3, <2>1, Times, EndedIs
    <2>3. /\ Sane(j, PausedFor(job[j], Wait)) /\ Leads(job[j], PausedFor(job[j], Wait))
          /\ PausedFor(job[j], Wait).phase = "paused" /\ PausedFor(job[j], Wait).home = job[j].home
      BY <1>3, <2>1, Times, EndedIs
    <2>4. Turn(j)
      BY <1>5, <2>1, <2>2, <2>3
    <2> QED BY <1>1, <1>3, <1>4, <2>4, OtherTurn
  <1>8. CASE UNCHANGED job
    <2>1. Turn(j) /\ job'[j] = job[j]
      BY <1>1, <1>2, <1>8, JobIs, RestTurn DEF Inv, Shapes
    <2> QED BY <1>1, <1>4, <2>1, OtherTurn
  <1> QED BY <1>6, <1>7, <1>8, Zenon DEF Settle

\* A check begins for a held web-cutoff job only.
LEMMA CheckBeginsTurn ==
    ASSUME Inv, NEW j \in Jobs, AskCheck(j) \/ CheckThread(j)
    PROVE  Inv' /\ Turn(j)
  <1>1. /\ Others /\ Stays /\ UNCHANGED <<job, talk>>
        /\ CheckBegins(j) \/ checks' = [checks EXCEPT ![j] = "none"]
    BY Zenon DEF AskCheck, CheckThread
  <1>2. /\ checks' = [checks EXCEPT ![j] = checks'[j]]
        /\ checks'[j] = "none" \/ (checks'[j] \in Holds /\ job[j].kind = "web")
    <2>1. CASE CheckBegins(j)
      BY <2>1, JobIs DEF CheckBegins, Inv, Shapes, Records
    <2>2. CASE checks' = [checks EXCEPT ![j] = "none"]
      BY <2>2 DEF Inv, Shapes
    <2> QED BY <1>1, <2>1, <2>2
  <1>3. Turn(j) /\ job'[j] = job[j]
    <2>1. UNCHANGED <<reader, runner, sound, raced>>
      BY <1>1, OthersAre DEF Stays
    <2>2. "none" \notin Holds
      BY DEF Holds
    <2> QED BY <1>1, <1>2, <2>1, <2>2, JobIs, RestTurn DEF Inv, Shapes
  <1> QED BY <1>1, <1>3, OtherTurn DEF Inv, Shapes

LEMMA DamageTurn ==
    ASSUME Inv, NEW j \in Jobs, Damage(j) \/ Mend(j)
    PROVE  Inv' /\ Turn(j)
  <1>1. /\ UNCHANGED <<up, job, reader, runner, talk, checks, server>>
        /\ \/ sound' = [sound EXCEPT ![j] = TRUE]
           \/ sound' = [sound EXCEPT ![j] = FALSE] /\ job[j].kind = "web"
    BY DEF Damage, Mend
  <1>2. UNCHANGED <<batch, pending, requests, raced>>
    BY <1>1 DEF server
  <1>3. Turn(j) /\ job'[j] = job[j]
    BY <1>1, <1>2, JobIs, RestTurn DEF Inv, Shapes
  <1> QED BY <1>1, <1>2, <1>3, TurnInv DEF Inv, Shapes

LEMMA CheckEndsTurn ==
    ASSUME Inv, NEW j \in Jobs, CheckEnds(j)
    PROVE  Inv' /\ Turn(j)
  <1>1. /\ Checking(j) /\ checks' = [checks EXCEPT ![j] = "none"] /\ UNCHANGED talk /\ Others
    BY DEF CheckEnds
  <1>2. UNCHANGED <<sound, raced>> /\ talk' \in [Jobs -> {"none", "queued", "running", "again"}]
    BY <1>1, OthersAre DEF Inv, Shapes
  <1>3. job[j].kind = "web" /\ Sane(j, job[j]) /\ job[j].phase # "absent"
    BY <1>1, JobIs, AbsentIs DEF Checking
  <1>4. /\ checks' = [checks EXCEPT ![j] = checks'[j]] /\ checks'[j] = "none" /\ "none" \notin Holds
    BY <1>1 DEF Inv, Shapes, Holds
  <1>5. \A i \in Jobs \ {j} : job[i].home # job[j].home
    BY <1>3, OwnAlone
  <1> DEFINE J == Released(job[j])
             W == Works4Author(J)
  <1>6. /\ Sane(j, J) /\ Leads(job[j], J) /\ J.hold = "" /\ J.phase = job[j].phase
        /\ J.kind = "web" /\ J.home = job[j].home
    BY <1>3, ReleasedIs
  <1>7. CASE UNCHANGED job /\ Stays
    <2>1. UNCHANGED <<reader, runner, job>>
      BY <1>7 DEF Stays
    <2>2. Turn(j) /\ job'[j] = job[j]
      BY <1>2, <1>4, <2>1, JobIs, RestTurn DEF Inv, Shapes
    <2> QED BY <1>1, <1>2, <2>2, OtherTurn
  <1>8. ASSUME NEW K, Unchanged(j), Becomes(j, K), Stays, Sane(j, K), Leads(job[j], K),
               K.phase = job[j].phase, K.home = job[j].home
        PROVE  Inv' /\ Turn(j)
    <2>1. reader[j] = "none"
      BY <1>3, <1>8 DEF Unchanged, Busy, Listed
    <2>2. Turn(j)
      BY <1>2, <1>3, <1>4, <1>8, <2>1, EditTurn
    <2> QED BY <1>1, <1>2, <1>3, <2>2, OtherTurn
  <1>9. CASE Sound(j) /\ Runs(j, W, "author")
    <2>1. /\ Sane(j, W) /\ Leads(J, W) /\ W.phase = "running" /\ W.kind = "web" /\ W.hold = ""
          /\ W.home = job[j].home
      BY <1>6, AuthorIs
    <2> HIDE DEF W
    <2>2. Leads(job[j], W)
      BY <1>6, <2>1 DEF Leads, Follows, StillPending
    <2>3. Turn(j)
      BY ZenonT(40), <1>2, <1>3, <1>4, <1>5, <1>9, <2>1, <2>2, RunTurn DEF Sound
    <2> QED BY <1>1, <1>2, <1>3, <2>3, OtherTurn
  <1>10. \A c \in {"fix", "retry"} :
           /\ Sane(j, HeldFor(job[j], c)) /\ Leads(job[j], HeldFor(job[j], c))
           /\ HeldFor(job[j], c).phase = job[j].phase /\ HeldFor(job[j], c).home = job[j].home
    BY <1>3, HeldIs
  <1>11. \A c \in {"fix", "retry"} :
           /\ Sane(j, HeldFor(J, c)) /\ Leads(job[j], HeldFor(J, c))
           /\ HeldFor(J, c).phase = job[j].phase /\ HeldFor(J, c).home = job[j].home
    <2> SUFFICES ASSUME NEW c \in {"fix", "retry"}
                 PROVE  /\ Sane(j, HeldFor(J, c)) /\ Leads(job[j], HeldFor(J, c))
                        /\ HeldFor(J, c).phase = job[j].phase /\ HeldFor(J, c).home = job[j].home
      OBVIOUS
    <2> HIDE DEF J
    <2>1. /\ Sane(j, HeldFor(J, c)) /\ Leads(J, HeldFor(J, c)) /\ HeldFor(J, c).phase = J.phase
          /\ HeldFor(J, c).home = J.home /\ HeldFor(J, c).hold = c
      BY <1>6, HeldIs
    <2> QED BY <1>6, <2>1 DEF Leads, Follows, StillPending
  <1>12. \/ UNCHANGED job /\ Stays
         \/ Sound(j) /\ Runs(j, W, "author")
         \/ Unchanged(j) /\ Stays /\ Becomes(j, J)
         \/ Unchanged(j) /\ Stays /\ \E c \in {"fix", "retry"} :
              Becomes(j, HeldFor(job[j], c)) \/ Becomes(j, HeldFor(J, c))
    <2>1. ASSUME ReleasedStart(j), Unchanged(j)
          PROVE  \/ Sound(j) /\ Runs(j, W, "author")
                 \/ Stays /\ Becomes(j, J)
                 \/ Stays /\ \E c \in {"fix", "retry"} : Becomes(j, HeldFor(J, c))
      BY <2>1, Zenon DEF ReleasedStart
    <2> QED BY <2>1, Zenon DEF CheckEnds
  <1> HIDE DEF J, W
  <1> QED BY <1>6, <1>7, <1>8, <1>9, <1>10, <1>11, <1>12
-----------------------------------------------------------------------------
(* The loop *)

\* A step that leaves the jobs and what works for them alone.
LEMMA RestInv ==
    ASSUME Inv, UNCHANGED <<up, job, reader, runner, talk, checks, sound, pending, requests, raced>>,
           batch' = batch \/ (batch.at # "create" /\ batch' = NoBatch)
    PROVE  Inv' /\ NoneStarts
  <1>1. Shapes' /\ AllAttended' /\ HomesSettled' /\ RequestsSettled' /\ AloneUnlessRaced'
    BY DEF Inv, Shapes, AllAttended, HomesSettled, RequestsSettled, AloneUnlessRaced, Together
  <1>2. Orders' /\ PendingChecked'
    BY DEF Inv, Orders, PendingChecked, Listed, NoBatch
  <1>3. NoneStarts
    BY DEF NoneStarts
  <1> QED BY <1>1, <1>2, <1>3 DEF Inv

LEMMA PassInv ==
    ASSUME Inv, PassBegins \/ PassEnds \/ BatchEnds
    PROVE  Inv' /\ NoneStarts
  <1>1. UNCHANGED <<up, job, reader, runner, talk, checks, sound, pending, requests, raced>>
    BY DEF PassBegins, PassEnds, BatchEnds, LoopKeeps, BatchKeeps, Stays
  <1>2. batch' = batch \/ (batch.at # "create" /\ batch' = NoBatch)
    BY DEF PassBegins, PassEnds, BatchEnds, LoopKeeps
  <1> QED BY <1>1, <1>2, RestInv

LEMMA DueIs ==
    ASSUME Inv, NEW j \in Jobs, DueNow(j)
    PROVE  reader[j] = "none" /\ Listed(j) /\ ~job[j].elsewhere
  <1>1. ~(Never <= 0)
    BY LaunchConstants DEF Never
  <1> QED BY <1>1, Zenon DEF DueNow, DueAt

LEMMA VisitTurn ==
    ASSUME Inv, NEW j \in Jobs, Visit(j)
    PROVE  Inv' /\ Turn(j)
  <1>1. /\ UNCHANGED <<up, sound, batch, pending, requests, raced>>
        /\ reader[j] = "none" /\ job[j].phase \notin {"absent", "trash"}
    BY DueIs DEF Visit, LoopKeeps, Listed
  <1>2. Sane(j, job[j])
    BY JobIs
  <1>3. ASSUME Turn(j), talk' \in [Jobs -> {"none", "queued", "running", "again"}]
        PROVE  Inv' /\ Turn(j)
    BY <1>1, <1>3, Present, TurnInv
  <1>4. checks' = checks => checks' = [checks EXCEPT ![j] = checks'[j]] /\ checks'[j] = checks[j]
    BY DEF Inv, Shapes
  <1>5. talk' = talk => talk' \in [Jobs -> {"none", "queued", "running", "again"}]
    BY DEF Inv, Shapes
  <1>6. Wait \in Late .. Never /\ Wait # Never
    BY Times
  <1>7. ASSUME Becomes(j, DueIn(job[j], Wait)), Stays, UNCHANGED <<talk, checks>>
        PROVE  Inv' /\ Turn(j)
    <2>1. /\ Sane(j, DueIn(job[j], Wait)) /\ Leads(job[j], DueIn(job[j], Wait))
          /\ DueIn(job[j], Wait).phase = job[j].phase /\ DueIn(job[j], Wait).home = job[j].home
      BY <1>2, <1>6, DueInIs
    <2>2. Turn(j)
      BY <1>1, <1>4, <1>7, <2>1, JobIs, EditTurn
    <2> QED BY <1>3, <1>5, <1>7, <2>2
  <1>8. CASE RetriesPaused(j) /\ UNCHANGED checks
    <2>1. \/ UNCHANGED job /\ Stays /\ (talk' = talk \/ talk' = [talk EXCEPT ![j] = "none"])
          \/ Resumes(j) /\ UNCHANGED talk
          \/ Becomes(j, DueIn(job[j], Wait)) /\ Stays /\ UNCHANGED talk
      BY <1>8, Zenon DEF RetriesPaused, DueIn
    <2>2. CASE UNCHANGED job /\ Stays /\ (talk' = talk \/ talk' = [talk EXCEPT ![j] = "none"])
      <3>1. UNCHANGED <<reader, runner>>
        BY <2>2 DEF Stays
      <3>2. Turn(j)
        BY <1>1, <1>4, <1>8, <2>2, <3>1, JobIs, RestTurn DEF Inv, Shapes
      <3> QED BY <1>3, <1>5, <2>2, <3>2, Talks
    <2>3. CASE Resumes(j) /\ UNCHANGED talk
      BY <1>1, <1>3, <1>5, <1>8, <2>3, ResumesTurn
    <2> QED BY <1>7, <1>8, <2>1, <2>2, <2>3
  <1>9. CASE StartsDue(j) /\ UNCHANGED <<talk, checks>>
    BY <1>1, <1>3, <1>5, <1>9, StartsQueuedTurn DEF StartsDue
  <1>10. CASE RetriesReview(j) /\ UNCHANGED <<talk, checks>>
    <2>1. /\ job[j].phase \in {"input", "reviewed"}
          /\ \/ Runs(j, Reviewing(job[j], job[j].feedback), "review")
             \/ Becomes(j, DueIn(job[j], Wait)) /\ Stays
      BY <1>10, Zenon DEF RetriesReview, DueIn
    <2>2. CASE Runs(j, Reviewing(job[j], job[j].feedback), "review")
      <3> DEFINE K == Reviewing(job[j], job[j].feedback)
      <3>1. job[j].feedback \in BOOLEAN /\ job[j].kind # "web" /\ ~Settled(job[j])
        BY <1>2, <2>1 DEF Sane, Records, Settled
      <3>2. /\ Sane(j, K) /\ Leads(job[j], K) /\ K.phase = "reviewing" /\ K.kind = job[j].kind
            /\ K.stage = "review" /\ K.home = job[j].home
        BY <1>1, <1>2, <3>1, ReviewingIs
      <3>3. Runs(j, K, "review")
        BY <2>2
      <3> HIDE DEF K
      <3>4. \A i \in Jobs \ {j} : job[i].home # job[j].home
        BY <3>1, OwnAlone
      <3>5. Turn(j)
        BY ZenonT(40), <1>1, <1>4, <1>10, <3>1, <3>2, <3>3, <3>4, RunTurn
      <3> QED BY <1>3, <1>5, <1>10, <3>5
    <2> QED BY <1>7, <1>10, <2>1, <2>2
  <1>11. CASE StartsCheck(j)
    <2>1. /\ Becomes(j, CheckIn(job[j], Wait)) /\ Stays /\ UNCHANGED talk
          /\ checks' = [checks EXCEPT ![j] = "asked"]
      BY <1>11 DEF StartsCheck, CheckIn
    <2>2. /\ Sane(j, CheckIn(job[j], Wait)) /\ Leads(job[j], CheckIn(job[j], Wait))
          /\ CheckIn(job[j], Wait).phase = job[j].phase /\ CheckIn(job[j], Wait).home = job[j].home
      BY <1>2, <1>6, CheckInIs
    <2>3. checks' = [checks EXCEPT ![j] = checks'[j]] /\ checks'[j] = "asked" /\ "asked" \notin Holds
      BY <2>1 DEF Inv, Shapes, Holds
    <2>4. Turn(j)
      BY <1>1, <2>1, <2>2, <2>3, EditTurn
    <2> QED BY <1>3, <1>5, <2>1, <2>4
  <1> QED BY <1>8, <1>9, <1>10, <1>11, Zenon DEF Visit

LEMMA StartReplyTurn ==
    ASSUME Inv, NEW j \in Jobs, StartReply(j)
    PROVE  Inv' /\ Turn(j)
  <1>1. /\ UNCHANGED <<up, checks, sound, server>> /\ job[j].phase = "paused" /\ reader[j] = "none"
    BY DEF StartReply, ReplyDue
  <1>2. UNCHANGED <<batch, pending, requests, raced>>
    BY <1>1 DEF server
  <1>3. Sane(j, job[j]) /\ Leads(job[j], job[j])
    BY JobIs DEF Leads, Follows, StillPending
  <1>4. checks' = [checks EXCEPT ![j] = checks'[j]] /\ checks'[j] = checks[j]
        /\ checks'[j] \in {"none", "asked"} \cup Holds
    BY <1>1 DEF Inv, Shapes
  <1>5. ASSUME Turn(j), NEW t \in {"none", "running"}, talk' = [talk EXCEPT ![j] = t]
        PROVE  Inv' /\ Turn(j)
    <2>1. talk' \in [Jobs -> {"none", "queued", "running", "again"}]
      BY <1>5, Talks
    <2> QED BY <1>1, <1>2, <1>5, <2>1, Present, TurnInv
  <1>6. CASE talk' = [talk EXCEPT ![j] = "none"] /\ Stays /\ UNCHANGED job
    <2>1. UNCHANGED <<reader, runner>>
      BY <1>6 DEF Stays
    <2>2. Turn(j)
      BY <1>1, <1>2, <1>4, <1>6, <2>1, JobIs, RestTurn DEF Inv, Shapes
    <2> QED BY <1>5, <1>6, <2>2
  <1>7. CASE talk' = [talk EXCEPT ![j] = "none"] /\ Stays /\ Becomes(j, HeldFor(job[j], "fix"))
    <2>1. /\ Sane(j, HeldFor(job[j], "fix")) /\ Leads(job[j], HeldFor(job[j], "fix"))
          /\ HeldFor(job[j], "fix").phase = "paused" /\ HeldFor(job[j], "fix").home = job[j].home
      BY <1>1, <1>3, HeldIs
    <2>2. Turn(j)
      BY <1>1, <1>2, <1>4, <1>7, <2>1, EditTurn
    <2> QED BY <1>5, <1>7, <2>2
  <1>8. CASE /\ talk' = [talk EXCEPT ![j] = "running"] /\ Runs(j, job[j], "reply")
             /\ Idle(j, {j}) /\ job[j].hold = "" /\ Sound(j)
    <2>1. \A i \in Jobs \ {j} : job[i].home = job[j].home => runner[i] = "none"
      BY <1>8, IdleAlone
    <2>2. Turn(j)
      BY <1>1, <1>2, <1>3, <1>4, <1>8, <2>1, RunTurn DEF Sound
    <2> QED BY <1>5, <1>8, <2>2
  <1> QED BY <1>6, <1>7, <1>8, Zenon DEF StartReply

\* A pending request becomes a queued job.
QueuedJob(j, k) == [NewJob(j) EXCEPT !.kind = k, !.phase = "prepared", !.queued = TRUE, !.due = 0]

LEMMA QueuedJobIs ==
    ASSUME NEW j \in Jobs, NEW k \in {"live", "review", "web"}
    PROVE  /\ Sane(j, QueuedJob(j, k)) /\ QueuedJob(j, k).phase = "prepared"
           /\ QueuedJob(j, k).home = j /\ QueuedJob(j, k).hold = ""
  BY Times DEF QueuedJob, NewJob, Sane, Records, Phases, Holds, Settled

LEMMA CreatePendingInv ==
    ASSUME Inv, NEW p \in pending, CreatePending(p)
    PROVE  Inv' /\ \E j \in Jobs : Turn(j)
  <1> DEFINE j == p.job
  <1>1. /\ j \in Jobs \ batch.todo /\ p.kind \in {"live", "review", "web"} /\ job[j].phase = "absent"
        /\ p = [job |-> p.job, kind |-> p.kind, due |-> p.due]
        /\ \A q \in pending : q.job = j => q = p
    BY DEF Inv, Orders
  <1>2. /\ Stays /\ UNCHANGED <<up, talk, checks, sound, batch, requests, raced>>
    BY DEF CreatePending
  <1>3. UNCHANGED <<reader, runner>> /\ j \in Jobs
    BY <1>1, <1>2 DEF Stays
  <1>4. /\ checks' = [checks EXCEPT ![j] = checks'[j]] /\ checks'[j] = checks[j]
        /\ checks'[j] \in {"none", "asked"} \cup Holds
        /\ talk' \in [Jobs -> {"none", "queued", "running", "again"}]
    BY <1>1, <1>2 DEF Inv, Shapes
  <1>5. ASSUME Turn(j), Orders' PROVE Inv' /\ Turn(j)
    <2>1. PendingChecked'
      BY <1>1, <1>2, <1>5, TurnPending
    <2> QED BY <1>1, <1>2, <1>4, <1>5, <2>1, TurnOrders DEF Inv, Shapes
  <1>6. CASE Becomes(j, QueuedJob(j, p.kind)) /\ pending' = pending \ {p}
    <2> DEFINE K == QueuedJob(j, p.kind)
    <2>1. Sane(j, K) /\ K.phase = "prepared" /\ K.home = j /\ K.hold = ""
      BY ZenonT(40), <1>1, QueuedJobIs
    <2>2. Becomes(j, K)
      BY <1>6
    <2> HIDE DEF K
    <2>3. job[j].home = j /\ reader[j] = "none"
      BY <1>1, AbsentIs
    <2>4. Leads(job[j], K)
      BY <1>1, <2>1 DEF Leads, Follows, StillPending
    <2> HIDE DEF j
    <2>5. Turn(j) /\ job'[j] = K
      BY ZenonT(40), <1>2, <1>3, <1>4, <2>1, <2>2, <2>3, <2>4, EditTurn
    <2>6. \A i \in Jobs \ {j} : job'[i] = job[i]
      BY <1>3, <2>5, TurnShapes
    <2>7. Orders'
      <3>1. \A i \in batch.todo : job'[i].phase = "absent"
        BY <1>1, <2>6 DEF Inv, Orders
      <3>2. \A i \in batch.made : job'[i].phase # "absent" /\ job'[i].kind = batch.kind
        BY <1>1, <2>6 DEF Inv, Orders
      <3>3. \A q \in pending' : q \in pending /\ q.job # j
        BY <1>1, <1>6
      <3>4. \A q \in pending' : job'[q.job].phase = "absent"
        BY <2>6, <3>3 DEF Inv, Orders
      <3> HIDE DEF j
      <3> QED BY <1>2, <3>1, <3>2, <3>3, <3>4 DEF Inv, Orders
    <2> QED BY <1>1, <1>5, <2>5, <2>7
  <1>7. CASE pending' = (pending \ {p}) \cup {[p EXCEPT !.due = Wait]} /\ UNCHANGED job
    <2>1. Turn(j)
      BY <1>1, <1>2, <1>3, <1>4, <1>7, JobIs, RestTurn DEF Inv, Shapes
    <2> DEFINE r == [p EXCEPT !.due = Wait]
    <2>2. r = [job |-> p.job, kind |-> p.kind, due |-> Wait]
      <3>1. [[job |-> p.job, kind |-> p.kind, due |-> p.due] EXCEPT !.due = Wait]
            = [job |-> p.job, kind |-> p.kind, due |-> Wait]
        OBVIOUS
      <3> QED BY <1>1, <3>1, Zenon
    <2>3. r = [job |-> r.job, kind |-> r.kind, due |-> r.due] /\ r.job = p.job /\ r.kind = p.kind
      BY <2>2
    <2>4. \A q \in pending' : (q \in pending /\ q # p) \/ q = r
      BY <1>7
    <2> HIDE DEF r
    <2>5. Orders'
      BY <1>1, <1>2, <1>7, <2>3, <2>4 DEF Inv, Orders
    <2> QED BY <1>1, <1>5, <2>1, <2>5
  <1>8. \/ Becomes(j, QueuedJob(j, p.kind)) /\ pending' = pending \ {p}
        \/ pending' = (pending \ {p}) \cup {[p EXCEPT !.due = Wait]} /\ UNCHANGED job
    BY Zenon DEF CreatePending, QueuedJob
  <1> QED BY <1>3, <1>6, <1>7, <1>8

LEMMA TickInv ==
    ASSUME Inv, Tick
    PROVE  Inv' /\ NoneStarts
  <1>1. /\ UNCHANGED <<up, reader, runner, talk, checks, sound, batch, requests, raced>>
        /\ job' = [j \in Jobs |-> Later(job[j], Sooner(job[j].due), Sooner(job[j].check))]
        /\ pending' = {[p EXCEPT !.due = IF @ > 0 THEN @ - 1 ELSE @] : p \in pending}
    BY DEF Tick, Stays, Later
  <1>2. \A t \in Late .. Never : Sooner(t) \in Late .. Never /\ (Sooner(t) = Never <=> t = Never)
    BY LaunchConstants DEF Sooner, Late, Never
  <1>3. \A j \in Jobs :
          LET K == job'[j] IN
          /\ Sane(j, K) /\ Leads(job[j], K) /\ K.home = job[j].home /\ K.phase = job[j].phase
          /\ K.kind = job[j].kind /\ K.stage = job[j].stage /\ K.hold = job[j].hold
          /\ K.elsewhere = job[j].elsewhere /\ (K.check = Never <=> job[j].check = Never)
          /\ K.phase = "absent" => K = NewJob(j)
    <2> SUFFICES ASSUME NEW j \in Jobs
                 PROVE  LET K == job'[j] IN
                        /\ Sane(j, K) /\ Leads(job[j], K) /\ K.home = job[j].home
                        /\ K.phase = job[j].phase /\ K.kind = job[j].kind /\ K.stage = job[j].stage
                        /\ K.hold = job[j].hold /\ K.elsewhere = job[j].elsewhere
                        /\ (K.check = Never <=> job[j].check = Never)
                        /\ K.phase = "absent" => K = NewJob(j)
      OBVIOUS
    <2> DEFINE J == job[j]
               d == Sooner(J.due)
               c == Sooner(J.check)
    <2>1. Sane(j, J) /\ J.due \in Late .. Never /\ J.check \in Late .. Never
      BY JobIs DEF Records
    <2>2. d \in Late .. Never /\ c \in Late .. Never /\ (c = Never <=> J.check = Never)
      BY <1>2, <2>1
    <2>3. job'[j] = Later(J, d, c)
      BY <1>1
    <2>4. J.phase = "absent" => Later(J, d, c) = NewJob(j)
      <3> SUFFICES ASSUME J.phase = "absent" PROVE Later(J, d, c) = NewJob(j)
        OBVIOUS
      <3>1. J = NewJob(j)
        BY AbsentIs
      <3>2. NewJob(j).due = Never /\ NewJob(j).check = Never
        BY DEF NewJob
      <3>3. Sooner(Never) = Never
        BY DEF Sooner
      <3>4. d = Never /\ c = Never
        BY <3>1, <3>2, <3>3, Zenon
      <3>5. ASSUME NEW N, N \in Records, N.due = Never, N.check = Never
            PROVE  Later(N, Never, Never) = N
        BY <3>5 DEF Later, Records
      <3>6. NewJob(j) \in Records
        BY NewIs DEF Sane
      <3> HIDE DEF J, d, c
      <3> QED BY <3>1, <3>2, <3>4, <3>5, <3>6, Zenon
    <2> HIDE DEF J, d, c
    <2>5. LET K == Later(J, d, c) IN
          /\ Sane(j, K) /\ Leads(J, K) /\ K.home = J.home /\ K.phase = J.phase
          /\ K.kind = J.kind /\ K.stage = J.stage /\ K.hold = J.hold
          /\ K.elsewhere = J.elsewhere /\ (K.check = Never <=> J.check = Never)
      BY <2>1, <2>2, LaterIs
    <2>6. job[j] = J
      BY DEF J
    <2> QED BY <2>3, <2>4, <2>5, <2>6, Zenon
  <1>4. Shapes' /\ AllAttended'
    <2>1. job' \in [Jobs -> Records]
      BY <1>1, <1>3 DEF Sane
    <2> QED BY <1>1, <1>3, <2>1 DEF Inv, Shapes, AllAttended, Attended
  <1>5. NoneStarts
    BY <1>1 DEF NoneStarts
  <1>6. HomesSettled' /\ RequestsSettled' /\ AloneUnlessRaced'
    BY <1>1, <1>3, <1>5, SweepKeeps DEF Leads
  <1>7. PendingChecked'
    BY <1>1, <1>3 DEF Inv, PendingChecked, Listed
  <1>8. Orders'
    <2>1. \A p \in pending : p = [job |-> p.job, kind |-> p.kind, due |-> p.due]
      BY DEF Inv, Orders
    <2> DEFINE Aged(p) == [p EXCEPT !.due = IF @ > 0 THEN @ - 1 ELSE @]
    <2>2. \A p \in pending : /\ Aged(p) = [job |-> Aged(p).job, kind |-> Aged(p).kind, due |-> Aged(p).due]
                             /\ Aged(p).job = p.job /\ Aged(p).kind = p.kind
      BY <2>1
    <2>3. \A q \in pending' : \E p \in pending : q = Aged(p)
      BY <1>1
    <2> HIDE DEF Aged
    <2>4. \A p, q \in pending' : p.job = q.job => p = q
      BY <2>2, <2>3 DEF Inv, Orders
    <2> QED BY <1>1, <1>3, <2>2, <2>3, <2>4 DEF Inv, Orders
  <1> QED BY <1>4, <1>5, <1>6, <1>7, <1>8 DEF Inv
-----------------------------------------------------------------------------
(* A batch *)

LEMMA BatchBeginsInv ==
    ASSUME Inv, BatchBegins
    PROVE  Inv' /\ NoneStarts
  <1>1. /\ UNCHANGED <<up, job, reader, runner, talk, checks, sound, pending, requests, raced>>
        /\ batch.at = "none"
    BY DEF BatchBegins, BatchKeeps, Stays
  <1>2. PICK k \in Kinds, new \in SUBSET {j \in Jobs : job[j].phase = "absent"} :
          /\ \A p \in pending : p.job \notin new
          /\ batch' = [NoBatch EXCEPT !.at = "create", !.kind = k, !.todo = new]
    BY DEF BatchBegins
  <1>3. /\ batch' = [at |-> "create", kind |-> k, todo |-> new, made |-> {}, free |-> 0]
        /\ k \in {"live", "review", "web"}
    BY <1>2, LaunchConstants DEF NoBatch
  <1>4. Shapes' /\ AllAttended' /\ HomesSettled' /\ RequestsSettled' /\ AloneUnlessRaced'
    BY <1>1 DEF Inv, Shapes, AllAttended, HomesSettled, RequestsSettled, AloneUnlessRaced, Together
  <1>5. Orders'
    <2>1. /\ batch'.at = "create" /\ batch'.kind = k /\ batch'.todo = new /\ batch'.made = {}
          /\ batch' = [at |-> batch'.at, kind |-> batch'.kind, todo |-> batch'.todo,
                       made |-> batch'.made, free |-> batch'.free]
      BY <1>3
    <2>2. new \subseteq Jobs /\ \A j \in new : job[j].phase = "absent"
      OBVIOUS
    <2> QED BY <1>1, <1>2, <1>3, <2>1, <2>2 DEF Inv, Orders
  <1>6. PendingChecked'
    BY <1>1 DEF Inv, PendingChecked, Listed
  <1>7. NoneStarts
    BY <1>1 DEF NoneStarts
  <1> QED BY <1>4, <1>5, <1>6, <1>7 DEF Inv

LEMMA CreatedIs ==
    ASSUME NEW j \in Jobs, NEW k \in {"live", "review", "web"}
    PROVE  /\ Sane(j, Created(j, k)) /\ Created(j, k).phase = "prepared"
           /\ Created(j, k).home = j /\ Created(j, k).kind = k
  BY Times DEF Created, NewJob, Sane, Records, Phases, Holds, Settled

LEMMA BatchCreatesInv ==
    ASSUME Inv, NEW j \in Jobs, BatchCreates(j)
    PROVE  Inv' /\ NoneStarts
  <1>1. /\ UNCHANGED <<up, reader, runner, talk, checks, sound, requests, raced>>
        /\ batch.at = "create" /\ j \in batch.todo
    BY DEF BatchCreates, BatchKeeps, Stays
  <1>2. job[j].phase = "absent" /\ batch.kind \in {"live", "review", "web"}
    BY <1>1 DEF Inv, Orders
  <1>3. NoneStarts
    BY <1>1 DEF NoneStarts
  <1>4. batch = [at |-> batch.at, kind |-> batch.kind, todo |-> batch.todo, made |-> batch.made,
                 free |-> batch.free]
    BY DEF Inv, Orders
  <1>5. CASE /\ Becomes(j, Created(j, batch.kind)) /\ UNCHANGED pending
             /\ batch' = [batch EXCEPT !.todo = @ \ {j}, !.made = @ \cup {j}]
    <2> DEFINE K == Created(j, batch.kind)
    <2>1. Sane(j, K) /\ K.phase = "prepared" /\ K.home = j /\ K.kind = batch.kind
      BY <1>2, CreatedIs
    <2>2. job' = [job EXCEPT ![j] = K]
      BY <1>5 DEF Becomes
    <2> HIDE DEF K
    <2>3. /\ job' \in [Jobs -> Records] /\ job'[j] = K
          /\ \A i \in Jobs \ {j} : job'[i] = job[i]
      BY <2>1, <2>2 DEF Inv, Shapes, Sane
    <2>4. /\ batch'.at = batch.at /\ batch'.kind = batch.kind /\ batch'.todo = batch.todo \ {j}
          /\ batch'.made = batch.made \cup {j}
          /\ batch' = [at |-> batch'.at, kind |-> batch'.kind, todo |-> batch'.todo,
                       made |-> batch'.made, free |-> batch'.free]
      BY <1>4, <1>5
    <2>5. Shapes'
      BY <1>1, <2>3 DEF Inv, Shapes
    <2>6. /\ job[j].home = j /\ sound[j] /\ checks[j] \notin Holds /\ reader[j] = "none"
      BY <1>2, AbsentIs
    <2>7. AllAttended'
      BY <1>1, <2>1, <2>3, <2>6 DEF Inv, AllAttended, Attended
    <2>8. \A i \in Jobs : Follows(job[i], job'[i]) /\ job'[i].home = job[i].home
      BY <1>2, <2>1, <2>3, <2>6 DEF Follows
    <2>9. HomesSettled' /\ RequestsSettled' /\ AloneUnlessRaced'
      BY <1>1, <1>3, <2>8, SweepKeeps
    <2>10. Orders'
      <3>1. \A i \in batch'.todo : job'[i].phase = "absent"
        BY <2>3, <2>4 DEF Inv, Orders
      <3>2. \A i \in batch'.made : job'[i].phase # "absent" /\ job'[i].kind = batch'.kind
        BY <2>1, <2>3, <2>4 DEF Inv, Orders
      <3>3. \A p \in pending : p.job # j /\ p.job \in Jobs
        BY <1>1 DEF Inv, Orders
      <3> QED BY <1>1, <1>5, <2>3, <2>4, <3>1, <3>2, <3>3 DEF Inv, Orders
    <2>11. PendingChecked'
      BY <1>1, <2>3, <2>4 DEF Inv, PendingChecked, Listed
    <2> QED BY <1>3, <2>5, <2>7, <2>9, <2>10, <2>11 DEF Inv
  <1>6. CASE /\ UNCHANGED job /\ batch' = [batch EXCEPT !.todo = @ \ {j}]
             /\ pending' = pending \cup {[job |-> j, kind |-> batch.kind, due |-> Wait]}
    <2>1. /\ batch'.at = batch.at /\ batch'.kind = batch.kind /\ batch'.todo = batch.todo \ {j}
          /\ batch'.made = batch.made
          /\ batch' = [at |-> batch'.at, kind |-> batch'.kind, todo |-> batch'.todo,
                       made |-> batch'.made, free |-> batch'.free]
      BY <1>4, <1>6
    <2>2. Shapes' /\ AllAttended' /\ HomesSettled' /\ RequestsSettled' /\ AloneUnlessRaced'
      BY <1>1, <1>6 DEF Inv, Shapes, AllAttended, HomesSettled, RequestsSettled, AloneUnlessRaced, Together
    <2>3. PendingChecked'
      BY <1>1, <1>6, <2>1 DEF Inv, PendingChecked, Listed
    <2> DEFINE r == [job |-> j, kind |-> batch.kind, due |-> Wait]
    <2>4. r.job = j /\ r.kind = batch.kind /\ r = [job |-> r.job, kind |-> r.kind, due |-> r.due]
      OBVIOUS
    <2>5. \A p \in pending' : p \in pending \/ p = r
      BY <1>6
    <2> HIDE DEF r
    <2>6. \A p \in pending : p.job # j
      BY <1>1 DEF Inv, Orders
    <2>7. Orders'
      BY <1>1, <1>2, <1>6, <2>1, <2>4, <2>5, <2>6 DEF Inv, Orders
    <2> QED BY <1>3, <2>2, <2>3, <2>7 DEF Inv
  <1> QED BY <1>5, <1>6, Zenon DEF BatchCreates

\* After the checks of its batch a web-cutoff job joins the queue.
Cleared(J) == [J EXCEPT !.hold = "", !.queued = TRUE, !.due = 0]

LEMMA ClearedIs ==
    ASSUME NEW j \in Jobs, NEW J, Sane(j, J)
    PROVE  /\ Sane(j, Cleared(J)) /\ Follows(J, Cleared(J)) /\ Cleared(J).hold = ""
           /\ Cleared(J).phase = J.phase /\ Cleared(J).kind = J.kind
           /\ Cleared(J).home = J.home /\ Cleared(J).stage = J.stage
  BY Times DEF Cleared, Sane, Records, Settled, Follows, Holds

\* The jobs stay in their phases.
LEMMA SamePhases ==
    ASSUME Inv, UNCHANGED <<up, reader, runner, talk, checks, sound, requests, raced>>,
           job' = [j \in Jobs |-> job'[j]],
           \A j \in Jobs :
             /\ Sane(j, job'[j]) /\ Follows(job[j], job'[j])
             /\ job'[j].phase = job[j].phase /\ job'[j].kind = job[j].kind
             /\ job'[j].home = job[j].home /\ job'[j].stage = job[j].stage
             /\ job[j].phase = "absent" => job'[j] = job[j]
    PROVE  /\ Shapes' /\ AllAttended' /\ HomesSettled' /\ RequestsSettled' /\ AloneUnlessRaced'
           /\ NoneStarts
  <1>1. Shapes'
    <2>1. job' \in [Jobs -> Records]
      BY DEF Sane
    <2> QED BY <2>1 DEF Inv, Shapes
  <1>2. AllAttended'
    BY DEF Inv, AllAttended, Attended
  <1>3. NoneStarts
    BY DEF NoneStarts
  <1> QED BY <1>1, <1>2, <1>3, SweepKeeps

LEMMA BatchCheckedInv ==
    ASSUME Inv, BatchChecked
    PROVE  Inv' /\ NoneStarts
  <1>1. /\ UNCHANGED <<up, reader, runner, talk, checks, sound, requests, raced, pending>>
        /\ batch.at = "create" /\ batch.todo = {}
    BY DEF BatchChecked, BatchKeeps, Stays
  <1>2. /\ batch = [at |-> batch.at, kind |-> batch.kind, todo |-> batch.todo, made |-> batch.made,
                    free |-> batch.free]
        /\ batch.kind \in {"live", "review", "web"} /\ batch.made \subseteq Jobs
        /\ \A j \in batch.made : job[j].phase # "absent" /\ job[j].kind = batch.kind
    BY DEF Inv, Orders
  <1>3. \A j \in Jobs : Sane(j, job[j]) /\ Follows(job[j], job[j])
    BY JobIs DEF Follows
  <1>4. CASE /\ job' = [j \in Jobs |-> IF batch.kind = "web" /\ j \in batch.made
                                        THEN Cleared(job[j]) ELSE job[j]]
             /\ batch' = [batch EXCEPT !.at = "start", !.free = FreeSlots]
    <2>1. \A j \in Jobs :
            /\ Sane(j, job'[j]) /\ Follows(job[j], job'[j])
            /\ job'[j].phase = job[j].phase /\ job'[j].kind = job[j].kind
            /\ job'[j].home = job[j].home /\ job'[j].stage = job[j].stage
            /\ job[j].phase = "absent" => job'[j] = job[j]
            /\ job'[j] # job[j] => job'[j].hold # "pending"
            /\ batch.kind = "web" /\ j \in batch.made => job'[j].hold # "pending"
      BY <1>2, <1>3, <1>4, ClearedIs
    <2>2. job' = [j \in Jobs |-> job'[j]]
      BY <1>4
    <2>3. /\ Shapes' /\ AllAttended' /\ HomesSettled' /\ RequestsSettled' /\ AloneUnlessRaced'
          /\ NoneStarts
      BY <1>1, <2>1, <2>2, SamePhases
    <2>4. /\ batch'.at = "start" /\ batch'.kind = batch.kind /\ batch'.todo = batch.todo
          /\ batch'.made = batch.made
          /\ batch' = [at |-> batch'.at, kind |-> batch'.kind, todo |-> batch'.todo,
                       made |-> batch'.made, free |-> batch'.free]
      BY <1>2, <1>4
    <2>5. Orders'
      BY <1>1, <1>2, <2>1, <2>4 DEF Inv, Orders
    <2>6. PendingChecked'
      <3> SUFFICES ASSUME up', NEW j \in Jobs, job'[j].hold = "pending", Listed(j)',
                          ~job'[j].elsewhere
                   PROVE  job'[j].check # Never
        BY DEF PendingChecked
      <3>1. job'[j] = job[j]
        BY <2>1
      <3>2. job[j].kind = "web"
        BY <1>3, <3>1 DEF Sane, Listed
      <3>3. j \notin batch.made
        BY <1>2, <2>1, <3>2
      <3> QED BY <1>1, <3>1, <3>3 DEF Inv, PendingChecked, Listed
    <2> QED BY <2>3, <2>5, <2>6 DEF Inv
  <1>5. ASSUME batch.kind = "web", NEW c \in {"fix", "retry"}, batch' = NoBatch,
               job' = [j \in Jobs |-> IF j \in batch.made THEN HeldFor(job[j], c) ELSE job[j]]
        PROVE  Inv' /\ NoneStarts
    <2>1. \A j \in Jobs :
            /\ Sane(j, job'[j]) /\ Follows(job[j], job'[j])
            /\ job'[j].phase = job[j].phase /\ job'[j].kind = job[j].kind
            /\ job'[j].home = job[j].home /\ job'[j].stage = job[j].stage
            /\ job[j].phase = "absent" => job'[j] = job[j]
            /\ j \in batch.made => job'[j].hold # "pending"
            /\ j \notin batch.made => job'[j] = job[j]
      BY <1>2, <1>3, <1>5, HeldIs DEF Leads
    <2>2. job' = [j \in Jobs |-> job'[j]]
      BY <1>5
    <2>3. /\ Shapes' /\ AllAttended' /\ HomesSettled' /\ RequestsSettled' /\ AloneUnlessRaced'
          /\ NoneStarts
      BY <1>1, <2>1, <2>2, SamePhases
    <2>4. Orders'
      BY <1>1, <1>2, <1>5, <2>1 DEF Inv, Orders, NoBatch
    <2>5. PendingChecked'
      BY <1>1, <2>1 DEF Inv, PendingChecked, Listed
    <2> QED BY <2>3, <2>4, <2>5 DEF Inv
  <1>6. \/ /\ job' = [j \in Jobs |-> IF batch.kind = "web" /\ j \in batch.made
                                       THEN Cleared(job[j]) ELSE job[j]]
           /\ batch' = [batch EXCEPT !.at = "start", !.free = FreeSlots]
        \/ /\ batch.kind = "web" /\ batch' = NoBatch
           /\ \E c \in {"fix", "retry"} :
                job' = [j \in Jobs |-> IF j \in batch.made THEN HeldFor(job[j], c) ELSE job[j]]
    BY Zenon DEF BatchChecked, Cleared
  <1> QED BY <1>4, <1>5, <1>6

LEMMA BatchStartsInv ==
    ASSUME Inv, NEW j \in Jobs, BatchStarts(j)
    PROVE  Inv' /\ Turn(j)
  <1>1. /\ UNCHANGED <<up, talk, sound, requests, raced, checks, pending>>
        /\ batch.at = "start" /\ j \in batch.made
    BY DEF BatchStarts, BatchKeeps
  <1>2. job[j].phase # "absent"
    BY <1>1 DEF Inv, Orders
  <1>3. Turn(j)
    <2>1. CASE StartsDue(j)
      BY <1>1, <2>1, StartsQueuedTurn DEF StartsDue
    <2>2. CASE UNCHANGED job /\ Stays
      <3>1. UNCHANGED <<reader, runner>>
        BY <2>2 DEF Stays
      <3> QED BY <1>1, <2>2, <3>1, JobIs, RestTurn DEF Inv, Shapes
    <2> QED BY <2>1, <2>2, Zenon DEF BatchStarts
  <1>4. /\ batch = [at |-> batch.at, kind |-> batch.kind, todo |-> batch.todo, made |-> batch.made,
                    free |-> batch.free]
        /\ \E n : batch' = [batch EXCEPT !.made = @ \ {j}, !.free = n]
    <2>1. batch' = [batch EXCEPT !.made = @ \ {j}, !.free = IF reader'[j] # "none" THEN @ - 1 ELSE @]
      BY DEF BatchStarts
    <2> QED BY <2>1 DEF Inv, Orders
  <1>5. /\ batch'.at = "start" /\ batch'.kind = batch.kind /\ batch'.todo = batch.todo
        /\ batch'.made = batch.made \ {j}
        /\ batch' = [at |-> batch'.at, kind |-> batch'.kind, todo |-> batch'.todo,
                     made |-> batch'.made, free |-> batch'.free]
    BY <1>1, <1>4
  <1>6. PendingChecked'
    BY <1>1, <1>3, TurnPending
  <1>7. Orders'
    <2>1. \A i \in Jobs \ {j} : job'[i] = job[i]
      BY <1>3, TurnShapes
    <2>2. j \notin batch.todo /\ \A p \in pending : p.job # j
      BY <1>2, Present
    <2>3. \A i \in batch'.made : job'[i].phase # "absent" /\ job'[i].kind = batch'.kind
      BY <1>5, <2>1 DEF Inv, Orders
    <2>4. \A i \in batch'.todo : job'[i].phase = "absent"
      BY <1>5, <2>1, <2>2 DEF Inv, Orders
    <2>5. \A p \in pending : job'[p.job].phase = "absent"
      BY <2>1, <2>2 DEF Inv, Orders
    <2> QED BY <1>1, <1>5, <2>3, <2>4, <2>5 DEF Inv, Orders
  <1> QED BY <1>1, <1>3, <1>6, <1>7, TurnOrders DEF Inv, Shapes
-----------------------------------------------------------------------------
(* A crash and the restoration *)

LEMMA CrashInv ==
    ASSUME Inv, Crash
    PROVE  Inv' /\ NoneStarts
  <1>1. /\ ~up' /\ up' \in BOOLEAN
        /\ reader' = [j \in Jobs |-> "none"] /\ checks' = [j \in Jobs |-> "none"]
        /\ batch' = NoBatch /\ pending' = {} /\ requests' = {}
        /\ UNCHANGED <<job, runner, talk, sound, raced>>
    BY DEF Crash
  <1>2. Shapes' /\ AllAttended'
    BY <1>1 DEF Inv, Shapes, AllAttended, Attended, Works, Holds
  <1>3. HomesSettled' /\ RequestsSettled' /\ AloneUnlessRaced'
    BY <1>1 DEF Inv, HomesSettled, RequestsSettled, AloneUnlessRaced, Together
  <1>4. Orders' /\ PendingChecked' /\ NoneStarts
    BY <1>1 DEF Orders, PendingChecked, NoBatch, NoneStarts
  <1> QED BY <1>2, <1>3, <1>4 DEF Inv

ElsewhereOf(J) == [J EXCEPT !.elsewhere = TRUE]

LEMMA ElsewhereIs ==
    ASSUME NEW j \in Jobs, NEW J, Sane(j, J), J.phase # "trash"
    PROVE  /\ Sane(j, ElsewhereOf(J)) /\ Follows(J, ElsewhereOf(J)) /\ ElsewhereOf(J).elsewhere
           /\ ElsewhereOf(J).phase = J.phase /\ ElsewhereOf(J).kind = J.kind
           /\ ElsewhereOf(J).home = J.home /\ ElsewhereOf(J).stage = J.stage
  BY DEF ElsewhereOf, Sane, Records, Settled, Follows

LEMMA TalkRestored ==
    ASSUME Inv, NEW j \in Jobs
    PROVE  RestoredTalk(j) \in {"none", "queued", "running", "again"}
  BY DEF RestoredTalk, Inv, Shapes

LEMMA RestartInv ==
    ASSUME Inv, Restart
    PROVE  Inv' /\ NoneStarts
  <1>1. /\ ~up /\ up' = TRUE /\ UNCHANGED <<reader, runner, checks, sound, server>>
        /\ job' = [j \in Jobs |-> IF ~Listed(j) THEN job[j]
                                  ELSE IF Held(j) THEN ElsewhereOf(job[j]) ELSE Restored(job[j])]
        /\ talk' = [j \in Jobs |-> IF Held(j) THEN talk[j] ELSE RestoredTalk(j)]
    BY DEF Restart, ElsewhereOf
  <1>2. UNCHANGED <<batch, pending, requests, raced>>
    BY <1>1 DEF server
  <1>3. \A j \in Jobs :
          /\ Sane(j, job'[j]) /\ Follows(job[j], job'[j]) /\ job'[j].kind = job[j].kind
          /\ job'[j].home = job[j].home /\ job'[j].stage = job[j].stage
          /\ ~Listed(j) => job'[j] = job[j]
          /\ Listed(j) => /\ job'[j].phase \notin {"absent", "trash"}
                         /\ \/ job'[j].elsewhere \/ job'[j].hold # "pending"
                            \/ job'[j].check # Never
    <2> SUFFICES ASSUME NEW j \in Jobs
                 PROVE  /\ Sane(j, job'[j]) /\ Follows(job[j], job'[j]) /\ job'[j].kind = job[j].kind
                        /\ job'[j].home = job[j].home /\ job'[j].stage = job[j].stage
                        /\ ~Listed(j) => job'[j] = job[j]
                        /\ Listed(j) => /\ job'[j].phase \notin {"absent", "trash"}
                                       /\ \/ job'[j].elsewhere \/ job'[j].hold # "pending"
                                          \/ job'[j].check # Never
      OBVIOUS
    <2>1. Sane(j, job[j]) /\ Follows(job[j], job[j])
      BY JobIs DEF Follows
    <2>2. CASE ~Listed(j)
      BY <1>1, <2>1, <2>2
    <2>3. CASE Listed(j) /\ Held(j)
      <3>1. job'[j] = ElsewhereOf(job[j])
        BY <1>1, <2>3
      <3>2. job[j].phase \notin {"absent", "trash"}
        BY <2>3 DEF Listed
      <3> QED BY <2>1, <2>3, <3>1, <3>2, ElsewhereIs
    <2>4. CASE Listed(j) /\ ~Held(j)
      <3>1. job'[j] = Restored(job[j])
        BY <1>1, <2>4
      <3>2. job[j].phase \notin {"absent", "trash"}
        BY <2>4 DEF Listed
      <3> QED BY <2>1, <2>4, <3>1, <3>2, RestoredIs DEF Leads
    <2> QED BY <2>2, <2>3, <2>4
  <1>4. Shapes'
    <2>1. job' \in [Jobs -> Records]
      BY <1>1, <1>3 DEF Sane
    <2>2. talk' \in [Jobs -> {"none", "queued", "running", "again"}]
      BY <1>1, TalkRestored DEF Inv, Shapes
    <2> QED BY <1>1, <2>1, <2>2 DEF Inv, Shapes
  <1>5. AllAttended'
    <2> SUFFICES ASSUME NEW j \in Jobs
                 PROVE  Attended(j, job'[j], reader[j], checks[j], sound[j])
      BY <1>1 DEF AllAttended
    <2>1. Attended(j, job[j], reader[j], checks[j], sound[j])
      BY DEF Inv, AllAttended
    <2> QED BY <1>3, <2>1 DEF Attended, Listed
  <1>6. NoneStarts
    BY <1>1 DEF NoneStarts
  <1>7. HomesSettled' /\ RequestsSettled' /\ AloneUnlessRaced'
    BY <1>2, <1>3, <1>6, SweepKeeps
  <1>8. PendingChecked'
    BY <1>3 DEF PendingChecked, Listed
  <1>9. Orders'
    BY <1>2, <1>3 DEF Inv, Orders, Listed
  <1> QED BY <1>4, <1>5, <1>6, <1>7, <1>8, <1>9 DEF Inv

LEMMA AdoptTurn ==
    ASSUME Inv, NEW j \in Jobs, Adopt(j)
    PROVE  Inv' /\ Turn(j)
  <1>1. /\ Becomes(j, Restored(job[j])) /\ Stays /\ Others /\ UNCHANGED checks
        /\ talk' = [talk EXCEPT ![j] = RestoredTalk(j)] /\ job[j].elsewhere
    BY DEF Adopt, Others
  <1>2. Sane(j, job[j]) /\ job[j].phase \notin {"absent", "trash"}
    <2>1. job[j].phase = "absent" => job[j] = NewJob(j)
      BY AbsentIs
    <2>2. ~NewJob(j).elsewhere
      BY NewIs
    <2>3. job[j].phase # "absent"
      BY <1>1, <2>1, <2>2, Zenon
    <2> QED BY <1>1, <2>3, JobIs DEF Sane
  <1>3. /\ Sane(j, Restored(job[j])) /\ Leads(job[j], Restored(job[j]))
        /\ Restored(job[j]).phase \notin {"absent", "trash"}
        /\ Restored(job[j]).home = job[j].home /\ Restored(job[j]).stage = job[j].stage
    BY <1>2, RestoredIs
  <1>4. checks' = [checks EXCEPT ![j] = checks'[j]] /\ checks'[j] = checks[j]
    BY <1>1 DEF Inv, Shapes
  <1>5. Turn(j)
    BY <1>1, <1>3, <1>4, OthersAre, JobIs, EditTurn
  <1>6. talk' \in [Jobs -> {"none", "queued", "running", "again"}]
    BY <1>1, TalkRestored, Talks
  <1> QED BY <1>1, <1>2, <1>5, <1>6, OtherTurn
-----------------------------------------------------------------------------
(* The specification *)

LEMMA InitInv == Init => Inv
  <1> SUFFICES ASSUME Init PROVE Inv
    OBVIOUS
  <1>1. \A j \in Jobs :
          /\ Sane(j, NewJob(j)) /\ NewJob(j).phase = "absent" /\ NewJob(j).home = j
          /\ NewJob(j).kind = "none" /\ NewJob(j).hold = ""
    BY NewIs
  <1>2. \A j \in Jobs :
          /\ job[j] = NewJob(j) /\ reader[j] = "none" /\ runner[j] = "none" /\ talk[j] = "none"
          /\ checks[j] = "none" /\ sound[j]
    BY DEF Init
  <1>3. \A j \in Jobs :
          /\ Sane(j, job[j]) /\ job[j].phase = "absent" /\ job[j].home = j
          /\ job[j].kind = "none" /\ job[j].hold = ""
    <2> TAKE j \in Jobs
    <2>1. job[j] = NewJob(j)
      BY <1>2
    <2>2. /\ Sane(j, NewJob(j)) /\ NewJob(j).phase = "absent" /\ NewJob(j).home = j
          /\ NewJob(j).kind = "none" /\ NewJob(j).hold = ""
      BY <1>1
    <2> QED BY <2>1, <2>2, Zenon
  <1>4. Shapes
    <2>1. job \in [Jobs -> Records]
      BY <1>1 DEF Init, Sane
    <2> QED BY <2>1 DEF Init, Shapes, Works
  <1>5. AllAttended
    BY ZenonT(40), <1>2, <1>3 DEF AllAttended, Attended, Holds
  <1>6. HomesSettled /\ RequestsSettled /\ AloneUnlessRaced
    BY <1>2, <1>3 DEF HomesSettled, RequestsSettled, AloneUnlessRaced, Together, Init
  <1>7. Orders /\ PendingChecked
    BY <1>3 DEF Orders, PendingChecked, Init, NoBatch
  <1> QED BY <1>4, <1>5, <1>6, <1>7 DEF Inv

\* Every step keeps the invariant, and is a job's turn or starts no runner.
LEMMA NextInv ==
    ASSUME Inv, [LaunchNext]_vars
    PROVE  Inv' /\ (NoneStarts \/ \E j \in Jobs : Turn(j))
  <1>1. CASE User
    <2> USE <1>1 DEF User
    <2>1. ASSUME NEW j \in Jobs, NEW k \in Kinds, StartNew(j, k) PROVE Inv' /\ Turn(j)
      BY <2>1, StartNewTurn
    <2>2. ASSUME NEW j \in Jobs,
                 \/ StartNow(j) \/ AskReview(j) \/ Approve(j) \/ Stop(j) \/ Resume(j)
                 \/ AskReply(j) \/ StopReply(j)
          PROVE  Inv' /\ Turn(j)
      BY <2>2, StartNowTurn, AskReviewTurn, ApproveTurn, StopTurn, ResumeTurn, AskReplyTurn
    <2>3. ASSUME NEW j \in Jobs, SavedCheck(j) \/ Delete(j) \/ AskCheck(j)
          PROVE  Inv' /\ Turn(j)
      BY <2>3, SavedCheckInv, DeleteTurn, CheckBeginsTurn
    <2>4. ASSUME NEW j \in Jobs, ContinueStopped(j)
          PROVE  Inv' /\ \E i \in Jobs : Turn(i)
      BY <2>4, ContinueStoppedTurn
    <2> QED BY <2>1, <2>2, <2>3, <2>4
  <1>2. CASE Helpers
    <2>1. ASSUME NEW j \in Jobs,
                 RunnerEnds(j) \/ Settle(j) \/ CheckThread(j) \/ CheckEnds(j) \/ Mend(j)
          PROVE  Inv' /\ Turn(j)
      BY <2>1, RunnerEndsTurn, SettleTurn, CheckBeginsTurn, CheckEndsTurn, DamageTurn
    <2>2. ASSUME NEW j \in Jobs, SavedStart(j) PROVE Inv' /\ \E i \in Jobs : Turn(i)
      BY <2>2, SavedStartTurn
    <2> QED BY <1>2, <2>1, <2>2 DEF Helpers
  <1>3. CASE Loop
    <2>1. ASSUME NEW j \in Jobs, Visit(j) \/ StartReply(j) PROVE Inv' /\ Turn(j)
      BY <2>1, VisitTurn, StartReplyTurn
    <2> QED BY <1>3, <2>1, PassInv, TickInv, CreatePendingInv DEF Loop
  <1>4. CASE Batch
    <2>1. ASSUME NEW j \in Jobs, BatchStarts(j) PROVE Inv' /\ Turn(j)
      BY <2>1, BatchStartsInv
    <2>2. ASSUME NEW j \in Jobs, BatchCreates(j) PROVE Inv' /\ NoneStarts
      BY <2>2, BatchCreatesInv
    <2> QED BY <1>4, <2>1, <2>2, BatchBeginsInv, BatchCheckedInv, PassInv DEF Batch
  <1>5. CASE Process
    <2>1. ASSUME NEW j \in Jobs, Damage(j) \/ Adopt(j) PROVE Inv' /\ Turn(j)
      BY <2>1, DamageTurn, AdoptTurn
    <2> QED BY <1>5, <2>1, CrashInv, RestartInv DEF Process
  <1>6. CASE UNCHANGED vars
    BY <1>6, RestInv DEF vars
  <1> QED BY <1>1, <1>2, <1>3, <1>4, <1>5, <1>6 DEF LaunchNext

LEMMA SpecInv == Spec => []Inv
  <1>1. Inv /\ [LaunchNext]_vars => Inv'
    BY NextInv
  <1> QED BY InitInv, <1>1, PTL DEF Spec

\* The state of every job keeps its types, and no time leaves its range.
THEOREM LaunchTypeCorrect == Spec => []TypeOK
  <1>1. Inv => TypeOK
    <2> SUFFICES ASSUME Inv PROVE TypeOK
      OBVIOUS
    <2>1. \A j \in Jobs : job[j].due \in Late .. Never /\ job[j].check \in Late .. Never
      BY JobIs DEF Records
    <2> QED BY <2>1 DEF Inv, Shapes, TypeOK
  <1> QED BY SpecInv, <1>1, PTL

\* Two runners share an author workspace only if the check of a continuation was
\* overtaken: not over replies, automatic retries, continuations in place,
\* deletion, or a crash that leaves its runners behind (_check_author_workspace_idle,
\* ownership.py).
THEOREM NobodyElseInWorkspace == Spec => []AloneUnlessRaced
  <1>1. Inv => AloneUnlessRaced
    BY DEF Inv
  <1> QED BY SpecInv, <1>1, PTL

\* A hold that passes by itself always has its next check, also after a crash
\* during a check (retry_historical_hold_if_due, restore_saved_app).
THEOREM HoldsAlwaysRechecked == Spec => []HoldsAreRechecked
  <1>1. Inv => HoldsAreRechecked
    <2> SUFFICES ASSUME Inv, up, NEW j \in Jobs, Listed(j), ~job[j].elsewhere
                 PROVE  /\ job[j].hold = "retry" => job[j].check # Never
                        /\ job[j].hold = "pending" => job[j].check # Never \/ j \in batch.made
      BY DEF HoldsAreRechecked
    <2>1. job[j].hold = "retry" => job[j].check # Never
      BY JobIs DEF Sane, Listed
    <2>2. job[j].hold = "pending" => job[j].check # Never \/ j \in batch.made
      BY DEF Inv, PendingChecked
    <2> QED BY <2>1, <2>2
  <1> QED BY SpecInv, <1>1, PTL

\* A reviewed job keeps the statement its review returned, over revisions that
\* fail and restarts (_review_records, restore_saved_app).
THEOREM ReviewedAlwaysHasReview == Spec => []ReviewedHasReview
  <1>1. Inv => ReviewedHasReview
    BY JobIs DEF Sane, ReviewedHasReview
  <1> QED BY SpecInv, <1>1, PTL

\* However a web-cutoff job gets its runner, its policy is in order at that
\* moment and no hold is on it (_check_historical_locked, _check_launch_hold).
THEOREM OnlyCheckedJobsStart == Spec => StartsChecked
  <1> DEFINE Checked == \A j \in Jobs :
               (job[j].kind = "web" \/ job'[j].kind = "web") /\ runner[j] = "none"
                 /\ runner'[j] # "none" => sound[j] /\ job'[j].hold = ""
  <1>1. ASSUME Inv, [LaunchNext]_vars PROVE Checked
    <2>1. CASE NoneStarts
      BY <2>1 DEF NoneStarts
    <2>2. ASSUME NEW i \in Jobs, Turn(i) PROVE Checked
      <3> SUFFICES ASSUME NEW j \in Jobs, job[j].kind = "web" \/ job'[j].kind = "web",
                          runner[j] = "none", runner'[j] # "none"
                   PROVE  sound[j] /\ job'[j].hold = ""
        OBVIOUS
      <3>1. j = i
        BY <1>1, <2>2, TurnShapes
      <3>2. Starts(i) /\ Leads(job[i], job'[i])
        BY <2>2, <3>1 DEF Turn
      <3>3. job[i].kind = "web" => job'[i].kind = "web"
        <4>1. job[i].kind = "web" => job[i].phase # "absent"
          BY <1>1, AbsentIs
        <4> QED BY <3>2, <4>1 DEF Leads, Follows
      <3> QED BY <3>1, <3>2, <3>3 DEF Starts
    <2> QED BY <1>1, <2>1, <2>2, NextInv
  <1>2. Inv /\ [LaunchNext]_vars => [Checked]_vars
    BY <1>1
  <1> QED BY SpecInv, <1>2, PTL DEF Spec, StartsChecked
=============================================================================
