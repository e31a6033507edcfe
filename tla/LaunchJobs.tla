------------------------------ MODULE LaunchJobs ------------------------------
(***************************************************************************)
(* When the jobs of one server start (class Server of src/ui/server.py and *)
(* the App methods it calls): statement reviews, prepared jobs in the      *)
(* queue, folder batches, holds of web-cutoff jobs and the checks that     *)
(* release them, automatic retries, author replies, continuations in a     *)
(* shared author workspace, deletion, a crash of the server and the        *)
(* restoration of its jobs.                                                *)
(*                                                                         *)
(* A job's runner is abstracted to its process and to how it ends: what it *)
(* does meanwhile, and how one pause is resumed, is JobLifecycle's.        *)
(* Times are relative: `due' and `check' count the ticks until a moment,   *)
(* and stay at Late once it has passed.                                    *)
(***************************************************************************)
EXTENDS Integers, FiniteSets, FiniteSetsExt

CONSTANTS
  Jobs,
  Kinds,      \* what may be started: "live", "review" (its statement first), "web" (cutoff)
  Limit,      \* maxRunningJobs
  Wait,       \* AUTO_RESUME_SECONDS, in ticks
  Spacing,    \* AUTO_LAUNCH_SPACING_SECONDS, in ticks
  MaxAsks,    \* bound: requests of the user, a folder batch for two
  MaxFaults   \* bound: failures and crashes

ASSUME LaunchConstants ==
  /\ {Limit, Wait, Spacing, MaxAsks, MaxFaults} \subseteq Nat
  /\ Kinds \subseteq {"live", "review", "web"}

VARIABLES
  up,       \* the server process runs
  job,      \* App.state of each job, and what its folder saves of it
  reader,   \* worker_token: what the job's reader thread follows
  runner,   \* the process that works for the job, which outlives a crashed server
  talk,     \* the newest reply of the paused author; "again": it failed and waits
  checks,   \* the thread that reruns a held job's checks: not there, started, or the hold it took up
  sound,    \* whether the job's saved policy and configuration are in order
  loop,     \* one pass of _retry_paused_jobs, which owns jobs_lock
  quiet,    \* ticks since _last_auto_launch
  batch,    \* the request that creates a folder of jobs
  pending,  \* _pending_jobs, with the time until each is created again
  requests, \* sources whose continuation passed its check and did not start yet
  raced,    \* history: continuations started after their check had become wrong
  asks, faults

vars == <<up, job, reader, runner, talk, checks, sound, loop, quiet, batch, pending,
          requests, raced, asks, faults>>
server == <<loop, quiet, batch, pending, requests, raced>>

Late  == -1
Never == Wait + 1
Works == {"none", "review", "author", "reply"}
Holds == {"", "pending", "fix", "retry"}
ActivePhases == {"reviewing", "running", "stopping"}
NoPass  == [on |-> FALSE, free |-> 0, ready |-> FALSE, left |-> {}]
NoBatch == [at |-> "none", kind |-> "live", todo |-> {}, made |-> {}, free |-> 0]

NewJob(j) == [kind |-> "none", phase |-> "absent", stage |-> "author", queued |-> FALSE,
              due |-> Never, hold |-> "", check |-> Never, home |-> j, review |-> FALSE,
              feedback |-> FALSE, stopped |-> FALSE, elsewhere |-> FALSE]

Init ==
  /\ up = TRUE /\ job = [j \in Jobs |-> NewJob(j)]
  /\ reader = [j \in Jobs |-> "none"] /\ runner = [j \in Jobs |-> "none"]
  /\ talk = [j \in Jobs |-> "none"] /\ checks = [j \in Jobs |-> "none"]
  /\ sound = [j \in Jobs |-> TRUE]
  /\ loop = NoPass /\ quiet = Spacing /\ batch = NoBatch /\ pending = {}
  /\ requests = {} /\ raced = {} /\ asks = 0 /\ faults = 0
-----------------------------------------------------------------------------
Asked == asks < MaxAsks /\ asks' = asks + 1
Fault == faults < MaxFaults /\ faults' = faults + 1
Calm  == UNCHANGED <<asks, faults>>

\* A job of another process's runner is shown as running (restore_one_run).
Phase(j) == IF job[j].elsewhere THEN "running" ELSE job[j].phase
Listed(j) == job[j].phase \notin {"absent", "trash"}
Busy(j) == Listed(j) /\ (reader[j] # "none" \/ Phase(j) \in ActivePhases)
Checking(j) == checks[j] \in Holds
Occupies(j) == Busy(j) \/ Checking(j)
FreeSlots == LET n == Limit - Cardinality({j \in Jobs : Occupies(j)})
             IN IF n > 0 THEN n ELSE 0
Free == up /\ ~loop.on                                  \* jobs_lock can be taken

\* ownership.held_elsewhere: a runner no reader follows keeps the locks it was given.
Held(f) == \E i \in Jobs : runner[i] # "none" /\ reader[i] = "none" /\ f \in {i, job[i].home}
Claims(j) == ~Held(j) /\ ~Held(job[j].home)             \* _claim_run_locked

\* Mutant of Idle: only the job whose folder the workspace is, not its continuations.
IdleHome(j, but) ==
  /\ job[job[j].home].phase # "trash" /\ ~Held(job[j].home)
  /\ job[j].home \notin but => ~Busy(job[j].home)

\* _check_author_workspace_idle(j, exclude=but).
Idle(j, but) ==
  /\ job[job[j].home].phase # "trash" /\ ~Held(job[j].home)
  /\ \A i \in Jobs \ but : job[i].home = job[j].home => ~Busy(i)

Becomes(j, new) == job' = [job EXCEPT ![j] = new]
Runs(j, new, work) ==
  /\ Becomes(j, new)
  /\ reader' = [reader EXCEPT ![j] = work] /\ runner' = [runner EXCEPT ![j] = work]
Stays == UNCHANGED <<reader, runner>>

\* _hold_after_failed_check: a check that could not finish ("retry") runs again.
HeldFor(J, cause) ==
  [J EXCEPT !.hold = cause, !.due = Never, !.check = IF cause = "retry" THEN Wait ELSE Never]

Works4Author(J) == [J EXCEPT !.phase = "running", !.stage = "author", !.queued = FALSE, !.due = Never]
Reviewing(J, fb) ==
  [J EXCEPT !.phase = "reviewing", !.stage = "review", !.feedback = fb, !.review = @ /\ fb,
            !.queued = FALSE, !.due = Never, !.stopped = FALSE]
\* Mutant of Requeued: a failed start gets no next try.
RequeuedOnce(J) == [J EXCEPT !.phase = "prepared", !.queued = TRUE, !.due = Never]

\* queue_launch: a job whose start failed; a held one waits for its check instead.
Requeued(J) ==
  [J EXCEPT !.phase = "prepared", !.queued = TRUE, !.due = IF J.hold = "" THEN Wait ELSE Never]

\* Mutant of Sound: only a prepared job is checked.
SoundPrepared(j) == (job[j].kind = "web" /\ job[j].phase = "prepared") => sound[j]

\* _check_historical_locked in front of every runner of a web-cutoff job.
Sound(j) == job[j].kind = "web" => sound[j]

\* start_queued: the statement review a queued job has to run, or its author
\* (start_prepared_run).  A problem of the policy holds the job and a failed
\* launch rolls it back; the loop queues it again, a user's request leaves it.
ReviewFirst(j) == job[j].kind = "review" /\ ~job[j].review
StartsQueued(j, again) ==
  LET failed(J) == IF again THEN Requeued(J) ELSE J IN
  /\ job[j].phase = "prepared" /\ job[j].hold = "" /\ reader[j] = "none"
  /\ \/ /\ Sound(j) /\ Claims(j) /\ Calm
        /\ IF ReviewFirst(j) THEN Runs(j, Reviewing(job[j], FALSE), "review")
                             ELSE Runs(j, Works4Author(job[j]), "author")
     \/ ~Sound(j) /\ Becomes(j, failed(HeldFor(job[j], "fix"))) /\ Stays /\ Calm
     \/ Sound(j) /\ Becomes(j, failed(job[j])) /\ Stays /\ Fault /\ UNCHANGED asks
-----------------------------------------------------------------------------
(***************************************************************************)
(* Requests for one job.                                                   *)
(***************************************************************************)
Others == UNCHANGED <<up, sound, server>>

Unused(j) == job[j].phase = "absent" /\ j \notin batch.todo /\ \A p \in pending : p.job # j

\* /start-workflow: a statement review, a proof that starts at once, or a
\* web-cutoff proof after its own checks (a failed check keeps the job, held).
StartNew(j, k) ==
  /\ up /\ Unused(j) /\ k \in Kinds
  /\ LET J == [job[j] EXCEPT !.kind = k] IN
     \/ Asked /\ UNCHANGED faults
        /\ IF k = "review" THEN Runs(j, Reviewing(J, FALSE), "review")
                           ELSE Runs(j, Works4Author(J), "author")
     \/ /\ k = "web" /\ Fault /\ UNCHANGED asks /\ Stays
        /\ \E cause \in {"fix", "retry"} :
             Becomes(j, HeldFor([J EXCEPT !.phase = "prepared"], cause))
  /\ UNCHANGED <<talk, checks>> /\ Others

\* "Start now": ahead of the queue and of the limit.  A failed start changes nothing.
StartNow(j) ==
  /\ Free /\ Idle(j, {}) /\ asks < MaxAsks
  /\ StartsQueued(j, FALSE) /\ job'[j] # job[j]
  /\ UNCHANGED <<talk, checks>> /\ Others

\* start_review of a reviewed job, or of one whose review failed, in its own folder.
AskReview(j) ==
  /\ up /\ ~job[j].elsewhere /\ job[j].phase \in {"input", "reviewed"} /\ Claims(j)
  /\ \E fb \in BOOLEAN : Runs(j, Reviewing(job[j], fb), "review")
  /\ Asked /\ UNCHANGED <<talk, checks, faults>> /\ Others

Approve(j) ==
  /\ up /\ ~job[j].elsewhere /\ job[j].phase = "reviewed" /\ job[j].hold = "" /\ Claims(j)
  /\ Runs(j, Works4Author(job[j]), "author")
  /\ Asked /\ UNCHANGED <<talk, checks, faults>> /\ Others

Stop(j) ==
  /\ up /\ ~job[j].elsewhere /\ job[j].phase \in {"reviewing", "running"}
  /\ Becomes(j, [job[j] EXCEPT !.phase = "stopping", !.stopped = TRUE, !.due = Never])
  /\ Asked /\ Stays /\ UNCHANGED <<talk, checks, faults>> /\ Others

\* resume() under jobs_lock (resume_paused_job).
Resumes(j) ==
  /\ Idle(j, {}) /\ job[j].phase = "paused" /\ talk[j] = "none" /\ reader[j] = "none"
  /\ job[j].hold = "" /\ Claims(j)
  /\ IF Sound(j) THEN Runs(j, Works4Author(job[j]), "author")
                 ELSE Becomes(j, HeldFor(job[j], "fix")) /\ Stays

Resume(j) ==
  /\ Free /\ ~job[j].elsewhere /\ Resumes(j)
  /\ Asked /\ UNCHANGED <<talk, checks, faults>> /\ Others

AskReply(j) ==
  /\ up /\ ~job[j].elsewhere /\ job[j].phase = "paused" /\ talk[j] = "none"
  /\ talk' = [talk EXCEPT ![j] = "queued"]
  /\ Asked /\ Stays /\ UNCHANGED <<job, checks, faults>> /\ Others

\* The conversation is free at once; the reply's runner is killed meanwhile.
StopReply(j) ==
  /\ up /\ talk[j] # "none" /\ ~job[j].elsewhere
  /\ talk' = [talk EXCEPT ![j] = "none"]
  /\ Asked /\ Stays /\ UNCHANGED <<job, checks, faults>> /\ Others

\* continue_historical: a stopped web-cutoff run goes on in its own folder.
ContinuesInPlace(j) ==
  /\ reader[j] = "none" /\ Phase(j) \notin ActivePhases /\ job[j].hold = "" /\ Claims(j)
  /\ IF Sound(j)
     THEN Runs(j, [Works4Author(job[j]) EXCEPT !.stopped = FALSE], "author")
     ELSE Becomes(j, HeldFor(job[j], "fix")) /\ Stays

\* A new job that continues the author of s in its workspace.
Continuation(s, j) ==
  Works4Author([NewJob(j) EXCEPT !.kind = "live", !.home = job[s].home])

\* What "Continue" of a stopped job does (_stopped_continuation_plan): a web-cutoff
\* run goes on in place; another gets a new job for its review or for its author.
Plan(s) == IF job[s].kind = "web" THEN "place" ELSE job[s].stage

\* _continue_stopped_job_locked, under jobs_lock until the new job is registered.
ContinueStopped(s) ==
  /\ Free /\ Phase(s) = "done" /\ job[s].stopped /\ ~Busy(s)
  /\ \/ Plan(s) = "place" /\ Idle(s, {}) /\ ContinuesInPlace(s)
     \/ \E j \in Jobs :
          /\ Unused(j)
          /\ \/ /\ Plan(s) = "review"
                /\ Runs(j, Reviewing([NewJob(j) EXCEPT !.kind = "review"], job[s].feedback), "review")
             \/ /\ Plan(s) = "author" /\ Idle(s, {}) /\ ~Held(job[s].home)
                /\ Runs(j, Continuation(s, j), "author")
  /\ Asked /\ UNCHANGED <<talk, checks, faults>> /\ Others

\* start_saved_critic_job and start_saved_research_job look for another author
\* in the workspace, give up jobs_lock, and start the new job afterwards.
SavedCheck(s) ==
  /\ Free /\ Listed(s) /\ Phase(s) \notin ActivePhases /\ job[s].stage = "author"
  /\ job[s].phase # "prepared" /\ Idle(s, {})
  /\ requests' = requests \cup {s}
  /\ Asked /\ Stays /\ UNCHANGED <<up, job, talk, checks, sound, loop, quiet, batch, pending, raced, faults>>

\* A deleted job's policy is gone with its folder, and with it its check.
SavedStart(s) ==
  /\ up /\ s \in requests /\ requests' = requests \ {s}
  /\ \/ job[s].kind = "web" /\ job[s].phase # "trash" /\ ContinuesInPlace(s) /\ UNCHANGED raced
     \/ \E j \in Jobs :
          /\ job[s].kind # "web" /\ Unused(j)
          /\ job[job[s].home].phase # "trash" /\ ~Held(job[s].home)
          /\ Runs(j, Continuation(s, j), "author")
          /\ raced' = IF Idle(s, {}) THEN raced ELSE raced \cup {j}
     \/ UNCHANGED <<job, raced>> /\ Stays                   \* refused
  /\ Calm /\ UNCHANGED <<up, talk, checks, sound, loop, quiet, batch, pending>>

Deletable(j) ==
  /\ Listed(j) /\ ~job[j].elsewhere /\ ~Busy(j) /\ talk[j] # "running" /\ ~Held(j)
  /\ \A i \in Jobs \ {j} : job[i].home = j => ~Busy(i)

Delete(j) ==
  /\ Free /\ Deletable(j)
  /\ Becomes(j, [job[j] EXCEPT !.phase = "trash", !.check = Never, !.due = Never])
  /\ Asked /\ Stays /\ UNCHANGED <<talk, checks, faults>> /\ Others
-----------------------------------------------------------------------------
(***************************************************************************)
(* Runners and their readers.                                              *)
(***************************************************************************)
RunnerEnds(j) ==
  /\ runner[j] # "none" /\ runner' = [runner EXCEPT ![j] = "none"]
  /\ UNCHANGED <<up, job, reader, talk, checks, sound, server, asks, faults>>

\* Mutant of FailedReview: a review of feedback is taken for one of a statement.
FailedReviewOfAny(J) == [J EXCEPT !.phase = IF J.feedback THEN "reviewed" ELSE "input", !.due = Never]

FailedReview(J) ==
  [J EXCEPT !.phase = IF J.review /\ J.feedback THEN "reviewed" ELSE "input", !.due = Never]

\* _review_records: a complete report wins over Stop.
SettleReview(j) ==
  LET J == job[j] IN
  \/ Becomes(j, [J EXCEPT !.phase = "reviewed", !.review = TRUE, !.stopped = FALSE]) /\ Calm
  \/ J.phase = "stopping" /\ Becomes(j, [J EXCEPT !.phase = "done"]) /\ Calm
  \/ J.phase = "reviewing" /\ Becomes(j, FailedReview(J)) /\ Fault /\ UNCHANGED asks

\* The author's run ends, pauses at the user's request, or fails and is retried.
SettleAuthor(j) ==
  LET J == job[j] IN
  \/ J.phase = "stopping" /\ Becomes(j, [J EXCEPT !.phase = "done"]) /\ Calm
  \/ J.phase = "running" /\ Becomes(j, [J EXCEPT !.phase = "done"]) /\ Calm
  \/ J.phase = "running" /\ Becomes(j, [J EXCEPT !.phase = "paused"]) /\ Asked /\ UNCHANGED faults
  \/ J.phase = "running" /\ Becomes(j, [J EXCEPT !.phase = "paused", !.due = Wait])
     /\ Fault /\ UNCHANGED asks

Settle(j) ==
  /\ up /\ reader[j] # "none" /\ runner[j] = "none"
  /\ reader' = [reader EXCEPT ![j] = "none"]
  /\ \/ reader[j] = "review" /\ SettleReview(j) /\ UNCHANGED talk
     \/ reader[j] = "author" /\ SettleAuthor(j) /\ UNCHANGED talk
     \/ /\ reader[j] = "reply" /\ UNCHANGED job
        /\ \/ talk' = [talk EXCEPT ![j] = "none"] /\ Calm
           \/ talk[j] = "running" /\ talk' = [talk EXCEPT ![j] = "again"] /\ Fault /\ UNCHANGED asks
  /\ UNCHANGED <<runner, checks>> /\ Others
-----------------------------------------------------------------------------
(***************************************************************************)
(* Holds: the checks run without the job's lock and their result is used   *)
(* only if the job is as it was.                                           *)
(***************************************************************************)
CheckBegins(j) ==
  /\ job[j].kind = "web" /\ job[j].hold # "" /\ ~Busy(j)
  /\ checks[j] \in {"none", "asked"}
  /\ checks' = [checks EXCEPT ![j] = job[j].hold]

AskCheck(j) ==
  /\ up /\ Listed(j) /\ ~job[j].elsewhere /\ checks[j] = "none" /\ CheckBegins(j)
  /\ Asked /\ Stays /\ UNCHANGED <<job, talk, faults>> /\ Others

\* The thread the retry loop started; a job that needs no check any more refuses.
CheckThread(j) ==
  /\ up /\ checks[j] = "asked"
  /\ IF job[j].hold # "" /\ ~Busy(j) THEN CheckBegins(j) ELSE checks' = [checks EXCEPT ![j] = "none"]
  /\ Calm /\ Stays /\ UNCHANGED <<job, talk>> /\ Others

Unchanged(j) == job[j].hold = checks[j] /\ ~Busy(j) /\ job[j].phase # "trash"

Released(J) == [J EXCEPT !.hold = "", !.check = Never]

\* rerun_historical_preflight after a passing check: a prepared job starts and a
\* paused one resumes; a start that fails holds the job again with the cause.
ReleasedStart(j) ==
  LET J == Released(job[j]) IN
  \/ J.phase = "prepared" /\ Claims(j) /\ Sound(j) /\ Runs(j, Works4Author(J), "author") /\ Calm
  \/ /\ J.phase = "paused" /\ talk[j] = "none" /\ Claims(j) /\ Sound(j)
     /\ Runs(j, Works4Author(J), "author") /\ Calm
  \/ /\ J.phase \notin {"prepared", "paused"} \/ (J.phase = "paused" /\ talk[j] # "none")
     /\ Becomes(j, J) /\ Stays /\ Calm
  \/ J.phase \in {"prepared", "paused"} /\ ~Sound(j) /\ Becomes(j, HeldFor(J, "fix")) /\ Stays /\ Calm
  \/ J.phase \in {"prepared", "paused"} /\ Becomes(j, HeldFor(J, "retry")) /\ Stays /\ Fault /\ UNCHANGED asks

CheckEnds(j) ==
  /\ up /\ Checking(j) /\ checks' = [checks EXCEPT ![j] = "none"]
  /\ \/ ~Unchanged(j) /\ UNCHANGED job /\ Stays /\ Calm
     \/ Unchanged(j) /\ sound[j] /\ ReleasedStart(j)
     \/ Unchanged(j) /\ ~sound[j] /\ Becomes(j, HeldFor(job[j], "fix")) /\ Stays /\ Calm
     \/ Unchanged(j) /\ Becomes(j, HeldFor(job[j], "retry")) /\ Stays /\ Fault /\ UNCHANGED asks
  /\ UNCHANGED talk /\ Others

\* The saved policy or configuration of a web-cutoff job is damaged, or repaired.
Damage(j) ==
  /\ job[j].kind = "web" /\ sound[j] /\ Fault /\ sound' = [sound EXCEPT ![j] = FALSE]
  /\ UNCHANGED <<up, job, reader, runner, talk, checks, server, asks>>
Mend(j) ==
  /\ ~sound[j] /\ sound' = [sound EXCEPT ![j] = TRUE]
  /\ UNCHANGED <<up, job, reader, runner, talk, checks, server, asks, faults>>
=============================================================================
