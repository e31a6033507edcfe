------------------------------- MODULE Launches -------------------------------
(***************************************************************************)
(* The server of LaunchJobs: its retry loop, the folder batch request, a   *)
(* crash and the restoration of the jobs.                                  *)
(***************************************************************************)
EXTENDS LaunchJobs

CONSTANT Watched   \* bound: the jobs NobodyWaitsForever follows; the jobs are interchangeable

\* launch_due_at: when the loop may start something for this job.
DueAt(j) ==
  IF reader[j] # "none" \/ job[j].elsewhere \/ ~Listed(j) THEN Never
  ELSE IF job[j].hold # "" /\ job[j].check # Never /\ ~Checking(j) THEN job[j].check
  ELSE IF job[j].stopped \/ (job[j].hold # "" /\ Phase(j) = "prepared") THEN Never
  ELSE IF Phase(j) = "prepared" /\ ~job[j].queued THEN Never
  ELSE IF Phase(j) \in {"paused", "prepared", "input", "reviewed"} THEN job[j].due
  ELSE Never
DueNow(j) == DueAt(j) <= 0
-----------------------------------------------------------------------------
(***************************************************************************)
(* _retry_paused_jobs.  A pass owns jobs_lock; what needs only a job's own *)
(* lock may still happen between the count of the free slots and a start.  *)
(***************************************************************************)
LoopKeeps == UNCHANGED <<up, sound, batch, pending, requests, raced>>

ReplyDue(j) ==
  /\ ~job[j].elsewhere /\ job[j].phase = "paused" /\ reader[j] = "none"
  /\ talk[j] = "queued" \/ (talk[j] = "again" /\ job[j].due > 0)

PassBegins ==
  /\ Free /\ quiet >= Spacing /\ FreeSlots > 0 /\ \E j \in Jobs : DueNow(j)
  /\ \A j \in Jobs : ~ReplyDue(j)                     \* replies first, see StartReply
  /\ loop' = [on |-> TRUE, free |-> FreeSlots, ready |-> TRUE, left |-> {j \in Jobs : DueNow(j)}]
  /\ Calm /\ Stays /\ UNCHANGED <<job, talk, checks, quiet>> /\ LoopKeeps

\* auto_resume_if_due: a reply goes first unless it failed before; a refusal or
\* a failure waits again (the next attempt is reserved before the launch).
RetriesPaused(j) ==
  /\ job[j].phase = "paused" /\ job[j].due <= 0
  /\ \/ talk[j] \in {"queued", "running"} /\ UNCHANGED <<job, talk>> /\ Stays /\ Calm
     \/ /\ talk[j] = "again" /\ talk' = [talk EXCEPT ![j] = "none"]
        /\ UNCHANGED job /\ Stays /\ Calm
     \/ talk[j] = "none" /\ Resumes(j) /\ UNCHANGED talk /\ Calm
     \/ /\ talk[j] = "none" /\ (Fault \/ (Calm /\ (~Idle(j, {}) \/ ~Claims(j) \/ job[j].hold # "")))
        /\ Becomes(j, [job[j] EXCEPT !.due = Wait]) /\ Stays /\ UNCHANGED <<talk, asks>>

\* start_queued_if_due.
StartsDue(j) == StartsQueued(j, TRUE)

\* retry_review_if_due, for a review that a restart interrupted.
RetriesReview(j) ==
  /\ job[j].phase \in {"input", "reviewed"} /\ job[j].due <= 0
  /\ \/ Claims(j) /\ Runs(j, Reviewing(job[j], job[j].feedback), "review") /\ Calm
     \/ (Fault \/ (~Claims(j) /\ Calm)) /\ Becomes(j, [job[j] EXCEPT !.due = Wait]) /\ Stays /\ UNCHANGED asks

\* retry_historical_hold_if_due: the next attempt is reserved, then a thread checks.
StartsCheck(j) ==
  /\ job[j].hold # "" /\ job[j].check <= 0 /\ ~Checking(j)
  /\ Becomes(j, [job[j] EXCEPT !.check = Wait])
  /\ checks' = [checks EXCEPT ![j] = "asked"]
  /\ Calm /\ Stays /\ UNCHANGED talk

Visit(j) ==
  /\ up /\ loop.on /\ loop.ready /\ loop.free > 0 /\ j \in loop.left /\ DueNow(j)
  /\ \A i \in loop.left : DueAt(j) <= DueAt(i)
  /\ \/ RetriesPaused(j) /\ UNCHANGED checks
     \/ StartsDue(j) /\ UNCHANGED <<talk, checks>>
     \/ RetriesReview(j) /\ UNCHANGED <<talk, checks>>
     \/ StartsCheck(j)
  /\ LET started == reader'[j] # "none" \/ checks'[j] # "none" \/ job'[j].phase \in ActivePhases
     IN /\ loop' = [loop EXCEPT !.left = @ \ {j}, !.ready = ~started,
                                !.free = IF started THEN @ - 1 ELSE @]
        /\ quiet' = IF started THEN 0 ELSE quiet
  /\ LoopKeeps

PassEnds ==
  /\ up /\ loop.on /\ (~loop.ready \/ ~\E j \in loop.left : DueNow(j))
  /\ loop' = NoPass
  /\ Calm /\ Stays /\ UNCHANGED <<job, talk, checks, quiet>> /\ LoopKeeps

\* start_conversation_if_due: exempt from the limit and the spacing.
StartReply(j) ==
  /\ Free /\ ReplyDue(j)
  /\ IF ~Idle(j, {j}) \/ job[j].hold # "" THEN talk' = [talk EXCEPT ![j] = "none"] /\ Stays /\ UNCHANGED job
     ELSE IF ~Sound(j) THEN talk' = [talk EXCEPT ![j] = "none"] /\ Stays /\ Becomes(j, HeldFor(job[j], "fix"))
     ELSE /\ talk' = [talk EXCEPT ![j] = "running"]
          /\ Runs(j, job[j], "reply")
  /\ Calm /\ UNCHANGED <<up, checks, sound, server>>

\* _create_pending_jobs, every minute.
CreatePending(p) ==
  /\ Free /\ p \in pending /\ p.due <= 0
  /\ \/ /\ Becomes(p.job, [NewJob(p.job) EXCEPT !.kind = p.kind, !.phase = "prepared",
                             !.queued = TRUE, !.due = 0])
        /\ pending' = pending \ {p} /\ Calm
     \/ pending' = (pending \ {p}) \cup {[p EXCEPT !.due = Wait]} /\ UNCHANGED <<job, asks>> /\ Fault
  /\ Stays /\ UNCHANGED <<up, talk, checks, sound, loop, quiet, batch, requests, raced>>

\* A second (or a minute) passes; what was due keeps waiting.
Sooner(t) == IF t = Never \/ t = Late THEN t ELSE t - 1
Tick ==
  /\ ~loop.on /\ up
  /\ job' = [j \in Jobs |-> [job[j] EXCEPT !.due = Sooner(@), !.check = Sooner(@)]]
  /\ quiet' = IF quiet < Spacing THEN quiet + 1 ELSE quiet
  /\ pending' = {[p EXCEPT !.due = IF @ > 0 THEN @ - 1 ELSE @] : p \in pending}
  /\ <<job, quiet, pending>>' # <<job, quiet, pending>>
  /\ Calm /\ Stays /\ UNCHANGED <<up, talk, checks, sound, loop, batch, requests, raced>>
-----------------------------------------------------------------------------
(***************************************************************************)
(* start_direct_batch: all jobs are created, the web-cutoff ones checked   *)
(* together, and then as many started as the limit allows.                 *)
(***************************************************************************)
BatchKeeps == UNCHANGED <<up, talk, sound, loop, quiet, requests, raced>>

BatchBegins ==
  /\ up /\ batch.at = "none"
  /\ \E k \in Kinds, new \in SUBSET {j \in Jobs : job[j].phase = "absent"} :
       /\ new # {} /\ \A p \in pending : p.job \notin new
       /\ batch' = [NoBatch EXCEPT !.at = "create", !.kind = k, !.todo = new]
  /\ asks + 2 <= MaxAsks /\ asks' = asks + 2
  /\ Stays /\ UNCHANGED <<job, checks, pending, faults>> /\ BatchKeeps

Created(j, k) ==
  [NewJob(j) EXCEPT !.kind = k, !.phase = "prepared", !.queued = k # "web",
                    !.due = IF k = "web" THEN Never ELSE 0, !.hold = IF k = "web" THEN "pending" ELSE ""]

BatchCreates(j) ==
  /\ Free /\ batch.at = "create" /\ j \in batch.todo
  /\ \/ /\ Becomes(j, Created(j, batch.kind)) /\ UNCHANGED pending /\ Calm
        /\ batch' = [batch EXCEPT !.todo = @ \ {j}, !.made = @ \cup {j}]
     \/ /\ batch.kind # "web" /\ Fault /\ UNCHANGED <<job, asks>>
        /\ pending' = pending \cup {[job |-> j, kind |-> batch.kind, due |-> Wait]}
        /\ batch' = [batch EXCEPT !.todo = @ \ {j}]
  /\ Stays /\ UNCHANGED checks /\ BatchKeeps

\* The checks ended: every job joins the queue, or every job is held.
BatchChecked ==
  /\ up /\ batch.at = "create" /\ batch.todo = {}
  /\ \/ /\ \A j \in batch.made : sound[j]
        /\ job' = [j \in Jobs |->
             IF batch.kind = "web" /\ j \in batch.made
             THEN [job[j] EXCEPT !.hold = "", !.queued = TRUE, !.due = 0] ELSE job[j]]
        /\ batch' = [batch EXCEPT !.at = "start", !.free = FreeSlots] /\ Calm
     \/ /\ batch.kind = "web"
        /\ \E cause \in {"fix", "retry"} :
             /\ cause = "fix" => \E j \in batch.made : ~sound[j]
             /\ job' = [j \in Jobs |-> IF j \in batch.made THEN HeldFor(job[j], cause) ELSE job[j]]
             /\ IF cause = "retry" THEN Fault /\ UNCHANGED asks ELSE Calm
        /\ batch' = NoBatch
  /\ Stays /\ UNCHANGED <<checks, pending>> /\ BatchKeeps

BatchStarts(j) ==
  /\ up /\ batch.at = "start" /\ j \in batch.made
  /\ \/ /\ batch.free > 0 /\ StartsDue(j)
     \/ /\ batch.free <= 0 \/ ~job[j].queued \/ job[j].phase # "prepared" \/ job[j].hold # ""
        /\ UNCHANGED job /\ Stays /\ Calm
  /\ batch' = [batch EXCEPT !.made = @ \ {j},
                            !.free = IF reader'[j] # "none" THEN @ - 1 ELSE @]
  /\ UNCHANGED <<checks, pending>> /\ BatchKeeps

BatchEnds ==
  /\ up /\ batch.at = "start" /\ batch.made = {} /\ batch' = NoBatch
  /\ Calm /\ Stays /\ UNCHANGED <<job, checks, pending>> /\ BatchKeeps
-----------------------------------------------------------------------------
(***************************************************************************)
(* A crash of the server, the restoration of its jobs, and the adoption of *)
(* a job whose folder a runner of the old server still works in.           *)
(***************************************************************************)
Crash ==
  /\ up /\ up' = FALSE /\ Fault
  /\ reader' = [j \in Jobs |-> "none"] /\ checks' = [j \in Jobs |-> "none"]
  /\ loop' = NoPass /\ batch' = NoBatch /\ pending' = {} /\ requests' = {} /\ quiet' = Spacing
  /\ UNCHANGED <<job, runner, talk, sound, raced, asks>>

\* Mutant of Rechecked: a check the crash interrupted is not started again.
RecheckedRetry(J) == J.hold = "retry"

Rechecked(J) == J.hold = "retry" \/ (J.phase = "prepared" /\ J.hold = "pending")

\* restore_saved_app.
Restored(J) ==
  [J EXCEPT
    !.phase = CASE J.phase = "reviewing" -> IF J.review /\ J.feedback THEN "reviewed" ELSE "input"
                [] J.phase = "running" -> "paused"
                [] J.phase = "stopping" -> "done"
                [] OTHER -> J.phase,
    !.due = CASE J.phase = "reviewing" -> 0
              [] J.phase = "running" -> IF J.hold = "" THEN Wait ELSE Never
              [] J.phase \in {"prepared", "input", "reviewed"} /\ @ # Never -> 0
              [] OTHER -> @,
    !.check = IF Rechecked(J) THEN 0 ELSE Never,
    !.elsewhere = FALSE]

RestoredTalk(j) ==
  IF job[j].phase # "paused" THEN "none" ELSE IF talk[j] = "running" THEN "queued" ELSE talk[j]

Restart ==
  /\ ~up /\ up' = TRUE
  /\ job' = [j \in Jobs |-> IF ~Listed(j) THEN job[j]
                            ELSE IF Held(j) THEN [job[j] EXCEPT !.elsewhere = TRUE]
                            ELSE Restored(job[j])]
  /\ talk' = [j \in Jobs |-> IF Held(j) THEN talk[j] ELSE RestoredTalk(j)]
  /\ Calm /\ UNCHANGED <<reader, runner, checks, sound, server>>

\* _adopt_released_runs.
Adopt(j) ==
  /\ up /\ job[j].elsewhere /\ ~Held(j)
  /\ Becomes(j, Restored(job[j])) /\ talk' = [talk EXCEPT ![j] = RestoredTalk(j)]
  /\ Calm /\ Stays /\ UNCHANGED <<up, checks, sound, server>>
-----------------------------------------------------------------------------
User == \E j \in Jobs :
  \/ \E k \in Kinds : StartNew(j, k)
  \/ StartNow(j) \/ AskReview(j) \/ Approve(j) \/ Stop(j) \/ Resume(j) \/ AskReply(j)
  \/ StopReply(j) \/ ContinueStopped(j) \/ SavedCheck(j) \/ Delete(j) \/ AskCheck(j)
Helpers == \E j \in Jobs :
  SavedStart(j) \/ RunnerEnds(j) \/ Settle(j) \/ CheckThread(j) \/ CheckEnds(j) \/ Mend(j)
Loop == PassBegins \/ PassEnds \/ Tick
        \/ (\E j \in Jobs : Visit(j) \/ StartReply(j)) \/ (\E p \in pending : CreatePending(p))
Batch == BatchBegins \/ BatchChecked \/ BatchEnds
         \/ \E j \in Jobs : BatchCreates(j) \/ BatchStarts(j)
Process == Crash \/ Restart \/ \E j \in Jobs : Damage(j) \/ Adopt(j)

LaunchNext == User \/ Helpers \/ Loop \/ Batch \/ Process
Spec == Init /\ [][LaunchNext]_vars

\* Each thread of the server goes on while it can take a step -- the retry loop,
\* a batch request, what works for one job (its runner ends at some time) -- and
\* so does the clock; the user and failures may do nothing.
LoopStep == PassBegins \/ PassEnds \/ (\E j \in Jobs : Visit(j) \/ StartReply(j) \/ Adopt(j))
BatchStep == BatchChecked \/ BatchEnds \/ (\E j \in Jobs : BatchCreates(j) \/ BatchStarts(j))
JobStep(j) == RunnerEnds(j) \/ Settle(j) \/ CheckThread(j) \/ CheckEnds(j)
Fairness ==
  /\ WF_vars(LoopStep) /\ WF_vars(BatchStep) /\ WF_vars(Tick) /\ WF_vars(Restart)
  /\ \A j \in Jobs : WF_vars(JobStep(j))
FairSpec == Spec /\ Fairness
-----------------------------------------------------------------------------
(***************************************************************************)
(* Properties.                                                             *)
(***************************************************************************)
TypeOK ==
  /\ up \in BOOLEAN /\ sound \in [Jobs -> BOOLEAN]
  /\ reader \in [Jobs -> Works] /\ runner \in [Jobs -> Works]
  /\ talk \in [Jobs -> {"none", "queued", "running", "again"}]
  /\ checks \in [Jobs -> {"none", "asked"} \cup Holds]
  /\ \A j \in Jobs : job[j].due \in Late .. Never /\ job[j].check \in Late .. Never

Together(i, j) == i # j /\ runner[i] # "none" /\ runner[j] # "none" /\ job[i].home = job[j].home

\* Two runners never work in one author workspace: over replies, automatic
\* retries, continuations, deletion and a crash that leaves its runners behind.
WorkspaceAlone == \A i, j \in Jobs : ~Together(i, j)

\* The same, but for a continuation whose check was overtaken (see raced).
AloneUnlessRaced == \A i, j \in Jobs : Together(i, j) => i \in raced \/ j \in raced

\* A web-cutoff job gets a runner only while its policy is in order and no hold
\* is on it, whichever way it starts and whatever happened since it was checked.
StartsChecked ==
  [][\A j \in Jobs :
       (job[j].kind = "web" \/ job'[j].kind = "web") /\ runner[j] = "none" /\ runner'[j] # "none"
         => sound[j] /\ job'[j].hold = ""]_vars

\* A hold that passes by itself is checked again: an attempt is scheduled,
\* started or running, also after the server crashed during the check.
HoldsAreRechecked ==
  up => \A j \in Jobs :
    Listed(j) /\ ~job[j].elsewhere =>
      /\ job[j].hold = "retry" => job[j].check # Never \/ checks[j] # "none"
      /\ job[j].hold = "pending" =>
           job[j].check # Never \/ checks[j] # "none" \/ j \in batch.made

\* A reviewed job has the statement a review returned, also when a later
\* revision failed, was interrupted by a restart and is tried again.
ReviewedHasReview == \A j \in Jobs : job[j].phase = "reviewed" => job[j].review

\* What waits for the server -- a queued job, a retry of a paused one, an
\* interrupted review -- does not wait for ever: it is started, held with its
\* cause, or leaves at the user's request.
Waits(j) ==
  /\ Listed(j) /\ job[j].hold = "" /\ ~job[j].stopped /\ job[job[j].home].phase # "trash"
  /\ \/ job[j].phase = "prepared" /\ job[j].queued
     \/ job[j].phase \in {"paused", "input", "reviewed"} /\ job[j].due # Never
NobodyWaitsForever == \A j \in Watched : Waits(j) ~> ~Waits(j)
=============================================================================
