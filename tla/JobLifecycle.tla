---------------------------- MODULE JobLifecycle ----------------------------
(***************************************************************************)
(* One job of the web UI (class App of src/ui/server.py): its phase, the   *)
(* runner subprocess that does the work, the reader thread that follows    *)
(* the runner's records, the pause checkpoint and the stop marker on disk, *)
(* the paused author's reply, the retry loop of the server, and what a     *)
(* crash, a graceful shutdown and a restart do to all of these.            *)
(*                                                                         *)
(* A runner is named by its launch number, which stands for the token      *)
(* object of one launch; 0 is None.  active_token and App.process are set  *)
(* and cleared together, so `active' stands for both.  Workflow steps are  *)
(* "author" (the author works), "submitted" (its author_result is the last *)
(* record, the next step has not reported yet) and "later" (critic,        *)
(* convention and LaTeX steps).  Deadlines are abstracted to "none",       *)
(* "wait" and "due".                                                       *)
(***************************************************************************)
EXTENDS Naturals, Sequences, FiniteSets

CONSTANTS
  MaxLaunches,   \* bound: runners started in one behaviour
  MaxCrashes,    \* bound: server crashes and shutdowns
  MaxBreaks,     \* bound: failures of the reader thread
  MaxUnsaved,    \* bound: checkpoints a restart cannot save
  MaxPipe        \* bound: records written but not read yet

ASSUME JobConstants ==
  /\ MaxLaunches \in Nat /\ MaxCrashes \in Nat /\ MaxBreaks \in Nat
  /\ MaxUnsaved \in Nat /\ MaxPipe \in Nat

VARIABLES
  \* memory of the server process
  up,        \* "up", "closing" (stop_all runs) or "down"
  phase,     \* App.state.phase
  elsewhere, \* state.runningElsewhere: another process owns the run
  node,      \* last_work_node and state.activeNode, also read from the transcript
  active,    \* active_token and process
  worker,    \* worker_token: the launch whose reader has not settled
  reader,    \* the reader thread of `worker'
  heard,     \* how the reply being read ended, so far
  finisher,  \* the helper thread Pause or Stop left behind
  stopped,   \* state.manuallyStopped
  auto,      \* state.autoResumeAt
  unsaved,   \* _unsaved_checkpoint
  \* files
  ckpt,      \* pause.json
  stopFile,  \* the manual stop marker (or its transcript record)
  request,   \* the pause request file the runner polls
  result,    \* the terminal record since the last launch, in the transcript
  reply,     \* the newest conversation item of the paused author
  over,      \* whether the author's time limit is used up (margin included)
  \* runner processes
  live,      \* launches whose process runs
  job,       \* what the newest launch does: "work" or "reply"
  rnode,     \* the step the newest runner is at
  pipe,      \* records of the newest runner that were not read yet
  launches, crashes, breaks, lost,
  dropped,   \* a failed reader settled the pause, and its checkpoint was lost
  \* history, read by properties only
  intent,    \* what the user wants: "run", "pause", "stop"; "attention": only Resume continues
  asked,     \* automatic summaries asked for in this pause
  noticed    \* whether this pause recorded "Time limit reached"

server  == <<up, elsewhere, crashes>>
tokens  == <<active, worker, reader, heard, finisher>>
files   == <<ckpt, stopFile, request, result, over>>
runners == <<live, job, rnode, pipe, launches>>
faults  == <<breaks, lost, dropped>>
history == <<intent, asked, noticed>>
vars == <<server, phase, node, tokens, stopped, auto, unsaved, files, reply,
          runners, faults, history>>

Launches == 1 .. MaxLaunches
Steps    == {"author", "submitted", "later"}
Causes   == {"", "user", "error", "restart", "interrupted", "time-limit"}
Reasons  == {"", "error", "limit", "safety", "settings"}

\* The fields of pause.json the lifecycle reads.  "none": no checkpoint file.
Checkpoints ==
  [status : {"none", "running", "pausing", "paused"}, cause : Causes,
   node : {"author", "later"}, summary : {"unset", "no", "yes"},
   block : {"none", "safety", "settings"}]

NoCkpt == [status |-> "none", cause |-> "", node |-> "author",
           summary |-> "unset", block |-> "none"]

Records == [kind : {"submitted", "step", "rejected", "final", "failure",
                    "retry", "attempt", "reply", "refused"}]
           \cup [kind : {"paused"}, node : {"author", "later"}, why : Reasons]

Idle == [status |-> "idle", failed |-> FALSE]
Replies == [status : {"idle", "queued", "running"}, failed : BOOLEAN]

ActivePhases == {"running", "pausing", "stopping"}
Busy == reply.status # "idle"                    \* _conversation_busy_locked
-----------------------------------------------------------------------------
Init ==
  /\ up = "up" /\ elsewhere = FALSE /\ crashes = 0
  /\ phase = "ready" /\ node = "author"
  /\ active = 0 /\ worker = 0 /\ reader = "none" /\ heard = "" /\ finisher = "none"
  /\ stopped = FALSE /\ auto = "none" /\ unsaved = NoCkpt
  /\ ckpt = NoCkpt /\ stopFile = FALSE /\ request = FALSE /\ result = "none"
  /\ over = FALSE /\ reply = Idle
  /\ live = {} /\ job = "work" /\ rnode = "author" /\ pipe = <<>> /\ launches = 0
  /\ breaks = 0 /\ lost = 0 /\ dropped = FALSE
  /\ intent = "run" /\ asked = 0 /\ noticed = FALSE
-----------------------------------------------------------------------------
(***************************************************************************)
(* Pieces several handlers share.                                          *)
(***************************************************************************)

\* _configure_auto_resume: the cause an exhausted author's pause gets, and
\* whether the server retries it by itself.
Exhausted(c) == c.node = "author" /\ over

Configured(c) ==
  IF c.cause = "" THEN [c EXCEPT !.cause = "user"]   \* only in one of a run at work
  ELSE IF Exhausted(c) /\ c.cause \in {"error", "interrupted", "restart"}
  THEN [c EXCEPT !.cause = "time-limit",
                 !.summary = IF c.cause # "error" /\ @ = "unset" THEN "no" ELSE @]
  ELSE c

Retries(c) ==
  /\ c.cause \in {"error", "interrupted", "restart"}
  /\ ~Exhausted(c)
  /\ c.block = "none"

\* _time_limit_reached_locked for the pause c of a job whose reply is r.
LimitReached(c) == c.cause = "time-limit" /\ c.summary # "yes"

CanTalk(c) == c.node = "author" /\ c.block # "safety"   \* _conversation_problem_locked

Asks(c, r) == LimitReached(c) /\ CanTalk(c) /\ r.status = "idle"

AfterNotice(c) == IF LimitReached(c) THEN [c EXCEPT !.summary = "yes"] ELSE c

\* The job waits at c (already configured) while its reply is r.
WaitsAt(c, r) ==
  /\ auto' = IF Retries(c) THEN "wait" ELSE "none"
  /\ reply' = IF Asks(c, r) THEN [Idle EXCEPT !.status = "queued"] ELSE r
  /\ asked' = IF Asks(c, r) THEN asked + 1 ELSE asked
  /\ noticed' = (noticed \/ LimitReached(c))
  /\ intent' = IF c.cause = "time-limit" /\ intent = "run" THEN "attention" ELSE intent

\* The job becomes paused at c.
PausesAt(c, r) == phase' = "paused" /\ node' = c.node /\ WaitsAt(c, r)

\* _spawn_runner_locked and _spawn_worker: a new token, process and reader.
Spawns(kind, at) ==
  /\ launches < MaxLaunches
  /\ launches' = launches + 1
  /\ active' = launches + 1 /\ worker' = launches + 1
  /\ reader' = "reading" /\ heard' = "" /\ finisher' = "none"
  /\ live' = live \cup {launches + 1}
  /\ job' = kind /\ rnode' = at /\ pipe' = <<>>

\* _launch_workflow_locked at a step: a launch of the job's own work.
LaunchesWork(at) ==
  /\ Spawns("work", at)
  /\ phase' = "running" /\ node' = at
  /\ auto' = "none" /\ result' = "none"
  /\ asked' = 0 /\ noticed' = FALSE /\ dropped' = FALSE

\* The reader settles: it gives up its tokens (the runner has been reaped).
TokensDropped ==
  /\ active' = 0 /\ worker' = 0 /\ reader' = "none" /\ heard' = ""
  /\ UNCHANGED finisher

\* What the end of the server process takes with it (the transcript keeps `node').
MemoryLost ==
  /\ phase' = "off" /\ elsewhere' = FALSE
  /\ active' = 0 /\ worker' = 0 /\ reader' = "none" /\ heard' = "" /\ finisher' = "none"
  /\ stopped' = FALSE /\ auto' = "none" /\ unsaved' = NoCkpt
  /\ pipe' = <<>>
  /\ up' = "down"

Here == up = "up" /\ ~elsewhere                 \* _check_owned_here
-----------------------------------------------------------------------------
(***************************************************************************)
(* What the user does on the job page.                                     *)
(***************************************************************************)

\* approve, start_prepared_run or a review-free start: the first launch.
Start ==
  /\ Here /\ phase = "ready" /\ worker = 0
  /\ LaunchesWork("author")
  /\ intent' = "run"
  /\ UNCHANGED <<server, stopped, unsaved, ckpt, stopFile, request, over, reply, breaks, lost>>

\* pause() while the author works; cause "user" from the button, "restart"
\* from stop_all.
PausesAuthor(cause) ==
  /\ phase = "running" /\ node \in {"author", "submitted"}
  /\ ckpt' = [NoCkpt EXCEPT !.status = "pausing", !.cause = cause]
  /\ request' = TRUE
  /\ phase' = "pausing" /\ auto' = "none"
  /\ finisher' = "pause"

Pause ==
  /\ Here
  /\ PausesAuthor("user")
  /\ intent' = "pause"
  /\ UNCHANGED <<server, node, active, worker, reader, heard, stopped, unsaved,
                 stopFile, result, over, reply, runners, faults, asked, noticed>>

\* Mutant of KeepPaused: the retry is cancelled in memory only.
KeepPausedInMemory ==
  /\ Here /\ phase \in {"pausing", "paused"}
  /\ auto' = "none" /\ intent' = "pause"
  /\ UNCHANGED <<server, phase, node, tokens, stopped, unsaved, files,
                 reply, runners, faults, asked, noticed>>

\* pause() of a pausing or paused job ("Keep paused"): no automatic retry.
KeepPaused ==
  /\ Here /\ phase \in {"pausing", "paused"}
  /\ ckpt' = IF ckpt.status = "none" \/ ckpt.cause = "time-limit" THEN ckpt
             ELSE [ckpt EXCEPT !.cause = "user"]
  /\ auto' = "none"
  /\ intent' = "pause"
  /\ UNCHANGED <<server, phase, node, tokens, stopped, unsaved, stopFile, request,
                 result, over, reply, runners, faults, asked, noticed>>

\* stop() up to stop_process_tree: the stop is recorded, the checkpoint goes.
Stop ==
  /\ Here /\ phase \in {"running", "pausing"}
  /\ stopFile' = TRUE /\ stopped' = TRUE
  /\ phase' = "stopping" /\ auto' = "none"
  /\ request' = FALSE /\ ckpt' = NoCkpt
  /\ finisher' = "stop"
  /\ intent' = "stop"
  /\ UNCHANGED <<server, node, active, worker, reader, heard, unsaved, result,
                 over, reply, runners, faults, asked, noticed>>

\* stop() after stop_process_tree: a reader that ended without settling never will.
StopSettles ==
  /\ up # "down" /\ finisher = "stop" /\ worker \notin live
  /\ finisher' = "none"
  /\ IF phase = "stopping" /\ (worker = 0 \/ reader = "gone")
     THEN /\ phase' = "done"
          /\ active' = 0 /\ worker' = 0 /\ reader' = "none"
     ELSE UNCHANGED <<phase, active, worker, reader>>
  /\ UNCHANGED <<server, node, heard, stopped, auto, unsaved, files, reply,
                 runners, faults, history>>

\* finish_if_unresponsive and _settle_pause_without_reader, once the runner ended.
PauseSettles ==
  /\ up # "down" /\ finisher = "pause" /\ worker \notin live
  /\ finisher' = "none"
  /\ IF phase = "pausing" /\ reader = "gone"
     THEN LET c == Configured([ckpt EXCEPT !.status = "paused"])
          IN /\ PausesAt(c, reply)
             /\ ckpt' = AfterNotice(c)
             /\ active' = 0 /\ worker' = 0 /\ reader' = "none"
     ELSE UNCHANGED <<phase, node, auto, reply, ckpt, active, worker, reader, history>>
  /\ UNCHANGED <<server, heard, stopped, unsaved, stopFile, request, result, over,
                 runners, faults>>

\* What both ways to resume check under the lock that launches.
MayResume ==
  /\ Here /\ phase = "paused" /\ worker = 0 /\ ~Busy
  /\ ~(node = "author" /\ over)

\* Mutant of Saved: the checkpoint kept in memory is forgotten.
SavedOnDisk == ckpt

\* The checkpoint Resume reads: one that could not be saved is saved first.
Saved == IF unsaved # NoCkpt THEN unsaved ELSE ckpt

\* resume(): the same run continues at its checkpoint with a new runner.
Resumes(c) ==
  /\ MayResume
  /\ c.status # "none"                            \* load_pause_checkpoint
  /\ LaunchesWork(c.node)
  /\ ckpt' = [c EXCEPT !.status = "running", !.cause = "", !.block = "none"]
  /\ unsaved' = NoCkpt /\ request' = FALSE
  /\ UNCHANGED <<server, stopped, stopFile, over, reply, breaks, lost>>

Resume == Resumes(Saved) /\ intent' = "run"

\* continue_historical: a stopped or paused web-cutoff run starts over in place.
Continue ==
  /\ Here /\ phase \in {"paused", "done"} /\ worker = 0
  /\ LaunchesWork("author")
  /\ stopFile' = FALSE /\ stopped' = FALSE
  /\ ckpt' = NoCkpt /\ unsaved' = NoCkpt /\ request' = FALSE
  /\ intent' = "run"
  /\ UNCHANGED <<server, over, reply, breaks, lost>>

\* set_author_time_limit, and the passing of active time.
ChangeLimit ==
  /\ Here /\ phase \in {"running", "pausing", "paused"}
  /\ over' = ~over
  /\ UNCHANGED <<server, phase, node, tokens, stopped, auto, unsaved, ckpt, stopFile,
                 request, result, reply, runners, faults, history>>

\* ask_author and request_author_summary; the live state decides who can be asked.
Talks == node = "author" /\ Saved.block # "safety"

AskAuthor ==
  /\ Here /\ phase = "paused" /\ ~Busy /\ Talks
  /\ reply' = [Idle EXCEPT !.status = "queued"]
  /\ UNCHANGED <<server, phase, node, tokens, stopped, auto, unsaved, files,
                 runners, faults, history>>

\* Mutant of StopReply: the job is free before the reply's runner is gone.
StopReplyFreesJob ==
  /\ Here /\ Busy
  /\ IF reply.status = "running"
     THEN TokensDropped ELSE UNCHANGED <<active, worker, reader, heard, finisher>>
  /\ reply' = Idle
  /\ UNCHANGED <<server, phase, node, stopped, auto, unsaved, files, runners, faults, history>>

\* stop_author_reply: the reader of a cancelled reply only saves.
StopReply ==
  /\ Here /\ Busy
  /\ active' = IF reply.status = "running" THEN 0 ELSE active
  /\ reply' = Idle
  /\ UNCHANGED <<server, phase, node, worker, reader, heard, finisher, stopped, auto,
                 unsaved, files, runners, faults, history>>
-----------------------------------------------------------------------------
(***************************************************************************)
(* The retry loop of the server (Server._retry_paused_jobs).               *)
(***************************************************************************)

RetryTimePasses ==
  /\ auto = "wait"
  /\ auto' = "due"
  /\ UNCHANGED <<server, phase, node, tokens, stopped, unsaved, files, reply,
                 runners, faults, history>>

\* start_conversation_if_due.
StartReply ==
  /\ Here /\ phase = "paused" /\ worker = 0
  /\ reply.status = "queued" /\ ~(auto = "due" /\ reply.failed)
  /\ \/ /\ Talks
        /\ Spawns("reply", "author")
        /\ reply' = [status |-> "running", failed |-> FALSE]
     \/ /\ reply' = Idle               \* it cannot be asked: the item fails
        /\ UNCHANGED <<tokens, runners>>
  /\ UNCHANGED <<server, phase, node, stopped, auto, unsaved, files, faults, history>>

\* launch_due_at lets auto_resume_if_due run for this job.
RetryDue == Here /\ phase = "paused" /\ worker = 0 /\ auto = "due" /\ ~stopped

\* A queued reply that failed before gives way to the run's own retry.
AutoStopReply ==
  /\ RetryDue /\ reply.status = "queued" /\ reply.failed
  /\ reply' = Idle
  /\ UNCHANGED <<server, phase, node, tokens, stopped, auto, unsaved, files,
                 runners, faults, history>>

\* The limit was used up in the meantime: the pause waits for the user.
AutoReconfigure ==
  /\ RetryDue /\ ~Busy /\ Saved.status # "none"
  /\ LET c == Configured(Saved)
     IN /\ ~Retries(c)
        /\ WaitsAt(c, reply)
        /\ ckpt' = AfterNotice(c)
  /\ unsaved' = NoCkpt
  /\ UNCHANGED <<server, phase, node, tokens, stopped, stopFile, request, result, over, runners, faults>>

AutoResume ==
  /\ RetryDue /\ Retries(Configured(Saved))
  /\ Resumes(Configured(Saved))
  /\ UNCHANGED intent

\* A launch that fails, models that are not configured, or no checkpoint: the next try
\* is reserved (defer_auto_resume).
AutoResumeFails ==
  /\ RetryDue /\ ~Busy /\ (Retries(Configured(Saved)) \/ Saved.status = "none")
  /\ auto' = "wait"
  /\ ckpt' = Saved /\ unsaved' = NoCkpt
  /\ UNCHANGED <<server, phase, node, tokens, stopped, stopFile, request, result,
                 over, reply, runners, faults, history>>

\* _settings_changed_locked: the API model an error pause waits for was changed.
SettingsChange ==
  /\ Here /\ phase = "paused" /\ worker = 0 /\ auto = "none" /\ ~stopped
  /\ ckpt.block = "settings" /\ ckpt.cause = "error"
  /\ ckpt' = [ckpt EXCEPT !.block = "none"]
  /\ auto' = "due"
  /\ UNCHANGED <<server, phase, node, tokens, stopped, unsaved, stopFile, request,
                 result, over, reply, runners, faults, history>>
-----------------------------------------------------------------------------
(***************************************************************************)
(* The runner (workflow_runner.py), seen through the records it writes.    *)
(***************************************************************************)

Runs(kind) == launches \in live /\ job = kind
\* Only a runner whose server still reads can write; an orphan can only end.
Attached(kind) == Runs(kind) /\ worker = launches /\ up # "down"

Writes(r) == Len(pipe) < MaxPipe /\ pipe' = Append(pipe, r)
Exits == live' = live \ {launches}

RunnerOnly == UNCHANGED <<server, phase, node, tokens, stopped, auto, unsaved, files,
                          reply, job, launches, faults, history>>

\* The author submits, the critic starts, and rejects: the next author turn.
RunnerSteps ==
  /\ Attached("work")
  /\ \/ rnode = "author" /\ rnode' = "submitted" /\ Writes([kind |-> "submitted"])
     \/ rnode = "submitted" /\ ~request /\ rnode' = "later" /\ Writes([kind |-> "step"])
     \/ rnode = "later" /\ ~request /\ rnode' = "author" /\ Writes([kind |-> "rejected"])
  /\ UNCHANGED live
  /\ RunnerOnly

\* workflow_paused: a requested pause (also before a step the graph goes on
\* to), a failed step, the author's limit, or a submission that cannot be
\* handed on (HandoffRefused: the author continues).
RunnerPauses ==
  /\ Attached("work")
  /\ \E at \in {"author", "later"}, why \in Reasons :
       /\ rnode = "author" => at = "author"
       /\ rnode = "submitted" /\ at = "author" => why = "error"
       /\ rnode = "later" /\ at = "author" => why \in {"", "limit"}
       /\ why = "" => request
       /\ why = "limit" => at = "author" /\ over
       /\ Writes([kind |-> "paused", node |-> at, why |-> why])
  /\ Exits /\ UNCHANGED rnode
  /\ RunnerOnly

\* The workflow ends: the final answer, or a failure report of a later step.
RunnerFinishes ==
  /\ Attached("work") /\ rnode = "later"
  /\ \E k \in {"final", "failure"} : Writes([kind |-> k])
  /\ Exits /\ UNCHANGED rnode
  /\ RunnerOnly

\* A reply's model call fails and waits for its retry, or it ends.
ReplyRetries ==
  /\ Attached("reply")
  /\ \E k \in {"retry", "attempt"} : Writes([kind |-> k])
  /\ UNCHANGED <<live, rnode>>
  /\ RunnerOnly

ReplyEnds ==
  /\ Attached("reply")
  /\ \E k \in {"reply", "refused"} : Writes([kind |-> k])
  /\ Exits /\ UNCHANGED rnode
  /\ RunnerOnly

\* The process ends without a record: killed, out of memory, or an orphan
\* whose reader is gone.
RunnerDies ==
  /\ launches \in live
  /\ Exits
  /\ UNCHANGED <<rnode, pipe>>
  /\ RunnerOnly

\* stop_process_tree on the newest runner: after Stop, after a cancelled
\* reply, when a pause is not acknowledged, and at a shutdown.
RunnerKilled ==
  /\ \/ phase \in {"stopping", "pausing"}
     \/ job = "reply" /\ active = 0
     \/ up # "up" \/ elsewhere
  /\ RunnerDies
-----------------------------------------------------------------------------
(***************************************************************************)
(* The reader thread (_read_records, _read_conversation_output).           *)
(***************************************************************************)

Reading(kind) == up # "down" /\ reader = "reading" /\ job = kind
NextIs(k) == pipe # <<>> /\ Head(pipe).kind = k
Pop == pipe' = Tail(pipe) /\ UNCHANGED <<live, job, rnode, launches>>

\* A record of the next step: the stage and the node follow it.
ReadStep ==
  /\ Reading("work")
  /\ \E k \in {"submitted", "step", "rejected"} :
       /\ NextIs(k)
       /\ node' = CASE k = "submitted" -> "submitted"
                    [] k = "step" -> "later"
                    [] k = "rejected" -> "author"
  /\ Pop
  /\ UNCHANGED <<server, phase, tokens, stopped, auto, unsaved, files, reply, faults, history>>

\* The cause a workflow_paused record leaves in the checkpoint.
PauseCause(r) ==
  LET prior == IF phase = "pausing" THEN ckpt.cause ELSE "error"
      cause == IF prior \in {"user", "error", "restart"} THEN prior
               ELSE IF r.why = "" THEN "user" ELSE "error"
  IN IF cause \in {"error", "restart"} /\ r.node = "author" /\ r.why = "limit"
     THEN "time-limit" ELSE cause

Block(why) == IF why \in {"safety", "settings"} THEN why ELSE "none"

ReadPaused ==
  /\ Reading("work") /\ NextIs("paused")
  /\ LET r == Head(pipe)
     IN /\ node' = r.node
        /\ IF phase # "stopping" /\ ~stopped
           THEN /\ ckpt' = [status |-> "pausing", cause |-> PauseCause(r), node |-> r.node,
                            summary |-> "no", block |-> Block(r.why)]
                /\ phase' = "pausing"
                /\ intent' = IF intent = "run" /\ r.why \in {"limit", "safety"}
                             THEN "attention" ELSE intent
           ELSE UNCHANGED <<ckpt, phase, intent>>
  /\ Pop
  /\ UNCHANGED <<server, tokens, stopped, auto, unsaved, stopFile, request, result,
                 over, reply, faults, asked, noticed>>

\* final_result and failure_result: a complete result wins a stop under way.
ReadResult ==
  /\ Reading("work")
  /\ \E k \in {"final", "failure"} :
       /\ NextIs(k)
       /\ result' = IF k = "final" THEN "final" ELSE "failed"
  /\ IF stopped
     THEN stopFile' = FALSE /\ stopped' = FALSE /\ phase' = "done"
     ELSE UNCHANGED <<stopFile, stopped, phase>>
  /\ Pop
  /\ UNCHANGED <<server, node, tokens, auto, unsaved, ckpt, request, over, reply,
                 faults, history>>

\* The runner ended and its records are read: the job settles.
AtEnd == up # "down" /\ pipe = <<>> /\ worker \notin live

\* Mutant of LeftPause: the checkpoint is not marked paused.
LeftPauseUnmarked ==
  LET base == [ckpt EXCEPT !.summary = "no"]
  IN IF result = "final" \/ phase = "stopping" THEN NoCkpt
     ELSE IF phase = "pausing" THEN base
     ELSE IF node = "later" /\ result = "failed" THEN NoCkpt
     ELSE [base EXCEPT !.node = IF node = "later" THEN "later" ELSE "author",
                       !.cause = "error"]

\* The pause an ended runner leaves, when it leaves one.
LeftPause ==
  LET author == phase # "stopping" /\ node \in {"author", "submitted"}
      later  == phase \notin {"stopping", "pausing"} /\ result = "none" /\ node = "later"
      base   == [ckpt EXCEPT !.status = "paused", !.summary = "no"]
  IN IF result = "final" THEN NoCkpt
     ELSE IF phase = "pausing" THEN base
     ELSE IF author THEN [base EXCEPT !.node = "author", !.cause = "error"]
     ELSE IF later THEN [base EXCEPT !.node = "later", !.cause = "error"]
     ELSE NoCkpt

SettlePaused ==
  /\ Reading("work") /\ AtEnd /\ LeftPause # NoCkpt
  /\ LET c == Configured(LeftPause)
     IN PausesAt(c, reply) /\ ckpt' = AfterNotice(c)
  /\ TokensDropped
  /\ UNCHANGED <<server, stopped, unsaved, stopFile, request, result, over, runners, faults>>

\* A crash inside that settling: the checkpoint was saved, the summary perhaps
\* asked for, and summaryRequested not saved yet.
CrashWhileSettling ==
  /\ Reading("work") /\ AtEnd /\ LeftPause # NoCkpt /\ crashes < MaxCrashes
  /\ LET c == Configured(LeftPause)
     IN /\ ckpt' = c
        /\ \/ UNCHANGED <<reply, asked, noticed>>
           \/ /\ Asks(c, reply)
              /\ reply' = [Idle EXCEPT !.status = "queued"]
              /\ asked' = asked + 1 /\ noticed' = TRUE
        /\ intent' = IF c.cause = "time-limit" /\ intent = "run" THEN "attention" ELSE intent
  /\ crashes' = crashes + 1
  /\ MemoryLost
  /\ UNCHANGED <<node, stopFile, request, result, over, live, job, rnode, launches, faults>>

SettleDone ==
  /\ Reading("work") /\ AtEnd /\ LeftPause = NoCkpt
  /\ phase' = "done"
  /\ IF result # "none" THEN stopFile' = FALSE /\ stopped' = FALSE
     ELSE UNCHANGED <<stopFile, stopped>>
  /\ TokensDropped
  /\ UNCHANGED <<server, node, auto, unsaved, ckpt, request, result, over, reply,
                 runners, faults, history>>

\* A reply's record: its retry waits are shown on the item only.
ReadReply ==
  /\ Reading("reply") /\ pipe # <<>>
  /\ LET k == Head(pipe).kind
     IN /\ reply' = IF reply.status = "running" /\ active = worker /\ k \in {"retry", "attempt"}
                    THEN [reply EXCEPT !.failed = (k = "retry")] ELSE reply
        /\ heard' = IF k \in {"reply", "refused"} THEN k ELSE heard
  /\ Pop
  /\ UNCHANGED <<server, phase, node, active, worker, reader, finisher, stopped, auto,
                 unsaved, files, faults, history>>

\* The reply is answered or failed; a runner that said nothing is asked again.
SettleReply ==
  /\ Reading("reply") /\ AtEnd
  /\ reply' = IF active # worker \/ reply.status # "running" THEN reply
              ELSE IF heard # "" THEN Idle
              ELSE [status |-> "queued", failed |-> TRUE]
  /\ TokensDropped
  /\ UNCHANGED <<server, phase, node, stopped, auto, unsaved, files, runners, faults, history>>

\* _read_after_failure: a record or a write that cannot be handled; the rest
\* of the output is only saved.
ReaderBreaks ==
  /\ Reading("work") /\ breaks < MaxBreaks
  /\ breaks' = breaks + 1
  /\ reader' = "draining"
  /\ pipe' = IF pipe = <<>> THEN pipe ELSE Tail(pipe)
  /\ UNCHANGED <<server, phase, node, active, worker, heard, finisher, stopped, auto,
                 unsaved, files, reply, live, job, rnode, launches, lost, dropped, history>>

Drain ==
  /\ up # "down" /\ reader = "draining" /\ pipe # <<>>
  /\ LET r == Head(pipe)
     IN /\ node' = CASE r.kind = "submitted" -> "submitted"
                     [] r.kind = "step" -> "later"
                     [] r.kind = "rejected" -> "author"
                     [] r.kind = "paused" -> r.node
                     [] OTHER -> node
        /\ result' = CASE r.kind = "final" -> "final"
                       [] r.kind = "failure" -> "failed"
                       [] OTHER -> result
  /\ Pop
  /\ UNCHANGED <<server, phase, tokens, stopped, auto, unsaved, ckpt, stopFile, request,
                 over, reply, faults, history>>
-----------------------------------------------------------------------------
(***************************************************************************)
(* Restoring a run from its files (restore_saved_app): after a restart,    *)
(* when another process released it, and when its reader failed.           *)
(***************************************************************************)

\* saved_manual_stop: a terminal result later than the last request wins.
StopWins == stopFile /\ result = "none"

\* Mutant of Rebuilt: the stop marker is not looked at.
RebuiltUnstopped ==
  IF result = "final" \/ launches = 0 THEN NoCkpt
  ELSE IF ckpt.status \in {"paused", "pausing"} THEN ckpt
  ELSE IF node = "author" \/ (node = "later" /\ result # "failed")
       THEN [ckpt EXCEPT !.status = "paused", !.cause = "interrupted", !.node = node]
  ELSE NoCkpt

\* Mutant of Rebuilt: only the author's work is rebuilt.
RebuiltAuthorOnly ==
  IF StopWins \/ result = "final" \/ launches = 0 THEN NoCkpt
  ELSE IF ckpt.status \in {"paused", "pausing"} THEN ckpt
  ELSE IF node = "author"
       THEN [ckpt EXCEPT !.status = "paused", !.cause = "interrupted", !.node = node]
  ELSE NoCkpt

\* The checkpoint of a restored job: the saved pause, or one rebuilt for the
\* step its runner was interrupted at.
Rebuilt ==
  IF StopWins \/ result = "final" \/ launches = 0 THEN NoCkpt
  ELSE IF ckpt.status \in {"paused", "pausing"} THEN ckpt
  ELSE IF node = "author" \/ (node = "later" /\ result # "failed")
       THEN [ckpt EXCEPT !.status = "paused", !.cause = "interrupted", !.node = node]
  ELSE NoCkpt

\* _restore_conversation: an interrupted reply is asked for again.
RestoredReply ==
  IF reply.status = "running" THEN [status |-> "queued", failed |-> FALSE] ELSE reply

\* A checkpoint that cannot be saved is kept in the memory of the restored App.
Restores(keeps) ==
  /\ stopped' = StopWins
  /\ IF Rebuilt = NoCkpt
     THEN /\ phase' = (IF launches = 0 THEN "ready" ELSE "done")
          /\ auto' = "none" /\ reply' = Idle
          /\ UNCHANGED <<node, ckpt, unsaved, lost, history>> /\ dropped' = FALSE
     ELSE LET c == Configured(Rebuilt)
          IN /\ PausesAt(c, RestoredReply)
             /\ \/ /\ ckpt' = AfterNotice(c)
                   /\ UNCHANGED <<unsaved, lost>> /\ dropped' = FALSE
                \/ /\ lost < MaxUnsaved          \* the save fails
                   /\ lost' = lost + 1
                   /\ IF keeps THEN unsaved' = AfterNotice(c) ELSE UNCHANGED unsaved
                   /\ dropped' = ~keeps
                   /\ UNCHANGED ckpt

\* Mutant of SettleDrained: a failed reader leaves a stopped job alone.
SettleDrainedUnlessStopped ==
  /\ reader = "draining" /\ AtEnd
  /\ active \in {0, worker} /\ ~stopped
  /\ Restores(FALSE)
  /\ TokensDropped
  /\ UNCHANGED <<server, stopFile, request, result, over, runners, breaks>>

\* _settle_from_saved_run: a failed reader settles as a restart would, in an App of
\* its own of which only the settled fields and the conversation are taken over.
SettleDrained ==
  /\ reader = "draining" /\ AtEnd
  /\ active \in {0, worker}
  /\ Restores(FALSE)
  /\ TokensDropped
  /\ UNCHANGED <<server, stopFile, request, result, over, runners, breaks>>

\* That settling fails too: the thread ends and leaves its tokens behind.
ReaderVanishes ==
  /\ reader = "draining" /\ AtEnd /\ breaks < MaxBreaks
  /\ breaks' = breaks + 1
  /\ reader' = "gone"
  /\ UNCHANGED <<server, phase, node, active, worker, heard, finisher, stopped, auto,
                 unsaved, files, reply, runners, lost, dropped, history>>
-----------------------------------------------------------------------------
(***************************************************************************)
(* The server process.                                                     *)
(***************************************************************************)

\* Killed: the runner keeps running, with the owner lock it inherited.
Crash ==
  /\ up # "down" /\ crashes < MaxCrashes
  /\ crashes' = crashes + 1
  /\ MemoryLost
  /\ UNCHANGED <<node, files, reply, live, job, rnode, launches, faults, history>>

\* stop_all: a working author is paused for the restart, others are interrupted.
Close ==
  /\ up = "up" /\ crashes < MaxCrashes
  /\ crashes' = crashes + 1 /\ up' = "closing"
  /\ IF ~elsewhere /\ phase = "running" /\ node # "later" /\ live # {}
     THEN PausesAuthor("restart")
     ELSE UNCHANGED <<phase, auto, ckpt, request, finisher>>
  /\ UNCHANGED <<elsewhere, node, active, worker, reader, heard, stopped, unsaved, stopFile,
                 result, over, reply, runners, faults, history>>

\* Whatever still runs after the shutdown wait is stopped; readers may not
\* have settled.
Exit ==
  /\ up = "closing"
  /\ live' = IF elsewhere THEN live ELSE {}
  /\ MemoryLost
  /\ UNCHANGED <<node, files, reply, job, rnode, launches, crashes, faults, history>>

\* restore_one_run: a run whose lock a live runner still holds is left alone.
Restart ==
  /\ up = "down"
  /\ up' = "up"
  /\ IF live # {}
     THEN /\ elsewhere' = TRUE /\ phase' = "running"
          /\ UNCHANGED <<node, stopped, auto, unsaved, ckpt, reply, lost, dropped, history>>
     ELSE Restores(TRUE) /\ UNCHANGED elsewhere
  /\ UNCHANGED <<tokens, stopFile, request, result, over, runners, crashes, breaks>>

\* _adopt_released_runs.
Adopt ==
  /\ up = "up" /\ elsewhere /\ live = {}
  /\ elsewhere' = FALSE
  /\ Restores(TRUE)
  /\ UNCHANGED <<up, crashes, tokens, stopFile, request, result, over, runners, breaks>>
-----------------------------------------------------------------------------
User    == Start \/ Pause \/ KeepPaused \/ Stop \/ Resume \/ Continue \/ ChangeLimit
           \/ AskAuthor \/ StopReply
Helpers == StopSettles \/ PauseSettles
Loop    == RetryTimePasses \/ StartReply \/ AutoStopReply \/ AutoReconfigure
           \/ AutoResume \/ AutoResumeFails \/ SettingsChange
Runner  == RunnerSteps \/ RunnerPauses \/ RunnerFinishes \/ ReplyRetries \/ ReplyEnds
           \/ RunnerDies
Reader  == ReadStep \/ ReadPaused \/ ReadResult \/ SettlePaused \/ SettleDone \/ ReadReply
           \/ SettleReply \/ Drain \/ SettleDrained
Failing == ReaderBreaks \/ ReaderVanishes \/ CrashWhileSettling
Process == Crash \/ Close \/ Exit \/ Restart \/ Adopt

Next == User \/ Helpers \/ Loop \/ Runner \/ Reader \/ Failing \/ Process

Spec == Init /\ [][Next]_vars

(***************************************************************************)
(* Fairness.  Threads of the server keep running, a process that was sent  *)
(* a kill dies, an orphan ends once its output pipe is gone, a stopped     *)
(* server is started again, and a launch that is tried again and again     *)
(* succeeds in the end.  Nothing is assumed of the user, nor of the models *)
(* a runner waits for.                                                     *)
(***************************************************************************)
Fairness ==
  /\ WF_vars(Reader) /\ WF_vars(Helpers) /\ WF_vars(RunnerKilled)
  /\ WF_vars(Exit) /\ WF_vars(Restart) /\ WF_vars(Adopt)
  /\ WF_vars(RetryTimePasses) /\ WF_vars(StartReply)
  /\ WF_vars(AutoStopReply) /\ WF_vars(AutoReconfigure)
  /\ SF_vars(AutoResume)

FairSpec == Spec /\ Fairness
-----------------------------------------------------------------------------
(***************************************************************************)
(* Properties.                                                             *)
(***************************************************************************)

ServerType ==
  /\ up \in {"up", "closing", "down"} /\ elsewhere \in BOOLEAN /\ crashes \in Nat

TokenType ==
  /\ active \in 0 .. MaxLaunches /\ worker \in 0 .. MaxLaunches
  /\ reader \in {"none", "reading", "draining", "gone"}
  /\ heard \in {"", "reply", "refused"} /\ finisher \in {"none", "pause", "stop"}

JobType ==
  /\ phase \in {"ready", "running", "pausing", "paused", "stopping", "done", "off"}
  /\ node \in Steps
  /\ stopped \in BOOLEAN /\ auto \in {"none", "wait", "due"} /\ reply \in Replies
  /\ intent \in {"run", "pause", "stop", "attention"}
  /\ asked \in Nat /\ noticed \in BOOLEAN

FileType ==
  /\ ckpt \in Checkpoints /\ unsaved \in Checkpoints
  /\ stopFile \in BOOLEAN /\ request \in BOOLEAN /\ over \in BOOLEAN
  /\ result \in {"none", "final", "failed"}

RunnerType ==
  /\ launches \in 0 .. MaxLaunches /\ live \subseteq Launches
  /\ job \in {"work", "reply"} /\ rnode \in Steps
  /\ pipe \in Seq(Records)

\* Every variable has its type.
TypeOK ==
  /\ ServerType /\ TokenType /\ JobType /\ FileType /\ RunnerType
  /\ breaks \in Nat /\ lost \in Nat /\ dropped \in BOOLEAN

\* Never two runners of one run at a time, across stopped replies, crashes that
\* leave a runner behind, and restarts: they would work in the same workspace
\* and the same saved conversation.  A runner started by this server always has
\* its reader: the job is never free for another launch while a process of an
\* earlier one still runs.
OneRunner ==
  /\ Cardinality(live) <= 1
  /\ live # {} /\ up # "down" /\ ~elsewhere => worker \in live

\* The job's work is launched although the user paused or stopped it, or only
\* the user may continue it.
UnaskedLaunch ==
  phase' = "running" /\ launches' # launches /\ intent # "run" /\ intent' # "run"

\* Only the user continues a job the user paused or stopped, or one that was
\* stopped for safety or at its time limit: no automatic launch of the run's
\* work, in this server or after a restart, happens against that intent.
NoUnaskedLaunch == [][~UnaskedLaunch]_vars

\* Where every checkpoint can be saved, only the user continues a job the user
\* paused or stopped (_configure_auto_resume, restore_saved_app).
SavedPausesHold == [][lost = 0 => ~UnaskedLaunch]_vars

\* A stop asked for is never lost: the job ends as stopped or with the complete
\* terminal result that raced it, even when the server dies in between.
StopEndsTheJob ==
  intent = "stop" => phase \in {"stopping", "done", "off"} \/ elsewhere

\* A paused job has the checkpoint Resume needs, on disk or kept for the next save,
\* so that no run ends up paused with nothing to continue from: over restarts that
\* cannot save it, adoptions and failed readers, unless a reader failed and in the
\* same settling the disk did (_settle_from_saved_run loses what it could not save).
PausedCanResume == phase = "paused" /\ ~elsewhere /\ ~dropped => Saved.status # "none"

\* "The job stays listed and paused; the next resume saves the checkpoint first."
\* (restore_saved_app) as stated, for failed readers too.
AlwaysResumable == phase = "paused" /\ ~elsewhere => Saved.status # "none"

\* The automatic progress summary is asked for at most once in one pause,
\* although a crash may separate asking from recording that it was asked (a
\* record that could not be saved at all is repeated).
SummaryAskedOnce == lost = 0 => asked <= 1

\* A paused job that will not continue by itself is one that waits for a named
\* reason: a user's pause, the time limit, or an error no retry can fix.
PauseHasCause ==
  up = "up" /\ ~elsewhere /\ phase = "paused" /\ auto = "none" /\ unsaved = NoCkpt /\ ~dropped
    => ckpt.cause \in {"user", "time-limit"} \/ ckpt.block # "none" \/ Exhausted(ckpt)

\* A checkpoint kept in memory belongs to the pause the job is in: it never
\* survives into another attempt, where Saved would put it over a newer file.
NoStaleUnsaved == unsaved # NoCkpt => phase = "paused"

\* Stop ends: the job never stays "stopping".
StopFinishes == phase = "stopping" ~> phase = "done"

\* Work a crash or a shutdown interrupted continues by itself after the
\* restart, unless it finished, its limit is used up, or it waits for a reply.
InterruptedContinues ==
  phase = "off" /\ intent = "run" /\ node # "submitted" /\ result = "none" /\ launches \in Launches
    ~> \/ phase = "running" /\ ~elsewhere
       \/ over \/ intent # "run" \/ reply.status = "running"
       \/ launches = MaxLaunches \/ Saved.block # "none" \/ phase = "ready"

=============================================================================
