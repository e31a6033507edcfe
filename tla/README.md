# TCS Prover: TLA+ models, checks and proofs

TCS Prover runs a model CLI (the *author*) on a theorem until a chain of review
steps accepts its proof. A web server (`src/ui/server.py`) keeps one *job* per
run folder, starts a *runner* subprocess (`src/workflow_runner.py`) for it,
reads the runner's records, and survives pauses, time limits, crashes and
restarts. Runs with a web cutoff go through a historical search service whose
requests to external hosts are paced across all processes
(`src/retrieval/historical_rate_limit.py`).

This directory holds TLA+ modules translated from that code, TLC
configurations that check them on small instances, and proofs that TLAPS
checks for every value of the constants.

    tlc -workers 2 -config JobCore.cfg JobLifecycleMC.tla
    tlapm JobLifecycle_proofs.tla

## 1. Inventory

| Component | State it keeps | Operations | Interacts with | What is hard | What makes it correct |
|---|---|---|---|---|---|
| **Job lifecycle** (`App`, server.py) | phase, tokens of the launch and of its reader, retry deadline, unsaved checkpoint; files: `pause.json`, stop marker, pause request, transcript, conversation | start, pause, stop, resume, continue, replies of the paused author, reading of the runner's records, settling, restoring | the runner by records and a polled request file; the server loop; other server processes by an inherited lock | HTTP threads, reader thread, helper threads and the loop interleave; a crash at any point; a runner that outlives its server; files that cannot be written | one runner at a time; a stop is never lost; a pause can always be resumed; nobody but the user undoes the user's pause |
| **Launch scheduler** (`Server._retry_paused_jobs`) | start slots, last automatic start, the queue | picks due jobs, spaces starts, replies first | every `App`, batches | what is due changes between the look and the launch; several jobs share a workspace | one author per workspace; nothing due waits for ever |
| **Statement review** (server.py, `ui/review.py`) | review attempts, approvals | review, retry, approve, edit | runner in review mode | failures and restarts in a revision of what was reviewed | a reviewed job has a statement |
| **Launch holds and historical checks** | hold, its cause and deadline | check, hold, release | scheduler, batch request | a minute of checks without the job's lock | a held job does not start; a passing hold is checked again |
| **Batches** (`ui/batches.py`, server.py) | the request, jobs still to create | create, check together, start | scheduler, related works | creation fails for one job and is repeated by another thread | each input becomes one job and is started |
| **Related works** (`ui/related_works.py`) | uploads, stores, folders with `INDEX.md`, manifest and lock, notices | upload, install, link, undo, announce, prune | batches, the author's turns | four kinds of threads write the same folders; each write may fail | a listed file is there; a failed addition leaves nothing but what its undoing could not remove; every job gets every shared work once, and its author hears of it |
| **Workflow executor** (`workflow_runner.py`, `author_critic.yaml`) | the current node, visits, the workflow state, captured proof; the server's copy of the step's input | run a step, branch, hand off, pause at a boundary, resume as the same round | model CLIs, the server by records and the pause request, `proof.md`, `saved-candidate.md`, `final-input.json` | a pause, kill or crash between steps; two different recoveries; stale files | edited rounds are bounded and numbered; every step has the newest submission; what is accepted passed a critic unchanged and is published |
| **Author goal session** (`workflow_runner.py`, `runner/claude_cli.py`) | the record of how to continue, what the controller noted, turns, live instructions, re-anchors | start or reopen the conversation, send, steer, interrupt, submit, repair, fail and retry | Codex app server or Claude command line | notifications while a call is open; messages picked up late; turns that fail before or after they were received | the author hears each rejection; outages add nothing and remove nothing; an accepted live instruction was taken |
| **Structured calls** (`workflow_runner.py`) | attempts, forked conversations, the edited file, saved sessions | call, follow subagents, fork, retry, delete sessions | model CLIs | retries after partial work; a thread polls what the output also says | a conversation sees its own edits; repairs end |
| **Author replies** (both harnesses) | the reply's attempts, the turn to remove | reopen, send, remove, note, copy | the saved conversation | a failure before or after the message was received | the reply answers the message |
| **Shared host limiter** (`retrieval/historical_rate_limit.py`) | tickets (locked files), lanes (locks), state file with both clocks | `slot`, `defer` | every process that sends requests | processes die with locks and tickets; two clocks; damaged files | an interval between starts to a host; provider cooldowns are kept; arrival order; nobody waits for ever |
| **Historical transport and search** (`retrieval/`) | calls, timers, budgets, workers; memory caches, background tasks, audit backlog | take, run, time out, cancel, close; look up, fetch, store, repeat | limiter, cache, client | a worker, a timer, a cancellation and the end of input race; reads that never end | every call is answered once; no more workers than allowed; nothing from the cutoff or later |
| **Historical cache** (`retrieval/historical_cache.py`) | one entry per address, shared by all jobs | read, put, move aside, evict | search | jobs of different cutoffs share it; damage | only a verified entry is used |
| **Run ownership** (`ui/ownership.py`) | a lock per run folder | claim, inherit, release, probe | `App` | a lock that outlives its process in a child | one owner; an ended owner frees the run |
| **Provider store, proof handoff, confinement, model runtime, compiler, discovery, gateway, HTTP handlers, terminal, viewer, experiments, web client** | none that several actors share, or none beyond one call | process and file I/O, routing, rendering | - | - | outside the scope of a state model (section 12) |

`PROJECT.json` lists every part with its state here (`modelled`, `partly`,
`not_modelled`) and the hazards of the modelled code at their lines.

## 2. The modules and their order

In order of importance:

1. **JobLifecycle** (section 3): one job against user, threads, runner, crash
   and restart. Proved: types, one watched runner, resumable pauses, stops that
   are not lost, pauses that hold.
2. **HostPacing / HostLimiter** (section 4): the promise of the limiter and its
   implementation with files, locks and two clocks. Proved: the refinement,
   types, nobody overtakes.
3. **ReviewGraph** (section 5): the graph executor from the author's submission
   to the published proof, and what the server restores of it. Proved: types,
   what is accepted was reviewed, the author is told why it works again, and,
   for runs in which nothing ended between two steps, rounds are the edits made,
   answers that point to a file are read, the newest submission is worked on.
4. **AuthorStep**, extended by **CodexSession** and **ClaudeSession** (section
   6): the author's step with one or the other harness. Proved of Codex: the
   feedback reaches the author, outages add nothing, retries keep work, no live
   instruction is lost.
5. **StructuredCall**, extended by **LatexLoop**, and **AuthorReply**, composed
   in **RunnerMain** (section 7): the calls a runner process makes. Proved: the
   edited file, the end of repairs, the PDF, failed subagents, replies that were
   heard.
6. **LaunchJobs**, extended by **Launches** (section 8): several jobs and the
   server that starts them. Proved: types, the shared workspace, checked starts,
   holds, reviewed statements.
7. **Broker** and **Archive** (section 9): the retrieval server's calls, and
   what they find. Proved: no more workers than allowed, one answer, nothing
   from the cutoff, real absences, nothing that waits alone.
8. **Works** (section 10): related works. Proved: all or nothing, shared once,
   nothing missed, authors know.

The modules meet at interfaces that each abstracts in the same way: a runner of
JobLifecycle writes the records ReviewGraph produces; ReviewGraph's author step
is AuthorStep; LaunchJobs abstracts a job's runner to its process and its end;
a request of Broker is one step that Archive details, and one `slot` of
HostLimiter.

| Run | Module | Distinct states | Bounds in words |
|---|---|---|---|
| `JobCore` | JobLifecycleMC | 1,853,971 | 3 launches, 2 crashes, 2 reader failures, 1 unsaved checkpoint, 2 unread records |
| `JobLive` | JobLifecycleMC | 95,436 | 3 launches, 1 crash, 1 reader failure; fairness |
| `HostPaced` | HostLimiterMC | 240,720 | 2 requests, 2 lanes, wall clock set at will, one damage |
| `HostFair` | HostLimiterMC | 41,929 | 2 requests, 2 lanes, one crash or reboot; fairness |
| `ReviewCore` | ReviewGraphMC | 825,117 | 3 texts, 4 selections of stages, 1 fault, 1 pause; fairness |
| `CodexAuthor` | CodexSession | 725,794 | 1 rejection, any two of 1 live instruction, 2 failures, 1 pause or kill; fairness |
| `ClaudeAuthor` | ClaudeSession | 3,433,811 | the same, without fairness |
| `RunnerMain` | RunnerMain | 2,414,284 | 4 attempts, 2 edits, 2 faults; 3 failures, history of 2; replies: 5 items, 4 troubles |
| `Launches` | Launches | 543,472 | 2 jobs, 3 kinds, 1 slot, 3 requests (a batch for two), 2 faults; fairness |
| `Broker` | Broker | 141,165 | 3 calls, 1 worker, 1 queued; fairness |
| `Archive` | Archive | 1,651,074 | 2 jobs, one that searches and repeats, one with a failing disk, 3 captures, 2 requests at once |
| `Works` | WorksMC | 1,373,473 | 2 jobs, any 3 of 4 requests, 2 threads at once, 1 mishap and any failures while it is undone |

Each run answers the questions of one module; the bounds are the smallest at
which every action fires and the races named in the sections below occur.
Every module also states further properties that its run leaves out to stay
short; a reader can add them to the configuration. Those that the code breaks
are listed in section 11 with the constants that show it.

## 3. JobLifecycle

One job: class `App`, the reader thread (`read_output`,
`_read_after_failure`), the helper threads of Pause and Stop, the automatic
retry of the server's loop, the runner's protocol as seen by the reader, and
`restore_saved_app`.

*State.* `phase` is `state.phase`; `active` is `active_token` together with
`process`, `worker` is `worker_token`; `reader` is the thread of that token:
`reading` (`read_output`), `draining` (`_read_after_failure`), `gone` (it died
without settling). `ckpt` is `pause.json` (status, cause, node, `summary` for
`summaryRequested`, `block` for a safety or settings block), `unsaved` is
`_unsaved_checkpoint`. `node` is the last work node, which the transcript also
keeps and a restore reads back. `live` are the runner processes, `pipe` the
records of the newest runner the reader has not read. `over` says whether the
author's time limit is used up. `intent`, `asked`, `noticed` and `dropped` are
history variables; no action reads them.

*Actions.* `User` (`Start`, `Pause`, `KeepPaused`, `Stop`, `Resume`,
`Continue`, `ChangeLimit`, `AskAuthor`, `StopReply`), `Helpers`
(`StopSettles`, `PauseSettles`), `Loop` (`auto_resume_if_due` and the reply
queue), `Runner` (what it may write, and its death), `Reader` (one action per
kind of record, and settling at end of output), `Failing` (a reader that
breaks, a crash inside settling) and `Process` (crash, graceful shutdown,
exit, restart, adoption of a run another process released). An action is a
handler's work under the job's lock. Where the code gives the lock up
(`resume` checks, then launches) the launch checks again, and the action is
the second check with the launch.

*Abstractions.* Deadlines are `none`, `wait`, `due`. Workflow steps are
`author`, `submitted` and `later`. A runner is killed with its process tree in
one step once it was asked to. Reading a record and acting on it is one step.
The phases of the statement review and of launch holds are left out; so are
steering, settings edits, damaged checkpoints, and a runner that exits with
code 0 without any terminal record (the job is then done without a result).
Reader failures are injected at any record (`MaxBreaks`), also in the
settling that follows. A failed reader settles its job by a restoration in an
`App` of its own (`SettleDrained`), of which only the settled fields and the
conversation are taken over: a checkpoint that this restoration could not save
is lost with it, which `dropped` records; a checkpoint that a restart could not
save stays in memory (`Restores(TRUE)`). A second failure after the helper of Stop has finished
would leave the job `stopping`, so `JobLive` allows one.

Three launches allow a first attempt, a reply or resume, and one more after a
fault, so every pair of launches meets every fault between them; two crashes
allow a crash in the recovery from a crash; the reader is at most two records
behind, which separates "written", "read" and "not yet read" for a record and
its successor.

Properties: `OneRunner` (no second runner in a
workspace and no runner without its reader, over stopped replies, crashes and
restarts), `StopEndsTheJob`,
`PausedCanResume` (a paused job has a checkpoint, on disk or in memory, but for
the case of `dropped`, section 11), `SavedPausesHold` (no launch of the job's work against the
user's pause or stop, where checkpoints can be saved); in `JobLive`
`StopFinishes` and `InterruptedContinues`. The module states further ones that
hold at the same bounds: `NoStaleUnsaved` (proved), `SummaryAskedOnce`,
`PauseHasCause` (a paused job that nothing will continue has a named reason,
but for `dropped`)
and `CleanRunEnds` (without faults, a time-limit pause is recorded and a job
only ends stopped or with a result).

*Fairness* (`FairSpec`): reader and helper threads keep running; a runner that
was sent a kill dies; a closing server exits and a stopped one is started
again; the loop keeps looking (`RetryTimePasses`, `StartReply`,
`AutoStopReply`, `AutoReconfigure` weakly fair). `AutoResume` is strongly fair:
the loop tries it every time it is due and a reply may take the job's turn in
between, infinitely often but not always. Nothing is assumed of the user, nor
that a model ever answers.

*Deadlock* checking is off in the `Job*` configurations: at the bound of
launches, or once a job is done, nothing need happen.

*Proofs* (`JobLifecycle_proofs`), for every value of the bounds, from
`JobConstants` only:

- `JobTypeCorrect`: `Spec => []TypeOK`, one lemma per group of actions.
- `OneWatchedRunner`: `Spec => []OneRunner`. It is not
  inductive: `RunnerInv` adds that only the newest launch can be alive, that
  the worker token is none or the newest launch, that a server that is down, or
  only shows a run another process owns, has no worker, and that everywhere else
  a live runner is the worker.
- `PausedJobResumes`: `Spec => [](PausedCanResume /\ NoStaleUnsaved)`.
  `PauseInv` adds that a checkpoint kept in memory has a status, that a reader of
  the run's own work and the phase `paused` exclude each other, that without a
  worker there is no reader, and what `elsewhere` and a stopped server show.
- `StoppedJobEnds`: `Spec => []StopEndsTheJob`. A stop could be undone by what is
  read after it, or restored after it, so the proof follows the runner's records
  (`PipeInv`): a record that ends the work is the last one and its runner is gone
  (`EndsLast`, `ResultLast`), a step follows a submission and a result follows a
  step also where the reader failed at the record between them (`PipeInOrder`,
  `RunnerAhead`). So a failure is read at a later step (`FailedLater`) and a job
  that is over has nothing to read; with what the files say of a stopped job
  (`StopKept`: no checkpoint, and the marker until a result is there) neither a
  settling reader nor a restart makes a pause of it (`StopInv`).
- `PausesHold`: `Spec => SavedPausesHold`, an action property. `Holding` says, while
  `lost = 0`, that whatever the user wants, or only the user may do, is told by the
  checkpoint (`Held`: its cause is the user or the time limit, or it is blocked for
  safety), which no retry takes up; and that while the runner may still report a
  pause (`Unsaid`), the cause on disk is one that the report keeps
  (`PauseCause`). `NoUnaskedLaunch`, without `lost = 0`, is false (section 11).

## 4. HostPacing and HostLimiter

`HostPacing` is the promise, without files or processes: `since` counts the
time since the last start up to one interval, `cool` the time left of
provider cooldowns, `underway` the requests that may be running. A start needs
a full interval and no cooldown; one lane bounds what is under way.

`HostLimiter` is `SharedHostLimiter` for one bucket of hosts. A request moves
`idle`, `peek` (may give up at once when the cooldown outlasts its deadline),
`stamped`, `queued` (its ticket was renamed and is visible), `lane` (it holds a
lane lock and competes for the timing mutex), `sent`, `defer` (it records a
provider's wait). `mutex`, tickets and lanes are kernel locks: a dead holder's
lock is free, its ticket stays until another request finds it unlocked
(`Abandoned`). The state file keeps the earliest next start as wall time and
as uptime with the span the two agree on; `Remaining` is `_wait_seconds`:
the larger of the two remaining times, with uptime ignored when it is ahead of
the clock (a reboot), cut to the longest honoured pause. Times are kept as
countdowns, so that no bound on time is needed; `Countdown` lets one unit pass.
`Damage` corrupts the file, `Reboot` resets uptime, `SetWallClock` moves the
wall clock, `Crash` kills a request's process at any step, inside the repair of
a damaged file as well.

`Promise == INSTANCE HostPacing WITH underway <- Sent`; `Paced ==
Promise!PacingSpec` is checked as a property and proved as a refinement.

`HostPaced` checks `Paced` while the wall clock is set at will and the state
file is damaged; `HostFair` checks, with a crash or a reboot, `EachStarts`
(every queued request starts or fails) and `NoOvertaking` (nobody starts before
a request that was already visible when it came).

Two requests are enough for pacing, which relates a start to the one before
it, and for one that would overtake another (with three requests and no clock
fault `NoOvertaking` was checked as well).
`Lanes = 2` lets a second request wait in the mutex while another decides.
Requests are symmetric in the safety runs only.

*Fairness*: each live request keeps polling (weak fairness of its own steps),
time passes; taking a lane and the mutex is strongly fair, since a poller that
finds it free infinitely often gets it in the end. Nothing is assumed of
crashes, damage or clocks.

*Proof* (`HostLimiter_proofs`): `LimiterPaces` proves `Spec => Paced` for every
number of requests, lanes, intervals, cooldowns, deadlines and faults, from
`LimiterConstants` and two hypotheses that are the limits of the code:
`ClocksFailApart` (the wall clock is not set *and* uptime reset in the same
life of a state file: then both saved times are wrong) and `RepairsComplete`
(no crash is combined with damage: section 11). The inductive
invariant is `Types /\ StateCovers /\ HolderKnows /\ LanesHold`: the saved
state promises at least the wait `HostPacing` demands, by the clock that can be
trusted; whoever holds the mutex has read at least that wait; and no more
requests are under way than lanes. Each action then maps to a step of
`HostPacing` or to a stutter.

`NobodyOvertakes` proves `Spec => []NoOvertaking` with no hypothesis on clocks,
crashes or damage. Its invariant `InLine` relates the tickets to the requests:
a waiting request has exactly one ticket in `order`, its ticket is visible in
the places where the code has renamed it, and whatever a request found visible
when it took its own ticket is still waiting and has an older one. Every step
but a new ticket only takes tickets away; `Keeps` says that the others stay in
their order, and `ThinnedKeeps` and `PrefixKeeps` that `Without` does this to a
whole queue and to the part of it a request looks at. `Without` is a recursive
function; what it computes (`WithoutThins`, `PrefixThins`) is proved by the
least length at which it could fail. `LimiterTypes` proves `TypeOK`.

## 5. ReviewGraph

One run from its author to the published proof: `_execute` on
`author_critic.yaml`, with `clean_up.yaml` as one step `latex`; the records and
files it writes; the reader; and the two ways a run goes on after its runner
ended. While the server lives, the reader resumes the step from its exact
input (`node_input`), which only its memory has. After a crash of the server,
`restore_saved_app` works out step, text and round from the transcript,
`pause.json`, `saved-candidate.md` and `final-input.json`.

*State.* A proof is a number that stands for one exact text; `InFile` is an
answer that only points to `proof.md`, 0 a text that cannot be handed over.
`st` is the workflow state (`sol` the solution, `report` the critic's answer,
`note` for `handoff_refused`, `captured` for `proof_handoff`, `visit` and
`verify` for `stepVisit`); `pc` is where `_execute` is between two records or
files it writes; `before` is the state saved when the author's step began. `log` is the
transcript since the author's newest result: the functions that restore a run
look no further back, but for the newest critic report (`critique`). `pipe`
holds the records written and not read; `stepInput`, `passed`, `submitted` and
`at` are the locals of `_read_records`. `edits`, `root`, `newest`, `approved`,
`accepted`, `refused`, `cutShort` and `gap` are history; no action reads them.

*Actions.* `Runner` has one action for every stretch between two effects
others can see: the step's record, the author's answer, the captured proof, the reported
input, the critic's answer (passes, passes with fixes, rejects with or without
safe fixes), the files, the branch, the final result. `Read` is
one record in the reader, `Settle` its end, `Resume` a launch from
`pause.json`, `Restart` the restoration. `Kill` ends a runner and `Crash` the
server with its runner at any step; `StepFails` and `AuthorPauses` are a call
that fails for good.

Three texts are a submission, its edit, and a repair (or a second edit), which
is enough to review a wrong one; one edited round reaches both a plain repeat's
check and the final check at the limit; the reader lags by three records, so an
answer, what its author submitted and the step after it can all be unread.
The safety properties were also checked with two faults (7.9 million states) and
with a lag of five records, too much for a run repeated often.

- `AcceptedIsReviewed`: what is published, sent to the LaTeX editor or
  announced as approved was passed unchanged by a critic (as long as no critic
  passed an answer that only points to `proof.md`).
- `PointersAreRead`: no critic passes such an answer instead of the proof.
- `AcceptedIsPublished`: after "Critic approved" the run ends with that text.
- `RoundMatchesEdits`: a round's number is the number of edits so far plus one,
  and only the round after the last allowed edit cannot edit.
- `NewestReviewed`: a step works on the newest submission or the critics'
  edits of it.
- `FeedbackKept`: a working author is told the reason of its last refused
  submission, and no older one, or else repairs the latest rejection.

Two more hold at the same bounds: `AcceptedStays` (no recovery leaves an
approved text) and `RecoveriesAgree` (at any moment of a step the restart would
continue the same step, text and round as the live reader would).

Two history variables mark what the code does not restore. `gap`: a runner ended
while no step's input was known (between two steps), or the server crashed when
the last answer read was a critic's, or a convention critic's in a job that does not
write LaTeX, or the answer that sent the author back was lost with the submission
that followed it, or with an edit. `cutShort`: a runner or the server ended while the job was pausing,
so what is restored is what Pause saved. `RoundMatchesEdits`, `PointersAreRead`,
`NewestReviewed` and `AcceptedIsPublished` are stated for behaviours with neither, `FeedbackKept`
without `cutShort`, `AcceptedIsReviewed` for all. What
happens otherwise: a stale input and rounds that start over (section 11), an
approved proof that is reviewed again, a reason that is forgotten.

*Proved* (`ReviewGraph_proofs`), for every limit of rounds, set of selections,
number of texts and unread records, and any number of pauses, kills and crashes:
the types and every safety property of the run. The inductive invariant of
`AcceptedIsReviewed` is `PassInv`, with the types. A late node (convention critic, LaTeX) has a passed text in
every place a step can be continued from: the runner's state, the records under
way, the reader's memory, the checkpoint. Each "Critic approved" under way follows
an answer about a passed text, which is unread before it, or the latest one read
(`PassedBefore`). In the transcript, an approval that is its newest decisive
record comes after such an answer, and the newest answer in it is the one the
server remembers (`LogPassed`): the restoration of a crashed server needs this.
That `Newest` exists rests on `LastOf`, by well-founded induction on sets. The
attempt to prove the property without its condition found the behaviour of
section 11 with three faults.

`FeedbackKept` relates what the runner works on to what the reader has not read
yet. A *view* is what the reader's memory and the transcript show at one moment
(`Now`): the newest node, submission, answer, refusal, and so on. `Seen(v, r)` is
the view after record `r`, and the lemma `NowReads` shows that reading a record
does just that to the memory and the transcript. `Tracks(w)` says that `w` runs
through the views from the server's own to the one it will have after the last
unread record. The invariant is that such a `w` exists with `Feedback(w)`: each
view on the way is consistent with the saved checkpoint (`Noted`), each record
with the view before it (`SentNoted`), the server with the first view
(`ServerNoted`) and the runner with the last (`RunnerNoted`). So a step of the
runner adds one view at the end (`TrackEmit`), a step of the reader drops the
first (`TrackRead`), and a crash leaves the first alone (`TrackEmpty`). What a
dead runner's author continues from then follows from the first view, whether
the memory or the transcript supplies it (`UnfinishedNoted`, `RebuiltNoted`).

`RoundMatchesEdits`, `PointersAreRead` and `NewestReviewed` rest on one invariant
over the same views, `RoundsInv`: unless something ended in a gap or while
pausing, `Rounds(w)` holds of some `w` that runs through the views. Its parts:

- `TextsOk`: a text not yet made has no edits and no other origin; without an
  author all texts come from the supplied one.
- `ViewOk(v)`, of every view: an open visit of the critic has the number of the
  edits behind the view's text (`VisitOk`); what was handed over last is that text,
  the proof it points to, or older than the critic's latest (`HandedOk`); an
  approval belongs to the critic's latest answer.
- `PlaceOk(w, i)`: where no submission is unread and none is awaited, the
  view's text is the newest submission or an edit of it. Where one is unread, its
  author was waiting for it, or a critic's answer that sent it back is at hand
  or unread too: the order that makes a stale view harmless.
- `SentOk(w, j)`: an approval under way follows a pass; a pause continues the
  step that the view after it shows (`Continues`: its node, text, origin and number).
- `ServerOk(v)`, `RunnerOk(w, v)`: what is saved, and what the runner does, is of
  the view it belongs to. The critic's text is no older than any answer under
  way (`Foremost`), so that an edit is a new text and `edits` counts it once.

An action of the runner adds a view (`SendRounds`), writes a file (`QuietRounds`)
or pauses (`PausesRounds`); reading drops the first view (`ReadRounds`).
`ResumeRounds` and `RestartRounds` are the core: from the reader's memory and
from the transcript alone (`TextRebuilt`, `VisitRebuilt`, `RebuiltRounds`) the
same step, text and round come back. `KillRounds`, `CrashRounds` and
`PauseRounds` are the only steps that use what `gap` and `cutShort` exclude, so
no other exclusion is needed. The runs without a critic have an invariant of
their own (`Plain`): no record, checkpoint or memory names a step of the review.

*Fairness*: the runner's steps and the server's are weakly fair, since calls of
later steps are retried until they answer or pause the run, and a paused run is
resumed by the retry loop or the user; nothing is assumed of what critics or
authors answer. *Deadlock* checking is off, since a job that is done stops.

## 6. AuthorStep, CodexSession, ClaudeSession

`AuthorStep` is `_goal_step`: a failed session of the author is continued by a
new session of the same saved conversation, told by `known` (the merged records
of the failed attempts) what to send, what to remove and what to remember.
`CodexSession` and `ClaudeSession` extend it with one attempt each: the main
thread, the watcher, and the CLI as an external actor that takes a message,
works, compacts, declines, fails, ends its turn or says nothing more, in any
order the runner's protocol allows. Messages it wrote and nobody read are `wire`.

An instruction is abstracted to what a conversation could miss: whether it
states the task and which feedback it carries. A rewind names the conversation
it belongs to: removing its turn, or reopening before it, in another one (a
replacement of a conversation that was removed) is refused by the provider. `conv` is what the provider's
conversation has heard. `excused`, `withdrawn` and `conv.lost` are
history: the CLI left a call that starts a turn unanswered after it took the turn or
worked in it, or would not remove one; a
runner was started between the removal of a turn and sending its instruction
again; a turn with work in it was removed. A pause stands for the pause file
and for the time limit.

Codex starts a turn by three calls: the goal is paused, `turn/start`, and the goal
made active (`GoalIsPaused`, `TurnStarts`, `GoalIsActive`). While the last one waits
(`activating`), what the turn says is queued and counts as no output yet; if it
then fails, the retry removes a turn the model may have worked in. `WorkKept`
excuses just that, and section 11 lists it.

- `FeedbackReachesAuthor` (both runs): the text the critic gets next answers its
  newest feedback, over failed turns that are removed, refused or replaced
  conversations, pauses, kills, and (Claude) input that is picked up late and
  runs as a turn of its own. Stated without `withdrawn` and `conv.lost`, which are cases of section 11.
- `NoEcho`: outages add nothing to the conversation.
- `WorkKept`: a retry removes no turn the model worked in, unless `excused`.
- `NoSteerLost`: a live instruction recorded as accepted was taken.
- `PauseHonoured`: a pause ends a watched session whatever Codex leaves undone.

One rejection, and any two of one live instruction, two failures and one pause or
kill (`MaxTrouble`) reach every pair of these in both orders. `ClaudeAuthor` runs under `VIEW Behaviour`, which leaves
out `excused`: no action and not its property reads that variable. One unread message is enough for the races of the
reader with the watcher, since requests wait in `inbox` as well.

*Proofs* (`CodexSession_proofs`), for any number of rejections, live
instructions, failures and pauses: `FeedbackReachesAuthor`, `NoEcho`, `WorkKept`
and `NoSteerLost` of the Codex author. The actions overlap (a session fails,
ends or sends in the same way at many places), so a first lemma, `Normal`, turns
the next-state relation into a flat list of steps by what they do: between
sessions, failing, opening, sending, hearing a message, acting outside. On it
rest invariants one above the other, each kept by every kind of step given the
ones below:

- `Sane`: types, what a session is at each place, to which conversation the
  records belong. `AcceptedWasTaken` adds `Steered`: one live instruction is on
  its way at a time, it is the next one, and what Codex took and nobody read is
  already in the conversation.
- `Ordered`: what a turn still sends; its end, failure or complete goal come
  last. `Quiet`: a turn without an answer is still the instruction's own, nothing
  was read in it and it goes on or failed; whatever the model did in a turn was
  read or is still to be read. So the report of a failed session says truly whether
  the turn may be removed.
- `Echo` (for `OutagesAddNothing`, `RetriesKeepWork`): the conversation a session
  reopens ends in no turn without an answer, but the one its retry removes, and
  that one has no work in it.
- `Pending`, `Answered`, `Told` (for `CriticIsAnswered`): an instruction carries
  the newest feedback or none; an answer that was read answers what the conversation
  held; at every place the conversation has heard the newest feedback or the
  instruction that is about to be sent brings it, also once the turn the retry
  removes is gone.

The claims of the Claude author and liveness are only model-checked.

*Fairness* (`CodexSession!FairSpec`): the runner's own threads and its retries
go on. Nothing is assumed of Codex, the user or the critic, except that an
app-server that ended has ended its output.

## 7. StructuredCall, LatexLoop, AuthorReply, RunnerMain

`RunnerMain` is `main()`: a runner process runs its workflow or answers one
message of the user, for its whole life.

*StructuredCall* is `structured()`: attempts of one model call that edits a
file. A retry forks the newest conversation that has work; `ws.file` is the
version of the file in the working folder, `knows` (history) the version
each conversation's model worked with. Cleaners may remove the folder or a saved
session at any time. Subagents' failures come over the output (Claude, Codex with
multi-agent version 1) or by a thread that polls the saved session (version 2),
`conf.agents`; a call of a run with a web cutoff saves none, so there nobody sees
them (`Unobservable`), and a session that is not found or cannot be read at the end
is only noted (`missed`). After the author's submission no call has a time
limit, so the model has none. *LatexLoop* is the write-compile-repair loop of
`clean_up.yaml` around it: `compilation.history` holds the failures the
repairs are compared with; a failure is the text of its first error (`Errors`), its
undefined references (`Unresolved`) or that the build did not finish, of which there may be any
number. *AuthorReply* is `run_author_conversation` with
the session functions of both harnesses.

- `EditsBelong`: while a conversation's model works, the edited file is the one
  that conversation last had.
- `RepairsEnd`: repairs that go round among a few failures end, also when they
  alternate or are paused in between: as long as the history can hold each of the
  failures a repair was tried for (`tried`) `Stall - 1` times, no more are tried.
  Failures that are ever new count as progress (tests/test_decisions_latex.py:152-163)
  and have no bound.
- `ReplyHeard`: the reply comes from a conversation that holds the message.

Further properties that hold at the same bounds: `AgentsCounted` (no accepted
answer rests on a failed subagent, unless the call is `Unobservable` or its session was `missed`), `SessionsDeleted` (a finished call leaves no
session behind that the CLI would delete), `PdfIsOfSource` (the PDF handed out is
of the source handed out).

*Proofs* (`RunnerMain_proofs`), from `CallAssumption` and `LoopAssumption` only,
so for any number of attempts, edits, faults, unread lines and failures:

- `EditsBelong` from `EditsInv`: the file kept for the next attempt is the one
  of the conversation it forks, unless the folder vanished (`BaseInv`); an
  attempt's own session is newer than that conversation (`RunInv`); what the
  runner knows of the session is the file the model sees (`SeenInv`).
- `AgentsCounted` from `AgentInv`. Reports travel by the output or by the session,
  so the invariant says where the newest one is: `Tells(s, before, agent)` holds of the unread
  lines or records when their last report says what the subagent does, and
  `before` says it when there is none.
- `RepairsEnd` (theorem `AlternationsEnd`) from `RepairInv`, for any sets of errors
  and any length of the history: while the failures met are few enough for the
  history (`Few`), it is all of `tried`, since `Kept` cuts nothing, and none
  occurs in it as often as a stall takes; so it is at most `Stall - 1` of each.
- `PdfIsOfSource` from `PdfInv`.
- `ReplyHeard` from `ReplyInv`: `Heard(s, n)` says that the message, and work
  after it, stand among the first n items. It holds of the conversation and of
  Claude's copy of it, with n the place to which a pending retry goes back.

`SessionsDeleted` is only model-checked: it rests on `Remove` and on folds over
the sessions, which are recursive.

Four attempts fork a fork of a fork; two failures of any kind meet in every
order. One error, one list of references and an unfinished build, with a history of
two and a stall at the second, alternate with what the history can hold and with more
than it can. The two modes share no state and are checked in one run because they are
one program.

## 8. LaunchJobs, Launches

Several jobs of one server: statement reviews, prepared jobs in the queue, web-cutoff
jobs with their holds and checks, folder batches, automatic retries, replies,
continuations that share a workspace, deletion, a crash of the server that leaves
runners behind, restoration and adoption. A job's runner is a process and how
it ends; JobLifecycle has the rest. `LaunchJobs` holds what a request or a
helper thread does with one job; `Launches` the loop, the batch request,
crash and restart. A pass of the loop owns `jobs_lock` (`loop`): what needs
only a job's own lock may happen between its look and its start. Times are ticks
until a moment. `raced` (history) marks continuations that started after
their check of the workspace had become wrong.

- `AloneUnlessRaced`: two runners never work in one workspace, but for those.
- `StartsChecked`: a web-cutoff job gets a runner only with its policy in order
  and no hold, whatever happened since its checks.
- `HoldsAreRechecked`: a hold that passes by itself has an attempt scheduled,
  started or running, also after a crash.
- `ReviewedHasReview`: a reviewed job has a statement.
- `NobodyWaitsForever`: what waits for the server is started, held with its
  cause, or leaves.

Two jobs and one slot make every job wait for the other; three requests
are a start, a stop and a continuation, or a batch and what the user does to one
of its jobs (a batch counts for two); two faults are a failure and a crash. The
jobs are interchangeable, so `NobodyWaitsForever` follows one (`Watched`). *Fairness*: the loop, the batch request,
each job's own threads and the clock go on; a runner ends at some time (else a
slot is taken for good). The user and failures may do nothing.

*Proved* (`Launches_proofs`), for any jobs, kinds, limits, delays, requests and
faults: the types, `AloneUnlessRaced`, `HoldsAreRechecked`,
`ReviewedHasReview` and the action property `StartsChecked`. The
inductive invariant `Inv` has what a job's record says by itself
(`Sane`), what may work for it (`Attended`: a review has its kind of job, a check a
web-cutoff one), and three facts about several: a workspace is shared only with a
job whose author has begun (`HomesSettled`), which is why a first start, a
review and a continuation in place need no look at other jobs; the sources of
saved continuations stay of this kind (`RequestsSettled`); and the batch and the
pending requests own distinct jobs that do not exist yet (`Orders`). Nearly every
action concerns one job (`Turn`): a lemma shows that such a step keeps `Inv`, and one
lemma per action that it is one; the clock, a batch's result, a crash and
a restart move all jobs and start no runner (`NoneStarts`). `AloneUnlessRaced` needs in
addition only what a start finds: `Idle` excludes followed runners by `Busy` and
the others by their locks (`Held`). The proof showed one step of the model to be
wrong: a continuation in place started after its job was deleted; the code
refuses it, since the policy is gone with the folder.

## 9. Broker, Archive

`Broker` is one job's retrieval server: the reader thread, a worker for each
active call, a timer for each call, cancellations, end of input, and the budget
whose deadline moves while a call waits for a shared slot. `Archive` is what
its requests find: two jobs with different cutoffs, each with its memory caches,
share the persistent entry of one source; failed requests are repeated in the
background; audit records wait in a bounded backlog. A capture is its date.

- `AnsweredOnce`: worker, timer, cancellation and end of input answer a call
  once at most; `EveryCallAnswered`: and in the end, though a worker may read for ever;
  `NeverCrowded`: no new work starts over live workers.
- `StrictlyBefore`: no job is answered with, or remembers, a capture of its
  cutoff date or later. `AbsenceIsReal`: an absence is remembered only if each readable
  capture that the index lists was asked for and its request rejected (TLS, address,
  redirect, status, a body that is not the index's); an operational failure, or what was
  left out, is not remembered as an absence. `NothingUnrecorded`: no answer rests on an
  unrecorded step, but for the record that a damaged entry was moved aside.
  `NothingWaitsAlone`: what waits has a live thread to serve it.

Three calls are one at work, one queued and one refused. Two jobs whose cutoffs
lie on both sides of a readable capture, and three captures, of which one is a placeholder
and the oldest can be read or not, reach every branch of the
lookup; one of the two jobs searches and repeats in the background (`Searching`, `Retrying`),
the other's disk fails (`Unwell`). *Fairness* of Broker: timers run and time passes; workers owe nothing.
The HTTP worker semaphore of the transport never blocks (fewer workers than
permits), and duplicate request ids are not modelled.

*Proof* (`Retrieval_proofs`, which extends both modules): `BrokerNeverCrowded`
proves `BrokerSpec => []NeverCrowded` for any number of calls, queue places, deadlines and retries. `NeverCrowded` is
not inductive: it says nothing of the places (`_active`). The invariant `Seated`
adds that every worker has a place and that the places are finite and at most
`MaxActive`; a worker that ends frees its place in the step in which at most one
queued call takes it (`AdmitsOne`).
`BrokerAnswersOnce` proves `BrokerSpec => AnsweredOnce`. Its invariant `Answers` says
that a call with an answer is marked as such, and that whatever waits, runs or
has a timer was sent, so that the reader's first answer, the worker's, the
timer's and that of a call no thread could be had for each find the call
unanswered, uncancelled and the server open when they count (`Kept` is what a
step may make of one call, `Steps` the frame all actions share).

*Proofs* of Archive (`Retrieval_proofs`), for any cutoffs, captures, queue bounds and number
of requests at once: `StrictlyBefore`, `AbsenceIsReal`, `NothingUnrecorded`,
`NothingWaitsAlone`. The first three follow from `Truthful`, which types requests
and caches and adds what a request holds midway: it lost no record but one of a moved entry,
its captures are before its cutoff (so the memory cache may
take them from the shared one), and unless it had trouble every readable row is still
to be asked for or was rejected (so an empty rest means absence; what is skipped is a placeholder).
The last follows from `Served`: a worker that is at work is alive. From the
assumptions on the constants, one of which says that some capture is the newest of
any (they are finitely many).

## 10. Works

Related works: `start_direct_batch` with its first work, the scheduler that
repeats failed creations, additions to the batch and to one job. A thread takes
a folder's lock, reads its manifest, places files, writes `INDEX.md`, the
manifest and (with a cutoff) the audit record, each of which may fail and is then undone in
the code's order; the server may die at any step. What made an addition fail (a full or
read-only disk) may fail its undoing too: the manifest, `INDEX.md` and each file are
taken back or not, and the code goes on in either case. `stuck` (history) has the
entries that stayed behind so. `told`, `pending`, `sent` and `unsaid` follow
what an author hears.

- `AllOrNothing`: for a reader without the lock, the manifest lists no more
  than `INDEX.md`, which lists only files that are there, and a folder nobody works in
  holds what it lists; all but for the `stuck` entries, which spoil nothing else.
- `SharedOnce`: a job has each shared work once and none the store takes back.
- `NothingMissed`: an addition that is over has given every job it found all
  that the store held, also what the job had missed before; an entry that is `stuck`
  in the manifest counts as given, as it does for the code.
- `AuthorKnows`: the author of a job at work knows of each work, is to be told,
  or a request is about to tell it, unless that failed or the work is `stuck`.

One more holds at the same bounds: `StartedWith` (also a job that the scheduler creates later has the works
the batch was started with).

Two jobs are one that is launched and one that waits; three shared works fill a
folder (`Room`). A behaviour has at most three of the four requests (`MaxCalls`), two
of them at once, so any two meet with the third before or after them. One fault
may happen in each behaviour; the failures of its undoing are not counted as further ones. *Symmetry* of the additions is sound: no
liveness is checked here.

*Proved* (`Works_proofs`), for any jobs, additions, room, failures and crashes: the
types and the four properties above. The inductive invariant `Inv` has three layers.
Who works where: what a thread can be at (`Posts`), that each job is created by
one thread while nobody else may enter its folder (`Roles`, `Before`, `Unborn`) and
that a batch whose store is taken back has nobody at work (`Beginning`).
What a folder holds: one thread is between two steps there (`Locks`), how far
its addition has come, forwards or backwards (`Nested`, `Placing`), and that without a
crash nothing else is there (`Complete`), each of what is in the folder but for `stuck`
(`Sound`); `AllOrNothing` follows. What the works
are: a plan that was read before the lock is filtered under it, so a work is
linked once (`Linking`, `SharedOnce`); and `Given`, the reason for
`NothingMissed`, says of an addition at each step what the jobs it is done with hold
for good (`Kept`: no addition in progress can take it back) and what its plan still brings to
the one it is at. A step is either in one folder (`FolderStep`), or outside the folders
(`Still`), or a crash; most parts of `Inv` are kept for one reason per class. That a
name is free for every file (`Named`: neither a file nor an entry has it) needs the least unused number, from the
library's well-foundedness of `Nat`.

## 11. Disagreements between the code and its documents

Found while modelling. The first group are counterexamples TLC gives when the
named property is added to a configuration with the constants shown; the
configurations of this directory do not contain them.

| Property (module) | Constants | What the code does |
|---|---|---|
| `AlwaysResumable` (JobLifecycle) | 1 launch, 0, 1 reader failure, 1 unsaved, pipe 1 | a failed reader settles the job by a restoration in an `App` of its own (server.py:5259-5285); a checkpoint it cannot save stays in that one, so "the next resume saves the checkpoint first" (7731) does not hold: there is none |
| `LimitPauseNoticed` (JobLifecycleMC) | 2 launches, 1 crash, 0, 0, pipe 1 | `resume()` keeps `summaryRequested` in the checkpoint (server.py:4546); after a crash the rebuilt second time-limit pause neither records the limit nor asks for the summary, although 5984 says "once per pause" |
| `NoUnaskedLaunch` (JobLifecycle) | 2 launches, 2 crashes, 0, 1 unsaved, pipe 1 | "Keep paused" on a restored job whose checkpoint could not be saved is forgotten at the next restart (server.py:4090) |
| `DoneHasResult` (JobLifecycleMC) | 2 launches, 1 crash, 0, 0, pipe 1 | a crash between the author's result and the next step's first record leaves the job done without a result (server.py:7629; src/README.md:890-895) |
| `RestartsPaced` (HostLimiterMC) | 1 lane, interval 2, 1 damage, 1 fault, no clock faults | a crash or failed save after a damaged state was moved aside reads as "no wait" (historical_rate_limit.py:327 against 148-150) |
| `WorksOnNewest` (ReviewGraph) | `ReviewCore` without pauses | a runner killed after "Workflow step: critic" and before that step's input resumes with the input of the earlier round (server.py:5565): the newest submission is dropped |
| `PointersAreRead` without `EndedWell` (ReviewGraph) | limit 2, author and critic, 3 texts, pipe 2, 3 faults, no pause | after such a stale input and a crash, the checkpoint counts as visit 2 (server.py:7042) of a submission that only points to `proof.md`: a second visit does not read the file (workflow_runner.py:7272), the critic passes the pointer, and after a further restart what the file then holds is published unreviewed |
| `EditsBounded` (ReviewGraphMC) | `ReviewCore` without pauses | a crash between an edited round and the next round's first record numbers the rounds from one again (server.py:7056 against src/README.md:706) |
| `NoFeedbackDropped` (ClaudeSession) | `ClaudeAuthor` | the turn to leave behind is found as the newest answer of the whole conversation (claude_cli.py:2298): a retry after a pause can leave the feedback's turn behind and not send it again |
| `NoWorkRemoved` (CodexSession) | `CodexAuthor` | while the call that makes the goal active waits, the turn's output is only queued (workflow_runner.py:4324-4325, 3730-3746); if it fails or is not answered, the retry takes the turn for one without work and removes it |
| `UnansweredEnds` (CodexSession) | `CodexAuthor` | after a submission the watcher is off; a `thread/goal/set` sent for the repair and never answered is not noticed (workflow_runner.py:4310, 4531 against 4070-4074), and a pause is not honoured |
| `ReplyAskedOnce` (AuthorReply) | `ReplySpec`, `Refusals` 2, 5 items, 4 troubles | a second attempt that fails before the conversation forgets the removal of the first one's empty turn (workflow_runner.py:7700-7701 against 7622-7624) |
| `WorkspaceAlone` (Launches) | `Launches` with 4 requests, no faults | a saved-checkpoint continuation checks the workspace under `jobs_lock`, gives it up and starts later (server.py:8636 against 8861) |
| `AbsenceIsSure` (Archive) | `Archive` | a request for a readable capture that is rejected (TLS, address, redirect, status, a truncated body) is passed over, and the absence is remembered for a minute (historical_search.py:774-799) |
| `EveryRecordKept` (Archive) | `Archive` | the refusal of the record that a damaged entry was moved aside is ignored and the call is answered (historical_cache.py:277-281, historical_search.py:1319-1322) |
| `NothingLeftBehind` (Works) | `Works` | a disk that fails an addition fails its undoing too, silently (related_works.py:1289-1305, 484-491): the manifest and `INDEX.md` keep listing removed files, or files stay unlisted, against the docstring (1239-1248); a work left in the manifest is never linked again |

The others are read off the code and are what a history variable or a narrower
property of the models stands for:

- *Author sessions.* `_goal_step` keeps `known["rewind"]` of an earlier attempt
  when a later one failed before it removed that turn (workflow_runner.py:7136-7143).
  A re-anchor that Codex was sent and did not answer before the turn ended is
  not sent again (4590). Claude's `replace_conversation` drops the feedback of
  the recovery on its retry. An empty Claude turn that took a live
  instruction is repeated as a note only. Claude's `unexpected` counts
  messages picked up, not turns.
- *Runner.* A PDF with unresolved references is lost when a later repair fails.
  `run()`'s second try keeps the first one's `attempt_deadline`.
- *Launches.* "Re-run preflight" on a job of a batch during the batch's own
  checks starts a second check (against server.py:8559-8560). The batch and
  the loop count the free slots once (against 8422), so a request in between
  goes over the limit. A paused continuation whose source was deleted
  retries every minute for ever.
- *Retrieval.* `Budget.current()` reads two fields that another thread writes
  one after the other (historical_transport.py:77-82 and 91-107 against 63-65). An
  earlier-cutoff job can replace a newer shared capture stored between its
  look and its `put` (historical_search.py:584-609), and a capture stored by
  it is returned although `open` promises the newest. A background retry
  whose cooldown lies beyond its window expires unattempted, and one that fails
  overwrites a cooldown recorded meanwhile.
- *Related works.* An addition to a batch takes the list of jobs before it
  installs: a job that read the store before and registers afterwards misses
  the work until a later addition (server.py:8797-8810), and the scheduler
  drops a waiting item before its job is registered (8171-8173), so that for a moment
  an addition sees neither. A server that dies between linking a work and
  announcing it never announces it (`unsaid`).

## 12. What is proved, what is only checked, what is not modelled

Proved for every value of the constants: of JobLifecycle its types, `OneRunner`,
`PausedCanResume`, `NoStaleUnsaved`, `StopEndsTheJob` and `SavedPausesHold` (section 3); of
HostLimiter its types, `NoOvertaking` and `Paced`, the refinement of HostPacing
(section 4); of
ReviewGraph its types, `AcceptedIsReviewed`, `FeedbackKept`, `RoundMatchesEdits`,
`PointersAreRead` and `NewestReviewed` (section 5); of CodexSession
`FeedbackReachesAuthor`, `NoEcho`, `WorkKept` and `NoSteerLost` (section 6); of Launches its types,
`AloneUnlessRaced`, `HoldsAreRechecked`, `ReviewedHasReview` and `StartsChecked`
(section 8); of RunnerMain `EditsBelong`, `RepairsEnd`, `ReplyHeard`,
`AgentsCounted` and `PdfIsOfSource` (section 7); of Broker `NeverCrowded`
and `AnsweredOnce`, of Archive `StrictlyBefore`, `AbsenceIsReal`,
`NothingUnrecorded` and `NothingWaitsAlone` (section 9); of Works its types, `AllOrNothing`, `SharedOnce`,
`NothingMissed` and `AuthorKnows` (section 10).

Only model-checked: liveness (`StopFinishes`, `InterruptedContinues`,
`EachStarts`, `AcceptedIsPublished`, `PauseHonoured`, `NobodyWaitsForever`,
`EveryCallAnswered`), since fairness and ENABLED are out of the prover's reach;
and `FeedbackReachesAuthor` of ClaudeSession. The provers cannot instantiate the library's
induction theorems; what a recursive function computes is proved here, where a
theorem needs it, from a least counterexample (sections 4 and 5). No module
declares a RECURSIVE operator.

Every module with state has a type invariant or is typed by its properties;
`TypeOK` of JobLifecycle, HostLimiter, ReviewGraph, Launches and Works is proved, those of the others hold at
the bounds of their runs and are left out of the configurations.

Not modelled (each with its reason in `PROJECT.json`): HTTP routing and
validation, the web client, the terminal, the transcript viewer, experiments and
offline audits keep no state that several actors share. The provider store and
the confinement are sequential. The model runtime, the compiler and discovery
are process and network I/O whose outcomes the models choose freely. Run
ownership is a lock in the models of jobs, without its records. Within the
modelled parts: settings and steering by the web client, repairs of damaged
checkpoints, the contents of messages and transcripts, usage accounting,
directory permissions, second jobs on one transcript, the sealed corpus, the
copying of related works into a retried review, and PDF extraction.
