----------------------------- MODULE ReviewGraph -----------------------------
(***************************************************************************)
(* The review of one proof: the graph executor of src/workflow_runner.py   *)
(* (_execute on author_critic.yaml and, as one step, clean_up.yaml), the   *)
(* records it writes, the reader of the web UI, and the two ways in which  *)
(* src/ui/server.py continues a run whose runner ended: from the step's    *)
(* exact input, which the reader keeps in memory, or, after a crash of the *)
(* server, from the transcript and the files of the run folder.            *)
(*                                                                         *)
(* A proof is the number of one exact text; 0 is none.  InFile is an       *)
(* author's answer that only points to proof.md.                           *)
(***************************************************************************)
EXTENDS Naturals, Sequences, FiniteSets

CONSTANTS
  Limit,       \* critic_rounds: edited rounds before the final check
  Selections,  \* the workflow stages a user may have selected
  MaxProofs,   \* bound: different proof texts
  MaxPipe,     \* bound: records written and not read yet
  MaxFaults,   \* bound: killed runners, failed steps and crashes of the server
  MaxPauses    \* bound: pauses asked for by the user

ASSUME ReviewConstants ==
  /\ Limit \in Nat \ {0}
  /\ Selections \subseteq SUBSET {"author", "critic", "writing"}
  /\ \A s \in Selections : s \cap {"author", "critic"} # {}
  /\ MaxProofs \in Nat \ {0}              \* a supplied candidate is a text
  /\ {MaxPipe, MaxFaults, MaxPauses} \subseteq Nat

VARIABLES
  stages,     \* the selected stages of this run
  \* the runner
  pc,         \* where _execute is; "off": no process, "dead": it was killed, "exited"
  node,       \* current
  st,         \* the workflow state
  visits, verify, previous,
  before,     \* submitted[1]: the state before the author's result
  \* files of the run folder
  proofFile,  \* proof.md of the author's workspace
  saved,      \* saved-candidate.md
  finalInput, \* final-input.json
  ckpt,       \* pause.json
  request,    \* the pause request file
  log,        \* the transcript, from the author's latest result on
  critique,   \* the latest critic_result of the whole transcript
  result,     \* the proof of the final result read, "revise" flagged by failed
  failed,
  \* the reader
  pipe,       \* records the runner wrote and the reader has not read
  phase,      \* App.state.phase; "down": the server is not running
  at,         \* last_work_node
  stepInput,  \* step_input
  passed,     \* latest_critic_solution
  submitted,  \* whether the author submitted during this runner
  \* bounds and history
  made, faults, pauses,
  edits,      \* how many critic edits led to a text, from what was submitted
  root, newest, \* the submission a text comes from; the newest one
  approved,   \* texts a critic passed unchanged
  accepted,   \* the proof of the first "Critic approved" record read
  refused,    \* the newest submission read was refused
  cutShort,   \* a runner ended, or the server crashed, while the job was pausing
  gap         \* the same between an edited round and the report of the next

runner  == <<pc, node, st, visits, verify, previous, before>>
files   == <<proofFile, saved, finalInput, ckpt, request>>
trace   == <<log, critique, result, failed>>
reader  == <<at, stepInput, passed, submitted>>
texts   == <<made, edits, root, newest, approved>>
bounds  == <<faults, pauses>>
history == <<accepted, refused, cutShort, gap>>
vars == <<stages, runner, files, trace, pipe, phase, reader, texts, bounds, history>>

Proofs == 1 .. MaxProofs
InFile == MaxProofs + 1

\* What the workflow state holds of interest.  visit, verify: stepVisit (0: none).
States == [sol : 0 .. InFile, report : {"none", "pass", "fixed", "reject"},
           note : BOOLEAN, captured : 0 .. InFile, visit : Nat, verify : BOOLEAN]
Blank == [sol |-> 0, report |-> "none", note |-> FALSE, captured |-> 0,
          visit |-> 0, verify |-> FALSE]

Nodes == {"author", "critic", "convention", "latex"}
NoCkpt == [status |-> "none", node |-> "author", st |-> Blank]
Nothing == [node |-> "none", st |-> Blank]
-----------------------------------------------------------------------------
Init ==
  /\ stages \in Selections
  /\ node = IF "author" \in stages THEN "author" ELSE "critic"
  /\ made = IF "author" \in stages THEN 0 ELSE 1
  /\ st = [Blank EXCEPT !.sol = made]      \* a supplied candidate is the first text
  /\ pc = "top" /\ visits = 0 /\ verify = FALSE /\ previous = "none" /\ before = Blank
  /\ proofFile = 0 /\ saved = made /\ finalInput = 0 /\ ckpt = NoCkpt /\ request = FALSE
  /\ log = <<>> /\ critique = [verdict |-> "none", text |-> 0]
  /\ result = 0 /\ failed = FALSE
  /\ pipe = <<>> /\ phase = "running"
  /\ at = node /\ stepInput = Nothing /\ passed = 0 /\ submitted = FALSE
  /\ faults = 0 /\ pauses = 0
  /\ edits = [p \in 0 .. InFile |-> 0] /\ root = [p \in 0 .. InFile |-> p] /\ newest = made
  /\ approved = {} /\ accepted = 0 /\ refused = FALSE /\ cutShort = FALSE /\ gap = FALSE
-----------------------------------------------------------------------------
(***************************************************************************)
(* The runner: _execute, up to the next record or file it writes.          *)
(***************************************************************************)
Emit(r) == Len(pipe) < MaxPipe /\ pipe' = Append(pipe, r)

\* _step_visit: the workflow state as the input of visit v of node n.
StepVisit(s, n, v, check) ==
  IF v > 1 \/ check THEN [s EXCEPT !.visit = v, !.verify = check] ELSE s

\* The exception handler's workflow_paused record, and the end of the runner.
PausesAt(n, s) ==
  /\ Emit([kind |-> "paused", node |-> n, st |-> s])
  /\ pc' = "exited"

GoTo(n) ==   \* the end of the loop's body: target # current
  /\ pc' = "top" /\ node' = n /\ previous' = node
  /\ visits' = 0 /\ verify' = FALSE

StaysAt == UNCHANGED <<node, visits, verify, previous>>
NoOtherActor == UNCHANGED <<stages, ckpt, request, trace, phase, reader, pauses, history>>

\* The top of the loop.
BeginStep ==
  /\ pc = "top" /\ visits' = visits + 1
  /\ IF request
     THEN PausesAt(node, IF node = "author" THEN st ELSE StepVisit(st, node, visits + 1, verify))
     ELSE /\ Emit([kind |-> "step", node |-> node, visit |-> visits + 1, verify |-> verify])
          /\ pc' = CASE node = "author" -> "work" [] node = "latex" -> "final_input"
                     [] OTHER -> "prepare"
  /\ UNCHANGED <<node, st, verify, previous, before, proofFile, saved, finalInput, faults, texts>>
  /\ NoOtherActor

\* The author's session returns its answer: a complete proof, or a pointer to
\* proof.md, whose content c may be unreadable (0).
AuthorSubmits ==
  /\ pc = "work" /\ ~request
  /\ \E pointer \in BOOLEAN, c \in {0} \cup ({made + 1} \cap Proofs) :
       /\ (c = 0 => pointer)
       /\ proofFile' = IF pointer THEN c ELSE proofFile
       /\ made' = IF c = 0 THEN made ELSE c
       /\ newest' = IF c = 0 THEN newest ELSE c
       /\ st' = [st EXCEPT !.sol = IF pointer THEN InFile ELSE c, !.note = FALSE]
       /\ Emit([kind |-> "author", text |-> st'.sol])
  /\ before' = st
  /\ IF "critic" \in stages
     THEN GoTo("critic")
     ELSE pc' = "capture" /\ previous' = "author" /\ UNCHANGED <<node, visits, verify>>
  /\ UNCHANGED <<saved, finalInput, faults, edits, root, approved>> /\ NoOtherActor

\* A pause asked for by the user, or a failure of the author's session.
AuthorPauses ==
  /\ pc = "work"
  /\ request \/ faults < MaxFaults
  /\ PausesAt("author", st)
  /\ faults' = IF request THEN faults ELSE faults + 1
  /\ UNCHANGED <<st, before, proofFile, saved, finalInput, texts>>
  /\ StaysAt /\ NoOtherActor

\* Mutant of ResolvesAgain: only a runner that saw the author submit reads proof.md.
ResolvesAgainOnce ==
  /\ visits = 1 /\ previous = "author"
  /\ st.captured # st.sol

\* _prepare_node_files: the text to review, 0 when it cannot be handed over.
ResolvesAgain ==
  /\ visits = 1 /\ previous \in {"none", "author"}
  /\ st.captured # st.sol

\* Mutant of Candidate: the first visit of any step reads proof.md again.
CandidateAlwaysRead == IF visits = 1 /\ proofFile # 0 THEN proofFile ELSE st.sol

Candidate == IF ResolvesAgain /\ st.sol = InFile THEN proofFile ELSE st.sol

\* HandoffRefused: back to the author, as it was before it submitted if this
\* runner knows.
Refuse ==
  /\ PausesAt("author", [(IF previous = "author" THEN before ELSE st) EXCEPT !.note = TRUE])
  /\ UNCHANGED st

Prepare ==
  /\ pc = "prepare"
  /\ IF Candidate = 0
     THEN Refuse
     ELSE /\ Emit([kind |-> "handoff", text |-> Candidate])
          /\ st' = [st EXCEPT !.sol = Candidate, !.captured = Candidate]
          /\ pc' = "input"
  /\ UNCHANGED <<before, proofFile, saved, finalInput, faults, texts>>
  /\ StaysAt /\ NoOtherActor

\* Mutant of ReportInput: the input does not say which visit it is.
ReportInputUnnumbered ==
  /\ pc = "input"
  /\ Emit([kind |-> "input", node |-> node, st |-> st])
  /\ pc' = IF node = "critic" THEN "write" ELSE "model"
  /\ UNCHANGED <<st, before, proofFile, saved, finalInput, faults, texts>>
  /\ StaysAt /\ NoOtherActor

\* node_input, which only the reader's memory keeps.
ReportInput ==
  /\ pc = "input"
  /\ Emit([kind |-> "input", node |-> node, st |-> StepVisit(st, node, visits, verify)])
  /\ pc' = IF node = "critic" THEN "write" ELSE "model"
  /\ UNCHANGED <<st, before, proofFile, saved, finalInput, faults, texts>>
  /\ StaysAt /\ NoOtherActor

\* The critic's `before' action.
SaveCandidate ==
  /\ pc = "write" /\ saved' = st.sol /\ pc' = "model"
  /\ UNCHANGED <<pipe, st, before, proofFile, finalInput, faults, texts>>
  /\ StaysAt /\ NoOtherActor

\* The critic answers with text t, up to its critic_result record.
CriticAnswers(outcome, t) ==
  /\ pc = "model" /\ node = "critic"
  /\ Emit([kind |-> "critic", verdict |-> IF outcome = "reject" THEN "reject" ELSE "pass",
           edited |-> t # st.sol, text |-> t])
  /\ st' = [st EXCEPT !.sol = t, !.report = outcome]
  /\ pc' = "after"
  /\ made' = IF t # st.sol THEN t ELSE made
  /\ edits' = IF t # st.sol THEN [edits EXCEPT ![t] = edits[st.sol] + 1] ELSE edits
  /\ root' = IF t # st.sol THEN [root EXCEPT ![t] = root[st.sol]] ELSE root
  /\ UNCHANGED <<before, proofFile, saved, finalInput, faults, newest>>
  /\ StaysAt /\ NoOtherActor

CriticPasses ==
  /\ CriticAnswers("pass", st.sol)
  /\ approved' = approved \cup {st.sol}

CriticFixes ==
  /\ ~verify /\ made < MaxProofs
  /\ CriticAnswers("fixed", made + 1) /\ UNCHANGED approved

\* A rejection keeps the safe fixes.
CriticRejects ==
  \E t \in {st.sol} \cup ({made + 1} \cap Proofs) :
    /\ (verify => t = st.sol)
    /\ CriticAnswers("reject", t) /\ UNCHANGED approved

\* Mutant of RepeatsAsCheck: an edited round at the limit is just repeated.
RepeatsAsCheckNever == FALSE

\* The repeat branch: the next visit of the critic only confirms or rejects.
RepeatsAsCheck == visits >= Limit

\* The critic's last `after' action and the branch of its outcome.
AfterCritic ==
  /\ pc = "after"
  /\ saved' = st.sol
  /\ CASE st.report = "pass" -> pc' = "approve" /\ StaysAt
       [] st.report = "fixed" -> /\ pc' = "top" /\ previous' = "critic"
                                 /\ verify' = RepeatsAsCheck /\ UNCHANGED <<node, visits>>
       [] st.report = "reject" -> IF "author" \in stages THEN GoTo("author")
                                  ELSE pc' = "revise" /\ StaysAt
  /\ UNCHANGED <<pipe, st, before, proofFile, finalInput, faults, texts>>
  /\ NoOtherActor

Approve ==
  /\ pc = "approve" /\ Emit([kind |-> "approved"]) /\ GoTo("convention")
  /\ UNCHANGED <<st, before, proofFile, saved, finalInput, faults, texts>>
  /\ NoOtherActor

Revise ==
  /\ pc = "revise" /\ Emit([kind |-> "failure"]) /\ pc' = "exited"
  /\ UNCHANGED <<st, before, proofFile, saved, finalInput, faults, texts>>
  /\ StaysAt /\ NoOtherActor

\* After author_critic.yaml: the writing graph, or _emit_selected_proof_result.
Finish ==
  IF "writing" \in stages
  THEN /\ pc' = "top" /\ node' = "latex" /\ previous' = "none" /\ visits' = 0 /\ verify' = FALSE
  ELSE pc' = "publish" /\ StaysAt

ConventionAnswers ==
  /\ pc = "model" /\ node = "convention" /\ Emit([kind |-> "convention"]) /\ Finish
  /\ UNCHANGED <<st, before, proofFile, saved, finalInput, faults, texts>>
  /\ NoOtherActor

\* _capture_unreviewed_proof
Capture ==
  /\ pc = "capture"
  /\ LET c == IF st.sol = InFile THEN proofFile ELSE st.sol IN
     IF c = 0
     THEN Refuse /\ StaysAt
     ELSE st' = [st EXCEPT !.sol = c] /\ Finish /\ UNCHANGED pipe
  /\ UNCHANGED <<before, proofFile, saved, finalInput, faults, texts>>
  /\ NoOtherActor

\* save_final_input before the LaTeX editor.
SaveFinalInput ==
  /\ pc = "final_input" /\ finalInput' = st.sol /\ pc' = "input"
  /\ UNCHANGED <<pipe, st, before, proofFile, saved, faults, texts>>
  /\ StaysAt /\ NoOtherActor

\* The final_result record; the LaTeX steps are one step of this model.
Publish ==
  /\ pc = "publish" \/ (pc = "model" /\ node = "latex")
  /\ Emit([kind |-> "final", text |-> st.sol]) /\ pc' = "exited"
  /\ UNCHANGED <<st, before, proofFile, saved, finalInput, faults, texts>>
  /\ StaysAt /\ NoOtherActor

\* A call of a later step fails for good: it pauses with its exact input.
StepFails ==
  /\ pc = "model" /\ faults < MaxFaults /\ faults' = faults + 1
  /\ PausesAt(node, StepVisit(st, node, visits, verify))
  /\ UNCHANGED <<st, before, proofFile, saved, finalInput, texts>>
  /\ StaysAt /\ NoOtherActor

Runner ==
  \/ BeginStep \/ AuthorSubmits \/ AuthorPauses \/ Prepare \/ ReportInput \/ SaveCandidate
  \/ CriticPasses \/ CriticFixes \/ CriticRejects \/ AfterCritic \/ Approve \/ Revise
  \/ ConventionAnswers \/ Capture \/ SaveFinalInput \/ Publish \/ StepFails
-----------------------------------------------------------------------------
(***************************************************************************)
(* What the server rebuilds after a crash, from the transcript and files.  *)
(***************************************************************************)
Kinds(ks) == {i \in DOMAIN log : log[i].kind \in ks}
Newest(ks) == CHOOSE i \in Kinds(ks) : \A j \in Kinds(ks) : j <= i

\* last_work_node: records without a node belong to the step before them.
LastWorkNode ==
  IF log = <<>> THEN "none"
  ELSE IF Kinds({"step", "resume"}) = {} THEN IF log[1].kind = "author" THEN "author" ELSE "critic"
  ELSE log[Newest({"step", "resume"})].node

AuthorFinished == log # <<>> /\ LastWorkNode = "author" /\ Kinds({"step", "resume"}) = {}

SubmittedSinceResume ==
  log # <<>> /\ log[1].kind = "author" /\ Kinds({"resume"}) = {}

\* Mutant of InterruptedCandidate: the saved file, whichever text it holds.
InterruptedCandidateSaved == saved

\* interrupted_critic_candidate
InterruptedCandidate ==
  LET captures == Kinds({"handoff"}) IN
  IF saved # 0 /\ captures # {} /\ log[Newest({"handoff"})].text = saved THEN saved
  ELSE IF Kinds({"critic"}) # {} THEN log[Newest({"critic"})].text
  ELSE IF Kinds({"author"}) # {} THEN log[1].text
  ELSE saved

\* interrupted_critic_visit, as the workflow state s with its stepVisit.
InterruptedVisit(s) ==
  LET seen == {i \in Kinds({"author", "critic", "step", "resume"}) :
                 log[i].kind = "step" => log[i].node = "critic"}
      r == log[CHOOSE i \in seen : \A j \in seen : j <= i]
  IN CASE seen = {} -> s
       [] seen # {} /\ r.kind = "step" -> StepVisit(s, "critic", r.visit, r.verify)
       [] seen # {} /\ r.kind = "resume" ->
            IF r.node = "critic" /\ ckpt.status = "running" /\ ckpt.node = "critic"
            THEN [s EXCEPT !.visit = ckpt.st.visit, !.verify = ckpt.st.verify] ELSE s
       [] OTHER -> s

At(n, s) == IF s.sol = 0 THEN Nothing ELSE [node |-> n, st |-> s]
Input(p) == [Blank EXCEPT !.sol = p]

\* The records that decide where an interrupted step goes on.
Decisive == {"author", "critic", "approved", "convention"}

\* interrupted_stage_checkpoint.  The final input was saved when its approval was read.
InterruptedStage(n) ==
  LET last == IF Kinds(Decisive) = {} THEN "none" ELSE log[Newest(Decisive)].kind
  IN CASE n = "latex" \/ last = "convention" ->
            IF "writing" \in stages THEN At("latex", Input(finalInput)) ELSE Nothing
       [] n # "latex" /\ last = "approved" ->
            At("convention", Input(IF Kinds({"critic"}) # {} THEN log[Newest({"critic"})].text
                                   ELSE InterruptedCandidate))
       [] n # "latex" /\ last = "critic" /\ critique.verdict = "reject" ->
            IF "author" \in stages
            THEN At("author", [Input(critique.text) EXCEPT !.report = "reject"]) ELSE Nothing
       [] OTHER -> At("critic", InterruptedVisit(Input(InterruptedCandidate)))

\* Mutant of WithRejection: an unfinished author forgets what it was repairing.
WithoutRejection(s) == s

\* The latest rejection joins the author's saved state.
WithRejection(s) ==
  IF critique.verdict = "reject" THEN [s EXCEPT !.report = "reject", !.sol = critique.text] ELSE s

\* Mutant of WithoutOldNote: the reason of a refusal survives a submission.
KeepsOldNote(s, again) == s

\* What the author submitted since answers the refusal the saved state tells of.
WithoutOldNote(s, again) == IF again THEN [s EXCEPT !.note = FALSE] ELSE s

\* The checkpoint of an author that ended without a final answer.
Unfinished(again) == [node |-> "author", st |-> WithRejection(WithoutOldNote(ckpt.st, again))]

\* restore_saved_app: the checkpoint of an interrupted run.
Rebuilt ==
  IF LastWorkNode = "author"
  THEN IF AuthorFinished THEN Nothing
       ELSE Unfinished(SubmittedSinceResume)
  ELSE IF LastWorkNode = "none" THEN Nothing ELSE InterruptedStage(LastWorkNode)
-----------------------------------------------------------------------------
(***************************************************************************)
(* The server.                                                             *)
(***************************************************************************)
RunnerRests == UNCHANGED <<runner, proofFile, saved, texts>>

Logged(r) ==
  CASE r.kind = "author" -> <<r>>
    [] r.kind \in {"step", "handoff", "critic", "approved", "convention"} -> Append(log, r)
    [] OTHER -> log

\* _read_records: one record.
Read ==
  /\ phase \in {"running", "pausing"} /\ pipe # <<>>
  /\ LET r == Head(pipe) IN
     /\ log' = Logged(r)
     /\ at' = IF r.kind = "author" THEN "author"
              ELSE IF r.kind \in {"step", "paused"} THEN r.node ELSE at
     /\ stepInput' = IF r.kind = "input" THEN [node |-> r.node, st |-> r.st] ELSE stepInput
     /\ submitted' = (submitted \/ r.kind = "author")
     /\ critique' = IF r.kind = "critic" THEN [verdict |-> r.verdict, text |-> r.text] ELSE critique
     /\ passed' = IF r.kind # "critic" THEN passed ELSE IF r.verdict = "pass" THEN r.text ELSE 0
     /\ finalInput' = IF r.kind = "approved" /\ passed # 0 THEN passed ELSE finalInput
     /\ accepted' = IF r.kind = "approved" /\ accepted = 0 THEN critique.text ELSE accepted
     /\ refused' = IF r.kind = "author" THEN FALSE
                   ELSE IF r.kind = "paused" THEN r.st.note ELSE refused
     /\ result' = IF r.kind = "final" THEN r.text ELSE result
     /\ failed' = (failed \/ r.kind = "failure")
     /\ phase' = IF r.kind = "paused" THEN "pausing" ELSE phase
     /\ ckpt' = IF r.kind = "paused" THEN [status |-> "pausing", node |-> r.node, st |-> r.st]
                ELSE ckpt
  /\ pipe' = Tail(pipe)
  /\ RunnerRests /\ UNCHANGED <<stages, request, faults, pauses, cutShort, gap>>

\* Mutant of StepStopped: only a stopped author is resumed.
StepStoppedNever == FALSE

\* The runner was killed in a later step, whose input is known.
StepStopped == pc = "dead" /\ at = stepInput.node /\ at # "author"

\* The end of _read_records, once the runner is gone and all it wrote is read.
Settle ==
  /\ phase \in {"running", "pausing"} /\ pc \in {"exited", "dead"} /\ pipe = <<>>
  /\ LET ends == phase' = "done" /\ UNCHANGED ckpt
         stops(c) ==
           /\ phase' = "paused"
           /\ ckpt' = [status |-> "paused", node |-> c.node, st |-> c.st]
     IN IF result # 0 \/ failed THEN ends
        ELSE IF phase = "pausing" THEN stops(ckpt)
        ELSE IF at = "author" THEN stops(Unfinished(submitted))
        ELSE IF StepStopped THEN stops(stepInput) ELSE ends
  /\ pc' = "off"
  /\ UNCHANGED <<stages, node, st, visits, verify, previous, before, proofFile, saved, finalInput,
                 request, trace, pipe, reader, texts, bounds, history>>

\* _resumed_visit: how many visits precede the one that checkpoint c continues.
ResumedVisit(c) == IF c.node = "critic" /\ c.st.visit > 0 THEN c.st.visit - 1 ELSE 0

\* resume: by the user, or by the server's loop.
Resume ==
  /\ phase = "paused" /\ phase' = "running" /\ request' = FALSE
  /\ ckpt' = [ckpt EXCEPT !.status = "running"]
  /\ log' = Append(log, [kind |-> "resume", node |-> ckpt.node])
  /\ pc' = "top" /\ node' = ckpt.node /\ previous' = "none" /\ before' = Blank
  /\ st' = [ckpt.st EXCEPT !.visit = 0, !.verify = FALSE]
  /\ visits' = ResumedVisit(ckpt)
  /\ verify' = (ckpt.node = "critic" /\ ckpt.st.visit > 0 /\ ckpt.st.verify)
  /\ at' = ckpt.node /\ submitted' = FALSE /\ passed' = 0
  /\ stepInput' = IF ckpt.node = "author" THEN Nothing ELSE [node |-> ckpt.node, st |-> ckpt.st]
  /\ UNCHANGED <<stages, proofFile, saved, finalInput, critique, result, failed, pipe, texts,
                 bounds, history>>

\* Mutant of PauseState: a pause saves nothing of what the critic said.
PauseStateBlank == Blank

\* _author_checkpoint_state
PauseState == WithRejection(Blank)

\* Pause, while the records read so far say that the author works.
Pause ==
  /\ phase = "running" /\ at = "author" /\ pauses < MaxPauses /\ pauses' = pauses + 1
  /\ ckpt' = [status |-> "pausing", node |-> "author", st |-> PauseState]
  /\ request' = TRUE /\ phase' = "pausing"
  /\ cutShort' = (cutShort \/ pc = "dead")
  /\ UNCHANGED <<finalInput, trace, pipe, reader, faults, stages, accepted, refused, gap>>
  /\ RunnerRests

\* No step runs whose input is known: it answered, or the next did not report its own.
BetweenSteps == pc \notin {"work", "write", "model"}

LogBetweenSteps ==
  /\ log # <<>>
  /\ \/ log[Len(log)].kind = "critic"
     \/ log[Len(log)].kind = "convention" /\ "writing" \notin stages

Working == pc \notin {"off", "dead", "exited"}

\* The runner is killed: out of memory, or it did not acknowledge a pause.
Kill ==
  /\ Working /\ phase \in {"running", "pausing"} /\ faults < MaxFaults
  /\ pc' = "dead" /\ faults' = faults + 1
  /\ cutShort' = (cutShort \/ phase = "pausing") /\ gap' = (gap \/ BetweenSteps)
  /\ UNCHANGED <<stages, node, st, visits, verify, previous, before, files, trace, pipe, phase,
                 reader, pauses, texts, accepted, refused>>

\* The server crashes, and its runner ends with it.
Crash ==
  /\ phase # "down" /\ phase # "done" /\ faults < MaxFaults
  /\ phase' = "down" /\ pc' = "off" /\ pipe' = <<>> /\ faults' = faults + 1
  /\ cutShort' = (cutShort \/ phase = "pausing")
  /\ gap' = \/ gap \/ LogBetweenSteps
            \/ \E i, j \in DOMAIN pipe :
                 pipe[i].kind = "critic" /\ (pipe[i].edited \/ pipe[j].kind = "author")
  /\ UNCHANGED <<stages, node, st, visits, verify, previous, before, files, trace,
                 reader, pauses, texts, accepted, refused>>

\* restore_saved_app
Restart ==
  /\ phase = "down"
  /\ LET kept == ckpt.status \in {"paused", "pausing"}
     IN IF result = 0 /\ kept
        THEN phase' = "paused" /\ ckpt' = [ckpt EXCEPT !.status = "paused"]
        ELSE IF result = 0 /\ ~failed /\ Rebuilt # Nothing
        THEN /\ phase' = "paused"
             /\ ckpt' = [status |-> "paused", node |-> Rebuilt.node, st |-> Rebuilt.st]
        ELSE phase' = "done" /\ UNCHANGED ckpt
  /\ UNCHANGED <<stages, runner, proofFile, saved, finalInput, request, trace, pipe, reader,
                 texts, bounds, history>>

Server == Read \/ Settle \/ Resume \/ Restart
Fault == Kill \/ Crash
Next == Runner \/ Server \/ Pause \/ Fault

Spec == Init /\ [][Next]_vars

FairSpec == Spec /\ WF_vars(Runner) /\ WF_vars(Server)
-----------------------------------------------------------------------------
\* Every variable has its type; visits counts down to 0 at most, also for a
\* runner that continues a saved visit.
TypeOK ==
  /\ stages \in Selections /\ node \in Nodes /\ st \in States /\ before \in States
  /\ pc \in {"off", "dead", "exited", "top", "work", "prepare", "input", "write", "model",
             "after", "approve", "revise", "capture", "final_input", "publish"}
  /\ visits \in Nat /\ verify \in BOOLEAN /\ previous \in Nodes \cup {"none"}
  /\ proofFile \in 0 .. MaxProofs /\ saved \in 0 .. InFile /\ finalInput \in 0 .. InFile
  /\ ckpt \in [status : {"none", "running", "pausing", "paused"}, node : Nodes, st : States]
  /\ result \in 0 .. InFile /\ failed \in BOOLEAN /\ request \in BOOLEAN
  /\ phase \in {"running", "pausing", "paused", "done", "down"}
  /\ at \in Nodes /\ made \in 0 .. MaxProofs /\ approved \subseteq 1 .. InFile
  /\ Len(pipe) <= MaxPipe

Reviewed == "critic" \in stages
Unread(ks) == \E i \in DOMAIN pipe : pipe[i].kind \in ks
EndedWell == ~gap /\ ~cutShort

\* What is published, given to the LaTeX editor or announced as approved was
\* passed unchanged by a critic, whatever pauses, failures and restarts lie
\* between the pass and the use of the text (the edits of a rejection or of a
\* pass with fixes, and proof.md, hold other texts).  It takes for granted that
\* no critic passed an answer that only points to proof.md, see PointersAreRead.
AcceptedIsReviewed ==
  Reviewed /\ InFile \notin approved =>
    /\ {result, finalInput, accepted} \subseteq approved \cup {0}
    /\ Working /\ node \in {"convention", "latex"} => st.sol \in approved

\* A critic reads the proof an author's answer points to, and never passes the
\* pointer: in a new run, after a pause, a failed call or a recovery.
PointersAreRead == EndedWell => InFile \notin approved

\* Once the server read "Critic approved", no recovery leaves the approved text:
\* neither the author nor the critic works again, and that text is published.
AcceptedStays ==
  accepted # 0 /\ EndedWell =>
    /\ result \in {0, accepted} /\ finalInput \in {0, accepted}
    /\ Working => node \in {"convention", "latex"} /\ st.sol = accepted

\* A critic's round is numbered by the edits made since the author submitted,
\* also when a pause, a failed call, a killed runner or a restart interrupted it,
\* and only the round after the last edit allowed cannot edit.
RoundMatchesEdits ==
  Working /\ node = "critic" /\ pc \in {"input", "write", "model"} /\ EndedWell =>
    /\ st.sol \in Proofs
    /\ visits = edits[st.sol] + 1
    /\ verify = (edits[st.sol] = Limit)

\* A working author works on what sent it back: its state holds the reason of its
\* refused submission, and none of an earlier one (handoff_refused), or else the
\* critic's latest rejection and the text it is about, also when a new runner
\* continues it.
FeedbackKept ==
  pc = "work" /\ ~Unread({"author"}) /\ ~cutShort =>
    /\ st.note = refused
    /\ ~Unread({"critic"}) /\ ~refused /\ critique.verdict = "reject"
         => st.report = "reject" /\ st.sol = critique.text

SameWork(c, d) ==
  /\ c.node = d.node
  /\ <<c.st.sol, c.st.visit, c.st.verify>> = <<d.st.sol, d.st.visit, d.st.verify>>
  /\ c.node = "author" => c.st = d.st

\* The two recoveries agree: at any moment of a step, the checkpoint that
\* restore_saved_app would rebuild from the transcript continues the same step,
\* text and round as the one that _read_records would save from its memory.
RecoveriesAgree ==
  phase = "running" /\ pipe = <<>> /\ EndedWell =>
    /\ pc = "work" => SameWork(Rebuilt, Unfinished(submitted))
    /\ pc = "model" => SameWork(Rebuilt, stepInput)

\* Every later step works on the author's newest submission: the text it has is
\* that submission or the critics' edits of it.
WorksOnNewest == pc = "model" /\ Reviewed => root[st.sol] = newest

\* The same, of the runs in which no runner or server ended between two steps.
NewestReviewed == EndedWell => WorksOnNewest

\* An approved proof ends up published, whatever ends its runner or the server
\* on the way (other than between two steps).
AcceptedIsPublished == accepted # 0 ~> result = accepted \/ ~EndedWell
=============================================================================
