----------------------------- MODULE AuthorStep -----------------------------
(***************************************************************************)
(* The author's step of a run (src/workflow_runner.py): _goal_step, which  *)
(* continues a failed session of the author in a new session of the same   *)
(* saved conversation, the wait before it does, and the runner processes   *)
(* that a pause ends and Resume starts again.  What a session does is in   *)
(* CodexSession and ClaudeSession; both end a failed attempt in a record   *)
(* that says how to continue.                                              *)
(*                                                                         *)
(* An instruction is abstracted to what a conversation could miss: whether *)
(* it states the task, and the number of the critic's feedback it carries. *)
(***************************************************************************)
EXTENDS Integers, Sequences

CONSTANTS
  MaxFeedback,  \* bound: rejections by the critic
  MaxSteers,    \* bound: live instructions of the user
  MaxFailures,  \* bound: attempts that fail, of any cause
  MaxPauses,    \* bound: pauses and killed runners
  MaxTrouble,   \* bound: steers, failures and pauses together
  MaxWire,      \* bound: messages of the CLI not read yet
  Refusals      \* AUTHOR_RESUME_REFUSALS: as many in a row replace the conversation

ASSUME AuthorConstants ==
  {MaxFeedback, MaxSteers, MaxFailures, MaxPauses, MaxTrouble, MaxWire, Refusals} \subseteq Nat

VARIABLES
  pc,        \* where the step is
  known,     \* known: the latest known way to continue
  feedback,  \* the newest feedback of the critic (0: none)
  initial,   \* initial_instruction: the feedback this runner was started with
  repairing, \* the session's stage is "repair": a rejection of this runner
  queued,    \* live instructions in the controller's queue file
  noted,     \* what the controller recorded: thread, accepted steer, feedback delivered
  pause,     \* the pause file
  s,         \* the session's own variables
  conv,      \* the conversation at the provider
  failures, pauses, \* bounds
  withdrawn  \* history: a runner was started after a removed turn was not sent again

step == <<known, feedback, initial, repairing, queued, noted, pause, failures, pauses, withdrawn>>

None == 0
NoInstr == [task |-> FALSE, fb |-> None, kind |-> "none"]
Instr(task, fb) == [task |-> task, fb |-> fb, kind |-> "text"]
RetryNote == [task |-> FALSE, fb |-> None, kind |-> "note"]  \* AUTHOR_RETRY_NOTE
Continuation == [task |-> FALSE, fb |-> None, kind |-> "continue"]
Instrs == [task : BOOLEAN, fb : 0 .. MaxFeedback, kind : {"none", "text", "note", "continue"}]

\* A rewind names a failed turn of a conversation: what that was before it.
Before(kind, c) == [kind |-> kind, id |-> c.id, task |-> c.task, fb |-> c.fb, silent |-> c.silent]
NoRewind == [kind |-> "none", id |-> None, task |-> FALSE, fb |-> None, silent |-> 0]

\* A new conversation: what it has heard (task, fb, steer), how many turns of
\* this runner at its end have no answer and no live instruction (silent), what
\* it was before the last of them (kept), whether a compaction was not
\* re-anchored yet (plain), whether the model answered after the turn that
\* known.rewind names (stale), and whether such an answer was removed (lost).
\* The provider saves it (live) with its first turn.
NewConv(id) ==
  [id |-> id, live |-> FALSE, task |-> FALSE, fb |-> None, steer |-> conv.steer,
   kept |-> NoRewind, silent |-> 0, plain |-> FALSE, stale |-> FALSE, joined |-> FALSE, lost |-> FALSE]

\* The conversation receives an instruction in a new turn, and the model answers.
Heard(i, kind) ==
  [conv EXCEPT !.live = TRUE, !.task = @ \/ i.task, !.fb = IF i.fb # None THEN i.fb ELSE @,
               !.kept = Before(kind, conv), !.silent = @ + 1]
Settled(c) == [c EXCEPT !.silent = 0, !.stale = TRUE]

\* The turn that rewind names is removed, with all that follows it.
Removed(rewind) ==
  [conv EXCEPT !.task = rewind.task, !.fb = rewind.fb, !.silent = rewind.silent, !.kept = NoRewind,
               !.lost = @ \/ conv.stale]

\* A reopened conversation is taken to hold the task, and the feedback recorded.
Informed(fb) ==
  conv.task /\ (noted.repair = [thread |-> conv.id, fb |-> fb] => conv.fb = fb)

Unknown == [thread |-> None, steer |-> 0, anchor |-> FALSE, instr |-> NoInstr,
            rewind |-> NoRewind, replace |-> FALSE, refusals |-> 0, retry |-> FALSE]

\* pending_repair: the feedback this conversation must receive once.
PendingRepair == IF repairing THEN feedback ELSE initial

\* received(): the controller recorded that this conversation got the feedback
\* the runner was started with.
Received(thread) == noted.repair = [thread |-> thread, fb |-> initial]

\* Whether goal_retry is set: the session continues a failed one.
Continues == known.retry /\ (known.thread # None \/ known.rewind.kind = "fresh" \/ known.replace)

\* The first instruction of a session: a retry's own, else the prompt of a new
\* conversation, or the short reopen prompt with feedback not yet received.
FirstInstructionUntold(resumed, thread) ==   \* mutant: a reopened conversation is told nothing
  IF Continues /\ known.instr # NoInstr THEN known.instr ELSE Instr(~resumed, IF resumed THEN None ELSE initial)
FirstInstruction(resumed, thread) ==
  IF Continues /\ known.instr # NoInstr THEN known.instr
  ELSE Instr(~resumed, IF resumed /\ Received(thread) THEN None ELSE initial)

\* The merge of a failed attempt's record into known.
MergePlain(r) ==   \* mutant: the failed turn is not removed
  [known EXCEPT !.thread = IF r.thread # None THEN r.thread ELSE @, !.steer = r.steer, !.anchor = @ \/ r.anchor,
                !.refusals = r.refusals, !.retry = TRUE, !.instr = IF r.instr = NoInstr THEN @ ELSE r.instr]
Merge(r) ==
  LET first ==
        [known EXCEPT !.thread = IF r.thread # None THEN r.thread ELSE @,
                      !.steer = IF r.steer # 0 THEN r.steer ELSE @,
                      !.anchor = @ \/ r.anchor, !.refusals = r.refusals, !.retry = TRUE]
      told ==
        IF r.instr = NoInstr THEN first
        ELSE IF r.delivered
        THEN [first EXCEPT !.instr = IF r.rewind # NoRewind THEN r.instr ELSE RetryNote,
                           !.rewind = r.rewind]
        ELSE [first EXCEPT !.instr = r.instr, !.rewind = IF r.rewound THEN NoRewind ELSE @]
      kept == IF r.rewindFailed THEN [told EXCEPT !.rewind = NoRewind] ELSE told
  IN IF r.replace
     THEN [kept EXCEPT !.thread = None, !.rewind = NoRewind, !.anchor = FALSE, !.replace = TRUE]
     ELSE [kept EXCEPT !.replace = @ /\ r.thread = None]

\* What a session reports of a failed model call, before its CLI adds to it.
FailedAttempt(thread) ==
  [thread |-> thread, steer |-> s.steer, anchor |-> FALSE, instr |-> s.instr,
   delivered |-> s.delivered, rewind |-> NoRewind, rewound |-> FALSE, rewindFailed |-> FALSE,
   refusals |-> 0, replace |-> FALSE]

-----------------------------------------------------------------------------

\* WorkflowPaused without retry details: the run pauses at the author.
Pauses ==
  /\ pc' = "paused"
  /\ known' = Unknown
  /\ UNCHANGED failures

\* WorkflowPaused with retry details; the wait follows.
MayFail == failures < MaxFailures /\ failures + pauses + queued < MaxTrouble
MayPause == pauses < MaxPauses /\ failures + pauses + queued < MaxTrouble
Fails(r) == pc' = "waiting" /\ known' = Merge(r)
OneMoreFailure == MayFail /\ failures' = failures + 1

\* wait_before_retry ends: a new session, in the known conversation or, when
\* its first turn can be repeated in a new one or it cannot continue, without.
Retry ==
  /\ pc = "waiting" /\ ~pause
  /\ pc' = "launch"
  /\ known' = IF known.rewind.kind = "fresh" \/ known.replace
              THEN [known EXCEPT !.thread = None] ELSE known
  /\ UNCHANGED <<feedback, initial, repairing, queued, noted, pause, s, conv, failures, pauses, withdrawn>>

\* The pause file ends the wait.
PauseEndsWait ==
  /\ pc = "waiting" /\ pause
  /\ Pauses
  /\ UNCHANGED <<feedback, initial, repairing, queued, noted, pause, pauses, withdrawn, s, conv>>

\* A failure that no retry fixes: a safety stop, a model or endpoint that refuses.
NoRetryHelps(attempting, sessionOver) ==
  /\ pc \in attempting /\ MayPause
  /\ Pauses /\ pauses' = pauses + 1
  /\ sessionOver
  /\ UNCHANGED <<feedback, initial, repairing, queued, noted, pause, conv, withdrawn>>

UserPauses ==
  /\ pc \notin {"launch", "paused", "done"} /\ ~pause /\ MayPause
  /\ pause' = TRUE /\ pauses' = pauses + 1
  /\ UNCHANGED <<pc, known, feedback, initial, repairing, queued, noted, s, conv, failures, withdrawn>>

\* The controller queues a live instruction (Steer the author); the file is only
\* read during a turn.
UserSteers ==
  /\ pc \in {"turn", "session"} /\ queued < MaxSteers /\ failures + pauses + queued < MaxTrouble
  /\ queued' = queued + 1
  /\ UNCHANGED <<pc, known, feedback, initial, repairing, noted, pause, s, conv, failures, pauses, withdrawn>>

\* Resume: a new runner opens the recorded conversation; open feedback comes
\* with it (the node's recovery), the instructions already accepted do not.
Resume ==
  /\ pc = "paused"
  /\ pc' = "launch" /\ pause' = FALSE
  /\ known' = [Unknown EXCEPT !.thread = noted.thread]
  /\ initial' = feedback /\ repairing' = FALSE
  /\ withdrawn' = (withdrawn \/ (conv.live /\ conv.id = noted.thread /\ ~Informed(feedback)))
  /\ conv' = Settled(conv)
  /\ UNCHANGED <<feedback, queued, noted, s, failures, pauses>>

\* The critic accepts: the generator is not resumed.
Accepted ==
  /\ pc = "submitted"
  /\ pc' = "done"
  /\ UNCHANGED <<step, s, conv>>

\* The provider deletes the saved conversation (a cleaned home folder).
ConversationVanishes ==
  /\ pc \in {"paused", "waiting"} /\ conv.live /\ MayFail
  /\ conv' = [conv EXCEPT !.live = FALSE]
  /\ failures' = failures + 1
  /\ UNCHANGED <<pc, known, feedback, initial, repairing, queued, noted, pause, s, pauses, withdrawn>>

InitStep ==
  /\ pc = "launch" /\ known = Unknown
  /\ feedback = None /\ initial = None /\ repairing = FALSE
  /\ queued = 0 /\ noted = [thread |-> None, steer |-> 0, repair |-> [thread |-> None, fb |-> None]]
  /\ pause = FALSE /\ failures = 0 /\ pauses = 0
  /\ withdrawn = FALSE
  /\ conv = [id |-> 0, live |-> FALSE, task |-> FALSE, fb |-> None, steer |-> 0,
             kept |-> NoRewind, silent |-> 0, plain |-> FALSE, stale |-> FALSE, joined |-> FALSE, lost |-> FALSE]

\* The step around the session.
AroundSession ==
  Retry \/ PauseEndsWait \/ UserPauses \/ UserSteers \/ Resume \/ Accepted \/ ConversationVanishes

\* With a killed runner the session goes with it; unread records are read.
Killed(sessionOver) ==
  /\ pc \notin {"paused", "done"} /\ MayPause
  /\ Pauses /\ pauses' = pauses + 1
  /\ sessionOver
  /\ UNCHANGED <<feedback, initial, repairing, queued, noted, pause, conv, withdrawn>>
=============================================================================
