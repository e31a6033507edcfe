------------------------------ MODULE AuthorReply ------------------------------
(***************************************************************************)
(* run_author_conversation of src/workflow_runner.py with both of its      *)
(* session functions (author_conversation there and in                     *)
(* src/runner/claude_cli.py): the paused author answers one message of the *)
(* user in its saved conversation, through failed attempts, empty turns    *)
(* that are removed, replies cut off, and a conversation that is refused,  *)
(* held elsewhere or gone.  The provider's conversation is external.       *)
(***************************************************************************)
EXTENDS Integers, Sequences, SequencesExt

CONSTANTS
  Refusals,     \* AUTHOR_RESUME_REFUSALS
  MaxItems,     \* bound: items of the conversation after the pause
  MaxTroubles   \* bound: failures of all kinds

NoRewind == -1

VARIABLES
  harness,   \* "codex" or "claude"
  conv,      \* what the conversation holds since the pause: "msg", "note", "work"
  copy,      \* Claude: the private copy
  turn,      \* run_author_conversation's and the attempt's locals
  unsaid,    \* history: the provider took a message and did not say so, refused to remove a
             \* turn, or a copy was not made
  troubles

replyVars == <<harness, conv, copy, turn, unsaid, troubles>>

NoAttempt == [delivered |-> FALSE, output |-> FALSE, opened |-> FALSE, restored |-> FALSE, stopped |-> FALSE, began |-> 0]
Trouble == troubles < MaxTroubles /\ troubles' = troubles + 1
Fine == UNCHANGED troubles
To(pc) == turn' = [turn EXCEPT !.pc = pc]
External == UNCHANGED <<harness, copy, unsaid>>

Ended(result) == [turn EXCEPT !.pc = "done", !.result = result]
\* finally: a Claude conversation that was opened is copied (best effort).
Saves ==
  IF harness = "codex" \/ ~turn.at.opened THEN UNCHANGED <<copy, unsaid>>
  ELSE (copy' = conv /\ UNCHANGED unsaid) \/ (copy # conv /\ UNCHANGED copy /\ unsaid' = TRUE)

\* What the retry removes: Codex the failed turn, Claude what follows its newest answer.
NewestWork == IF "work" \in Range(conv) THEN CHOOSE i \in DOMAIN conv : conv[i] = "work" /\ \A j \in i + 1 .. Len(conv) : conv[j] # "work" ELSE 0
Rewinding == IF harness = "codex" THEN turn.at.began ELSE NewestWork

\* How the next attempt continues after one that failed.
MergeNoteAlways(t) ==     \* mutant: what was received is never sent again
  IF t.at.delivered THEN [t EXCEPT !.current = "note", !.rewind = IF t.at.output THEN NoRewind ELSE Rewinding]
  ELSE [t EXCEPT !.rewind = NoRewind]
Merge(t) ==
  IF ~t.at.delivered THEN [t EXCEPT !.rewind = NoRewind]
  ELSE IF ~t.at.output THEN [t EXCEPT !.rewind = Rewinding]
  ELSE [t EXCEPT !.current = "note", !.rewind = NoRewind]
AttemptFails(refusals) == turn' = [Merge(turn) EXCEPT !.pc = "wait", !.refusals = refusals] /\ Saves

-----------------------------------------------------------------------------

\* prepared(): the author's node, prompt, model and credentials.
Prepares ==
  /\ turn.pc = "prepare" /\ UNCHANGED conv /\ External
  /\ \/ turn' = [turn EXCEPT !.pc = "start", !.prepared = TRUE] /\ Fine
     \/ Trouble /\ turn' = Ended("configuration")
     \/ Trouble /\ To("wait")

\* An attempt starts its CLI.  Claude gets the message at once.
Starts ==
  /\ turn.pc = "start"
  /\ turn' = [turn EXCEPT !.pc = "opening", !.at = NoAttempt]
  /\ UNCHANGED conv /\ External /\ Fine

\* thread/resume, or --resume with its init message.
Reopens ==
  /\ turn.pc = "opening" /\ conv # <<"gone">>
  /\ turn' = [turn EXCEPT !.pc = IF harness = "codex" /\ turn.rewind # NoRewind THEN "reverting" ELSE "sending",
                          !.at.opened = TRUE]
  /\ UNCHANGED conv /\ External /\ Fine

\* A conversation that is gone: Claude's comes back from its private copy, once.
Missing ==
  /\ turn.pc = "opening" /\ conv = <<"gone">> /\ Fine /\ UNCHANGED <<harness, copy, unsaid>>
  /\ IF harness = "claude" /\ ~turn.at.restored /\ copy # <<"gone">>
     THEN conv' = copy /\ turn' = [turn EXCEPT !.at.restored = TRUE]
     ELSE turn' = Ended("unavailable") /\ UNCHANGED conv

\* A refusal, or a copy because another process holds the conversation.  Claude's
\* leftover CLIs are stopped once; identical refusals in a row end the reply.
StopsLeftovers ==
  /\ turn.pc = "opening" /\ harness = "claude" /\ ~turn.at.stopped /\ Trouble
  /\ turn' = [turn EXCEPT !.at.stopped = TRUE]
  /\ UNCHANGED conv /\ External
TooMany(count) == count >= Refusals
Refused ==
  /\ turn.pc = "opening" /\ Trouble /\ UNCHANGED <<harness, conv>>
  /\ \E count \in {1, turn.refusals + 1} :
       IF TooMany(count) THEN turn' = Ended("unavailable") /\ UNCHANGED <<copy, unsaid>> ELSE AttemptFails(count)

\* thread/revert: a failed empty turn is removed; a refusal is only noted.
Upto(n) == IF n <= Len(conv) THEN SubSeq(conv, 1, n) ELSE conv
Reverts ==
  /\ turn.pc = "reverting" /\ UNCHANGED <<harness, copy>> /\ To("sending")
  /\ \/ Fine /\ conv' = Upto(turn.rewind) /\ UNCHANGED unsaid
     \/ Trouble /\ UNCHANGED conv /\ unsaid' = TRUE

\* The message is taken: after --resume-session-at the later turns are left behind.
Resumed == IF harness = "claude" /\ turn.rewind # NoRewind THEN Upto(turn.rewind) ELSE conv
Takes ==
  /\ turn.pc = "sending" /\ Len(conv) < MaxItems /\ UNCHANGED <<harness, copy>>
  /\ conv' = Append(Resumed, turn.current)
  /\ \/ turn' = [turn EXCEPT !.pc = "turn", !.at.delivered = TRUE, !.at.began = Len(conv)] /\ UNCHANGED unsaid /\ Fine
     \/ turn' = [turn EXCEPT !.pc = "lost"] /\ unsaid' = TRUE /\ Trouble
\* The process ends before it said that it took the message.
Lost ==
  /\ turn.pc = "lost" /\ UNCHANGED <<harness, conv>> /\ Fine
  /\ AttemptFails(0)

\* The model works in the turn.
Works ==
  /\ turn.pc = "turn" /\ Len(conv) < MaxItems
  /\ conv' = Append(conv, "work") /\ turn' = [turn EXCEPT !.at.output = TRUE]
  /\ External /\ Fine

\* The turn ends with a text, which is the reply.
Replies ==
  /\ turn.pc = "turn" /\ turn.at.output
  /\ turn' = Ended("reply") /\ Saves
  /\ UNCHANGED <<harness, conv>> /\ Fine

\* The attempt fails: no answer to a call, a stall, a failed turn, or one without a reply.
Fails ==
  /\ turn.pc \in {"opening", "reverting", "sending", "turn"} /\ Trouble
  /\ UNCHANGED <<harness, conv>> /\ AttemptFails(0)

\* wait_before_retry.
Waited ==
  /\ turn.pc = "wait" /\ To(IF turn.prepared THEN "start" ELSE "prepare")
  /\ UNCHANGED conv /\ External /\ Fine

\* The provider deletes the saved conversation (external).
Vanishes ==
  /\ turn.pc \in {"start", "wait"} /\ conv # <<"gone">> /\ Trouble
  /\ conv' = <<"gone">> /\ UNCHANGED turn /\ External

\* The user stops the reply, or its runner is killed.
Killed == turn.pc # "done" /\ turn' = Ended("stopped") /\ UNCHANGED conv /\ External /\ Fine

ReplyInit ==
  /\ harness \in {"codex", "claude"} /\ conv = <<>> /\ copy \in {<<>>, <<"gone">>}
  /\ turn = [pc |-> "prepare", prepared |-> FALSE, result |-> "none", current |-> "msg", rewind |-> NoRewind,
             refusals |-> 0, at |-> NoAttempt]
  /\ unsaid = FALSE /\ troubles = 0
ReplyNext ==
  \/ Prepares \/ Starts \/ Reopens \/ Missing \/ StopsLeftovers \/ Refused \/ Reverts \/ Takes \/ Lost \/ Works
  \/ Replies \/ Fails \/ Waited \/ Vanishes \/ Killed
ReplySpec == ReplyInit /\ [][ReplyNext]_replyVars

\* The types of the reply's state.
ReplyTypeOK ==
  /\ conv \in Seq({"msg", "note", "work"}) \cup {<<"gone">>} /\ Len(conv) <= MaxItems
  /\ turn.rewind \in -1 .. MaxItems /\ turn.refusals \in 0 .. Refusals - 1 /\ turn.current \in {"msg", "note"}

\* The reply shown to the user comes from a conversation that holds the user's
\* message, however often it was sent, removed, cut off and asked for again, and
\* also when the conversation was put back from its copy (run_author_conversation).
ReplyHeard == turn.result = "reply" /\ ~unsaid => "msg" \in Range(conv)

\* The model is not asked the same message twice in a row: "a message the model
\* never received is sent again, one it received and answered with nothing is
\* removed and sent again" (run_author_conversation).
Unanswered == Len(conv) - NewestWork
ReplyAskedOnce == ~unsaid /\ conv # <<"gone">> => Unanswered <= 1
=============================================================================
