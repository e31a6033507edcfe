---------------------------- MODULE ClaudeSession ----------------------------
(***************************************************************************)
(* goal_session of src/runner/claude_cli.py: one attempt of the author in  *)
(* one Claude command line process.  Messages are written to the CLI at    *)
(* any time; it picks each up when it likes (during a turn, or to begin    *)
(* one) and says so later, so the session tracks which message began what. *)
(* Claude is external: it opens, refuses or copies the conversation, picks *)
(* messages up, works, compacts, ends turns, or ends.                      *)
(***************************************************************************)
EXTENDS AuthorStep

VARIABLES
  turn,     \* Claude: whether a turn runs
  inbox,    \* Claude: messages written and not picked up
  wire,     \* messages of the CLI the main loop has not read
  cli,      \* "starting", "up", "dead": the process ended, "off": none
  copy,     \* the private copy of the newest conversation
  excused   \* history: Claude did not report a turn, or ended before it left one behind

claude == <<turn, inbox, wire, cli, copy>>
vars == <<pc, step, s, conv, claude, excused>>

Turn == 0                 \* the instruction, among the messages
Anchor == MaxSteers + 1   \* the re-anchor after a compaction
Kinds == Anchor + 1
\* A message is its item, or the item sent again after it was given up on
\* (the code gives each message an id of its own).
Items == 0 .. 2 * Kinds
ItemOf(m) == m % Kinds
NewMessage(item) == IF item \in s.given \cup s.pending THEN item + Kinds ELSE item
Open == -1                \* a turn's result that leaves the goal open
NoResult == -2

\* The session's state and locals: see goal_session.
NoSession ==
  [active |-> TRUE, thread |-> None, instr |-> NoInstr, lead |-> FALSE, delivered |-> FALSE, output |-> FALSE,
   steered |-> FALSE, running |-> FALSE, init |-> FALSE, resuming |-> FALSE, at |-> NoRewind, fresh |-> FALSE,
   completed |-> FALSE, anchor |-> FALSE, carried |-> FALSE, resent |-> FALSE, unexpected |-> 0,
   pending |-> {}, given |-> {}, finished |-> NoResult, steer |-> 0, restored |-> FALSE, stopped |-> FALSE]
Fresh(steer) ==
  [NoSession EXCEPT !.steer = steer, !.carried = Continues /\ known.anchor,
                    !.anchor = known.rewind.kind = "anchor"]

\* save_transcript: each finished turn and the end of the session copy it.
Copy == IF s.thread # None /\ conv.live THEN conv ELSE copy
Gone == turn' = FALSE /\ inbox' = <<>> /\ wire' = <<>> /\ cli' = "off" /\ s' = NoSession
Ends == Gone /\ copy' = Copy

\* The retry record: an empty turn is left behind by reopening the conversation
\* at its newest answer, or a new conversation begins as this one did.
Empty == s.delivered /\ ~s.output /\ ~s.steered /\ s.thread # None
Rewind ==
  IF ~Empty THEN NoRewind
  ELSE IF conv.kept # NoRewind /\ (s.anchor \/ ~s.fresh \/ s.completed) THEN conv.kept
  ELSE IF s.fresh /\ ~s.completed THEN [NoRewind EXCEPT !.kind = "fresh"] ELSE NoRewind
Report(refusals) ==
  [FailedAttempt(s.thread) EXCEPT
     !.anchor = s.carried \/ (\E m \in s.pending : ItemOf(m) = Anchor), !.rewind = Rewind, !.refusals = refusals,
     !.rewindFailed = s.at # NoRewind /\ ~s.init /\ cli = "dead"]
SessionFails(r) ==
  IF pause THEN Pauses /\ Ends
  ELSE Fails(r) /\ Ends /\ OneMoreFailure

-----------------------------------------------------------------------------

\* launch: a new process; what the old one did not pick up is forgotten.
Launched(t, resume, at) ==
  [t EXCEPT !.pending = {}, !.given = {}, !.init = FALSE, !.resuming = resume, !.at = at, !.running = FALSE,
            !.unexpected = 0]

\* start_turn, with a process that runs: the instruction is written.
Sending(t, instr, lead) ==
  [t EXCEPT !.instr = instr, !.lead = lead, !.delivered = FALSE, !.output = FALSE, !.steered = FALSE,
            !.active = TRUE, !.running = TRUE, !.pending = @ \cup {Turn}]
NewProcess(t, instr, lead) ==
  /\ s' = Sending(t, instr, lead)
  /\ cli' = "starting" /\ inbox' = <<Turn>> /\ wire' = <<>> /\ turn' = FALSE /\ UNCHANGED copy

\* An idle CLI that ended is started again with its saved session.
StartTurn(t, instr, lead, way) ==
  IF pause THEN Pauses /\ Ends
  ELSE /\ pc' = "session" /\ UNCHANGED failures /\ known' = way
       /\ IF cli = "dead" /\ t.init THEN NewProcess(Launched(t, TRUE, t.at), instr, lead)
          ELSE /\ s' = Sending(t, instr, lead) /\ inbox' = Append(inbox, Turn)
               /\ UNCHANGED <<wire, turn, cli, copy>>

\* start_new_session: it needs no re-anchor.
NewSession(t) == [Launched(t, FALSE, NoRewind) EXCEPT !.fresh = TRUE, !.completed = FALSE, !.anchor = FALSE,
                                                      !.carried = FALSE, !.thread = None]

\* The first instruction of a conversation that replaces one.
Replacement ==
  Instr(TRUE, IF repairing THEN feedback ELSE IF known.instr = NoInstr THEN initial ELSE None)
Replace ==
  /\ conv' = NewConv(conv.id + 1)
  /\ IF pause THEN Pauses /\ Ends
     ELSE /\ NewProcess(NewSession(s), Replacement, FALSE)
          /\ known' = [known EXCEPT !.refusals = 0] /\ UNCHANGED <<pc, failures>>

Rest == UNCHANGED <<feedback, initial, repairing, queued, pause, pauses, withdrawn>>

\* Settings, sandbox and private files are prepared, the CLI is started.
Start ==
  LET t == Fresh(IF known.steer # 0 THEN known.steer ELSE noted.steer) IN
  /\ pc = "launch"
  /\ IF pause THEN Pauses /\ Ends /\ UNCHANGED conv
     ELSE /\ pc' = "session" /\ UNCHANGED <<known, failures>>
          /\ IF known.thread = None
             THEN NewProcess(NewSession(t), FirstInstruction(FALSE, None), FALSE) /\ conv' = NewConv(conv.id + 1)
             ELSE /\ NewProcess(Launched([t EXCEPT !.carried = FALSE], TRUE,
                                         IF known.rewind.kind = "anchor" THEN known.rewind ELSE NoRewind),
                                FirstInstruction(TRUE, known.thread), t.carried)
                  /\ UNCHANGED conv
  /\ Rest /\ UNCHANGED <<noted, excused>>

-----------------------------------------------------------------------------
\* Claude (external)

Running == pc \in {"session", "submitted"}
Says(m, item) == wire' = Append(wire, [m |-> m, item |-> item])
ClaudeOnly == UNCHANGED <<pc, step, s>>
Quiet == Len(wire) < MaxWire

\* The answer to reopen at is one of this conversation.
AtHere == s.at # NoRewind => s.at.id = conv.id

\* It opens the conversation, or a copy while another process holds it.
ClaudeOpens ==
  /\ pc = "session" /\ cli = "starting" /\ (s.resuming => conv.live /\ AtHere)
  /\ cli' = "up" /\ (Says("init", 0) \/ (s.resuming /\ MayFail /\ Says("copy", 0)))
  /\ ClaudeOnly /\ UNCHANGED <<conv, turn, inbox, copy, excused>>

\* It ends before it opened the saved conversation: it has none, or refuses it.
ClaudeRefuses ==
  /\ pc = "session" /\ cli = "starting" /\ s.resuming
  /\ IF conv.live THEN (AtHere => MayFail) /\ Says("refused", 0) ELSE Says("missing", 0)
  /\ cli' = "dead" /\ excused' = (excused \/ (s.at # NoRewind /\ AtHere))
  /\ ClaudeOnly /\ UNCHANGED <<conv, turn, inbox, copy>>

\* A message is picked up: it joins the running turn or begins one.  The first
\* one after a reopening at an earlier answer leaves the later turns behind.
Picks(item) ==
  LET c == IF s.at # NoRewind /\ item = Turn THEN [Removed(s.at) EXCEPT !.kept = conv.kept] ELSE conv
      i == s.instr
  IN IF item = Turn
     THEN [c EXCEPT !.live = TRUE, !.task = @ \/ i.task, !.fb = IF i.fb # None THEN i.fb ELSE @,
                    !.silent = IF turn \/ i = RetryNote THEN @ ELSE @ + 1, !.plain = @ /\ ~s.lead, !.stale = conv.joined]
     ELSE IF item = Anchor THEN [c EXCEPT !.silent = 0, !.stale = TRUE, !.joined = TRUE, !.plain = FALSE]
     ELSE [c EXCEPT !.silent = 0, !.stale = TRUE, !.joined = TRUE, !.steer = item]
ClaudePicks ==
  /\ Running /\ cli = "up" /\ inbox # <<>> /\ Quiet
  /\ turn' = TRUE /\ inbox' = Tail(inbox)
  /\ conv' = Picks(ItemOf(Head(inbox)))
  /\ withdrawn' = (withdrawn \/ (conv'.fb # conv.fb /\ conv'.fb # feedback))
  /\ \/ Says("took", Head(inbox)) /\ UNCHANGED <<cli, excused>>
     \/ MayFail /\ cli' = "dead" /\ excused' = TRUE /\ UNCHANGED wire
  /\ UNCHANGED <<pc, known, feedback, initial, repairing, queued, noted, pause, failures, pauses, s, copy>>

\* Its first output after a message is the newest answer, for a reopening.
ClaudeWorks ==
  /\ Running /\ cli = "up" /\ turn /\ Quiet
  /\ conv.silent > 0 \/ conv.joined
  /\ Says("output", 0)
  /\ LET c == [conv EXCEPT !.silent = 0, !.joined = FALSE, !.stale = TRUE] IN conv' = [c EXCEPT !.kept = Before("anchor", c)]
  /\ ClaudeOnly /\ UNCHANGED <<turn, inbox, cli, copy, excused>>

\* (Bound: one re-anchor at a time.)
ClaudeCompacts ==
  /\ {Anchor, Anchor + Kinds} \cap (s.given \cup s.pending) = {}
  /\ pc = "session" /\ cli = "up" /\ turn /\ ~conv.plain /\ conv.silent = 0 /\ Quiet
  /\ Says("compacted", 0)
  /\ conv' = [conv EXCEPT !.plain = TRUE]
  /\ ClaudeOnly /\ UNCHANGED <<turn, inbox, cli, copy, excused>>

\* A turn it worked in ends with a status, complete or not; any turn may fail.
ClaudeEndsTurn ==
  /\ Running /\ cli = "up" /\ turn /\ turn' = FALSE /\ Quiet
  /\ \/ conv.silent = 0 /\ ~conv.joined /\ (Says("result", Open) \/ Says("result", conv.fb))
     \/ Says("failed", 0)
  /\ ClaudeOnly /\ UNCHANGED <<conv, inbox, cli, copy, excused>>

ClaudeEnds ==
  /\ Running /\ cli \in {"starting", "up"} /\ MayFail
  /\ cli' = "dead" /\ turn' = FALSE /\ excused' = (excused \/ (s.at # NoRewind /\ AtHere /\ ~s.init))
  /\ ClaudeOnly /\ UNCHANGED <<conv, inbox, wire, copy>>

-----------------------------------------------------------------------------
\* The main loop

Receives(m) == pc = "session" /\ wire # <<>> /\ Head(wire).m = m
Stays == pc' = pc /\ UNCHANGED <<known, failures>>
Goes(t) == s' = t /\ wire' = Tail(wire) /\ Stays /\ UNCHANGED <<turn, inbox, cli, copy>>

\* init: the conversation is the session's; queued input began a turn by itself.
ReadInit ==
  /\ Receives("init")
  /\ Goes([s EXCEPT !.init = TRUE, !.thread = conv.id, !.running = TRUE,
                   !.finished = IF s.running THEN @ ELSE NoResult])
  /\ noted' = [noted EXCEPT !.thread = conv.id]
  /\ Rest /\ UNCHANGED <<conv, excused>>

\* reopen, held_elsewhere: leftovers of earlier runners are stopped once, then
\* identical refusals are counted, and enough of them replace the conversation.
StopsLeftovers ==
  /\ Receives("copy") \/ (Receives("refused") /\ s.at = NoRewind)
  /\ ~s.stopped
  /\ IF pause THEN Pauses /\ Ends
     ELSE NewProcess(Launched([s EXCEPT !.stopped = TRUE], TRUE, s.at), s.instr, s.lead) /\ Stays
  /\ Rest /\ UNCHANGED <<noted, conv, excused>>

Refused ==
  /\ Receives("refused") \/ Receives("copy")
  /\ \E count \in {1, known.refusals + 1} :
       LET counts == Head(wire).m = "copy" \/ s.at = NoRewind IN
       IF counts /\ count >= Refusals THEN Replace
       ELSE SessionFails(Report(IF counts THEN count ELSE known.refusals)) /\ UNCHANGED conv
  /\ Rest /\ UNCHANGED <<noted, excused>>

\* A conversation that is gone is put back from its private copy once, or replaced.
Missing ==
  /\ Receives("missing")
  /\ IF s.restored \/ copy.id # known.thread THEN Replace /\ UNCHANGED withdrawn
     ELSE /\ conv' = [IF known.retry THEN copy ELSE Settled(copy) EXCEPT !.lost = conv.lost, !.steer = conv.steer]
          /\ withdrawn' = (withdrawn \/ copy.fb # conv.fb)
          /\ IF pause THEN Pauses /\ Ends
             ELSE NewProcess(Launched([s EXCEPT !.restored = TRUE], TRUE, s.at), s.instr, s.lead) /\ Stays
  /\ UNCHANGED <<feedback, initial, repairing, queued, pause, pauses, noted, excused>>

\* The newest live instruction the author was told, for the record.
HeardSteer(item) == IF item = Anchor THEN s.steer ELSE item

\* consumed: the message was picked up.  Input given up on that runs before the
\* instruction sent since is a turn of its own.
ReadTook ==
  LET m == Head(wire).item
      item == ItemOf(m)
      late == m \notin s.pending
      odd  == late /\ s.running /\ ~s.delivered
      t == [s EXCEPT !.pending = @ \ {m}, !.given = @ \ {m}, !.running = TRUE,
                     !.finished = IF s.running THEN @ ELSE NoResult]
  IN
  /\ Receives("took")
  /\ IF late /\ m \notin s.given THEN Goes(s) /\ UNCHANGED noted
     ELSE IF item = Turn
     THEN /\ Goes([t EXCEPT !.delivered = TRUE, !.resent = FALSE, !.at = NoRewind])
          /\ noted' = IF PendingRepair # None /\ s.instr.fb = PendingRepair
                      THEN [noted EXCEPT !.repair = [thread |-> conv.id, fb |-> PendingRepair]] ELSE noted
     ELSE /\ Goes([t EXCEPT !.unexpected = IF odd THEN @ + 1 ELSE @, !.steered = @ \/ ~odd,
                            !.steer = HeardSteer(item)])
          /\ noted' = IF item = Anchor THEN noted ELSE [noted EXCEPT !.steer = item]
  /\ Rest /\ UNCHANGED <<conv, excused>>

ReadOutput ==
  /\ Receives("output") /\ Goes([s EXCEPT !.output = TRUE, !.anchor = TRUE])
  /\ Rest /\ UNCHANGED <<noted, conv, excused>>

ReadCompacted ==
  /\ Receives("compacted")
  /\ IF pause THEN Goes(s)
     ELSE /\ s' = [s EXCEPT !.pending = @ \cup {NewMessage(Anchor)}]
          /\ inbox' = Append(inbox, NewMessage(Anchor)) /\ wire' = Tail(wire)
          /\ Stays /\ UNCHANGED <<turn, cli, copy>>
  /\ Rest /\ UNCHANGED <<noted, conv, excused>>

\* The end of a turn; the one of input given up on is passed over.
OtherTurnNever == FALSE   \* mutant: any result is taken as the instruction's
OtherTurn == s.unexpected > 0 /\ ~s.delivered /\ ~pause
ReadResult ==
  LET over == [s EXCEPT !.running = FALSE, !.pending = @ \ {Turn}] IN
  /\ Receives("result") \/ Receives("failed")
  /\ IF OtherTurn THEN Goes([s EXCEPT !.unexpected = @ - 1])
     ELSE IF pause THEN Pauses /\ Ends
     ELSE IF Head(wire).m = "failed" THEN SessionFails(Report(0))
     ELSE /\ s' = [over EXCEPT !.completed = TRUE, !.finished = Head(wire).item]
          /\ wire' = Tail(wire) /\ Stays /\ copy' = Copy /\ UNCHANGED <<turn, inbox, cli>>
  /\ Rest /\ UNCHANGED <<noted, conv, excused>>

\* What follows a finished turn: queued input is waited for, or given up on; then
\* the answer is handed over, or the goal continued.  (Bound: input is given up
\* on only when none given up on before can still come.)
Decides ==
  LET queue == s.pending \ {Turn}
      t == [s EXCEPT !.pending = @ \ queue, !.given = @ \cup queue, !.carried = @ \/ (\E m \in queue : ItemOf(m) = Anchor),
                     !.finished = NoResult]
  IN
  /\ pc = "session" /\ s.finished # NoResult /\ ~s.running
  /\ queue # {} => s.given = {} /\ s.unexpected = 0
  /\ IF pause THEN Pauses /\ Ends
     ELSE IF s.finished = Open THEN StartTurn([t EXCEPT !.carried = FALSE], Continuation, t.carried, known)
     ELSE /\ pc' = "submitted" /\ s' = [t EXCEPT !.active = FALSE, !.finished = s.finished]
          /\ UNCHANGED <<known, failures, claude>>
  /\ Rest /\ UNCHANGED <<noted, conv, excused>>

\* The CLI ended before it read the instruction: it is sent again, once.
SendsAgain ==
  /\ pc = "session" /\ cli = "dead" /\ wire = <<>> /\ s.init /\ s.running /\ ~s.resent /\ Turn \in s.pending
  /\ StartTurn([s EXCEPT !.resent = TRUE], s.instr, s.lead, known)
  /\ Rest /\ UNCHANGED <<noted, conv, excused>>

\* The CLI ended, did not answer a check, or its request failed.
CliFails ==
  /\ pc = "session" /\ wire = <<>>
  /\ \/ cli = "dead" /\ ~(s.init /\ s.running /\ ~s.resent /\ Turn \in s.pending)
     \/ cli = "up" /\ s.running
  /\ SessionFails(Report(IF s.init THEN 0 ELSE known.refusals))
  /\ Rest /\ UNCHANGED <<noted, conv, excused>>

\* The conversation outgrew the model's context: continue in a new one.
OutgrowsContext ==
  /\ pc = "session" /\ cli = "up" /\ turn /\ wire = <<>> /\ s.thread # None
  /\ SessionFails([Report(0) EXCEPT !.replace = TRUE, !.instr = Instr(TRUE, PendingRepair), !.delivered = FALSE,
                                    !.rewind = NoRewind, !.rewindFailed = FALSE, !.anchor = FALSE])
  /\ Rest /\ UNCHANGED <<noted, conv, excused>>

\* The critic's rejection resumes the generator; the repair prompt re-anchors.
Rejected ==
  /\ pc = "submitted" /\ feedback < MaxFeedback
  /\ feedback' = feedback + 1 /\ repairing' = TRUE
  /\ StartTurn([s EXCEPT !.carried = FALSE, !.finished = NoResult], Instr(FALSE, feedback + 1), FALSE,
               [Unknown EXCEPT !.thread = noted.thread])
  /\ UNCHANGED <<initial, queued, noted, pause, pauses, withdrawn, conv, excused>>

-----------------------------------------------------------------------------
\* The watcher

WatchSteer ==
  LET next == s.steer + 1 IN
  /\ pc = "session" /\ cli \in {"starting", "up"} /\ s.active /\ s.running /\ ~pause
  /\ next <= queued /\ {next, next + Kinds} \cap s.pending = {} /\ next + Kinds \notin s.given
  /\ inbox' = Append(inbox, NewMessage(next)) /\ s' = [s EXCEPT !.pending = @ \cup {NewMessage(next)}]
  /\ UNCHANGED <<pc, step, conv, turn, wire, cli, copy, excused>>

\* The turn is interrupted, and after the grace the CLI is killed.
WatchPause ==
  /\ pc = "session" /\ cli = "up" /\ s.active /\ s.running /\ pause /\ turn
  /\ turn' = FALSE /\ Says("failed", 0)
  /\ UNCHANGED <<pc, step, s, conv, inbox, cli, copy, excused>>

WatchKills ==
  /\ pc = "session" /\ cli \in {"starting", "up"} /\ s.active /\ pause
  /\ cli' = "dead" /\ turn' = FALSE
  /\ UNCHANGED <<pc, step, s, conv, inbox, wire, copy, excused>>

-----------------------------------------------------------------------------

Main ==
  \/ Start \/ ReadInit \/ StopsLeftovers \/ Refused \/ Missing \/ ReadTook \/ ReadOutput \/ ReadCompacted
  \/ ReadResult \/ Decides \/ SendsAgain \/ CliFails \/ OutgrowsContext \/ Rejected
Claude ==
  \/ ClaudeOpens \/ ClaudeRefuses \/ ClaudePicks \/ ClaudeWorks \/ ClaudeCompacts \/ ClaudeEndsTurn \/ ClaudeEnds
Watcher == WatchSteer \/ WatchPause \/ WatchKills
Around == AroundSession /\ UNCHANGED <<claude, excused>>
Hopeless == NoRetryHelps({"session"}, Ends) /\ UNCHANGED excused
RunnerKilled == Killed(Gone) /\ UNCHANGED <<copy, excused>>

Init ==
  /\ InitStep
  /\ s = NoSession
  /\ turn = FALSE /\ inbox = <<>> /\ wire = <<>> /\ cli = "off" /\ copy = conv /\ excused = FALSE
Next == Main \/ Claude \/ Watcher \/ Around \/ Hopeless \/ RunnerKilled
Spec == Init /\ [][Next]_vars

\* What decides the behaviour: excused is read by no action.
Behaviour == <<pc, step, s, conv, claude>>

\* The types of the variables of the step and of the session.
TypeOK ==
  /\ pc \in {"launch", "session", "submitted", "waiting", "paused", "done"}
  /\ known.instr \in Instrs /\ s.instr \in Instrs
  /\ s.finished \in {NoResult, Open} \cup (0 .. MaxFeedback) /\ s.unexpected \in 0 .. MaxSteers + 1
  /\ {queued, noted.steer, s.steer, conv.steer} \subseteq 0 .. MaxSteers
  /\ s.pending \cup s.given \subseteq Items /\ cli \in {"starting", "up", "dead", "off"}

\* What a removed turn or an older copy undid, the properties below do not ask for.
Intact == ~withdrawn /\ ~conv.lost

\* The submission the critic is given next answers its newest feedback: the end of
\* a turn that input given up on started is never taken as its answer
\* (goal_session: "whose result is never taken as the answer to the instruction
\* sent after it"), through retries, refused reopenings, replaced and restored
\* conversations, pauses and kills.
FeedbackReachesAuthor == pc = "submitted" /\ Intact => s.finished = feedback

\* Outages add nothing to the conversation: it holds one copy of an instruction
\* the model has not answered, as long as Claude reports the turns it takes and
\* reopens the conversation where it is asked to (_goal_step, goal_session).
NoEcho == ~excused => conv.silent <= 1

\* The same as FeedbackReachesAuthor when no answer was removed, whatever turns a
\* retry left behind (goal_session: "the failed turn is left behind and its
\* instruction is sent again").
NoFeedbackDropped == pc = "submitted" /\ ~conv.lost => s.finished = feedback

\* A retry removes only turns the model answered with nothing at all, even when
\* Claude reports every turn and reopens where it is asked to (_goal_step).
NoWorkRemoved == ~excused => ~conv.lost
=============================================================================
