---------------------------- MODULE CodexSession ----------------------------
(***************************************************************************)
(* goal_session of src/workflow_runner.py: one attempt of the author in    *)
(* Codex's app-server.  The main thread makes calls and reads messages in  *)
(* order, a watcher sends live instructions, interrupts a pausing author   *)
(* and kills an app-server that stopped answering.  Codex itself is        *)
(* external: it takes requests and starts, works in, compacts, fails and   *)
(* ends turns as it likes, or says nothing more.                           *)
(*                                                                         *)
(* A pause stands for the pause file and for the time limit.               *)
(***************************************************************************)
EXTENDS AuthorStep

VARIABLES
  turn,     \* Codex: the running turn ("none", "own", "goal": it continues by itself)
  inbox,    \* Codex: turn/steer requests not answered yet
  wire,     \* messages Codex sent and the main thread has not read
  server,   \* "up", "dead": the app-server ended, "off": none
  excused   \* history: Codex left a call that starts a turn unanswered after it took or
            \* worked in the turn, or would not remove one

codex == <<turn, inbox, wire, server>>
vars == <<pc, step, s, conv, codex, excused>>

Anchor == MaxSteers + 1   \* the re-anchor after a compaction, among steers
Calls == {"opening", "opened", "sending", "starting"}
Attempting == Calls \cup {"turn"}

\* The session's state and locals: see goal_session.
NoSession ==
  [active |-> TRUE, thread |-> None, instr |-> NoInstr, delivered |-> FALSE, output |-> FALSE,
   steered |-> FALSE, own |-> FALSE, rewound |-> FALSE, turn |-> FALSE, running |-> FALSE,
   answer |-> "none", from |-> None, complete |-> FALSE, steer |-> 0, anchor |-> FALSE,
   activating |-> FALSE]   \* the call that makes the goal active is not answered
Fresh(steer) == [NoSession EXCEPT !.steer = steer, !.anchor = Continues /\ known.anchor]

InFlight(i) ==
  \/ \E k \in DOMAIN inbox : inbox[k] = i
  \/ \E k \in DOMAIN wire : wire[k].m \in {"took", "declined"} /\ wire[k].item = i

Ends == turn' = "none" /\ inbox' = <<>> /\ wire' = <<>> /\ server' = "off" /\ s' = NoSession

\* The except clause and the finally clause of goal_session.
ReportAlways(instr, delivered) ==   \* mutant: a turn with output is removed too
  [FailedAttempt(s.thread) EXCEPT
     !.instr = instr, !.delivered = delivered, !.rewound = s.rewound, !.anchor = s.anchor,
     !.rewind = IF delivered /\ s.own THEN conv.kept ELSE NoRewind]
Report(instr, delivered) ==
  [FailedAttempt(s.thread) EXCEPT
     !.instr = instr, !.delivered = delivered, !.rewound = s.rewound, !.anchor = s.anchor,
     !.rewind = IF delivered /\ ~s.output /\ ~s.steered /\ s.own THEN conv.kept ELSE NoRewind]
SessionFails(r) ==
  IF pause THEN Pauses /\ Ends
  ELSE Fails(r) /\ Ends /\ OneMoreFailure

-----------------------------------------------------------------------------

\* The app-server is started: sandbox, settings, handshake, startup check.
Start ==
  /\ pc = "launch"
  /\ IF pause THEN Pauses /\ UNCHANGED <<s, server>>
     ELSE /\ pc' = "opening" /\ server' = "up"
          /\ s' = Fresh(IF known.steer # 0 THEN known.steer ELSE noted.steer)
          /\ UNCHANGED <<known, failures>>
  /\ UNCHANGED <<feedback, initial, repairing, queued, noted, pause, pauses, withdrawn, conv, turn, inbox, wire, excused>>

\* "Goal started" / "Goal resumed"; s.instr is chosen with it.
Opening == <<feedback, initial, repairing, queued, pause, failures, pauses, withdrawn, codex>>
Opens(thread, instr, rewound) ==
  /\ pc' = "opened"
  /\ s' = [s EXCEPT !.thread = thread, !.instr = instr, !.rewound = rewound]
  /\ noted' = [noted EXCEPT !.thread = thread]

NewThread(instr) ==
  /\ conv' = NewConv(conv.id + 1)
  /\ Opens(conv.id + 1, instr, FALSE)

\* What replacement_instruction() says in a new conversation.
Replacement == Instr(TRUE, PendingRepair)

\* thread/start; a saved conversation that is gone is replaced.
OpenNew ==
  /\ pc = "opening" /\ server = "up"
  /\ \/ known.thread = None /\ NewThread(FirstInstruction(FALSE, None))
     \/ known.thread # None /\ ~conv.live /\ NewThread(Replacement)
  /\ UNCHANGED <<known, Opening, excused>>

\* The failed turn that known.rewind names is in this conversation.
RewindsHere == known.rewind.kind = "turn" /\ known.rewind.id = conv.id

\* thread/resume; the failed turn is removed (thread/revert), or Codex refuses
\* to, as it does for a turn it removed before; thread/goal/get.
OpenSaved ==
  /\ pc = "opening" /\ server = "up" /\ known.thread # None /\ conv.live
  /\ Opens(conv.id, FirstInstruction(TRUE, conv.id), FALSE)
  /\ excused' = (excused \/ RewindsHere)
  /\ UNCHANGED <<known, conv, Opening>>

OpenRemoves ==
  /\ pc = "opening" /\ server = "up" /\ known.thread # None /\ conv.live /\ RewindsHere
  /\ Opens(conv.id, FirstInstruction(TRUE, conv.id), TRUE)
  /\ conv' = Removed(known.rewind)
  /\ known' = [known EXCEPT !.rewind.kind = "gone"]
  /\ UNCHANGED <<Opening, excused>>

\* Codex refuses to reopen the thread; after some identical refusals in a row
\* the conversation is replaced.
RefusesToOpen ==
  /\ pc = "opening" /\ server = "up" /\ known.thread # None /\ conv.live
  /\ IF known.refusals + 1 >= Refusals
     THEN NewThread(Replacement) /\ UNCHANGED <<known, failures, codex, excused>>
     ELSE /\ SessionFails([Report(NoInstr, FALSE) EXCEPT !.refusals = known.refusals + 1])
          /\ UNCHANGED <<noted, conv, excused>>
  /\ UNCHANGED <<feedback, initial, repairing, queued, pause, pauses, withdrawn>>

\* start_turn, up to its first call; s.active is as it was.
Sends(t, instr) ==
  s' = [t EXCEPT !.instr = instr, !.delivered = FALSE, !.output = FALSE, !.steered = FALSE, !.own = FALSE,
                 !.answer = "none", !.complete = FALSE, !.running = TRUE]
StartTurn(instr) ==
  IF pause THEN Pauses /\ Ends
  ELSE Sends(s, instr) /\ pc' = "sending" /\ UNCHANGED <<known, failures, codex>>

FirstTurn ==
  /\ pc = "opened"
  /\ StartTurn(s.instr)
  /\ UNCHANGED <<feedback, initial, repairing, queued, noted, pause, pauses, withdrawn, conv, excused>>

\* thread/goal/set paused is answered; only now the watcher watches.
GoalIsPaused ==
  /\ pc = "sending" /\ server = "up"
  /\ pc' = "starting" /\ s' = [s EXCEPT !.active = TRUE]
  /\ UNCHANGED <<step, conv, codex, excused>>

\* turn/start: the conversation receives the instruction.
TurnStarts ==
  /\ pc = "starting" /\ server = "up" /\ inbox = <<>>
  /\ turn' = "own"
  /\ \/ /\ pc' = "turn"
        /\ conv' = [Heard(s.instr, "turn") EXCEPT !.stale = FALSE]
        /\ s' = [s EXCEPT !.delivered = TRUE, !.own = TRUE, !.turn = TRUE, !.activating = TRUE]
        /\ noted' = IF PendingRepair # None /\ s.instr.fb = PendingRepair
                    THEN [noted EXCEPT !.repair = [thread |-> s.thread, fb |-> PendingRepair]] ELSE noted
        /\ UNCHANGED <<server, excused>>
     \/ \* it ends before it answers
        conv' = Heard(s.instr, "turn") /\ server' = "dead" /\ excused' = TRUE /\ UNCHANGED <<pc, s, noted>>
  /\ UNCHANGED <<known, feedback, initial, repairing, queued, pause, failures, pauses, withdrawn, inbox, wire>>

\* thread/goal/set active is answered, or skipped for a pause; until then what the
\* turn says is only queued (RPC.call).
GoalIsActive ==
  /\ pc = "turn" /\ s.activating /\ (server = "up" \/ pause)
  /\ s' = [s EXCEPT !.activating = FALSE]
  /\ UNCHANGED <<pc, step, conv, codex, excused>>

\* A call fails, or the app-server has ended and everything it sent was read.  When
\* it is the turn's last one, work that is only queued does not count as output.
CallFails ==
  /\ pc \in Calls \/ (pc = "turn" /\ (s.activating \/ (server = "dead" /\ wire = <<>>)))
  /\ SessionFails(Report(IF pc = "opened" THEN NoInstr ELSE s.instr, s.delivered))
  /\ excused' = (excused \/ (pc = "turn" /\ s.activating /\ conv.silent = 0))
  /\ UNCHANGED <<feedback, initial, repairing, queued, noted, pause, pauses, withdrawn, conv>>

\* The conversation outgrew the model's context: continue in a new one.
OutgrowsContext ==
  /\ pc = "turn" /\ ~s.activating /\ server = "up" /\ turn # "none" /\ wire = <<>>
  /\ SessionFails([Report(Replacement, FALSE) EXCEPT !.replace = TRUE, !.rewound = FALSE, !.anchor = FALSE])
  /\ UNCHANGED <<feedback, initial, repairing, queued, noted, pause, pauses, withdrawn, conv, excused>>

-----------------------------------------------------------------------------
\* Codex (external)

Says(ms) == wire' = wire \o ms /\ Len(wire) < MaxWire
Msg(m) == [m |-> m, item |-> 0]
CodexOnly == UNCHANGED <<pc, step, s, excused>>

\* Only the first output of a turn tells anything.
CodexWorks ==
  /\ pc = "turn" /\ server = "up" /\ turn = "own" /\ conv.silent > 0
  /\ Says(<<Msg("output")>>)
  /\ conv' = Settled(conv)
  /\ CodexOnly /\ UNCHANGED <<turn, inbox, server>>

CodexCompacts ==
  /\ pc = "turn" /\ server = "up" /\ turn # "none" /\ ~conv.plain /\ conv.silent = 0
  /\ Says(<<Msg("compacted")>>)
  /\ conv' = [conv EXCEPT !.plain = TRUE]
  /\ CodexOnly /\ UNCHANGED <<turn, inbox, server>>

\* A turn ends: with the goal open (the model worked in it), or with an answer,
\* before or after the notification that the goal is complete, or it fails.
CodexEndsTurn ==
  /\ pc = "turn" /\ server = "up" /\ turn # "none" /\ turn' = "none"
  /\ LET answered == [m |-> "answer", item |-> conv.fb]
     IN \/ Says(<<Msg("ended")>>) /\ conv.silent = 0 /\ UNCHANGED conv
        \/ /\ Says(<<answered, Msg("ended")>>) \/ Says(<<answered, Msg("ended"), Msg("complete")>>)
              \/ Says(<<answered, Msg("complete"), Msg("ended")>>)
           /\ conv' = Settled(conv)
        \/ Says(<<Msg("failed")>>) /\ UNCHANGED conv
  /\ CodexOnly /\ UNCHANGED <<inbox, server>>

\* The goal is active: Codex continues by itself.
CodexContinues ==
  /\ pc = "turn" /\ ~s.activating /\ server = "up" /\ turn = "none" /\ wire = <<>> /\ inbox = <<>> /\ ~s.complete
  /\ turn' = "goal" /\ Says(<<Msg("started")>>)
  /\ CodexOnly /\ UNCHANGED <<conv, inbox, server>>

\* turn/steer: taken while its turn runs, else refused; Codex answers in order,
\* so that no later turn starts before.
CodexTakesSteer ==
  /\ pc \in {"sending", "starting", "turn"} /\ server = "up" /\ inbox # <<>>
  /\ inbox' = Tail(inbox)
  /\ \/ /\ turn # "none"
        /\ wire' = Append(wire, [m |-> "took", item |-> Head(inbox)])
        /\ conv' = IF Head(inbox) = Anchor THEN [Settled(conv) EXCEPT !.plain = FALSE]
                   ELSE [Settled(conv) EXCEPT !.steer = Head(inbox)]
     \/ wire' = Append(wire, [m |-> "declined", item |-> Head(inbox)]) /\ UNCHANGED conv
  /\ CodexOnly /\ UNCHANGED <<turn, server>>

CodexDies ==
  /\ pc \in Attempting /\ server = "up" /\ MayFail
  /\ server' = "dead" /\ turn' = "none" /\ inbox' = <<>>
  /\ UNCHANGED <<pc, step, s, conv, wire, excused>>

-----------------------------------------------------------------------------
\* The main loop, message by message

Receives(m) == pc = "turn" /\ ~s.activating /\ wire # <<>> /\ Head(wire).m = m
Reading == UNCHANGED <<feedback, initial, repairing, queued, pause, pauses, withdrawn, conv, excused>>

\* The rest of the loop after a message left the session in t and the requests
\* in box: a pausing author stops at the turn's boundary, a complete goal with
\* an answer is yielded, one without is continued.
LoopsOn(t, box) ==
  IF ~t.running /\ pause THEN Pauses /\ Ends
  ELSE /\ UNCHANGED <<known, failures, turn, server>> /\ wire' = Tail(wire) /\ inbox' = box
       /\ IF t.running \/ ~t.complete THEN s' = t /\ UNCHANGED pc
          ELSE IF t.answer # "none" THEN s' = [t EXCEPT !.active = FALSE] /\ pc' = "submitted"
          ELSE Sends(t, Continuation) /\ pc' = "sending"

\* turn/started: a turn of its own is not our instruction's; a re-anchor that
\* could not be sent goes with it.
ReadStarted ==
  /\ Receives("started")
  /\ LET anchors == s.anchor /\ ~pause
     IN LoopsOn([s EXCEPT !.running = TRUE, !.turn = TRUE, !.answer = "none", !.from = None, !.own = FALSE,
                          !.output = FALSE, !.steered = anchors, !.anchor = @ /\ ~anchors],
                IF anchors THEN Append(inbox, Anchor) ELSE inbox)
  /\ Reading /\ UNCHANGED noted

ReadOutput ==
  /\ Receives("output")
  /\ LoopsOn([s EXCEPT !.output = TRUE], inbox)
  /\ Reading /\ UNCHANGED noted

ReadCompacted ==
  /\ Receives("compacted")
  /\ IF pause THEN LoopsOn([s EXCEPT !.output = TRUE], inbox)
     ELSE LoopsOn([s EXCEPT !.output = TRUE, !.turn = TRUE, !.steered = TRUE], Append(inbox, Anchor))
  /\ Reading /\ UNCHANGED noted

\* An accepted instruction is counted; a declined one is sent again later, a
\* declined re-anchor with the next turn (hold, pending_compaction).
Taken(item) == IF item = Anchor THEN s ELSE [s EXCEPT !.steer = item, !.steered = TRUE]
Declined(item) == IF item = Anchor THEN [s EXCEPT !.anchor = TRUE] ELSE s

ReadSteerAnswer ==
  LET item == Head(wire).item IN
  /\ \/ /\ Receives("took")
        /\ LoopsOn(Taken(item), inbox)
        /\ noted' = IF item = Anchor THEN noted ELSE [noted EXCEPT !.steer = item]
     \/ /\ Receives("declined")
        /\ LoopsOn(Declined(item), inbox)
        /\ UNCHANGED noted
  /\ Reading

ReadAnswer ==
  /\ Receives("answer")
  /\ LoopsOn([s EXCEPT !.output = TRUE, !.answer = "text", !.from = Head(wire).item], inbox)
  /\ Reading /\ UNCHANGED noted

\* thread/goal/updated, turn/completed
ReadComplete ==
  /\ Receives("complete")
  /\ LoopsOn([s EXCEPT !.complete = TRUE], inbox)
  /\ Reading /\ UNCHANGED noted

ReadEnded ==
  /\ Receives("ended")
  /\ LoopsOn([s EXCEPT !.running = FALSE, !.turn = FALSE], inbox)
  /\ Reading /\ UNCHANGED noted

ReadFailed ==
  /\ Receives("failed")
  /\ SessionFails(Report(s.instr, s.delivered))
  /\ Reading /\ UNCHANGED noted

\* The goal is still open and Codex has started no turn: continue it.
IdleContinue ==
  /\ pc = "turn" /\ ~s.activating /\ ~s.running /\ wire = <<>> /\ ~pause
  /\ StartTurn(Continuation)
  /\ UNCHANGED <<feedback, initial, repairing, queued, noted, pause, pauses, withdrawn, conv, excused>>

\* The critic's rejection resumes the generator.
Rejected ==
  /\ pc = "submitted" /\ feedback < MaxFeedback
  /\ feedback' = feedback + 1 /\ repairing' = TRUE
  /\ IF pause THEN Pauses /\ Ends
     ELSE /\ Sends(s, Instr(FALSE, feedback + 1)) /\ pc' = "sending"
          /\ known' = [Unknown EXCEPT !.thread = noted.thread]
          /\ UNCHANGED <<failures, codex>>
  /\ UNCHANGED <<initial, queued, noted, pause, pauses, withdrawn, conv, excused>>

-----------------------------------------------------------------------------
\* The watcher; it does nothing while the session is not active.

WatchSteerRecorded ==   \* mutant: recorded as accepted when it is sent
  LET next == s.steer + 1 IN
  /\ pc = "turn" /\ server = "up" /\ s.active /\ s.turn /\ ~pause
  /\ next <= queued /\ ~InFlight(next)
  /\ inbox' = Append(inbox, next) /\ noted' = [noted EXCEPT !.steer = next]
  /\ UNCHANGED <<pc, known, feedback, initial, repairing, queued, pause, failures, pauses, withdrawn,
                 s, conv, turn, wire, server, excused>>
WatchSteer ==
  LET next == s.steer + 1 IN
  /\ pc = "turn" /\ server = "up" /\ s.active /\ s.turn /\ ~pause
  /\ next <= queued /\ ~InFlight(next)
  /\ inbox' = Append(inbox, next)
  /\ UNCHANGED <<pc, step, s, conv, turn, wire, server, excused>>

\* The turn is interrupted: Codex ends it, unless it no longer answers.
WatchPause ==
  /\ pc = "turn" /\ server = "up" /\ s.active /\ s.turn /\ pause /\ turn # "none"
  /\ turn' = "none" /\ wire' = Append(wire, Msg("failed"))
  /\ UNCHANGED <<pc, step, s, conv, inbox, server, excused>>

\* The grace is over, a call was left unanswered, or a quiet turn did not
\* answer the check: the app-server is killed.
WatchKillsQuiet ==   \* mutant: the grace of a pause never ends
  /\ pc \in Attempting /\ server = "up" /\ s.active
  /\ pc \in Calls \/ s.activating \/ (s.turn /\ wire = <<>>)
  /\ server' = "dead" /\ turn' = "none" /\ inbox' = <<>>
  /\ UNCHANGED <<pc, step, s, conv, wire, excused>>
WatchKills ==
  /\ pc \in Attempting /\ server = "up" /\ s.active
  /\ pause \/ pc \in Calls \/ s.activating \/ (s.turn /\ wire = <<>>)
  /\ server' = "dead" /\ turn' = "none" /\ inbox' = <<>>
  /\ UNCHANGED <<pc, step, s, conv, wire, excused>>

-----------------------------------------------------------------------------

Main ==
  \/ Start \/ OpenNew \/ OpenSaved \/ OpenRemoves \/ RefusesToOpen \/ FirstTurn \/ GoalIsPaused \/ TurnStarts \/ GoalIsActive \/ CallFails \/ OutgrowsContext
  \/ ReadStarted \/ ReadOutput \/ ReadCompacted \/ ReadSteerAnswer \/ ReadAnswer \/ ReadComplete
  \/ ReadEnded \/ ReadFailed \/ IdleContinue \/ Rejected
Codex ==
  \/ CodexWorks \/ CodexCompacts \/ CodexEndsTurn \/ CodexContinues \/ CodexTakesSteer \/ CodexDies
Watcher == WatchSteer \/ WatchPause \/ WatchKills
Around == AroundSession /\ UNCHANGED <<codex, excused>>
Hopeless == NoRetryHelps(Attempting, Ends) /\ UNCHANGED excused
RunnerKilled == Killed(Ends) /\ UNCHANGED excused

Init ==
  /\ InitStep
  /\ s = NoSession
  /\ turn = "none" /\ inbox = <<>> /\ wire = <<>> /\ server = "off" /\ excused = FALSE
Next == Main \/ Codex \/ Watcher \/ Around \/ Hopeless \/ RunnerKilled
Spec == Init /\ [][Next]_vars

\* The runner's threads and its controller go on; Codex, the user and the critic
\* may do nothing more.  The app-server's end is the end of its output.
Reads == ReadStarted \/ ReadOutput \/ ReadCompacted \/ ReadSteerAnswer \/ ReadAnswer \/ ReadComplete
  \/ ReadEnded \/ ReadFailed
FairSpec ==
  /\ Spec
  /\ WF_vars(Start) /\ WF_vars(FirstTurn) /\ WF_vars(Reads) /\ WF_vars(IdleContinue)
  /\ WF_vars(CallFails /\ server = "dead") /\ WF_vars(WatchKills)
  /\ WF_vars(Retry /\ UNCHANGED <<codex, excused>>) /\ WF_vars(PauseEndsWait /\ UNCHANGED <<codex, excused>>)

\* The types of the variables of the step and of the session.
TypeOK ==
  /\ pc \in Attempting \cup {"launch", "submitted", "waiting", "paused", "done"}
  /\ known.instr \in Instrs /\ s.instr \in Instrs
  /\ {feedback, initial, s.from, conv.fb, known.refusals} \subseteq 0 .. MaxFeedback + Refusals
  /\ {queued, noted.steer, s.steer, conv.steer} \subseteq 0 .. MaxSteers
  /\ turn \in {"none", "own", "goal"} /\ server \in {"up", "dead", "off"}

\* What a lost answer of Codex undoes, the properties below do not ask for.
Intact == ~withdrawn /\ ~conv.lost

\* The submission the critic is given next answers its newest feedback: each
\* rejection reaches the author's conversation, through failed turns that are
\* removed, refused reopenings, replaced conversations, pauses and kills
\* (goal_session, _goal_step; "critic feedback it already received is not sent
\* again").
FeedbackReachesAuthor == pc = "submitted" /\ Intact => s.from = feedback

\* Outages add nothing to the conversation: however often a turn fails before the
\* model produces anything, it holds one copy of the instruction (_goal_step).
NoEcho == ~excused => conv.silent <= 1

\* A retry removes only turns the model produced nothing in, over failed and silent
\* turns, live instructions, compactions and reopened conversations; the code keeps
\* this as long as Codex answers the calls that start a turn (turn/start once it took
\* the turn, thread/goal/set once it worked in it) and removes the turns it is asked to.
WorkKept == ~excused => ~conv.lost

\* The same without that condition, as _goal_step's docstring states it.
NoWorkRemoved == ~conv.lost

\* An instruction recorded as accepted was taken: a steer that Codex declined, or
\* that a failed turn left unsent, stays to be sent (goal_session's watcher).
NoSteerLost == noted.steer <= conv.steer

\* A pause ends a session that is watched, whatever Codex does or leaves undone.
PauseHonoured == (pause /\ pc \in Attempting /\ s.active) ~> (pc \in {"paused", "submitted"})

\* A call Codex does not answer ends the attempt.
UnansweredEnds == (pc = "sending" /\ server = "up") ~> (pc # "sending" \/ server = "dead")
=============================================================================
