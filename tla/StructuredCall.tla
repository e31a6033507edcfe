---------------------------- MODULE StructuredCall ----------------------------
(***************************************************************************)
(* structured() of src/workflow_runner.py: one model call that edits a     *)
(* file, with its attempts in a Codex or Claude process, the conversation  *)
(* the retries fork, the working files, the threads that read the          *)
(* subagents' reports and stop a silent process, and the saved sessions    *)
(* the call must not leave behind.  After the author's submission no call  *)
(* has a time limit.  The CLI, its saved sessions, and cleaners of the     *)
(* temporary folder are external.                                          *)
(***************************************************************************)
EXTENDS Integers, Sequences, FiniteSets, SequencesExt

CONSTANTS
  MaxAttempts,  \* bound: attempts of one call
  MaxEdits,     \* bound: changes of the edited file
  MaxLines,     \* bound: output the CLI wrote and the runner has not read
  MaxFaults     \* bound: failures of all kinds

ASSUME CallAssumption == {MaxAttempts, MaxEdits, MaxLines, MaxFaults} \subseteq Nat

None == 0
Gone == -1            \* the file is missing
Sessions == 1 .. MaxAttempts
Versions == -1 .. MaxEdits

VARIABLES
  conf,    \* the run: its CLI, a web cutoff, and where the call's subagents, if any, are reported
  call,    \* the call's locals and its StructuredConversation
  ws,      \* the working folder: written, intact, and the version of the edited file
  cli,     \* the CLI process
  lines,   \* output lines not read yet
  roll,    \* records of Codex's saved session not read yet (CodexRollout)
  store,   \* the saved sessions
  knows,   \* history: the version each session's model worked with
  edits,   \* history: the newest version
  faults

callVars == <<call, ws, cli, lines, roll, store, knows, edits>>

Resumable == ~conf.web
NoCall ==
  [pc |-> "idle", result |-> "none", attempt |-> 0, failure |-> "none", initial |-> 0, base |-> None,
   baseFile |-> Gone, fork |-> None, sess |-> None, confirmed |-> FALSE, output |-> FALSE,
   failed |-> FALSE, missed |-> FALSE, made |-> <<>>, left |-> FALSE]
NoFolder == [written |-> FALSE, intact |-> FALSE, file |-> Gone]
NoCli == [up |-> "off", code |-> "none", id |-> None, fork |-> None, agent |-> FALSE]
Fault == faults < MaxFaults /\ faults' = faults + 1
NoFault == UNCHANGED faults

-----------------------------------------------------------------------------
\* StructuredConversation

\* request(): a retry forks the newest conversation with work, or sends the exact input.
ForkFrom(c) == IF c.failure # "none" /\ Resumable THEN c.base ELSE None
StartAttempt(c) ==
  [c EXCEPT !.sess = None, !.confirmed = FALSE, !.output = FALSE, !.failed = FALSE, !.missed = FALSE]
Forget(c) == [c EXCEPT !.base = None, !.fork = None, !.sess = None, !.confirmed = FALSE]

\* subagent(): one that failed and then finished no longer counts as failed.
Reports(c, report) ==
  IF report = "agentfailed" THEN [c EXCEPT !.failed = TRUE]
  ELSE IF report = "agentdone" THEN [c EXCEPT !.failed = FALSE] ELSE c

\* finish_attempt(): the failed attempt's session is the new base when it holds
\* model work, and is deleted otherwise; a conversation that outgrew the model's
\* context is not continued.
HoldsWork(c, failure) == c.output \/ failure \in {"invalid", "agents"}
NewBase(c, failure) == HoldsWork(c, failure) /\ Resumable /\ c.confirmed /\ c.sess # None
\* structured(): a retry that continues this attempt's conversation continues its file.
KeptFileNever(c) == c.baseFile    \* mutant: the file an older attempt left
KeptFile(c) == IF c.base # None /\ c.base = c.sess THEN ws.file ELSE c.baseFile
FinishAttempt(c, failure) ==
  LET based == IF NewBase(c, failure) THEN [c EXCEPT !.base = c.sess] ELSE c
      kept  == IF failure = "overflow" THEN [based EXCEPT !.base = None] ELSE based
  IN [kept EXCEPT !.failure = failure, !.baseFile = KeptFile(kept)]

\* Codex keeps a session while a fork of it exists; any deletion may fail.
Deletable(s, saved) == \A f \in saved : knows[f].from # s
DeleteAll(order, saved) == FoldLeft(LAMBDA kept, s : IF Deletable(s, kept) THEN kept \ {s} ELSE kept, saved, order)
\* discard(): newest first, twice.
Discarded == DeleteAll(Reverse(call.made), DeleteAll(Reverse(call.made), store))
Discard ==
  /\ call.pc = "closing"
  /\ \/ store' = Discarded /\ call' = [call EXCEPT !.pc = "done"] /\ NoFault
     \/ /\ Fault /\ call' = [call EXCEPT !.pc = "done", !.left = TRUE]
        /\ \E left \in SUBSET (store \cap Range(call.made)) : left # {} /\ store' = Discarded \cup left
  /\ UNCHANGED <<conf, ws, cli, lines, roll, knows, edits>>

\* A call that ends, with its answer or an error, closes its conversation.
Ends(c, result) == call' = [c EXCEPT !.pc = "closing", !.result = result]

-----------------------------------------------------------------------------
\* An attempt

\* _place_edit_file, _edit_workspace: a fork continues with the file its base left,
\* a new conversation starts from the initial text.
PlacedKeeps(c) == IF c.fork # None \/ ~ws.written THEN c.baseFile ELSE ws.file   \* mutant: the file stays
Placed(c) == IF c.fork # None THEN c.baseFile ELSE c.initial

\* run_structured_attempt, _run_structured_process: a CLI is started on a fork of
\* the base or a new session; Claude's id is chosen, and registered, before.
Registered(c) ==
  IF conf.cli = "claude" /\ Resumable THEN [c EXCEPT !.sess = c.attempt, !.made = Append(@, c.attempt)]
  ELSE [c EXCEPT !.sess = None]
Launches(c) ==
  /\ call' = [Registered(c) EXCEPT !.pc = "run"]
  /\ ws' = [written |-> TRUE, intact |-> TRUE, file |-> IF conf.web THEN c.initial ELSE Placed(c)]
  /\ cli' = [NoCli EXCEPT !.up = "starting", !.id = c.attempt, !.fork = c.fork]
  /\ lines' = <<>> /\ roll' = <<>>

\* _snapshot_intact
Vanished(folder) == folder.written /\ ~folder.intact

\* attempt_once, with run()'s second try: working files that vanished are written
\* again, and a conversation that read them is forgotten; the exact input then goes
\* to a new conversation, as attempt number + 1.
Attempt(c) ==
  LET forked == StartAttempt([c EXCEPT !.fork = ForkFrom(c)]) IN
  IF Vanished(ws) THEN Launches(IF forked.fork # None THEN [Forget(forked) EXCEPT !.attempt = @ + 1] ELSE Forget(forked))
  ELSE Launches(forked)

\* The loop's head.  (Bound: MaxAttempts.)
Begin ==
  /\ call.pc = "begin" /\ call.attempt < MaxAttempts - 1
  /\ Attempt([call EXCEPT !.attempt = @ + 1])
  /\ UNCHANGED <<conf, store, knows, edits>> /\ NoFault

-----------------------------------------------------------------------------
\* The CLI (external)

Says(line) == Len(lines) < MaxLines /\ lines' = Append(lines, line)
Alive == call.pc = "run" /\ cli.up \in {"starting", "up"}
CliOnly == UNCHANGED <<conf, call, ws>>

\* It opens its session, new or forked from a saved one, and saves it.
CliOpens ==
  /\ Alive /\ cli.up = "starting" /\ (cli.fork # None => cli.fork \in store)
  /\ cli' = [cli EXCEPT !.up = "up"] /\ Says("init")
  /\ store' = IF Resumable THEN store \cup {cli.id} ELSE store
  /\ knows' = [knows EXCEPT ![cli.id] = [from |-> cli.fork, file |-> IF cli.fork = None THEN call.initial
                                                                    ELSE knows[cli.fork].file]]
  /\ CliOnly /\ NoFault /\ UNCHANGED <<roll, edits>>

CliWorks ==
  /\ Alive /\ cli.up = "up" /\ Says("output")
  /\ \/ UNCHANGED <<ws, knows, edits>>
     \/ /\ ~conf.web /\ ws.intact /\ edits < MaxEdits /\ edits' = edits + 1
        /\ ws' = [ws EXCEPT !.file = edits + 1] /\ knows' = [knows EXCEPT ![cli.id].file = edits + 1]
  /\ UNCHANGED <<conf, call, cli, roll, store>> /\ NoFault

\* A subagent's model call fails, or the model continues it and it finishes.  Claude,
\* and Codex with multi-agent version 1, write that to the output, Codex with version 2
\* to the saved session only: a call that saves none, of a run with a web cutoff, shows
\* it nowhere (note_unobservable_subagents).
Unobservable == conf.agents = "session" /\ ~Resumable
CliAgent ==
  /\ Alive /\ cli.up = "up" /\ conf.agents # "none"
  /\ IF cli.agent THEN NoFault ELSE Fault
  /\ cli' = [cli EXCEPT !.agent = ~@]
  /\ LET report == IF cli.agent THEN "agentdone" ELSE "agentfailed" IN
     CASE conf.agents = "stream" -> Says(report) /\ UNCHANGED roll
       [] Unobservable           -> UNCHANGED <<lines, roll>>
       [] OTHER                  -> roll' = Append(roll, report) /\ UNCHANGED lines
  /\ CliOnly /\ UNCHANGED <<store, knows, edits>>

\* It ends: with an answer, one that is not acceptable, a provider's failure, or a
\* conversation longer than the model's context.
Codes == {"answer", "invalid", "failed", "overflow", "refused"}
CliEnds ==
  /\ Alive
  /\ \E code \in Codes :
       /\ IF code = "answer" THEN cli.up = "up" /\ NoFault
          ELSE IF cli.up = "starting" /\ cli.fork # None /\ cli.fork \notin store THEN code = "failed" /\ NoFault
          ELSE Fault /\ (code = "invalid" => cli.up = "up")
       /\ cli' = [cli EXCEPT !.up = "dead", !.code = code]
  /\ CliOnly /\ UNCHANGED <<lines, roll, store, knows, edits>>

\* A saved session is lost; a cleaner removes the working folder.
StoreLoses ==
  /\ Fault /\ call.pc \in {"begin", "run", "wait"}
  /\ \E s \in store : s # cli.id /\ store' = store \ {s}
  /\ UNCHANGED <<conf, call, ws, cli, lines, roll, knows, edits>>
WorkspaceVanishes ==
  /\ Fault /\ call.pc \in {"run", "wait"} /\ ws.intact /\ Resumable
  /\ ws' = [ws EXCEPT !.intact = FALSE, !.file = Gone]
  /\ UNCHANGED <<conf, call, cli, lines, roll, store, knows, edits>>

-----------------------------------------------------------------------------
\* The runner's threads

\* RequestMonitor: the watchdog stops a CLI that wrote nothing for long.
WatchdogStops ==
  /\ Alive /\ Fault
  /\ cli' = [cli EXCEPT !.up = "dead", !.code = "stopped"]
  /\ CliOnly /\ UNCHANGED <<lines, roll, store, knows, edits>>

\* CodexRollout.follow: the records of the saved session, from its thread.started on.
Follow ==
  /\ call.pc = "run" /\ call.confirmed /\ roll # <<>>
  /\ call' = Reports(call, Head(roll)) /\ roll' = Tail(roll)
  /\ UNCHANGED <<conf, ws, cli, lines, store, knows, edits>> /\ NoFault

\* The main thread reads a line: a session's start, model work, a subagent's end.
Confirmed(c) ==
  IF ~Resumable THEN c
  ELSE [c EXCEPT !.confirmed = TRUE, !.sess = cli.id,
                 !.made = IF cli.id \in Range(@) THEN @ ELSE Append(@, cli.id)]
Translated(c, line) ==
  CASE line = "init"   -> Confirmed(c)
    [] line = "output" -> [c EXCEPT !.output = TRUE]
    [] OTHER           -> Reports(c, line)
ReadLine ==
  /\ call.pc = "run" /\ lines # <<>> /\ lines' = Tail(lines) /\ call' = Translated(call, Head(lines))
  /\ UNCHANGED <<conf, ws, cli, roll, store, knows, edits>> /\ NoFault

\* The output ended.  rollout.stop() reads the rest of the saved session first: of its
\* reports the last one decides.  When the file is not found or cannot be read, they
\* are missed, with a diagnostic at most.
FinalRead(c) == IF c.confirmed /\ roll # <<>> THEN Reports(c, Last(roll)) ELSE c
Finished == call.pc = "run" /\ cli.up = "dead" /\ lines = <<>> /\ roll' = <<>>
Missed(c) == [c EXCEPT !.missed = TRUE]

\* A fork that never started ran nothing: the exact input is sent at once.
Unavailable == cli.code \in {"failed", "overflow"} /\ cli.fork # None /\ ~call.confirmed
RunsAgain ==
  /\ Finished /\ Unavailable /\ call.attempt < MaxAttempts
  /\ Launches(StartAttempt([Forget(call) EXCEPT !.attempt = @ + 1]))
  /\ UNCHANGED <<conf, store, knows, edits>> /\ NoFault

\* Why the attempt failed, or "none": an answer after failed subagents is never used,
\* and the edited file must be there.  (_accepted_answer, _read_edited_file,
\* _accept_node_answer)
FailureOfAnswerFirst(c) ==    \* mutant: subagents only matter when the answer is wrong
  IF cli.code = "answer" THEN "none" ELSE IF c.failed THEN "agents" ELSE cli.code
FailureOf(c) ==
  IF cli.code \notin {"answer", "invalid"} THEN cli.code
  ELSE IF c.failed THEN "agents"
  ELSE IF cli.code = "invalid" \/ (~conf.web /\ ws.file = Gone) THEN "invalid" ELSE "none"

Judged(read) ==
  LET failure == FailureOf(read) IN
  IF failure = "none" THEN Ends(read, "accepted") /\ UNCHANGED store
  ELSE IF failure = "refused" THEN Ends(read, "raised") /\ UNCHANGED store   \* no retry helps
  ELSE LET c == FinishAttempt(read, failure)
           drop == ~NewBase(read, failure) /\ c.sess # None /\ c.sess # read.base /\ Deletable(c.sess, store)
       IN /\ call' = [c EXCEPT !.pc = "wait", !.made = IF drop THEN Remove(@, c.sess) ELSE @]
          /\ store' = IF drop THEN store \ {c.sess} ELSE store
Judges ==
  /\ Finished /\ ~Unavailable
  /\ \/ Judged(FinalRead(call)) /\ NoFault
     \/ roll # <<>> /\ Judged(Missed(call)) /\ Fault
  /\ UNCHANGED <<conf, ws, cli, lines, knows, edits>>

\* wait_before_retry ends, or a pause request ends the call.
WaitOver ==
  /\ call.pc = "wait"
  /\ \/ call' = [call EXCEPT !.pc = "begin"] /\ NoFault
     \/ Fault /\ Ends(call, "paused")
  /\ UNCHANGED <<conf, ws, cli, lines, roll, store, knows, edits>>

-----------------------------------------------------------------------------

Cli == CliOpens \/ CliWorks \/ CliAgent \/ CliEnds \/ StoreLoses \/ WorkspaceVanishes
Runner == Begin \/ Follow \/ ReadLine \/ RunsAgain \/ Judges \/ WaitOver \/ Discard \/ WatchdogStops
CallNext == Cli \/ Runner

\* A call with the text `initial` to edit begins.
Called(initial) ==
  /\ call' = [NoCall EXCEPT !.pc = "begin", !.initial = initial]
  /\ ws' = NoFolder
  /\ store' = {} /\ knows' = [s \in Sessions |-> [from |-> None, file |-> Gone]]
  /\ cli' = NoCli /\ lines' = <<>> /\ roll' = <<>>
CallInit ==
  /\ conf \in [cli : {"codex", "claude"}, web : BOOLEAN, agents : {"none", "stream", "session"}]
  /\ conf.web \/ conf.agents = "session" => conf.cli = "codex"
  /\ call = NoCall /\ ws = NoFolder /\ store = {}
  /\ knows = [s \in Sessions |-> [from |-> None, file |-> Gone]]
  /\ cli = NoCli
  /\ lines = <<>> /\ roll = <<>> /\ edits = 0 /\ faults = 0

\* The types of the call's state.
CallTypeOK ==
  /\ call.pc \in {"idle", "begin", "run", "wait", "closing", "done"}
  /\ {call.base, call.fork, call.sess} \subseteq Sessions \cup {None} /\ {call.baseFile, ws.file} \subseteq Versions
  /\ Range(call.made) \subseteq Sessions /\ store \subseteq Sessions
  /\ \A s \in Sessions : knows[s].from \in Sessions \cup {None} /\ knows[s].file \in Versions

\* No conversation sees edits it did not make: while a session's model works, the
\* edited file is the one that conversation last had, over forks, deleted forks,
\* vanished folders and new conversations (_edit_workspace).
EditsBelong == cli.up = "up" /\ ws.intact /\ ~conf.web => ws.file = knows[cli.id].file

\* An accepted answer does not rest on a subagent whose model call failed and that
\* did not finish later, whether the output or the saved session says so, read when
\* the thread that follows it gets to it (structured, CodexRollout).  Not where the
\* runner cannot know: the call saves no session, or its session could not be read.
AgentsCounted == call.result = "accepted" /\ ~Unobservable /\ ~call.missed => ~cli.agent

\* A finished call leaves none of its sessions behind unless the CLI refuses to
\* delete one, whatever was forked from what and in which order (discard).
SessionsDeleted == call.pc = "done" /\ ~call.left => store = {}
=============================================================================
