------------------------------- MODULE LatexLoop -------------------------------
(***************************************************************************)
(* The last steps of clean_up.yaml as src/workflow_runner.py runs them:    *)
(* the LaTeX source is written and compiled; a failed compilation is given *)
(* to a writer's model call (StructuredCall) that edits the source, and is *)
(* tried again, until it passes or repairs make no progress.  The TeX      *)
(* tools are external.                                                     *)
(***************************************************************************)
EXTENDS StructuredCall

CONSTANTS
  Stall,        \* COMMAND_STALL_REPEATS
  MaxHistory,   \* COMMAND_HISTORY
  Longer,       \* how many longer limits COMMAND_TIMEOUT_RETRIES has
  Errors,       \* the texts of a first TeX error, or of a diagnostic without one
  Unresolved    \* the lists of references a build may leave undefined

\* _failure_signature: "unfinished" stands for "did not finish".
Signatures == Errors \cup Unresolved \cup {"unfinished"}
ASSUME LoopAssumption ==
  /\ {Stall, MaxHistory} \subseteq Nat \ {0} /\ Longer \in Nat
  /\ Errors \cap Unresolved = {} /\ "unfinished" \notin Errors \cup Unresolved

VARIABLE loop   \* the workflow's state of these steps, the run folder's files, and, as
                \* history, every failure a repair was tried for
loopVars == <<conf, faults, callVars, loop>>

NoResult == [status |-> "none", history |-> <<>>, attempt |-> 0]
Unchanged == UNCHANGED callVars
Goes(pc) == loop' = [loop EXCEPT !.pc = pc]

\* _storage_retry: a file that cannot be written is tried again, or a pause ends the step.
WritesSource ==
  /\ loop.pc = "write" /\ UNCHANGED conf /\ Unchanged
  /\ \/ loop' = [loop EXCEPT !.pc = "compile", !.source = loop.text, !.longer = Longer] /\ NoFault
     \/ Fault /\ Goes("write")
     \/ Fault /\ Goes("paused")

\* _run_command: the outputs are removed before a run and after one that did not pass.
Removed == Gone
\* A command that could not run is tried again after a wait; a pause ends the wait.
CannotRun ==
  /\ loop.pc = "compile" /\ Fault
  /\ \/ loop' = [loop EXCEPT !.pdf = Removed]
     \/ loop' = [loop EXCEPT !.pdf = Removed, !.pc = "paused"]
  /\ UNCHANGED conf /\ Unchanged

\* A run that did not finish is repeated with a longer limit first.
TakesLonger ==
  /\ loop.pc = "compile" /\ loop.longer > 0
  /\ loop' = [loop EXCEPT !.pdf = Removed, !.longer = @ - 1, !.compilation.attempt = @ + 1]
  /\ UNCHANGED conf /\ Unchanged /\ NoFault

\* The failures of the unfinished loop that this one repeats: the same report, or
\* the same source (_command_step).
Same(history, field, value) == Cardinality({i \in DOMAIN history : history[i][field] = value})
Larger(i, j) == IF i > j THEN i ELSE j
RepeatsOfLast(history, failure) ==     \* mutant: only failures in a row count
  IF history # <<>> /\ Last(history).signature = failure.signature THEN 2 ELSE 1
Repeats(history, failure) ==
  1 + Larger(Same(history, "signature", failure.signature), Same(history, "input", failure.input))
Kept(history) == SubSeq(history, Larger(1, Len(history) - MaxHistory + 1), Len(history))
History == IF loop.compilation.status \in {"pass", "uncompiled"} THEN <<>> ELSE loop.compilation.history

\* The outcome of a run for the graph: to its end, or to the repair.
Compiled(status, pdf, history) ==
  loop' = [loop EXCEPT
    !.pc = IF status = "fail" THEN "repair" ELSE "end", !.pdf = pdf,
    !.tried = IF status = "fail" THEN Append(@, Last(history)) ELSE @,
    !.compilation = [status |-> status, history |-> history, attempt |-> loop.compilation.attempt + 1]]
Compiles ==
  /\ loop.pc = "compile" /\ UNCHANGED conf /\ Unchanged /\ NoFault
  /\ \/ Compiled("pass", loop.source, History)
     \/ conf.web /\ Compiled("uncompiled", Removed, History)     \* the isolated compiler refuses
     \/ \E signature \in Signatures :     \* a run stopped for its output has no longer limit
          LET failure == [signature |-> signature, input |-> loop.source]
              stalled == Repeats(History, failure) >= Stall
              history == Kept(Append(History, failure))
              pdf     == IF signature \in Unresolved THEN loop.source ELSE Removed
          IN IF ~stalled THEN Compiled("fail", pdf, history)
             ELSE IF signature \in Unresolved THEN Compiled("pass", pdf, history)
             ELSE Compiled("uncompiled", pdf, history)

\* latex_repair: _model_call with the source to edit.
Repairs ==
  /\ loop.pc = "repair" /\ call.pc \in {"idle", "done"} /\ call.result = "none"
  /\ Called(loop.text) /\ UNCHANGED <<conf, edits, loop>> /\ NoFault

\* Its answer is the new source: the edited file, or the text of a web-cutoff run's
\* answer.  A call that raised ends the run; a paused one is made again.
Answers == {loop.text} \cup (edits + 1 .. MaxEdits)     \* of a web-cutoff run
Repaired ==
  /\ loop.pc = "repair" /\ call.pc = "done"
  /\ \E text \in IF conf.web THEN Answers ELSE {ws.file} :
       /\ loop' = CASE call.result = "accepted" -> [loop EXCEPT !.pc = "write", !.text = text]
                    [] call.result = "paused"   -> [loop EXCEPT !.pc = "paused"]
                    [] OTHER                    -> [loop EXCEPT !.pc = "failed"]
       /\ edits' = Larger(edits, text)
  /\ call' = NoCall /\ ws' = NoFolder /\ cli' = NoCli /\ store' = {}
  /\ knows' = [s \in Sessions |-> [from |-> None, file |-> Gone]]
  /\ UNCHANGED <<conf, lines, roll>> /\ NoFault

\* Resume: the checkpoint's node runs again, with its `before` actions.
Resumes ==
  /\ loop.pc = "paused" /\ UNCHANGED conf /\ Unchanged /\ NoFault
  /\ Goes(IF loop.compilation.status = "fail" /\ loop.text = loop.source THEN "repair" ELSE "write")

LoopInit ==
  /\ CallInit
  /\ loop = [pc |-> "write", text |-> 0, source |-> Gone, pdf |-> Gone, longer |-> Longer,
             compilation |-> NoResult, tried |-> <<>>]
LoopNext ==
  \/ WritesSource \/ CannotRun \/ TakesLonger \/ Compiles \/ Repairs \/ Repaired \/ Resumes
  \/ CallNext /\ UNCHANGED loop
LoopSpec == LoopInit /\ [][LoopNext]_loopVars

\* The types of the loop's state.
LoopTypeOK ==
  /\ CallTypeOK
  /\ loop.pc \in {"write", "compile", "repair", "paused", "end", "failed"}
  /\ {loop.text, loop.source, loop.pdf} \subseteq Versions /\ loop.longer \in 0 .. Longer
  /\ loop.compilation.status \in {"none", "pass", "fail", "uncompiled"} /\ Len(loop.compilation.history) <= MaxHistory

\* Repairs that go round among a few failures end: as long as the history can hold all
\* those failures as often as they may come, no more are repaired, whatever their order
\* and however often the loop is paused and resumed.  Failures that are ever new are
\* progress, and have no bound (_command_step).
Distinct == {loop.tried[i].signature : i \in DOMAIN loop.tried}
RepairsEnd ==
  LET most == (Stall - 1) * Cardinality(Distinct) IN most <= MaxHistory => Len(loop.tried) <= most

\* What is published: the PDF is of the published source, and there is none beside a
\* source that was not compiled (_run_command, latex_compile).
PdfIsOfSource == loop.pc = "end" => loop.pdf = IF loop.compilation.status = "pass" THEN loop.text ELSE Gone
=============================================================================
