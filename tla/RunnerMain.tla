------------------------------- MODULE RunnerMain -------------------------------
(***************************************************************************)
(* main() of src/workflow_runner.py: a runner process either works on its  *)
(* workflow (here the last steps of clean_up.yaml with the model calls     *)
(* they make, LatexLoop over StructuredCall) or answers one message of the *)
(* user in the paused author's conversation (AuthorReply), never both.     *)
(***************************************************************************)
EXTENDS LatexLoop, AuthorReply

VARIABLE mode    \* args.author_message decides it for the process's life
mainVars == <<mode, loopVars, replyVars>>

\* The job's CLI is the same for both; what the other mode starts with is one fixed value.
MainInit ==
  /\ mode \in {"workflow", "reply"} /\ LoopInit /\ ReplyInit /\ harness = conf.cli
  /\ IF mode = "workflow" THEN copy = <<>> ELSE ~conf.web /\ conf.agents = "none"
MainNext ==
  /\ UNCHANGED mode
  /\ \/ mode = "workflow" /\ LoopNext /\ UNCHANGED replyVars
     \/ mode = "reply" /\ ReplyNext /\ UNCHANGED loopVars
MainSpec == MainInit /\ [][MainNext]_mainVars

\* The types of the process's state.
MainTypeOK == LoopTypeOK /\ ReplyTypeOK
=============================================================================
