-------------------------- MODULE JobLifecycleMC --------------------------
(***************************************************************************)
(* JobLifecycle for TLC.  The configurations give its bounds their values; *)
(* here are the claims that comments, docstrings and the README of the     *)
(* program make about a job and that the code keeps only under conditions  *)
(* the runs make visible.                                                  *)
(***************************************************************************)
EXTENDS JobLifecycle

\* _time_limit_reached_locked: "Record a new time-limit pause and ask the author
\* for its progress summary (once per pause)".  A pause at the time limit that
\* the user sees has recorded its time limit.
LimitPauseNoticed ==
  up = "up" /\ ~elsewhere /\ phase = "paused" /\ Saved.cause = "time-limit" => noticed

\* README, "Work that a restart, crash or reboot interrupted continues the same
\* way": a run nobody stopped is over only with a terminal result.
DoneHasResult ==
  up = "up" /\ phase = "done" /\ intent # "stop" => result # "none"

\* While the server neither ended nor failed to read its runner, every
\* time-limit pause is recorded (_time_limit_reached_locked), and a job nobody
\* stopped is over only with a terminal result (read_output).
CleanRunEnds ==
  crashes = 0 /\ breaks = 0 => LimitPauseNoticed /\ DoneHasResult
=============================================================================
