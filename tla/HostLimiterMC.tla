---------------------------- MODULE HostLimiterMC ----------------------------
(***************************************************************************)
(* Instances of HostLimiter for TLC, and what its comments say of it.      *)
(***************************************************************************)
EXTENDS HostLimiter

\* Requests are alike: nothing orders them but the tickets they take.
Alike == Permutations(Requests)

\* A damaged state "is moved aside ... and pacing restarts conservatively from
\* one interval" (historical_rate_limit.py, lines 149-150).
RestartsPaced ==
  [][\A r \in Requests : pc[r] = "lane" /\ pc'[r] = "started" => since = Interval]_vars

=============================================================================
