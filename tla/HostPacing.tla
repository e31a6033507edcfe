------------------------------ MODULE HostPacing ------------------------------
(***************************************************************************)
(* What the shared limiter promises a provider (SharedHostLimiter of       *)
(* src/retrieval/historical_rate_limit.py, for one bucket of hosts):       *)
(* requests start at least Interval apart, none starts during a cooldown   *)
(* the provider asked for, and at most Lanes are under way.  Time is       *)
(* counted in ticks; `since' stops at Interval.                            *)
(***************************************************************************)
EXTENDS Naturals, FiniteSets

CONSTANTS
  Requests,     \* every request of every process
  Lanes,        \* HOST_CONCURRENCY
  Interval,     \* seconds between two starts (HOST_LIMITS)
  MaxCooldown   \* MAX_COOLDOWN_SECONDS

VARIABLES
  since,     \* ticks since the last start
  cool,      \* ticks left of the recorded cooldown
  underway   \* requests that started and did not end

pacing == <<since, cool, underway>>

Larger(a, b) == IF a >= b THEN a ELSE b
Smaller(a, b) == IF a <= b THEN a ELSE b

PacingInit == since = Interval /\ cool = 0 /\ underway = {}

StartOf(r) ==
  /\ r \notin underway /\ since = Interval /\ cool = 0
  /\ Cardinality(underway) < Lanes
  /\ underway' = underway \cup {r} /\ since' = 0
  /\ UNCHANGED cool

\* Requests end, one at a time or all at once (a reboot).
EndOf(ended) == underway' = underway \ ended /\ UNCHANGED <<since, cool>>

\* A cooldown is never shortened by another one.
CooldownFrom(r) ==
  /\ r \in underway
  /\ \E t \in 0 .. MaxCooldown : cool' = Larger(cool, t)
  /\ UNCHANGED <<since, underway>>

\* The saved state is damaged from outside: only the pace survives.
ForgetCooldown == cool' = 0 /\ UNCHANGED <<since, underway>>

PacingTick ==
  /\ since' = Smaller(since + 1, Interval)
  /\ cool' = IF cool > 0 THEN cool - 1 ELSE 0
  /\ UNCHANGED underway

PacingNext ==
  \/ \E r \in Requests : StartOf(r) \/ CooldownFrom(r)
  \/ \E ended \in SUBSET Requests : EndOf(ended)
  \/ ForgetCooldown \/ PacingTick

PacingSpec == PacingInit /\ [][PacingNext]_pacing

=============================================================================
