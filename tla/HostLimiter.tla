------------------------------ MODULE HostLimiter ------------------------------
(***************************************************************************)
(* The cross-process pacing of retrieval requests to one provider: class   *)
(* SharedHostLimiter of src/retrieval/historical_rate_limit.py.  Requests  *)
(* of several processes queue with locked ticket files, take one of the    *)
(* lane locks for their whole body read, and start when the saved times,   *)
(* read and written under a short mutex, allow it.                         *)
(*                                                                         *)
(* Time passes in ticks.  The saved next_wall and next_monotonic are       *)
(* represented by how far ahead of their clock they are (`wall', `mono'),  *)
(* and a deadline by the ticks left to it, so that time itself needs no    *)
(* bound.  Kernel locks are released when their process dies.              *)
(***************************************************************************)
EXTENDS Naturals, Sequences, FiniteSets, SequencesExt

CONSTANTS
  Requests,     \* every request of every process
  Lanes,        \* HOST_CONCURRENCY
  Interval,     \* ticks between two starts (HOST_LIMITS)
  MaxCooldown,  \* MAX_COOLDOWN_SECONDS
  Stale,        \* a ticket whose owner died without removing it
  Deadlines,    \* ticks a request may wait; Never does not run out
  Never,
  Asked,        \* the Retry-After values a provider sends
  MaxWall,      \* bound: how far back the wall clock can be set
  ClockFaults,  \* which of "wall" (the clock is set) and "boot" can happen
  MaxDamage,    \* bound: damages of the state file from outside
  MaxFaults     \* bound: crashes, reboots and failing saves

ASSUME LimiterConstants ==
  /\ IsFiniteSet(Requests)
  /\ Lanes \in Nat \ {0} /\ Interval \in Nat \ {0}
  /\ MaxCooldown \in Nat /\ Interval <= MaxCooldown
  /\ Stale \notin Requests
  /\ Deadlines \subseteq Nat /\ Never \in Nat /\ Asked \subseteq Nat
  /\ MaxWall \in Nat /\ ClockFaults \subseteq {"wall", "boot"}
  /\ MaxDamage \in Nat /\ MaxFaults \in Nat

VARIABLES
  pc,        \* where each request is
  left,      \* ticks left to its deadline
  seen,      \* what it read from the state: the wait in ticks, or Aside
  order,     \* ticket names in the order of their time stamps
  visible,   \* requests whose ticket has its final name
  mutex,     \* who holds the timing mutex
  file,      \* the state file: "missing", "ok" or "damaged"
  wall, mono,   \* next_wall and next_monotonic minus their clocks
  span,      \* next_monotonic as a reboot left it, still ahead of the new uptime
  damages, faults,
  \* history, read by properties only
  since,     \* ticks since the last start, up to Interval
  cool,      \* ticks left of the recorded cooldown
  ahead      \* who was queued when a request took its ticket

saved   == <<file, wall, mono, span>>
bounds  == <<damages, faults>>
tickets == <<order, visible, ahead>>
pacing  == <<since, cool>>
vars == <<pc, left, seen, tickets, mutex, saved, bounds, pacing>>

Larger(a, b) == IF a >= b THEN a ELSE b
Smaller(a, b) == IF a <= b THEN a ELSE b

None  == Stale                    \* nobody holds the mutex
Aside == MaxWall + MaxCooldown + Interval + 1   \* the damaged state was moved aside
Longest == MaxCooldown + Interval

Places == {"idle", "peek", "arrived", "stamped", "queued", "admitted", "lane",
           "started", "active", "defer", "answered"}
InLane == {r \in Requests : pc[r] \in {"lane", "started", "active", "defer", "answered"}}
-----------------------------------------------------------------------------
Init ==
  /\ since = Interval /\ cool = 0
  /\ pc = [r \in Requests |-> "idle"] /\ left = [r \in Requests |-> 0]
  /\ seen = [r \in Requests |-> 0]
  /\ order = <<>> /\ visible = {} /\ ahead = [r \in Requests |-> {}]
  /\ mutex = None
  /\ file = "missing" /\ wall = 0 /\ mono = 0 /\ span = 0
  /\ damages = 0 /\ faults = 0
-----------------------------------------------------------------------------
(***************************************************************************)
(* The saved state.                                                        *)
(***************************************************************************)

\* Mutant of Remaining: the wall clock alone is looked at.
RemainingByWall == IF file = "missing" THEN 0 ELSE wall

\* _wait_seconds of the loaded state; a missing file asks for no wait.
Remaining == IF file = "missing" THEN 0 ELSE Larger(wall, mono)

\* _save, from now on for t ticks.
Saves(t) == file' = "ok" /\ wall' = t /\ mono' = t /\ span' = 0

\* The tickets of s in their order, but those in T.
Without(s, T) ==
  LET kept[i \in 0 .. Len(s)] ==
        IF i = 0 THEN <<>> ELSE IF s[i] \in T THEN kept[i - 1] ELSE Append(kept[i - 1], s[i])
  IN  kept[Len(s)]

Moves(r, from, to) == pc[r] = from /\ pc' = [pc EXCEPT ![r] = to]
InTime(r) == left[r] > 0

\* The ticket, the lane and the mutex of the requests in R are given up.
Leave(R) ==
  /\ pc' = [r \in Requests |-> IF r \in R THEN "idle" ELSE pc[r]]
  /\ left' = [r \in Requests |-> IF r \in R THEN 0 ELSE left[r]]
  /\ seen' = [r \in Requests |-> IF r \in R THEN 0 ELSE seen[r]]
  /\ visible' = visible \ R
  /\ ahead' = [r \in Requests |-> IF r \in R THEN {} ELSE ahead[r] \ R]
  /\ mutex' = IF mutex \in R THEN None ELSE mutex
  /\ UNCHANGED pacing
-----------------------------------------------------------------------------
(***************************************************************************)
(* slot(): a request arrives, queues, takes a lane and starts.             *)
(***************************************************************************)

Arrive(r) ==
  /\ Moves(r, "idle", "peek")
  /\ \E d \in Deadlines : left' = [left EXCEPT ![r] = d]
  /\ UNCHANGED <<seen, tickets, mutex, saved, bounds, pacing>>

\* _locked and _load: a damaged state file is moved aside first.
Load(r) ==
  /\ pc[r] \in {"peek", "lane", "defer"} /\ InTime(r) /\ mutex = None
  /\ mutex' = r
  /\ file' = IF file = "damaged" THEN "missing" ELSE file
  /\ seen' = [seen EXCEPT ![r] = IF file = "damaged" THEN Aside ELSE Remaining]
  /\ UNCHANGED <<pc, left, tickets, wall, mono, span, bounds, pacing>>

\* _fresh_state: pacing restarts one interval from now.
Fresh(r) ==
  /\ mutex = r /\ seen[r] = Aside
  /\ Saves(Interval)
  /\ seen' = [seen EXCEPT ![r] = Interval]
  /\ UNCHANGED <<pc, left, tickets, mutex, bounds, pacing>>

\* Holding the mutex, r knows the wait, and gives the mutex back in this step.
Decides(r) == mutex = r /\ seen[r] # Aside /\ mutex' = None
Forgets(r) == seen' = [seen EXCEPT ![r] = 0]

\* A pause of the provider that outlasts the deadline.
Hopeless(r) ==
  LET wait == Smaller(seen[r], Longest) IN wait > Interval /\ wait >= left[r]

\* _peek_cooldown.
Peek(r) ==
  /\ Decides(r) /\ ~Hopeless(r) /\ Moves(r, "peek", "arrived")
  /\ Forgets(r)
  /\ UNCHANGED <<left, tickets, saved, bounds, pacing>>

\* _enqueue takes its time stamp, then shows the locked ticket.
Stamp(r) ==
  /\ Moves(r, "arrived", "stamped")
  /\ order' = Append(order, r)
  /\ ahead' = [ahead EXCEPT ![r] = visible]
  /\ UNCHANGED <<left, seen, visible, mutex, saved, bounds, pacing>>

Show(r) ==
  /\ Moves(r, "stamped", "queued")
  /\ visible' = visible \cup {r}
  /\ UNCHANGED <<left, seen, order, ahead, mutex, saved, bounds, pacing>>

Older(r) == SubSeq(order, 1, SelectInSeq(order, LAMBDA t : t = r) - 1)

\* Mutant of Blocking: only the ticket just before is looked at.
BlockingLast(r) ==
  LET n == Len(Older(r)) IN {i \in {n} \ {0} : Older(r)[i] \in visible}

\* The older tickets whose owner still holds their lock.
Blocking(r) == {i \in 1 .. Len(Older(r)) : Older(r)[i] \in visible}

\* Mutant of Look: the ticket of a dead owner counts as a waiting request.
LookBehindDead(r) ==
  /\ pc[r] = "queued" /\ InTime(r)
  /\ pc' = IF Older(r) = <<>> THEN [pc EXCEPT ![r] = "admitted"] ELSE pc
  /\ UNCHANGED <<left, seen, order, visible, ahead, mutex, saved, bounds, pacing>>

\* _first: the tickets of dead owners are removed up to the first live one.
Look(r) ==
  /\ pc[r] = "queued" /\ InTime(r)
  /\ LET n == IF Blocking(r) = {} THEN Len(Older(r)) ELSE Min(Blocking(r))
     IN order' = Without(SubSeq(order, 1, n), {Stale}) \o SubSeq(order, n + 1, Len(order))
  /\ pc' = IF Blocking(r) = {} THEN [pc EXCEPT ![r] = "admitted"] ELSE pc
  /\ UNCHANGED <<left, seen, visible, ahead, mutex, saved, bounds, pacing>>

\* _lock_any: one of the lanes is free.
TakeLane(r) ==
  /\ InTime(r) /\ Cardinality(InLane) < Lanes
  /\ Moves(r, "admitted", "lane")
  /\ UNCHANGED <<left, seen, tickets, mutex, saved, bounds, pacing>>

\* Nothing to wait for: the start is recorded.
Start(r) ==
  /\ Decides(r) /\ seen[r] = 0 /\ InTime(r)
  /\ Moves(r, "lane", "started")
  /\ Saves(Interval)
  /\ since' = 0
  /\ UNCHANGED <<left, seen, tickets, bounds, cool>>

\* A longer pause than any provider signal is honoured for is shortened.
Clamped(t) == Smaller(t, Longest)

\* The wait goes on: the lane is kept, the mutex is not.
Postpone(r) ==
  /\ Decides(r) /\ pc[r] = "lane" /\ seen[r] > 0 /\ ~Hopeless(r)
  /\ IF Clamped(seen[r]) < seen[r] THEN Saves(Clamped(seen[r])) ELSE UNCHANGED saved
  /\ Forgets(r)
  /\ UNCHANGED <<pc, left, tickets, bounds, pacing>>

\* The start stands: the ticket goes, the lane stays for the body read.
Begin(r) ==
  /\ InTime(r) /\ Moves(r, "started", "active")
  /\ order' = Without(order, {r}) /\ visible' = visible \ {r}
  /\ ahead' = [q \in Requests |-> ahead[q] \ {r}]
  /\ UNCHANGED <<left, seen, mutex, saved, bounds, pacing>>

Finish(r) ==
  /\ pc[r] \in {"active", "answered"}
  /\ Leave({r})
  /\ UNCHANGED <<order, saved, bounds>>

\* The provider answers with Retry-After: the transport calls defer().
AskedToWait(r) ==
  /\ Moves(r, "active", "defer")
  /\ UNCHANGED <<left, seen, tickets, mutex, saved, bounds, pacing>>

Delay(t, wait) == Larger(Smaller(t, MaxCooldown), Smaller(wait, MaxCooldown))

\* defer() under the mutex.
Defer(r) ==
  /\ Decides(r) /\ Moves(r, "defer", "answered")
  /\ \E t \in Asked :
       /\ Saves(Delay(t, seen[r]))
       /\ cool' = Larger(cool, Smaller(t, MaxCooldown))
  /\ Forgets(r)
  /\ UNCHANGED <<left, tickets, bounds, since>>

\* The deadline passed, a cooldown outlasts it, or a file operation failed.
Fail(r) ==
  /\ pc[r] \notin {"idle", "active", "answered"}
  /\ \/ left[r] = 0 /\ ~(mutex = r /\ seen[r] = Aside) /\ UNCHANGED faults
     \/ /\ mutex = r /\ seen[r] # Aside /\ pc[r] \in {"peek", "lane"} /\ Hopeless(r)
        /\ UNCHANGED faults
     \/ mutex = r /\ faults < MaxFaults /\ faults' = faults + 1
  /\ Leave({r})
  /\ order' = Without(order, {r})
  /\ UNCHANGED <<saved, damages>>
-----------------------------------------------------------------------------
(***************************************************************************)
(* The machine: time, crashes, reboots, and the state file's enemies.      *)
(***************************************************************************)

Countdown(t) == IF t > 0 THEN t - 1 ELSE 0

Tick ==
  /\ left' = [r \in Requests |-> IF left[r] = Never THEN Never ELSE Countdown(left[r])]
  /\ wall' = Countdown(wall) /\ mono' = Countdown(mono)
  /\ since' = Smaller(since + 1, Interval) /\ cool' = Countdown(cool)
  /\ UNCHANGED <<pc, seen, tickets, mutex, file, span, bounds>>

\* The tickets of dead owners stay, without their locks.
Abandoned(R) ==
  [i \in 1 .. Len(order) |-> IF order[i] \in R THEN Stale ELSE order[i]]

\* The process of a request dies; an unshown ticket never had its name.
Crash(r) ==
  /\ faults < MaxFaults /\ faults' = faults + 1
  /\ pc[r] # "idle"
  /\ Leave({r})
  /\ order' = IF r \in visible THEN Abandoned({r}) ELSE Without(order, {r})
  /\ UNCHANGED <<saved, damages>>

\* Every process dies and the uptime restarts: it is below written_monotonic,
\* or reaches it later.
Reboot ==
  /\ "boot" \in ClockFaults /\ faults < MaxFaults /\ faults' = faults + 1
  /\ Leave(Requests)
  /\ order' = Without(Abandoned(visible), Requests)
  /\ mono' = 0 /\ span' = Larger(span, mono)
  /\ UNCHANGED <<file, wall, damages>>

\* The new uptime reaches written_monotonic before any other save.
UptimeCatchesUp ==
  /\ span > 0 /\ span' = 0 /\ mono' = span
  /\ UNCHANGED <<pc, left, seen, tickets, mutex, file, wall, bounds, pacing>>

SetWallClock ==
  /\ "wall" \in ClockFaults
  /\ wall' \in 0 .. MaxWall
  /\ UNCHANGED <<pc, left, seen, tickets, mutex, file, mono, span, bounds, pacing>>

\* Something else writes the state file, or its mode: the recorded cooldown is lost.
Damage ==
  /\ file = "ok" /\ damages < MaxDamage /\ damages' = damages + 1
  /\ file' = "damaged" /\ cool' = 0
  /\ UNCHANGED <<pc, left, seen, tickets, mutex, wall, mono, span, faults, since>>
-----------------------------------------------------------------------------
Step(r) ==
  \/ Load(r) \/ Fresh(r) \/ Peek(r) \/ Stamp(r) \/ Show(r) \/ Look(r) \/ TakeLane(r)
  \/ Start(r) \/ Postpone(r) \/ Begin(r) \/ Finish(r) \/ Defer(r) \/ Fail(r)

Machine == Tick \/ Reboot \/ UptimeCatchesUp \/ SetWallClock \/ Damage

Next ==
  \/ \E r \in Requests : Arrive(r) \/ AskedToWait(r) \/ Step(r) \/ Crash(r)
  \/ Machine

Spec == Init /\ [][Next]_vars

(***************************************************************************)
(* Fairness: time passes, a polling request finds a free mutex or lane in  *)
(* the end, and the provider's answer or the caller's deadline ends every  *)
(* request that was sent.                                                  *)
(***************************************************************************)
Fairness ==
  /\ WF_vars(Tick)
  /\ \A r \in Requests : WF_vars(Step(r)) /\ SF_vars(Load(r)) /\ SF_vars(TakeLane(r))

FairSpec == Spec /\ Fairness
-----------------------------------------------------------------------------
(***************************************************************************)
(* Properties.                                                             *)
(***************************************************************************)

PacingType == since \in 0 .. Interval /\ cool \in 0 .. MaxCooldown

StateType ==
  /\ file \in {"missing", "ok", "damaged"}
  /\ wall \in 0 .. Larger(MaxWall, Longest) /\ mono \in 0 .. Longest /\ span \in 0 .. Longest

\* Every variable has its type.
TypeOK ==
  /\ PacingType /\ StateType
  /\ pc \in [Requests -> Places] /\ left \in [Requests -> Nat] /\ seen \in [Requests -> Nat]
  /\ order \in Seq(Requests \cup {Stale}) /\ visible \subseteq Requests
  /\ ahead \in [Requests -> SUBSET Requests] /\ mutex \in Requests \cup {None}
  /\ damages \in Nat /\ faults \in Nat

\* The requests under way, as the provider sees them.
Sent == {r \in Requests : pc[r] \in {"started", "active", "defer", "answered"}}

Promise == INSTANCE HostPacing WITH underway <- Sent

\* Whatever the interleaving of the processes, and although the state file is
\* read and written by all of them, starts keep their distance, honour every
\* recorded cooldown and stay within the lanes: the limiter implements HostPacing.
Paced == Promise!PacingSpec

\* A request never starts before one that was already waiting when it came.
NoOvertaking ==
  \A r \in Requests : pc[r] \in {"admitted", "lane", "started"} => ahead[r] = {}

\* A request that can wait is not passed over forever: it starts, or fails with
\* an error, although newer requests keep coming and owners of tickets die.
EachStarts ==
  \A r \in Requests : pc[r] = "queued" ~> pc[r] \in {"active", "idle"}

=============================================================================
