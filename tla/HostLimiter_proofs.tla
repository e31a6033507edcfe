-------------------------- MODULE HostLimiter_proofs --------------------------
(***************************************************************************)
(* HostLimiter implements HostPacing, for every number of requests, lanes, *)
(* intervals, deadlines and crashes, as long as the two clocks do not fail *)
(* together and no crash hits the repair of a damaged state file; and,     *)
(* without these conditions, nobody overtakes in the queue of tickets.     *)
(***************************************************************************)
EXTENDS HostLimiter, FiniteSetTheorems, SequenceTheorems, WellFoundedInduction, TLAPS

ClocksFailApart == ~({"wall", "boot"} \subseteq ClockFaults)
RepairsComplete == MaxDamage = 0 \/ MaxFaults = 0

\* t ticks are enough for the interval and the cooldown in force.
Enough(t) == t >= cool /\ t + since >= Interval

\* The clock that cannot fail.
Kept == IF "boot" \in ClockFaults THEN wall ELSE mono

Types ==
  /\ since \in 0 .. Interval /\ cool \in 0 .. MaxCooldown
  /\ wall \in Nat /\ mono \in Nat /\ span \in Nat
  /\ wall < Aside /\ mono < Aside /\ span < Aside
  /\ file \in {"missing", "ok", "damaged"}
  /\ pc \in [Requests -> Places] /\ seen \in [Requests -> Nat]
  /\ mutex \in Requests \cup {None}
  /\ damages \in Nat /\ faults \in Nat

Repairing == \E r \in Requests : mutex = r /\ seen[r] = Aside

StateCovers ==
  /\ file = "ok" => Enough(Kept)
  /\ file = "missing" => Repairing \/ Enough(0)
  /\ file = "damaged" \/ Repairing => cool = 0 /\ MaxDamage # 0
  /\ "boot" \notin ClockFaults => span = 0

HolderKnows ==
  \A r \in Requests : mutex = r =>
    /\ pc[r] \in {"peek", "lane", "defer"}
    /\ seen[r] # Aside => Enough(seen[r])
    /\ seen[r] = Aside => file = "missing"

LanesHold == Cardinality(InLane) <= Lanes

PacedInv == Types /\ StateCovers /\ HolderKnows /\ LanesHold
-----------------------------------------------------------------------------
LEMMA Inits == Init => PacedInv
<1> SUFFICES ASSUME Init PROVE PacedInv
  OBVIOUS
<1> USE DEF Init
<1>1. Types
  BY LimiterConstants DEF Types, Aside, Places, None
<1>2. StateCovers /\ HolderKnows
  BY LimiterConstants DEF StateCovers, HolderKnows, Enough, Repairing, None
<1>3. LanesHold
  <2>1. InLane = {}
    BY DEF InLane
  <2> QED
    BY <2>1, FS_EmptySet, LimiterConstants DEF LanesHold
<1> QED
  BY <1>1, <1>2, <1>3 DEF PacedInv

\* What stays when the state, its readers and the history stay.
LEMMA LaneSubset ==
  ASSUME LanesHold, InLane' \subseteq InLane
  PROVE  LanesHold'
<1>1. IsFiniteSet(InLane)
  BY LimiterConstants, FS_Subset, InLane \subseteq Requests DEF InLane
<1>2. Cardinality(InLane') <= Cardinality(InLane) /\ Cardinality(InLane) \in Nat /\ Cardinality(InLane') \in Nat
  BY <1>1, FS_Subset, FS_CardinalityType
<1> QED
  BY <1>2, LimiterConstants DEF LanesHold

LEMMA Untouched ==
  ASSUME PacedInv, UNCHANGED <<file, wall, mono, span, since, cool, seen, mutex, bounds>>,
         pc' \in [Requests -> Places],
         \A r \in Requests : mutex = r => pc'[r] \in {"peek", "lane", "defer"},
         LanesHold'
  PROVE  PacedInv'
<1>1. Types'
  BY DEF PacedInv, Types, Aside, bounds
<1>2. StateCovers'
  BY DEF PacedInv, StateCovers, Enough, Kept, Repairing
<1>3. HolderKnows'
  BY DEF PacedInv, HolderKnows, Enough
<1> QED
  BY <1>1, <1>2, <1>3 DEF PacedInv

\* Requests that leave, at a crash or not, take nothing with them but a repair.
LEMMA Leaving ==
  ASSUME PacedInv, NEW R \in SUBSET Requests, Leave(R),
         damages' = damages, faults' \in Nat, UNCHANGED <<file, wall, cool, since>>,
         mono' \in Nat, span' \in Nat, mono' < Aside, span' < Aside,
         "boot" \notin ClockFaults => mono' = mono /\ span' = span,
         mutex \in R /\ seen[mutex] = Aside => MaxDamage = 0
  PROVE  PacedInv'
<1>1. Types'
  BY DEF PacedInv, Types, Leave, Places, pacing, Aside, None
<1>2. Repairing => Repairing'
  BY DEF Repairing, Leave, PacedInv, Types, StateCovers
<1>3. Repairing' => Repairing
  <2> SUFFICES ASSUME NEW r \in Requests, mutex' = r, seen'[r] = Aside PROVE Repairing
    BY DEF Repairing, Aside
  <2>1. mutex = r /\ r \notin R
    BY LimiterConstants DEF Leave, None
  <2>2. seen[r] = Aside
    BY <2>1 DEF Leave, Aside
  <2> QED
    BY <2>1, <2>2 DEF Repairing
<1>4. StateCovers'
  BY <1>2, <1>3 DEF PacedInv, StateCovers, Enough, Kept
<1>5. HolderKnows'
  <2> SUFFICES ASSUME NEW r \in Requests, mutex' = r
               PROVE  /\ pc'[r] \in {"peek", "lane", "defer"}
                      /\ seen'[r] # Aside => Enough(seen[r])
                      /\ seen'[r] = seen[r]
                      /\ seen'[r] = Aside => file = "missing"
    BY DEF HolderKnows, Enough, Aside
  <2>1. mutex = r /\ r \notin R
    BY LimiterConstants DEF Leave, None
  <2> QED
    BY <2>1 DEF Leave, PacedInv, HolderKnows, Types, Aside
<1>6. LanesHold'
  BY LaneSubset DEF PacedInv, Leave, InLane
<1> QED
  BY <1>1, <1>4, <1>5, <1>6 DEF PacedInv

LEMMA LoadKeeps ==
  ASSUME PacedInv, ClocksFailApart, NEW r \in Requests, Load(r)
  PROVE  PacedInv'
<1> USE DEF Load
<1>1. Types'
  BY LimiterConstants DEF PacedInv, Types, Remaining, Larger, Aside, bounds, pacing
<1>2. mutex = None /\ ~Repairing /\ Remaining # Aside
  BY LimiterConstants DEF PacedInv, Types, Repairing, Remaining, Larger, Aside, None
<1>3. file # "damaged" => Enough(Remaining)
  BY <1>2, LimiterConstants DEF PacedInv, Types, StateCovers, Enough, Kept, Remaining, Larger
<1>4. seen'[r] = IF file = "damaged" THEN Aside ELSE Remaining
  BY DEF PacedInv, Types
<1>5. Repairing' <=> file = "damaged"
  <2>1. Repairing' <=> seen'[r] = Aside
    BY DEF Repairing, Aside
  <2> QED
    BY <2>1, <1>2, <1>4
<1>6. StateCovers'
  BY <1>2, <1>5 DEF PacedInv, StateCovers, Enough, Kept, pacing, bounds
<1>7. HolderKnows'
  <2> SUFFICES /\ pc'[r] \in {"peek", "lane", "defer"}
               /\ seen'[r] # Aside => Enough(seen'[r])
               /\ seen'[r] = Aside => file' = "missing"
    BY DEF HolderKnows, Enough, pacing, Aside
  <2> QED
    BY <1>2, <1>3, <1>4
<1>8. LanesHold'
  BY LaneSubset DEF PacedInv, InLane
<1> QED
  BY <1>1, <1>6, <1>7, <1>8 DEF PacedInv

\* The state is written for t ticks by the holder r of the mutex.
LEMMA Saving ==
  ASSUME PacedInv, NEW r \in Requests, mutex = r,
         NEW t \in Nat, t < Aside, Saves(t),
         since' \in 0 .. Interval, cool' \in 0 .. MaxCooldown, Enough(t)',
         seen' \in [Requests -> Nat],
         \/ mutex' = None
         \/ mutex' = r /\ seen'[r] = t /\ pc'[r] \in {"peek", "lane", "defer"},
         pc' \in [Requests -> Places], UNCHANGED bounds, LanesHold'
  PROVE  PacedInv'
<1>1. Types'
  BY LimiterConstants DEF PacedInv, Types, Saves, Aside, bounds
<1>2. Enough(Kept)'
  BY DEF Saves, Enough, Kept
<1>3. ~Repairing'
  BY LimiterConstants DEF Repairing, None, Aside
<1>4. StateCovers'
  BY <1>2, <1>3 DEF StateCovers, Saves, Enough, Kept
<1>5. HolderKnows'
  <2> SUFFICES ASSUME NEW q \in Requests, mutex' = q
               PROVE  /\ pc'[q] \in {"peek", "lane", "defer"}
                      /\ seen'[q] = t
    BY DEF HolderKnows, Enough, Aside
  <2> QED
    BY LimiterConstants DEF None
<1> QED
  BY <1>1, <1>4, <1>5 DEF PacedInv

LEMMA FreshKeeps ==
  ASSUME PacedInv, NEW r \in Requests, Fresh(r)
  PROVE  PacedInv'
<1>1. cool = 0 /\ mutex = r
  BY DEF Fresh, PacedInv, StateCovers, Repairing
<1>2. Enough(Interval)' /\ Interval \in Nat /\ Interval < Aside
  BY <1>1, LimiterConstants DEF Fresh, Enough, pacing, PacedInv, Types, Aside
<1>3. LanesHold'
  BY LaneSubset DEF PacedInv, InLane, Fresh
<1>4. seen' \in [Requests -> Nat] /\ seen'[r] = Interval
  BY <1>2 DEF Fresh, PacedInv, Types
<1>5. pc'[r] \in {"peek", "lane", "defer"}
  BY <1>1 DEF Fresh, PacedInv, HolderKnows
<1> QED
  BY <1>1, <1>2, <1>3, <1>4, <1>5, Saving DEF Fresh, PacedInv, Types, pacing

LEMMA StartKeeps ==
  ASSUME PacedInv, NEW r \in Requests, Start(r)
  PROVE  PacedInv' /\ since = Interval /\ cool = 0
<1>1. mutex = r /\ mutex' = None /\ seen[r] = 0 /\ seen[r] # Aside
  BY DEF Start, Decides
<1>2. since = Interval /\ cool = 0
  BY <1>1, LimiterConstants DEF PacedInv, HolderKnows, Enough, Types
<1>3. Enough(Interval)' /\ Interval \in Nat /\ Interval < Aside
  BY <1>2, LimiterConstants DEF Start, Enough, Aside
<1>4. LanesHold'
  BY LaneSubset DEF PacedInv, Types, InLane, Start, Moves
<1>5. pc' \in [Requests -> Places]
  BY DEF Start, Moves, PacedInv, Types, Places
<1> QED
  BY <1>1, <1>2, <1>3, <1>4, <1>5, Saving, LimiterConstants DEF Start, PacedInv, Types

LEMMA DeferKeeps ==
  ASSUME PacedInv, NEW r \in Requests, Defer(r)
  PROVE  PacedInv' /\ pc[r] = "defer" /\ pc' = [pc EXCEPT ![r] = "answered"]
         /\ \E t \in 0 .. MaxCooldown : cool' = Larger(cool, t)
<1>1. mutex = r /\ mutex' = None /\ seen[r] \in Nat /\ Enough(seen[r])
  BY DEF Defer, Decides, PacedInv, Types, HolderKnows
<1>2. PICK t \in Asked, d \in {Delay(u, seen[r]) : u \in Asked} :
        /\ d = Delay(t, seen[r]) /\ Saves(d)
        /\ cool' = Larger(cool, Smaller(t, MaxCooldown))
  BY DEF Defer
<1>3. Smaller(t, MaxCooldown) \in 0 .. MaxCooldown /\ t \in Nat
  BY LimiterConstants DEF Smaller
<1>a. since' = since /\ since \in Nat /\ cool \in 0 .. MaxCooldown
  BY LimiterConstants DEF Defer, PacedInv, Types
<1>b. d \in Nat /\ d <= MaxCooldown /\ d < Aside
  BY <1>1, <1>2, <1>3, LimiterConstants DEF Delay, Smaller, Larger, Aside
<1>c. cool' \in 0 .. MaxCooldown /\ d >= cool'
  BY <1>1, <1>2, <1>3, <1>a, LimiterConstants DEF Delay, Smaller, Larger, Enough
<1>d. d + since >= Interval
  BY <1>1, <1>2, <1>3, <1>a, LimiterConstants DEF Delay, Smaller, Larger, Enough
<1>4. Enough(d)' /\ since' \in 0 .. Interval
  BY <1>a, <1>c, <1>d DEF Enough, PacedInv, Types
<1>5. LanesHold'
  BY LaneSubset DEF PacedInv, Types, InLane, Defer, Moves
<1>6. pc' \in [Requests -> Places] /\ seen' \in [Requests -> Nat]
  BY DEF Defer, Moves, Forgets, PacedInv, Types, Places
<1>7. PacedInv'
  BY <1>1, <1>2, <1>b, <1>c, <1>4, <1>5, <1>6, Saving DEF Defer
<1> QED
  BY <1>2, <1>3, <1>7 DEF Defer, Moves

LEMMA PostponeKeeps ==
  ASSUME PacedInv, NEW r \in Requests, Peek(r) \/ Postpone(r)
  PROVE  PacedInv'
<1>1. mutex = r /\ mutex' = None /\ seen[r] \in Nat /\ Enough(seen[r]) /\ UNCHANGED bounds
      /\ UNCHANGED <<since, cool>>
  BY DEF Peek, Postpone, Decides, PacedInv, Types, HolderKnows, pacing
<1>2. pc' \in [Requests -> Places] /\ seen' \in [Requests -> Nat]
  BY DEF Peek, Postpone, Moves, Forgets, PacedInv, Types, Places
<1>3. LanesHold'
  BY LaneSubset DEF PacedInv, Types, InLane, Peek, Postpone, Moves
<1>4. CASE UNCHANGED saved
  <2>1. Types'
    BY <1>1, <1>2, <1>4 DEF PacedInv, Types, saved, Aside, bounds
  <2>2. ~Repairing /\ ~Repairing'
    BY <1>1, LimiterConstants DEF Repairing, None, Aside, Peek, Postpone, Decides
  <2>3. StateCovers'
    BY <1>1, <1>4, <2>2 DEF PacedInv, StateCovers, Enough, Kept, saved
  <2>4. HolderKnows'
    BY <1>1, LimiterConstants DEF HolderKnows, None
  <2> QED
    BY <2>1, <2>3, <2>4, <1>3 DEF PacedInv
<1>5. CASE Saves(Clamped(seen[r])) /\ Clamped(seen[r]) < seen[r]
  <2>1. Clamped(seen[r]) = Longest /\ Longest \in Nat /\ Longest < Aside
    BY <1>1, <1>5, LimiterConstants DEF Clamped, Smaller, Longest, Aside
  <2>2. Enough(Longest)'
    BY <1>1, LimiterConstants DEF Enough, Longest, PacedInv, Types
  <2> QED
    BY <1>1, <1>2, <1>3, <1>5, <2>1, <2>2, Saving DEF PacedInv, Types
<1> QED
  BY <1>4, <1>5 DEF Peek, Postpone

\* The steps of a request that touch neither the state nor the mutex.
LEMMA QueueKeeps ==
  ASSUME PacedInv, NEW r \in Requests,
         Arrive(r) \/ AskedToWait(r) \/ Stamp(r) \/ Show(r) \/ Look(r) \/ TakeLane(r) \/ Begin(r)
  PROVE  PacedInv' /\ Sent' = Sent /\ UNCHANGED pacing
<1>1. UNCHANGED <<file, wall, mono, span, since, cool, seen, mutex, bounds>>
  BY DEF Arrive, AskedToWait, Stamp, Show, Look, TakeLane, Begin, saved, pacing
<1>2. mutex \in Requests => pc[mutex] \in {"peek", "lane", "defer"}
  BY DEF PacedInv, HolderKnows
<1>3. \E to \in Places :
        /\ pc' = [pc EXCEPT ![r] = to]
        /\ to = pc[r] \/ pc[r] \notin {"peek", "lane", "defer"}
        /\ to \in {"lane", "started", "active", "defer", "answered"}
             => r \in InLane \/ Cardinality(InLane) < Lanes
        /\ to \in {"started", "active", "defer", "answered"} <=> r \in Sent
  BY DEF Arrive, AskedToWait, Stamp, Show, Look, TakeLane, Begin, Moves, Places, InLane, Sent,
         PacedInv, Types
<1>4. PICK to \in Places :
        /\ pc' = [pc EXCEPT ![r] = to]
        /\ to = pc[r] \/ pc[r] \notin {"peek", "lane", "defer"}
        /\ to \in {"lane", "started", "active", "defer", "answered"}
             => r \in InLane \/ Cardinality(InLane) < Lanes
        /\ to \in {"started", "active", "defer", "answered"} <=> r \in Sent
  BY <1>3
<1>5. LanesHold'
  <2>1. CASE r \in InLane \/ to \notin {"lane", "started", "active", "defer", "answered"}
    BY <1>4, <2>1, LaneSubset DEF PacedInv, Types, InLane
  <2>2. CASE r \notin InLane /\ Cardinality(InLane) < Lanes
    <3>1. InLane' \subseteq InLane \cup {r}
      BY <1>4 DEF PacedInv, Types, InLane
    <3>2. IsFiniteSet(InLane)
      BY LimiterConstants, FS_Subset, InLane \subseteq Requests DEF InLane
    <3>3. Cardinality(InLane \cup {r}) = Cardinality(InLane) + 1 /\ IsFiniteSet(InLane \cup {r})
      BY <2>2, <3>2, FS_AddElement
    <3>4. /\ Cardinality(InLane') <= Cardinality(InLane \cup {r})
          /\ Cardinality(InLane') \in Nat /\ Cardinality(InLane) \in Nat
      BY <3>1, <3>2, <3>3, FS_Subset, FS_CardinalityType
    <3> QED
      BY <2>2, <3>3, <3>4, LimiterConstants DEF LanesHold
  <2> QED
    BY <1>4, <2>1, <2>2
<1>6. \A q \in Requests : mutex = q => pc'[q] \in {"peek", "lane", "defer"}
  BY <1>2, <1>4 DEF PacedInv, Types
<1>7. pc' \in [Requests -> Places]
  BY <1>4 DEF PacedInv, Types
<1>8. Sent' = Sent
  BY <1>4 DEF PacedInv, Types, Sent
<1> QED
  BY <1>1, <1>5, <1>6, <1>7, <1>8, Untouched DEF pacing

LEMMA EndKeeps ==
  ASSUME PacedInv, RepairsComplete, NEW r \in Requests, Finish(r) \/ Fail(r) \/ Crash(r)
  PROVE  PacedInv' /\ Sent' = Sent \ {r} /\ UNCHANGED pacing
<1>1. Leave({r}) /\ UNCHANGED saved /\ damages' = damages
  BY DEF Finish, Fail, Crash, bounds
<1>2. faults' \in Nat
  BY DEF Finish, Fail, Crash, bounds, PacedInv, Types
<1>3. mutex = r /\ seen[r] = Aside => MaxDamage = 0
  <2>1. CASE Finish(r)
    BY <2>1 DEF Finish, PacedInv, HolderKnows
  <2>2. CASE Fail(r) \/ Crash(r)
    <3> SUFFICES ASSUME mutex = r, seen[r] = Aside, MaxDamage # 0 PROVE FALSE
      OBVIOUS
    <3>1. MaxFaults = 0
      BY DEF RepairsComplete
    <3> QED
      BY <2>2, <3>1 DEF Fail, Crash, PacedInv, Types
  <2> QED
    BY <2>1, <2>2
<1>4. PacedInv'
  <2>1. mutex \in {r} /\ seen[mutex] = Aside => MaxDamage = 0
    BY <1>3
  <2>2. UNCHANGED <<file, wall, cool, since, mono, span>>
    BY <1>1 DEF saved, Leave, pacing
  <2>3. mono' \in Nat /\ span' \in Nat /\ mono' < Aside /\ span' < Aside
    BY <2>2 DEF PacedInv, Types, Aside
  <2> QED
    BY <1>1, <1>2, <2>1, <2>2, <2>3, Leaving
<1>5. Sent' = Sent \ {r}
  BY <1>1 DEF Leave, Sent
<1> QED
  BY <1>1, <1>4, <1>5 DEF Leave

LEMMA RebootKeeps ==
  ASSUME PacedInv, RepairsComplete, Reboot
  PROVE  PacedInv' /\ Sent' = {} /\ UNCHANGED pacing
<1>1. Leave(Requests) /\ UNCHANGED <<file, wall, damages>> /\ mono' = 0 /\ span' = Larger(span,
   mono)
      /\ faults' = faults + 1 /\ faults < MaxFaults /\ "boot" \in ClockFaults
  BY DEF Reboot
<1>2. mutex \in Requests /\ seen[mutex] = Aside => MaxDamage = 0
  BY <1>1 DEF RepairsComplete, PacedInv, Types
<1>3. mono' \in Nat /\ span' \in Nat /\ mono' < Aside /\ span' < Aside /\ faults' \in Nat
  BY <1>1, LimiterConstants DEF PacedInv, Types, Larger, Aside
<1>4. PacedInv'
  BY <1>1, <1>2, <1>3, Leaving DEF Leave, pacing
<1>5. Sent' = {}
  BY <1>1 DEF Leave, Sent
<1> QED
  BY <1>1, <1>4, <1>5 DEF Leave

LEMMA TickKeeps ==
  ASSUME PacedInv, Tick
  PROVE  PacedInv'
<1>1. /\ UNCHANGED <<pc, seen, mutex, file, span, damages, faults>>
      /\ wall' = Countdown(wall) /\ mono' = Countdown(mono)
      /\ since' = Smaller(since + 1, Interval) /\ cool' = Countdown(cool)
  BY DEF Tick, bounds
<1>2. Types'
  BY <1>1, LimiterConstants DEF PacedInv, Types, Countdown, Smaller, Aside
<1>3. ASSUME NEW t \in Nat, Enough(t) PROVE Enough(t)' /\ Enough(Countdown(t))'
  BY <1>1, <1>3, LimiterConstants DEF Enough, Countdown, Smaller, PacedInv, Types
<1>4. Repairing' <=> Repairing
  BY <1>1 DEF Repairing, Aside
<1>5. StateCovers'
  <2>1. Kept' = Countdown(Kept) /\ Kept \in Nat
    BY <1>1 DEF Kept, PacedInv, Types
  <2>2. Enough(Kept) => Enough(Kept)'
    <3> DEFINE k == Kept
    <3>1. k \in Nat
      BY <2>1
    <3>2. Kept' = Countdown(k)
      BY <2>1
    <3> HIDE DEF k
    <3>3. Enough(k) => cool' <= Countdown(k) /\ Countdown(k) + since' >= Interval
      BY <1>1, <3>1, LimiterConstants DEF Enough, Countdown, Smaller, PacedInv, Types
    <3> QED
      BY <3>2, <3>3 DEF Enough, k
  <2>3. cool = 0 => cool' = 0
    BY <1>1 DEF Countdown
  <2> QED
    BY <1>1, <1>3, <1>4, <2>2, <2>3 DEF PacedInv, StateCovers
<1>6. HolderKnows'
  <2> SUFFICES ASSUME NEW r \in Requests, mutex = r, seen[r] # Aside
               PROVE  cool' <= seen[r] /\ seen[r] + since' >= Interval
    BY <1>1 DEF PacedInv, HolderKnows, Enough, Aside
  <2>1. Enough(seen[r]) /\ seen[r] \in Nat
    BY DEF PacedInv, HolderKnows, Types
  <2> QED
    BY <1>1, <2>1, LimiterConstants DEF Enough, Countdown, Smaller, PacedInv, Types
<1>7. LanesHold'
  BY <1>1 DEF PacedInv, LanesHold, InLane
<1> QED
  BY <1>2, <1>5, <1>6, <1>7 DEF PacedInv

LEMMA ClockKeeps ==
  ASSUME PacedInv, ClocksFailApart, UptimeCatchesUp \/ SetWallClock
  PROVE  PacedInv' /\ Sent' = Sent /\ UNCHANGED pacing
<1>1. UNCHANGED <<pc, seen, mutex, file, since, cool, damages, faults>>
  BY DEF UptimeCatchesUp, SetWallClock, bounds, pacing
<1>2. wall' \in Nat /\ wall' < Aside /\ mono' \in Nat /\ mono' < Aside /\ span' \in Nat /\ span' < Aside
  BY LimiterConstants DEF UptimeCatchesUp, SetWallClock, PacedInv, Types, Aside
<1>3. Types'
  BY <1>1, <1>2 DEF PacedInv, Types, Aside
<1>4. Kept' = Kept /\ ("boot" \notin ClockFaults => span' = 0)
  BY DEF UptimeCatchesUp, SetWallClock, Kept, PacedInv, StateCovers, ClocksFailApart
<1>5. StateCovers'
  BY <1>1, <1>4 DEF PacedInv, StateCovers, Enough, Repairing, Aside
<1>6. HolderKnows' /\ LanesHold'
  BY <1>1 DEF PacedInv, HolderKnows, Enough, LanesHold, InLane, Aside
<1> QED
  BY <1>1, <1>3, <1>5, <1>6 DEF PacedInv, Sent, pacing

LEMMA DamageKeeps ==
  ASSUME PacedInv, Damage
  PROVE  PacedInv' /\ Sent' = Sent
<1>1. /\ UNCHANGED <<pc, seen, mutex, wall, mono, span, since, faults>>
      /\ file = "ok" /\ file' = "damaged" /\ cool' = 0 /\ damages' = damages + 1
      /\ damages < MaxDamage
  BY DEF Damage
<1>2. Types'
  BY <1>1, LimiterConstants DEF PacedInv, Types, Aside
<1>3. ~Repairing
  BY <1>1 DEF PacedInv, HolderKnows, Repairing
<1>4. StateCovers'
  BY <1>1, <1>2 DEF PacedInv, StateCovers, Types
<1>5. HolderKnows'
  <2> SUFFICES ASSUME NEW r \in Requests, mutex = r
               PROVE  seen[r] # Aside /\ seen[r] >= 0 /\ seen[r] + since >= Interval
    BY <1>1 DEF PacedInv, HolderKnows, Enough, Aside
  <2> QED
    BY <1>3 DEF Repairing, PacedInv, HolderKnows, Enough, Types
<1>6. LanesHold'
  BY <1>1 DEF PacedInv, LanesHold, InLane
<1> QED
  BY <1>1, <1>2, <1>4, <1>5, <1>6 DEF PacedInv, Sent

\* A request that starts finds a free place among those the provider sees.
LEMMA StartIsStart ==
  ASSUME PacedInv, NEW r \in Requests, Start(r)
  PROVE  Promise!StartOf(r)
<1>1. r \notin Sent /\ Sent' = Sent \cup {r} /\ Sent \cup {r} \subseteq InLane
  BY DEF Start, Moves, Sent, InLane, PacedInv, Types
<1>2. since = Interval /\ cool = 0
  BY StartKeeps
<1>3. Cardinality(Sent) < Lanes
  <2>1. IsFiniteSet(InLane) /\ IsFiniteSet(Sent)
    BY LimiterConstants, FS_Subset, InLane \subseteq Requests,
       Sent \subseteq Requests DEF InLane, Sent
  <2>2. Cardinality(Sent \cup {r}) = Cardinality(Sent) + 1
    BY <1>1, <2>1, FS_AddElement
  <2>3. /\ Cardinality(Sent \cup {r}) <= Cardinality(InLane)
        /\ Cardinality(Sent) \in Nat /\ Cardinality(InLane) \in Nat
    BY <1>1, <2>1, FS_Subset, FS_CardinalityType
  <2> QED
    BY <2>2, <2>3, LimiterConstants DEF PacedInv, LanesHold
<1>4. since' = 0 /\ cool' = cool
  BY DEF Start
<1>5. Promise!Cardinality(Sent) = Cardinality(Sent)
  BY Zenon DEF Promise!Cardinality, Cardinality
<1> QED
  BY <1>1, <1>2, <1>3, <1>4, <1>5 DEF Promise!StartOf

LEMMA NextKeeps ==
  ASSUME PacedInv, ClocksFailApart, RepairsComplete, [Next]_vars
  PROVE  PacedInv' /\ [Promise!PacingNext]_(Promise!pacing)
<1>1. CASE UNCHANGED vars
  <2>1. PacedInv'
    BY <1>1, Untouched DEF vars, saved, pacing, PacedInv, Types, HolderKnows, LanesHold, InLane
  <2> QED
    BY <1>1, <2>1 DEF vars, pacing, Sent, Promise!pacing
<1>2. ASSUME NEW r \in Requests,
             Arrive(r) \/ AskedToWait(r) \/ Stamp(r) \/ Show(r) \/ Look(r) \/ TakeLane(r) \/ Begin(r)
      PROVE  PacedInv' /\ UNCHANGED Promise!pacing
  BY <1>2, QueueKeeps DEF pacing, Promise!pacing
<1>3. ASSUME NEW r \in Requests, Load(r) \/ Fresh(r) \/ Peek(r) \/ Postpone(r)
      PROVE  PacedInv' /\ UNCHANGED Promise!pacing
  <2>1. PacedInv'
    BY <1>3, LoadKeeps, FreshKeeps, PostponeKeeps
  <2>2. Sent' = Sent /\ UNCHANGED pacing
    BY <1>3 DEF Load, Fresh, Peek, Postpone, Moves, Sent, PacedInv, Types
  <2> QED
    BY <2>1, <2>2 DEF pacing, Promise!pacing
<1>4. ASSUME NEW r \in Requests, Start(r)
      PROVE  PacedInv' /\ Promise!PacingNext
  BY <1>4, StartKeeps, StartIsStart DEF Promise!PacingNext
<1>5. ASSUME NEW r \in Requests, Finish(r) \/ Fail(r) \/ Crash(r)
      PROVE  PacedInv' /\ Promise!PacingNext
  <2>1. PacedInv' /\ Promise!EndOf({r})
    BY <1>5, EndKeeps DEF pacing, Promise!EndOf
  <2>2. {r} \in SUBSET Requests
    OBVIOUS
  <2> QED
    BY <2>1, <2>2 DEF Promise!PacingNext
<1>6. ASSUME NEW r \in Requests, Defer(r)
      PROVE  PacedInv' /\ Promise!PacingNext
  <2>1. /\ PacedInv' /\ pc[r] = "defer" /\ pc' = [pc EXCEPT ![r] = "answered"]
        /\ \E t \in 0 .. MaxCooldown : cool' = Larger(cool, t)
    BY <1>6, DeferKeeps
  <2>2. r \in Sent /\ Sent' = Sent /\ since' = since
    BY <1>6, <2>1 DEF Sent, PacedInv, Types, Defer
  <2>3. Promise!CooldownFrom(r)
    BY <2>1, <2>2 DEF Promise!CooldownFrom, Larger, Promise!Larger
  <2> QED
    BY <2>1, <2>3 DEF Promise!PacingNext
<1>7. CASE Reboot
  <2>1. PacedInv' /\ Promise!EndOf(Requests)
    BY <1>7, RebootKeeps DEF pacing, Promise!EndOf, Sent
  <2> QED
    BY <2>1 DEF Promise!PacingNext
<1>8. CASE Tick
  <2>1. Promise!PacingTick
    BY <1>8, LimiterConstants DEF Tick, Promise!PacingTick, Countdown, Smaller, Promise!Smaller,
       Sent
  <2> QED
    BY <1>8, <2>1, TickKeeps DEF Promise!PacingNext
<1>9. CASE UptimeCatchesUp \/ SetWallClock
  BY <1>9, ClockKeeps DEF pacing, Promise!pacing
<1>10. CASE Damage
  <2>1. Promise!ForgetCooldown
    BY <1>10, DamageKeeps DEF Damage, Promise!ForgetCooldown
  <2> QED
    BY <1>10, <2>1, DamageKeeps DEF Promise!PacingNext
<1> QED
  BY <1>1, <1>2, <1>3, <1>4, <1>5, <1>6, <1>7, <1>8, <1>9, <1>10 DEF Next, Step, Machine

\* For any number of requests, lanes and crashes, the provider sees starts at
\* least Interval apart, none during a recorded cooldown, and at most Lanes
\* requests under way, when the two clocks do not fail together and no crash
\* hits the repair of a damaged state file.
THEOREM LimiterPaces ==
  ASSUME ClocksFailApart, RepairsComplete
  PROVE  Spec => Paced
<1>1. Init => PacedInv /\ Promise!PacingInit
  BY Inits DEF Init, Promise!PacingInit, Sent
<1>2. PacedInv /\ [Next]_vars => PacedInv' /\ [Promise!PacingNext]_(Promise!pacing)
  BY NextKeeps
<1> QED
  BY <1>1, <1>2, PTL DEF Spec, Paced, Promise!PacingSpec

-----------------------------------------------------------------------------
\* Tickets taken out of the order

Filters(s, T, n, f) ==
  f = [i \in 0 .. n |-> IF i = 0 THEN <<>> ELSE IF s[i] \in T THEN f[i - 1] ELSE Append(f[i - 1], s[i])]

LEMMA FiltersMore ==
  ASSUME NEW s, NEW T, NEW n \in Nat \ {0}, NEW f, Filters(s, T, n - 1, f)
  PROVE  \E g : Filters(s, T, n, g)
<1> DEFINE g == [i \in 0 .. n |-> IF i = n THEN IF s[n] \in T THEN f[n - 1] ELSE Append(f[n - 1], s[n]) ELSE f[i]]
           h == [i \in 0 .. n |-> IF i = 0 THEN <<>> ELSE IF s[i] \in T THEN g[i - 1] ELSE Append(g[i - 1], s[i])]
<1>1. \A i \in 0 .. n - 1 : g[i] = f[i]
  OBVIOUS
<1>2. \A i \in 0 .. n - 1 : f[i] = IF i = 0 THEN <<>> ELSE IF s[i] \in T THEN f[i - 1] ELSE Append(f[i - 1], s[i])
  BY DEF Filters
<1>3. \A i \in 0 .. n : g[i] = h[i]
  <2> SUFFICES ASSUME NEW i \in 0 .. n PROVE g[i] = h[i]
    OBVIOUS
  <2>1. CASE i = n
    <3>1. n - 1 \in 0 .. n - 1 /\ n \in 0 .. n /\ n # 0
      OBVIOUS
    <3>2. g[n - 1] = f[n - 1]
      BY <1>1, <3>1
    <3>3. h[n] = IF s[n] \in T THEN g[n - 1] ELSE Append(g[n - 1], s[n])
      BY <3>1
    <3>4. g[n] = IF s[n] \in T THEN f[n - 1] ELSE Append(f[n - 1], s[n])
      BY <3>1
    <3> HIDE DEF g, h
    <3> QED BY <2>1, <3>2, <3>3, <3>4
  <2>2. CASE i # n
    <3>1. i \in 0 .. n - 1 /\ (i # 0 => i - 1 \in 0 .. n - 1)
      BY <2>2
    <3>2. h[i] = IF i = 0 THEN <<>> ELSE IF s[i] \in T THEN g[i - 1] ELSE Append(g[i - 1], s[i])
      OBVIOUS
    <3> HIDE DEF g, h
    <3> QED BY <3>1, <3>2, <1>1, <1>2
  <2> QED BY <2>1, <2>2
<1>4. g = h
  <2>1. g = [i \in 0 .. n |-> g[i]] /\ h = [i \in 0 .. n |-> h[i]]
    OBVIOUS
  <2> HIDE DEF g, h
  <2> QED BY <1>3, <2>1
<1>5. Filters(s, T, n, g)
  BY <1>4, Zenon DEF Filters
<1> QED BY <1>5

LEMMA FiltersExist ==
  ASSUME NEW s, NEW T, NEW n \in Nat
  PROVE  \E f : Filters(s, T, n, f)
<1> DEFINE Unfiltered == {m \in Nat : ~\E f : Filters(s, T, m, f)}
<1>1. CASE Unfiltered # {}
  <2>1. PICK m \in Unfiltered : \A k \in Unfiltered : ~(<<k, m>> \in OpToRel(<, Nat))
    BY <1>1, NatLessThanWellFounded, WFMin
  <2>2. \A k \in Nat : k < m => k \notin Unfiltered
    BY <2>1 DEF OpToRel
  <2>3. Filters(s, T, 0, [i \in 0 .. 0 |-> <<>>])
    BY DEF Filters
  <2>4. m \in Nat \ {0} /\ m - 1 \in Nat /\ m - 1 < m
    BY <2>3
  <2>5. PICK f : Filters(s, T, m - 1, f)
    BY <2>2, <2>4
  <2> QED BY <2>4, <2>5, FiltersMore
<1>2. CASE Unfiltered = {}
  BY <1>2
<1> QED BY <1>1, <1>2

LEMMA WithoutFilters ==
  ASSUME NEW s, NEW T, Len(s) \in Nat
  PROVE  \E f : Filters(s, T, Len(s), f) /\ Without(s, T) = f[Len(s)]
<1> DEFINE k == CHOOSE f : Filters(s, T, Len(s), f)
<1>1. Filters(s, T, Len(s), k)
  BY FiltersExist, Zenon
<1>2. Without(s, T) = k[Len(s)]
  BY Zenon DEF Without, Filters
<1> QED BY <1>1, <1>2

\* q has the elements of the first n of s, but those in T, and in their order.
Thins(q, s, n, T) ==
  /\ \A a \in DOMAIN q : q[a] \notin T /\ \E c \in 1 .. n : s[c] = q[a]
  /\ \A a, b \in DOMAIN q : a < b => \E c, d \in 1 .. n : c < d /\ s[c] = q[a] /\ s[d] = q[b]
  /\ \A c \in 1 .. n : s[c] \notin T => \E a \in DOMAIN q : q[a] = s[c]

LEMMA ThinsMore ==
  ASSUME NEW S, NEW s \in Seq(S), NEW T, NEW n \in 1 .. Len(s), NEW q \in Seq(S), Thins(q, s, n - 1, T)
  PROVE  /\ s[n] \in T => Thins(q, s, n, T)
         /\ s[n] \notin T => Append(q, s[n]) \in Seq(S) /\ Thins(Append(q, s[n]), s, n, T)
<1>1. \A c \in 1 .. n : c = n \/ c \in 1 .. n - 1
  OBVIOUS
<1>2. \A c \in 1 .. n - 1 : c \in 1 .. n /\ c < n
  OBVIOUS
<1>3. s[n] \in S /\ n \in 1 .. n
  OBVIOUS
<1>4. s[n] \in T => Thins(q, s, n, T)
  BY <1>1, <1>2 DEF Thins
<1>5. ASSUME s[n] \notin T PROVE Append(q, s[n]) \in Seq(S) /\ Thins(Append(q, s[n]), s, n, T)
  <2> DEFINE p == Append(q, s[n])
  <2>1. /\ p \in Seq(S) /\ Len(q) \in Nat /\ Len(p) = Len(q) + 1
        /\ DOMAIN q = 1 .. Len(q) /\ DOMAIN p = 1 .. Len(p)
        /\ \A j \in 1 .. Len(q) : p[j] = q[j]
        /\ p[Len(q) + 1] = s[n]
    BY <1>3, AppendProperties
  <2> HIDE DEF p
  <2>2. \A j \in DOMAIN p : j = Len(q) + 1 \/ j \in DOMAIN q
    BY <2>1
  <2>3. \A j \in DOMAIN q : j \in DOMAIN p /\ p[j] = q[j] /\ j < Len(q) + 1
    BY <2>1
  <2>4. Len(q) + 1 \in DOMAIN p
    BY <2>1
  <2>5. \A a \in DOMAIN p : p[a] \notin T /\ \E c \in 1 .. n : s[c] = p[a]
    BY <1>2, <1>3, <1>5, <2>1, <2>2, <2>3 DEF Thins
  <2>6. \A a, b \in DOMAIN p : a < b => \E c, d \in 1 .. n : c < d /\ s[c] = p[a] /\ s[d] = p[b]
    <3> SUFFICES ASSUME NEW a \in DOMAIN p, NEW b \in DOMAIN p, a < b
                 PROVE  \E c, d \in 1 .. n : c < d /\ s[c] = p[a] /\ s[d] = p[b]
      OBVIOUS
    <3>1. a \in DOMAIN q
      BY <2>1, <2>2
    <3>2. CASE b \in DOMAIN q
      <4>1. PICK c \in 1 .. n - 1, d \in 1 .. n - 1 : c < d /\ s[c] = q[a] /\ s[d] = q[b]
        BY <3>1, <3>2 DEF Thins
      <4> QED BY <4>1, <1>2, <2>3, <3>1, <3>2
    <3>3. CASE b = Len(q) + 1
      <4>1. PICK c \in 1 .. n - 1 : s[c] = q[a]
        BY <3>1 DEF Thins
      <4> QED BY <4>1, <1>2, <1>3, <2>1, <2>3, <3>1, <3>3
    <3> QED BY <2>2, <3>2, <3>3
  <2>7. \A c \in 1 .. n : s[c] \notin T => \E a \in DOMAIN p : p[a] = s[c]
    <3> SUFFICES ASSUME NEW c \in 1 .. n, s[c] \notin T PROVE \E a \in DOMAIN p : p[a] = s[c]
      OBVIOUS
    <3>1. CASE c = n
      BY <3>1, <2>1, <2>4
    <3>2. CASE c \in 1 .. n - 1
      BY <3>2, <2>3 DEF Thins
    <3> QED BY <1>1, <3>1, <3>2
  <2> QED BY <2>1, <2>5, <2>6, <2>7 DEF p, Thins
<1> QED BY <1>4, <1>5

LEMMA WithoutThins ==
  ASSUME NEW S, NEW s \in Seq(S), NEW T
  PROVE  Without(s, T) \in Seq(S) /\ Thins(Without(s, T), s, Len(s), T)
<1>1. PICK f : Filters(s, T, Len(s), f) /\ Without(s, T) = f[Len(s)]
  BY WithoutFilters
<1>2. /\ f[0] = <<>>
      /\ \A i \in 1 .. Len(s) : f[i] = IF s[i] \in T THEN f[i - 1] ELSE Append(f[i - 1], s[i])
  <2>1. Len(s) \in Nat
    OBVIOUS
  <2>2. \A i \in 0 .. Len(s) : f[i] = IF i = 0 THEN <<>> ELSE IF s[i] \in T THEN f[i - 1] ELSE Append(f[i - 1], s[i])
    BY <1>1 DEF Filters
  <2> QED BY <2>1, <2>2
<1> DEFINE Thick == {m \in Nat : m <= Len(s) /\ ~(f[m] \in Seq(S) /\ Thins(f[m], s, m, T))}
<1>3. CASE Thick # {}
  <2>1. PICK m \in Thick : \A k \in Thick : ~(<<k, m>> \in OpToRel(<, Nat))
    BY <1>3, NatLessThanWellFounded, WFMin
  <2>2. \A k \in Nat : k < m => k \notin Thick
    BY <2>1 DEF OpToRel
  <2>3. f[0] \in Seq(S) /\ Thins(f[0], s, 0, T)
    BY <1>2 DEF Thins
  <2>4. m \in 1 .. Len(s) /\ m - 1 \in Nat /\ m - 1 < m /\ m - 1 <= Len(s)
    BY <2>3
  <2>5. f[m - 1] \in Seq(S) /\ Thins(f[m - 1], s, m - 1, T)
    BY <2>2, <2>4
  <2>6. f[m] = IF s[m] \in T THEN f[m - 1] ELSE Append(f[m - 1], s[m])
    BY <1>2, <2>4
  <2>7. f[m] \in Seq(S) /\ Thins(f[m], s, m, T)
    BY <2>4, <2>5, <2>6, ThinsMore
  <2> QED BY <2>7
<1>4. CASE Thick = {}
  <2>1. Len(s) \in Nat
    OBVIOUS
  <2>2. Len(s) \notin Thick
    BY <1>4
  <2> QED BY <1>1, <2>1, <2>2
<1> QED BY <1>3, <1>4

-----------------------------------------------------------------------------
\* Who waits before whom

Showing == {"queued", "admitted", "lane", "started"}
Stamped == Showing \cup {"stamped"}
Tickets == Requests \cup {Stale}

\* A ticket of s that is in q as well is in its place: before the same others.
Keeps(q, s) ==
  /\ \A a \in DOMAIN q : q[a] \in Requests => \E c \in DOMAIN s : s[c] = q[a]
  /\ \A a, b \in DOMAIN q : a < b /\ q[a] \in Requests /\ q[b] \in Requests =>
       \E c, d \in DOMAIN s : c < d /\ s[c] = q[a] /\ s[d] = q[b]

TicketTypes ==
  /\ order \in Seq(Tickets) /\ visible \in SUBSET Requests /\ pc \in [Requests -> Places]
  /\ ahead \in [Requests -> SUBSET Requests]

\* Every waiting request has one ticket, whatever became of the other tickets,
\* and those a request was told are ahead of it have older ones.
InLine ==
  /\ TicketTypes
  /\ \A r \in Requests : r \in visible <=> pc[r] \in Showing
  /\ \A i \in DOMAIN order : order[i] \in Requests => pc[order[i]] \in Stamped
  /\ \A r \in Requests : pc[r] \in Stamped => \E i \in DOMAIN order : order[i] = r
  /\ \A i, j \in DOMAIN order : order[i] = order[j] /\ order[i] \in Requests => i = j
  /\ \A r \in Requests : \A q \in ahead[r] :
       /\ q \in visible /\ pc[r] \in Stamped
       /\ \A i, j \in DOMAIN order : order[i] = q /\ order[j] = r => i < j
  /\ NoOvertaking

\* Steps in which tickets are given up or removed, and none is added.
LEMMA LineShortens ==
  ASSUME InLine, TicketTypes', Keeps(order', order),
         \A r \in Requests : r \in visible' <=> pc'[r] \in Showing,
         \A i \in DOMAIN order' : order'[i] \in Requests => pc'[order'[i]] \in Stamped,
         \A r \in Requests : pc'[r] \in Stamped => \E i \in DOMAIN order' : order'[i] = r,
         \A r \in Requests : ahead'[r] \subseteq ahead[r] \cap visible',
         \A r \in Requests : ahead'[r] # {} => pc'[r] \in Stamped,
         \A r \in Requests : pc'[r] \in {"admitted", "lane", "started"} => ahead'[r] = {}
  PROVE  InLine'
<1>1. order \in Seq(Tickets) /\ order' \in Seq(Tickets)
  BY DEF InLine, TicketTypes
<1>2. \A i, j \in DOMAIN order' : i \in Nat /\ j \in Nat
  BY <1>1
<1>3. \A i, j \in DOMAIN order : i \in Nat /\ j \in Nat
  BY <1>1
<1>4. ASSUME NEW i \in DOMAIN order', NEW j \in DOMAIN order', order'[i] = order'[j], order'[i] \in Requests, i < j
      PROVE  FALSE
  <2>1. PICK c \in DOMAIN order, d \in DOMAIN order : c < d /\ order[c] = order'[i] /\ order[d] = order'[j]
    BY <1>4 DEF Keeps
  <2>2. c = d
    BY <1>4, <2>1 DEF InLine
  <2> QED BY <1>3, <2>1, <2>2
<1>5. \A i, j \in DOMAIN order' : order'[i] = order'[j] /\ order'[i] \in Requests => i = j
  BY <1>2, <1>4
<1>6. ASSUME NEW r \in Requests, NEW q \in ahead'[r], NEW i \in DOMAIN order', NEW j \in DOMAIN order',
             order'[i] = q, order'[j] = r
      PROVE  i < j
  <2>1. q \in ahead[r] /\ q \in Requests
    BY <1>6 DEF InLine, TicketTypes
  <2>2. \A c, d \in DOMAIN order : order[c] = q /\ order[d] = r => c < d
    BY <2>1 DEF InLine
  <2>3. ~(j < i)
    <3> SUFFICES ASSUME j < i PROVE FALSE OBVIOUS
    <3>1. PICK d \in DOMAIN order, c \in DOMAIN order : d < c /\ order[d] = r /\ order[c] = q
      BY <1>6, <2>1 DEF Keeps
    <3> QED BY <1>3, <2>2, <3>1
  <2>4. i # j
    <3> SUFFICES ASSUME i = j PROVE FALSE OBVIOUS
    <3>1. PICK c \in DOMAIN order : order[c] = q
      BY <1>6, <2>1 DEF Keeps
    <3>2. c < c
      BY <1>6, <2>2, <3>1
    <3> QED BY <1>3, <3>2
  <2> QED BY <1>2, <2>3, <2>4
<1> QED BY <1>5, <1>6 DEF InLine, NoOvertaking

\* The order stays.
LEMMA OrderKept ==
  ASSUME order' = order
  PROVE  Keeps(order', order)
  BY DEF Keeps

LEMMA ThinnedKeeps ==
  ASSUME NEW T, TicketTypes, order' = Without(order, T)
  PROVE  /\ order' \in Seq(Tickets) /\ Keeps(order', order)
         /\ \A a \in DOMAIN order' : order'[a] \notin T
         /\ \A r \in Requests : r \notin T /\ (\E i \in DOMAIN order : order[i] = r) => \E i \in DOMAIN order' : order'[i] = r
<1>1. order \in Seq(Tickets) /\ DOMAIN order = 1 .. Len(order)
  BY DEF TicketTypes
<1>2. Without(order, T) \in Seq(Tickets) /\ Thins(Without(order, T), order, Len(order), T)
  BY <1>1, WithoutThins
<1>3. Thins(order', order, Len(order), T) /\ order' \in Seq(Tickets)
  BY <1>2
<1> DEFINE D == 1 .. Len(order)
<1>10. D = DOMAIN order
  BY <1>1
<1>11. /\ \A a \in DOMAIN order' : order'[a] \notin T /\ \E c \in D : order[c] = order'[a]
       /\ \A a, b \in DOMAIN order' : a < b => \E c, d \in D : c < d /\ order[c] = order'[a] /\ order[d] = order'[b]
       /\ \A c \in D : order[c] \notin T => \E a \in DOMAIN order' : order'[a] = order[c]
  BY <1>3, Zenon DEF Thins
<1> HIDE DEF D
<1>4. /\ \A a \in DOMAIN order' : order'[a] \notin T /\ \E c \in DOMAIN order : order[c] = order'[a]
      /\ \A a, b \in DOMAIN order' : a < b =>
           \E c, d \in DOMAIN order : c < d /\ order[c] = order'[a] /\ order[d] = order'[b]
      /\ \A c \in DOMAIN order : order[c] \notin T => \E a \in DOMAIN order' : order'[a] = order[c]
  BY <1>10, <1>11
<1>5. Keeps(order', order)
  BY <1>4 DEF Keeps
<1>6. \A r \in Requests : r \notin T /\ (\E i \in DOMAIN order : order[i] = r) => \E i \in DOMAIN order' : order'[i] = r
  BY <1>4
<1> QED BY <1>3, <1>4, <1>5, <1>6

\* A request leaves, at a crash or not.
LEMMA LeavesLine ==
  ASSUME InLine, NEW r \in Requests, Leave({r}), Keeps(order', order), order' \in Seq(Tickets),
         \A a \in DOMAIN order' : order'[a] # r,
         \A q \in Requests \ {r} : (\E i \in DOMAIN order : order[i] = q) => \E i \in DOMAIN order' : order'[i] = q
  PROVE  InLine'
<1>1. /\ pc' \in [Requests -> Places] /\ pc'[r] = "idle" /\ \A q \in Requests \ {r} : pc'[q] = pc[q]
      /\ visible' = visible \ {r}
      /\ ahead' \in [Requests -> SUBSET Requests] /\ ahead'[r] = {} /\ \A q \in Requests \ {r} : ahead'[q] = ahead[q] \ {r}
  BY DEF InLine, TicketTypes, Leave, Places
<1>2. TicketTypes'
  BY <1>1 DEF InLine, TicketTypes
<1>3. /\ \A q \in Requests : q \in visible <=> pc[q] \in Showing
      /\ \A i \in DOMAIN order : order[i] \in Requests => pc[order[i]] \in Stamped
      /\ \A q \in Requests : pc[q] \in Stamped => \E i \in DOMAIN order : order[i] = q
      /\ \A q \in Requests : ahead[q] \subseteq visible /\ (ahead[q] # {} => pc[q] \in Stamped)
      /\ \A q \in Requests : pc[q] \in {"admitted", "lane", "started"} => ahead[q] = {}
  BY DEF InLine, NoOvertaking
<1>4. \A q \in Requests : q \in visible' <=> pc'[q] \in Showing
  BY <1>1, <1>3 DEF Showing
<1>5. \A i \in DOMAIN order' : order'[i] \in Requests => pc'[order'[i]] \in Stamped
  <2> SUFFICES ASSUME NEW i \in DOMAIN order', order'[i] \in Requests PROVE pc'[order'[i]] \in Stamped
    OBVIOUS
  <2>1. PICK c \in DOMAIN order : order[c] = order'[i]
    BY DEF Keeps
  <2> QED BY <1>1, <1>3, <2>1
<1>6. \A q \in Requests : pc'[q] \in Stamped => \E i \in DOMAIN order' : order'[i] = q
  BY <1>1, <1>3 DEF Stamped, Showing
<1>7. \A q \in Requests : ahead'[q] \subseteq ahead[q] \cap visible'
  BY <1>1, <1>3
<1>8. \A q \in Requests : ahead'[q] # {} => pc'[q] \in Stamped
  BY <1>1, <1>3
<1>9. \A q \in Requests : pc'[q] \in {"admitted", "lane", "started"} => ahead'[q] = {}
  BY <1>1, <1>3
<1> QED BY <1>2, <1>4, <1>5, <1>6, <1>7, <1>8, <1>9, LineShortens

LEMMA EndLine ==
  ASSUME InLine, NEW r \in Requests, Finish(r) \/ Fail(r) \/ Crash(r)
  PROVE  InLine'
<1>0. TicketTypes /\ Leave({r}) /\ order \in Seq(Tickets) /\ r \in Tickets
  BY DEF InLine, TicketTypes, Finish, Fail, Crash, Tickets
<1>1. CASE Finish(r)
  <2>1. order' = order /\ pc[r] \notin Stamped
    BY <1>1 DEF Finish, Stamped, Showing
  <2>2. \A a \in DOMAIN order' : order'[a] # r
    BY <2>1 DEF InLine
  <2> QED BY <1>0, <2>1, <2>2, OrderKept, LeavesLine
<1>2. CASE order' = Without(order, {r})
  <2>1. \A a \in DOMAIN order' : order'[a] # r
    BY <1>0, <1>2, ThinnedKeeps
  <2>2. \A q \in Requests \ {r} : (\E i \in DOMAIN order : order[i] = q) => \E i \in DOMAIN order' : order'[i] = q
    <3>1. \A q \in Requests \ {r} : q \in Requests /\ q \notin {r}
      OBVIOUS
    <3> QED BY <1>0, <1>2, <3>1, ThinnedKeeps
  <2>3. Keeps(order', order) /\ order' \in Seq(Tickets)
    BY <1>0, <1>2, ThinnedKeeps
  <2> QED BY <1>0, <2>1, <2>2, <2>3, LeavesLine
<1>3. CASE order' = Abandoned({r})
  <2>1. /\ order' \in Seq(Tickets) /\ DOMAIN order' = DOMAIN order
        /\ \A i \in DOMAIN order : order'[i] = IF order[i] = r THEN Stale ELSE order[i]
    BY <1>0, <1>3 DEF Abandoned, Tickets
  <2>2. Stale \notin Requests
    BY LimiterConstants
  <2>3. Keeps(order', order) /\ \A a \in DOMAIN order' : order'[a] # r
    BY <2>1, <2>2 DEF Keeps
  <2>4. \A q \in Requests \ {r} : (\E i \in DOMAIN order : order[i] = q) => \E i \in DOMAIN order' : order'[i] = q
    BY <2>1
  <2> QED BY <1>0, <2>1, <2>3, <2>4, LeavesLine
<1> QED BY <1>1, <1>2, <1>3 DEF Fail, Crash

LEMMA BeginLine ==
  ASSUME InLine, NEW r \in Requests, Begin(r)
  PROVE  InLine'
<1>0. TicketTypes
  BY DEF InLine
<1>1. /\ pc' \in [Requests -> Places] /\ pc[r] = "started" /\ pc'[r] = "active" /\ \A q \in Requests \ {r} : pc'[q] = pc[q]
      /\ visible' = visible \ {r} /\ order' = Without(order, {r})
      /\ ahead' \in [Requests -> SUBSET Requests] /\ \A q \in Requests : ahead'[q] = ahead[q] \ {r}
  BY <1>0 DEF TicketTypes, Begin, Moves, Places
<1>2. /\ \A q \in Requests : q \in visible <=> pc[q] \in Showing
      /\ \A i \in DOMAIN order : order[i] \in Requests => pc[order[i]] \in Stamped
      /\ \A q \in Requests : pc[q] \in Stamped => \E i \in DOMAIN order : order[i] = q
      /\ \A q \in Requests : ahead[q] \subseteq visible /\ (ahead[q] # {} => pc[q] \in Stamped)
      /\ \A q \in Requests : pc[q] \in {"admitted", "lane", "started"} => ahead[q] = {}
  BY DEF InLine, NoOvertaking
<1>3. /\ order' \in Seq(Tickets) /\ Keeps(order', order)
      /\ \A a \in DOMAIN order' : order'[a] \notin {r}
      /\ \A q \in Requests : q \notin {r} /\ (\E i \in DOMAIN order : order[i] = q) => \E i \in DOMAIN order' : order'[i] = q
  BY <1>0, <1>1, ThinnedKeeps
<1>4. TicketTypes'
  BY <1>0, <1>1, <1>3 DEF TicketTypes
<1>5. \A i \in DOMAIN order' : order'[i] \in Requests => pc'[order'[i]] \in Stamped
  <2> SUFFICES ASSUME NEW i \in DOMAIN order', order'[i] \in Requests PROVE pc'[order'[i]] \in Stamped
    OBVIOUS
  <2>1. PICK c \in DOMAIN order : order[c] = order'[i]
    BY <1>3 DEF Keeps
  <2>2. order'[i] # r
    BY <1>3
  <2>3. pc[order[c]] \in Stamped /\ pc'[order'[i]] = pc[order'[i]]
    BY <1>1, <1>2, <2>1, <2>2
  <2> QED BY <2>1, <2>3
<1>6. \A q \in Requests : q \in visible' <=> pc'[q] \in Showing
  BY <1>1, <1>2 DEF Showing
<1>7. \A q \in Requests : pc'[q] \in Stamped => \E i \in DOMAIN order' : order'[i] = q
  BY <1>1, <1>2, <1>3 DEF Stamped, Showing
<1>8. \A q \in Requests : ahead'[q] \subseteq ahead[q] \cap visible'
  BY <1>1, <1>2
<1>9. \A q \in Requests : ahead'[q] # {} => pc'[q] \in Stamped
  BY <1>1, <1>2
<1>10. \A q \in Requests : pc'[q] \in {"admitted", "lane", "started"} => ahead'[q] = {}
  BY <1>1, <1>2
<1> QED BY <1>3, <1>4, <1>5, <1>6, <1>7, <1>8, <1>9, <1>10, LineShortens

LEMMA RebootLine ==
  ASSUME InLine, Reboot
  PROVE  InLine'
<1> DEFINE dead == Abandoned(visible)
<1>0. TicketTypes /\ order \in Seq(Tickets) /\ Leave(Requests) /\ order' = Without(dead, Requests) /\ Stale \notin Requests
  BY LimiterConstants DEF InLine, TicketTypes, Reboot
<1>1. dead \in Seq(Tickets)
  BY <1>0 DEF Abandoned, Tickets
<1>2. order' \in Seq(Tickets) /\ \A a \in DOMAIN order' : order'[a] \notin Requests
  <2> HIDE DEF dead
  <2>1. order' \in Seq(Tickets) /\ Thins(order', dead, Len(dead), Requests)
    BY <1>0, <1>1, WithoutThins
  <2> QED BY <2>1 DEF Thins
<1>3. /\ pc' \in [Requests -> Places] /\ \A r \in Requests : pc'[r] = "idle"
      /\ visible' = {} /\ ahead' \in [Requests -> SUBSET Requests] /\ \A r \in Requests : ahead'[r] = {}
  BY <1>0 DEF Leave, TicketTypes, Places
<1> QED BY <1>2, <1>3 DEF InLine, TicketTypes, NoOvertaking, Stamped, Showing

\* Steps that neither add a ticket nor give one up.
LEMMA PlaceLine ==
  ASSUME InLine, UNCHANGED <<order, visible, ahead>>, NEW r \in Requests, NEW p \in Places,
         pc' = [pc EXCEPT ![r] = p], pc[r] \in Showing <=> p \in Showing, pc[r] \in Stamped <=> p \in Stamped,
         p \in {"admitted", "lane", "started"} => pc[r] \in {"admitted", "lane", "started"}
  PROVE  InLine'
  BY DEF InLine, TicketTypes, NoOvertaking

LEMMA StillLine ==
  ASSUME InLine, UNCHANGED <<order, visible, ahead, pc>>
  PROVE  InLine'
  BY DEF InLine, TicketTypes, NoOvertaking

LEMMA StampLine ==
  ASSUME InLine, NEW r \in Requests, Stamp(r)
  PROVE  InLine'
<1>1. /\ pc' \in [Requests -> Places] /\ pc[r] = "arrived" /\ pc'[r] = "stamped" /\ \A q \in Requests \ {r} : pc'[q] = pc[q]
      /\ visible' = visible /\ r \in Tickets /\ order \in Seq(Tickets)
      /\ ahead' \in [Requests -> SUBSET Requests] /\ ahead'[r] = visible /\ \A q \in Requests \ {r} : ahead'[q] = ahead[q]
  BY DEF InLine, TicketTypes, Stamp, Moves, Places, Tickets
<1>2. /\ order' \in Seq(Tickets) /\ Len(order) \in Nat
      /\ DOMAIN order = 1 .. Len(order) /\ DOMAIN order' = 1 .. Len(order) + 1
      /\ \A i \in 1 .. Len(order) : order'[i] = order[i]
      /\ order'[Len(order) + 1] = r
  <2>1. order' = Append(order, r)
    BY DEF Stamp
  <2>2. /\ order' \in Seq(Tickets) /\ Len(order') = Len(order) + 1
        /\ \A i \in 1 .. Len(order) : order'[i] = order[i]
        /\ order'[Len(order) + 1] = r
    BY <1>1, <2>1, AppendProperties
  <2> QED BY <1>1, <2>2
<1>3. /\ \A q \in Requests : q \in visible <=> pc[q] \in Showing
      /\ \A i \in DOMAIN order : order[i] \in Requests => pc[order[i]] \in Stamped
      /\ \A q \in Requests : pc[q] \in Stamped => \E i \in DOMAIN order : order[i] = q
      /\ \A i, j \in DOMAIN order : order[i] = order[j] /\ order[i] \in Requests => i = j
      /\ \A q \in Requests : ahead[q] \subseteq visible /\ (ahead[q] # {} => pc[q] \in Stamped)
      /\ \A q \in Requests : pc[q] \in {"admitted", "lane", "started"} => ahead[q] = {}
  BY DEF InLine, NoOvertaking
<1>4. \A i \in DOMAIN order' : (i \in DOMAIN order /\ order'[i] = order[i]) \/ (i = Len(order) + 1 /\ order'[i] = r)
  BY <1>2
<1>5. \A i \in DOMAIN order : i \in DOMAIN order' /\ order'[i] = order[i] /\ i < Len(order) + 1 /\ order[i] # r
  BY <1>1, <1>2, <1>3 DEF Stamped, Showing
<1>6. r \notin visible /\ Len(order) + 1 \in DOMAIN order'
  BY <1>1, <1>2, <1>3 DEF Showing
<1>7. \A q \in Requests : q \in visible' <=> pc'[q] \in Showing
  BY <1>1, <1>3 DEF Showing
<1>8. \A i \in DOMAIN order' : order'[i] \in Requests => pc'[order'[i]] \in Stamped
  <2> SUFFICES ASSUME NEW i \in DOMAIN order', order'[i] \in Requests PROVE pc'[order'[i]] \in Stamped
    OBVIOUS
  <2>1. CASE order'[i] = r
    BY <1>1, <2>1 DEF Stamped
  <2>2. CASE order'[i] # r
    <3>1. i \in DOMAIN order /\ order'[i] = order[i]
      BY <1>4, <2>2
    <3> QED BY <1>1, <1>3, <2>2, <3>1
  <2> QED BY <2>1, <2>2
<1>9. \A q \in Requests : pc'[q] \in Stamped => \E i \in DOMAIN order' : order'[i] = q
  <2> SUFFICES ASSUME NEW q \in Requests, pc'[q] \in Stamped PROVE \E i \in DOMAIN order' : order'[i] = q
    OBVIOUS
  <2>1. CASE q = r
    BY <2>1, <1>2, <1>6
  <2>2. CASE q # r
    <3>1. PICK i \in DOMAIN order : order[i] = q
      BY <2>2, <1>1, <1>3
    <3> QED BY <3>1, <1>5
  <2> QED BY <2>1, <2>2
<1>10. \A i, j \in DOMAIN order' : order'[i] = order'[j] /\ order'[i] \in Requests => i = j
  BY <1>3, <1>4, <1>5
<1>11. \A s \in Requests : \A q \in ahead'[s] :
         /\ q \in visible' /\ pc'[s] \in Stamped
         /\ \A i, j \in DOMAIN order' : order'[i] = q /\ order'[j] = s => i < j
  <2> SUFFICES ASSUME NEW s \in Requests, NEW q \in ahead'[s]
               PROVE  /\ q \in visible' /\ pc'[s] \in Stamped
                      /\ \A i, j \in DOMAIN order' : order'[i] = q /\ order'[j] = s => i < j
    OBVIOUS
  <2>1. CASE s = r
    <3>1. q \in visible /\ q # r /\ pc'[s] \in Stamped
      BY <2>1, <1>1, <1>6 DEF Stamped
    <3>2. ASSUME NEW i \in DOMAIN order', NEW j \in DOMAIN order', order'[i] = q, order'[j] = s PROVE i < j
      <4>1. i \in DOMAIN order
        BY <3>1, <3>2, <1>4
      <4>2. j = Len(order) + 1
        BY <2>1, <3>2, <1>4, <1>5
      <4> QED BY <4>1, <4>2, <1>5
    <3> QED BY <1>1, <3>1, <3>2
  <2>2. CASE s # r
    <3>1. q \in ahead[s] /\ pc'[s] = pc[s]
      BY <2>2, <1>1
    <3>2. /\ q \in visible /\ pc[s] \in Stamped
          /\ \A i, j \in DOMAIN order : order[i] = q /\ order[j] = s => i < j
      BY <3>1 DEF InLine
    <3>3. ASSUME NEW i \in DOMAIN order', NEW j \in DOMAIN order', order'[i] = q, order'[j] = s PROVE i < j
      <4>1. i \in DOMAIN order /\ order[i] = q
        BY <3>2, <3>3, <1>4, <1>6
      <4>2. j \in DOMAIN order /\ order[j] = s
        BY <2>2, <3>3, <1>4
      <4> QED BY <3>2, <4>1, <4>2
    <3> QED BY <1>1, <3>1, <3>2, <3>3
  <2> QED BY <2>1, <2>2
<1>12. NoOvertaking'
  BY <1>1, <1>3 DEF NoOvertaking
<1> QED BY <1>1, <1>2, <1>7, <1>8, <1>9, <1>10, <1>11, <1>12 DEF InLine, TicketTypes

LEMMA ShowLine ==
  ASSUME InLine, NEW r \in Requests, Show(r)
  PROVE  InLine'
<1>1. /\ pc' \in [Requests -> Places] /\ pc[r] = "stamped" /\ pc'[r] = "queued" /\ \A q \in Requests \ {r} : pc'[q] = pc[q]
      /\ visible' = visible \cup {r} /\ order' = order /\ ahead' = ahead
  BY DEF InLine, TicketTypes, Show, Moves, Places
<1>2. \A q \in Requests : /\ q \in visible' <=> pc'[q] \in Showing
                          /\ pc'[q] \in Stamped <=> pc[q] \in Stamped
                          /\ pc'[q] \in {"admitted", "lane", "started"} => pc[q] \in {"admitted", "lane", "started"}
  BY <1>1 DEF InLine, Showing, Stamped
<1>3. TicketTypes'
  BY <1>1 DEF InLine, TicketTypes
<1> QED BY <1>1, <1>2, <1>3 DEF InLine, NoOvertaking

\* The ticket of a waiting request is somewhere, and Older are those before it.
LEMMA OlderIs ==
  ASSUME InLine, NEW r \in Requests, pc[r] \in Stamped
  PROVE  \E i \in 1 .. Len(order) : /\ order[i] = r /\ Older(r) = SubSeq(order, 1, i - 1)
                                    /\ Len(Older(r)) = i - 1
                                    /\ \A j \in 1 .. i - 1 : Older(r)[j] = order[j]
<1>1. order \in Seq(Tickets) /\ DOMAIN order = 1 .. Len(order) /\ Len(order) \in Nat
  BY DEF InLine, TicketTypes
<1>2. PICK i \in 1 .. Len(order) : order[i] = r
  BY <1>1 DEF InLine
<1>3. \A j \in 1 .. Len(order) : order[j] = r => j = i
  BY <1>1, <1>2 DEF InLine
<1> DEFINE I == {j \in 1 .. Len(order) : order[j] = r}
<1>4. Older(r) = SubSeq(order, 1, (IF I # {} THEN Min(I) ELSE 0) - 1)
  BY Zenon DEF Older, SelectInSeq
<1>5. Older(r) = SubSeq(order, 1, i - 1)
  <2>1. I = {i}
    BY <1>2, <1>3
  <2> HIDE DEF I
  <2>2. Min(I) = i
    BY <2>1, <1>1 DEF Min
  <2> QED BY <1>4, <2>1, <2>2
<1>6. /\ Len(SubSeq(order, 1, i - 1)) = i - 1
      /\ \A j \in 1 .. i - 1 : SubSeq(order, 1, i - 1)[j] = order[j]
  BY <1>1, <1>2, SubSeqProperties
<1> QED BY <1>2, <1>5, <1>6

LEMMA PartsOf ==
  ASSUME NEW S, NEW s \in Seq(S), NEW n \in 0 .. Len(s)
  PROVE  /\ Len(s) \in Nat /\ DOMAIN s = 1 .. Len(s) /\ n \in Nat /\ n <= Len(s)
         /\ SubSeq(s, 1, n) \in Seq(S) /\ Len(SubSeq(s, 1, n)) = n
         /\ \A j \in 1 .. n : SubSeq(s, 1, n)[j] = s[j]
         /\ SubSeq(s, n + 1, Len(s)) \in Seq(S) /\ Len(SubSeq(s, n + 1, Len(s))) = Len(s) - n
         /\ \A j \in 1 .. Len(s) - n : SubSeq(s, n + 1, Len(s))[j] = s[n + j]
<1>1. Len(s) \in Nat /\ DOMAIN s = 1 .. Len(s) /\ n \in Nat /\ n <= Len(s)
  OBVIOUS
<1>2. (\A j \in 1 .. n : s[j] \in S) /\ \A j \in n + 1 .. Len(s) : s[j] \in S
  BY <1>1
<1>3. /\ SubSeq(s, 1, n) \in Seq(S) /\ Len(SubSeq(s, 1, n)) = (IF 1 <= n THEN n - 1 + 1 ELSE 0)
      /\ \A j \in 1 .. n - 1 + 1 : SubSeq(s, 1, n)[j] = s[1 + j - 1]
  BY <1>1, <1>2, SubSeqProperties
<1>4. /\ SubSeq(s, n + 1, Len(s)) \in Seq(S)
      /\ Len(SubSeq(s, n + 1, Len(s))) = (IF n + 1 <= Len(s) THEN Len(s) - (n + 1) + 1 ELSE 0)
      /\ \A j \in 1 .. Len(s) - (n + 1) + 1 : SubSeq(s, n + 1, Len(s))[j] = s[n + 1 + j - 1]
  BY <1>1, <1>2, SubSeqProperties
<1>5. n - 1 + 1 = n /\ Len(s) - (n + 1) + 1 = Len(s) - n
  BY <1>1
<1>7. (IF 1 <= n THEN n - 1 + 1 ELSE 0) = n
  BY <1>1
<1>8. (IF n + 1 <= Len(s) THEN Len(s) - (n + 1) + 1 ELSE 0) = Len(s) - n
  <2>1. \A a, b \in Nat : b <= a => (IF b + 1 <= a THEN a - (b + 1) + 1 ELSE 0) = a - b
    OBVIOUS
  <2> QED BY <1>1, <2>1, Zenon
<1>6. (\A j \in 1 .. n : 1 + j - 1 = j) /\ \A j \in 1 .. Len(s) - n : n + 1 + j - 1 = n + j
  BY <1>1
<1> QED BY <1>1, <1>3, <1>4, <1>5, <1>6, <1>7, <1>8

LEMMA JoinedIs ==
  ASSUME NEW S, NEW p \in Seq(S), NEW r \in Seq(S), NEW q, q = p \o r
  PROVE  /\ q \in Seq(S) /\ Len(p) \in Nat /\ Len(r) \in Nat /\ DOMAIN p = 1 .. Len(p)
         /\ DOMAIN q = 1 .. Len(p) + Len(r)
         /\ \A a \in 1 .. Len(p) : q[a] = p[a]
         /\ \A b \in 1 .. Len(r) : q[Len(p) + b] = r[b]
<1>1. /\ q \in Seq(S) /\ Len(q) = Len(p) + Len(r)
      /\ \A i \in 1 .. Len(p) + Len(r) : q[i] = IF i <= Len(p) THEN p[i] ELSE r[i - Len(p)]
  BY ConcatProperties
<1>2. Len(p) \in Nat /\ Len(r) \in Nat /\ DOMAIN p = 1 .. Len(p)
  OBVIOUS
<1>3. DOMAIN q = 1 .. Len(q)
  <2>1. q \in Seq(S)
    BY <1>1
  <2> QED BY <2>1
<1>4. /\ \A a \in 1 .. Len(p) : a \in 1 .. Len(p) + Len(r) /\ a <= Len(p)
      /\ \A b \in 1 .. Len(r) : /\ Len(p) + b \in 1 .. Len(p) + Len(r) /\ ~(Len(p) + b <= Len(p))
                                /\ Len(p) + b - Len(p) = b
  BY <1>2
<1>5. /\ \A a \in 1 .. Len(p) : q[a] = p[a]
      /\ \A b \in 1 .. Len(r) : q[Len(p) + b] = r[b]
  BY <1>1, <1>4
<1> QED BY <1>1, <1>2, <1>3, <1>5

\* q has only elements of s, in their order, and all that are not in T.
PartOf(q, s, T) ==
  /\ \A a \in DOMAIN q : \E c \in DOMAIN s : s[c] = q[a]
  /\ \A a, b \in DOMAIN q : a < b => \E c, d \in DOMAIN s : c < d /\ s[c] = q[a] /\ s[d] = q[b]
  /\ \A c \in DOMAIN s : s[c] \notin T => \E a \in DOMAIN q : q[a] = s[c]

\* The first n tickets lose those in T, the others stay.
LEMMA PrefixThins ==
  ASSUME NEW S, NEW s \in Seq(S), NEW n \in 0 .. Len(s), NEW T,
         NEW q, q = Without(SubSeq(s, 1, n), T) \o SubSeq(s, n + 1, Len(s))
  PROVE  q \in Seq(S) /\ PartOf(q, s, T)
<1> DEFINE old == SubSeq(s, 1, n)
           p == Without(old, T)
           r == SubSeq(s, n + 1, Len(s))
           k == Len(p)
           m == Len(s) - n
<1>1. /\ Len(s) \in Nat /\ DOMAIN s = 1 .. Len(s) /\ n \in Nat /\ n <= Len(s)
      /\ old \in Seq(S) /\ Len(old) = n /\ \A j \in 1 .. n : old[j] = s[j]
      /\ r \in Seq(S) /\ Len(r) = m /\ \A j \in 1 .. m : r[j] = s[n + j]
  BY PartsOf
<1>2. q = p \o r
  OBVIOUS
<1> HIDE DEF old, r
<1>3. p \in Seq(S) /\ Thins(p, old, n, T)
  BY <1>1, WithoutThins
<1> HIDE DEF p
<1>4. /\ q \in Seq(S) /\ k \in Nat /\ DOMAIN p = 1 .. k /\ DOMAIN q = 1 .. k + Len(r)
      /\ \A a \in 1 .. k : q[a] = p[a]
      /\ \A b \in 1 .. Len(r) : q[k + b] = r[b]
  <2>1. /\ q \in Seq(S) /\ Len(p) \in Nat /\ DOMAIN p = 1 .. Len(p) /\ DOMAIN q = 1 .. Len(p) + Len(r)
        /\ \A a \in 1 .. Len(p) : q[a] = p[a]
        /\ \A b \in 1 .. Len(r) : q[Len(p) + b] = r[b]
    <3>1. p \in Seq(S) /\ r \in Seq(S)
      BY <1>1, <1>3
    <3>2. \A x : x = p \o r =>
            /\ x \in Seq(S) /\ Len(p) \in Nat /\ DOMAIN p = 1 .. Len(p) /\ DOMAIN x = 1 .. Len(p) + Len(r)
            /\ \A a \in 1 .. Len(p) : x[a] = p[a]
            /\ \A b \in 1 .. Len(r) : x[Len(p) + b] = r[b]
      BY <3>1, JoinedIs
    <3> QED BY <1>2, <3>2, Zenon
  <2> QED BY <2>1
<1>5. /\ \A a \in 1 .. k : \E c \in 1 .. n : s[c] = p[a]
      /\ \A a, b \in 1 .. k : a < b => \E c, d \in 1 .. n : c < d /\ s[c] = p[a] /\ s[d] = p[b]
      /\ \A c \in 1 .. n : s[c] \notin T => \E a \in 1 .. k : p[a] = s[c]
  <2> DEFINE D == 1 .. k
             N == 1 .. n
  <2>1. DOMAIN p = D /\ \A j \in N : old[j] = s[j]
    BY <1>1, <1>4
  <2> HIDE DEF D
  <2>2. /\ \A a \in D : \E c \in N : old[c] = p[a]
        /\ \A a, b \in D : a < b => \E c, d \in N : c < d /\ old[c] = p[a] /\ old[d] = p[b]
        /\ \A c \in N : old[c] \notin T => \E a \in D : p[a] = old[c]
    BY <1>3, <2>1 DEF Thins
  <2> HIDE DEF N
  <2>3. \A j \in N : old[j] = s[j]
    BY <2>1
  <2>4. \A a \in D : \E c \in N : s[c] = p[a]
    BY <2>2, <2>3
  <2>5. ASSUME NEW a \in D, NEW b \in D, a < b PROVE \E c, d \in N : c < d /\ s[c] = p[a] /\ s[d] = p[b]
    <3>1. PICK c \in N, d \in N : c < d /\ old[c] = p[a] /\ old[d] = p[b]
      BY <2>2, <2>5
    <3> QED BY <2>3, <3>1
  <2>6. ASSUME NEW c \in N, s[c] \notin T PROVE \E a \in D : p[a] = s[c]
    BY <2>2, <2>3, <2>6
  <2> QED BY <2>4, <2>5, <2>6 DEF D, N
<1>6. m \in Nat /\ Len(r) = m
  BY <1>1
<1> HIDE DEF k, m
<1>7. \A a \in 1 .. k + m : a \in 1 .. k \/ \E b \in 1 .. m : a = k + b
  <2> SUFFICES ASSUME NEW a \in 1 .. k + m, a \notin 1 .. k PROVE a - k \in 1 .. m /\ a = k + (a - k)
    OBVIOUS
  <2> QED BY <1>4, <1>6
<1>13. \A a \in 1 .. k : q[a] = p[a]
  BY <1>4
<1>8. /\ \A c \in 1 .. n : c \in DOMAIN s
      /\ \A b \in 1 .. m : n + b \in DOMAIN s /\ k + b \in DOMAIN q /\ q[k + b] = s[n + b]
      /\ \A a \in 1 .. k : a \in DOMAIN q
  <2>1. DOMAIN q = 1 .. k + m /\ \A b \in 1 .. m : q[k + b] = s[n + b]
    BY <1>1, <1>4, <1>6
  <2>2. \A b \in 1 .. m : n + b \in 1 .. Len(s) /\ k + b \in 1 .. k + m
    BY <1>1, <1>4, <1>6 DEF m
  <2>3. (\A c \in 1 .. n : c \in 1 .. Len(s)) /\ \A a \in 1 .. k : a \in 1 .. k + m
    BY <1>1, <1>4, <1>6
  <2> QED BY <1>1, <2>1, <2>2, <2>3
<1>9. \A a \in DOMAIN q : a \in 1 .. k \/ \E b \in 1 .. m : a = k + b
  BY <1>4, <1>6, <1>7
<1>10. \A a \in DOMAIN q : \E c \in DOMAIN s : s[c] = q[a]
  <2> SUFFICES ASSUME NEW a \in DOMAIN q PROVE \E c \in DOMAIN s : s[c] = q[a]
    OBVIOUS
  <2>1. CASE a \in 1 .. k
    <3>1. PICK c \in 1 .. n : s[c] = p[a]
      BY <1>5, <2>1
    <3> QED BY <1>8, <1>13, <2>1, <3>1
  <2>2. CASE \E b \in 1 .. m : a = k + b
    BY <1>8, <2>2
  <2> QED BY <1>9, <2>1, <2>2
<1>11. ASSUME NEW a \in DOMAIN q, NEW b \in DOMAIN q, a < b
       PROVE  \E c, d \in DOMAIN s : c < d /\ s[c] = q[a] /\ s[d] = q[b]
  <2>1. CASE b \in 1 .. k
    <3>1. a \in 1 .. k
      <4>1. ASSUME NEW x \in 1 .. m, a = k + x PROVE FALSE
        BY <1>4, <1>6, <1>11, <2>1, <4>1
      <4> QED BY <1>9, <4>1
    <3>2. PICK c \in 1 .. n, d \in 1 .. n : c < d /\ s[c] = p[a] /\ s[d] = p[b]
      BY <1>5, <1>11, <2>1, <3>1
    <3> QED BY <1>4, <1>8, <2>1, <3>1, <3>2
  <2>2. ASSUME NEW y \in 1 .. m, b = k + y PROVE \E c, d \in DOMAIN s : c < d /\ s[c] = q[a] /\ s[d] = q[b]
    <3>1. n + y \in DOMAIN s /\ s[n + y] = q[b]
      BY <1>8, <2>2
    <3>2. CASE a \in 1 .. k
      <4>1. PICK c \in 1 .. n : s[c] = p[a]
        BY <1>5, <3>2
      <4>2. c \in DOMAIN s /\ s[c] = q[a]
        BY <1>8, <1>13, <3>2, <4>1
      <4>3. c < n + y
        BY <1>1, <1>6
      <4> QED BY <3>1, <4>2, <4>3
    <3>3. ASSUME NEW x \in 1 .. m, a = k + x PROVE \E c, d \in DOMAIN s : c < d /\ s[c] = q[a] /\ s[d] = q[b]
      <4>1. n + x < n + y
        BY <1>1, <1>4, <1>6, <1>11, <2>2, <3>3
      <4>2. n + x \in DOMAIN s /\ s[n + x] = q[a]
        BY <1>8, <3>3
      <4> QED BY <3>1, <4>1, <4>2
    <3> QED BY <1>9, <3>2, <3>3
  <2> QED BY <1>9, <2>1, <2>2
<1>12. ASSUME NEW c \in DOMAIN s, s[c] \notin T PROVE \E a \in DOMAIN q : q[a] = s[c]
  <2>1. CASE c \in 1 .. n
    <3>1. PICK a \in 1 .. k : p[a] = s[c]
      BY <1>5, <1>12, <2>1
    <3> QED BY <1>8, <1>13, <3>1
  <2>2. CASE c \notin 1 .. n
    <3>1. c - n \in 1 .. m /\ n + (c - n) = c
      BY <1>1, <2>2 DEF m
    <3> QED BY <1>8, <3>1
  <2> QED BY <2>1, <2>2
<1> QED BY <1>4, <1>10, <1>11, <1>12 DEF PartOf

LEMMA PrefixKeeps ==
  ASSUME InLine, NEW n \in 0 .. Len(order),
         order' = Without(SubSeq(order, 1, n), {Stale}) \o SubSeq(order, n + 1, Len(order))
  PROVE  /\ order' \in Seq(Tickets) /\ Keeps(order', order)
         /\ \A r \in Requests : (\E i \in DOMAIN order : order[i] = r) => \E i \in DOMAIN order' : order'[i] = r
<1>1. order \in Seq(Tickets) /\ \A r \in Requests : r \notin {Stale}
  BY LimiterConstants DEF InLine, TicketTypes
<1>5. \A q : q = Without(SubSeq(order, 1, n), {Stale}) \o SubSeq(order, n + 1, Len(order)) =>
        q \in Seq(Tickets) /\ PartOf(q, order, {Stale})
  BY <1>1, PrefixThins
<1>6. order' \in Seq(Tickets) /\ PartOf(order', order, {Stale})
  BY <1>5
<1>2. /\ order' \in Seq(Tickets)
      /\ \A a \in DOMAIN order' : \E c \in DOMAIN order : order[c] = order'[a]
      /\ \A a, b \in DOMAIN order' : a < b =>
           \E c, d \in DOMAIN order : c < d /\ order[c] = order'[a] /\ order[d] = order'[b]
      /\ \A c \in DOMAIN order : order[c] \notin {Stale} => \E a \in DOMAIN order' : order'[a] = order[c]
  BY <1>6 DEF PartOf
<1>3. Keeps(order', order)
  BY <1>2 DEF Keeps
<1>4. ASSUME NEW r \in Requests, NEW i \in DOMAIN order, order[i] = r PROVE \E a \in DOMAIN order' : order'[a] = r
  <2>1. order[i] \notin {Stale}
    BY <1>1, <1>4
  <2> QED BY <1>2, <1>4, <2>1
<1> QED BY <1>2, <1>3, <1>4

LEMMA LookLine ==
  ASSUME InLine, NEW r \in Requests, Look(r)
  PROVE  InLine'
<1> DEFINE n == IF Blocking(r) = {} THEN Len(Older(r)) ELSE Min(Blocking(r))
<1>1. /\ pc[r] = "queued" /\ r \in visible /\ UNCHANGED <<visible, ahead>>
      /\ order' = Without(SubSeq(order, 1, n), {Stale}) \o SubSeq(order, n + 1, Len(order))
      /\ pc' = IF Blocking(r) = {} THEN [pc EXCEPT ![r] = "admitted"] ELSE pc
  BY DEF Look, InLine, Showing
<1>2. PICK i \in 1 .. Len(order) : /\ order[i] = r /\ Len(Older(r)) = i - 1
                                   /\ \A j \in 1 .. i - 1 : Older(r)[j] = order[j]
  BY <1>1, OlderIs DEF Stamped, Showing
<1>3. order \in Seq(Tickets) /\ DOMAIN order = 1 .. Len(order) /\ Len(order) \in Nat
  BY DEF InLine, TicketTypes
<1>4. n \in 0 .. Len(order)
  <2>1. CASE Blocking(r) = {}
    BY <1>2, <1>3, <2>1
  <2>2. CASE Blocking(r) # {}
    <3>1. Blocking(r) \subseteq 1 .. i - 1
      BY <1>2 DEF Blocking
    <3>2. Min(Blocking(r)) \in Blocking(r)
      <4> DEFINE B == Blocking(r)
      <4>1. B \in SUBSET Nat /\ B # {}
        BY <1>3, <2>2, <3>1
      <4> HIDE DEF B
      <4>2. PICK m \in B : \A k \in B : ~(<<k, m>> \in OpToRel(<, Nat))
        BY <4>1, NatLessThanWellFounded, WFMin
      <4>3. \A k \in B : m <= k
        <5>1. \A k \in B : ~(k < m)
          BY <4>1, <4>2 DEF OpToRel
        <5> QED BY <4>1, <5>1
      <4>4. Min(B) \in B
        BY <4>3 DEF Min
      <4> QED BY <4>4 DEF B
    <3> QED BY <1>3, <2>2, <3>1, <3>2
  <2> QED BY <2>1, <2>2
<1> HIDE DEF n
<1>5. /\ order' \in Seq(Tickets) /\ Keeps(order', order)
      /\ \A q \in Requests : (\E j \in DOMAIN order : order[j] = q) => \E j \in DOMAIN order' : order'[j] = q
  BY <1>1, <1>4, PrefixKeeps
<1>6. Blocking(r) = {} => ahead[r] = {}
  <2> SUFFICES ASSUME Blocking(r) = {}, NEW q \in ahead[r] PROVE FALSE
    OBVIOUS
  <2>1. q \in visible /\ q \in Requests /\ \A a, b \in DOMAIN order : order[a] = q /\ order[b] = r => a < b
    BY DEF InLine, TicketTypes
  <2>2. PICK a \in DOMAIN order : order[a] = q
    BY <2>1 DEF InLine, Stamped
  <2>3. a < i
    BY <1>2, <1>3, <2>1, <2>2
  <2>4. a \in 1 .. i - 1
    BY <1>2, <1>3, <2>3
  <2>5. a \in Blocking(r)
    BY <1>2, <2>1, <2>2, <2>4 DEF Blocking
  <2> QED BY <2>5
<1>7. /\ pc' \in [Requests -> Places]
      /\ \A q \in Requests : /\ pc'[q] \in Showing <=> pc[q] \in Showing
                             /\ pc'[q] \in Stamped <=> pc[q] \in Stamped
                             /\ pc'[q] # pc[q] => q = r /\ ahead[r] = {}
  <2>1. CASE Blocking(r) = {}
    BY <1>1, <1>6, <2>1 DEF InLine, TicketTypes, Places, Showing, Stamped
  <2>2. CASE Blocking(r) # {}
    BY <1>1, <2>2 DEF InLine, TicketTypes
  <2> QED BY <2>1, <2>2
<1>8. /\ \A q \in Requests : q \in visible <=> pc[q] \in Showing
      /\ \A j \in DOMAIN order : order[j] \in Requests => pc[order[j]] \in Stamped
      /\ \A q \in Requests : pc[q] \in Stamped => \E j \in DOMAIN order : order[j] = q
      /\ \A q \in Requests : ahead[q] \subseteq visible /\ (ahead[q] # {} => pc[q] \in Stamped)
      /\ \A q \in Requests : pc[q] \in {"admitted", "lane", "started"} => ahead[q] = {}
  BY DEF InLine, NoOvertaking
<1>9. \A j \in DOMAIN order' : order'[j] \in Requests => pc'[order'[j]] \in Stamped
  <2> SUFFICES ASSUME NEW j \in DOMAIN order', order'[j] \in Requests PROVE pc'[order'[j]] \in Stamped
    OBVIOUS
  <2>1. PICK c \in DOMAIN order : order[c] = order'[j]
    BY <1>5 DEF Keeps
  <2>2. pc[order[c]] \in Stamped
    BY <1>8, <2>1
  <2> QED BY <1>7, <2>1, <2>2
<1>10. \A q \in Requests : pc'[q] \in Stamped => \E j \in DOMAIN order' : order'[j] = q
  BY <1>5, <1>7, <1>8
<1>11. TicketTypes'
  BY <1>1, <1>5, <1>7 DEF InLine, TicketTypes
<1>12. /\ \A q \in Requests : q \in visible' <=> pc'[q] \in Showing
       /\ \A q \in Requests : ahead'[q] \subseteq ahead[q] \cap visible'
       /\ \A q \in Requests : ahead'[q] # {} => pc'[q] \in Stamped
       /\ \A q \in Requests : pc'[q] \in {"admitted", "lane", "started"} => ahead'[q] = {}
  BY <1>1, <1>7, <1>8
<1> QED BY <1>5, <1>9, <1>10, <1>11, <1>12, LineShortens

LEMMA NextLine == InLine /\ [Next]_vars => InLine'
<1> SUFFICES ASSUME InLine, [Next]_vars PROVE InLine'
  OBVIOUS
<1>0. \A r \in Requests : pc[r] \in Places
  BY DEF InLine, TicketTypes
<1>1. CASE UNCHANGED vars
  BY <1>1, StillLine DEF vars, tickets
<1>2. ASSUME NEW r \in Requests, Arrive(r) \/ AskedToWait(r) \/ Peek(r) \/ TakeLane(r) \/ Start(r) \/ Defer(r)
      PROVE  InLine'
  <2>1. /\ UNCHANGED <<order, visible, ahead>>
        /\ \/ Moves(r, "idle", "peek") \/ Moves(r, "active", "defer") \/ Moves(r, "peek", "arrived")
           \/ Moves(r, "admitted", "lane") \/ Moves(r, "lane", "started") \/ Moves(r, "defer", "answered")
    BY <1>2 DEF Arrive, AskedToWait, Peek, TakeLane, Start, Defer, tickets
  <2>2. ASSUME NEW a \in Places, NEW b \in Places, Moves(r, a, b), a \in Showing <=> b \in Showing,
               a \in Stamped <=> b \in Stamped,
               b \in {"admitted", "lane", "started"} => a \in {"admitted", "lane", "started"}
        PROVE  InLine'
    BY <2>1, <2>2, PlaceLine DEF Moves
  <2> QED BY <2>1, <2>2 DEF Places, Showing, Stamped
<1>3. ASSUME NEW r \in Requests, Load(r) \/ Fresh(r) \/ Postpone(r)
      PROVE  InLine'
  <2>1. UNCHANGED <<order, visible, ahead, pc>>
    BY <1>3 DEF Load, Fresh, Postpone, tickets
  <2> QED BY <2>1, StillLine
<1>4. CASE Tick \/ UptimeCatchesUp \/ SetWallClock \/ Damage
  <2>1. UNCHANGED <<order, visible, ahead, pc>>
    BY <1>4 DEF Tick, UptimeCatchesUp, SetWallClock, Damage, tickets
  <2> QED BY <2>1, StillLine
<1>5. ASSUME NEW r \in Requests, Stamp(r) \/ Show(r) \/ Look(r) \/ Begin(r) \/ Finish(r) \/ Fail(r) \/ Crash(r)
      PROVE  InLine'
  BY <1>5, StampLine, ShowLine, LookLine, BeginLine, EndLine
<1> QED BY <1>1, <1>2, <1>3, <1>4, <1>5, RebootLine DEF Next, Step, Machine

LEMMA LineInit == Init => InLine
<1> SUFFICES ASSUME Init PROVE InLine
  OBVIOUS
<1>1. order = <<>> /\ DOMAIN order = {} /\ order \in Seq(Tickets)
  BY DEF Init
<1> QED BY <1>1 DEF Init, InLine, TicketTypes, NoOvertaking, Places, Showing, Stamped

\* For any number of requests that come, fail, die with their tickets or start,
\* none starts before one whose ticket was visible when it took its own.
THEOREM NobodyOvertakes == Spec => []NoOvertaking
<1>1. InLine => NoOvertaking
  BY DEF InLine
<1> QED BY <1>1, LineInit, NextLine, PTL DEF Spec

-----------------------------------------------------------------------------
\* The other variables

OtherTypes ==
  /\ PacingType /\ StateType
  /\ left \in [Requests -> Nat] /\ seen \in [Requests -> Nat]
  /\ mutex \in Requests \cup {None} /\ damages \in Nat /\ faults \in Nat

LEMMA SavesTypes ==
  ASSUME NEW t \in 0 .. Longest, Saves(t)
  PROVE  StateType'
<1>1. Longest \in Nat
  BY LimiterConstants DEF Longest
<1> QED BY <1>1, LimiterConstants DEF Saves, StateType, Larger

LEMMA LeaveTypes ==
  ASSUME OtherTypes, NEW R \in SUBSET Requests, Leave(R)
  PROVE  /\ left' \in [Requests -> Nat] /\ seen' \in [Requests -> Nat] /\ mutex' \in Requests \cup {None}
         /\ PacingType'
  BY DEF OtherTypes, Leave, PacingType, pacing

LEMMA NextOther == OtherTypes /\ [Next]_vars => OtherTypes'
<1> SUFFICES ASSUME OtherTypes, [Next]_vars PROVE OtherTypes'
  OBVIOUS
<1> USE LimiterConstants
<1>1. CASE UNCHANGED <<saved, since, cool, left, seen, mutex, bounds>>
  BY <1>1 DEF OtherTypes, PacingType, StateType, saved, bounds
<1>2. ASSUME NEW r \in Requests, AskedToWait(r) \/ Stamp(r) \/ Show(r) \/ Look(r) \/ TakeLane(r) \/ Begin(r)
      PROVE  OtherTypes'
  <2>1. UNCHANGED <<saved, since, cool, left, seen, mutex, bounds>>
    BY <1>2 DEF AskedToWait, Stamp, Show, Look, TakeLane, Begin, pacing
  <2> QED BY <1>1, <2>1
<1>3. ASSUME NEW r \in Requests, Arrive(r)
      PROVE  OtherTypes'
  BY <1>3 DEF Arrive, OtherTypes, PacingType, StateType, saved, bounds, pacing
<1>4. ASSUME NEW r \in Requests, Load(r)
      PROVE  OtherTypes'
  <2>1. Aside \in Nat /\ Remaining \in Nat
    BY DEF Aside, Remaining, Larger, OtherTypes, StateType
  <2>2. seen' \in [Requests -> Nat] /\ mutex' = r /\ UNCHANGED <<left, wall, mono, span, bounds, pacing>>
    BY <1>4, <2>1 DEF Load, OtherTypes
  <2>3. file' \in {"missing", "ok", "damaged"}
    BY <1>4 DEF Load, OtherTypes, StateType
  <2> QED BY <2>2, <2>3 DEF OtherTypes, PacingType, StateType, bounds, pacing
<1>5. ASSUME NEW r \in Requests, Fresh(r)
      PROVE  OtherTypes'
  <2>1. StateType'
    <3>1. Interval \in 0 .. Longest /\ Saves(Interval)
      BY <1>5 DEF Fresh, Longest
    <3> QED BY <3>1, SavesTypes
  <2>2. seen' \in [Requests -> Nat] /\ UNCHANGED <<left, mutex, bounds, pacing>>
    BY <1>5 DEF Fresh, OtherTypes
  <2> QED BY <2>1, <2>2 DEF OtherTypes, PacingType, bounds, pacing
<1>6. ASSUME NEW r \in Requests, Peek(r)
      PROVE  OtherTypes'
  BY <1>6 DEF Peek, Decides, Forgets, OtherTypes, PacingType, StateType, saved, bounds, pacing
<1>7. ASSUME NEW r \in Requests, Start(r)
      PROVE  OtherTypes'
  <2>1. StateType'
    <3>1. Interval \in 0 .. Longest /\ Saves(Interval)
      BY <1>7 DEF Start, Longest
    <3> QED BY <3>1, SavesTypes
  <2> QED BY <1>7, <2>1 DEF Start, Decides, OtherTypes, PacingType, bounds
<1>8. ASSUME NEW r \in Requests, Postpone(r)
      PROVE  OtherTypes'
  <2>1. StateType'
    <3>1. CASE UNCHANGED saved
      BY <3>1 DEF OtherTypes, StateType, saved
    <3>2. CASE Saves(Clamped(seen[r]))
      <4>1. Clamped(seen[r]) \in 0 .. Longest
        BY DEF OtherTypes, Clamped, Smaller, Longest
      <4> QED BY <3>2, <4>1, SavesTypes
    <3> QED BY <1>8, <3>1, <3>2 DEF Postpone
  <2>2. seen' \in [Requests -> Nat] /\ mutex' = None /\ UNCHANGED <<left, bounds, pacing>>
    BY <1>8 DEF Postpone, Decides, Forgets, OtherTypes
  <2> QED BY <2>1, <2>2 DEF OtherTypes, PacingType, bounds, pacing
<1>9. ASSUME NEW r \in Requests, Defer(r)
      PROVE  OtherTypes'
  <2>1. PICK t \in Asked : Saves(Delay(t, seen[r])) /\ cool' = Larger(cool, Smaller(t, MaxCooldown))
    BY <1>9 DEF Defer
  <2>2. StateType'
    <3>1. Delay(t, seen[r]) \in 0 .. Longest
      BY DEF OtherTypes, Delay, Larger, Smaller, Longest
    <3> QED BY <2>1, <3>1, SavesTypes
  <2>3. cool' \in 0 .. MaxCooldown /\ since' = since
    BY <1>9, <2>1 DEF Defer, OtherTypes, PacingType, Larger, Smaller
  <2>4. seen' \in [Requests -> Nat] /\ mutex' = None /\ UNCHANGED <<left, bounds>>
    BY <1>9 DEF Defer, Decides, Forgets, OtherTypes
  <2> QED BY <2>2, <2>3, <2>4 DEF OtherTypes, PacingType, bounds
<1>10. ASSUME NEW r \in Requests, Finish(r) \/ Fail(r) \/ Crash(r)
       PROVE  OtherTypes'
  <2>1. Leave({r}) /\ UNCHANGED <<saved, damages>> /\ faults' \in {faults, faults + 1}
    BY <1>10 DEF Finish, Fail, Crash, bounds
  <2>2. {r} \in SUBSET Requests
    OBVIOUS
  <2>3. StateType'
    BY <2>1 DEF OtherTypes, StateType, saved
  <2> QED BY <2>1, <2>2, <2>3, LeaveTypes DEF OtherTypes
<1>11. CASE Reboot
  <2>1. Leave(Requests) /\ faults' = faults + 1 /\ mono' = 0 /\ span' = Larger(span, mono) /\ UNCHANGED <<file, wall, damages>>
    BY <1>11 DEF Reboot
  <2>2. StateType'
    BY <2>1 DEF OtherTypes, StateType, Larger, Longest
  <2>3. Requests \in SUBSET Requests
    OBVIOUS
  <2> QED BY <2>1, <2>2, <2>3, LeaveTypes DEF OtherTypes
<1>12. CASE Tick
  <2>1. left' \in [Requests -> Nat]
    BY <1>12 DEF Tick, Countdown, OtherTypes
  <2>2. since' \in 0 .. Interval /\ cool' \in 0 .. MaxCooldown
    BY <1>12 DEF Tick, Countdown, Smaller, OtherTypes, PacingType
  <2>3. StateType'
    BY <1>12 DEF Tick, Countdown, Larger, Longest, OtherTypes, StateType
  <2>4. UNCHANGED <<seen, mutex, bounds>>
    BY <1>12 DEF Tick
  <2> QED BY <2>1, <2>2, <2>3, <2>4 DEF OtherTypes, PacingType, bounds
<1>13. CASE UptimeCatchesUp \/ SetWallClock \/ Damage
  <2>1. UNCHANGED <<left, seen, mutex, since>> /\ cool' \in {0, cool}
    BY <1>13 DEF UptimeCatchesUp, SetWallClock, Damage, pacing
  <2>2. StateType'
    BY <1>13 DEF UptimeCatchesUp, SetWallClock, Damage, OtherTypes, StateType, Larger, Longest
  <2>3. damages' \in Nat /\ faults' \in Nat
    BY <1>13 DEF UptimeCatchesUp, SetWallClock, Damage, OtherTypes, bounds
  <2> QED BY <2>1, <2>2, <2>3 DEF OtherTypes, PacingType
<1>14. CASE UNCHANGED vars
  BY <1>1, <1>14 DEF vars, pacing
<1> QED
  BY <1>2, <1>3, <1>4, <1>5, <1>6, <1>7, <1>8, <1>9, <1>10, <1>11, <1>12, <1>13, <1>14 DEF Next, Step, Machine

\* Every variable of the limiter has its type, whatever the clocks do.
THEOREM LimiterTypes == Spec => []TypeOK
<1>1. Init => OtherTypes
  BY LimiterConstants DEF Init, OtherTypes, PacingType, StateType, Larger, Longest, None
<1>2. OtherTypes /\ InLine => TypeOK
  BY DEF OtherTypes, InLine, TicketTypes, TypeOK, Tickets
<1>3. Spec => []InLine
  BY LineInit, NextLine, PTL DEF Spec
<1> QED BY <1>1, <1>2, <1>3, NextOther, PTL DEF Spec
=============================================================================
