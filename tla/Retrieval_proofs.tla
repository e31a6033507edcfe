-------------------------- MODULE Retrieval_proofs --------------------------
(***************************************************************************)
(* The retrieval of one job, in two halves that share nothing: the server  *)
(* that takes its calls (Broker), and what their requests find (Archive).  *)
(***************************************************************************)
EXTENDS Broker, Archive, FiniteSetTheorems, SequenceTheorems, WellFoundedInduction, TLAPS

-----------------------------------------------------------------------------
(***************************************************************************)
(* The places of the workers of Broker, and the answers to its calls, for  *)
(* any number of calls.                                                    *)
(*                                                                         *)
(* A worker has a place from its start to its exit: whoever answers its    *)
(* call, cancels it or closes the server leaves _active alone, and a new   *)
(* worker starts only into a free place or into the one its predecessor    *)
(* gives up in the same step.                                              *)
(*                                                                         *)
(* A call that was answered is marked before anyone else looks at it, and  *)
(* calls that wait or run were sent: who finds one unmarked answers first. *)
(***************************************************************************)

Where ==
    {"none", "begin", "loaded", "requesting", "waiting", "asking", "napping", "reading", "answering"}
Workers == [at : Where, attempt : Nat, nap : Nat \cup {Off}]

\* Every worker has a place, and there are no more places than workers may run.
Seated ==
    /\ work \in [Calls -> Workers]
    /\ IsFiniteSet(active) /\ Cardinality(active) <= MaxActive
    /\ \A c \in Calls : work[c].at # "none" => c \in active

-----------------------------------------------------------------------------

\* A step of one worker that has a place, which keeps it: all that a worker does but its end.
LEMMA MovesSeated ==
    ASSUME Seated, NEW c \in Calls, c \in active, NEW w \in Workers,
           work' = [work EXCEPT ![c] = w], UNCHANGED active
    PROVE  Seated'
  BY DEF Seated

\* What WorkerAt writes is a worker, wherever it goes.
LEMMA WorkerAtSeated ==
    ASSUME Seated, NEW c \in Calls, c \in active, NEW where \in Where, WorkerAt(c, where), UNCHANGED active
    PROVE  Seated'
  <1>1. [Starting EXCEPT !.at = where] \in Workers
    BY DEF Starting, Workers, Where
  <1> QED BY <1>1, MovesSeated DEF WorkerAt

LEMMA OnwardSeated ==
    ASSUME Seated, NEW c \in Calls, c \in active, Onward(c), UNCHANGED active
    PROVE  Seated'
  BY WorkerAtSeated DEF Onward, Where

\* The call that starts at once takes a place that was free.
LEMMA AcceptSeated ==
    ASSUME Seated, NEW c \in Calls, Accept(c)
    PROVE  Seated'
  <1>1. CASE Occupied >= MaxActive
    BY <1>1 DEF Accept, Seated
  <1>2. CASE ~(Occupied >= MaxActive)
    <2>1. active' = active \cup {c} /\ work' = [work EXCEPT ![c] = Starting]
      BY <1>2 DEF Accept
    <2>2. IsFiniteSet(active') /\ Cardinality(active') <= MaxActive
      <3>1. IsFiniteSet(active) /\ Cardinality(active) \in Nat
        BY FS_CardinalityType DEF Seated
      <3>2. Cardinality(active) < MaxActive
        BY <1>2, <3>1, BrokerConstants DEF Occupied
      <3>3. IsFiniteSet(active \cup {c})
            /\ (Cardinality(active \cup {c}) = Cardinality(active)
                \/ Cardinality(active \cup {c}) = Cardinality(active) + 1)
        BY <3>1, FS_AddElement
      <3> QED BY <2>1, <3>1, <3>2, <3>3, BrokerConstants
    <2>3. Starting \in Workers
      BY DEF Starting, Workers, Where
    <2> QED BY <2>1, <2>2, <2>3 DEF Seated
  <1> QED BY <1>1, <1>2

\* What the queue gives to a free place is one worker at most.
LEMMA AdmitsOne ==
    ASSUME NEW q, NEW next \in Admission(q)
    PROVE  next.started = {} \/ \E x : next.started = {x}
  <1> DEFINE Ready == {i \in DOMAIN q : Startable(q[i])}
             Ahead(i) == {q[k] : k \in {k \in Ready : k < i}}
             Starting1(i) == [started |-> {q[i]}, failed |-> Ahead(i), rest |-> SubSeq(q, i + 1, Len(q))]
             Nobody == [started |-> {}, failed |-> Ahead(Len(q) + 1), rest |-> <<>>]
  <1>1. Admission(q) = {Starting1(i) : i \in Ready} \cup {Nobody}
    BY DEF Admission
  <1>2. Nobody.started = {} /\ \A i \in Ready : Starting1(i).started = {q[i]}
    OBVIOUS
  <1> HIDE DEF Starting1, Nobody, Ready
  <1>3. next = Nobody \/ \E i \in Ready : next = Starting1(i)
    BY <1>1
  <1> QED BY <1>2, <1>3

\* The place of a worker that ends is free in the same step for one that starts.
LEMMA FinishSeated ==
    ASSUME Seated, NEW c \in Calls, Finish(c)
    PROVE  Seated'
  <1> DEFINE Options == IF closed' \/ Occupied > MaxActive
                        THEN {[started |-> {}, failed |-> {}, rest |-> queued]} ELSE Admission(queued)
  <1>1. PICK next \in Options :
           /\ active' = (active \ {c}) \cup next.started
           /\ work' = [x \in Calls |-> IF x = c THEN Idle
                                       ELSE IF x \in next.started THEN Starting ELSE work[x]]
    BY DEF Finish
  <1>2. next.started = {} \/ \E x : next.started = {x}
    <2>1. next \in Admission(queued) \/ next.started = {}
      BY <1>1
    <2> QED BY <2>1, AdmitsOne
  <1>3. c \in active
    BY DEF Finish, Doing
  <1>4. /\ IsFiniteSet(active \ {c}) /\ Cardinality(active \ {c}) = Cardinality(active) - 1
        /\ Cardinality(active) \in Nat
    BY <1>3, FS_RemoveElement, FS_CardinalityType DEF Seated
  <1>5. IsFiniteSet(active') /\ Cardinality(active') <= Cardinality(active)
    <2>1. CASE next.started = {}
      <3>1. active' = active \ {c}
        BY <1>1, <2>1
      <3> QED BY <3>1, <1>4
    <2>2. ASSUME NEW x, next.started = {x} PROVE IsFiniteSet(active') /\ Cardinality(active') <= Cardinality(active)
      <3>1. active' = (active \ {c}) \cup {x}
        BY <1>1, <2>2
      <3> QED BY <3>1, <1>4, FS_AddElement
    <2> QED BY <1>2, <2>1, <2>2
  <1>6. Idle \in Workers /\ Starting \in Workers /\ Idle.at = "none"
    BY DEF Idle, Starting, Workers, Where
  <1>7. work' \in [Calls -> Workers]
    BY <1>1, <1>6 DEF Seated
  <1>8. \A x \in Calls : work'[x].at # "none" => x \in active'
    BY <1>1, <1>6 DEF Seated
  <1>9. Cardinality(active') <= MaxActive
    BY <1>4, <1>5, FS_CardinalityType, BrokerConstants DEF Seated
  <1> QED BY <1>5, <1>7, <1>8, <1>9 DEF Seated

\* Clocks move, workers stay.
LEMMA TickSeated ==
    ASSUME Seated, Tick
    PROVE  Seated'
  <1>1. \A c \in Calls : Down(work[c].nap) \in Nat \cup {Off}
    BY BrokerConstants DEF Seated, Workers, Down
  <1>2. work' = [c \in Calls |-> [work[c] EXCEPT !.nap = Down(@)]] /\ active' = active
    BY DEF Tick
  <1>3. work' \in [Calls -> Workers]
    BY <1>1, <1>2 DEF Seated, Workers
  <1>4. \A c \in Calls : work'[c].at = work[c].at
    BY <1>2 DEF Seated, Workers
  <1> QED BY <1>2, <1>3, <1>4 DEF Seated

\* What the reader, the timers, the client and the end of the server do to calls and
\* the queue leaves the workers and their places as they are.
LEMMA OthersSeated ==
    ASSUME Seated, UNCHANGED <<active, work>>
    PROVE  Seated'
  BY DEF Seated

\* A worker's own steps up to its answer.
LEMMA WorkerSeated ==
    ASSUME Seated, NEW c \in Calls,
           \/ BeginRun(c) \/ Operate(c) \/ Attempt(c) \/ Slot(c) \/ Abandon(c)
           \/ Response(c) \/ Failure(c) \/ Wake(c) \/ Read(c)
    PROVE  Seated'
  <1> USE DEF Doing, OnlyWork
  <1>1. work \in [Calls -> Workers] /\ work[c] \in Workers
    BY DEF Seated
  <1>2. CASE BeginRun(c)
    BY <1>2, WorkerAtSeated DEF BeginRun, Where
  <1>3. CASE Operate(c)
    BY <1>3, WorkerAtSeated, OnwardSeated DEF Operate, Where
  <1>4. CASE Attempt(c)
    <2>1. [Starting EXCEPT !.at = "answering"] \in Workers
      BY DEF Starting, Workers, Where
    <2>2. [at |-> "waiting", attempt |-> work[c].attempt + 1, nap |-> Off] \in Workers
      BY <1>1 DEF Workers, Where
    <2>3. \E w \in Workers : work' = [work EXCEPT ![c] = w]
      BY <1>4, <2>1, <2>2 DEF Attempt
    <2> QED BY <1>4, <2>3, MovesSeated DEF Attempt
  <1>5. CASE Slot(c)
    <2>1. [work[c] EXCEPT !.at = "asking"] \in Workers
      BY <1>1 DEF Workers, Where
    <2>2. CASE work' = [work EXCEPT ![c].at = "asking"]
      BY <1>5, <2>1, <2>2, MovesSeated DEF Slot
    <2> QED BY <1>5, <2>2, OnwardSeated DEF Slot
  <1>6. CASE Abandon(c)
    BY <1>6, WorkerAtSeated DEF Abandon, Where
  <1>7. CASE Response(c)
    BY <1>7, OnwardSeated DEF Response
  <1>8. CASE Failure(c)
    <2>1. PICK d \in Delays :
             \/ WorkerAt(c, "answering")
             \/ work' = [work EXCEPT ![c].at = "napping", ![c].nap = d]
      BY <1>8 DEF Failure
    <2>2. d \in Nat
      BY BrokerConstants
    <2>3. [work[c] EXCEPT !.at = "napping", !.nap = d] \in Workers
      BY <1>1, <2>2 DEF Workers, Where
    <2>4. CASE work' = [work EXCEPT ![c].at = "napping", ![c].nap = d]
      <3>1. work' = [work EXCEPT ![c] = [work[c] EXCEPT !.at = "napping", !.nap = d]]
        BY <1>1, <2>4 DEF Workers
      <3> QED BY <1>8, <2>3, <3>1, MovesSeated DEF Failure
    <2> QED BY <1>8, <2>1, <2>4, WorkerAtSeated DEF Failure, Where
  <1>9. CASE Wake(c)
    <2>1. [work[c] EXCEPT !.at = "requesting", !.nap = Off] \in Workers
      BY <1>1 DEF Workers, Where
    <2>2. work' = [work EXCEPT ![c] = [work[c] EXCEPT !.at = "requesting", !.nap = Off]]
      BY <1>1, <1>9 DEF Wake, Workers
    <2> QED BY <1>9, <2>1, <2>2, MovesSeated DEF Wake
  <1>10. CASE Read(c)
    BY <1>10, OnwardSeated DEF Read
  <1> QED BY <1>2, <1>3, <1>4, <1>5, <1>6, <1>7, <1>8, <1>9, <1>10

-----------------------------------------------------------------------------

LEMMA InitSeated == BrokerInit => Seated
  <1> SUFFICES ASSUME BrokerInit PROVE Seated OBVIOUS
  <1>1. IsFiniteSet(active) /\ Cardinality(active) = 0
    BY FS_EmptySet DEF BrokerInit
  <1>2. Idle \in Workers /\ Idle.at = "none"
    BY DEF Idle, Workers, Where
  <1> QED BY <1>1, <1>2, BrokerConstants DEF BrokerInit, Seated

LEMMA NextSeated == Seated /\ [BrokerNext]_brokerVars => Seated'
  <1> SUFFICES ASSUME Seated, [BrokerNext]_brokerVars PROVE Seated' OBVIOUS
  <1>1. CASE Initialize \/ ClientGone \/ EndOfInput \/ Joined \/ Close \/ BrokenPipe
    BY <1>1, OthersSeated DEF Initialize, ClientGone, EndOfInput, Joined, Close, BrokenPipe
  <1>2. CASE Tick
    BY <1>2, TickSeated
  <1>3. ASSUME NEW c \in Calls,
               Turned(c) \/ Refuse(c) \/ NoThread(c) \/ Cancel(c) \/ JoinNext(c) \/ Deadline(c)
        PROVE  Seated'
    BY <1>3, OthersSeated DEF Turned, Refuse, NoThread, Cancel, JoinNext, Deadline
  <1>4. ASSUME NEW c \in Calls, Accept(c) PROVE Seated'
    BY <1>4, AcceptSeated
  <1>5. ASSUME NEW c \in Calls,
               \/ BeginRun(c) \/ Operate(c) \/ Attempt(c) \/ Slot(c) \/ Abandon(c)
               \/ Response(c) \/ Failure(c) \/ Wake(c) \/ Read(c)
        PROVE  Seated'
    BY <1>5, WorkerSeated
  <1>6. ASSUME NEW c \in Calls, Finish(c) PROVE Seated'
    BY <1>6, FinishSeated
  <1>7. CASE UNCHANGED brokerVars
    BY <1>7, OthersSeated DEF brokerVars
  <1> QED BY <1>1, <1>2, <1>3, <1>4, <1>5, <1>6, <1>7 DEF BrokerNext

LEMMA SeatedUncrowded == Seated => NeverCrowded
  <1> SUFFICES ASSUME Seated PROVE NeverCrowded OBVIOUS
  <1> DEFINE Running == {c \in Calls : work[c].at # "none"}
  <1>1. Running \subseteq active
    BY DEF Seated
  <1>2. IsFiniteSet(Running) /\ Cardinality(Running) <= Cardinality(active)
    BY <1>1, FS_Subset DEF Seated
  <1>3. Cardinality(Running) <= MaxActive
    <2>1. Cardinality(Running) \in Nat /\ Cardinality(active) \in Nat
      BY <1>2, FS_CardinalityType DEF Seated
    <2> HIDE DEF Running
    <2> QED BY <1>2, <2>1, BrokerConstants DEF Seated
  <1> QED BY <1>3 DEF NeverCrowded

(***************************************************************************)
(* The retrieval server never runs more than max_active workers, with any  *)
(* number of calls, queue places, deadlines and retries: a call that was   *)
(* answered by its timer, cancelled or dropped keeps its place until its   *)
(* worker exits (StdioMCPServer._run, _deadline).                          *)
(***************************************************************************)
THEOREM BrokerNeverCrowded == BrokerSpec => []NeverCrowded
  <1>1. BrokerSpec => []Seated
    BY InitSeated, NextSeated, PTL DEF BrokerSpec
  <1> QED BY <1>1, SeatedUncrowded, PTL

-----------------------------------------------------------------------------
(* Answers *)

\* What is known of a call.
Fields == {"state", "cancelled", "responded", "left", "extra", "timer", "replies"}

\* A call that got an answer is marked, and one that was never sent is as it was.
Marked(r) ==
    /\ DOMAIN r = Fields
    /\ r.replies \in {0, 1}
    /\ r.replies = 1 => r.responded = TRUE
    /\ r.cancelled \in BOOLEAN /\ r.responded \in BOOLEAN
    /\ r.state = "unsent" => r.cancelled = FALSE /\ r.responded = FALSE /\ r.timer = Off

Sent(c) == c \in Calls /\ call[c].state # "unsent"

\* Only calls that were sent wait or run.
Answers ==
    /\ DOMAIN call = Calls /\ call = [c \in Calls |-> call[c]]
    /\ \A c \in Calls : Marked(call[c])
    /\ \A c \in active : Sent(c)
    /\ queued \in Seq(Calls) /\ \A i \in DOMAIN queued : Sent(queued[i])

\* What a step may make of a call.
Kept(r, t) ==
    /\ Marked(t)
    /\ t.state = "unsent" => r.state = "unsent"
    /\ t.replies # r.replies => /\ r.replies = 0 /\ t.replies = 1
                                /\ r.cancelled = FALSE /\ ~closed

\* The calls that wait were waiting before, or were sent in this step.
Waits ==
    /\ queued' \in Seq(Calls)
    /\ \A i \in DOMAIN queued' : queued'[i] \in Range(queued) \/ call'[queued'[i]].state # "unsent"

-----------------------------------------------------------------------------

\* At most one answer, and none to a call that was cancelled or after the end.
Once ==
    \A c \in Calls : (call'[c].replies # call[c].replies) =>
        /\ call[c].replies = 0 /\ call'[c].replies = 1
        /\ ~call[c].cancelled /\ ~closed

LEMMA Same == ASSUME NEW r, Marked(r) PROVE Kept(r, r)
  BY DEF Kept

\* A call is answered that was not.
LEMMA Replied ==
    ASSUME NEW r, Marked(r), r.cancelled = FALSE, r.responded = FALSE, r.state # "unsent"
    PROVE  Kept(r, Responded(r)) /\ Kept(r, Over(Responded(r)))
  <1> DEFINE t == Responded(r)
  <1>1. /\ DOMAIN t = Fields /\ t.responded = TRUE /\ t.cancelled = FALSE /\ t.state = r.state
        /\ t.replies = r.replies \/ (t.replies = r.replies + 1 /\ ~closed)
    BY DEF Responded, Marked, Fields
  <1>2. r.replies = 0 /\ (t.replies = 0 \/ (t.replies = 1 /\ ~closed))
    <2>1. r.replies = 0
      BY DEF Marked
    <2> HIDE DEF t
    <2> QED BY <1>1, <2>1
  <1>3. DOMAIN Over(t) = Fields /\ Over(t).responded = t.responded /\ Over(t).cancelled = t.cancelled
        /\ Over(t).state = t.state /\ Over(t).replies = t.replies
    <2> HIDE DEF t
    <2> QED BY <1>1 DEF Over, Fields
  <1> HIDE DEF t
  <1>4. Kept(r, t) /\ Kept(r, Over(t))
    BY <1>1, <1>2, <1>3 DEF Kept, Marked
  <1> QED BY <1>4 DEF t

\* The first record of a call that is answered at once, by the name it gets.
LEMMA Turning ==
    ASSUME NEW r, Marked(r), r.state = "unsent", NEW name, name # "unsent"
    PROVE  Kept(r, [Responded(r) EXCEPT !.state = name])
  <1> DEFINE t == [Responded(r) EXCEPT !.state = name]
  <1>1. /\ DOMAIN t = Fields /\ t.responded = TRUE /\ t.cancelled = FALSE /\ t.state = name
        /\ t.replies = r.replies \/ (t.replies = r.replies + 1 /\ ~closed)
    BY DEF Responded, Marked, Fields
  <1>2. r.replies = 0 /\ (t.replies = 0 \/ (t.replies = 1 /\ ~closed))
    <2>1. r.replies = 0
      BY DEF Marked
    <2> HIDE DEF t
    <2> QED BY <1>1, <2>1
  <1> HIDE DEF t
  <1>3. Kept(r, t)
    BY <1>1, <1>2 DEF Kept, Marked
  <1> QED BY <1>3 DEF t

\* Clocks and the mark of a cancellation say nothing of an answer.
LEMMA Dropping ==
    ASSUME NEW r, Marked(r), r.state # "unsent"
    PROVE  /\ Kept(r, Over(r)) /\ Kept(r, Dropped(r))
           /\ \A n : Kept(r, [r EXCEPT !.timer = n])
           /\ Kept(r, [r EXCEPT !.cancelled = TRUE, !.timer = Off])
           /\ \A l, e, n : Kept(r, [r EXCEPT !.left = l, !.extra = e, !.timer = n])
  <1> DEFINE Like(t) == /\ DOMAIN t = Fields /\ t.replies = r.replies /\ t.responded = r.responded
                        /\ t.cancelled \in {TRUE, r.cancelled} /\ t.state = r.state
  <1>1. \A t : Like(t) => Kept(r, t)
    BY DEF Kept, Marked
  <1>2. \A l, e, n : Like([r EXCEPT !.left = l, !.extra = e, !.timer = n])
    BY DEF Marked, Fields
  <1>3. Like(Over(r)) /\ Like(Dropped(r))
    BY DEF Marked, Fields, Over, Dropped
  <1>4. \A n : Like([r EXCEPT !.timer = n])
    BY DEF Marked, Fields
  <1>5. Like([r EXCEPT !.cancelled = TRUE, !.timer = Off])
    BY DEF Marked, Fields
  <1> HIDE DEF Like
  <1> QED BY <1>1, <1>2, <1>3, <1>4, <1>5

LEMMA Taking ==
    ASSUME NEW r, Marked(r), NEW n
    PROVE  Kept(r, [r EXCEPT !.state = "taken", !.timer = n])
  <1> DEFINE t == [r EXCEPT !.state = "taken", !.timer = n]
  <1>1. /\ DOMAIN t = Fields /\ t.replies = r.replies /\ t.responded = r.responded
        /\ t.cancelled = r.cancelled /\ t.state = "taken"
    BY DEF Marked, Fields
  <1> HIDE DEF t
  <1>2. Kept(r, t)
    BY <1>1 DEF Kept, Marked
  <1> QED BY <1>2 DEF t

\* The frame of every step: each call is kept, those that run and wait were sent.
LEMMA Steps ==
    ASSUME Answers, NEW f, call' = [c \in Calls |-> f[c]], \A c \in Calls : Kept(call[c], f[c]),
           \A c \in active' : c \in active \/ c \in Range(queued) \/ (c \in Calls /\ call'[c].state # "unsent"),
           Waits
    PROVE  Answers' /\ Once
  <1>1. /\ \A c \in Calls : call'[c] = f[c]
        /\ \A c \in Calls : call[c].state # "unsent" => call'[c].state # "unsent"
        /\ DOMAIN call' = Calls /\ call' = [c \in Calls |-> call'[c]]
    BY DEF Kept
  <1>2. \A c \in Range(queued) \cup active : c \in Calls /\ call'[c].state # "unsent"
    <2>1. \A c \in active : Sent(c)
      BY DEF Answers
    <2>2. \A c \in Range(queued) : Sent(c)
      BY Zenon DEF Answers, Range
    <2> QED BY <1>1, <2>1, <2>2 DEF Sent
  <1>3. \A c \in Calls : Marked(call'[c])
    BY <1>1 DEF Kept
  <1>4. \A c \in active' : c \in Calls /\ call'[c].state # "unsent"
    BY <1>2
  <1>5. queued' \in Seq(Calls) /\ \A i \in DOMAIN queued' : queued'[i] \in Calls /\ call'[queued'[i]].state # "unsent"
    BY <1>2 DEF Waits
  <1>6. Answers'
    BY <1>1, <1>3, <1>4, <1>5, Zenon DEF Answers, Sent
  <1>7. \A c \in Calls : Kept(call[c], call'[c])
    BY <1>1
  <1> QED BY <1>6, <1>7 DEF Kept, Once

\* A step that leaves the queue and the running calls alone.
LEMMA StepsStill ==
    ASSUME Answers, NEW f, call' = [c \in Calls |-> f[c]], \A c \in Calls : Kept(call[c], f[c]),
           UNCHANGED <<active, queued>>
    PROVE  Answers' /\ Once
  <1>1. Waits
    BY Zenon DEF Waits, Answers, Range
  <1> QED BY <1>1, Steps

\* One call moves.
LEMMA StepsOne ==
    ASSUME Answers, NEW c \in Calls, NEW r, call' = [call EXCEPT ![c] = r], Kept(call[c], r),
           \A x \in active' : x \in active \/ x \in Range(queued) \/ (x = c /\ r.state # "unsent"),
           queued' \in Seq(Calls),
           \A i \in DOMAIN queued' : queued'[i] \in Range(queued) \/ (queued'[i] = c /\ r.state # "unsent")
    PROVE  Answers' /\ Once
  <1> DEFINE f == [x \in Calls |-> IF x = c THEN r ELSE call[x]]
  <1>1. call' = [x \in Calls |-> f[x]] /\ f[c] = r /\ call'[c] = r
    BY DEF Answers
  <1>2. \A x \in Calls : Kept(call[x], f[x])
    BY Same DEF Answers
  <1> HIDE DEF f
  <1>3. Waits
    BY <1>1 DEF Waits
  <1> QED BY <1>1, <1>2, <1>3, Steps

LEMMA StepsNone ==
    ASSUME Answers, UNCHANGED <<call, active, queued>>
    PROVE  Answers' /\ Once
  <1>1. call' = [c \in Calls |-> call[c]]
    BY DEF Answers
  <1>2. \A c \in Calls : Kept(call[c], call[c])
    BY Same DEF Answers
  <1> QED BY <1>1, <1>2, StepsStill

\* A call taken off the queue leaves the others there.
LEMMA RemoveIs ==
    ASSUME NEW q \in Seq(Calls), NEW c
    PROVE  /\ RemoveFirst(q, c) \in Seq(Calls)
           /\ \A i \in DOMAIN RemoveFirst(q, c) : RemoveFirst(q, c)[i] \in Range(q)
  <1> DEFINE I == {i \in 1 .. Len(q) : q[i] = c}
  <1>1. CASE ~(\E i \in 1 .. Len(q) : q[i] = c)
    BY <1>1, Zenon DEF RemoveFirst, Range
  <1>2. CASE \E i \in 1 .. Len(q) : q[i] = c
    <2>1. PICK m \in 1 .. Len(q) : RemoveFirst(q, c) = RemoveAt(q, m)
      <3>1. I # {} /\ I \subseteq Nat
        BY <1>2
      <3>2. PICK x \in I : \A y \in I : ~ (<<y, x>> \in OpToRel(<, Nat))
        <4> HIDE DEF I
        <4> QED BY <3>1, NatLessThanWellFounded, WFMin
      <3>3. \E x1 \in I : \A y \in I : x1 =< y
        <4>1. \A y \in I : ~ (y < x)
          BY <3>1, <3>2 DEF OpToRel
        <4> HIDE DEF I
        <4> QED BY <3>1, <4>1
      <3>4. Min(I) \in I
        <4> HIDE DEF I
        <4> QED BY <3>3 DEF Min
      <3>5. RemoveFirst(q, c) = RemoveAt(q, IF I # {} THEN Min(I) ELSE 0)
        BY <1>2, Zenon DEF RemoveFirst, SelectInSeq
      <3>6. Min(I) \in 1 .. Len(q)
        BY <3>4
      <3> QED BY <3>1, <3>5, <3>6
    <2>2. Len(q) \in Nat /\ \A i \in 1 .. Len(q) : q[i] \in Calls /\ q[i] \in Range(q)
      BY DEF Range
    <2>3. /\ SubSeq(q, 1, m - 1) \in Seq(Range(q)) /\ SubSeq(q, m + 1, Len(q)) \in Seq(Range(q))
      BY <2>1, <2>2, SubSeqProperties
    <2>4. RemoveFirst(q, c) \in Seq(Range(q))
      BY <2>1, <2>3, ConcatProperties DEF RemoveAt
    <2>5. Range(q) \subseteq Calls
      BY DEF Range
    <2> HIDE DEF I
    <2>6. \A t \in Seq(Range(q)) : t \in Seq(Calls) /\ \A i \in DOMAIN t : t[i] \in Range(q)
      BY <2>5
    <2> QED BY <2>4, <2>6
  <1> QED BY <1>1, <1>2

\* The reader's answers before a worker starts, and the calls it takes.
LEMMA ReaderAnswers ==
    ASSUME Answers, NEW c \in Calls, Turned(c) \/ Refuse(c) \/ NoThread(c) \/ Accept(c)
    PROVE  Answers' /\ Once
  <1>0. Marked(call[c]) /\ call[c].state = "unsent" /\ queued \in Seq(Calls)
    BY DEF Answers, Turned, Refuse, NoThread, Accept
  <1>1. \A i \in DOMAIN queued : queued[i] \in Range(queued)
    BY Zenon DEF Range
  <1>2. CASE Turned(c) \/ Refuse(c) \/ NoThread(c)
    <2>1. PICK name \in {"refused", "taken"} :
             call' = [call EXCEPT ![c] = [Responded(call[c]) EXCEPT !.state = name]]
      BY <1>2 DEF Turned, Refuse, NoThread
    <2> DEFINE r == [Responded(call[c]) EXCEPT !.state = name]
    <2>2. Kept(call[c], r)
      BY <1>0, Turning
    <2>3. UNCHANGED <<active, queued>>
      BY <1>2 DEF Turned, Refuse, NoThread
    <2>4. call' = [call EXCEPT ![c] = r]
      BY <2>1
    <2> HIDE DEF r
    <2> QED BY <1>0, <1>1, <2>2, <2>3, <2>4, StepsOne
  <1>3. CASE Accept(c)
    <2> DEFINE r == [call[c] EXCEPT !.state = "taken", !.timer = ResponseDeadline(c)]
    <2>1. Kept(call[c], r)
      BY <1>0, Taking
    <2>2. call' = [call EXCEPT ![c] = r] /\ r.state = "taken"
      BY <1>0, <1>3 DEF Accept, Answers, Marked, Fields
    <2>3. active' \subseteq active \cup {c} /\ (queued' = queued \/ queued' = Append(queued, c))
      BY <1>3 DEF Accept
    <2> HIDE DEF r
    <2>4. Append(queued, c) \in Seq(Calls)
          /\ \A i \in DOMAIN Append(queued, c) : Append(queued, c)[i] = c \/ Append(queued, c)[i] \in Range(queued)
      <3>1. DOMAIN Append(queued, c) = 1 .. Len(queued) + 1 /\ DOMAIN queued = 1 .. Len(queued)
            /\ Len(queued) \in Nat /\ Append(queued, c) \in Seq(Calls)
        BY <1>0
      <3>2. \A i \in 1 .. Len(queued) : Append(queued, c)[i] = queued[i]
        BY <1>0
      <3>3. Append(queued, c)[Len(queued) + 1] = c
        BY <1>0
      <3>4. \A i \in 1 .. Len(queued) + 1 : i \in 1 .. Len(queued) \/ i = Len(queued) + 1
        BY <3>1
      <3> QED BY <1>1, <3>1, <3>2, <3>3, <3>4
    <2> QED BY <1>0, <1>1, <2>1, <2>2, <2>3, <2>4, StepsOne
  <1> QED BY <1>2, <1>3

LEMMA CancelAnswers ==
    ASSUME Answers, NEW c \in Calls, Cancel(c)
    PROVE  Answers' /\ Once
  <1>0. Marked(call[c]) /\ queued \in Seq(Calls)
    BY DEF Answers
  <1>1. call[c].state # "unsent"
    BY Zenon DEF Answers, Cancel, Sent, Range
  <1>2. PICK r \in {call[c], [call[c] EXCEPT !.cancelled = TRUE, !.timer = Off], Dropped(call[c])} :
           call' = [call EXCEPT ![c] = r]
    <2>1. call = [call EXCEPT ![c] = call[c]]
      BY DEF Answers
    <2> QED BY <2>1 DEF Cancel
  <1>3. Kept(call[c], r)
    BY <1>0, <1>1, <1>2, Same, Dropping
  <1>4. /\ queued' \in Seq(Calls)
        /\ \A i \in DOMAIN queued' : queued'[i] \in Range(queued)
    <2>1. CASE queued' = queued
      BY <1>0, <2>1, Zenon DEF Range
    <2>2. CASE queued' = RemoveFirst(queued, c)
      BY <1>0, <2>2, RemoveIs
    <2> QED BY <2>1, <2>2 DEF Cancel
  <1>5. active' = active
    BY DEF Cancel
  <1> QED BY <1>2, <1>3, <1>4, <1>5, StepsOne

\* The reader stops: some calls are dropped, the queue may end.
LEMMA EndAnswers ==
    ASSUME Answers, EndOfInput \/ Close \/ BrokenPipe
    PROVE  Answers' /\ Once
  <1>1. PICK D \in SUBSET (active \cup Range(queued)) :
           call' = [c \in Calls |-> IF c \in D THEN Dropped(call[c]) ELSE call[c]]
    <2>1. CASE EndOfInput
      BY <2>1 DEF EndOfInput
    <2>2. CASE Close
      BY <2>2 DEF Close
    <2>3. CASE BrokenPipe
      BY <2>3 DEF BrokenPipe
    <2> QED BY <2>1, <2>2, <2>3
  <1>2. active' = active /\ (queued' = queued \/ queued' = <<>>)
    BY DEF EndOfInput, Close, BrokenPipe
  <1>3. \A c \in D : call[c].state # "unsent"
    <2>1. \A c \in active : call[c].state # "unsent"
      BY DEF Answers, Sent
    <2>2. \A c \in Range(queued) : call[c].state # "unsent"
      BY Zenon DEF Answers, Sent, Range
    <2> QED BY <2>1, <2>2
  <1> DEFINE f == [c \in Calls |-> IF c \in D THEN Dropped(call[c]) ELSE call[c]]
  <1>4. \A c \in Calls : Kept(call[c], f[c])
    BY <1>3, Same, Dropping DEF Answers
  <1>5. call' = [c \in Calls |-> f[c]]
    BY <1>1
  <1> HIDE DEF f
  <1>6. queued' \in Seq(Calls) /\ \A i \in DOMAIN queued' : queued'[i] \in Range(queued)
    <2>1. CASE queued' = queued
      BY <2>1, Zenon DEF Answers, Range
    <2>2. CASE queued' = <<>>
      BY <2>2
    <2> QED BY <1>2, <2>1, <2>2
  <1>7. Waits
    BY <1>6 DEF Waits
  <1> QED BY <1>2, <1>4, <1>5, <1>7, Steps

\* The timer answers a call that nobody answered, cancelled or closed away.
LEMMA DeadlineAnswers ==
    ASSUME Answers, NEW c \in Calls, Deadline(c)
    PROVE  Answers' /\ Once
  <1>0. Marked(call[c]) /\ queued \in Seq(Calls)
    BY DEF Answers
  <1>a. call[c].state # "unsent"
    BY <1>0, BrokerConstants DEF Deadline, Marked
  <1>1. CASE Settled(c) \/ ResponseDeadline(c) > 0
    <2>1. PICK n : call' = [call EXCEPT ![c] = [call[c] EXCEPT !.timer = n]]
      <3>1. CASE Settled(c)
        BY <3>1 DEF Deadline
      <3>2. CASE ~Settled(c)
        BY <1>1, <3>2 DEF Deadline
      <3> QED BY <3>1, <3>2
    <2>2. UNCHANGED <<active, queued>>
      BY <1>1 DEF Deadline
    <2>3. Kept(call[c], [call[c] EXCEPT !.timer = n])
      BY <1>0, <1>a, Dropping
    <2>4. \A i \in DOMAIN queued : queued[i] \in Range(queued)
      BY Zenon DEF Range
    <2> DEFINE r == [call[c] EXCEPT !.timer = n]
    <2>5. Kept(call[c], r) /\ call' = [call EXCEPT ![c] = r]
      BY <2>1, <2>3
    <2> HIDE DEF r
    <2> QED BY <1>0, <2>2, <2>4, <2>5, StepsOne
  <1>2. CASE ~(Settled(c) \/ ResponseDeadline(c) > 0)
    <2>1. call' = [call EXCEPT ![c] = IF c \in active THEN Responded(call[c]) ELSE Over(Responded(call[c]))]
          /\ queued' = RemoveFirst(queued, c) /\ active' = active
      BY <1>2 DEF Deadline
    <2>2. call[c].state # "unsent" /\ call[c].cancelled = FALSE /\ call[c].responded = FALSE
      BY <1>0, <1>2, <1>a DEF Settled, Marked
    <2>3. Kept(call[c], Responded(call[c])) /\ Kept(call[c], Over(Responded(call[c])))
      BY <1>0, <2>2, Replied
    <2>4. PICK r : call' = [call EXCEPT ![c] = r] /\ Kept(call[c], r)
      BY <2>1, <2>3
    <2>5. queued' \in Seq(Calls) /\ \A i \in DOMAIN queued' : queued'[i] \in Range(queued)
      BY <1>0, <2>1, RemoveIs
    <2> QED BY <2>1, <2>4, <2>5, StepsOne
  <1> QED BY <1>1, <1>2

\* What the queue gives to a free place: a call that starts, calls no thread could
\* be had for, which nobody answered, and those that wait on.
LEMMA AdmitsWaiting ==
    ASSUME NEW q \in Seq(Calls), NEW next \in Admission(q)
    PROVE  /\ next.started \subseteq Range(q)
           /\ next.failed \subseteq {c \in Range(q) : Startable(c)}
           /\ next.rest \in Seq(Calls)
           /\ \A i \in DOMAIN next.rest : next.rest[i] \in Range(q)
  <1> DEFINE Ready == {i \in DOMAIN q : Startable(q[i])}
             Ahead(i) == {q[k] : k \in {k \in Ready : k < i}}
             Option(i) == [started |-> {q[i]}, failed |-> Ahead(i), rest |-> SubSeq(q, i + 1, Len(q))]
             Nobody == [started |-> {}, failed |-> Ahead(Len(q) + 1), rest |-> <<>>]
             Waiting == {c \in Range(q) : Startable(c)}
  <1>1. Admission(q) = {Option(i) : i \in Ready} \cup {Nobody}
    BY DEF Admission
  <1>2. \A k \in DOMAIN q : q[k] \in Range(q)
    BY Zenon DEF Range
  <1>3. \A i : Ahead(i) \subseteq Waiting
    BY <1>2
  <1>4. \A i \in Ready : i \in 1 .. Len(q) /\ q[i] \in Range(q)
    BY <1>2
  <1>5. Len(q) \in Nat /\ \A i \in 1 .. Len(q) : q[i] \in Range(q)
    BY <1>2
  <1>6. \A i \in Ready : SubSeq(q, i + 1, Len(q)) \in Seq(Range(q))
    <2> SUFFICES ASSUME NEW i \in 1 .. Len(q) PROVE SubSeq(q, i + 1, Len(q)) \in Seq(Range(q))
      BY <1>4
    <2> QED BY <1>5, SubSeqProperties
  <1>7. \A t \in Seq(Range(q)) : t \in Seq(Calls) /\ \A i \in DOMAIN t : t[i] \in Range(q)
    <2>1. Range(q) \subseteq Calls
      BY DEF Range
    <2> QED BY <2>1
  <1>8. <<>> \in Seq(Range(q))
    OBVIOUS
  <1>9. /\ Nobody.started = {} /\ Nobody.failed = Ahead(Len(q) + 1) /\ Nobody.rest = <<>>
        /\ \A i \in Ready : /\ Option(i).started = {q[i]} /\ Option(i).failed = Ahead(i)
                            /\ Option(i).rest = SubSeq(q, i + 1, Len(q))
    OBVIOUS
  <1> HIDE DEF Ready, Ahead, Option, Nobody, Waiting
  <1>10. CASE next = Nobody
    <2>1. next.started = {} /\ next.failed \subseteq Waiting /\ next.rest = <<>>
      BY <1>3, <1>9, <1>10, Zenon
    <2> QED BY <2>1, <1>7, <1>8 DEF Waiting
  <1>11. ASSUME NEW i \in Ready, next = Option(i)
         PROVE  /\ next.started \subseteq Range(q) /\ next.failed \subseteq Waiting
                /\ next.rest \in Seq(Range(q))
    <2>1. /\ next.started = {q[i]} /\ next.failed = Ahead(i)
          /\ next.rest = SubSeq(q, i + 1, Len(q))
      BY <1>9, <1>11, Zenon
    <2> QED BY <2>1, <1>3, <1>4, <1>6
  <1>12. next = Nobody \/ \E i \in Ready : next = Option(i)
    BY <1>1
  <1> QED BY <1>7, <1>10, <1>11, <1>12 DEF Waiting

\* The worker's end: its own answer, and what the free place makes of the queue.
LEMMA FinishAnswers ==
    ASSUME Answers, NEW c \in Calls, Finish(c)
    PROVE  Answers' /\ Once
  <1>0. queued \in Seq(Calls) /\ c \in active /\ call[c].state # "unsent" /\ \A x \in Calls : Marked(call[x])
    BY DEF Answers, Finish, Doing, Sent
  <1> DEFINE f(next) == [x \in Calls |->
                           IF x = c THEN Over(IF Settled(c) THEN call[c] ELSE Responded(call[c]))
                           ELSE IF x \in next.failed THEN Over(Responded(call[x]))
                           ELSE call[x]]
  <1>1. PICK next \in IF closed' \/ Occupied > MaxActive
                      THEN {[started |-> {}, failed |-> {}, rest |-> queued]} ELSE Admission(queued) :
           /\ call' = f(next)
           /\ active' = (active \ {c}) \cup next.started
           /\ queued' = next.rest
    BY DEF Finish
  <1>2. /\ next.started \subseteq Range(queued)
        /\ next.failed \subseteq {x \in Range(queued) : Startable(x)}
        /\ next.rest \in Seq(Calls)
        /\ \A i \in DOMAIN next.rest : next.rest[i] \in Range(queued)
    <2>1. CASE next = [started |-> {}, failed |-> {}, rest |-> queued]
      <3>1. \A i \in DOMAIN queued : queued[i] \in Range(queued)
        BY Zenon DEF Range
      <3> QED BY <1>0, <2>1, <3>1
    <2>2. CASE next \in Admission(queued)
      BY <1>0, <2>2, AdmitsWaiting
    <2> QED BY <1>1, <2>1, <2>2
  <1>3. \A x \in next.failed : call[x].state # "unsent" /\ call[x].cancelled = FALSE /\ call[x].responded = FALSE
    <2> SUFFICES ASSUME NEW x \in next.failed
                 PROVE  call[x].state # "unsent" /\ call[x].cancelled = FALSE /\ call[x].responded = FALSE
      OBVIOUS
    <2>1. x \in Range(queued) /\ Startable(x)
      BY <1>2
    <2>2. Sent(x)
      BY <2>1, Zenon DEF Answers, Range
    <2> QED BY <1>0, <2>1, <2>2 DEF Startable, Sent, Marked
  <1>4. \A x \in Calls : Kept(call[x], f(next)[x])
    <2> SUFFICES ASSUME NEW x \in Calls PROVE Kept(call[x], f(next)[x])
      OBVIOUS
    <2>1. CASE x = c
      <3>1. CASE Settled(c)
        BY <1>0, <2>1, <3>1, Dropping
      <3>2. CASE ~Settled(c)
        <4>1. call[c].cancelled = FALSE /\ call[c].responded = FALSE
          BY <1>0, <3>2 DEF Settled, Marked
        <4> QED BY <1>0, <2>1, <3>2, <4>1, Replied
      <3> QED BY <3>1, <3>2
    <2>2. CASE x # c /\ x \in next.failed
      BY <1>0, <1>3, <2>2, Replied
    <2>3. CASE x # c /\ x \notin next.failed
      BY <1>0, <2>3, Same
    <2> QED BY <2>1, <2>2, <2>3
  <1>5. Waits
    BY <1>1, <1>2 DEF Waits
  <1>6. \A x \in active' : x \in active \/ x \in Range(queued)
    BY <1>1, <1>2
  <1>7. call' = [x \in Calls |-> f(next)[x]]
    BY <1>1
  <1> HIDE DEF f
  <1> QED BY <1>4, <1>5, <1>6, <1>7, Steps

LEMMA TickAnswers ==
    ASSUME Answers, Tick
    PROVE  Answers' /\ Once
  <1> DEFINE f == [c \in Calls |-> IF Counting(c) THEN Aged(c) ELSE call[c]]
  <1>1. \A c \in Calls : Kept(call[c], f[c])
    <2> SUFFICES ASSUME NEW c \in Calls PROVE Kept(call[c], f[c])
      OBVIOUS
    <2>1. Marked(call[c])
      BY DEF Answers
    <2>2. CASE Counting(c)
      <3>1. PICK l, e, n : Aged(c) = [call[c] EXCEPT !.left = l, !.extra = e, !.timer = n]
        BY <2>1, Zenon DEF Aged
      <3>2. call[c].state # "unsent"
        BY <2>2 DEF Counting
      <3>3. Kept(call[c], [call[c] EXCEPT !.left = l, !.extra = e, !.timer = n])
        BY <2>1, <3>2, Dropping
      <3> QED BY <2>2, <3>1, <3>3
    <2>3. CASE ~Counting(c)
      BY <2>1, <2>3, Same
    <2> QED BY <2>2, <2>3
  <1>2. call' = [c \in Calls |-> f[c]] /\ UNCHANGED <<active, queued>>
    BY DEF Tick
  <1> HIDE DEF f
  <1> QED BY <1>1, <1>2, StepsStill

-----------------------------------------------------------------------------

LEMMA InitAnswers == BrokerInit => Answers
  <1> SUFFICES ASSUME BrokerInit PROVE Answers OBVIOUS
  <1>1. Marked(Fresh)
    BY DEF Fresh, Marked, Fields
  <1> QED BY <1>1 DEF BrokerInit, Answers

LEMMA NextAnswers == Answers /\ [BrokerNext]_brokerVars => Answers' /\ Once
  <1> SUFFICES ASSUME Answers, [BrokerNext]_brokerVars PROVE Answers' /\ Once OBVIOUS
  <1>1. CASE Initialize \/ ClientGone \/ Joined
    BY <1>1, StepsNone DEF Initialize, ClientGone, Joined
  <1>2. CASE EndOfInput \/ Close \/ BrokenPipe
    BY <1>2, EndAnswers
  <1>3. CASE Tick
    BY <1>3, TickAnswers
  <1>4. ASSUME NEW c \in Calls, Turned(c) \/ Refuse(c) \/ NoThread(c) \/ Accept(c)
        PROVE  Answers' /\ Once
    BY <1>4, ReaderAnswers
  <1>5. ASSUME NEW c \in Calls, Cancel(c) \/ Deadline(c) \/ Finish(c)
        PROVE  Answers' /\ Once
    BY <1>5, CancelAnswers, DeadlineAnswers, FinishAnswers
  <1>6. ASSUME NEW c \in Calls,
               \/ JoinNext(c) \/ BeginRun(c) \/ Operate(c) \/ Attempt(c) \/ Slot(c) \/ Abandon(c)
               \/ Response(c) \/ Failure(c) \/ Wake(c) \/ Read(c)
        PROVE  Answers' /\ Once
    BY <1>6, StepsNone DEF JoinNext, BeginRun, Operate, Attempt, Slot, Abandon, Response, Failure, Wake,
       Read, OnlyWork
  <1>7. CASE UNCHANGED brokerVars
    BY <1>7, StepsNone DEF brokerVars
  <1> QED BY <1>1, <1>2, <1>3, <1>4, <1>5, <1>6, <1>7 DEF BrokerNext

(***************************************************************************)
(* A call is answered at most once, and never after it was cancelled or    *)
(* the server was closed, whoever comes first: the worker, the timer, the  *)
(* cancellation or the end of input (_run, _deadline, _cancel, _dispatch). *)
(***************************************************************************)
THEOREM BrokerAnswersOnce == BrokerSpec => AnsweredOnce
  <1>1. Answers /\ [BrokerNext]_brokerVars => [\A c \in Calls : (call'[c].replies # call[c].replies) =>
                                     /\ call[c].replies = 0 /\ call'[c].replies = 1
                                     /\ ~call[c].cancelled /\ ~closed]_brokerVars
    BY NextAnswers DEF Once
  <1>2. Answers /\ [BrokerNext]_brokerVars => Answers'
    BY NextAnswers
  <1> QED BY <1>1, <1>2, InitAnswers, PTL DEF BrokerSpec, AnsweredOnce

-----------------------------------------------------------------------------
(***************************************************************************)
(* What the jobs of Archive find, for any cutoffs, captures, bounds and    *)
(* number of requests at once.                                             *)
(*                                                                         *)
(* Truthful is the inductive invariant of the lookup: every date a request *)
(* or a memory cache holds is before the job's cutoff, and a request that  *)
(* has asked for captures without trouble still has every readable one     *)
(* before it but those whose requests were rejected, and lost no audit     *)
(* record but that of an entry moved aside.  Served is the invariant of    *)
(* the background threads.                                                 *)
(***************************************************************************)

Places ==
    {"idle", "discover", "look", "quarantine", "unusable", "index", "fetch", "store", "put", "complete",
     "answered"}
Requests ==
    [at : Places, kind : Kinds, todo : SUBSET Captures, trouble : BOOLEAN, skip : BOOLEAN,
     have : Captures \cup {None}, rejected : SUBSET Captures, lost : SUBSET {"aside", "capture"}]

Sees(j, c) == c # None => Before(j, c)

\* What a request may hold.
Fitting(t, r) ==
    /\ r \in Requests
    /\ Sees(Job(t), r.have) /\ r.lost \subseteq {"aside"}
    /\ \A c \in r.todo : Before(Job(t), c)
    /\ r.at = "fetch" => r.trouble \/ Rows(Job(t)) \cap good \subseteq r.todo \cup r.rejected

Truthful ==
    /\ good \in Readables
    /\ thread \in [Threads -> Requests] /\ \A t \in Threads : Fitting(t, thread[t])
    /\ memory \in [Cutoffs -> Captures \cup {None}] /\ \A j \in Cutoffs : Sees(j, memory[j])
    /\ stored \in Captures \cup {None, Bad}
    /\ absent \in [Cutoffs -> {None} \cup SUBSET Captures] /\ AbsenceIsReal

\* A request goes on to something it may hold.
Advances(t) == \E r : Fitting(t, r) /\ thread' = [thread EXCEPT ![t] = r]

-----------------------------------------------------------------------------
(* The parts of a request *)

LEMMA NewestOf ==
    ASSUME NEW S \in SUBSET Captures, S # {}
    PROVE  Newest(S) \in S
  BY CapturesHaveNewest DEF Newest

LEMMA RowsBefore ==
    ASSUME NEW j
    PROVE  Rows(j) \subseteq Captures /\ \A c \in Rows(j) : Before(j, c)
  BY DEF Rows

LEMMA CallIsThread ==
    ASSUME NEW j \in Cutoffs
    PROVE  Call(j) \in Threads /\ Job(Call(j)) = j
  BY DEF Call, Threads, Job

LEMMA WorkerIsThread ==
    ASSUME NEW j \in Retrying
    PROVE  Worker(j) \in Threads /\ Job(Worker(j)) = j /\ j \in Cutoffs
  BY ArchiveConstants DEF Worker, Threads, Job

LEMMA ThreadHasJob ==
    ASSUME NEW t \in Threads
    PROVE  Job(t) \in Cutoffs
  BY ArchiveConstants DEF Threads, Call, Worker, Job

LEMMA RestingFits ==
    ASSUME NEW t, NEW at \in Places \ {"fetch"}, NEW kind \in Kinds, NEW trouble \in BOOLEAN
    PROVE  /\ Resting \in Requests
           /\ Fitting(t, Resting)
           /\ Fitting(t, [Resting EXCEPT !.at = at])
           /\ Fitting(t, [Resting EXCEPT !.at = at, !.kind = kind])
           /\ Fitting(t, [Resting EXCEPT !.kind = kind, !.at = at])
           /\ Fitting(t, [Resting EXCEPT !.at = at, !.kind = kind, !.trouble = trouble])
  BY DEF Resting, Requests, Fitting, Places, Kinds, Sees

LEMMA RestFits ==
    ASSUME NEW t
    PROVE  Resting \in Requests /\ Fitting(t, Resting)
  BY DEF Resting, Requests, Fitting, Places, Kinds, Sees

\* Going on without new data, other than to fetch.
LEMMA ToFits ==
    ASSUME Truthful, NEW t \in Threads, NEW at \in Places \ {"fetch"}
    PROVE  Fitting(t, To(t, at))
  BY DEF Truthful, Fitting, To, Requests, Places

LEMMA ToWithFits ==
    ASSUME Truthful, NEW t \in Threads, NEW at \in Places \ {"fetch"},
           NEW c \in Captures \cup {None}, Sees(Job(t), c)
    PROVE  Fitting(t, [To(t, at) EXCEPT !.have = c])
  <1> DEFINE r == To(t, at)
             s == [r EXCEPT !.have = c]
  <1>1. Fitting(t, r) /\ r.at # "fetch"
    <2>1. r.at = at
      BY DEF To, Truthful, Requests
    <2> QED BY <2>1, ToFits
  <1> HIDE DEF r
  <1>2. r \in Requests
    BY <1>1 DEF Fitting
  <1>3. s \in Requests
    BY <1>2 DEF Requests
  <1>4. /\ s.at = r.at /\ s.todo = r.todo /\ s.lost = r.lost
        /\ s.have = c
    BY <1>2 DEF Requests
  <1>5. Fitting(t, s)
    <2> HIDE DEF s
    <2> QED BY <1>1, <1>3, <1>4 DEF Fitting
  <1> QED BY <1>5 DEF r

LEMMA FailsAdvances ==
    ASSUME Truthful, NEW t \in Threads, Fails(t)
    PROVE  Advances(t)
  <1>1. thread[t].kind \in Kinds /\ "answered" \in Places \ {"fetch"}
    BY DEF Truthful, Requests, Places
  <1>2. Fitting(t, Resting) /\ Fitting(t, [Resting EXCEPT !.at = "answered", !.kind = thread[t].kind])
    BY <1>1, RestingFits
  <1> QED BY <1>2 DEF Fails, Goes, Advances

LEMMA TroubledAdvances ==
    ASSUME Truthful, NEW t \in Threads, NEW kind \in Kinds, Troubled(t, kind)
    PROVE  Advances(t)
  <1>1. "answered" \in Places \ {"fetch"}
    BY DEF Places
  <1>2. Fitting(t, [Resting EXCEPT !.at = "answered", !.kind = kind, !.trouble = TRUE])
    BY <1>1, RestingFits
  <1> QED BY <1>2, FailsAdvances DEF Troubled, Goes, Advances

LEMMA UnrecordedAdvances ==
    ASSUME Truthful, NEW t \in Threads, Unrecorded(t)
    PROVE  Advances(t)
  BY FailsAdvances DEF Unrecorded

LEMMA GoesAdvances ==
    ASSUME NEW t, NEW r, Fitting(t, r), Goes(t, r)
    PROVE  Advances(t)
  BY DEF Goes, Advances

\* What the step of one request leaves true of all.
LEMMA RequestsFit ==
    ASSUME Truthful, NEW t \in Threads, Advances(t), UNCHANGED good
    PROVE  thread' \in [Threads -> Requests] /\ \A x \in Threads : Fitting(x, thread[x])'
  <1>1. PICK r : Fitting(t, r) /\ thread' = [thread EXCEPT ![t] = r]
    BY DEF Advances
  <1>2. r \in Requests
    BY <1>1 DEF Fitting
  <1>3. thread' \in [Threads -> Requests]
    BY <1>1, <1>2 DEF Truthful
  <1>4. ASSUME NEW x \in Threads PROVE Fitting(x, thread[x])'
    <2>1. Fitting(x, thread'[x])
      BY <1>1 DEF Truthful
    <2> QED BY <2>1 DEF Fitting, Rows, Before, Sees
  <1> QED BY <1>3, <1>4

\* A step of a request that leaves the caches alone.
LEMMA StaysTruthful ==
    ASSUME Truthful, NEW t \in Threads, Advances(t), UNCHANGED <<good, memory, absent, stored>>
    PROVE  Truthful'
  BY RequestsFit DEF Truthful, AbsenceIsReal, Sees, Rows, Before

-----------------------------------------------------------------------------
(* The steps of a request *)

LEMMA BeginTruthful ==
    ASSUME Truthful, NEW j \in Cutoffs, NEW kind \in Kinds, Begin(j, kind), UNCHANGED good
    PROVE  Truthful'
  <1> DEFINE t == Call(j)
             at == IF kind = "discovery" THEN "discover" ELSE "look"
  <1>1. t \in Threads
    BY CallIsThread
  <1>2. Advances(t)
    <2>1. at \in Places \ {"fetch"} /\ "archive" \in Kinds
      BY DEF Places, Kinds
    <2> HIDE DEF at, t
    <2>2. Fitting(t, [Resting EXCEPT !.at = at])
      BY <2>1, RestingFits
    <2>3. Goes(t, [Resting EXCEPT !.at = at]) \/ Unrecorded(t)
      BY DEF Begin, t, at
    <2> QED BY <1>1, <2>2, <2>3, GoesAdvances, UnrecordedAdvances
  <1>3. UNCHANGED <<memory, absent, stored>>
    BY DEF Begin, jobVars
  <1> QED BY <1>1, <1>2, <1>3, StaysTruthful

LEMMA DiscoverTruthful ==
    ASSUME Truthful, NEW t \in Threads, Discover(t), UNCHANGED good
    PROVE  Truthful'
  <1>1. {"look", "answered"} \subseteq Places \ {"fetch"} /\ "discovery" \in Kinds
    BY DEF Places, Kinds
  <1>2. Fitting(t, To(t, "look")) /\ Fitting(t, To(t, IF t = Call(Job(t)) THEN "look" ELSE "answered"))
    BY <1>1, ToFits
  <1>3. \/ Goes(t, To(t, "look"))
        \/ Goes(t, To(t, IF t = Call(Job(t)) THEN "look" ELSE "answered"))
        \/ Troubled(t, "discovery") \/ Unrecorded(t)
    BY DEF Discover
  <1>4. Advances(t)
    BY <1>1, <1>2, <1>3, GoesAdvances, TroubledAdvances, UnrecordedAdvances
  <1> QED BY <1>4, StaysTruthful DEF Discover

LEMMA RememberedTruthful ==
    ASSUME Truthful, NEW t \in Threads, Remembered(t), UNCHANGED good
    PROVE  Truthful'
  <1>1. memory[Job(t)] \in Captures \cup {None} /\ Sees(Job(t), memory[Job(t)])
    BY ThreadHasJob DEF Truthful
  <1>2. Fitting(t, [To(t, "complete") EXCEPT !.have = memory[Job(t)]])
    BY <1>1, ToWithFits DEF Places
  <1>3. Advances(t)
    BY <1>2, GoesAdvances DEF Remembered
  <1> QED BY <1>3, StaysTruthful DEF Remembered, jobVars

\* Memory takes what the request may have.
LEMMA KeepsTruthful ==
    ASSUME Truthful, NEW t \in Threads, Advances(t), UNCHANGED <<good, absent>>,
           NEW c \in Captures \cup {None}, Sees(Job(t), c), stored' \in Captures \cup {None, Bad},
           memory' = memory \/ memory' = [memory EXCEPT ![Job(t)] = c]
    PROVE  Truthful'
  <1>1. memory' \in [Cutoffs -> Captures \cup {None}] /\ \A j \in Cutoffs : Sees(j, memory'[j])
    BY ThreadHasJob DEF Truthful
  <1>2. AbsenceIsReal' /\ absent' \in [Cutoffs -> {None} \cup SUBSET Captures] /\ good' \in Readables
    BY DEF Truthful, AbsenceIsReal, Rows, Before
  <1>3. (\A j \in Cutoffs : Sees(j, memory[j]))'
    BY <1>1 DEF Sees, Before
  <1> QED BY <1>1, <1>2, <1>3, RequestsFit DEF Truthful

\* The shared entry is used only if it is before this job's cutoff.
LEMMA ReusedTruthful ==
    ASSUME Truthful, NEW t \in Threads, Reused(t), UNCHANGED good
    PROVE  Truthful'
  <1>1. stored \in Captures \cup {None} /\ Sees(Job(t), stored)
    BY DEF Reused, Usable, Sees
  <1>2. Fitting(t, [To(t, "complete") EXCEPT !.have = stored])
    BY <1>1, ToWithFits DEF Places
  <1>3. Advances(t)
    BY <1>2, GoesAdvances, UnrecordedAdvances DEF Reused
  <1>4. stored' \in Captures \cup {None, Bad} /\ absent' = absent
    BY DEF Reused, Truthful
  <1>5. memory' = memory \/ memory' = [memory EXCEPT ![Job(t)] = stored]
    BY DEF Reused
  <1> QED BY <1>1, <1>3, <1>4, <1>5, KeepsTruthful

LEMMA InvalidTruthful ==
    ASSUME Truthful, NEW t \in Threads, Invalid(t), UNCHANGED good
    PROVE  Truthful'
  <1>1. Advances(t)
    BY ToFits, GoesAdvances DEF Invalid, Places
  <1> QED BY <1>1, StaysTruthful DEF Invalid, jobVars

LEMMA UnknownAdvances ==
    ASSUME Truthful, NEW t \in Threads, Unknown(t)
    PROVE  Advances(t)
  BY ToFits, GoesAdvances, FailsAdvances DEF Unknown, Places

\* The record of what is moved aside is the only one whose refusal is ignored.
LEMMA MovesAsideAdvances ==
    ASSUME Truthful, NEW t \in Threads, NEW at \in Places \ {"fetch"}, MovesAside(t, at)
    PROVE  Advances(t) /\ stored' = None
  <1> DEFINE gone == [To(t, at) EXCEPT !.lost = @ \cup {"aside"}]
  <1>1. Fitting(t, To(t, at))
    BY ToFits
  <1>2. Fitting(t, gone)
    BY <1>1 DEF Fitting, Requests
  <1>3. Goes(t, To(t, at)) \/ Goes(t, gone)
    BY DEF MovesAside
  <1> HIDE DEF gone
  <1> QED BY <1>1, <1>2, <1>3, GoesAdvances DEF MovesAside

LEMMA QuarantineTruthful ==
    ASSUME Truthful, NEW t \in Threads, Quarantine(t), UNCHANGED good
    PROVE  Truthful'
  <1>1. "unusable" \in Places \ {"fetch"}
    BY DEF Places
  <1>2. Advances(t) /\ stored' \in Captures \cup {None, Bad}
    BY <1>1, MovesAsideAdvances, ToFits, GoesAdvances DEF Quarantine, Truthful
  <1> QED BY <1>2, KeepsTruthful DEF Quarantine, jobVars, Sees

LEMMA UnusableTruthful ==
    ASSUME Truthful, NEW t \in Threads, Unusable(t), UNCHANGED good
    PROVE  Truthful'
  <1>1. Advances(t)
    BY UnknownAdvances, UnrecordedAdvances DEF Unusable
  <1> QED BY <1>1, StaysTruthful DEF Unusable, jobVars

LEMMA MissedTruthful ==
    ASSUME Truthful, NEW t \in Threads, Missed(t), UNCHANGED good
    PROVE  Truthful'
  <1>1. Advances(t)
    BY UnknownAdvances, UnrecordedAdvances DEF Missed
  <1> QED BY <1>1, StaysTruthful DEF Missed, jobVars

\* The index gives all that there is to ask for.
LEMMA IndexTruthful ==
    ASSUME Truthful, NEW t \in Threads, Index(t), UNCHANGED good
    PROVE  Truthful'
  <1> DEFINE rows == [To(t, "fetch") EXCEPT !.todo = Rows(Job(t))]
  <1>1. Fitting(t, rows)
    BY RowsBefore DEF Truthful, Fitting, To, Requests, Places
  <1>2. Goes(t, rows) \/ Fails(t) \/ Troubled(t, "archive") \/ Unrecorded(t)
    BY DEF Index
  <1> HIDE DEF rows
  <1>3. Advances(t)
    BY <1>1, <1>2, GoesAdvances, FailsAdvances, TroubledAdvances, UnrecordedAdvances DEF Kinds
  <1> QED BY <1>3, StaysTruthful DEF Index, jobVars

\* A capture that is not readable gives way; a readable one only rejected or with trouble.
LEMMA FetchTruthful ==
    ASSUME Truthful, NEW t \in Threads, Fetch(t), UNCHANGED good
    PROVE  Truthful'
  <1> DEFINE c == Newest(Wanted(t))
             rest == [thread[t] EXCEPT !.todo = @ \ {c}]
             Found == [Resting EXCEPT !.at = "store", !.kind = thread[t].kind,
                                      !.have = c, !.lost = thread[t].lost]
             Unfit == [rest EXCEPT !.skip = @ \/ c \in Placeholders]
             Rejected == [rest EXCEPT !.rejected = @ \cup {c}]
             Failed == [rest EXCEPT !.trouble = TRUE]
             Stopped == [rest EXCEPT !.trouble = TRUE, !.todo = {}]
  <1>1. thread[t] \in Requests /\ Fitting(t, thread[t]) /\ thread[t].at = "fetch"
    BY DEF Fetch, At, Truthful
  <1>2. c \in thread[t].todo /\ c \in Captures /\ Before(Job(t), c)
    <2>1. Wanted(t) \subseteq thread[t].todo /\ thread[t].todo \subseteq Captures
      BY <1>1 DEF Wanted, Requests
    <2>2. Newest(Wanted(t)) \in Wanted(t)
      BY <2>1, NewestOf DEF Fetch
    <2> QED BY <1>1, <2>1, <2>2 DEF Fitting
  <1>3. \/ Goes(t, Found) \/ (c \notin good /\ Goes(t, Unfit))
        \/ Goes(t, Rejected) \/ Goes(t, Failed) \/ Goes(t, Stopped) \/ Unrecorded(t)
    BY DEF Fetch, UnrecordedCapture
  <1> HIDE DEF c
  <1>4. Fitting(t, Found) /\ Fitting(t, Rejected) /\ Fitting(t, Failed) /\ Fitting(t, Stopped)
    BY <1>1, <1>2 DEF Fitting, Resting, Requests, Places, Sees
  <1>5. c \notin good => Fitting(t, Unfit)
    BY <1>1, <1>2 DEF Fitting, Requests, Places, Sees
  <1> HIDE DEF Found, Unfit, Rejected, Failed, Stopped
  <1>6. Advances(t)
    BY <1>3, <1>4, <1>5, GoesAdvances, UnrecordedAdvances
  <1> QED BY <1>6, StaysTruthful DEF Fetch, jobVars

\* Without trouble nothing readable is left but what was rejected: the rest are placeholders.
LEMMA ConcludeTruthful ==
    ASSUME Truthful, NEW t \in Threads, Conclude(t), UNCHANGED good
    PROVE  Truthful'
  <1>1. CASE Inconclusive(t)
    <2>1. Advances(t)
      BY <1>1, TroubledAdvances DEF Conclude, Kinds
    <2> QED BY <1>1, <2>1, StaysTruthful DEF Conclude
  <1>2. CASE ~Inconclusive(t)
    <2>1. Advances(t) /\ UNCHANGED <<stored, memory>>
      BY <1>2, FailsAdvances DEF Conclude
    <2>2. Rows(Job(t)) \cap good \subseteq thread[t].todo \cup thread[t].rejected
      BY <1>2 DEF Conclude, At, Inconclusive, Truthful, Fitting
    <2>3. thread[t].todo \subseteq Placeholders
      BY DEF Conclude, Wanted
    <2>4. good \cap Placeholders = {}
      BY ArchiveConstants DEF Truthful
    <2>5. Rows(Job(t)) \cap good \subseteq thread[t].rejected
      BY <2>2, <2>3, <2>4
    <2>6. absent' = [absent EXCEPT ![Job(t)] = thread[t].rejected] /\ thread[t].rejected \subseteq Captures
      BY <1>2 DEF Conclude, Truthful, Requests
    <2>7. absent' \in [Cutoffs -> {None} \cup SUBSET Captures]
      BY <2>6 DEF Truthful
    <2>8. \A j \in Cutoffs : absent'[j] # None => Rows(j) \cap good \subseteq absent'[j]
      BY <2>5, <2>6 DEF Truthful, AbsenceIsReal
    <2>9. AbsenceIsReal'
      BY <2>8 DEF AbsenceIsReal, Rows, Before
    <2> QED BY <2>1, <2>7, <2>9, RequestsFit DEF Truthful, Sees, Before
  <1> QED BY <1>1, <1>2

LEMMA HaveFits ==
    ASSUME Truthful, NEW t \in Threads
    PROVE  thread[t].have \in Captures \cup {None} /\ Sees(Job(t), thread[t].have)
  BY DEF Truthful, Fitting, Requests

LEMMA StoreTruthful ==
    ASSUME Truthful, NEW t \in Threads, Store(t), UNCHANGED good
    PROVE  Truthful'
  <1>1. Advances(t)
    BY ToFits, GoesAdvances DEF Store, Places
  <1>2. /\ memory' = memory \/ memory' = [memory EXCEPT ![Job(t)] = thread[t].have]
        /\ absent' = absent /\ stored' \in Captures \cup {None, Bad}
    BY DEF Store, Truthful
  <1> QED BY <1>1, <1>2, HaveFits, KeepsTruthful

LEMMA PutAsideTruthful ==
    ASSUME Truthful, NEW t \in Threads, PutAside(t), UNCHANGED good
    PROVE  Truthful'
  <1>1. "put" \in Places \ {"fetch"}
    BY DEF Places
  <1>2. Advances(t) /\ stored' \in Captures \cup {None, Bad}
    BY <1>1, MovesAsideAdvances DEF PutAside
  <1> QED BY <1>2, KeepsTruthful DEF PutAside, jobVars, Sees

LEMMA PutTruthful ==
    ASSUME Truthful, NEW t \in Threads, Put(t), UNCHANGED good
    PROVE  Truthful'
  <1>1. Advances(t)
    BY ToFits, GoesAdvances, UnrecordedAdvances DEF Put, Places
  <1>2. /\ memory' = memory \/ memory' = [memory EXCEPT ![Job(t)] = thread[t].have]
        /\ absent' = absent /\ stored' \in Captures \cup {None, Bad}
    BY HaveFits DEF Put, Truthful
  <1> QED BY <1>1, <1>2, HaveFits, KeepsTruthful

LEMMA CompleteTruthful ==
    ASSUME Truthful, NEW t \in Threads, Complete(t), UNCHANGED good
    PROVE  Truthful'
  <1> DEFINE answer == [Resting EXCEPT !.at = "answered", !.kind = thread[t].kind,
                                       !.have = thread[t].have, !.lost = thread[t].lost]
  <1>1. Fitting(t, answer)
    BY HaveFits DEF Truthful, Fitting, Resting, Requests, Places
  <1>2. Goes(t, answer) \/ Unrecorded(t)
    BY DEF Complete
  <1> HIDE DEF answer
  <1>3. Advances(t)
    BY <1>1, <1>2, GoesAdvances, UnrecordedAdvances
  <1> QED BY <1>3, StaysTruthful DEF Complete, jobVars

-----------------------------------------------------------------------------
(* The other steps *)

\* Nothing of the lookup changes.
LEMMA LookupTruthful ==
    ASSUME Truthful, UNCHANGED <<good, thread, stored, memory, absent>>
    PROVE  Truthful'
  BY DEF Truthful, AbsenceIsReal, Fitting, Sees, Rows, Before

LEMMA RetryTruthful ==
    ASSUME Truthful, NEW j \in Retrying, NEW kind \in Kinds, Retry(j, kind), UNCHANGED good
    PROVE  Truthful'
  <1> DEFINE t == Worker(j)
             at == IF kind = "archive" THEN "look" ELSE IF known[j] THEN "answered" ELSE "discover"
  <1>1. t \in Threads
    BY WorkerIsThread
  <1>2. Goes(t, [Resting EXCEPT !.kind = kind, !.at = at]) /\ UNCHANGED <<stored, memory, absent>>
    BY DEF Retry, jobVars
  <1>3. at \in Places \ {"fetch"}
    BY DEF Places
  <1> HIDE DEF t, at
  <1>4. Fitting(t, [Resting EXCEPT !.kind = kind, !.at = at])
    BY <1>3, RestingFits
  <1> QED BY <1>1, <1>2, <1>4, GoesAdvances, StaysTruthful

LEMMA RetriedTruthful ==
    ASSUME Truthful, NEW j \in Retrying, Retried(j), UNCHANGED good
    PROVE  Truthful'
  <1>1. Worker(j) \in Threads
    BY WorkerIsThread
  <1>2. Goes(Worker(j), Resting) /\ UNCHANGED <<stored, memory, absent>>
    BY DEF Retried, jobVars
  <1>3. Fitting(Worker(j), Resting)
    BY RestFits
  <1> QED BY <1>1, <1>2, <1>3, GoesAdvances, StaysTruthful

LEMMA ForgetTruthful ==
    ASSUME Truthful, NEW j \in Cutoffs, Forget(j), UNCHANGED good
    PROVE  Truthful'
  <1>1. memory' \in [Cutoffs -> Captures \cup {None}] /\ \A i \in Cutoffs : Sees(i, memory'[i])
    BY DEF Forget, Truthful, Sees
  <1>2. /\ absent' \in [Cutoffs -> {None} \cup SUBSET Captures]
        /\ \A i \in Cutoffs : absent'[i] # None => Rows(i) \cap good \subseteq absent'[i]
    BY DEF Forget, Truthful, AbsenceIsReal
  <1>3. UNCHANGED <<good, thread, stored>>
    BY DEF Forget
  <1> QED BY <1>1, <1>2, <1>3 DEF Truthful, AbsenceIsReal, Fitting, Sees, Rows, Before

LEMMA EvictTruthful ==
    ASSUME Truthful, Evict, UNCHANGED good
    PROVE  Truthful'
  BY DEF Evict, jobVars, Truthful, AbsenceIsReal, Fitting, Sees, Rows, Before

LEMMA RestartTruthful ==
    ASSUME Truthful, NEW j \in Cutoffs, Restart(j), UNCHANGED good
    PROVE  Truthful'
  <1>1. memory' \in [Cutoffs -> Captures \cup {None}] /\ \A i \in Cutoffs : Sees(i, memory'[i])
    BY DEF Restart, Truthful, Sees
  <1>2. /\ absent' \in [Cutoffs -> {None} \cup SUBSET Captures]
        /\ \A i \in Cutoffs : absent'[i] # None => Rows(i) \cap good \subseteq absent'[i]
    BY DEF Restart, Truthful, AbsenceIsReal
  <1>3. thread' = [t \in Threads |-> IF Job(t) = j THEN Resting ELSE thread[t]]
    BY DEF Restart
  <1>4. \A t \in Threads : Resting \in Requests /\ Fitting(t, Resting)
    BY RestFits
  <1>5. thread' \in [Threads -> Requests] /\ \A t \in Threads : Fitting(t, thread'[t])
    BY <1>3, <1>4 DEF Truthful
  <1>6. (\A t \in Threads : Fitting(t, thread[t]))'
    BY <1>5 DEF Fitting, Sees, Rows, Before
  <1>7. stored' = stored
    BY DEF Restart
  <1> QED BY <1>1, <1>2, <1>5, <1>6, <1>7 DEF Truthful, AbsenceIsReal, Sees, Rows, Before

LEMMA InitTruthful == Init => Truthful
  <1> SUFFICES ASSUME Init PROVE Truthful OBVIOUS
  <1>1. \A t \in Threads : Resting \in Requests /\ Fitting(t, Resting)
    BY RestFits
  <1> QED BY <1>1 DEF Init, Truthful, AbsenceIsReal, Sees

LEMMA NextTruthful == Truthful /\ [Next]_vars => Truthful'
  <1> SUFFICES ASSUME Truthful, [Next]_vars PROVE Truthful' OBVIOUS
  <1>1. CASE UNCHANGED vars
    BY <1>1, LookupTruthful DEF vars, jobVars
  <1>2. CASE Next
    <2>1. UNCHANGED good
      BY <1>2 DEF Next
    <2>2. CASE Evict
      BY <2>1, <2>2, EvictTruthful
    <2>3. ASSUME NEW j \in Cutoffs, Flush(j) \/ FlushedAll(j) \/ Forget(j) \/ Restart(j)
          PROVE  Truthful'
      <3>1. CASE Flush(j) \/ FlushedAll(j)
        BY <2>1, <3>1, LookupTruthful DEF Flush, FlushedAll, jobVars
      <3> QED BY <2>1, <2>3, <3>1, ForgetTruthful, RestartTruthful
    <2>4. ASSUME NEW j \in Cutoffs, NEW kind \in Kinds, Begin(j, kind) PROVE Truthful'
      BY <2>1, <2>4, BeginTruthful
    <2>5. ASSUME NEW j \in Retrying, NEW kind \in Kinds, Retry(j, kind) \/ Expire(j, kind)
          PROVE  Truthful'
      <3>1. CASE Expire(j, kind)
        BY <2>1, <3>1, LookupTruthful DEF Expire, jobVars
      <3> QED BY <2>1, <2>5, <3>1, RetryTruthful
    <2>6. ASSUME NEW j \in Retrying, Retried(j) \/ WorkerEnds(j) PROVE Truthful'
      <3>1. CASE WorkerEnds(j)
        BY <2>1, <3>1, LookupTruthful DEF WorkerEnds, jobVars
      <3> QED BY <2>1, <2>6, <3>1, RetriedTruthful
    <2>7. ASSUME NEW t \in Threads,
                 \/ Discover(t) \/ Remembered(t) \/ Reused(t) \/ Invalid(t) \/ Quarantine(t) \/ Unusable(t)
                 \/ Missed(t) \/ Index(t) \/ Fetch(t) \/ Conclude(t) \/ Store(t) \/ PutAside(t) \/ Put(t)
                 \/ Complete(t)
          PROVE  Truthful'
      BY <2>1, <2>7, DiscoverTruthful, RememberedTruthful, ReusedTruthful, InvalidTruthful,
         QuarantineTruthful, UnusableTruthful, MissedTruthful, IndexTruthful, FetchTruthful,
         ConcludeTruthful, StoreTruthful, PutAsideTruthful, PutTruthful, CompleteTruthful
    <2> QED BY <1>2, <2>2, <2>3, <2>4, <2>5, <2>6, <2>7 DEF Next, Step
  <1> QED BY <1>1, <1>2

LEMMA TruthfulAlways == Spec => []Truthful
  BY InitTruthful, NextTruthful, PTL DEF Spec

(***************************************************************************)
(* No job is answered with a capture from its cutoff or later, nor keeps   *)
(* one in memory, for any cutoffs, captures and contents of the shared     *)
(* cache (WaybackProvider._cached_capture, _open_capture).                 *)
(***************************************************************************)
THEOREM NothingFromTheCutoff == Spec => []StrictlyBefore
  <1>1. Truthful => StrictlyBefore
    BY DEF Truthful, StrictlyBefore, Fitting, Sees
  <1> QED BY <1>1, TruthfulAlways, PTL

(***************************************************************************)
(* A remembered absence stands for nothing but rejected requests: each     *)
(* listed capture that could be read was asked for and the request         *)
(* rejected, whatever else failed on the way and whatever other jobs       *)
(* stored (the end of WaybackProvider._open_capture).                      *)
(***************************************************************************)
THEOREM AbsencesAreReal == Spec => []AbsenceIsReal
  <1>1. Truthful => AbsenceIsReal
    BY DEF Truthful
  <1> QED BY <1>1, TruthfulAlways, PTL

(***************************************************************************)
(* No request that lost an audit record gets as far as an answer, but for  *)
(* the one that a damaged entry was moved aside: each of the other steps   *)
(* that record something ends the request when it is refused, also inside  *)
(* the loop over the captures (audit_failure).                             *)
(***************************************************************************)
THEOREM AnswersAreRecorded == Spec => []NothingUnrecorded
  <1>1. Truthful => NothingUnrecorded
    BY DEF Truthful, NothingUnrecorded, Fitting
  <1> QED BY <1>1, TruthfulAlways, PTL

-----------------------------------------------------------------------------
(* The background threads *)

Flushed ==
    /\ pending \in [Cutoffs -> Nat] /\ flusher \in [Cutoffs -> BOOLEAN]
    /\ \A j \in Cutoffs : pending[j] > 0 => flusher[j]

Tended ==
    /\ tasks = [j \in Cutoffs |-> tasks[j]] /\ worker \in [Cutoffs -> BOOLEAN]
    /\ \A j \in Cutoffs : tasks[j] # <<>> => worker[j]

\* A worker that is at work is alive, so it is there for what is scheduled meanwhile.
AtWork == \A j \in Retrying : thread[Worker(j)].at # "idle" => worker[j]

Served == Flushed /\ Tended /\ AtWork

Moves(t) == \E r : thread' = [thread EXCEPT ![t] = r]
Active(t) == (\E j \in Cutoffs : t = Call(j)) \/ thread[t].at # "idle"
Audits(j) == UNCHANGED auditVars \/ Logged(j)
Repeats(j) == UNCHANGED retryVars \/ \E kind \in Kinds : Schedule(j, kind)

LEMMA AuditsFlushed ==
    ASSUME Flushed, NEW j \in Cutoffs, Audits(j)
    PROVE  Flushed'
  <1>1. CASE UNCHANGED auditVars
    BY <1>1 DEF Flushed, auditVars
  <1>2. CASE Logged(j)
    <2>1. CASE UNCHANGED auditVars
      BY <2>1 DEF Flushed, auditVars
    <2>2. CASE pending' = [pending EXCEPT ![j] = @ + 1] /\ flusher' = [flusher EXCEPT ![j] = TRUE]
      <3>1. pending' \in [Cutoffs -> Nat] /\ \A i \in Cutoffs \ {j} : pending'[i] = pending[i]
        BY <2>2 DEF Flushed
      <3>2. flusher' \in [Cutoffs -> BOOLEAN] /\ flusher'[j] /\ \A i \in Cutoffs \ {j} : flusher'[i] = flusher[i]
        BY <2>2 DEF Flushed
      <3> QED BY <3>1, <3>2 DEF Flushed
    <2> QED BY <1>2, <2>1, <2>2 DEF Logged
  <1> QED BY <1>1, <1>2 DEF Audits

LEMMA RetriesTended ==
    ASSUME Tended, NEW j \in Cutoffs, Repeats(j)
    PROVE  Tended' /\ \A i \in Cutoffs : worker[i] => worker'[i]
  <1>1. CASE UNCHANGED retryVars
    BY <1>1 DEF Tended, retryVars
  <1>2. ASSUME NEW kind \in Kinds, Schedule(j, kind)
        PROVE  Tended' /\ \A i \in Cutoffs : worker[i] => worker'[i]
    <2>1. CASE j \in Retrying
      <3>1. worker' = [worker EXCEPT ![j] = TRUE] /\ \E q : tasks' = [tasks EXCEPT ![j] = q]
        BY <1>2, <2>1 DEF Schedule
      <3> QED BY <3>1 DEF Tended
    <2>2. CASE j \notin Retrying
      BY <1>2, <2>2 DEF Schedule, Tended, retryVars
    <2> QED BY <2>1, <2>2
  <1> QED BY <1>1, <1>2 DEF Repeats

LEMMA CallIsNoWorker ==
    ASSUME NEW i, NEW j
    PROVE  Call(i) # Worker(j)
  BY DEF Call, Worker

LEMMA MovesServed ==
    ASSUME Truthful, Served, NEW t \in Threads, Active(t), Moves(t), Audits(Job(t)), Repeats(Job(t))
    PROVE  Served'
  <1>1. Job(t) \in Cutoffs
    BY ThreadHasJob
  <1>2. Flushed' /\ Tended' /\ \A i \in Cutoffs : worker[i] => worker'[i]
    BY <1>1, AuditsFlushed, RetriesTended DEF Served
  <1>3. AtWork'
    <2> SUFFICES ASSUME NEW j \in Retrying, thread'[Worker(j)].at # "idle" PROVE worker'[j]
      BY DEF AtWork, Worker
    <2>1. CASE t = Worker(j)
      <3>1. thread[t].at # "idle"
        BY <2>1, CallIsNoWorker DEF Active
      <3> QED BY <1>2, <2>1, <3>1, WorkerIsThread DEF Served, AtWork
    <2>2. CASE t # Worker(j)
      <3>1. thread'[Worker(j)] = thread[Worker(j)]
        BY <2>2 DEF Moves, Truthful
      <3> QED BY <1>2, <3>1, WorkerIsThread DEF Served, AtWork
    <2> QED BY <2>1, <2>2
  <1> QED BY <1>2, <1>3 DEF Served

LEMMA HelpersMove ==
    ASSUME NEW t
    PROVE  /\ \A r : Goes(t, r) => Moves(t)
           /\ Fails(t) => Moves(t)
           /\ Unrecorded(t) => Moves(t) /\ Audits(Job(t))
           /\ Unknown(t) => Moves(t)
           /\ Refused(Job(t)) => Audits(Job(t))
           /\ \A kind \in Kinds : Troubled(t, kind) => Moves(t) /\ Repeats(Job(t))
           /\ Logged(Job(t)) => Audits(Job(t))
           /\ UNCHANGED auditVars => Audits(Job(t))
           /\ UNCHANGED retryVars => Repeats(Job(t))
  BY DEF Goes, Fails, Unrecorded, Refused, Unknown, Troubled, Moves, Audits, Repeats

LEMMA RequestServed ==
    ASSUME Truthful, Served, NEW t \in Threads,
           \/ Discover(t) \/ Remembered(t) \/ Reused(t) \/ Invalid(t) \/ Quarantine(t) \/ Unusable(t)
           \/ Missed(t) \/ Index(t) \/ Fetch(t) \/ Conclude(t) \/ Store(t) \/ PutAside(t) \/ Put(t)
           \/ Complete(t)
    PROVE  Served'
  <1>1. CASE Discover(t)
    BY <1>1, HelpersMove, MovesServed DEF Discover, At, Active, Kinds
  <1>2. CASE Remembered(t)
    BY <1>2, HelpersMove, MovesServed DEF Remembered, At, Active
  <1>3. CASE Reused(t)
    BY <1>3, HelpersMove, MovesServed DEF Reused, At, Active
  <1>4. CASE Invalid(t)
    BY <1>4, HelpersMove, MovesServed DEF Invalid, At, Active
  <1>5. CASE Quarantine(t)
    BY <1>5, HelpersMove, MovesServed DEF Quarantine, MovesAside, At, Active
  <1>13. CASE Unusable(t)
    BY <1>13, HelpersMove, MovesServed DEF Unusable, At, Active
  <1>6. CASE Missed(t)
    BY <1>6, HelpersMove, MovesServed DEF Missed, At, Active
  <1>7. CASE Index(t)
    BY <1>7, HelpersMove, MovesServed DEF Index, At, Active, Kinds
  <1>8. CASE Fetch(t)
    BY <1>8, HelpersMove, MovesServed DEF Fetch, UnrecordedCapture, At, Active
  <1>9. CASE Conclude(t)
    BY <1>9, HelpersMove, MovesServed DEF Conclude, At, Active, Kinds
  <1>10. CASE Store(t)
    BY <1>10, HelpersMove, MovesServed DEF Store, At, Active
  <1>14. CASE PutAside(t)
    BY <1>14, HelpersMove, MovesServed DEF PutAside, MovesAside, At, Active
  <1>11. CASE Put(t)
    BY <1>11, HelpersMove, MovesServed DEF Put, At, Active
  <1>12. CASE Complete(t)
    <2>1. Logged(Job(t)) \/ UNCHANGED auditVars \/ Unrecorded(t)
      BY <1>12, ThreadHasJob DEF Complete, Threads, Call, Worker, Job
    <2> QED BY <1>12, <2>1, HelpersMove, MovesServed DEF Complete, At, Active
  <1> QED BY <1>1, <1>2, <1>3, <1>4, <1>5, <1>6, <1>7, <1>8, <1>9, <1>10, <1>11, <1>12,
         <1>13, <1>14

LEMMA BeginServed ==
    ASSUME Truthful, Served, NEW j \in Cutoffs, NEW kind \in Kinds, Begin(j, kind)
    PROVE  Served'
  <1>1. Call(j) \in Threads /\ Job(Call(j)) = j /\ Active(Call(j))
    BY CallIsThread DEF Active
  <1>2. Moves(Call(j)) /\ Audits(Job(Call(j))) /\ Repeats(Job(Call(j)))
    BY <1>1, HelpersMove DEF Begin
  <1> QED BY <1>1, <1>2, MovesServed

\* Only a living worker takes a task up.
LEMMA RetryServed ==
    ASSUME Truthful, Served, NEW j \in Retrying, NEW kind \in Kinds, Retry(j, kind)
    PROVE  Served'
  <1>1. worker[j] /\ Logged(j) /\ UNCHANGED retryVars /\ Moves(Worker(j))
    BY HelpersMove DEF Retry
  <1>2. Flushed' /\ Tended'
    BY <1>1, WorkerIsThread, AuditsFlushed DEF Served, Audits, Tended, retryVars
  <1>3. AtWork'
    BY <1>1, WorkerIsThread DEF Moves, Truthful, Served, AtWork, Worker, retryVars
  <1> QED BY <1>2, <1>3 DEF Served

LEMMA RetriedServed ==
    ASSUME Truthful, Served, NEW j \in Retrying, Retried(j)
    PROVE  Served'
  <1>1. worker[j] /\ Moves(Worker(j)) /\ UNCHANGED <<worker, pending, flusher>>
    BY HelpersMove DEF Retried, At, Served, AtWork, auditVars
  <1>2. tasks' = tasks \/ \E q : tasks' = [tasks EXCEPT ![j] = q]
    BY DEF Retried
  <1>3. Flushed' /\ Tended'
    BY <1>1, <1>2, WorkerIsThread DEF Served, Flushed, Tended
  <1>4. AtWork'
    BY <1>1, WorkerIsThread DEF Moves, Truthful, Served, AtWork, Worker
  <1> QED BY <1>3, <1>4 DEF Served

LEMMA ExpireServed ==
    ASSUME Served, NEW j \in Retrying, NEW kind \in Kinds, Expire(j, kind)
    PROVE  Served'
  <1>1. worker[j] /\ UNCHANGED <<thread, worker, pending, flusher>>
    BY DEF Expire, auditVars
  <1>2. \E q : tasks' = [tasks EXCEPT ![j] = q]
    BY DEF Expire
  <1> QED BY <1>1, <1>2, WorkerIsThread DEF Served, Flushed, Tended, AtWork

\* A worker ends with no task left, under the lock that schedules.
LEMMA WorkerEndsServed ==
    ASSUME Served, NEW j \in Retrying, WorkerEnds(j)
    PROVE  Served'
  <1>1. /\ tasks[j] = <<>> /\ thread[Worker(j)].at = "idle" /\ worker' = [worker EXCEPT ![j] = FALSE]
        /\ UNCHANGED <<thread, tasks, pending, flusher>>
    BY DEF WorkerEnds, Workless, At, auditVars
  <1> QED BY <1>1, WorkerIsThread DEF Served, Flushed, Tended, AtWork

LEMMA FlushServed ==
    ASSUME Served, NEW j \in Cutoffs, Flush(j) \/ FlushedAll(j)
    PROVE  Served'
  <1>1. UNCHANGED <<thread, tasks, worker>>
    BY DEF Flush, FlushedAll, retryVars
  <1>2. CASE Flush(j)
    <2>1. pending' = [pending EXCEPT ![j] = 0] /\ flusher' = flusher
      BY <1>2 DEF Flush
    <2>2. Flushed'
      BY <2>1 DEF Served, Flushed
    <2> QED BY <1>1, <2>2 DEF Served, Tended, AtWork
  <1>3. CASE FlushedAll(j)
    <2>1. flusher' = [flusher EXCEPT ![j] = FALSE] /\ pending' = pending /\ pending[j] = 0
      BY <1>3 DEF FlushedAll
    <2>2. Flushed'
      <3>1. flusher' \in [Cutoffs -> BOOLEAN] /\ \A i \in Cutoffs \ {j} : flusher'[i] = flusher[i]
        BY <2>1 DEF Served, Flushed
      <3> QED BY <2>1, <3>1 DEF Served, Flushed
    <2> QED BY <1>1, <2>2 DEF Served, Tended, AtWork
  <1> QED BY <1>2, <1>3

LEMMA RestartServed ==
    ASSUME Truthful, Served, NEW j \in Cutoffs, Restart(j)
    PROVE  Served'
  <1>1. Flushed'
    BY DEF Restart, Served, Flushed
  <1>2. Tended'
    BY DEF Restart, Served, Tended
  <1>3. AtWork'
    <2> SUFFICES ASSUME NEW i \in Retrying, thread'[Worker(i)].at # "idle" PROVE worker'[i]
      BY DEF AtWork, Worker
    <2>1. Worker(i) \in Threads /\ Job(Worker(i)) = i /\ i \in Cutoffs
      BY WorkerIsThread
    <2>2. i # j
      BY <2>1 DEF Restart, Resting
    <2>3. worker[i]
      BY <2>1, <2>2 DEF Restart, Served, AtWork
    <2> QED BY <2>1, <2>2, <2>3 DEF Restart, Served, Tended
  <1> QED BY <1>1, <1>2, <1>3 DEF Served

LEMMA InitServed == Init => Served
  <1> SUFFICES ASSUME Init PROVE Served OBVIOUS
  <1>1. AtWork
    BY WorkerIsThread DEF Init, AtWork, Resting
  <1> QED BY <1>1 DEF Init, Served, Flushed, Tended

LEMMA NextServed == Truthful /\ Served /\ [Next]_vars => Served'
  <1> SUFFICES ASSUME Truthful, Served, [Next]_vars PROVE Served' OBVIOUS
  <1>1. CASE UNCHANGED <<thread, tasks, worker, pending, flusher>>
    BY <1>1 DEF Served, Flushed, Tended, AtWork
  <1>2. CASE UNCHANGED vars
    BY <1>1, <1>2 DEF vars, retryVars, auditVars
  <1>3. CASE Next
    <2>1. CASE Evict
      BY <1>1, <2>1 DEF Evict, retryVars, auditVars
    <2>2. ASSUME NEW j \in Cutoffs, Flush(j) \/ FlushedAll(j) \/ Forget(j) \/ Restart(j)
          PROVE  Served'
      <3>1. CASE Forget(j)
        BY <1>1, <3>1 DEF Forget, retryVars, auditVars
      <3> QED BY <2>2, <3>1, FlushServed, RestartServed
    <2>3. ASSUME NEW j \in Cutoffs, NEW kind \in Kinds, Begin(j, kind) PROVE Served'
      BY <2>3, BeginServed
    <2>4. ASSUME NEW j \in Retrying, NEW kind \in Kinds, Retry(j, kind) \/ Expire(j, kind)
          PROVE  Served'
      BY <2>4, RetryServed, ExpireServed
    <2>5. ASSUME NEW j \in Retrying, Retried(j) \/ WorkerEnds(j) PROVE Served'
      BY <2>5, RetriedServed, WorkerEndsServed
    <2>6. ASSUME NEW t \in Threads,
                 \/ Discover(t) \/ Remembered(t) \/ Reused(t) \/ Invalid(t) \/ Quarantine(t) \/ Unusable(t)
                 \/ Missed(t) \/ Index(t) \/ Fetch(t) \/ Conclude(t) \/ Store(t) \/ PutAside(t) \/ Put(t)
                 \/ Complete(t)
          PROVE  Served'
      BY <2>6, RequestServed
    <2> QED BY <1>3, <2>1, <2>2, <2>3, <2>4, <2>5, <2>6 DEF Next, Step
  <1> QED BY <1>2, <1>3

(***************************************************************************)
(* A task and an audit record that waits have a live thread, for any       *)
(* number of jobs and any bounds of the two queues: both threads end under *)
(* the lock that adds work (BackgroundRetries, AuditLog).                  *)
(***************************************************************************)
THEOREM ServedAlways == Spec => []NothingWaitsAlone
  <1>1. Served => NothingWaitsAlone
    BY DEF Served, Flushed, Tended, NothingWaitsAlone
  <1>2. Spec => []Served
    BY InitServed, NextServed, TruthfulAlways, PTL DEF Spec
  <1> QED BY <1>1, <1>2, PTL

=============================================================================
