------------------------------- MODULE Broker -------------------------------
(***************************************************************************)
(* One job's retrieval server: StdioMCPServer of                           *)
(* retrieval/historical_search.py with the network budget and the request  *)
(* loop of retrieval/historical_transport.py.                              *)
(*                                                                         *)
(* The reader thread takes calls, refuses them or queues them; one worker  *)
(* thread runs each active call; a timer thread per call answers a call    *)
(* whose time is over.  They meet at the server's state lock: every step   *)
(* below is what one thread does between two releases of that lock or      *)
(* between two requests.  What a request finds is the module Archive's     *)
(* concern; here a request succeeds, fails, or can be tried again.         *)
(*                                                                         *)
(* Times are relative: call[c].left is the time to the deadline of the     *)
(* call's budget, call[c].extra what waiting for a shared slot may still   *)
(* add to it, call[c].timer the time until its timer runs.                 *)
(***************************************************************************)
EXTENDS Integers, Sequences, FiniteSets, SequencesExt

CONSTANTS
    Calls,          \* the client's tool calls
    MaxActive,      \* calls that run at once
    MaxQueued,      \* MAX_QUEUED
    Timeout,        \* operation_timeout: a call's network budget
    MaxCall,        \* MAX_CALL_SECONDS: what waiting extends it to
    Grace,          \* RESPONSE_GRACE_SECONDS
    Retries,        \* retries of one request
    Delays,         \* pauses a failed request can ask for
    Off             \* no timer, no pause

ASSUME BrokerConstants ==
    /\ MaxActive \in Nat \ {0} /\ MaxQueued \in Nat /\ Retries \in Nat
    /\ Timeout \in Nat \ {0} /\ MaxCall \in Nat /\ Timeout <= MaxCall
    /\ Grace \in Nat \ {0} /\ Delays \subseteq Nat \ {0} /\ Off \notin Int

VARIABLES
    initialized,    \* the client has shaken hands
    call,           \* what the server knows of each call
    active,         \* _active: calls whose worker has not exited
    queued,         \* _queued: accepted calls in order of arrival
    work,           \* where each call's worker is
    serving,        \* the reader thread
    closed,         \* _closed: nothing more is written
    pipe            \* whether the client still reads

brokerVars == <<initialized, call, active, queued, work, serving, closed, pipe>>

Fresh == [state |-> "unsent", cancelled |-> FALSE, responded |-> FALSE,
          left |-> Timeout, extra |-> MaxCall - Timeout, timer |-> Off, replies |-> 0]
Idle == [at |-> "none", attempt |-> 0, nap |-> Off]

BrokerInit ==
    /\ initialized = FALSE
    /\ call = [c \in Calls |-> Fresh]
    /\ active = {} /\ queued = <<>>
    /\ work = [c \in Calls |-> Idle]
    /\ serving = [at |-> "reading", joining |-> {}, whom |-> Off, patience |-> Off]
    /\ closed = FALSE /\ pipe = "open"

-----------------------------------------------------------------------------
(* Helpers *)

ResponseDeadline(c) == call[c].left + Grace

\* A line is written unless the server is closed; every writer of a call's answer marks it.
Responded(r) == [r EXCEPT !.responded = TRUE, !.timer = Off,
                          !.replies = IF pipe = "open" /\ ~closed THEN @ + 1 ELSE @]

\* Places taken: a worker keeps its place until it exits, whatever became of its call.
OccupiedByUnanswered == Cardinality({c \in active : ~call[c].responded})
Occupied == Cardinality(active)

\* A timer that runs before the response deadline is set again for what remains.
RearmedNever(c) == Off
Rearmed(c) == ResponseDeadline(c)

\* A call that is over keeps no clock.
Over(r) == [r EXCEPT !.left = Timeout, !.extra = MaxCall - Timeout, !.timer = Off]
Dropped(r) == [Over(r) EXCEPT !.cancelled = TRUE]

SettledByClient(c) == call[c].cancelled \/ closed
Settled(c) == call[c].cancelled \/ call[c].responded \/ closed

\* A write to a client that left raises, and the thread that wrote closes the server.
WrittenBy(c) == closed' = (closed \/ (pipe = "gone" /\ ~Settled(c)))

Starting == [at |-> "begin", attempt |-> 0, nap |-> Off]

(***************************************************************************)
(* What _admit makes of the queue q, with one worker's place free: entries *)
(* whose time is over are dropped (their own timer answers them), those in *)
(* failed could not be given a thread and are answered, the next one       *)
(* starts.  started is empty when the queue runs out.                      *)
(***************************************************************************)
Startable(c) == ~call[c].cancelled /\ ~call[c].responded /\ call[c].left > 0

Admission(q) ==
    LET ready == {i \in DOMAIN q : Startable(q[i])}
        Ahead(i) == {q[k] : k \in {k \in ready : k < i}}
    IN  {[started |-> {q[i]}, failed |-> Ahead(i), rest |-> SubSeq(q, i + 1, Len(q))] : i \in ready}
          \cup {[started |-> {}, failed |-> Ahead(Len(q) + 1), rest |-> <<>>]}

-----------------------------------------------------------------------------
(* The reader thread *)

\* initialize: nothing but ping is answered before it.
Initialize ==
    /\ serving.at = "reading" /\ ~initialized
    /\ initialized' = TRUE
    /\ UNCHANGED <<call, active, queued, work, serving, closed, pipe>>

\* A tools/call before the handshake or with invalid arguments is answered by handle alone.
Turned(c) ==
    /\ serving.at = "reading" /\ pipe = "open" /\ call[c].state = "unsent" /\ ~initialized
    /\ call' = [call EXCEPT ![c] = [Responded(@) EXCEPT !.state = "refused"]]
    /\ UNCHANGED <<initialized, active, queued, work, serving, closed, pipe>>

\* _dispatch refuses: no room to wait, no audit record, or no timer thread.
Refuse(c) ==
    /\ serving.at = "reading" /\ pipe = "open" /\ call[c].state = "unsent" /\ initialized
    /\ call' = [call EXCEPT ![c] = [Responded(@) EXCEPT !.state = "refused"]]
    /\ UNCHANGED <<initialized, active, queued, work, serving, closed, pipe>>

\* _dispatch accepts: the call's timer starts, and the call starts or waits its turn.
Accept(c) ==
    /\ serving.at = "reading" /\ call[c].state = "unsent" /\ initialized
    /\ ~(Occupied >= MaxActive /\ Len(queued) >= MaxQueued)
    /\ call' = [call EXCEPT ![c].state = "taken", ![c].timer = ResponseDeadline(c)]
    /\ IF Occupied >= MaxActive
       THEN /\ queued' = Append(queued, c)
            /\ UNCHANGED <<active, work>>
       ELSE /\ active' = active \cup {c}
            /\ work' = [work EXCEPT ![c] = Starting]
            /\ UNCHANGED queued
    /\ UNCHANGED <<initialized, serving, closed, pipe>>

\* _start when the worker thread cannot be created.
NoThread(c) ==
    /\ serving.at = "reading" /\ pipe = "open" /\ call[c].state = "unsent" /\ initialized
    /\ Occupied < MaxActive
    /\ call' = [call EXCEPT ![c] = [Responded(@) EXCEPT !.state = "taken"]]
    /\ UNCHANGED <<initialized, active, queued, work, serving, closed, pipe>>

\* _cancel: a failed audit record changes nothing here.
Cancel(c) ==
    /\ serving.at = "reading"
    /\ c \in active \cup Range(queued)
    /\ queued' = IF c \in active THEN queued ELSE RemoveFirst(queued, c)
    /\ call' = IF call[c].responded THEN call
               ELSE [call EXCEPT ![c] = IF c \in active THEN [@ EXCEPT !.cancelled = TRUE, !.timer = Off]
                                        ELSE Dropped(@)]
    /\ UNCHANGED <<initialized, active, work, serving, closed, pipe>>

\* The client stops reading, at any time.
ClientGone ==
    /\ pipe = "open" /\ serving.at = "reading"
    /\ pipe' = "gone"
    /\ UNCHANGED <<initialized, call, active, queued, work, serving, closed>>

\* End of input: calls that never started are dropped unanswered, the running ones are joined.
EndOfInput ==
    /\ serving.at = "reading"
    /\ call' = [c \in Calls |-> IF c \in Range(queued)
                                THEN Dropped(call[c])
                                ELSE call[c]]
    /\ queued' = <<>>
    /\ serving' = [at |-> "joining", joining |-> active, whom |-> Off, patience |-> Off]
    /\ UNCHANGED <<initialized, active, work, closed, pipe>>

\* join: one thread after the other, each for the time its answer has at that moment.
JoinNext(c) ==
    /\ serving.at = "joining" /\ serving.whom = Off /\ c \in serving.joining
    /\ serving' = [serving EXCEPT !.joining = @ \ {c}, !.whom = c,
                                  !.patience = IF ResponseDeadline(c) > 0 THEN ResponseDeadline(c) ELSE 0]
    /\ UNCHANGED <<initialized, call, active, queued, work, closed, pipe>>

\* The thread being joined has ended, or the time for it has.
Joined ==
    /\ serving.at = "joining" /\ serving.whom # Off
    /\ serving.patience = 0 \/ serving.whom \notin active
    /\ serving' = [serving EXCEPT !.whom = Off, !.patience = Off]
    /\ UNCHANGED <<initialized, call, active, queued, work, closed, pipe>>

\* The end of serve.
Close ==
    /\ serving.at = "joining" /\ serving.whom = Off /\ serving.joining = {}
    /\ serving' = [serving EXCEPT !.at = "ended"]
    /\ closed' = TRUE
    /\ call' = [c \in Calls |-> IF c \in active
                                THEN Dropped(call[c])
                                ELSE call[c]]
    /\ UNCHANGED <<initialized, active, queued, work, pipe>>

\* A write of the reader's own fails: serve ends without joining anyone.
BrokenPipe ==
    /\ serving.at = "reading" /\ pipe = "gone"
    /\ serving' = [serving EXCEPT !.at = "ended"]
    /\ closed' = TRUE /\ queued' = <<>>
    /\ call' = [c \in Calls |-> IF c \in active \cup Range(queued)
                                THEN Dropped(call[c])
                                ELSE call[c]]
    /\ UNCHANGED <<initialized, active, work, pipe>>

-----------------------------------------------------------------------------
(* The timer of a call *)

(***************************************************************************)
(* _deadline: an answered, cancelled or dropped call needs none; a budget  *)
(* that moved later arms the timer again; otherwise the call is answered.  *)
(* Its worker keeps its place until it exits.                              *)
(***************************************************************************)
Deadline(c) ==
    /\ call[c].timer = 0 /\ serving.at # "ended"
    /\ IF Settled(c) THEN /\ call' = [call EXCEPT ![c].timer = Off]
                          /\ UNCHANGED <<queued, closed>>
       ELSE IF ResponseDeadline(c) > 0
       THEN /\ call' = [call EXCEPT ![c].timer = Rearmed(c)]
            /\ UNCHANGED <<queued, closed>>
       ELSE /\ call' = [call EXCEPT ![c] = IF c \in active THEN Responded(@) ELSE Over(Responded(@))]
            /\ queued' = RemoveFirst(queued, c)
            /\ WrittenBy(c)
    /\ UNCHANGED <<initialized, active, work, serving, pipe>>

-----------------------------------------------------------------------------
(* The worker of a call *)

\* When serve has ended the process exits, and its threads with it.
Doing(c, where) == c \in active /\ work[c].at = where /\ serving.at # "ended"
WorkerAt(c, where) == work' = [work EXCEPT ![c] = [Starting EXCEPT !.at = where]]
OnlyWork == UNCHANGED <<initialized, call, active, queued, serving, closed, pipe>>

\* What a worker may do between requests: another request, reading text, or its answer.
Onward(c) == \E where \in {"requesting", "reading", "answering"} : WorkerAt(c, where)

\* The first look at the state lock, then a new engine, which may not load.
BeginRun(c) ==
    /\ Doing(c, "begin")
    /\ \E where \in IF Settled(c) THEN {"answering"} ELSE {"loaded", "answering"} :
         WorkerAt(c, where)
    /\ OnlyWork

\* The second look, and _operation: without time left nothing is asked.
Operate(c) ==
    /\ Doing(c, "loaded")
    /\ IF Settled(c) \/ call[c].left <= 0 THEN WorkerAt(c, "answering") ELSE Onward(c)
    /\ OnlyWork

\* get: an attempt begins by waiting for the host's shared slot.
Attempt(c) ==
    /\ Doing(c, "requesting")
    /\ work' = [work EXCEPT ![c] = IF call[c].left > 0
                                   THEN [at |-> "waiting", attempt |-> @.attempt + 1, nap |-> Off]
                                   ELSE [Starting EXCEPT !.at = "answering"]]
    /\ OnlyWork

\* _attempt gets the slot, or learns that the provider is paused.
Slot(c) ==
    /\ Doing(c, "waiting")
    /\ \/ work' = [work EXCEPT ![c].at = "asking"]
       \/ Onward(c)
    /\ OnlyWork

\* _bounded_attempt gives up on its helper thread when the budget is spent.
Abandon(c) ==
    /\ Doing(c, "waiting") \/ Doing(c, "asking")
    /\ call[c].left <= 0
    /\ WorkerAt(c, "answering")
    /\ OnlyWork

\* _request answers in time, or fails for good: the operation goes on or ends.
Response(c) ==
    /\ Doing(c, "asking") /\ call[c].left > 0
    /\ Onward(c)
    /\ OnlyWork

\* A failure worth repeating, unless the attempts or the time would not do.
Failure(c) ==
    /\ Doing(c, "asking") /\ call[c].left > 0
    /\ work[c].attempt <= Retries
    /\ \E d \in Delays :
         IF d >= call[c].left THEN WorkerAt(c, "answering")
         ELSE work' = [work EXCEPT ![c].at = "napping", ![c].nap = d]
    /\ OnlyWork

Wake(c) ==
    /\ Doing(c, "napping") /\ work[c].nap = 0
    /\ work' = [work EXCEPT ![c].at = "requesting", ![c].nap = Off]
    /\ OnlyWork

\* Text is extracted without a deadline.
Read(c) ==
    /\ Doing(c, "reading")
    /\ Onward(c)
    /\ OnlyWork

(***************************************************************************)
(* The end of _run: the call is answered unless it was already, and the    *)
(* place goes to the next queued call whose time is not over.              *)
(***************************************************************************)
Finish(c) ==
    /\ Doing(c, "answering")
    /\ WrittenBy(c)
    /\ \E next \in IF closed' \/ Occupied > MaxActive
                   THEN {[started |-> {}, failed |-> {}, rest |-> queued]} ELSE Admission(queued) :
         /\ call' = [x \in Calls |->
                       IF x = c
                       THEN Over(IF Settled(c) THEN call[c] ELSE Responded(call[c]))
                       ELSE IF x \in next.failed THEN Over(Responded(call[x]))
                       ELSE call[x]]
         /\ active' = (active \ {c}) \cup next.started
         /\ queued' = next.rest
         /\ work' = [x \in Calls |-> IF x = c THEN Idle
                                     ELSE IF x \in next.started THEN Starting ELSE work[x]]
    /\ UNCHANGED <<initialized, serving, pipe>>

-----------------------------------------------------------------------------
(* Time *)

(***************************************************************************)
(* Budget: while a request waits for a slot the deadline moves with the    *)
(* clock, up to the hard limit; otherwise the clock uses it up.            *)
(***************************************************************************)
Counting(c) == call[c].state = "taken" /\ (c \in active \/ ~Settled(c))
Down(n) == IF n = Off \/ n = 0 THEN n ELSE n - 1

Aged(c) ==
    LET r == call[c]
        credited == work[c].at = "waiting" /\ r.extra > 0
    IN  [r EXCEPT !.left = IF credited \/ @ = -Grace THEN @ ELSE @ - 1,
                  !.extra = IF credited THEN @ - 1 ELSE @,
                  !.timer = Down(@)]

Tick ==
    /\ serving.at # "ended" /\ \E c \in Calls : Counting(c)
    /\ call' = [c \in Calls |-> IF Counting(c) THEN Aged(c) ELSE call[c]]
    /\ work' = [c \in Calls |-> [work[c] EXCEPT !.nap = Down(@)]]
    /\ serving' = [serving EXCEPT !.patience = Down(@)]
    /\ UNCHANGED <<initialized, active, queued, closed, pipe>>

BrokerNext ==
    \/ Initialize \/ ClientGone \/ EndOfInput \/ Joined \/ Close \/ BrokenPipe \/ Tick
    \/ \E c \in Calls :
         \/ Turned(c) \/ Refuse(c) \/ Accept(c) \/ NoThread(c) \/ Cancel(c) \/ JoinNext(c)
         \/ Deadline(c)
         \/ BeginRun(c) \/ Operate(c) \/ Attempt(c) \/ Slot(c) \/ Abandon(c)
         \/ Response(c) \/ Failure(c) \/ Wake(c) \/ Read(c) \/ Finish(c)

(***************************************************************************)
(* Timer threads run and time passes.  Nothing is assumed of the workers:  *)
(* reading a document may never end.                                       *)
(***************************************************************************)
BrokerSpec ==
    /\ BrokerInit /\ [][BrokerNext]_brokerVars
    /\ WF_brokerVars(Tick) /\ \A c \in Calls : WF_brokerVars(Deadline(c))

-----------------------------------------------------------------------------
(* Properties *)

(***************************************************************************)
(* The worker, the timer, a cancellation and the end of input race for a   *)
(* call: at most one of them answers it, and none once it was cancelled or *)
(* the server was closed (the checks of _run and _deadline).               *)
(***************************************************************************)
AnsweredOnce ==
    [][\A c \in Calls : (call'[c].replies # call[c].replies) =>
         /\ call[c].replies = 0 /\ call'[c].replies = 1
         /\ ~call[c].cancelled /\ ~closed]_brokerVars

(***************************************************************************)
(* Never more than max_active workers run, the ones whose calls were long  *)
(* answered by their timers or cancelled included: "We never admit         *)
(* replacement work over a live call" (_deadline).                         *)
(***************************************************************************)
NeverCrowded == Cardinality({c \in Calls : work[c].at # "none"}) <= MaxActive

(***************************************************************************)
(* "Every call is answered within its budget": a call the server took is   *)
(* answered in the end, unless it is cancelled or the client leaves,       *)
(* although a worker may read for ever, calls queue behind it, and waiting *)
(* for slots moves the deadline after the timer was set.                   *)
(***************************************************************************)
EveryCallAnswered ==
    \A c \in Calls : (call[c].state = "taken")
                       ~> (call[c].responded \/ call[c].cancelled \/ closed)
=============================================================================
