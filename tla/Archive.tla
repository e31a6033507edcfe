------------------------------ MODULE Archive -------------------------------
(***************************************************************************)
(* What the jobs' retrieval servers find: WaybackProvider, BackgroundRe-   *)
(* tries and AuditLog of retrieval/historical_search.py over the shared    *)
(* CaptureCache of retrieval/historical_cache.py.                          *)
(*                                                                         *)
(* Jobs have different cutoff dates and read captures of one source; a     *)
(* capture is its date, and a job is named by its cutoff.  Each job has a  *)
(* call in progress at most and, in Retrying, the worker that repeats      *)
(* failed requests in the background.  Calls and workers of a job share    *)
(* its memory caches; all jobs share the persistent entry.  Each step is   *)
(* one request, or one locked access to a cache with the audit record that *)
(* goes with it.  How a request waits, fails and is repeated is the        *)
(* module Broker's concern.                                                *)
(***************************************************************************)
EXTENDS Integers, Sequences, FiniteSets, SequencesExt

CONSTANTS
    Cutoffs,        \* one job for each
    Captures,       \* dates of the source's captures
    Readables,      \* what the captures with readable text that verify may be
    Placeholders,   \* captures of one placeholder page, all with one digest
    IndexRows,      \* newest captures the index lists before a date
    Retrying,       \* jobs whose server has a BackgroundRetries
    MaxTasks, MaxPending,
    Searching,      \* bound: jobs that search for candidates
    Unwell,         \* bound: jobs whose disk may refuse audit records
    MaxBusy,        \* bound: requests in progress at once
    None, Bad       \* no capture; an entry that does not verify

ASSUME ArchiveConstants ==
    /\ Cutoffs \subseteq Nat /\ Captures \subseteq Nat /\ Retrying \cup Searching \subseteq Cutoffs
    /\ Readables \subseteq SUBSET Captures /\ Unwell \subseteq Cutoffs
    /\ Placeholders \subseteq Captures /\ \A S \in Readables : S \cap Placeholders = {}
    /\ IndexRows \in Nat /\ MaxTasks \in Nat \ {0} /\ MaxPending \in Nat \ {0} /\ MaxBusy \in Nat
    /\ None \notin Captures /\ Bad \notin Captures

\* Captures are finitely many: some are the newest of any of them.
ASSUME CapturesHaveNewest ==
    \A S \in SUBSET Captures : S # {} => \E c \in S : \A d \in S : d <= c

Kinds == {"archive", "discovery"}
Call(j) == <<j, "call">>
Worker(j) == <<j, "retry">>
Threads == {Call(j) : j \in Cutoffs} \cup {Worker(j) : j \in Retrying}

VARIABLES
    good,           \* the captures that can be read, which never change
    thread,         \* where each request is
    stored,         \* the source's entry of the persistent cache
    memory,         \* cache: the capture each job holds in memory
    absent,         \* negative_cache: the remembered failure of each job; as history, the readable
                    \* captures whose requests were rejected stand for it
    known,          \* discovery_cache: the query's candidates are remembered
    tasks,          \* requests each job repeats in the background, oldest first
    worker,         \* whether the background worker of each job is alive
    pending,        \* audit records of each job that wait for the disk
    flusher         \* whether the thread that writes them is alive

jobVars == <<memory, absent, known>>
retryVars == <<tasks, worker>>
auditVars == <<pending, flusher>>
vars == <<good, thread, stored, jobVars, retryVars, auditVars>>

Resting == [at |-> "idle", kind |-> "archive", todo |-> {}, trouble |-> FALSE, skip |-> FALSE,
            have |-> None, rejected |-> {}, lost |-> {}]

Init ==
    /\ good \in Readables
    /\ thread = [t \in Threads |-> Resting]
    /\ stored = None
    /\ memory = [j \in Cutoffs |-> None]
    /\ absent = [j \in Cutoffs |-> None]
    /\ known = [j \in Cutoffs |-> FALSE]
    /\ tasks = [j \in Cutoffs |-> <<>>]
    /\ worker = [j \in Cutoffs |-> FALSE]
    /\ pending = [j \in Cutoffs |-> 0]
    /\ flusher = [j \in Cutoffs |-> FALSE]

-----------------------------------------------------------------------------
(* The archive, and the dates a job may see *)

Before(j, c) == c < j

Newest(S) == CHOOSE c \in S : \A d \in S : d <= c

\* The index: the newest captures before the cutoff, at most IndexRows of them.
Rows(j) ==
    LET old == {c \in Captures : Before(j, c)}
    IN  {c \in old : Cardinality({d \in old : d > c}) < IndexRows}

\* _cached_capture: an entry another job stored must be before this job's cutoff too.
UsableIfIntact(j, e) == e \in Captures
Usable(j, e) == e \in Captures /\ Before(j, e)

-----------------------------------------------------------------------------
(* The audit log *)

(***************************************************************************)
(* AuditLog.write: a record is written, or waits behind the ones that wait *)
(* already, and then a thread writes them later; a full backlog refuses    *)
(* it.                                                                     *)
(***************************************************************************)
Logged(j) ==
    \/ pending[j] = 0 /\ UNCHANGED auditVars
    \/ /\ pending[j] < MaxPending /\ j \in Unwell
       /\ pending' = [pending EXCEPT ![j] = @ + 1]
       /\ flusher' = [flusher EXCEPT ![j] = TRUE]

Refused(j) == pending[j] = MaxPending /\ UNCHANGED auditVars

\* flush_pending writes what waits; some other write may find the disk well first.
Flush(j) ==
    /\ flusher[j] /\ pending[j] > 0
    /\ pending' = [pending EXCEPT ![j] = 0]
    /\ UNCHANGED <<thread, stored, jobVars, retryVars, flusher>>

\* _retry_pending ends when nothing waits.
FlushedAll(j) ==
    /\ flusher[j] /\ pending[j] = 0
    /\ flusher' = [flusher EXCEPT ![j] = FALSE]
    /\ UNCHANGED <<thread, stored, jobVars, retryVars, pending>>

-----------------------------------------------------------------------------
(* Background retries: the task list *)

\* schedule: the oldest task gives way; a task asked for again is the newest.
Queue(q, kind) ==
    LET others == Remove(q, kind)
        room == IF Len(others) >= MaxTasks THEN Tail(others) ELSE others
    IN  Append(room, kind)

Schedule(j, kind) ==
    IF j \in Retrying
    THEN /\ tasks' = [tasks EXCEPT ![j] = Queue(@, kind)]
         /\ worker' = [worker EXCEPT ![j] = TRUE]
    ELSE UNCHANGED retryVars

\* The worker ends only under the lock that schedule takes, and with no task left.
WorklessBut(j) == Len(tasks[j]) <= 1
Workless(j) == tasks[j] = <<>>

-----------------------------------------------------------------------------
(* Requests *)

Job(t) == t[1]
At(t, where) == thread[t].at = where
Goes(t, r) == thread' = [thread EXCEPT ![t] = r]
To(t, where) == [thread[t] EXCEPT !.at = where]

\* A call is answered with a capture, or with an error after which it rests.
Fails(t) ==
    Goes(t, IF t = Call(Job(t)) THEN Resting
            ELSE [Resting EXCEPT !.at = "answered", !.kind = thread[t].kind])

\* A record that cannot be kept ends the whole request (audit_failure).
Unrecorded(t) == Refused(Job(t)) /\ Fails(t)

\* The loop over the captures does not take it for one more failed capture.
UnrecordedSkipped(t) ==
    /\ Refused(Job(t))
    /\ Goes(t, [thread[t] EXCEPT !.todo = @ \ {Newest(@)}, !.trouble = TRUE, !.lost = @ \cup {"capture"}])
UnrecordedCapture(t) == Unrecorded(t)

\* Trouble with one capture leaves open whether it could have been read.
InconclusiveOnce(t) == thread[t].trouble /\ ~thread[t].skip
Inconclusive(t) == thread[t].trouble

\* An operational failure: a call has the broker repeat the request in the background.
Troubled(t, kind) ==
    IF t = Call(Job(t)) THEN Fails(t) /\ Schedule(Job(t), kind)
    ELSE /\ Goes(t, [Resting EXCEPT !.at = "answered", !.kind = kind, !.trouble = TRUE])
         /\ UNCHANGED retryVars

Busy == Cardinality({t \in Threads : thread[t].at \notin {"idle", "answered"}})

\* search, open or find: the request is recorded before anything is looked up.
Begin(j, kind) ==
    LET t == Call(j)
    IN  /\ kind = "discovery" => j \in Searching
        /\ At(t, "idle") \/ At(t, "answered") \* a call's answer stands until the next one
        /\ Busy < MaxBusy
        /\ \/ /\ Logged(j)
              /\ Goes(t, [Resting EXCEPT !.at = IF kind = "discovery" THEN "discover" ELSE "look"])
           \/ Unrecorded(t)
        /\ UNCHANGED <<stored, jobVars, retryVars>>

(***************************************************************************)
(* candidates: remembered ones, or a discovery session, tried twice in a   *)
(* call.  No candidate survives that the archive does not confirm.         *)
(***************************************************************************)
Discover(t) ==
    LET j == Job(t)
    IN  /\ At(t, "discover")
        /\ \/ /\ known[j] /\ Logged(j)
              /\ Goes(t, To(t, "look"))
              /\ UNCHANGED <<known, retryVars>>
           \/ /\ ~known[j] /\ Logged(j)
              /\ Goes(t, To(t, IF t = Call(j) THEN "look" ELSE "answered"))
              /\ known' = [known EXCEPT ![j] = TRUE]
              /\ UNCHANGED retryVars
           \/ /\ ~known[j] /\ Logged(j)
              /\ Troubled(t, "discovery")
              /\ UNCHANGED known
           \/ /\ Unrecorded(t)
              /\ UNCHANGED <<known, retryVars>>
        /\ UNCHANGED <<stored, memory, absent>>

\* _open_capture: the capture in memory is used again.
Remembered(t) ==
    /\ At(t, "look") /\ memory[Job(t)] # None
    /\ Goes(t, [To(t, "complete") EXCEPT !.have = memory[Job(t)]])
    /\ UNCHANGED <<stored, jobVars, retryVars, auditVars>>

\* _cached_capture: the persistent entry, with the record of its use.
Reused(t) ==
    LET j == Job(t)
    IN  /\ At(t, "look") /\ memory[j] = None /\ Usable(j, stored)
        /\ \/ /\ Logged(j)
              /\ memory' = [memory EXCEPT ![j] = stored]
              /\ Goes(t, [To(t, "complete") EXCEPT !.have = stored])
           \/ /\ Unrecorded(t) /\ UNCHANGED memory
        /\ UNCHANGED <<stored, absent, known, retryVars>>

\* CaptureCache._move_aside: the record of it is kept, or its refusal ignored.
MovesAside(t, where) ==
    /\ stored' = None
    /\ \/ Logged(Job(t)) /\ Goes(t, To(t, where))
       \/ Refused(Job(t)) /\ Goes(t, [To(t, where) EXCEPT !.lost = @ \cup {"aside"}])

\* An entry that does not verify is moved aside in a step of its own.
Invalid(t) ==
    /\ At(t, "look") /\ memory[Job(t)] = None /\ stored = Bad
    /\ Goes(t, To(t, "quarantine"))
    /\ UNCHANGED <<stored, jobVars, retryVars, auditVars>>

Unknown(t) == IF absent[Job(t)] = None THEN Goes(t, To(t, "index")) ELSE Fails(t)

\* What is there by then is moved, unless it cannot be.
Quarantine(t) ==
    /\ At(t, "quarantine")
    /\ \/ stored # None /\ MovesAside(t, "unusable")
       \/ Goes(t, To(t, "unusable")) /\ UNCHANGED <<stored, auditVars>>
    /\ UNCHANGED <<jobVars, retryVars>>

\* _cache_miss records it in any case.
Unusable(t) ==
    /\ At(t, "unusable")
    /\ \/ Logged(Job(t)) /\ Unknown(t)
       \/ Unrecorded(t)
    /\ UNCHANGED <<stored, jobVars, retryVars>>

\* No entry of use to this job, or (recorded) the cache could not be locked in time.
Missed(t) ==
    /\ At(t, "look") /\ memory[Job(t)] = None
    /\ \/ /\ ~Usable(Job(t), stored) /\ stored # Bad
          /\ Unknown(t) /\ UNCHANGED auditVars
       \/ Logged(Job(t)) /\ Unknown(t)
       \/ Unrecorded(t)
    /\ UNCHANGED <<stored, jobVars, retryVars>>

\* The index is asked: its rows, none at all (not remembered), a failure, no audit record.
Index(t) ==
    /\ At(t, "index")
    /\ \/ /\ Logged(Job(t))
          /\ \/ /\ Goes(t, [To(t, "fetch") EXCEPT !.todo = Rows(Job(t))])
                /\ UNCHANGED retryVars
             \/ Fails(t) /\ UNCHANGED retryVars
             \/ Troubled(t, "archive")
       \/ /\ Unrecorded(t) /\ UNCHANGED retryVars
    /\ UNCHANGED <<stored, jobVars>>

\* An identical placeholder is not asked for again.
Wanted(t) == IF thread[t].skip THEN thread[t].todo \ Placeholders ELSE thread[t].todo

(***************************************************************************)
(* One capture, newest first.  It verifies and has text; or it has none,   *)
(* or is too large: an older one may do; or the request is rejected (TLS,  *)
(* address, redirect, status) or its bytes are not the index's; or it      *)
(* fails operationally: an older one may still do, unless the time or the  *)
(* provider's patience is over.                                            *)
(***************************************************************************)
Fetch(t) ==
    LET c == Newest(Wanted(t))
        rest == [thread[t] EXCEPT !.todo = @ \ {c}]
    IN  /\ At(t, "fetch") /\ Wanted(t) # {}
        /\ \/ /\ Logged(Job(t))
              /\ \/ /\ c \in good
                    /\ Goes(t, [Resting EXCEPT !.at = "store", !.kind = thread[t].kind,
                                               !.have = c, !.lost = thread[t].lost])
                 \/ /\ c \notin good
                    /\ Goes(t, [rest EXCEPT !.skip = @ \/ c \in Placeholders])
                 \/ c \in good /\ Goes(t, [rest EXCEPT !.rejected = @ \cup {c}])
                 \/ Goes(t, [rest EXCEPT !.trouble = TRUE])
                 \/ Goes(t, [rest EXCEPT !.trouble = TRUE, !.todo = {}])
           \/ UnrecordedCapture(t)
        /\ UNCHANGED <<stored, jobVars, retryVars>>

\* The loop is over: trouble is reported and not remembered, absence is remembered.
Conclude(t) ==
    LET j == Job(t)
    IN  /\ At(t, "fetch") /\ Wanted(t) = {}
        /\ IF Inconclusive(t)
           THEN /\ Troubled(t, "archive")
                /\ UNCHANGED absent
           ELSE /\ absent' = [absent EXCEPT ![j] = thread[t].rejected]
                /\ Fails(t) /\ UNCHANGED retryVars
        /\ UNCHANGED <<stored, memory, known, auditVars>>

\* _newer_usable_capture: a newer entry of a job with a later cutoff stays.
Store(t) ==
    LET c == thread[t].have
    IN  /\ At(t, "store")
        /\ IF stored \in Captures /\ stored > c
           THEN /\ Goes(t, To(t, "complete"))
                /\ memory' = [memory EXCEPT ![Job(t)] = c]
           ELSE /\ Goes(t, To(t, "put"))
                /\ UNCHANGED memory
        /\ UNCHANGED <<stored, absent, known, retryVars, auditVars>>

\* CaptureCache.put, which may fail (recorded): the capture is used all the same.
\* It moves a damaged entry aside first.
PutAside(t) ==
    /\ At(t, "put") /\ stored = Bad
    /\ MovesAside(t, "put")
    /\ UNCHANGED <<jobVars, retryVars>>

Put(t) ==
    /\ At(t, "put")
    /\ \/ /\ stored # Bad /\ stored' = thread[t].have
          /\ UNCHANGED auditVars
          /\ Goes(t, To(t, "complete"))
          /\ memory' = [memory EXCEPT ![Job(t)] = thread[t].have]
       \/ /\ Logged(Job(t))
          /\ Goes(t, To(t, "complete"))
          /\ memory' = [memory EXCEPT ![Job(t)] = thread[t].have]
          /\ UNCHANGED stored
       \/ /\ Unrecorded(t)
          /\ UNCHANGED <<stored, memory>>
    /\ UNCHANGED <<absent, known, retryVars>>

\* What is about to be answered is recorded first; a background attempt answers nobody.
Complete(t) ==
    /\ At(t, "complete")
    /\ \/ /\ t = Call(Job(t)) => Logged(Job(t))
          /\ t = Worker(Job(t)) => UNCHANGED auditVars
          /\ Goes(t, [Resting EXCEPT !.at = "answered", !.kind = thread[t].kind,
                                     !.have = thread[t].have, !.lost = thread[t].lost])
       \/ /\ t = Call(Job(t)) /\ Unrecorded(t)
    /\ UNCHANGED <<stored, jobVars, retryVars>>

-----------------------------------------------------------------------------
(* Background retries: the worker *)

\* A task that is due gets one attempt, recorded first.
Retry(j, kind) ==
    LET t == Worker(j)
    IN  /\ worker[j] /\ At(t, "idle") /\ kind \in Range(tasks[j]) /\ Busy < MaxBusy
        /\ Logged(j)
        /\ Goes(t, [Resting EXCEPT !.kind = kind,
                      !.at = IF kind = "archive" THEN "look" ELSE IF known[j] THEN "answered" ELSE "discover"])
        /\ UNCHANGED <<stored, jobVars, retryVars>>

\* Success or a final answer ends the task; an operational failure keeps it.
Retried(j) ==
    LET t == Worker(j)
    IN  /\ At(t, "answered")
        /\ tasks' = IF thread[t].trouble THEN tasks
                    ELSE [tasks EXCEPT ![j] = Remove(@, thread[t].kind)]
        /\ Goes(t, Resting)
        /\ UNCHANGED <<stored, jobVars, worker, auditVars>>

\* A task's window is over.
Expire(j, kind) ==
    /\ worker[j] /\ At(Worker(j), "idle") /\ kind \in Range(tasks[j])
    /\ tasks' = [tasks EXCEPT ![j] = Remove(@, kind)]
    /\ UNCHANGED <<thread, stored, jobVars, worker, auditVars>>

WorkerEnds(j) ==
    /\ worker[j] /\ At(Worker(j), "idle") /\ Workless(j)
    /\ worker' = [worker EXCEPT ![j] = FALSE]
    /\ UNCHANGED <<thread, stored, jobVars, tasks, auditVars>>

-----------------------------------------------------------------------------
(* The world *)

\* Bounded caches drop their oldest entries, and remembered failures grow old.
Forget(j) ==
    /\ \/ memory' = [memory EXCEPT ![j] = None] /\ UNCHANGED <<absent, known>>
       \/ absent' = [absent EXCEPT ![j] = None] /\ UNCHANGED <<memory, known>>
       \/ known' = [known EXCEPT ![j] = FALSE] /\ UNCHANGED <<memory, absent>>
    /\ UNCHANGED <<thread, stored, retryVars, auditVars>>

\* The persistent entry is evicted, or damaged on disk.
Evict == stored' \in {None, Bad} /\ UNCHANGED <<thread, jobVars, retryVars, auditVars>>

\* A job's server ends and starts again: only the persistent entry survives.
Restart(j) ==
    /\ thread' = [t \in Threads |-> IF Job(t) = j THEN Resting ELSE thread[t]]
    /\ memory' = [memory EXCEPT ![j] = None]
    /\ absent' = [absent EXCEPT ![j] = None]
    /\ known' = [known EXCEPT ![j] = FALSE]
    /\ tasks' = [tasks EXCEPT ![j] = <<>>]
    /\ worker' = [worker EXCEPT ![j] = FALSE]
    /\ pending' = [pending EXCEPT ![j] = 0]
    /\ flusher' = [flusher EXCEPT ![j] = FALSE]
    /\ UNCHANGED stored

Step ==
    \/ Evict
    \/ \E j \in Cutoffs : Flush(j) \/ FlushedAll(j) \/ Forget(j) \/ Restart(j)
    \/ \E j \in Cutoffs, kind \in Kinds : Begin(j, kind)
    \/ \E j \in Retrying, kind \in Kinds : Retry(j, kind) \/ Expire(j, kind)
    \/ \E j \in Retrying : Retried(j) \/ WorkerEnds(j)
    \/ \E t \in Threads :
         \/ Discover(t) \/ Remembered(t) \/ Reused(t) \/ Invalid(t) \/ Quarantine(t) \/ Unusable(t)
         \/ Missed(t) \/ Index(t) \/ Fetch(t) \/ Conclude(t) \/ Store(t) \/ PutAside(t) \/ Put(t)
         \/ Complete(t)

Next == Step /\ UNCHANGED good

Spec == Init /\ [][Next]_vars

-----------------------------------------------------------------------------
(* Properties *)

(***************************************************************************)
(* No job is answered with, or remembers, a capture from its cutoff date   *)
(* or later, although jobs with later cutoffs store theirs under the same  *)
(* key of the shared cache and answers come out of three caches.           *)
(***************************************************************************)
StrictlyBefore ==
    /\ \A t \in Threads : thread[t].have # None => Before(Job(t), thread[t].have)
    /\ \A j \in Cutoffs : memory[j] # None => Before(j, memory[j])

(***************************************************************************)
(* A job remembers that the source has no capture for it only if the index *)
(* lists none it could read, or each of those was asked for and the        *)
(* request rejected: an operational failure, a deadline or a placeholder   *)
(* passed over is never taken for an absence (the end of _open_capture).   *)
(***************************************************************************)
AbsenceIsReal == \A j \in Cutoffs : absent[j] # None => Rows(j) \cap good \subseteq absent[j]

\* Not a property of the code: a rejected request counts as an absence, for a minute.
AbsenceIsSure == \A j \in Cutoffs : absent[j] # None => Rows(j) \cap good = {}

(***************************************************************************)
(* A call is answered with a capture only if every audit record of the     *)
(* call was kept, also when the backlog was full for one record only and   *)
(* has drained since (audit_failure ends the request everywhere), but for  *)
(* the record of a damaged entry moved aside, where the moved file is one. *)
(***************************************************************************)
NothingUnrecorded ==
    \A t \in Threads : At(t, "answered") /\ thread[t].have # None => thread[t].lost \subseteq {"aside"}

\* Not a property of the code: the refusal of that one record is ignored.
EveryRecordKept ==
    \A t \in Threads : At(t, "answered") /\ thread[t].have # None => thread[t].lost = {}

(***************************************************************************)
(* A task or an audit record that waits has a live thread to serve it:     *)
(* both threads end themselves, under the lock that checks for work.       *)
(***************************************************************************)
NothingWaitsAlone ==
    \A j \in Cutoffs : /\ tasks[j] # <<>> => worker[j]
                       /\ pending[j] > 0 => flusher[j]
=============================================================================
