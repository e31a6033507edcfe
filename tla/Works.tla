------------------------------- MODULE Works -------------------------------
(***************************************************************************)
(* Related works: the files users give to the proof authors              *)
(* (ui/related_works.py and its callers in ui/server.py).                  *)
(*                                                                         *)
(* An upload waits in the staging area until a request installs it in a    *)
(* folder: a job's related-works folder, or the store of a folder batch,   *)
(* whose items are linked into the folder of every job of the batch.       *)
(* The threads are the request that starts the batch, the scheduler that   *)
(* repeats failed job creations, additions to the batch and additions to   *)
(* one job.  Each of the batch's requests supplies one upload, named after *)
(* it; an addition to one job, from another page, the upload of an         *)
(* addition to the batch.                                                  *)
(* An entry <<w, b, n>> is the work w, b whether it is shared with the     *)
(* batch, under the n-th of its names.                                     *)
(***************************************************************************)
EXTENDS Naturals, FiniteSets

CONSTANTS
    Jobs,           \* the jobs of the batch
    Starter,        \* start_direct_batch
    Scheduler,      \* _create_pending_jobs
    Adders,         \* calls of add_batch_related_works
    Owners,         \* calls of add_related_works
    Store, None,
    Room,           \* MAX_ITEMS
    Launchable,     \* bound: jobs launched, and added to by Owners; others wait in the queue
    MaxBusy,        \* bound: threads at work at once
    MaxCalls,       \* bound: requests in a behaviour
    MaxMishaps      \* bound: failures, prunings and damaged files in a behaviour

ASSUME WorksConstants ==
    /\ Room \in Nat \ {0} /\ MaxBusy \in Nat /\ MaxCalls \in Nat /\ MaxMishaps \in Nat
    /\ Launchable \subseteq Jobs /\ Store \notin Jobs /\ None \notin Jobs \cup {Store}
    /\ Starter # Scheduler /\ {Starter, Scheduler} \cap (Adders \cup Owners) = {}
    /\ Adders \cap Owners = {}

Works == {Starter} \cup Adders
Threads == Works \cup {Scheduler} \cup Owners
Folders == Jobs \cup {Store}

VARIABLES
    stage,          \* where each upload is
    at, in,         \* what each thread does, and the folder it works in
    plan,           \* the entries it adds there
    todo,           \* the jobs it has still to create or to link
    members,        \* the jobs an addition to the batch found
    held,           \* what the store held when it had installed its upload
    refused,        \* the jobs whose folder did not take its works
    files, index, listed,   \* a folder's files, INDEX.md and manifest
    stuck,          \* the entries there that an addition which failed could not take back
    phase,          \* what each job does
    told,           \* entries its author knows of
    pending,        \* entries its author is to be told of
    sent,           \* those in the turn sent to a paused author
    unsaid,         \* entries whose announcement failed or died with the server
    historical,     \* whether the batch searches before a cutoff date
    spoiled,        \* works of the store whose file an author changed
    mishaps, crashed

ops == <<at, in, plan, todo, members, held, refused>>
folders == <<files, index, listed, stuck>>
jobs == <<phase, told, pending, sent, unsaid>>
world == <<historical, spoiled, mishaps, crashed>>
vars == <<stage, ops, folders, jobs, world>>

NoEntries == [f \in Folders |-> {}]
Nothing == [j \in Jobs |-> {}]
NoJobs == [o \in Threads |-> {}]

Init ==
    /\ stage = [w \in Works |-> IF w = Starter THEN "none" ELSE "staged"]
    /\ at = [o \in Threads |-> "off"] /\ in = [o \in Threads |-> None]
    /\ plan = NoJobs /\ todo = NoJobs /\ members = NoJobs
    /\ held = NoJobs /\ refused = NoJobs
    /\ files = NoEntries /\ index = NoEntries /\ listed = NoEntries /\ stuck = NoEntries
    /\ phase = [j \in Jobs |-> "absent"]
    /\ told = Nothing /\ pending = Nothing /\ sent = Nothing /\ unsaid = Nothing
    /\ historical \in BOOLEAN
    /\ spoiled = {} /\ mishaps = 0 /\ crashed = FALSE

Registered == {j \in Jobs : phase[j] \notin {"absent", "pending"}}
Addable == {"ready", "running", "paused"}

\* The works of the batch in a folder, those of one job left out.
OfBatch(f) == {e \in listed[f] : f = Store \/ e[2]}
Shared(f) == {e[1] : e \in OfBatch(f)}

Changing == {"placed", "indexed", "listed", "unlist", "unindex", "unplace"}
\* An addition to one job keeps its locks until the author is told.
Holds(o, f) ==
    /\ in[o] = f
    /\ at[o] \in Changing \/ (o \in Owners /\ at[o] \in {"kept", "discarded"})
Free(f) == \A o \in Threads : ~Holds(o, f)
Unlocked(j) == \A o \in Owners : ~Holds(o, j)

Starts(o) ==
    /\ at[o] = "off"
    /\ Cardinality({x \in Threads : at[x] \notin {"off", "over"}}) < MaxBusy
    /\ o # Scheduler => Cardinality({x \in Threads \ {Scheduler} : at[x] # "off"}) < MaxCalls

Goes(o, s) == at' = [at EXCEPT ![o] = s]
Mishap == mishaps < MaxMishaps /\ mishaps' = mishaps + 1 /\ UNCHANGED <<historical, spoiled, crashed>>
\* A thread is done with a folder.
Leaves(o, s) ==
    /\ Goes(o, s)
    /\ in' = [in EXCEPT ![o] = None] /\ plan' = [plan EXCEPT ![o] = {}]
\* What goes on within a thread without touching the rest.
Only(o) == UNCHANGED <<in, plan, todo, members, held, refused>>

-----------------------------------------------------------------------------
(* The staging area.                                                       *)

Receive(w) ==
    /\ stage[w] = "none"
    /\ stage' = [stage EXCEPT ![w] = "writing"]
    /\ UNCHANGED <<ops, folders, jobs, world>>

\* The upload's record is written last; a PDF without text is kept.
Staged(w) ==
    /\ stage[w] = "writing"
    /\ stage' = [stage EXCEPT ![w] = "staged"]
    /\ UNCHANGED <<ops, folders, jobs, world>>

CutShort(w) ==
    /\ stage[w] = "writing"
    /\ stage' = [stage EXCEPT ![w] = "none"]
    /\ UNCHANGED <<ops, folders, jobs, world>>

\* Nobody used the upload for a day.
Prune(w) ==
    /\ stage[w] \in {"staged", "left"} /\ Mishap
    /\ stage' = [stage EXCEPT ![w] = "pruned"]
    /\ UNCHANGED <<ops, folders, jobs>>

-----------------------------------------------------------------------------
(* Requests.                                                               *)

StartBatch ==
    /\ Starts(Starter) /\ stage[Starter] = "staged"
    /\ at' = [at EXCEPT ![Starter] = "wait"] /\ in' = [in EXCEPT ![Starter] = Store]
    /\ plan' = [plan EXCEPT ![Starter] = {<<Starter, FALSE, 0>>}]
    /\ todo' = [todo EXCEPT ![Starter] = Jobs]
    /\ UNCHANGED <<stage, members, held, refused, folders, jobs, world>>

\* Some author can still read what is added.
Possible == \E j \in Jobs : phase[j] \in Addable \cup {"pending"}

\* The members are taken first.
AddToBatch(a) ==
    /\ Starts(a) /\ Possible
    /\ at' = [at EXCEPT ![a] = "wait"] /\ in' = [in EXCEPT ![a] = Store]
    /\ plan' = [plan EXCEPT ![a] = {<<a, FALSE, 0>>}]
    /\ members' = [members EXCEPT ![a] = Registered]
    /\ todo' = [todo EXCEPT ![a] = Registered]
    /\ UNCHANGED <<stage, held, refused, folders, jobs, world>>

AddToJob(o, j) ==
    /\ Starts(o) /\ phase[j] \in Addable /\ Unlocked(j)
    /\ \E w \in Works \ {Starter} : plan' = [plan EXCEPT ![o] = {<<w, FALSE, 0>>}]
    /\ at' = [at EXCEPT ![o] = "wait"] /\ in' = [in EXCEPT ![o] = j]
    /\ UNCHANGED <<stage, todo, members, held, refused, folders, jobs, world>>

\* A minute after a creation failed: the last one to fail is repeated once the
\* request is over.
Repeat(j) ==
    /\ Starts(Scheduler) /\ phase[j] = "pending"
    /\ at[Starter] = "over" \/ todo[Starter] # {}
    /\ at' = [at EXCEPT ![Scheduler] = "next"]
    /\ todo' = [todo EXCEPT ![Scheduler] = {j}]
    /\ UNCHANGED <<stage, in, plan, members, held, refused, folders, jobs, world>>

\* Mutant: an addition links only its own work.
OfferedNew(o) == IF o \in Adders THEN {o} ELSE Shared(Store)

\* Also what an earlier addition did not get into the folder.
Offered(o) == Shared(Store)

\* link_into reads the store's manifest before it has the folder.
ReadStore(o, j) ==
    /\ at[o] = "next" /\ j \in todo[o]
    /\ plan' = [plan EXCEPT ![o] = {<<w, TRUE, 0>> : w \in Offered(o)}]
    /\ at' = [at EXCEPT ![o] = "wait"] /\ in' = [in EXCEPT ![o] = j]
    /\ todo' = [todo EXCEPT ![o] = @ \ {j}]
    /\ UNCHANGED <<stage, members, held, refused, folders, jobs, world>>

-----------------------------------------------------------------------------
(* Adding entries to a folder: _add.                                       *)

Uploading(o) == in[o] = Store \/ o \in Owners

\* Mutant: what the folder has of the batch is not looked up.
LackingAll(o) == plan[o]

\* What a thread adds: its upload, or what the store held and the folder lacks.
Lacking(o) == {e \in plan[o] : Uploading(o) \/ e[1] \notin Shared(in[o])}
Usable(o) == {e \in Lacking(o) : Uploading(o) \/ e[1] \notin spoiled}

\* The first of its names that neither a file nor an entry of the folder has.
Used(f) == files[f] \cup listed[f]
Named(e, f) ==
    CHOOSE x \in {<<e[1], e[2], n>> : n \in 1 .. Cardinality(Used(f)) + 1} :
        /\ x \notin Used(f)
        /\ \A n \in 1 .. x[3] - 1 : <<e[1], e[2], n>> \in Used(f)

HasRoom(o) == Cardinality(listed[in[o]]) + Cardinality(Lacking(o)) <= Room
Peeked(o) == \A e \in plan[o] : stage[e[1]] = "staged"

Taken(o) ==
    /\ HasRoom(o)
    /\ Uploading(o) => Peeked(o)
    /\ o \in Owners => phase[in[o]] \in Addable

Place(o) ==
    /\ at[o] = "wait" /\ Free(in[o])
    /\ IF ~Taken(o) THEN Goes(o, "failed") /\ UNCHANGED <<plan, files>>
       ELSE LET new == {Named(e, in[o]) : e \in Usable(o)} IN
            /\ plan' = [plan EXCEPT ![o] = new]
            /\ Goes(o, IF new = {} THEN "kept" ELSE "placed")
            /\ files' = [files EXCEPT ![in[o]] = @ \cup new]
    /\ UNCHANGED <<stage, in, todo, members, held, refused, index, listed, stuck, jobs, world>>

\* An entry left in INDEX.md may give its name to a new one, which is then listed rightly.
WriteIndex(o) ==
    /\ at[o] = "placed" /\ Goes(o, "indexed") /\ Only(o)
    /\ index' = [index EXCEPT ![in[o]] = listed[in[o]] \cup plan[o]]
    /\ stuck' = [stuck EXCEPT ![in[o]] = @ \ plan[o]]
    /\ UNCHANGED <<stage, files, listed, jobs, world>>

\* A job that searches before a date records what its user supplied.
Audited(o) == historical /\ in[o] # Store

WriteManifest(o) ==
    /\ at[o] = "indexed" /\ Goes(o, IF Audited(o) THEN "listed" ELSE "kept") /\ Only(o)
    /\ listed' = [listed EXCEPT ![in[o]] = @ \cup plan[o]]
    /\ UNCHANGED <<stage, files, index, stuck, jobs, world>>

Recorded(o) ==
    /\ at[o] = "listed" /\ Goes(o, "kept") /\ Only(o)
    /\ UNCHANGED <<stage, folders, jobs, world>>

\* Mutant: a failure after the files were placed removes them first.
UndoneFromFiles(o) ==
    CASE at[o] = "wait" -> {"failed"}
      [] at[o] \in {"placed", "indexed", "listed"} -> {"unplace"}
      [] OTHER -> {}

\* A step that fails is undone from where it may have got to.
UndoneFrom(o) ==
    CASE at[o] = "wait" -> {"failed"}
      [] at[o] = "placed" -> {"unplace", "unindex"}
      [] at[o] \in {"indexed", "listed"} -> {"unlist"}
      [] OTHER -> {}

\* A disk that was full for one job of the batch may be full for the next.
StillFull(o) == o = Starter /\ \E j \in Jobs : phase[j] = "pending"

Breaks(o) ==
    /\ at[o] = "wait" => Free(in[o])
    /\ \E s \in UndoneFrom(o) : Goes(o, s)
    /\ IF StillFull(o) THEN UNCHANGED world ELSE Mishap
    /\ Only(o)
    /\ UNCHANGED <<stage, folders, jobs>>

\* Whatever stopped the addition may stop its undoing too, which goes on all the same.
Stays(o, S) == stuck' = [stuck EXCEPT ![in[o]] = @ \cup (plan[o] \cap S)]

Unlist(o) ==
    /\ at[o] = "unlist" /\ Goes(o, "unindex") /\ Only(o)
    /\ \/ listed' = [listed EXCEPT ![in[o]] = @ \ plan[o]] /\ UNCHANGED stuck
       \/ Stays(o, listed[in[o]]) /\ UNCHANGED listed
    /\ UNCHANGED <<stage, files, index, jobs, world>>

\* INDEX.md is written with the entries that were there before the addition.
Unindex(o) ==
    /\ at[o] = "unindex" /\ Goes(o, "unplace") /\ Only(o)
    /\ \/ index' = [index EXCEPT ![in[o]] = listed[in[o]] \ plan[o]] /\ UNCHANGED stuck
       \/ Stays(o, index[in[o]]) /\ UNCHANGED index
    /\ UNCHANGED <<stage, files, listed, jobs, world>>

\* Each file is removed or not.
Unplace(o) ==
    /\ at[o] = "unplace" /\ Goes(o, "failed") /\ Only(o)
    /\ \E left \in SUBSET plan[o] :
          /\ files' = [files EXCEPT ![in[o]] = @ \ (plan[o] \ left)]
          /\ Stays(o, left)
    /\ UNCHANGED <<stage, index, listed, jobs, world>>

-----------------------------------------------------------------------------
(* What each request does then.                                            *)

\* What cannot be removed is in a folder that nobody uses again.
Cleared(f) ==
    /\ files' = [files EXCEPT ![f] = {}]
    /\ index' = [index EXCEPT ![f] = {}]
    /\ listed' = [listed EXCEPT ![f] = {}]
    /\ stuck' = [stuck EXCEPT ![f] = {}]

Over(o) ==
    /\ Leaves(o, "over")
    /\ todo' = [todo EXCEPT ![o] = {}] /\ members' = [members EXCEPT ![o] = {}]
    /\ held' = [held EXCEPT ![o] = {}] /\ refused' = [refused EXCEPT ![o] = {}]

\* The installed uploads are discarded; start_direct_batch keeps its own.
Discard(o) ==
    /\ at[o] = "kept" /\ Uploading(o) /\ o # Starter
    /\ stage' = [w \in Works |-> IF \E e \in plan[o] : e[1] = w THEN "gone" ELSE stage[w]]
    /\ IF o \in Owners THEN Goes(o, "discarded") /\ UNCHANGED <<in, plan, held>>
       ELSE Leaves(o, "next") /\ held' = [held EXCEPT ![o] = Shared(Store)]
    /\ UNCHANGED <<todo, members, refused, folders, jobs, world>>

StoreInstalled ==
    /\ at[Starter] = "kept" /\ in[Starter] = Store /\ Leaves(Starter, "next")
    /\ UNCHANGED <<stage, todo, members, held, refused, folders, jobs, world>>

InstallFailed(o) ==
    /\ at[o] = "failed" /\ Uploading(o) /\ Over(o)
    /\ IF o = Starter THEN Cleared(Store) ELSE UNCHANGED folders
    /\ UNCHANGED <<stage, jobs, world>>

\* A creation that fails leaves no folder (or, with a cutoff, one nobody uses);
\* without a cutoff it is repeated.
CreationFailed(o) ==
    /\ at[o] = "failed" /\ in[o] \in Jobs /\ o \in {Starter, Scheduler}
    /\ Cleared(in[o])
    /\ Leaves(o, IF o = Scheduler THEN "off" ELSE "next")
    /\ todo' = [todo EXCEPT ![o] = IF historical THEN {} ELSE @]
    /\ phase' = [phase EXCEPT ![in[o]] = IF historical THEN "absent" ELSE "pending"]
    /\ UNCHANGED <<stage, members, held, refused, told, pending, sent, unsaid, world>>

\* The scheduler drops the waiting item before the job is one of the session's.
Created(o) ==
    /\ at[o] = "kept" /\ in[o] \in Jobs /\ o \in {Starter, Scheduler}
    /\ Goes(o, "register") /\ Only(o)
    /\ phase' = [phase EXCEPT ![in[o]] = "absent"]
    /\ UNCHANGED <<stage, folders, told, pending, sent, unsaid, world>>

Register(o) ==
    /\ at[o] = "register" /\ Leaves(o, IF o = Scheduler THEN "off" ELSE "next")
    /\ phase' = [phase EXCEPT ![in[o]] = "ready"]
    /\ UNCHANGED <<stage, todo, members, held, refused, folders, told, pending, sent, unsaid, world>>

\* settle_uploads: a batch with no job leaves its uploads valid.
SomeJobUses == \E j \in Jobs : phase[j] # "absent"

Settle ==
    /\ at[Starter] = "next" /\ todo[Starter] = {} /\ Over(Starter)
    /\ IF SomeJobUses
       THEN stage' = [stage EXCEPT ![Starter] = "gone"] /\ UNCHANGED folders
       ELSE Cleared(Store) /\ UNCHANGED stage
    /\ UNCHANGED <<jobs, world>>

LinkFailed(a) ==
    /\ a \in Adders /\ at[a] = "failed" /\ in[a] \in Jobs /\ Leaves(a, "next")
    /\ refused' = [refused EXCEPT ![a] = @ \cup {in[a]}]
    /\ UNCHANGED <<stage, todo, members, held, folders, jobs, world>>

\* _announce_related_works_locked: a running author is told now, a paused one later,
\* one not launched yet by its first prompt.  The queue may refuse the note.
Announces(o, j, names) ==
    \/ /\ phase[j] = "running"
       /\ told' = [told EXCEPT ![j] = @ \cup names]
       /\ UNCHANGED <<pending, unsaid, mishaps>>
    \/ /\ phase[j] = "running" /\ names # {} /\ mishaps < MaxMishaps
       /\ mishaps' = mishaps + 1
       /\ pending' = [pending EXCEPT ![j] = @ \cup names]
       /\ UNCHANGED <<told, unsaid>>
    \/ /\ phase[j] = "paused"
       /\ pending' = [pending EXCEPT ![j] = @ \cup names]
       /\ UNCHANGED <<told, unsaid, mishaps>>
    \/ /\ phase[j] \notin {"running", "paused"}
       /\ UNCHANGED <<told, pending, unsaid, mishaps>>

\* The record of the addition comes first; if it fails the caller reports it.
Unrecorded(j, names) ==
    /\ names # {} /\ mishaps < MaxMishaps /\ mishaps' = mishaps + 1
    /\ unsaid' = [unsaid EXCEPT ![j] = @ \cup names]
    /\ UNCHANGED <<told, pending>>

Announce(o) ==
    /\ \/ o \in Adders /\ at[o] = "kept" /\ in[o] \in Jobs /\ Unlocked(in[o]) /\ Leaves(o, "next")
       \/ o \in Owners /\ at[o] = "discarded" /\ Leaves(o, "over")
    /\ Announces(o, in[o], plan[o]) \/ Unrecorded(in[o], plan[o])
    /\ UNCHANGED <<stage, todo, members, held, refused, folders, phase, sent, historical, spoiled, crashed>>

Finished(a) ==
    /\ a \in Adders /\ at[a] = "next" /\ todo[a] = {} /\ Over(a)
    /\ UNCHANGED <<stage, folders, jobs, world>>

-----------------------------------------------------------------------------
(* A job's author, and the server's death.                                 *)

\* The first prompt points to the folder and its INDEX.md.
Launch(j) ==
    /\ phase[j] = "ready" /\ j \in Launchable /\ Unlocked(j)
    /\ phase' = [phase EXCEPT ![j] = "running"]
    /\ told' = [told EXCEPT ![j] = @ \cup listed[j]]
    /\ UNCHANGED <<stage, ops, folders, pending, sent, unsaid, world>>

Pause(j) ==
    /\ phase[j] = "running" /\ Unlocked(j)
    /\ phase' = [phase EXCEPT ![j] = "paused"]
    /\ UNCHANGED <<stage, ops, folders, told, pending, sent, unsaid, world>>

Finish(j) ==
    /\ phase[j] = "running" /\ Unlocked(j)
    /\ phase' = [phase EXCEPT ![j] = "over"]
    /\ told' = [told EXCEPT ![j] = {}] /\ unsaid' = [unsaid EXCEPT ![j] = {}]
    /\ UNCHANGED <<stage, ops, folders, pending, sent, world>>

Resume(j) ==
    /\ phase[j] = "paused" /\ sent[j] = {} /\ Unlocked(j)
    /\ phase' = [phase EXCEPT ![j] = "running"]
    /\ \/ /\ told' = [told EXCEPT ![j] = @ \cup pending[j]]
          /\ pending' = [pending EXCEPT ![j] = {}]
          /\ UNCHANGED world
       \/ pending[j] # {} /\ Mishap /\ UNCHANGED <<told, pending>>
    /\ UNCHANGED <<stage, ops, folders, sent, unsaid>>

\* A message to a paused author is preceded by what it is to be told.
SendTurn(j) ==
    /\ phase[j] = "paused" /\ sent[j] = {} /\ pending[j] # {} /\ Unlocked(j)
    /\ sent' = [sent EXCEPT ![j] = pending[j]]
    /\ UNCHANGED <<stage, ops, folders, phase, told, pending, unsaid, world>>

\* Mutant: a delivered turn clears what came in while it ran.
StillPendingNone(j) == pending[j] \cap {}

\* What a delivered turn leaves to be told.
StillPending(j) == pending[j] \ sent[j]

TurnEnds(j) ==
    /\ sent[j] # {} /\ Unlocked(j)
    /\ sent' = [sent EXCEPT ![j] = {}]
    /\ \/ /\ told' = [told EXCEPT ![j] = @ \cup sent[j]]
          /\ pending' = [pending EXCEPT ![j] = StillPending(j)]
       \/ UNCHANGED <<told, pending>>
    /\ UNCHANGED <<stage, ops, folders, phase, unsaid, world>>

\* Every job's folder links to the store's file.
Spoil(w) ==
    /\ w \in Shared(Store) /\ w \notin spoiled
    /\ \E j \in Jobs : phase[j] = "running" /\ w \in Shared(j)
    /\ mishaps < MaxMishaps /\ mishaps' = mishaps + 1
    /\ spoiled' = spoiled \cup {w}
    /\ UNCHANGED <<stage, ops, folders, jobs, historical, crashed>>

\* Entries in a job's folder that a thread has still to announce.
Unannounced(j) ==
    UNION {plan[o] \cap listed[j] : o \in {x \in Adders \cup Owners :
               in[x] = j /\ at[x] \in {"listed", "unlist", "kept", "discarded"}}}

Creating(j) == \E o \in {Starter, Scheduler} :
    in[o] = j /\ at[o] \in Changing \cup {"wait", "kept", "failed"}

\* A created job has saved its state; half-made ones are not jobs.
Crash ==
    /\ crashed' = TRUE /\ mishaps < MaxMishaps /\ mishaps' = mishaps + 1
    /\ stage' = [w \in Works |-> IF stage[w] = "writing" THEN "left" ELSE stage[w]]
    /\ at' = [o \in Threads |-> IF o = Scheduler \/ at[o] = "off" THEN "off" ELSE "over"]
    /\ phase' = [j \in Jobs |->
                    IF \E o \in Threads : in[o] = j /\ at[o] = "register" THEN "ready"
                    ELSE IF phase[j] = "pending" THEN "absent"
                    ELSE IF phase[j] = "running" THEN "paused" ELSE phase[j]]
    /\ unsaid' = [j \in Jobs |-> unsaid[j] \cup Unannounced(j)]
    /\ sent' = Nothing
    /\ files' = [f \in Folders |-> IF f \in Jobs /\ Creating(f) THEN {} ELSE files[f]]
    /\ index' = [f \in Folders |-> IF f \in Jobs /\ Creating(f) THEN {} ELSE index[f]]
    /\ listed' = [f \in Folders |-> IF f \in Jobs /\ Creating(f) THEN {} ELSE listed[f]]
    /\ in' = [o \in Threads |-> None]
    /\ plan' = NoJobs /\ todo' = NoJobs /\ members' = NoJobs /\ held' = NoJobs /\ refused' = NoJobs
    /\ UNCHANGED <<stuck, told, pending, historical, spoiled>>

Next ==
    \/ \E w \in Works : Receive(w) \/ Staged(w) \/ CutShort(w) \/ Prune(w) \/ Spoil(w)
    \/ StartBatch \/ StoreInstalled \/ Settle \/ Crash
    \/ \E a \in Adders : AddToBatch(a) \/ LinkFailed(a) \/ Finished(a)
    \/ \E o \in Owners, j \in Launchable : AddToJob(o, j)
    \/ \E o \in Threads, j \in Jobs : ReadStore(o, j)
    \/ \E o \in Threads :
          \/ Place(o) \/ WriteIndex(o) \/ WriteManifest(o) \/ Recorded(o) \/ Breaks(o)
          \/ Unlist(o) \/ Unindex(o) \/ Unplace(o)
          \/ Discard(o) \/ InstallFailed(o) \/ CreationFailed(o) \/ Created(o) \/ Register(o) \/ Announce(o)
    \/ \E j \in Jobs : \/ Repeat(j) \/ Launch(j) \/ Pause(j) \/ Finish(j)
                       \/ Resume(j) \/ SendTurn(j) \/ TurnEnds(j)

Spec == Init /\ [][Next]_vars

-----------------------------------------------------------------------------
Entries == Works \X BOOLEAN \X Nat
States == Changing \cup {"off", "wait", "failed", "kept", "discarded", "next", "register", "over"}

\* The type invariant: what every variable may hold (checked by proof only).
TypeOK ==
    /\ stage \in [Works -> {"none", "writing", "staged", "left", "pruned", "gone"}]
    /\ at \in [Threads -> States] /\ in \in [Threads -> Folders \cup {None}]
    /\ plan \in [Threads -> SUBSET Entries] /\ held \in [Threads -> SUBSET Works]
    /\ {todo, members, refused} \subseteq [Threads -> SUBSET Jobs]
    /\ {files, index, listed, stuck} \subseteq [Folders -> SUBSET Entries]
    /\ phase \in [Jobs -> {"absent", "pending", "ready", "running", "paused", "over"}]
    /\ {told, pending, sent, unsaid} \subseteq [Jobs -> SUBSET Entries]
    /\ historical \in BOOLEAN /\ crashed \in BOOLEAN /\ spoiled \subseteq Works
    /\ mishaps \in Nat

-----------------------------------------------------------------------------
(* What the authors and the users may rely on.                             *)

\* Whoever reads a folder without its lock, whatever step an addition is at, fails in
\* or died in: the manifest lists no more than INDEX.md, which lists only files that
\* are there; and an addition that failed has left nothing.  Excepted is exactly what
\* an undoing could not take back: it upsets no other entry, then or later.
AllOrNothing ==
    \A f \in Folders :
        /\ listed[f] \ stuck[f] \subseteq index[f] /\ index[f] \ stuck[f] \subseteq files[f]
        /\ Free(f) /\ ~crashed => files[f] \ stuck[f] = listed[f] \ stuck[f]

\* What the comment of _add (related_works.py:1239) says without exception, and does not
\* hold: the disk that fails an addition fails its undoing.
NothingLeftBehind ==
    \A f \in Folders :
        /\ listed[f] \subseteq index[f] /\ index[f] \subseteq files[f]
        /\ Free(f) /\ ~crashed => files[f] = listed[f]

\* A job has each of the batch's works once, however many threads link them, and none
\* that the store then takes back.
SharedOnce ==
    \A j \in Jobs :
        /\ Shared(j) \subseteq Shared(Store)
        /\ \A e, d \in OfBatch(j) : e[1] = d[1] => e = d

\* The works of the batch whose files a job has, or that a failed undoing left listed.
Has(j) == {e[1] : e \in OfBatch(j) \cap (files[j] \cup stuck[j])}

\* An addition to a batch that is over has given every job it found, except those it
\* named, all that the store held, also what the job had missed before; but an entry
\* that a failed undoing left in the manifest is never given a file.
NothingMissed ==
    \A a \in Adders :
        at[a] = "next" /\ todo[a] = {} =>
            \A j \in members[a] \ refused[a] : held[a] \subseteq Has(j) \cup spoiled

\* The author of a job at work knows of each of its related works, is to be told of it,
\* or a request is about to tell it; unless the user was told that the announcement or
\* the addition failed.
AuthorKnows ==
    \A j \in Jobs :
        phase[j] \in {"running", "paused"} =>
            listed[j] \ stuck[j] \subseteq told[j] \cup pending[j] \cup unsaid[j] \cup Unannounced(j)

\* Every job of a batch has the works the batch was started with, also one created by
\* the scheduler after the request and its uploads were gone.
StartedWith ==
    \A j \in Jobs :
        /\ phase[j] = "pending" => Starter \in Shared(Store) \cup spoiled
        /\ j \in Registered => Starter \in Shared(j) \cup spoiled

=============================================================================
