---------------------------- MODULE Works_proofs ----------------------------
(***************************************************************************)
(* Proofs about Works, for any jobs, additions, rooms, failures and        *)
(* crashes.                                                                *)
(***************************************************************************)
EXTENDS Works, FiniteSetTheorems, WellFoundedInduction, TLAPS

-----------------------------------------------------------------------------
(* Entries and their names *)

LEMMA EntryIs ==
    ASSUME NEW w \in Works, NEW b \in BOOLEAN, NEW n \in Nat
    PROVE  /\ <<w, b, n>> \in Entries
           /\ <<w, b, n>>[1] = w /\ <<w, b, n>>[2] = b /\ <<w, b, n>>[3] = n
  BY DEF Entries

\* Every numbered name is a different entry, so one of the first of them is free.
LEMMA SomeNameFree ==
    ASSUME NEW e, NEW S, IsFiniteSet(S)
    PROVE  \E n \in 1 .. Cardinality(S) + 1 : <<e[1], e[2], n>> \notin S
<1> DEFINE c == Cardinality(S)
           R == 1 .. c + 1
           name == [n \in R |-> <<e[1], e[2], n>>]
<1>1. c \in Nat
  BY FS_CardinalityType
<1>2. Cardinality(R) = c + 1
  BY <1>1, FS_Interval
<1>3. \A n, m \in R : name[n] = name[m] => n = m
  OBVIOUS
<1>4. ASSUME \A n \in R : name[n] \in S PROVE FALSE
  <2>1. name \in [R -> S]
    BY <1>4
  <2>2. name \in Injection(R, S)
    BY <1>3, <2>1, Zenon DEF Injection, IsInjective
  <2>3. Cardinality(R) <= c
    BY <2>2, FS_Injection
  <2> QED
    BY <1>1, <1>2, <2>3
<1> QED
  BY <1>4

LEMMA NamedIs ==
    ASSUME NEW e \in Entries, NEW f \in Folders, IsFiniteSet(Used(f))
    PROVE  /\ Named(e, f) \in Entries /\ Named(e, f) \notin Used(f)
           /\ Named(e, f)[1] = e[1] /\ Named(e, f)[2] = e[2]
<1> DEFINE R == 1 .. Cardinality(Used(f)) + 1
           Unused == {n \in R : <<e[1], e[2], n>> \notin Used(f)}
<1>1. Cardinality(Used(f)) \in Nat /\ R \subseteq Nat
  BY FS_CardinalityType
<1>2. PICK n \in Unused : \A m \in Unused : ~(<<m, n>> \in OpToRel(<, Nat))
  <2>1. Unused # {} /\ Unused \subseteq Nat
    BY <1>1, SomeNameFree
  <2> QED
    BY <2>1, NatLessThanWellFounded, WFMin
<1>3. \A m \in 1 .. n - 1 : <<e[1], e[2], m>> \in Used(f)
  <2> SUFFICES ASSUME NEW m \in 1 .. n - 1 PROVE <<e[1], e[2], m>> \in Used(f)
    OBVIOUS
  <2>1. m \in R /\ m < n /\ m \in Nat /\ n \in Nat
    BY <1>1
  <2> QED
    BY <1>2, <2>1 DEF OpToRel
<1> DEFINE x == <<e[1], e[2], n>>
<1>4. /\ x \in {<<e[1], e[2], m>> : m \in R} /\ x \notin Used(f)
      /\ \A m \in 1 .. x[3] - 1 : <<e[1], e[2], m>> \in Used(f)
  BY <1>3
<1>5. /\ Named(e, f) \in {<<e[1], e[2], m>> : m \in R} /\ Named(e, f) \notin Used(f)
  BY <1>4 DEF Named
<1>6. PICK k \in R : Named(e, f) = <<e[1], e[2], k>>
  BY <1>5
<1> QED
  BY <1>1, <1>5, <1>6 DEF Entries

-----------------------------------------------------------------------------
(* The invariant *)

Creators == {Starter, Scheduler}
Idle(o) == at[o] \in {"off", "over"}

\* Nothing in a folder is without end, so every entry finds a name.
Bounded ==
    /\ \A f \in Folders : IsFiniteSet(files[f]) /\ IsFiniteSet(listed[f])
    /\ \A o \in Threads : IsFiniteSet(plan[o])

\* Where a thread can be at each of its steps.
Posts ==
    \A o \in Threads :
        /\ in[o] = None <=> at[o] \in {"off", "over", "next"}
        /\ o \in {Scheduler} \cup Owners => in[o] # Store
        /\ o \in Owners => at[o] \notin {"next", "register"} /\ todo[o] = {}
        /\ at[o] = "discarded" => o \in Owners
        /\ at[o] = "register" => o \in Creators /\ in[o] \in Jobs
        /\ in[o] \notin todo[o]
        /\ Idle(o) => todo[o] = {}
        /\ o = Scheduler =>
              (at[o] # "next" => todo[o] = {}) /\ \A i, j \in todo[o] : i = j
        /\ o \in Adders /\ in[o] = Store => members[o] = todo[o]

\* The jobs a thread has still to create.
Own(c) == todo[c] \cup ({in[c]} \cap Jobs)

\* A job is created by one thread, and nobody else works in its folder before.
Roles ==
    /\ Own(Starter) \cap Own(Scheduler) = {}
    /\ \A c \in Creators : Own(c) \cap Registered = {}
    /\ \A j \in Jobs : phase[j] = "pending" => j \notin Own(Starter) /\ ~historical
    /\ \A o \in Adders \cup Owners : in[o] \in Jobs => in[o] \in Registered
    /\ \A a \in Adders : todo[a] \cup members[a] \subseteq Registered
    /\ \A c \in Creators : at[c] = "register" => phase[in[c]] = "absent"

\* Until the batch's store is installed nothing else happens.
Before ==
    at[Starter] = "off" \/ in[Starter] = Store =>
        /\ \A j \in Jobs : phase[j] = "absent" /\ files[j] = {} /\ listed[j] = {}
        /\ \A o \in Threads \ {Starter} : Idle(o)
        /\ at[Starter] = "off" => files[Store] = {} /\ listed[Store] = {}
        /\ in[Starter] = Store => todo[Starter] = Jobs

\* A job that does not exist and that nobody creates has no files and no entries.
Unborn ==
    \A j \in Jobs \ {in[Starter], in[Scheduler]} :
        phase[j] \in {"absent", "pending"} => files[j] = {} /\ listed[j] = {}

\* While the batch starts, each of its jobs exists, waits to be created again, or is
\* being created; so a batch of which nothing is left has nobody at work.
Beginning ==
    /\ \A o \in Threads \ {Starter} : ~Idle(o) => Jobs # {} /\ (historical => Registered # {})
    /\ historical => Idle(Scheduler)
    /\ ~Idle(Starter) => Own(Scheduler) = {} \/ Jobs \ Own(Scheduler) # {}
    /\ ~Idle(Starter) /\ in[Starter] # Store /\ ~historical =>
          \A j \in Jobs \ Own(Starter) :
              phase[j] # "absent" \/ (at[Scheduler] = "register" /\ in[Scheduler] = j)

Locks == \A f \in Folders : \A o, x \in Threads : Holds(o, f) /\ Holds(x, f) => o = x

\* What is in a folder, but for what failed undoings left there.
Sound(s, f) == s[f] \ stuck[f]

Nested ==
    \A f \in Folders :
        Sound(listed, f) \subseteq Sound(index, f) /\ Sound(index, f) \subseteq Sound(files, f)

\* How far an addition has come, forwards or backwards.
Come(o) ==
    /\ plan[o] \subseteq files[in[o]]
    /\ at[o] \in {"placed", "unplace"} => plan[o] \cap Sound(index, in[o]) = {}
    /\ at[o] \in {"placed", "indexed"} => plan[o] \cap listed[in[o]] = {}
    /\ at[o] = "unindex" => plan[o] \cap Sound(listed, in[o]) = {}
    /\ in[o] = Store => plan[o] \cap listed[in[o]] = {}
    /\ at[o] \in {"indexed", "listed", "unlist"} =>
          index[in[o]] = listed[in[o]] \cup plan[o] /\ plan[o] \cap stuck[in[o]] = {}
    /\ at[o] = "listed" => in[o] # Store /\ plan[o] \subseteq listed[in[o]]
Placing == \A o \in Threads : at[o] \in Changing => Come(o)

\* A server that never died has in a folder what the manifest lists, and what is
\* just being added or removed.
Complete ==
    ~crashed =>
        /\ \A o \in Threads : at[o] \in Changing =>
              Sound(files, in[o]) \cup plan[o] = Sound(listed, in[o]) \cup plan[o]
        /\ \A f \in Folders :
              (\A o \in Threads : at[o] \in Changing => in[o] # f) => Sound(files, f) = Sound(listed, f)

\* A thread that gives a job the batch's works.
Links(o) == o \notin Owners /\ in[o] \in Jobs

\* It gives each once, and only works of the store.
Linking ==
    /\ \A o \in Threads : Links(o) =>
          /\ \A e \in plan[o] : e[1] \in Shared(Store) /\ e[2]
          /\ at[o] = "wait" => \A e \in plan[o] : e[3] = 0
          /\ at[o] \in Changing =>
                \A e, d \in OfBatch(in[o]) \cup plan[o] : e[1] = d[1] => e = d
    /\ \A o \in Owners : \A e \in plan[o] : ~e[2]

\* Works of the batch in a folder that no addition can still take back.
Kept(j) ==
    {e[1] : e \in {d \in OfBatch(j) :
        \A o \in Threads : in[o] = j /\ at[o] \in Changing => d \notin plan[o]}}
WorksOf(o) == {e[1] : e \in plan[o]}

\* What the jobs an addition is done with got of what the store held.
GivenTo(a, j) ==
    /\ in[a] # j \/ at[a] = "kept" => held[a] \subseteq Kept(j) \cup spoiled
    /\ in[a] = j /\ at[a] = "wait" => held[a] \subseteq WorksOf(a)
    /\ in[a] = j /\ at[a] \in {"placed", "indexed", "listed"} =>
          held[a] \subseteq Kept(j) \cup spoiled \cup WorksOf(a)
GivenBy(a) ==
    /\ held[a] \subseteq Shared(Store) /\ (Idle(a) => held[a] = {})
    /\ \A j \in members[a] \ (todo[a] \cup refused[a]) : GivenTo(a, j)
Given == \A a \in Adders : GivenBy(a)

Inv ==
    /\ TypeOK /\ Bounded /\ Posts /\ Roles /\ Before /\ Unborn /\ Beginning
    /\ Locks /\ Nested /\ Placing /\ Complete /\ SharedOnce /\ Linking /\ Given /\ AuthorKnows

-----------------------------------------------------------------------------
(* The steps *)

\* What happens in the staging area, to an author and to a conversation.
Elsewhere ==
    \/ \E w \in Works : Receive(w) \/ Staged(w) \/ CutShort(w) \/ Prune(w) \/ Spoil(w)
    \/ \E j \in Jobs : \/ Launch(j) \/ Pause(j) \/ Finish(j)
                       \/ Resume(j) \/ SendTurn(j) \/ TurnEnds(j)

\* A step of adding entries to a folder, or of undoing it.
FolderStep(o) ==
    \/ Place(o) \/ WriteIndex(o) \/ WriteManifest(o) \/ Recorded(o) \/ Breaks(o)
    \/ Unlist(o) \/ Unindex(o) \/ Unplace(o)

LEMMA NextIs ==
    ASSUME Next
    PROVE  \/ Elsewhere \/ StartBatch \/ StoreInstalled \/ Settle \/ Crash
           \/ \E a \in Adders : AddToBatch(a) \/ LinkFailed(a) \/ Finished(a)
           \/ \E o \in Owners, j \in Jobs : AddToJob(o, j)
           \/ \E o \in Threads, j \in Jobs : ReadStore(o, j)
           \/ \E j \in Jobs : Repeat(j)
           \/ \E o \in Threads : FolderStep(o)
           \/ \E o \in Threads : \/ Discard(o) \/ InstallFailed(o) \/ CreationFailed(o)
                                 \/ Created(o) \/ Register(o) \/ Announce(o)
  BY WorksConstants DEF Next, Elsewhere, FolderStep

\* An installed upload is discarded; an addition to one job keeps its locks.
LEMMA DiscardIs ==
    ASSUME NEW o, Discard(o)
    PROVE  /\ at[o] = "kept" /\ Uploading(o) /\ o # Starter
           /\ \/ /\ o \in Owners /\ at' = [at EXCEPT ![o] = "discarded"]
                 /\ UNCHANGED <<in, plan, held>>
              \/ /\ o \notin Owners /\ Leaves(o, "next")
                 /\ held' = [held EXCEPT ![o] = Shared(Store)]
           /\ UNCHANGED <<todo, members, refused, folders, jobs, world>>
  BY Zenon DEF Discard, Goes

\* A request's last step with a folder.
LEMMA AnnounceIs ==
    ASSUME NEW o, Announce(o)
    PROVE  /\ \/ o \in Adders /\ at[o] = "kept" /\ in[o] \in Jobs /\ Unlocked(in[o]) /\ Leaves(o, "next")
              \/ o \in Owners /\ at[o] = "discarded" /\ Leaves(o, "over")
           /\ UNCHANGED <<stage, todo, members, held, refused, folders, phase, historical, spoiled, crashed>>
  BY Zenon DEF Announce

LEMMA Names ==
    /\ Starter \in Threads /\ Scheduler \in Threads /\ Adders \subseteq Threads
    /\ Owners \subseteq Threads /\ Starter \in Works /\ Adders \subseteq Works
    /\ Jobs \subseteq Folders /\ Store \in Folders /\ Store \notin Jobs
    /\ None \notin Folders /\ Starter # Scheduler
    /\ Starter \notin Adders \cup Owners /\ Scheduler \notin Adders \cup Owners
    /\ Adders \cap Owners = {}
    /\ Threads = {Starter, Scheduler} \cup Adders \cup Owners
  BY WorksConstants DEF Threads, Works, Folders

\* Such a step leaves the threads and the folders alone, and a job registered.
LEMMA ElsewhereIs ==
    ASSUME TypeOK, Elsewhere
    PROVE  /\ UNCHANGED <<ops, folders, historical, crashed>>
           /\ spoiled \subseteq spoiled'
           /\ phase' \in [Jobs -> {"absent", "pending", "ready", "running", "paused", "over"}]
           /\ \A j \in Jobs : \/ phase'[j] = phase[j]
                              \/ {phase[j], phase'[j]} \cap {"absent", "pending"} = {}
           /\ Registered' = Registered
<1>1. ASSUME NEW w \in Works, Receive(w) \/ Staged(w) \/ CutShort(w)
      PROVE  UNCHANGED <<ops, folders, jobs, world>>
  BY <1>1 DEF Receive, Staged, CutShort
<1>2. ASSUME NEW w \in Works, Prune(w)
      PROVE  UNCHANGED <<ops, folders, jobs, historical, spoiled, crashed>>
  BY <1>2 DEF Prune, Mishap
<1>3. ASSUME NEW w \in Works, Spoil(w)
      PROVE  UNCHANGED <<ops, folders, jobs, historical, crashed>> /\ spoiled \subseteq spoiled'
  BY <1>3 DEF Spoil
<1> DEFINE Moves(j) == /\ UNCHANGED <<ops, folders, historical, spoiled, crashed>>
                       /\ \/ phase' = phase
                          \/ \E p \in {"running", "paused", "over"} :
                               phase[j] \in {"ready", "running", "paused"} /\ phase' = [phase EXCEPT ![j] = p]
<1>4. ASSUME NEW j \in Jobs, Launch(j) \/ Pause(j) \/ Finish(j) \/ Resume(j) \/ SendTurn(j) \/ TurnEnds(j)
      PROVE  Moves(j)
  <2>1. CASE Launch(j) \/ Pause(j) \/ Finish(j)
    BY <2>1, Zenon DEF Launch, Pause, Finish, world
  <2>2. CASE Resume(j)
    BY <2>2, Zenon DEF Resume, Mishap, world
  <2>3. CASE SendTurn(j) \/ TurnEnds(j)
    BY <2>3, Zenon DEF SendTurn, TurnEnds, world
  <2> QED
    BY <1>4, <2>1, <2>2, <2>3
<1>5. /\ UNCHANGED <<ops, folders, historical, crashed>> /\ spoiled \subseteq spoiled'
      /\ phase' = phase \/ \E j \in Jobs : Moves(j)
  BY <1>1, <1>2, <1>3, <1>4 DEF Elsewhere, jobs, world
<1>6. /\ phase' \in [Jobs -> {"absent", "pending", "ready", "running", "paused", "over"}]
      /\ \A j \in Jobs : \/ phase'[j] = phase[j]
                         \/ {phase[j], phase'[j]} \cap {"absent", "pending"} = {}
  BY SMTT(30), <1>5 DEF TypeOK
<1>7. Registered' = Registered
  BY <1>6 DEF Registered
<1> QED
  BY <1>5, <1>6, <1>7

\* A step in a folder moves its thread on within that folder.
LEMMA FolderStepIs ==
    ASSUME NEW o \in Threads, FolderStep(o)
    PROVE  /\ at[o] \in Changing \cup {"wait"}
           /\ \E s \in Changing \cup {"kept", "failed"} : at' = [at EXCEPT ![o] = s]
           /\ plan' = plan \/ \E S : plan' = [plan EXCEPT ![o] = S]
           /\ UNCHANGED <<stage, in, todo, members, held, refused, jobs, historical, spoiled, crashed>>
           /\ files' = files \/ \E S : files' = [files EXCEPT ![in[o]] = S]
           /\ index' = index \/ \E S : index' = [index EXCEPT ![in[o]] = S]
           /\ listed' = listed \/ \E S : listed' = [listed EXCEPT ![in[o]] = S]
           /\ stuck' = stuck \/ \E S : stuck' = [stuck EXCEPT ![in[o]] = S]
<1>1. CASE Place(o)
  <2>1. CASE Taken(o)
    BY <1>1, <2>1 DEF Place, Goes, Changing, world, folders
  <2>2. CASE ~Taken(o)
    BY <1>1, <2>2 DEF Place, Goes, Changing, world, folders
  <2> QED
    BY <2>1, <2>2
<1>2. CASE WriteIndex(o) \/ WriteManifest(o) \/ Recorded(o)
  BY <1>2 DEF WriteIndex, WriteManifest, Recorded, Goes, Only, Changing, world, folders
<1>3. CASE Breaks(o)
  <2>1. UNCHANGED <<historical, spoiled, crashed>>
    BY <1>3 DEF Breaks, Mishap, world
  <2>2. at[o] \in Changing \cup {"wait"} /\ UndoneFrom(o) \subseteq Changing \cup {"failed"}
    BY <1>3 DEF Breaks, UndoneFrom, Changing
  <2> QED
    BY <1>3, <2>1, <2>2 DEF Breaks, Goes, Only, folders
<1>4. CASE Unlist(o) \/ Unindex(o) \/ Unplace(o)
  BY <1>4 DEF Unlist, Unindex, Unplace, Stays, Goes, Only, Changing, world, folders
<1> QED
  BY <1>1, <1>2, <1>3, <1>4 DEF FolderStep

\* What such a step does not touch.
LEMMA FolderMoves ==
    ASSUME NEW o \in Threads, FolderStep(o)
    PROVE  /\ at[o] \in Changing \cup {"wait"}
           /\ \E s \in Changing \cup {"kept", "failed"} : at' = [at EXCEPT ![o] = s]
           /\ UNCHANGED <<in, todo, members, held, refused, phase, historical, spoiled, crashed>>
  BY FolderStepIs, Zenon DEF jobs

-----------------------------------------------------------------------------
(* Types *)

LEMMA NamedAll ==
    ASSUME TypeOK, Bounded, NEW o \in Threads, in[o] \in Folders
    PROVE  LET new == {Named(e, in[o]) : e \in Usable(o)} IN
           /\ new \in SUBSET Entries /\ IsFiniteSet(new)
           /\ new \cap Used(in[o]) = {}
           /\ \A d \in new : \E e \in Usable(o) : d[1] = e[1] /\ d[2] = e[2]
           /\ \A e \in Usable(o) : \E d \in new : d[1] = e[1]
<1> DEFINE new == {Named(e, in[o]) : e \in Usable(o)}
<1>1. Usable(o) \subseteq plan[o] /\ plan[o] \subseteq Entries
  BY DEF Usable, Lacking, TypeOK
<1>2. IsFiniteSet(plan[o]) /\ IsFiniteSet(Used(in[o]))
  BY FS_Union DEF Bounded, Used
<1>3. IsFiniteSet(Usable(o))
  BY <1>1, <1>2, FS_Subset
<1>4. IsFiniteSet(new)
  <2> DEFINE U == Usable(o)
             name == [e \in U |-> Named(e, in[o])]
  <2>1. name \in Surjection(U, new)
    BY DEF Surjection
  <2> HIDE DEF U, name, new
  <2> QED
    BY <1>3, <2>1, FS_Surjection DEF U
<1>5. \A e \in Usable(o) : /\ Named(e, in[o]) \in Entries /\ Named(e, in[o]) \notin Used(in[o])
                           /\ Named(e, in[o])[1] = e[1] /\ Named(e, in[o])[2] = e[2]
  BY <1>1, <1>2, NamedIs
<1> QED
  BY <1>4, <1>5

LEMMA SharedIs ==
    ASSUME TypeOK, NEW f \in Folders
    PROVE  Shared(f) \subseteq Works
  BY DEF TypeOK, Shared, OfBatch, Entries

LEMMA OfferedIs ==
    ASSUME TypeOK, NEW o
    PROVE  {<<w, TRUE, 0>> : w \in Offered(o)} \in SUBSET Entries
<1>1. Offered(o) \subseteq Works
  BY SharedIs, Names DEF Offered
<1>2. \A w \in Offered(o) : <<w, TRUE, 0>> \in Entries
  BY <1>1, EntryIs
<1> QED
  BY <1>2, Zenon

LEMMA ElsewhereTypes ==
    ASSUME TypeOK, Elsewhere
    PROVE  TypeOK'
<1> USE Names DEF TypeOK
<1>1. ASSUME NEW w \in Works, Receive(w) \/ Staged(w) \/ CutShort(w) \/ Prune(w)
      PROVE  TypeOK'
  BY <1>1 DEF Receive, Staged, CutShort, Prune, Mishap, ops, folders, jobs, world
<1>2. ASSUME NEW w \in Works, Spoil(w)
      PROVE  TypeOK'
  BY <1>2 DEF Spoil, ops, folders, jobs
<1>3. ASSUME NEW j \in Jobs, Launch(j) PROVE TypeOK'
  BY <1>3 DEF Launch, ops, folders, world
<1>4. ASSUME NEW j \in Jobs, Pause(j) \/ Finish(j) PROVE TypeOK'
  BY SMTT(30), <1>4 DEF Pause, Finish, ops, folders, world
<1>5. ASSUME NEW j \in Jobs, Resume(j) PROVE TypeOK'
  BY SMTT(30), <1>5 DEF Resume, Mishap, ops, folders, world
<1>6. ASSUME NEW j \in Jobs, SendTurn(j) PROVE TypeOK'
  BY SMTT(30), <1>6 DEF SendTurn, ops, folders, world
<1>7. ASSUME NEW j \in Jobs, TurnEnds(j) PROVE TypeOK'
  BY SMTT(30), <1>7 DEF TurnEnds, StillPending, ops, folders, world
<1> QED
  BY <1>1, <1>2, <1>3, <1>4, <1>5, <1>6, <1>7 DEF Elsewhere

LEMMA StartTypes ==
    ASSUME TypeOK, \/ StartBatch \/ \E a \in Adders : AddToBatch(a)
                   \/ \E o \in Owners, j \in Jobs : AddToJob(o, j)
                   \/ \E o \in Threads, j \in Jobs : ReadStore(o, j)
                   \/ \E j \in Jobs : Repeat(j)
    PROVE  TypeOK'
<1> USE Names DEF TypeOK, States
<1>1. CASE StartBatch
  <2>1. plan' \in [Threads -> SUBSET Entries]
    <3>1. <<Starter, FALSE, 0>> \in Entries
      BY EntryIs
    <3> QED
      BY <1>1, <3>1 DEF StartBatch
  <2> QED
    BY <1>1, <2>1 DEF StartBatch, folders, jobs, world
<1>2. ASSUME NEW a \in Adders, AddToBatch(a) PROVE TypeOK'
  <2>1. plan' \in [Threads -> SUBSET Entries]
    <3>1. <<a, FALSE, 0>> \in Entries
      BY EntryIs
    <3> QED
      BY <1>2, <3>1 DEF AddToBatch
  <2> QED
    BY <1>2, <2>1 DEF AddToBatch, Registered, folders, jobs, world
<1>3. ASSUME NEW o \in Owners, NEW j \in Jobs, AddToJob(o, j) PROVE TypeOK'
  <2>1. PICK w \in Works \ {Starter} : plan' = [plan EXCEPT ![o] = {<<w, FALSE, 0>>}]
    BY <1>3 DEF AddToJob
  <2>2. <<w, FALSE, 0>> \in Entries
    BY EntryIs
  <2>3. plan' \in [Threads -> SUBSET Entries]
    BY <2>1, <2>2
  <2> QED
    BY <1>3, <2>3 DEF AddToJob, folders, jobs, world
<1>4. ASSUME NEW o \in Threads, NEW j \in Jobs, ReadStore(o, j) PROVE TypeOK'
  <2>1. {<<w, TRUE, 0>> : w \in Offered(o)} \subseteq Entries
    BY OfferedIs
  <2>2. plan' \in [Threads -> SUBSET Entries]
    BY <1>4, <2>1 DEF ReadStore
  <2>3. at' \in [Threads -> States] /\ in' \in [Threads -> Folders \cup {None}]
    BY <1>4 DEF ReadStore
  <2>4. todo' \in [Threads -> SUBSET Jobs]
    BY <1>4 DEF ReadStore
  <2>5. UNCHANGED <<stage, members, held, refused, folders, jobs, world>>
    BY <1>4 DEF ReadStore
  <2> QED
    BY <2>2, <2>3, <2>4, <2>5 DEF folders, jobs, world
<1>5. ASSUME NEW j \in Jobs, Repeat(j) PROVE TypeOK'
  BY <1>5 DEF Repeat, folders, jobs, world
<1> QED
  BY <1>1, <1>2, <1>3, <1>4, <1>5

LEMMA FolderTypes ==
    ASSUME TypeOK, Bounded, Posts, NEW o \in Threads, FolderStep(o)
    PROVE  TypeOK'
<1>1. in[o] \in Folders
  BY FolderMoves DEF Posts, TypeOK, Changing
<1>2. at' \in [Threads -> States]
  BY FolderStepIs DEF TypeOK, States
<1>3. mishaps' \in Nat
  <2>1. mishaps' = mishaps \/ Breaks(o)
    BY Zenon DEF FolderStep, Place, WriteIndex, WriteManifest, Recorded, Unlist, Unindex, Unplace, world
  <2>2. Breaks(o) => mishaps' = mishaps \/ mishaps' = mishaps + 1
    BY Zenon DEF Breaks, Mishap, world
  <2> QED
    BY <2>1, <2>2 DEF TypeOK
<1>4. /\ plan' \in [Threads -> SUBSET Entries]
      /\ files' \in [Folders -> SUBSET Entries] /\ index' \in [Folders -> SUBSET Entries]
      /\ listed' \in [Folders -> SUBSET Entries] /\ stuck' \in [Folders -> SUBSET Entries]
  <2> USE <1>1 DEF TypeOK
  <2>1. CASE Place(o)
    <3>1. CASE Taken(o)
      <4> DEFINE new == {Named(e, in[o]) : e \in Usable(o)}
      <4>1. new \in SUBSET Entries
        BY NamedAll
      <4>2. /\ plan' = [plan EXCEPT ![o] = new] /\ UNCHANGED <<index, listed, stuck>>
            /\ files' = [files EXCEPT ![in[o]] = @ \cup new]
        BY <2>1, <3>1 DEF Place
      <4> HIDE DEF new
      <4> QED
        BY <4>1, <4>2
    <3>2. CASE ~Taken(o)
      BY <2>1, <3>2 DEF Place
    <3> QED
      BY <3>1, <3>2
  <2>2. CASE WriteIndex(o)
    BY <2>2 DEF WriteIndex, Only, folders
  <2>3. CASE WriteManifest(o)
    BY <2>3 DEF WriteManifest, Only, folders
  <2>4. CASE Recorded(o) \/ Breaks(o)
    BY <2>4 DEF Recorded, Breaks, Only, folders
  <2>5. CASE Unlist(o)
    BY SMTT(30), <2>5 DEF Unlist, Stays, Only, folders
  <2>6. CASE Unindex(o)
    BY SMTT(30), <2>6 DEF Unindex, Stays, Only, folders
  <2>7. CASE Unplace(o)
    BY SMTT(30), <2>7 DEF Unplace, Stays, Only, folders
  <2> QED
    BY Zenon, <2>1, <2>2, <2>3, <2>4, <2>5, <2>6, <2>7 DEF FolderStep
<1> QED
  BY <1>2, <1>3, <1>4, FolderStepIs DEF TypeOK, jobs

LEMMA OverTypes ==
    ASSUME TypeOK, NEW o \in Threads, Over(o)
    PROVE  /\ at' \in [Threads -> States] /\ in' \in [Threads -> Folders \cup {None}]
           /\ plan' \in [Threads -> SUBSET Entries] /\ held' \in [Threads -> SUBSET Works]
           /\ {todo', members', refused'} \subseteq [Threads -> SUBSET Jobs]
  BY DEF TypeOK, Over, Leaves, Goes, States

LEMMA LeavesTypes ==
    ASSUME TypeOK, NEW o \in Threads, NEW s \in {"off", "next", "over"}, Leaves(o, s)
    PROVE  /\ at' \in [Threads -> States] /\ in' \in [Threads -> Folders \cup {None}]
           /\ plan' \in [Threads -> SUBSET Entries]
  BY DEF TypeOK, Leaves, Goes, States

LEMMA ClearedTypes ==
    ASSUME TypeOK, NEW f \in Folders, Cleared(f)
    PROVE  {files', index', listed', stuck'} \subseteq [Folders -> SUBSET Entries]
  BY DEF TypeOK, Cleared

LEMMA EndTypes ==
    ASSUME TypeOK, Posts, NEW o \in Threads,
           \/ Discard(o) \/ InstallFailed(o) \/ CreationFailed(o)
           \/ Created(o) \/ Register(o) \/ Announce(o)
    PROVE  TypeOK'
<1> USE Names
<1>1. CASE Discard(o)
  <2>1. stage' \in [Works -> {"none", "writing", "staged", "left", "pruned", "gone"}]
    BY <1>1 DEF Discard, TypeOK
  <2>2. CASE o \in Owners
    BY <1>1, <2>1, <2>2 DEF Discard, TypeOK, Goes, States, folders, jobs, world
  <2>3. CASE o \notin Owners
    <3>1. Leaves(o, "next") /\ held' = [held EXCEPT ![o] = Shared(Store)]
      BY <1>1, <2>3 DEF Discard
    <3>2. held' \in [Threads -> SUBSET Works]
      BY <3>1, SharedIs DEF TypeOK
    <3> QED
      BY <1>1, <2>1, <3>1, <3>2, LeavesTypes DEF Discard, TypeOK, folders, jobs, world
  <2> QED
    BY <2>2, <2>3
<1>2. CASE InstallFailed(o)
  <2>1. {files', index', listed', stuck'} \subseteq [Folders -> SUBSET Entries]
    <3>1. Cleared(Store) \/ UNCHANGED folders
      BY <1>2 DEF InstallFailed
    <3> QED
      BY <3>1, ClearedTypes DEF TypeOK, folders
  <2> QED
    BY <1>2, <2>1, OverTypes DEF InstallFailed, TypeOK, jobs, world
<1>3. CASE CreationFailed(o)
  <2>1. Leaves(o, "off") \/ Leaves(o, "next")
    BY <1>3 DEF CreationFailed
  <2>2. Cleared(in[o])
    BY <1>3 DEF CreationFailed
  <2>3. todo' \in [Threads -> SUBSET Jobs]
    BY <1>3 DEF CreationFailed, TypeOK
  <2>4. phase' \in [Jobs -> {"absent", "pending", "ready", "running", "paused", "over"}]
    BY <1>3 DEF CreationFailed, TypeOK
  <2> QED
    BY <1>3, <2>1, <2>2, <2>3, <2>4, LeavesTypes, ClearedTypes DEF CreationFailed, TypeOK, world
<1>4. CASE Created(o)
  BY <1>4 DEF Created, Goes, Only, TypeOK, States, folders, world
<1>5. CASE Register(o)
  <2>1. Leaves(o, "off") \/ Leaves(o, "next")
    BY <1>5 DEF Register
  <2> QED
    BY <1>5, <2>1, LeavesTypes DEF Register, TypeOK, folders, world
<1>6. CASE Announce(o)
  <2>1. Leaves(o, "over") \/ Leaves(o, "next")
    BY <1>6 DEF Announce
  <2>2. in[o] \in Jobs
    BY <1>6 DEF Announce, Posts, TypeOK, Folders
  <2>3. /\ told' \in [Jobs -> SUBSET Entries] /\ pending' \in [Jobs -> SUBSET Entries]
        /\ unsaid' \in [Jobs -> SUBSET Entries] /\ mishaps' \in Nat
    <3>1. CASE Announces(o, in[o], plan[o])
      BY <2>2, <3>1 DEF Announces, TypeOK
    <3>2. CASE Unrecorded(in[o], plan[o])
      BY <2>2, <3>2 DEF Unrecorded, TypeOK
    <3> QED
      BY <1>6, <3>1, <3>2 DEF Announce
  <2> QED
    BY <1>6, <2>1, <2>3, LeavesTypes DEF Announce, TypeOK, folders
<1> QED
  BY <1>1, <1>2, <1>3, <1>4, <1>5, <1>6

LEMMA OtherTypes ==
    ASSUME TypeOK, StoreInstalled \/ Settle \/ (\E a \in Adders : LinkFailed(a) \/ Finished(a))
    PROVE  TypeOK'
<1> USE Names
<1>1. CASE StoreInstalled
  BY <1>1, LeavesTypes DEF StoreInstalled, TypeOK, folders, jobs, world
<1>2. CASE Settle
  <2>1. {files', index', listed', stuck'} \subseteq [Folders -> SUBSET Entries]
    <3>1. Cleared(Store) \/ UNCHANGED folders
      BY <1>2 DEF Settle
    <3> QED
      BY <3>1, ClearedTypes DEF TypeOK, folders
  <2>2. stage' \in [Works -> {"none", "writing", "staged", "left", "pruned", "gone"}]
    BY <1>2 DEF Settle, TypeOK
  <2> QED
    BY <1>2, <2>1, <2>2, OverTypes DEF Settle, TypeOK, jobs, world
<1>3. ASSUME NEW a \in Adders, LinkFailed(a) PROVE TypeOK'
  <2>1. refused' \in [Threads -> SUBSET Jobs]
    BY <1>3 DEF LinkFailed, TypeOK
  <2> QED
    BY <1>3, <2>1, LeavesTypes DEF LinkFailed, TypeOK, folders, jobs, world
<1>4. ASSUME NEW a \in Adders, Finished(a) PROVE TypeOK'
  BY <1>4, OverTypes DEF Finished, TypeOK, folders, jobs, world
<1> QED
  BY <1>1, <1>2, <1>3, <1>4

LEMMA CrashTypes ==
    ASSUME TypeOK, Crash
    PROVE  TypeOK'
<1>1. stage' \in [Works -> {"none", "writing", "staged", "left", "pruned", "gone"}]
  BY DEF Crash, TypeOK
<1>2. at' \in [Threads -> States] /\ in' \in [Threads -> Folders \cup {None}]
  BY DEF Crash, States
<1>3. phase' \in [Jobs -> {"absent", "pending", "ready", "running", "paused", "over"}]
  BY DEF Crash, TypeOK
<1>4. unsaid' \in [Jobs -> SUBSET Entries]
  <2>1. \A j \in Jobs : Unannounced(j) \subseteq Entries
    BY Names DEF Unannounced, TypeOK
  <2> QED
    BY <2>1 DEF Crash, TypeOK
<1>5. {files', index', listed', stuck'} \subseteq [Folders -> SUBSET Entries]
  BY DEF Crash, TypeOK
<1> QED
  BY <1>1, <1>2, <1>3, <1>4, <1>5 DEF Crash, TypeOK, NoJobs, Nothing

LEMMA TypesNext ==
    ASSUME TypeOK, Bounded, Posts, Next
    PROVE  TypeOK'
<1>1. \/ Elsewhere \/ Crash
      \/ StartBatch \/ (\E a \in Adders : AddToBatch(a)) \/ (\E o \in Owners, j \in Jobs : AddToJob(o, j))
      \/ (\E o \in Threads, j \in Jobs : ReadStore(o, j)) \/ (\E j \in Jobs : Repeat(j))
      \/ StoreInstalled \/ Settle \/ (\E a \in Adders : LinkFailed(a) \/ Finished(a))
      \/ (\E o \in Threads : FolderStep(o))
      \/ (\E o \in Threads : \/ Discard(o) \/ InstallFailed(o) \/ CreationFailed(o)
                             \/ Created(o) \/ Register(o) \/ Announce(o))
  BY NextIs
<1> QED
  BY <1>1, ElsewhereTypes, CrashTypes, StartTypes, OtherTypes, FolderTypes, EndTypes

-----------------------------------------------------------------------------
(* The threads *)

LEMMA PostsNext ==
    ASSUME TypeOK, Posts, Next
    PROVE  Posts'
<1> USE Names DEF TypeOK, Posts, States, Changing, Idle, Creators, Registered
<1>1. CASE Elsewhere
  BY <1>1, ElsewhereIs DEF ops, folders
<1>2. CASE StartBatch
  BY <1>2 DEF StartBatch, ops, folders, jobs, world
<1>3. CASE StoreInstalled
  BY <1>3 DEF StoreInstalled, Leaves, Goes, ops, folders, jobs, world
<1>4. CASE Settle
  BY <1>4 DEF Settle, Over, Leaves, Goes, Cleared, ops, folders, jobs, world
<1>5. CASE Crash
  BY <1>5 DEF Crash, NoJobs, Nothing, ops, folders, jobs, world
<1>6. ASSUME NEW a \in Adders, AddToBatch(a) PROVE Posts'
  BY <1>6 DEF AddToBatch, ops, folders, jobs, world
<1>7. ASSUME NEW a \in Adders, LinkFailed(a) PROVE Posts'
  BY <1>7 DEF LinkFailed, Leaves, Goes, ops, folders, jobs, world
<1>8. ASSUME NEW a \in Adders, Finished(a) PROVE Posts'
  BY <1>8 DEF Finished, Over, Leaves, Goes, ops, folders, jobs, world
<1>9. ASSUME NEW o \in Owners, NEW j \in Jobs, AddToJob(o, j) PROVE Posts'
  BY <1>9 DEF AddToJob, ops, folders, jobs, world
<1>10. ASSUME NEW o \in Threads, NEW j \in Jobs, ReadStore(o, j) PROVE Posts'
  <2>1. /\ at' = [at EXCEPT ![o] = "wait"] /\ in' = [in EXCEPT ![o] = j] /\ members' = members
        /\ todo' = [todo EXCEPT ![o] = @ \ {j}] /\ at[o] = "next" /\ j \in todo[o]
    BY <1>10 DEF ReadStore
  <2> QED
    BY <2>1
<1>11. ASSUME NEW j \in Jobs, Repeat(j) PROVE Posts'
  <2>1. /\ at[Scheduler] = "off" /\ at' = [at EXCEPT ![Scheduler] = "next"] /\ in' = in
        /\ todo' = [todo EXCEPT ![Scheduler] = {j}] /\ members' = members
    BY <1>11 DEF Repeat, Starts
  <2> QED
    BY <2>1
<1>12. ASSUME NEW o \in Threads, FolderStep(o) PROVE Posts'
  BY <1>12, FolderMoves
<1>13. ASSUME NEW o \in Threads, Discard(o) PROVE Posts'
  BY <1>13, DiscardIs DEF Leaves, Goes, folders, jobs, world
<1>14. ASSUME NEW o \in Threads, InstallFailed(o) PROVE Posts'
  BY <1>14 DEF InstallFailed, Over, Leaves, Goes, Cleared, ops, folders, jobs, world
<1>15. ASSUME NEW o \in Threads, CreationFailed(o) PROVE Posts'
  BY <1>15 DEF CreationFailed, Leaves, Goes, Cleared, ops, folders, jobs, world
<1>16. ASSUME NEW o \in Threads, Created(o) PROVE Posts'
  BY <1>16 DEF Created, Goes, Only, ops, folders, jobs, world
<1>17. ASSUME NEW o \in Threads, Register(o) PROVE Posts'
  BY <1>17 DEF Register, Leaves, Goes, ops, folders, jobs, world
<1>18. ASSUME NEW o \in Threads, Announce(o) PROVE Posts'
  BY <1>18, AnnounceIs DEF Leaves, Goes, folders
<1> QED
  BY NextIs, <1>1, <1>2, <1>3, <1>4, <1>5, <1>6, <1>7, <1>8, <1>9, <1>10, <1>11, <1>12, <1>13, <1>14, <1>15, <1>16, <1>17, <1>18

LEMMA RolesNext ==
    ASSUME TypeOK, Posts, Roles, Before, Next
    PROVE  Roles'
<1> USE Names DEF TypeOK, Posts, Roles, Own, Registered, States, Changing, Idle, Creators
<1>1. CASE Elsewhere
  <2>1. /\ at' = at /\ in' = in /\ todo' = todo /\ members' = members /\ historical' = historical
        /\ Registered' = Registered
        /\ \A j \in Jobs : \/ phase'[j] = phase[j]
                           \/ {phase[j], phase'[j]} \cap {"absent", "pending"} = {}
    BY <1>1, ElsewhereIs DEF ops
  <2>2. \A c \in Creators : in[c] = None \/ in[c] \in Folders
    OBVIOUS
  <2> QED
    BY ZenonT(40), <2>1
<1>2. CASE StartBatch
  BY <1>2 DEF StartBatch, Starts, Before, ops, folders, jobs, world
<1>3. CASE StoreInstalled
  BY <1>3 DEF StoreInstalled, Leaves, Goes, ops, folders, jobs, world
<1>4. CASE Settle
  BY <1>4 DEF Settle, Over, Leaves, Goes, Cleared, ops, folders, jobs, world
<1>5. CASE Crash
  BY <1>5 DEF Crash, NoJobs, Nothing, ops, folders, jobs, world
<1>6. ASSUME NEW a \in Adders, AddToBatch(a) PROVE Roles'
  BY <1>6 DEF AddToBatch, ops, folders, jobs, world
<1>7. ASSUME NEW a \in Adders, LinkFailed(a) PROVE Roles'
  BY <1>7 DEF LinkFailed, Leaves, Goes, ops, folders, jobs, world
<1>8. ASSUME NEW a \in Adders, Finished(a) PROVE Roles'
  BY <1>8 DEF Finished, Over, Leaves, Goes, ops, folders, jobs, world
<1>9. ASSUME NEW o \in Owners, NEW j \in Jobs, AddToJob(o, j) PROVE Roles'
  BY <1>9 DEF AddToJob, Addable, ops, folders, jobs, world
<1>10. ASSUME NEW o \in Threads, NEW j \in Jobs, ReadStore(o, j) PROVE Roles'
  BY <1>10 DEF ReadStore, ops, folders, jobs, world
<1>11. ASSUME NEW j \in Jobs, Repeat(j) PROVE Roles'
  BY <1>11 DEF Repeat, Starts, ops, folders, jobs, world
<1>12. ASSUME NEW o \in Threads, FolderStep(o) PROVE Roles'
  BY <1>12, FolderStepIs DEF jobs
<1>13. ASSUME NEW o \in Threads, Discard(o) PROVE Roles'
  <2>1. \A x \in Threads \ {o} : at'[x] = at[x] /\ in'[x] = in[x]
    BY <1>13, DiscardIs DEF Leaves, Goes
  <2>2. in'[o] \in {in[o], None} /\ at'[o] \in {"discarded", "next"}
    BY <1>13, DiscardIs DEF Leaves, Goes
  <2>3. UNCHANGED <<todo, members, phase, historical>>
    BY <1>13, DiscardIs DEF jobs, world
  <2> QED
    BY <2>1, <2>2, <2>3
<1>14. ASSUME NEW o \in Threads, InstallFailed(o) PROVE Roles'
  BY <1>14 DEF InstallFailed, Over, Leaves, Goes, Cleared, ops, folders, jobs, world
<1>15. ASSUME NEW o \in Threads, CreationFailed(o) PROVE Roles'
  BY <1>15 DEF CreationFailed, Leaves, Goes, Cleared, ops, folders, jobs, world
<1>16. ASSUME NEW o \in Threads, Created(o) PROVE Roles'
  BY <1>16 DEF Created, Goes, Only, ops, folders, jobs, world
<1>17. ASSUME NEW o \in Threads, Register(o) PROVE Roles'
  BY <1>17 DEF Register, Leaves, Goes, ops, folders, jobs, world
<1>18. ASSUME NEW o \in Threads, Announce(o) PROVE Roles'
  BY SMTT(30), <1>18, AnnounceIs DEF Leaves, Goes, folders
<1> QED
  BY NextIs, <1>1, <1>2, <1>3, <1>4, <1>5, <1>6, <1>7, <1>8, <1>9, <1>10, <1>11, <1>12, <1>13, <1>14, <1>15, <1>16, <1>17, <1>18

LEMMA LocksKept ==
    ASSUME TypeOK, Locks, NEW o \in Threads,
           \A x \in Threads \ {o} : at'[x] = at[x] /\ in'[x] = in[x],
           \A f \in Folders : Holds(o, f)' => Holds(o, f) \/ Free(f)
    PROVE  Locks'
<1>1. \A x \in Threads \ {o} : \A f \in Folders : Holds(x, f)' => Holds(x, f)
  BY DEF Holds
<1> QED
  BY <1>1 DEF Locks, Free

LEMMA LocksNext ==
    ASSUME TypeOK, Posts, Locks, Next
    PROVE  Locks'
<1> USE Names DEF TypeOK, Posts, Locks, Holds, Free, Changing, States
<1>1. CASE Elsewhere
  BY <1>1, ElsewhereIs DEF ops, folders
<1>2. CASE StartBatch
  BY <1>2 DEF StartBatch, ops, folders, jobs, world
<1>3. CASE StoreInstalled
  BY <1>3 DEF StoreInstalled, Leaves, Goes, ops, folders, jobs, world
<1>4. CASE Settle
  BY <1>4 DEF Settle, Over, Leaves, Goes, Cleared, ops, folders, jobs, world
<1>5. CASE Crash
  BY <1>5 DEF Crash, NoJobs, Nothing, ops, folders, jobs, world
<1>6. ASSUME NEW a \in Adders, AddToBatch(a) PROVE Locks'
  BY <1>6 DEF AddToBatch, ops, folders, jobs, world
<1>7. ASSUME NEW a \in Adders, LinkFailed(a) PROVE Locks'
  BY <1>7 DEF LinkFailed, Leaves, Goes, ops, folders, jobs, world
<1>8. ASSUME NEW a \in Adders, Finished(a) PROVE Locks'
  BY <1>8 DEF Finished, Over, Leaves, Goes, ops, folders, jobs, world
<1>9. ASSUME NEW o \in Owners, NEW j \in Jobs, AddToJob(o, j) PROVE Locks'
  BY <1>9 DEF AddToJob, ops, folders, jobs, world
<1>10. ASSUME NEW o \in Threads, NEW j \in Jobs, ReadStore(o, j) PROVE Locks'
  BY <1>10 DEF ReadStore, ops, folders, jobs, world
<1>11. ASSUME NEW j \in Jobs, Repeat(j) PROVE Locks'
  BY <1>11 DEF Repeat, Starts, ops, folders, jobs, world
<1>12. ASSUME NEW o \in Threads, FolderStep(o) PROVE Locks'
  <2>1. \A f \in Folders : Holds(o, f)' => Holds(o, f) \/ Free(f)
    <3>1. at[o] = "wait" => Free(in[o])
      BY <1>12 DEF FolderStep, Place, WriteIndex, WriteManifest, Recorded, Breaks, Unlist, Unindex, Unplace
    <3> QED
      BY <1>12, <3>1, FolderStepIs
  <2> QED
    BY <1>12, <2>1, FolderStepIs, LocksKept
<1>13. ASSUME NEW o \in Threads, Discard(o) PROVE Locks'
  <2>1. \A f \in Folders : Holds(o, f)' => Holds(o, f) \/ Free(f)
    BY <1>13, DiscardIs DEF Leaves, Goes
  <2> QED
    BY <1>13, <2>1, DiscardIs, LocksKept DEF Leaves, Goes
<1>14. ASSUME NEW o \in Threads, InstallFailed(o) PROVE Locks'
  BY <1>14 DEF InstallFailed, Over, Leaves, Goes, Cleared, ops, folders, jobs, world
<1>15. ASSUME NEW o \in Threads, CreationFailed(o) PROVE Locks'
  BY <1>15 DEF CreationFailed, Leaves, Goes, Cleared, ops, folders, jobs, world
<1>16. ASSUME NEW o \in Threads, Created(o) PROVE Locks'
  BY <1>16 DEF Created, Goes, Only, ops, folders, jobs, world
<1>17. ASSUME NEW o \in Threads, Register(o) PROVE Locks'
  BY <1>17 DEF Register, Leaves, Goes, ops, folders, jobs, world
<1>18. ASSUME NEW o \in Threads, Announce(o) PROVE Locks'
  <2>1. \A f \in Folders : ~Holds(o, f)'
    BY <1>18, AnnounceIs DEF Leaves, Goes
  <2> QED
    <3>1. \A x \in Threads \ {o} : at'[x] = at[x] /\ in'[x] = in[x]
      BY <1>18, AnnounceIs DEF Leaves, Goes
    <3> HIDE DEF Locks, Holds, Free
    <3> QED
      BY <2>1, <3>1, LocksKept
<1> QED
  BY NextIs, <1>1, <1>2, <1>3, <1>4, <1>5, <1>6, <1>7, <1>8, <1>9, <1>10, <1>11, <1>12, <1>13, <1>14, <1>15, <1>16, <1>17, <1>18

-----------------------------------------------------------------------------
(* The jobs before they exist *)

LEMMA BeforeNext ==
    ASSUME TypeOK, Posts, Roles, Before, Next
    PROVE  Before'
<1> USE Names DEF TypeOK, Posts, Roles, Before, Own, Idle, Registered, Creators, States, Changing
<1>1. CASE Elsewhere
  <2>1. /\ at' = at /\ in' = in /\ todo' = todo /\ files' = files /\ listed' = listed
        /\ historical' = historical
        /\ Registered' = Registered
        /\ \A j \in Jobs : \/ phase'[j] = phase[j]
                           \/ phase[j] \notin {"absent", "pending"} /\ phase'[j] \notin {"absent", "pending"}
    BY <1>1, ElsewhereIs DEF ops, folders
  <2>2. Idle(Starter)' = Idle(Starter) /\ \A o \in Threads : Idle(o)' = Idle(o)
    BY <2>1
  <2> QED
    BY <2>1, <2>2
<1>2. CASE StartBatch
  BY <1>2 DEF StartBatch, Starts, ops, folders, jobs, world
<1>3. CASE StoreInstalled
  BY <1>3 DEF StoreInstalled, Leaves, Goes, ops, folders, jobs, world
<1>4. CASE Settle
  BY <1>4 DEF Settle, Over, Leaves, Goes, Cleared, ops, folders, jobs, world
<1>5. CASE Crash
  BY <1>5 DEF Crash, NoJobs, Nothing, ops, folders, jobs, world
<1>6. ASSUME NEW a \in Adders, AddToBatch(a) PROVE Before'
  BY <1>6 DEF AddToBatch, Starts, Possible, Addable, ops, folders, jobs, world
<1>7. ASSUME NEW a \in Adders, LinkFailed(a) PROVE Before'
  BY <1>7 DEF LinkFailed, Leaves, Goes, ops, folders, jobs, world
<1>8. ASSUME NEW a \in Adders, Finished(a) PROVE Before'
  BY <1>8 DEF Finished, Over, Leaves, Goes, ops, folders, jobs, world
<1>9. ASSUME NEW o \in Owners, NEW j \in Jobs, AddToJob(o, j) PROVE Before'
  BY <1>9 DEF AddToJob, Starts, Addable, ops, folders, jobs, world
<1>10. ASSUME NEW o \in Threads, NEW j \in Jobs, ReadStore(o, j) PROVE Before'
  BY <1>10 DEF ReadStore, ops, folders, jobs, world
<1>11. ASSUME NEW j \in Jobs, Repeat(j) PROVE Before'
  BY <1>11 DEF Repeat, Starts, ops, folders, jobs, world
<1>12. ASSUME NEW o \in Threads, FolderStep(o) PROVE Before'
  <2>1. /\ ~Idle(o) /\ \A x \in Threads \ {o} : at'[x] = at[x]
        /\ at'[Starter] = "off" => at[Starter] = "off"
        /\ UNCHANGED <<in, todo, phase>>
        /\ \A f \in Folders : f # in[o] => files'[f] = files[f] /\ listed'[f] = listed[f]
    <3>1. /\ ~Idle(o) /\ \A x \in Threads \ {o} : at'[x] = at[x]
          /\ at'[Starter] = "off" => at[Starter] = "off"
          /\ UNCHANGED <<in, todo, phase>>
      <4>1. PICK s \in Changing \cup {"kept", "failed"} : at' = [at EXCEPT ![o] = s]
        BY <1>12, FolderMoves
      <4>2. at[o] \in Changing \cup {"wait"} /\ UNCHANGED <<in, todo, phase>>
        BY <1>12, FolderMoves
      <4> QED
        BY <4>1, <4>2
    <3>2. \A f \in Folders : f # in[o] => files'[f] = files[f] /\ listed'[f] = listed[f]
      BY SMTT(30), <1>12, FolderStepIs
    <3> QED
      BY <3>1, <3>2
  <2>2. CASE o = Starter
    <3>1. at'[Starter] # "off" /\ at[Starter] # "off"
      BY <2>1, <2>2
    <3>2. in[Starter] = Store => \A j \in Jobs : files'[j] = files[j] /\ listed'[j] = listed[j]
      BY <2>1, <2>2
    <3> QED
      BY SMTT(30), <2>1, <2>2, <3>1, <3>2
  <2>3. CASE o # Starter
    BY SMTT(30), <2>1, <2>3
  <2> QED
    BY <2>2, <2>3
<1>13. ASSUME NEW o \in Threads, Discard(o) PROVE Before'
  BY <1>13, DiscardIs DEF Leaves, Goes, folders, jobs, world
<1>14. ASSUME NEW o \in Threads, InstallFailed(o) PROVE Before'
  BY <1>14 DEF InstallFailed, Over, Leaves, Goes, Cleared, Uploading, ops, folders, jobs, world
<1>15. ASSUME NEW o \in Threads, CreationFailed(o) PROVE Before'
  BY <1>15 DEF CreationFailed, Leaves, Goes, Cleared, ops, folders, jobs, world
<1>16. ASSUME NEW o \in Threads, Created(o) PROVE Before'
  BY <1>16 DEF Created, Goes, Only, ops, folders, jobs, world
<1>17. ASSUME NEW o \in Threads, Register(o) PROVE Before'
  BY <1>17 DEF Register, Leaves, Goes, ops, folders, jobs, world
<1>18. ASSUME NEW o \in Threads, Announce(o) PROVE Before'
  BY <1>18, AnnounceIs DEF Leaves, Goes, folders
<1> QED
  BY NextIs, <1>1, <1>2, <1>3, <1>4, <1>5, <1>6, <1>7, <1>8, <1>9, <1>10, <1>11, <1>12, <1>13, <1>14, <1>15, <1>16, <1>17, <1>18

LEMMA UnbornNext ==
    ASSUME TypeOK, Posts, Roles, Before, Unborn, Next
    PROVE  Unborn'
<1> USE Names DEF TypeOK, Posts, Roles, Unborn, Own, Registered, Creators, States, Changing
<1>1. CASE Elsewhere
  BY <1>1, ElsewhereIs DEF ops, folders
<1>2. CASE StartBatch
  BY <1>2 DEF StartBatch, Starts, ops, folders, jobs, world
<1>3. CASE StoreInstalled
  BY <1>3 DEF StoreInstalled, Leaves, Goes, ops, folders, jobs, world
<1>4. CASE Settle
  BY SMTT(60), <1>4 DEF Settle, Over, Leaves, Goes, Cleared, ops, folders, jobs, world
<1>5. CASE Crash
  <2> SUFFICES ASSUME NEW j \in Jobs, phase'[j] \in {"absent", "pending"},
                      files'[j] # {} \/ listed'[j] # {}
               PROVE  FALSE
    OBVIOUS
  <2>1. /\ ~ \E o \in Threads : in[o] = j /\ at[o] = "register"
        /\ phase[j] \in {"absent", "pending"}
    BY <1>5 DEF Crash
  <2>2. ~Creating(j) /\ files'[j] = files[j] /\ listed'[j] = listed[j]
    BY <1>5 DEF Crash
  <2>3. j = in[Starter] \/ j = in[Scheduler]
    BY <2>1, <2>2
  <2>4. PICK c \in {Starter, Scheduler} : in[c] = j
    BY <2>3
  <2>5. at[c] \notin Changing \cup {"wait", "kept", "failed"}
    BY <2>2, <2>4 DEF Creating
  <2> QED
    BY <2>1, <2>4, <2>5
<1>6. ASSUME NEW a \in Adders, AddToBatch(a) PROVE Unborn'
  BY <1>6 DEF AddToBatch, Starts, Possible, Addable, ops, folders, jobs, world
<1>7. ASSUME NEW a \in Adders, LinkFailed(a) PROVE Unborn'
  BY <1>7 DEF LinkFailed, Leaves, Goes, ops, folders, jobs, world
<1>8. ASSUME NEW a \in Adders, Finished(a) PROVE Unborn'
  BY <1>8 DEF Finished, Over, Leaves, Goes, ops, folders, jobs, world
<1>9. ASSUME NEW o \in Owners, NEW j \in Jobs, AddToJob(o, j) PROVE Unborn'
  BY <1>9 DEF AddToJob, Starts, Addable, ops, folders, jobs, world
<1>10. ASSUME NEW o \in Threads, NEW j \in Jobs, ReadStore(o, j) PROVE Unborn'
  BY <1>10 DEF ReadStore, ops, folders, jobs, world
<1>11. ASSUME NEW j \in Jobs, Repeat(j) PROVE Unborn'
  BY <1>11 DEF Repeat, Starts, ops, folders, jobs, world
<1>12. ASSUME NEW o \in Threads, FolderStep(o) PROVE Unborn'
  BY <1>12, FolderStepIs DEF jobs
<1>13. ASSUME NEW o \in Threads, Discard(o) PROVE Unborn'
  <2>1. \A x \in Threads \ {o} : at'[x] = at[x] /\ in'[x] = in[x]
    BY <1>13, DiscardIs DEF Leaves, Goes
  <2>2. /\ in'[o] \in {in[o], None} /\ at'[o] \in {"discarded", "next"}
        /\ o \notin Creators \cup Owners => in[o] = Store
        /\ o # Starter /\ o # Scheduler
    BY <1>13, DiscardIs DEF Leaves, Goes, Uploading
  <2>3. UNCHANGED <<todo, members, phase, historical, files, listed>>
    BY <1>13, DiscardIs DEF jobs, world, folders
  <2> QED
    BY <2>1, <2>2, <2>3
<1>14. ASSUME NEW o \in Threads, InstallFailed(o) PROVE Unborn'
  BY <1>14 DEF InstallFailed, Over, Leaves, Goes, Cleared, Uploading, ops, folders, jobs, world
<1>15. ASSUME NEW o \in Threads, CreationFailed(o) PROVE Unborn'
  BY <1>15 DEF CreationFailed, Leaves, Goes, Cleared, ops, folders, jobs, world
<1>16. ASSUME NEW o \in Threads, Created(o) PROVE Unborn'
  BY <1>16 DEF Created, Goes, Only, ops, folders, jobs, world
<1>17. ASSUME NEW o \in Threads, Register(o) PROVE Unborn'
  BY <1>17 DEF Register, Leaves, Goes, ops, folders, jobs, world
<1>18. ASSUME NEW o \in Threads, Announce(o) PROVE Unborn'
  BY <1>18, AnnounceIs DEF Leaves, Goes, folders
<1> QED
  BY NextIs, <1>1, <1>2, <1>3, <1>4, <1>5, <1>6, <1>7, <1>8, <1>9, <1>10, <1>11, <1>12, <1>13, <1>14, <1>15, <1>16, <1>17, <1>18

LEMMA BeginningNext ==
    ASSUME TypeOK, Posts, Roles, Before, Beginning, Next
    PROVE  Beginning'
<1> USE Names DEF TypeOK, Posts, Roles, Beginning, Own, Idle, Registered, Creators, States, Changing
<1>1. CASE Elsewhere
  <2>1. /\ at' = at /\ in' = in /\ todo' = todo /\ files' = files /\ historical' = historical
        /\ Registered' = Registered
        /\ \A j \in Jobs : \/ phase'[j] = phase[j]
                           \/ phase[j] \notin {"absent", "pending"} /\ phase'[j] \notin {"absent", "pending"}
    BY <1>1, ElsewhereIs DEF ops, folders
  <2>2. /\ \A o \in Threads : Idle(o)' = Idle(o)
        /\ Own(Starter)' = Own(Starter) /\ Own(Scheduler)' = Own(Scheduler)
    BY <2>1
  <2> QED
    BY <2>1, <2>2
<1>2. CASE StartBatch
  BY <1>2 DEF StartBatch, Starts, Before, ops, folders, jobs, world
<1>3. CASE StoreInstalled
  BY <1>3 DEF StoreInstalled, Before, Leaves, Goes, ops, folders, jobs, world
<1>4. CASE Settle
  BY <1>4 DEF Settle, Over, Leaves, Goes, Cleared, ops, folders, jobs, world
<1>5. CASE Crash
  BY <1>5 DEF Crash, NoJobs, Nothing, ops, folders, jobs, world
<1>6. ASSUME NEW a \in Adders, AddToBatch(a) PROVE Beginning'
  <2>1. /\ at[a] = "off" /\ at' = [at EXCEPT ![a] = "wait"] /\ in' = [in EXCEPT ![a] = Store]
        /\ todo' = [todo EXCEPT ![a] = Registered] /\ UNCHANGED <<phase, historical>>
    BY <1>6 DEF AddToBatch, Starts, jobs, world
  <2>2. \E j \in Jobs : phase[j] \in {"ready", "running", "paused", "pending"}
    BY <1>6 DEF AddToBatch, Possible, Addable
  <2> QED
    BY <2>1, <2>2
<1>7. ASSUME NEW a \in Adders, LinkFailed(a) PROVE Beginning'
  BY <1>7 DEF LinkFailed, Leaves, Goes, ops, folders, jobs, world
<1>8. ASSUME NEW a \in Adders, Finished(a) PROVE Beginning'
  BY <1>8 DEF Finished, Over, Leaves, Goes, ops, folders, jobs, world
<1>9. ASSUME NEW o \in Owners, NEW j \in Jobs, AddToJob(o, j) PROVE Beginning'
  BY <1>9 DEF AddToJob, Starts, Addable, ops, folders, jobs, world
<1>10. ASSUME NEW o \in Threads, NEW j \in Jobs, ReadStore(o, j) PROVE Beginning'
  BY <1>10 DEF ReadStore, ops, folders, jobs, world
<1>11. ASSUME NEW j \in Jobs, Repeat(j) PROVE Beginning'
  BY <1>11 DEF Repeat, Starts, ops, folders, jobs, world
<1>12. ASSUME NEW o \in Threads, FolderStep(o) PROVE Beginning'
  BY <1>12, FolderMoves
<1>13. ASSUME NEW o \in Threads, Discard(o) PROVE Beginning'
  BY <1>13, DiscardIs DEF Leaves, Goes, folders, jobs, world
<1>14. ASSUME NEW o \in Threads, InstallFailed(o) PROVE Beginning'
  BY <1>14 DEF InstallFailed, Over, Leaves, Goes, Cleared, Uploading, ops, folders, jobs, world
<1>15. ASSUME NEW o \in Threads, CreationFailed(o) PROVE Beginning'
  BY <1>15 DEF CreationFailed, Leaves, Goes, Cleared, ops, folders, jobs, world
<1>16. ASSUME NEW o \in Threads, Created(o) PROVE Beginning'
  BY <1>16 DEF Created, Goes, Only, ops, folders, jobs, world
<1>17. ASSUME NEW o \in Threads, Register(o) PROVE Beginning'
  BY <1>17 DEF Register, Leaves, Goes, ops, folders, jobs, world
<1>18. ASSUME NEW o \in Threads, Announce(o) PROVE Beginning'
  BY <1>18, AnnounceIs DEF Leaves, Goes, folders
<1> QED
  BY NextIs, <1>1, <1>2, <1>3, <1>4, <1>5, <1>6, <1>7, <1>8, <1>9, <1>10, <1>11, <1>12, <1>13, <1>14, <1>15, <1>16, <1>17, <1>18

-----------------------------------------------------------------------------
(* The folders *)

\* No thread starts or ends changing a folder.
Still ==
    \A x \in Threads :
        /\ at'[x] \in Changing <=> at[x] \in Changing
        /\ at[x] \in Changing => at'[x] = at[x] /\ in'[x] = in[x] /\ plan'[x] = plan[x]

\* No thread turns to a job.
Rests ==
    \A x \in Threads :
        /\ in'[x] \in Jobs =>
              in'[x] = in[x] /\ plan'[x] = plan[x] /\ (at'[x] = "wait" => at[x] = "wait")
        /\ x \in Owners => plan'[x] = plan[x] \/ plan'[x] = {}

\* A folder is cleared; nobody else is there, and with the store goes the batch.
Clears(f) ==
    /\ Cleared(f)
    /\ \A x \in Threads : in'[x] # f /\ (at[x] \in Changing => in[x] # f)
    /\ f \in Jobs => f \notin Registered
    /\ f = Store => (\A x \in Threads : Idle(x)' /\ in'[x] = None) /\ \A j \in Jobs : listed[j] = {}

\* A folder is cleared when nobody else is at work in it: a job's by the thread that
\* creates it, the store's while there is nothing else.
LEMMA StoreAlone ==
    ASSUME TypeOK, Posts, Roles, Before, Unborn, Beginning,
           InstallFailed(Starter) \/ (Settle /\ ~SomeJobUses)
    PROVE  /\ \A x \in Threads \ {Starter} : Idle(x)
           /\ \A j \in Jobs : phase[j] = "absent" /\ files[j] = {} /\ listed[j] = {}
<1> USE Names
<1>1. CASE InstallFailed(Starter)
  BY <1>1 DEF InstallFailed, Uploading, Before
<1>2. CASE Settle /\ ~SomeJobUses
  <2>1. /\ \A j \in Jobs : phase[j] = "absent" /\ Registered = {}
        /\ at[Starter] = "next" /\ todo[Starter] = {} /\ in[Starter] = None /\ ~Idle(Starter)
    BY <1>2 DEF Settle, SomeJobUses, Registered, Idle, Posts
  <2>2. Own(Starter) = {}
    BY <2>1 DEF Own
  <2>3. \A x \in Threads \ {Starter} : Idle(x)
    <3>1. CASE historical
      BY <2>1, <3>1 DEF Beginning
    <3>2. CASE ~historical
      <4>1. \A j \in Jobs : at[Scheduler] = "register" /\ in[Scheduler] = j
        BY <2>1, <2>2, <3>2 DEF Beginning
      <4>2. Jobs \subseteq Own(Scheduler)
        BY <4>1 DEF Own
      <4>3. Own(Scheduler) = {} \/ Jobs \ Own(Scheduler) # {}
        BY <2>1 DEF Beginning
      <4>4. Jobs = {}
        BY <4>2, <4>3
      <4> QED
        BY <4>4 DEF Beginning
    <3> QED
      BY <3>1, <3>2 DEF TypeOK
  <2>4. in[Scheduler] = None
    BY <2>3 DEF Idle, Posts
  <2> QED
    BY <2>1, <2>3, <2>4 DEF Unborn
<1> QED
  BY <1>1, <1>2

LEMMA CreationAlone ==
    ASSUME TypeOK, Posts, Roles, NEW o \in Threads, CreationFailed(o),
           NEW x \in Threads \ {o}
    PROVE  in[x] # in[o] /\ in[o] \in Jobs
  BY Names DEF CreationFailed, Roles, Own, Creators

LEMMA AsideIs ==
    ASSUME TypeOK, Posts, Roles, Before, Unborn, Beginning,
           \/ Elsewhere \/ StartBatch \/ StoreInstalled \/ Settle
           \/ \E a \in Adders : AddToBatch(a) \/ LinkFailed(a) \/ Finished(a)
           \/ \E o \in Owners, j \in Jobs : AddToJob(o, j)
           \/ \E o \in Threads, j \in Jobs : ReadStore(o, j)
           \/ \E j \in Jobs : Repeat(j)
           \/ \E o \in Threads : \/ Discard(o) \/ InstallFailed(o) \/ CreationFailed(o)
                                 \/ Created(o) \/ Register(o) \/ Announce(o)
    PROVE  /\ Still /\ crashed' = crashed /\ spoiled \subseteq spoiled'
           /\ \/ UNCHANGED folders
              \/ \E f \in Folders : Clears(f)
           /\ \/ Rests
              \/ \E o \in Owners, j \in Jobs : AddToJob(o, j)
              \/ \E o \in Threads, j \in Jobs : ReadStore(o, j)
<1> USE Names DEF Changing
<1> DEFINE S(o) == \A x \in Threads \ {o} : at'[x] = at[x] /\ in'[x] = in[x] /\ plan'[x] = plan[x]
           N(o) == at[o] \notin Changing /\ at'[o] \notin Changing
           R(o) == /\ in'[o] \in Jobs => in'[o] = in[o] /\ plan'[o] = plan[o] /\ at'[o] # "wait"
                   /\ plan'[o] = plan[o] \/ plan'[o] = {} \/ o \notin Owners
           W == crashed' = crashed /\ spoiled \subseteq spoiled'
<1>1. ASSUME NEW o \in Threads, S(o), N(o) PROVE Still /\ (R(o) => Rests)
  BY <1>1 DEF Still, Rests
<1>2. CASE Elsewhere
  BY <1>2, ElsewhereIs DEF ops, Still, Rests, folders
<1>3. CASE StartBatch
  BY <1>1, <1>3 DEF StartBatch, Starts, folders, world, TypeOK
<1>4. CASE StoreInstalled
  BY <1>1, <1>4 DEF StoreInstalled, Leaves, Goes, world, TypeOK
<1>5. CASE Settle
  <2>1. S(Starter) /\ N(Starter) /\ R(Starter) /\ W
    BY <1>5 DEF Settle, Over, Leaves, Goes, world, TypeOK
  <2>2. CASE SomeJobUses
    BY <1>1, <1>5, <2>1, <2>2 DEF Settle
  <2>3. CASE ~SomeJobUses
    <3>1. (\A x \in Threads : at'[x] \in {"off", "over"} /\ in'[x] = None /\ at[x] \notin Changing)
          /\ \A j \in Jobs : listed[j] = {}
      <4>1. at'[Starter] = "over" /\ in'[Starter] = None
        BY <1>5 DEF Settle, Over, Leaves, Goes, TypeOK
      <4>2. \A x \in Threads \ {Starter} : at[x] \in {"off", "over"} /\ in[x] = None
        BY <1>5, <2>3, StoreAlone DEF Idle, Posts
      <4> QED
        BY <1>5, <2>1, <2>3, <4>1, <4>2, StoreAlone
    <3>2. Clears(Store)
      BY <1>5, <2>3, <3>1 DEF Settle, Clears, Idle
    <3> QED
      BY <1>1, <2>1, <3>2
  <2> QED
    BY <2>2, <2>3
<1>6. ASSUME NEW a \in Adders, AddToBatch(a) \/ LinkFailed(a) \/ Finished(a)
      PROVE  Still /\ Rests /\ W /\ UNCHANGED folders
  <2>1. S(a) /\ N(a) /\ R(a)
    <3>1. CASE AddToBatch(a)
      BY <3>1 DEF AddToBatch, Starts, TypeOK
    <3>2. CASE LinkFailed(a)
      BY <3>2 DEF LinkFailed, Leaves, Goes, TypeOK
    <3>3. CASE Finished(a)
      BY <3>3 DEF Finished, Over, Leaves, Goes, TypeOK
    <3> QED
      BY <1>6, <3>1, <3>2, <3>3
  <2> QED
    BY <1>1, <1>6, <2>1 DEF AddToBatch, LinkFailed, Finished, world
<1>7. ASSUME NEW o \in Owners, NEW j \in Jobs, AddToJob(o, j)
      PROVE  Still /\ W /\ UNCHANGED folders
  <2>1. S(o) /\ N(o)
    BY <1>7 DEF AddToJob, Starts, TypeOK
  <2> QED
    BY <1>1, <1>7, <2>1 DEF AddToJob, world
<1>8. ASSUME NEW o \in Threads, NEW j \in Jobs, ReadStore(o, j)
      PROVE  Still /\ W /\ UNCHANGED folders
  <2>1. S(o) /\ N(o)
    BY <1>8 DEF ReadStore, TypeOK
  <2>2. UNCHANGED folders /\ UNCHANGED world
    BY <1>8 DEF ReadStore
  <2> QED
    BY <1>1, <2>1, <2>2 DEF world
<1>9. ASSUME NEW j \in Jobs, Repeat(j)
      PROVE  Still /\ Rests /\ W /\ UNCHANGED folders
  <2>1. S(Scheduler) /\ N(Scheduler) /\ R(Scheduler)
    BY <1>9 DEF Repeat, Starts, TypeOK, Posts
  <2> QED
    BY <1>1, <1>9, <2>1 DEF Repeat, world
<1>10. ASSUME NEW o \in Threads, Discard(o) \/ Created(o) \/ Register(o) \/ Announce(o)
       PROVE  Still /\ Rests /\ W /\ UNCHANGED folders
  <2>1. CASE Discard(o)
    <3>1. S(o) /\ N(o) /\ R(o)
      BY <2>1, DiscardIs DEF Leaves, Goes, TypeOK
    <3> QED
      BY <1>1, <2>1, <3>1, DiscardIs DEF world
  <2>2. CASE Created(o)
    <3>1. S(o) /\ N(o) /\ R(o)
      BY <2>2 DEF Created, Goes, Only, TypeOK
    <3> QED
      BY <1>1, <2>2, <3>1 DEF Created, world
  <2>3. CASE Register(o)
    <3>1. S(o) /\ N(o) /\ R(o)
      BY <2>3 DEF Register, Leaves, Goes, TypeOK
    <3> QED
      BY <1>1, <2>3, <3>1 DEF Register, world
  <2>4. CASE Announce(o)
    <3>1. S(o) /\ N(o) /\ R(o)
      BY <2>4, AnnounceIs DEF Leaves, Goes, TypeOK
    <3> QED
      BY <1>1, <2>4, <3>1, AnnounceIs
  <2> QED
    BY <1>10, <2>1, <2>2, <2>3, <2>4
<1>11. ASSUME NEW o \in Threads, InstallFailed(o)
       PROVE  Still /\ Rests /\ W /\ (UNCHANGED folders \/ Clears(Store))
  <2>1. S(o) /\ N(o) /\ R(o) /\ W
    BY <1>11 DEF InstallFailed, Over, Leaves, Goes, world, TypeOK
  <2>2. CASE o = Starter
    <3>1. (\A x \in Threads : at'[x] \in {"off", "over"} /\ in'[x] = None /\ at[x] \notin Changing)
          /\ \A j \in Jobs : listed[j] = {}
      <4>1. at'[Starter] = "over" /\ in'[Starter] = None
        BY <1>11, <2>2 DEF InstallFailed, Over, Leaves, Goes, TypeOK
      <4>2. \A x \in Threads \ {Starter} : at[x] \in {"off", "over"} /\ in[x] = None
        BY <1>11, <2>2, StoreAlone DEF Idle, Posts
      <4> QED
        BY <1>11, <2>1, <2>2, <4>1, <4>2, StoreAlone
    <3>2. Clears(Store)
      BY <1>11, <2>2, <3>1 DEF InstallFailed, Clears, Idle
    <3> QED
      BY <1>1, <2>1, <3>2
  <2>3. CASE o # Starter
    BY <1>1, <1>11, <2>1, <2>3 DEF InstallFailed
  <2> QED
    BY <2>2, <2>3
<1>12. ASSUME NEW o \in Threads, CreationFailed(o)
       PROVE  Still /\ Rests /\ W /\ in[o] \in Folders /\ Clears(in[o])
  <2>1. S(o) /\ N(o) /\ R(o) /\ W /\ in'[o] = None
    BY <1>12 DEF CreationFailed, Leaves, Goes, world, TypeOK
  <2>2. Cleared(in[o]) /\ in[o] \in Jobs /\ in[o] \notin Registered /\ o \in Creators
    BY <1>12 DEF CreationFailed, Roles, Own, Creators
  <2>3. \A x \in Threads : in'[x] # in[o] /\ (at[x] \in Changing => in[x] # in[o])
    BY <1>12, <2>1, <2>2, CreationAlone
  <2> QED
    BY <1>1, <2>1, <2>2, <2>3 DEF Clears
<1> QED
  BY <1>2, <1>3, <1>4, <1>5, <1>6, <1>7, <1>8, <1>9, <1>10, <1>11, <1>12

LEMMA AsideKeeps ==
    ASSUME TypeOK, Posts, Nested, Placing, Complete, Still, crashed' = crashed,
           \/ UNCHANGED folders
           \/ \E f \in Folders : Clears(f)
    PROVE  Nested' /\ Placing' /\ Complete'
<1>1. \A x \in Threads : at[x] \in Changing => in[x] \in Folders
  BY DEF Posts, TypeOK, Changing
<1>2. CASE UNCHANGED folders
  BY <1>1, <1>2 DEF folders, Still, Nested, Placing, Come, Complete, Sound
<1>3. ASSUME NEW f \in Folders, Clears(f)
      PROVE  Nested' /\ Placing' /\ Complete'
  <2>1. /\ files'[f] = {} /\ index'[f] = {} /\ listed'[f] = {} /\ stuck'[f] = {}
        /\ \A g \in Folders \ {f} : /\ files'[g] = files[g] /\ index'[g] = index[g]
                                     /\ listed'[g] = listed[g] /\ stuck'[g] = stuck[g]
    BY <1>3 DEF Clears, Cleared, TypeOK
  <2>2. Nested'
    BY <2>1 DEF Nested, Sound
  <2>3. Placing'
    BY <1>1, <1>3, <2>1 DEF Clears, Still, Placing, Come, Sound
  <2>4. Complete'
    <3> SUFFICES ASSUME ~crashed PROVE Complete'
      BY DEF Complete
    <3>1. ASSUME NEW x \in Threads, at'[x] \in Changing
          PROVE  Sound(files, in[x])' \cup plan'[x] = Sound(listed, in[x])' \cup plan'[x]
      BY <1>1, <1>3, <2>1, <3>1 DEF Clears, Still, Complete, Sound
    <3>2. ASSUME NEW g \in Folders, \A x \in Threads : at'[x] \in Changing => in'[x] # g
          PROVE  Sound(files, g)' = Sound(listed, g)'
      <4>1. \A x \in Threads : at[x] \in Changing => in[x] # g
        BY <3>2 DEF Still
      <4> QED
        BY <2>1, <4>1 DEF Complete, Sound
    <3> QED
      BY <3>1, <3>2 DEF Complete
  <2> QED
    BY <2>2, <2>3, <2>4
<1> QED
  BY <1>2, <1>3

\* While a thread works in a folder, no other is between two steps there.
LEMMA FolderAlone ==
    ASSUME TypeOK, Posts, Locks, NEW o \in Threads, FolderStep(o)
    PROVE  /\ in[o] \in Folders
           /\ \A x \in Threads \ {o} : /\ at'[x] = at[x] /\ in'[x] = in[x] /\ plan'[x] = plan[x]
                                       /\ at[x] \in Changing => in[x] # in[o] /\ in[x] \in Folders
           /\ \A f \in Folders \ {in[o]} :
                 /\ files'[f] = files[f] /\ index'[f] = index[f]
                 /\ listed'[f] = listed[f] /\ stuck'[f] = stuck[f]
<1>1. in[o] \in Folders /\ \A x \in Threads : at[x] \in Changing => in[x] \in Folders
  BY FolderStepIs DEF Posts, TypeOK, Changing
<1>2. \A x \in Threads \ {o} : at'[x] = at[x] /\ in'[x] = in[x] /\ plan'[x] = plan[x]
  BY FolderStepIs DEF TypeOK
<1>3. \A f \in Folders \ {in[o]} : /\ files'[f] = files[f] /\ index'[f] = index[f]
                                   /\ listed'[f] = listed[f] /\ stuck'[f] = stuck[f]
  BY SMTT(30), <1>1, FolderStepIs DEF TypeOK
<1>4. ASSUME NEW x \in Threads \ {o}, at[x] \in Changing PROVE in[x] # in[o]
  <2>1. CASE at[o] \in Changing
    BY <1>1, <1>4, <2>1 DEF Locks, Holds
  <2>2. CASE at[o] = "wait"
    <3>1. Free(in[o])
      BY <2>2 DEF FolderStep, Place, WriteIndex, WriteManifest, Recorded, Breaks, Unlist, Unindex, Unplace
    <3> QED
      BY <1>4, <3>1 DEF Free, Holds
  <2> QED
    BY <2>1, <2>2, FolderStepIs
<1> QED
  BY <1>1, <1>2, <1>3, <1>4

\* What each step does to the folder and to what the thread is about to do there.
LEMMA FolderNow ==
    ASSUME TypeOK, Bounded, Posts, NEW o \in Threads, FolderStep(o)
    PROVE  LET f == in[o] IN
           \/ /\ at[o] = "wait" /\ Free(f) /\ at'[o] = "failed" /\ plan'[o] = plan[o]
              /\ UNCHANGED folders
           \/ /\ at[o] = "wait" /\ Free(f) /\ Taken(o)
              /\ plan'[o] = {Named(e, f) : e \in Usable(o)}
              /\ at'[o] = IF plan'[o] = {} THEN "kept" ELSE "placed"
              /\ files'[f] = files[f] \cup plan'[o] /\ UNCHANGED <<index, listed, stuck>>
           \/ /\ at[o] = "placed" /\ at'[o] = "indexed" /\ plan'[o] = plan[o]
              /\ index'[f] = listed[f] \cup plan[o] /\ stuck'[f] = stuck[f] \ plan[o]
              /\ UNCHANGED <<files, listed>>
           \/ /\ at[o] = "indexed" /\ at'[o] \in {"listed", "kept"} /\ plan'[o] = plan[o]
              /\ at'[o] = "listed" => f # Store
              /\ listed'[f] = listed[f] \cup plan[o] /\ UNCHANGED <<files, index, stuck>>
           \/ /\ at[o] = "listed" /\ at'[o] = "kept" /\ plan'[o] = plan[o]
              /\ UNCHANGED folders
           \/ /\ at[o] = "placed" /\ at'[o] \in {"unplace", "unindex"} /\ plan'[o] = plan[o]
              /\ UNCHANGED folders
           \/ /\ at[o] \in {"indexed", "listed"} /\ at'[o] = "unlist" /\ plan'[o] = plan[o]
              /\ UNCHANGED folders
           \/ /\ at[o] = "unlist" /\ at'[o] = "unindex" /\ plan'[o] = plan[o]
              /\ \/ listed'[f] = listed[f] \ plan[o] /\ UNCHANGED stuck
                 \/ stuck'[f] = stuck[f] \cup (plan[o] \cap listed[f]) /\ UNCHANGED listed
              /\ UNCHANGED <<files, index>>
           \/ /\ at[o] = "unindex" /\ at'[o] = "unplace" /\ plan'[o] = plan[o]
              /\ \/ index'[f] = listed[f] \ plan[o] /\ UNCHANGED stuck
                 \/ stuck'[f] = stuck[f] \cup (plan[o] \cap index[f]) /\ UNCHANGED index
              /\ UNCHANGED <<files, listed>>
           \/ /\ at[o] = "unplace" /\ at'[o] = "failed" /\ plan'[o] = plan[o]
              /\ \E left \in SUBSET plan[o] :
                    /\ files'[f] = files[f] \ (plan[o] \ left)
                    /\ stuck'[f] = stuck[f] \cup left
              /\ UNCHANGED <<index, listed>>
<1>1. in[o] \in Folders
  BY SMTT(30), FolderStepIs DEF Posts, TypeOK, Changing
<1> USE <1>1
<1>2. CASE Place(o)
  <2>1. CASE Taken(o)
    <3> DEFINE new == {Named(e, in[o]) : e \in Usable(o)}
    <3>1. /\ plan' = [plan EXCEPT ![o] = new] /\ UNCHANGED <<index, listed, stuck>>
          /\ at' = [at EXCEPT ![o] = IF new = {} THEN "kept" ELSE "placed"]
          /\ files' = [files EXCEPT ![in[o]] = @ \cup new] /\ at[o] = "wait" /\ Free(in[o])
      BY <1>2, <2>1 DEF Place, Goes
    <3>2. plan'[o] = new /\ files'[in[o]] = files[in[o]] \cup new
      BY <3>1, Zenon DEF TypeOK
    <3>3. at'[o] = IF new = {} THEN "kept" ELSE "placed"
      BY <3>1, Zenon DEF TypeOK
    <3> HIDE DEF new
    <3>4. at'[o] = IF plan'[o] = {} THEN "kept" ELSE "placed"
      BY <3>2, <3>3
    <3>5. plan'[o] = {Named(e, in[o]) : e \in Usable(o)}
      BY <3>2, Zenon DEF new
    <3>6. files'[in[o]] = files[in[o]] \cup plan'[o]
      BY <3>2
    <3> QED
      BY <2>1, <3>1, <3>4, <3>5, <3>6, Zenon
  <2>2. CASE ~Taken(o)
    BY <1>2, <2>2 DEF Place, Goes, TypeOK, folders
  <2> QED
    BY <2>1, <2>2
<1>3. CASE WriteIndex(o)
  BY <1>3 DEF WriteIndex, Goes, Only, TypeOK
<1>4. CASE WriteManifest(o)
  BY <1>4 DEF WriteManifest, Goes, Only, Audited, TypeOK
<1>5. CASE Recorded(o)
  BY <1>5 DEF Recorded, Goes, Only, folders, TypeOK
<1>6. CASE Breaks(o)
  BY <1>6 DEF Breaks, UndoneFrom, Goes, Only, folders, TypeOK
<1>7. CASE Unlist(o)
  BY <1>7 DEF Unlist, Stays, Goes, Only, TypeOK
<1>8. CASE Unindex(o)
  BY <1>8 DEF Unindex, Stays, Goes, Only, TypeOK
<1>9. CASE Unplace(o)
  <2>1. PICK left \in SUBSET plan[o] :
              /\ files' = [files EXCEPT ![in[o]] = @ \ (plan[o] \ left)]
              /\ Stays(o, left)
    BY <1>9 DEF Unplace
  <2>2. /\ files'[in[o]] = files[in[o]] \ (plan[o] \ left)
        /\ stuck'[in[o]] = stuck[in[o]] \cup left
    BY <2>1 DEF Stays, TypeOK
  <2> QED
    BY <1>9, <2>2 DEF Unplace, Goes, Only, TypeOK
<1> QED
  BY <1>2, <1>3, <1>4, <1>5, <1>6, <1>7, <1>8, <1>9 DEF FolderStep

LEMMA FolderNested ==
    ASSUME TypeOK, Bounded, Posts, Locks, Nested, Placing, NEW o \in Threads, FolderStep(o)
    PROVE  Nested' /\ (at'[o] \in Changing => Come(o)')
<1> DEFINE f == in[o]
<1>1. f \in Folders /\ in'[o] = f
  BY FolderAlone, FolderStepIs
<1>2. at[o] \in Changing => Come(o)
  BY DEF Placing
<1>3. listed[f] \ stuck[f] \subseteq index[f] /\ index[f] \ stuck[f] \subseteq files[f]
  BY <1>1 DEF Nested, Sound
<1>4. at[o] = "wait" /\ plan'[o] = {Named(e, f) : e \in Usable(o)} =>
          plan'[o] \cap (files[f] \cup listed[f]) = {}
  BY <1>1, NamedAll DEF Used
<1>5. /\ listed'[f] \ stuck'[f] \subseteq index'[f] /\ index'[f] \ stuck'[f] \subseteq files'[f]
      /\ at'[o] \in Changing =>
           /\ plan'[o] \subseteq files'[f]
           /\ at'[o] \in {"placed", "unplace"} => plan'[o] \cap (index'[f] \ stuck'[f]) = {}
           /\ at'[o] \in {"placed", "indexed"} => plan'[o] \cap listed'[f] = {}
           /\ at'[o] = "unindex" => plan'[o] \cap (listed'[f] \ stuck'[f]) = {}
           /\ f = Store => plan'[o] \cap listed'[f] = {}
           /\ at'[o] \in {"indexed", "listed", "unlist"} =>
                 index'[f] = listed'[f] \cup plan'[o] /\ plan'[o] \cap stuck'[f] = {}
           /\ at'[o] = "listed" => f # Store /\ plan'[o] \subseteq listed'[f]
  <2> HIDE DEF f
  <2> USE DEF Changing, Come, Sound, folders
  <2>1. CASE at[o] = "wait"
    BY <1>3, <1>4, <2>1, FolderNow DEF f
  <2>2. CASE at[o] = "placed"
    BY <1>2, <1>3, <2>2, FolderNow DEF f
  <2>3. CASE at[o] = "indexed"
    BY <1>2, <1>3, <2>3, FolderNow DEF f
  <2>4. CASE at[o] = "listed"
    BY <1>2, <1>3, <2>4, FolderNow DEF f
  <2>5. CASE at[o] = "unlist"
    BY <1>2, <1>3, <2>5, FolderNow DEF f
  <2>6. CASE at[o] = "unindex"
    BY <1>2, <1>3, <2>6, FolderNow DEF f
  <2>7. CASE at[o] = "unplace"
    BY <1>2, <1>3, <2>7, FolderNow DEF f
  <2> QED
    BY <2>1, <2>2, <2>3, <2>4, <2>5, <2>6, <2>7, FolderStepIs
<1>6. Nested'
  BY <1>1, <1>5, FolderAlone DEF Nested, Sound
<1> QED
  BY <1>1, <1>5, <1>6 DEF Come, Sound

LEMMA FolderPlacing ==
    ASSUME TypeOK, Bounded, Posts, Locks, Nested, Placing, NEW o \in Threads, FolderStep(o)
    PROVE  Placing'
<1> SUFFICES ASSUME NEW x \in Threads, at'[x] \in Changing PROVE Come(x)'
  BY DEF Placing
<1>1. CASE x = o
  BY <1>1, FolderNested
<1>2. CASE x # o
  <2>1. /\ at'[x] = at[x] /\ in'[x] = in[x] /\ plan'[x] = plan[x]
        /\ in[x] \in Folders \ {in[o]}
    BY <1>2, FolderAlone
  <2>2. /\ files'[in[x]] = files[in[x]] /\ index'[in[x]] = index[in[x]]
        /\ listed'[in[x]] = listed[in[x]] /\ stuck'[in[x]] = stuck[in[x]]
    BY <2>1, FolderAlone
  <2> QED
    BY <2>1, <2>2 DEF Placing, Come, Sound
<1> QED
  BY <1>1, <1>2

LEMMA FolderComplete ==
    ASSUME TypeOK, Bounded, Posts, Locks, Nested, Placing, Complete, NEW o \in Threads, FolderStep(o)
    PROVE  Complete'
<1> DEFINE f == in[o]
<1> SUFFICES ASSUME ~crashed PROVE Complete'
  BY FolderStepIs DEF Complete
<1>1. f \in Folders /\ in' = in
  BY FolderAlone, FolderStepIs
<1>2. at[o] \in Changing =>
          Come(o) /\ (files[f] \ stuck[f]) \cup plan[o] = (listed[f] \ stuck[f]) \cup plan[o]
  BY DEF Placing, Complete, Sound
<1>3. at[o] = "wait" /\ Free(f) => files[f] \ stuck[f] = listed[f] \ stuck[f]
  BY <1>1 DEF Complete, Free, Holds, Sound
<1>4. IF at'[o] \in Changing
      THEN (files'[f] \ stuck'[f]) \cup plan'[o] = (listed'[f] \ stuck'[f]) \cup plan'[o]
      ELSE files'[f] \ stuck'[f] = listed'[f] \ stuck'[f]
  <2> HIDE DEF f
  <2> USE DEF Changing, Come, Sound, folders
  <2>0. listed[f] \ stuck[f] \subseteq index[f] /\ index[f] \ stuck[f] \subseteq files[f]
    BY <1>1 DEF Nested
  <2>1. CASE at[o] = "wait"
    BY ZenonT(40), <1>3, <2>1, FolderNow DEF f
  <2>2. CASE at[o] = "placed"
    BY <1>2, <2>2, FolderNow DEF f
  <2>3. CASE at[o] = "indexed"
    BY <1>2, <2>3, FolderNow DEF f
  <2>4. CASE at[o] = "listed"
    BY <1>2, <2>4, FolderNow DEF f
  <2>5. CASE at[o] = "unlist"
    BY <1>2, <2>5, FolderNow DEF f
  <2>6. CASE at[o] = "unindex"
    BY <1>2, <2>6, FolderNow DEF f
  <2>7. CASE at[o] = "unplace"
    BY <1>2, <2>0, <2>7, FolderNow DEF f
  <2> QED
    BY <2>1, <2>2, <2>3, <2>4, <2>5, <2>6, <2>7, FolderStepIs
<1>5. ASSUME NEW x \in Threads, at'[x] \in Changing
      PROVE  Sound(files, in[x])' \cup plan'[x] = Sound(listed, in[x])' \cup plan'[x]
  <2>1. CASE x = o
    BY <1>1, <1>4, <1>5, <2>1 DEF Sound
  <2>2. CASE x # o
    BY <1>1, <1>5, <2>2, FolderAlone DEF Complete, Sound
  <2> QED
    BY <2>1, <2>2
<1>6. ASSUME NEW g \in Folders, \A x \in Threads : at'[x] \in Changing => in'[x] # g
      PROVE  Sound(files, g)' = Sound(listed, g)'
  <2>1. CASE g = f
    BY <1>1, <1>4, <1>6, <2>1 DEF Sound
  <2>2. CASE g # f
    <3>1. \A x \in Threads : at[x] \in Changing => in[x] # g
      BY <1>1, <1>6, <2>2, FolderAlone
    <3> QED
      BY <2>2, <3>1, FolderAlone DEF Complete, Sound
  <2> QED
    BY <2>1, <2>2
<1> QED
  BY <1>5, <1>6 DEF Complete

LEMMA CrashFolders ==
    ASSUME TypeOK, Nested, Crash
    PROVE  Nested' /\ Placing' /\ Complete'
<1>1. Nested'
  BY DEF Nested, Sound, Crash
<1>2. \A o \in Threads : at'[o] \notin Changing
  BY DEF Crash, Changing
<1>3. crashed'
  BY DEF Crash
<1> QED
  BY <1>1, <1>2, <1>3 DEF Placing, Complete

LEMMA FoldersNext ==
    ASSUME TypeOK, Bounded, Posts, Roles, Before, Unborn, Beginning, Locks, Nested, Placing, Complete, Next
    PROVE  Nested' /\ Placing' /\ Complete'
<1>1. CASE Crash
  BY <1>1, CrashFolders
<1>2. CASE \E o \in Threads : FolderStep(o)
  BY <1>2, FolderNested, FolderPlacing, FolderComplete
<1>3. CASE ~Crash /\ ~ \E o \in Threads : FolderStep(o)
  <2>1. /\ Still /\ crashed' = crashed
        /\ \/ UNCHANGED folders
           \/ \E f \in Folders : Clears(f)
    BY <1>3, NextIs, AsideIs
  <2> QED
    BY <2>1, AsideKeeps
<1> QED
  BY <1>1, <1>2, <1>3

\* What is offered is no more than the store lists.
LEMMA OfferedBounded ==
    ASSUME TypeOK, Bounded, NEW o
    PROVE  IsFiniteSet({<<w, TRUE, 0>> : w \in Offered(o)})
<1> DEFINE S == listed[Store]
           T == {<<w, TRUE, 0>> : w \in Offered(o)}
           name == [e \in S |-> <<e[1], TRUE, 0>>]
<1>1. IsFiniteSet(S)
  BY Names DEF Bounded
<1>2. Offered(o) = {e[1] : e \in S}
  BY Zenon DEF Offered, Shared, OfBatch
<1>3. name \in Surjection(S, T)
  BY <1>2 DEF Surjection
<1> HIDE DEF S, T, name
<1>4. IsFiniteSet(T)
  BY <1>1, <1>3, FS_Surjection
<1> QED
  BY <1>4 DEF T

LEMMA BoundedNext ==
    ASSUME TypeOK, Bounded, Posts, Nested, Next
    PROVE  Bounded'
<1> USE Names
<1>1. IsFiniteSet({}) /\ \A x : IsFiniteSet({x})
  BY FS_EmptySet, FS_Singleton
<1>2. ASSUME NEW o \in Threads, IsFiniteSet(plan'[o]),
             \A x \in Threads \ {o} : plan'[x] = plan[x],
             \A f \in Folders : files'[f] \in {files[f], {}} /\ listed'[f] \in {listed[f], {}}
      PROVE  Bounded'
  BY <1>1, <1>2 DEF Bounded
<1>3. ASSUME NEW o \in Threads, NEW s, Leaves(o, s)
      PROVE  plan'[o] = {} /\ \A x \in Threads \ {o} : plan'[x] = plan[x]
  BY <1>3 DEF Leaves, TypeOK
<1>4. ASSUME NEW g \in Folders, Cleared(g)
      PROVE  \A f \in Folders : files'[f] \in {files[f], {}} /\ listed'[f] \in {listed[f], {}}
  BY <1>4 DEF Cleared, TypeOK
<1>5. CASE Elsewhere
  BY <1>5, ElsewhereIs DEF ops, folders, Bounded
<1>6. CASE StartBatch
  BY <1>1, <1>2, <1>6 DEF StartBatch, folders, TypeOK
<1>7. CASE StoreInstalled
  BY <1>1, <1>2, <1>3, <1>7 DEF StoreInstalled, folders
<1>8. CASE Settle
  <2>1. Leaves(Starter, "over") /\ (Cleared(Store) \/ UNCHANGED folders)
    BY <1>8 DEF Settle, Over
  <2> QED
    BY <1>1, <1>2, <1>3, <1>4, <2>1 DEF folders
<1>9. CASE Crash
  BY <1>1, <1>9 DEF Crash, NoJobs, Bounded
<1>10. ASSUME NEW a \in Adders, AddToBatch(a) PROVE Bounded'
  BY <1>1, <1>2, <1>10 DEF AddToBatch, folders, TypeOK
<1>11. ASSUME NEW a \in Adders, LinkFailed(a) \/ Finished(a) PROVE Bounded'
  <2>1. (\E s : Leaves(a, s)) /\ UNCHANGED folders
    BY <1>11, Zenon DEF LinkFailed, Finished, Over
  <2> QED
    BY <1>1, <1>2, <1>3, <2>1 DEF folders
<1>12. ASSUME NEW o \in Owners, NEW j \in Jobs, AddToJob(o, j) PROVE Bounded'
  <2>1. PICK w : plan' = [plan EXCEPT ![o] = {<<w, FALSE, 0>>}]
    BY <1>12 DEF AddToJob
  <2>2. IsFiniteSet(plan'[o]) /\ \A x \in Threads \ {o} : plan'[x] = plan[x]
    BY <1>1, <2>1 DEF TypeOK
  <2>3. files' = files /\ listed' = listed
    BY <1>12 DEF AddToJob, folders
  <2> QED
    BY <1>2, <2>2, <2>3
<1>13. ASSUME NEW o \in Threads, NEW j \in Jobs, ReadStore(o, j) PROVE Bounded'
  <2> DEFINE T == {<<w, TRUE, 0>> : w \in Offered(o)}
  <2>1. IsFiniteSet(T)
    BY OfferedBounded
  <2>2. plan' = [plan EXCEPT ![o] = T] /\ files' = files /\ listed' = listed
    BY <1>13 DEF ReadStore, folders
  <2> HIDE DEF T
  <2> QED
    BY <1>2, <2>1, <2>2 DEF TypeOK
<1>14. ASSUME NEW j \in Jobs, Repeat(j) PROVE Bounded'
  BY <1>14 DEF Repeat, folders, Bounded
<1>15. ASSUME NEW o \in Threads, FolderStep(o) PROVE Bounded'
  <2>1. in[o] \in Folders
    BY SMTT(30), <1>15, FolderStepIs DEF Posts, TypeOK, Changing
  <2>2. IsFiniteSet(plan'[o])
    <3>1. plan'[o] = plan[o] \/ plan'[o] = {Named(e, in[o]) : e \in Usable(o)}
      BY <1>15, FolderNow, Zenon
    <3> QED
      BY <2>1, <3>1, NamedAll DEF Bounded
  <2>3. \A f \in Folders \ {in[o]} : files'[f] = files[f] /\ listed'[f] = listed[f]
    BY <1>15, <2>1, FolderStepIs DEF TypeOK
  <2>4. IsFiniteSet(files'[in[o]]) /\ IsFiniteSet(listed'[in[o]])
    <3>1. /\ files'[in[o]] \subseteq files[in[o]] \cup plan'[o]
          /\ listed'[in[o]] \subseteq listed[in[o]] \cup plan[o]
      BY <1>15, FolderNow DEF folders
    <3>2. IsFiniteSet(files[in[o]] \cup plan'[o]) /\ IsFiniteSet(listed[in[o]] \cup plan[o])
      BY <2>1, <2>2, FS_Union DEF Bounded
    <3> QED
      BY <3>1, <3>2, FS_Subset
  <2>5. \A x \in Threads \ {o} : plan'[x] = plan[x]
    BY <1>15, FolderStepIs DEF TypeOK
  <2> QED
    BY <2>2, <2>3, <2>4, <2>5 DEF Bounded
<1>16. ASSUME NEW o \in Threads, Discard(o) \/ Created(o) PROVE Bounded'
  <2>1. files' = files /\ listed' = listed /\ (plan' = plan \/ Leaves(o, "next"))
    BY <1>16, DiscardIs DEF Created, Only, folders
  <2> QED
    BY <1>1, <1>2, <1>3, <2>1 DEF Bounded
<1>17. ASSUME NEW o \in Threads, Register(o) \/ Announce(o) PROVE Bounded'
  <2>1. files' = files /\ listed' = listed /\ \E s : Leaves(o, s)
    BY <1>17, AnnounceIs, Zenon DEF Register, folders
  <2> QED
    BY <1>1, <1>2, <1>3, <2>1
<1>18. ASSUME NEW o \in Threads, InstallFailed(o) \/ CreationFailed(o) PROVE Bounded'
  <2>1. \E s : Leaves(o, s)
    BY <1>18, Zenon DEF InstallFailed, Over, CreationFailed
  <2>2. UNCHANGED folders \/ \E g \in Folders : Cleared(g)
    BY <1>18, Zenon DEF InstallFailed, CreationFailed, Folders
  <2> QED
    BY <1>1, <1>2, <1>3, <1>4, <2>1, <2>2 DEF folders
<1> QED
  BY NextIs, <1>5, <1>6, <1>7, <1>8, <1>9, <1>10, <1>11, <1>12, <1>13, <1>14, <1>15, <1>16, <1>17, <1>18

-----------------------------------------------------------------------------
(* Each work of the batch once *)

LEMMA SameEntry ==
    ASSUME NEW e \in Entries, NEW d \in Entries, e[1] = d[1], e[2] = d[2], e[3] = d[3]
    PROVE  e = d
  BY DEF Entries

\* The store loses nothing by a step in a folder.
LEMMA StoreGrows ==
    ASSUME TypeOK, Bounded, Posts, Locks, Placing, NEW o \in Threads, FolderStep(o)
    PROVE  Shared(Store) \subseteq Shared(Store)'
<1>1. listed[Store] \subseteq listed'[Store]
  <2>1. CASE in[o] # Store
    BY <2>1, FolderAlone, Names
  <2>2. CASE in[o] = Store
    <3>1. at[o] = "unlist" => plan[o] \cap listed[Store] = {}
      BY <2>2 DEF Placing, Come, Changing
    <3> QED
      BY <2>2, <3>1, FolderNow DEF folders
  <2> QED
    BY <2>1, <2>2
<1> QED
  BY <1>1 DEF Shared, OfBatch

\* What a thread adds to a job's folder comes from what it meant to add.
LEMMA PlacedIs ==
    ASSUME TypeOK, Bounded, Posts, Linking, NEW o \in Threads, Place(o), Taken(o), Links(o)
    PROVE  /\ \A e \in plan'[o] : e[1] \in Shared(Store) /\ e[2] /\ e[1] \notin Shared(in[o])
           /\ \A e, d \in plan'[o] : e[1] = d[1] => e = d
<1> DEFINE f == in[o]
<1>1. f \in Jobs /\ f \in Folders /\ ~Uploading(o) /\ at[o] = "wait"
  BY Names DEF Links, Uploading, Place
<1>2. plan'[o] = {Named(e, f) : e \in Usable(o)}
  <2>1. plan' = [plan EXCEPT ![o] = {Named(e, in[o]) : e \in Usable(o)}]
    BY DEF Place
  <2> QED
    BY <2>1, Zenon DEF TypeOK
<1>3. \A e \in Usable(o) : /\ e \in plan[o] /\ e \in Entries /\ e[1] \in Shared(Store) /\ e[2] = TRUE
                           /\ e[3] = 0 /\ e[1] \notin Shared(f)
  <2>1. \A e \in plan[o] : e \in Entries
    BY DEF TypeOK
  <2>2. \A e \in Entries : e[2] \in BOOLEAN
    BY DEF Entries
  <2>3. \A e \in plan[o] : e[1] \in Shared(Store) /\ e[2] /\ e[3] = 0
    BY <1>1 DEF Linking
  <2>4. \A e \in Usable(o) : e \in plan[o] /\ e[1] \notin Shared(f)
    BY <1>1 DEF Usable, Lacking
  <2> QED
    BY <2>1, <2>2, <2>3, <2>4
<1>4. \A e, d \in Usable(o) : e[1] = d[1] => e = d
  BY <1>3, SameEntry
<1>5. \A e \in Usable(o) : Named(e, f)[1] = e[1] /\ Named(e, f)[2] = e[2]
  BY <1>1, <1>3, NamedIs, FS_Union DEF Bounded, Used
<1> HIDE DEF f
<1>6. ASSUME NEW d \in plan'[o] PROVE d[1] \in Shared(Store) /\ d[2] /\ d[1] \notin Shared(f)
  <2>1. PICK e \in Usable(o) : d = Named(e, f)
    BY <1>2
  <2>2. d[1] = e[1] /\ d[2] = e[2]
    BY <1>5, <2>1, Zenon
  <2> QED
    BY <1>3, <2>2
<1>7. ASSUME NEW c \in plan'[o], NEW d \in plan'[o], c[1] = d[1] PROVE c = d
  <2>1. PICK e \in Usable(o) : c = Named(e, f)
    BY <1>2
  <2>2. PICK g \in Usable(o) : d = Named(g, f)
    BY <1>2
  <2>3. e[1] = g[1]
    BY <1>5, <1>7, <2>1, <2>2, Zenon
  <2> QED
    BY <1>4, <2>1, <2>2, <2>3, Zenon
<1> QED
  BY <1>6, <1>7 DEF f

OfBatchNext(f) == {e \in listed'[f] : f = Store \/ e[2]}

\* One folder of a job, after a step there.
LEMMA LinkedThere ==
    ASSUME TypeOK, Bounded, Posts, Locks, Nested, Placing, SharedOnce, Linking,
           NEW o \in Threads, FolderStep(o), in[o] \in Jobs
    PROVE  LET f == in[o] IN
           /\ \A e \in OfBatchNext(f) : e[1] \in Shared(Store)
           /\ \A e, d \in OfBatchNext(f) : e[1] = d[1] => e = d
           /\ Links(o) => \A e \in plan'[o] : e[1] \in Shared(Store) /\ e[2]
           /\ Links(o) /\ at'[o] \in Changing =>
                 \A e, d \in OfBatchNext(f) \cup plan'[o] : e[1] = d[1] => e = d
           /\ o \in Owners => \A e \in plan'[o] : ~e[2]
<1> DEFINE f == in[o]
<1>1. f \in Folders /\ f # Store /\ f \in Jobs
  BY Names
<1>2. /\ \A e \in OfBatch(f) : e[1] \in Shared(Store)
      /\ \A e, d \in OfBatch(f) : e[1] = d[1] => e = d
  BY <1>1 DEF SharedOnce, Shared
<1>3. OfBatch(f) = {e \in listed[f] : e[2]} /\ OfBatchNext(f) = {e \in listed'[f] : e[2]}
  BY <1>1 DEF OfBatch, OfBatchNext
<1>4. o \in Owners => \A e \in plan[o] : ~e[2]
  BY DEF Linking
<1>5. Links(o) => \A e \in plan[o] : e[1] \in Shared(Store) /\ e[2]
  BY DEF Linking
<1>6. Links(o) /\ at[o] \in Changing => \A e, d \in OfBatch(f) \cup plan[o] : e[1] = d[1] => e = d
  BY DEF Linking
<1>7. o \in Owners \/ Links(o)
  BY DEF Links
<1>8. CASE Place(o) /\ Taken(o)
  <2>1. listed' = listed /\ in' = in /\ OfBatchNext(f) = OfBatch(f)
    BY <1>3, <1>8 DEF Place
  <2>2. CASE Links(o)
    <3>1. /\ \A e \in plan'[o] : e[1] \in Shared(Store) /\ e[2] /\ e[1] \notin Shared(f)
          /\ \A e, d \in plan'[o] : e[1] = d[1] => e = d
      BY <1>8, <2>2, PlacedIs
    <3>2. \A e \in OfBatch(f) : e[1] \in Shared(f)
      BY DEF Shared
    <3>3. \A e, d \in OfBatch(f) \cup plan'[o] : e[1] = d[1] => e = d
      <4> HIDE DEF f
      <4> QED
        BY <1>2, <3>1, <3>2
    <3> QED
      BY <1>2, <2>1, <2>2, <3>1, <3>3 DEF Links
  <2>3. CASE o \in Owners
    <3>1. plan'[o] = {Named(e, f) : e \in Usable(o)}
      <4>1. plan' = [plan EXCEPT ![o] = {Named(e, in[o]) : e \in Usable(o)}]
        BY <1>8 DEF Place
      <4> QED
        BY <4>1, Zenon DEF TypeOK
    <3>2. \A e \in Usable(o) : e \in Entries /\ ~e[2]
      BY <1>4, <2>3 DEF Usable, Lacking, TypeOK
    <3>3. \A e \in Usable(o) : Named(e, f)[2] = e[2]
      BY <1>1, <3>2, NamedIs, FS_Union DEF Bounded, Used
    <3>4. \A e \in plan'[o] : ~e[2]
      BY <3>1, <3>2, <3>3
    <3> QED
      BY <1>2, <2>1, <2>3, <3>4 DEF Links
  <2> QED
    BY <1>7, <2>2, <2>3
<1>9. CASE ~(Place(o) /\ Taken(o))
  <2>1. plan'[o] = plan[o] /\ (at[o] # "wait" => at[o] \in Changing)
        /\ (at[o] = "wait" => at'[o] = "failed")
    <3>1. CASE Place(o)
      BY <1>9, <3>1 DEF Place, Goes, TypeOK
    <3>2. CASE ~Place(o)
      BY <3>2 DEF FolderStep, WriteIndex, WriteManifest, Recorded, Breaks, UndoneFrom, Unlist,
                   Unindex, Unplace, Only, Goes, Changing, TypeOK
    <3> QED
      BY <3>1, <3>2
  <2>2. \/ listed'[f] \subseteq listed[f]
        \/ at[o] = "indexed" /\ listed'[f] = listed[f] \cup plan[o]
    <3>1. listed' = listed \/ WriteManifest(o) \/ Unlist(o)
      BY Zenon DEF FolderStep, Place, WriteIndex, Recorded, Breaks, Unindex, Unplace, folders
    <3> QED
      BY <1>1, <3>1 DEF WriteManifest, Unlist, TypeOK
  <2> HIDE DEF f
  <2>3. CASE listed'[f] \subseteq listed[f]
    <3>1. OfBatchNext(f) \subseteq OfBatch(f)
      BY <1>3, <2>3
    <3>2. at'[o] \in Changing => at[o] \in Changing
      BY <2>1 DEF Changing
    <3> QED
      BY <1>2, <1>4, <1>5, <1>6, <2>1, <3>1, <3>2 DEF f
  <2>4. CASE at[o] = "indexed" /\ listed'[f] = listed[f] \cup plan[o]
    <3>1. OfBatchNext(f) \subseteq OfBatch(f) \cup {e \in plan[o] : e[2]}
      BY <1>3, <2>4
    <3>2. CASE o \in Owners
      <4>1. OfBatchNext(f) \subseteq OfBatch(f)
        BY <1>4, <3>1, <3>2
      <4> QED
        BY <1>2, <1>4, <2>1, <3>2, <4>1 DEF f, Links
    <3>3. CASE Links(o)
      <4>1. \A e, d \in OfBatch(f) \cup plan[o] : e[1] = d[1] => e = d
        BY <1>6, <2>4, <3>3 DEF Changing
      <4> QED
        BY <1>2, <1>5, <2>1, <3>1, <3>3, <4>1 DEF f, Links
    <3> QED
      BY <1>7, <3>2, <3>3
  <2> QED
    BY <2>2, <2>3, <2>4
<1> QED
  BY <1>8, <1>9

LEMMA FolderShared ==
    ASSUME TypeOK, Bounded, Posts, Locks, Nested, Placing, SharedOnce, Linking,
           NEW o \in Threads, FolderStep(o)
    PROVE  SharedOnce' /\ Linking'
<1> USE Names
<1>1. Shared(Store) \subseteq Shared(Store)' /\ in' = in
  BY StoreGrows, FolderStepIs
<1>2. \A f \in Folders : f # in[o] => OfBatchNext(f) = OfBatch(f)
  BY FolderAlone DEF OfBatch, OfBatchNext
<1>3. \A j \in Jobs : /\ \A e \in OfBatchNext(j) : e[1] \in Shared(Store)
                      /\ \A e, d \in OfBatchNext(j) : e[1] = d[1] => e = d
  <2> TAKE j \in Jobs
  <2>1. CASE j = in[o]
    BY <2>1, LinkedThere
  <2>2. CASE j # in[o]
    BY <1>2, <2>2 DEF SharedOnce, Shared
  <2> QED
    BY <2>1, <2>2
<1>4. SharedOnce'
  <2>1. \A j \in Jobs : OfBatch(j)' = OfBatchNext(j) /\ Shared(j)' = {e[1] : e \in OfBatchNext(j)}
    BY DEF OfBatch, OfBatchNext, Shared
  <2>2. \A j \in Jobs : Shared(j)' \subseteq Shared(Store)'
    BY <1>1, <1>3, <2>1
  <2> QED
    BY <1>3, <2>1, <2>2 DEF SharedOnce
<1>5. ASSUME NEW x \in Threads, Links(x)'
      PROVE  /\ \A e \in plan'[x] : e[1] \in Shared(Store)' /\ e[2]
             /\ at'[x] = "wait" => \A e \in plan'[x] : e[3] = 0
             /\ at'[x] \in Changing =>
                   \A e, d \in OfBatchNext(in'[x]) \cup plan'[x] : e[1] = d[1] => e = d
  <2>1. Links(x) /\ in[x] \in Jobs /\ in'[x] = in[x]
    BY <1>1, <1>5 DEF Links
  <2>2. CASE x = o
    <3>1. at'[o] # "wait"
      BY FolderStepIs DEF TypeOK, Changing
    <3> QED
      BY <1>1, <2>1, <2>2, <3>1, LinkedThere
  <2>3. CASE x # o
    <3>1. at'[x] = at[x] /\ plan'[x] = plan[x] /\ (at[x] \in Changing => in[x] # in[o])
      BY <2>3, FolderAlone
    <3>2. at[x] \in Changing => OfBatchNext(in[x]) = OfBatch(in[x])
      BY <1>2, <2>1, <3>1
    <3> QED
      BY <1>1, <2>1, <3>1, <3>2 DEF Linking
  <2> QED
    BY <2>2, <2>3
<1>6. ASSUME NEW x \in Owners, NEW e \in plan'[x] PROVE ~e[2]
  <2>1. CASE x # o
    BY <1>6, <2>1, FolderAlone DEF Linking
  <2>2. CASE x = o
    <3>1. in[x] \in Jobs
      BY <2>2, FolderAlone DEF Posts, Folders
    <3> QED
      BY <1>6, <2>2, <3>1, LinkedThere
  <2> QED
    BY <2>1, <2>2
<1>7. \A x \in Threads : OfBatch(in[x])' = OfBatchNext(in'[x])
  BY DEF OfBatch, OfBatchNext
<1> QED
  BY <1>4, <1>5, <1>6, <1>7 DEF Linking

\* A step that leaves the folders alone keeps what is in them.
LEMMA SameShared ==
    ASSUME UNCHANGED folders
    PROVE  /\ \A f \in Folders : OfBatch(f)' = OfBatch(f) /\ Shared(f)' = Shared(f)
           /\ SharedOnce => SharedOnce'
<1>1. \A f \in Folders : OfBatch(f)' = OfBatch(f) /\ Shared(f)' = Shared(f)
  BY DEF OfBatch, Shared, folders
<1>2. Store \in Folders /\ Jobs \subseteq Folders
  BY Names
<1>3. \A j \in Jobs : OfBatch(j)' = OfBatch(j) /\ Shared(j)' = Shared(j) /\ Shared(Store)' = Shared(Store)
  BY <1>1, <1>2
<1> QED
  BY <1>1, <1>3 DEF SharedOnce

LEMMA AddToJobShared ==
    ASSUME TypeOK, SharedOnce, Linking, Still, NEW o \in Owners, NEW j \in Jobs, AddToJob(o, j)
    PROVE  SharedOnce' /\ Linking'
<1> USE Names
<1>1. PICK w \in Works : plan' = [plan EXCEPT ![o] = {<<w, FALSE, 0>>}]
  BY DEF AddToJob
<1>2. UNCHANGED folders /\ \A x \in Threads \ {o} : at'[x] = at[x] /\ in'[x] = in[x] /\ plan'[x] = plan[x]
  BY DEF AddToJob, TypeOK
<1>3. \A e \in plan'[o] : ~e[2]
  <2>1. plan'[o] = {<<w, FALSE, 0>>}
    BY <1>1 DEF TypeOK
  <2>2. ~(<<w, FALSE, 0>>[2])
    OBVIOUS
  <2> QED
    BY <2>1, <2>2, Zenon
<1>4. SharedOnce' /\ \A f \in Folders : OfBatch(f)' = OfBatch(f) /\ Shared(f)' = Shared(f)
  BY <1>2, SameShared
<1>5. ASSUME NEW x \in Threads, Links(x)'
      PROVE  /\ Links(x) /\ at'[x] = at[x] /\ in'[x] = in[x] /\ plan'[x] = plan[x]
             /\ OfBatch(in[x])' = OfBatch(in[x]) /\ Shared(Store)' = Shared(Store)
  <2>1. x # o /\ at'[x] = at[x] /\ in'[x] = in[x] /\ plan'[x] = plan[x] /\ in[x] \in Jobs
    BY <1>2, <1>5 DEF Links
  <2>2. OfBatch(in[x])' = OfBatch(in[x])
    BY <1>2, <2>1 DEF OfBatch, folders
  <2> QED
    BY <1>4, <1>5, <2>1, <2>2 DEF Links
<1> QED
  BY <1>2, <1>3, <1>4, <1>5 DEF Linking

LEMMA ReadStoreShared ==
    ASSUME TypeOK, Posts, SharedOnce, Linking, Still, NEW o \in Threads, NEW j \in Jobs, ReadStore(o, j)
    PROVE  SharedOnce' /\ Linking'
<1> USE Names
<1>1. o \notin Owners /\ plan' = [plan EXCEPT ![o] = {<<w, TRUE, 0>> : w \in Offered(o)}]
  BY DEF ReadStore, Posts
<1>2. /\ UNCHANGED folders
      /\ \A x \in Threads \ {o} : at'[x] = at[x] /\ in'[x] = in[x] /\ plan'[x] = plan[x]
      /\ at'[o] = "wait"
  BY DEF ReadStore, TypeOK
<1>3. \A e \in plan'[o] : e[1] \in Shared(Store) /\ e[2] /\ e[3] = 0
  <2>1. plan'[o] = {<<w, TRUE, 0>> : w \in Offered(o)}
    BY <1>1, Zenon DEF TypeOK
  <2>2. Offered(o) = Shared(Store) /\ Shared(Store) \subseteq Works
    BY SharedIs DEF Offered
  <2>3. \A w \in Shared(Store) : <<w, TRUE, 0>>[1] = w /\ <<w, TRUE, 0>>[2] = TRUE /\ <<w, TRUE, 0>>[3] = 0
    OBVIOUS
  <2> TAKE e \in plan'[o]
  <2>4. PICK w \in Shared(Store) : e = <<w, TRUE, 0>>
    BY <2>1, <2>2
  <2>5. <<w, TRUE, 0>>[2]
    BY <2>3
  <2> QED
    BY <2>3, <2>4, <2>5, Zenon
<1>4. SharedOnce' /\ \A f \in Folders : OfBatch(f)' = OfBatch(f) /\ Shared(f)' = Shared(f)
  BY <1>2, SameShared
<1>5. ASSUME NEW x \in Threads \ {o}, Links(x)'
      PROVE  /\ Links(x) /\ at'[x] = at[x] /\ in'[x] = in[x] /\ plan'[x] = plan[x]
             /\ OfBatch(in[x])' = OfBatch(in[x]) /\ Shared(Store)' = Shared(Store)
  <2>1. at'[x] = at[x] /\ in'[x] = in[x] /\ plan'[x] = plan[x] /\ in[x] \in Jobs
    BY <1>2, <1>5 DEF Links
  <2>2. OfBatch(in[x])' = OfBatch(in[x])
    BY <1>2, <2>1 DEF OfBatch, folders
  <2> QED
    BY <1>4, <1>5, <2>1, <2>2 DEF Links
<1>6. ASSUME NEW x \in Owners, NEW e \in plan'[x] PROVE ~e[2]
  BY <1>1, <1>2, <1>6 DEF Linking
<1>7. at'[o] \notin Changing /\ Shared(Store)' = Shared(Store)
  BY <1>2, <1>4 DEF Changing
<1> QED
  BY <1>3, <1>4, <1>5, <1>6, <1>7 DEF Linking

LEMMA RestsShared ==
    ASSUME TypeOK, Posts, SharedOnce, Linking, Still, Rests,
           UNCHANGED folders \/ \E f \in Folders : Clears(f)
    PROVE  SharedOnce' /\ Linking'
<1> USE Names
<1>1. ASSUME NEW x \in Threads, Links(x)'
      PROVE  /\ Links(x) /\ in'[x] = in[x] /\ plan'[x] = plan[x] /\ (at'[x] = "wait" => at[x] = "wait")
             /\ at'[x] \in Changing => at[x] \in Changing
  BY <1>1 DEF Links, Rests, Still
<1>2. \A x \in Owners : \A e \in plan'[x] : ~e[2]
  BY DEF Rests, Linking
<1>3. CASE UNCHANGED folders
  <2>1. SharedOnce' /\ \A f \in Folders : OfBatch(f)' = OfBatch(f) /\ Shared(f)' = Shared(f)
    BY <1>3, SameShared
  <2>2. ASSUME NEW x \in Threads, Links(x)'
        PROVE  OfBatch(in[x])' = OfBatch(in[x]) /\ Shared(Store)' = Shared(Store)
    <3>1. in'[x] = in[x] /\ in[x] \in Jobs
      BY <1>1, <2>2 DEF Links
    <3> QED
      BY <1>3, <2>1, <3>1 DEF OfBatch, folders
  <2> QED
    BY <1>1, <1>2, <2>1, <2>2 DEF Linking
<1>4. ASSUME NEW f \in Folders, Clears(f) PROVE SharedOnce' /\ Linking'
  <2>1. listed'[f] = {} /\ \A g \in Folders \ {f} : listed'[g] = listed[g]
    BY <1>4 DEF Clears, Cleared, TypeOK
  <2>2. OfBatch(f)' = {} /\ \A g \in Folders \ {f} : OfBatch(g)' = OfBatch(g)
    BY <2>1 DEF OfBatch
  <2>3. CASE f = Store
    <3>1. \A j \in Jobs : OfBatch(j)' = {}
      <4>1. \A j \in Jobs : listed[j] = {}
        BY <1>4, <2>3 DEF Clears
      <4> QED
        BY <2>2, <2>3, <4>1 DEF OfBatch
    <3>2. SharedOnce'
      BY <3>1 DEF SharedOnce, Shared
    <3>3. ASSUME NEW x \in Threads PROVE ~Links(x)'
      <4>1. in'[x] = None /\ None \notin Jobs
        BY <1>4, <2>3 DEF Clears
      <4> QED
        BY <4>1 DEF Links
    <3> QED
      BY <1>2, <3>2, <3>3 DEF Linking
  <2>4. CASE f # Store
    <3>1. Shared(Store)' = Shared(Store)
      BY <2>2, <2>4 DEF Shared
    <3>2. SharedOnce'
      BY <2>2, <2>4, <3>1 DEF SharedOnce, Shared
    <3>3. ASSUME NEW x \in Threads, Links(x)' PROVE OfBatch(in[x])' = OfBatch(in[x])
      <4>1. in'[x] = in[x] /\ in[x] \in Jobs /\ in[x] # f
        BY <1>1, <1>4, <3>3 DEF Links, Clears
      <4> QED
        BY <2>1, <4>1 DEF OfBatch
    <3> QED
      BY <1>1, <1>2, <3>1, <3>2, <3>3 DEF Linking
  <2> QED
    BY <2>3, <2>4
<1> QED
  BY <1>3, <1>4

LEMMA CrashShared ==
    ASSUME TypeOK, Nested, SharedOnce, Linking, Crash
    PROVE  SharedOnce' /\ Linking'
<1>1. listed'[Store] = listed[Store] /\ \A j \in Jobs : listed'[j] \subseteq listed[j]
  BY Names DEF Crash
<1>2. Shared(Store)' = Shared(Store) /\ \A j \in Jobs : OfBatch(j)' \subseteq OfBatch(j)
  BY <1>1 DEF Shared, OfBatch
<1>3. SharedOnce'
  BY <1>2 DEF SharedOnce, Shared
<1>4. \A o \in Threads : in'[o] = None /\ plan'[o] = {}
  BY DEF Crash, NoJobs
<1> QED
  BY <1>3, <1>4, Names DEF Linking, Links

LEMMA SharedNext ==
    ASSUME TypeOK, Bounded, Posts, Roles, Before, Unborn, Beginning, Locks, Nested, Placing,
           SharedOnce, Linking, Next
    PROVE  SharedOnce' /\ Linking'
<1>1. CASE Crash
  BY <1>1, CrashShared
<1>2. CASE \E o \in Threads : FolderStep(o)
  BY <1>2, FolderShared
<1>3. CASE ~Crash /\ ~ \E o \in Threads : FolderStep(o)
  <2>1. /\ Still
        /\ UNCHANGED folders \/ \E f \in Folders : Clears(f)
        /\ \/ Rests
           \/ \E o \in Owners, j \in Jobs : AddToJob(o, j)
           \/ \E o \in Threads, j \in Jobs : ReadStore(o, j)
    BY <1>3, NextIs, AsideIs
  <2> QED
    BY <2>1, RestsShared, AddToJobShared, ReadStoreShared
<1> QED
  BY <1>1, <1>2, <1>3

-----------------------------------------------------------------------------
(* What an addition gives every job *)

\* What a job has and keeps, no step in a folder takes away.
LEMMA KeptGrows ==
    ASSUME TypeOK, Bounded, Posts, Locks, Nested, NEW o \in Threads, FolderStep(o), NEW j \in Jobs
    PROVE  Kept(j) \subseteq Kept(j)'
<1> USE Names
<1> SUFFICES ASSUME NEW d \in OfBatch(j), \A x \in Threads : in[x] = j /\ at[x] \in Changing => d \notin plan[x]
             PROVE  /\ d \in OfBatch(j)'
                    /\ \A x \in Threads : in'[x] = j /\ at'[x] \in Changing => d \notin plan'[x]
  BY DEF Kept
<1>1. d \in listed[j]
  BY DEF OfBatch
<1>2. d \in listed'[j]
  <2>1. CASE in[o] # j
    BY <1>1, <2>1, FolderAlone
  <2>2. CASE in[o] = j
    <3>1. at[o] = "unlist" => d \notin plan[o]
      BY <2>2 DEF Changing
    <3> QED
      BY <1>1, <2>2, <3>1, FolderNow DEF folders
  <2> QED
    BY <2>1, <2>2
<1>3. ASSUME NEW x \in Threads, in'[x] = j, at'[x] \in Changing PROVE d \notin plan'[x]
  <2>1. CASE x # o
    BY <1>3, <2>1, FolderAlone
  <2>2. CASE x = o
    <3>1. in[o] = j
      BY <1>3, <2>2, FolderStepIs
    <3>2. CASE at[o] \in Changing
      <4>1. plan'[o] = plan[o]
        BY <3>2, FolderNow DEF Changing
      <4> QED
        BY <2>2, <3>1, <3>2, <4>1
    <3>3. CASE at[o] = "wait"
      <4>1. plan'[o] = {Named(e, in[o]) : e \in Usable(o)}
        BY <1>3, <2>2, <3>3, FolderNow DEF Changing
      <4>2. plan'[o] \cap listed[j] = {}
        BY <3>1, <4>1, NamedAll DEF Used
      <4> QED
        BY <1>1, <2>2, <4>2
    <3> QED
      BY <3>2, <3>3, FolderStepIs
  <2> QED
    BY <2>1, <2>2
<1> QED
  BY <1>2, <1>3 DEF OfBatch

LEMMA KeptStays ==
    ASSUME TypeOK, Posts, Still, NEW j \in Jobs, j \in Registered,
           UNCHANGED folders \/ \E f \in Folders : Clears(f)
    PROVE  Kept(j) \subseteq Kept(j)'
<1>1. listed'[j] = listed[j]
  BY Names DEF folders, Clears, Cleared, TypeOK, Folders
<1>2. OfBatch(j)' = OfBatch(j)
  BY <1>1, Names DEF OfBatch
<1>3. \A x \in Threads : at'[x] \in Changing =>
          at[x] \in Changing /\ in'[x] = in[x] /\ plan'[x] = plan[x]
  BY DEF Still
<1> QED
  BY <1>2, <1>3 DEF Kept

\* When nobody is between two steps in a job's folder, it keeps all it has.
LEMMA AllKept ==
    ASSUME NEW j \in Jobs, Free(j)
    PROVE  Kept(j) = Shared(j)
  BY DEF Kept, Shared, Free, Holds

AdderSame(a) ==
    /\ at'[a] = at[a] /\ in'[a] = in[a] /\ plan'[a] = plan[a] /\ held'[a] = held[a]
    /\ members'[a] = members[a] /\ todo'[a] = todo[a] /\ refused'[a] = refused[a]

LEMMA GivenSame ==
    ASSUME NEW a \in Adders, GivenBy(a), AdderSame(a), spoiled \subseteq spoiled',
           Shared(Store) \subseteq Shared(Store)' \/ held[a] = {},
           \A j \in members[a] : Kept(j) \subseteq Kept(j)'
    PROVE  GivenBy(a)'
<1>1. held'[a] \subseteq Shared(Store)' /\ (Idle(a)' => held'[a] = {})
  BY DEF GivenBy, AdderSame, Idle
<1>2. ASSUME NEW j \in members'[a] \ (todo'[a] \cup refused'[a]) PROVE GivenTo(a, j)'
  <2>1. GivenTo(a, j) /\ Kept(j) \subseteq Kept(j)'
    BY <1>2 DEF GivenBy, AdderSame
  <2>2. WorksOf(a)' = WorksOf(a)
    BY DEF WorksOf, AdderSame
  <2> QED
    BY <2>1, <2>2 DEF GivenTo, AdderSame
<1> QED
  BY <1>1, <1>2 DEF GivenBy

LEMMA GivenNothing ==
    ASSUME NEW a \in Adders, held'[a] = {}
    PROVE  GivenBy(a)'
  BY DEF GivenBy, GivenTo

\* A step in a folder by another thread.
LEMMA FolderSpares ==
    ASSUME TypeOK, NEW o \in Threads, FolderStep(o), NEW a \in Adders, a # o
    PROVE  AdderSame(a)
  BY FolderStepIs, Names DEF AdderSame, TypeOK

\* An addition's own step in a job's folder.
LEMMA GivenPlaced ==
    ASSUME TypeOK, Bounded, Posts, NEW a \in Adders, GivenTo(a, in[a]), in[a] \in Jobs,
           at[a] = "wait", Free(in[a]), plan'[a] = {Named(e, in[a]) : e \in Usable(a)}
    PROVE  held[a] \subseteq Kept(in[a]) \cup spoiled \cup WorksOf(a)'
<1> USE Names
<1> SUFFICES ASSUME NEW w \in held[a] PROVE w \in Kept(in[a]) \cup spoiled \cup WorksOf(a)'
  OBVIOUS
<1>1. held[a] \subseteq WorksOf(a)
  BY DEF GivenTo
<1>2. PICK e \in plan[a] : e[1] = w
  BY <1>1 DEF WorksOf
<1>3. ~Uploading(a) /\ in[a] \in Folders
  BY DEF Uploading
<1>4. CASE e \notin Lacking(a)
  BY <1>2, <1>3, <1>4, AllKept DEF Lacking
<1>5. CASE e \in Lacking(a) /\ e \notin Usable(a)
  BY <1>2, <1>3, <1>5 DEF Usable
<1>6. CASE e \in Usable(a)
  <2>1. plan[a] \subseteq Entries /\ IsFiniteSet(Used(in[a]))
    BY <1>3, FS_Union DEF TypeOK, Bounded, Used
  <2>2. Named(e, in[a])[1] = e[1]
    BY <1>2, <1>3, <2>1, NamedIs
  <2>3. Named(e, in[a]) \in plan'[a]
    BY <1>6
  <2> QED
    BY <1>2, <2>2, <2>3 DEF WorksOf
<1> QED
  BY <1>4, <1>5, <1>6

LEMMA GivenFolder ==
    ASSUME TypeOK, Bounded, Posts, Roles, Locks, Nested, Placing, Linking, Given,
           NEW o \in Threads, FolderStep(o)
    PROVE  Given'
<1> USE Names
<1>1. \A j \in Jobs : Kept(j) \subseteq Kept(j)'
  BY KeptGrows
<1>2. Shared(Store) \subseteq Shared(Store)' /\ spoiled' = spoiled
  BY StoreGrows, FolderStepIs
<1>3. \A a \in Adders : members[a] \subseteq Jobs
  BY DEF TypeOK
<1> SUFFICES ASSUME NEW a \in Adders PROVE GivenBy(a)'
  BY DEF Given
<1>4. GivenBy(a)
  BY DEF Given
<1>5. CASE a # o
  BY <1>1, <1>2, <1>3, <1>4, <1>5, FolderSpares, GivenSame
<1>6. CASE a = o
  <2>1. /\ held' = held /\ members' = members /\ todo' = todo /\ refused' = refused /\ in' = in
        /\ at[a] \in Changing \cup {"wait"} /\ ~Idle(a)'
    BY <1>6, FolderStepIs DEF Idle, TypeOK, Changing
  <2>2. held'[a] \subseteq Shared(Store)'
    BY <1>2, <1>4, <2>1 DEF GivenBy
  <2>3. ASSUME NEW j \in members[a] \ (todo[a] \cup refused[a]) PROVE GivenTo(a, j)'
    <3>1. j \in Jobs /\ GivenTo(a, j) /\ Kept(j) \subseteq Kept(j)' /\ held' = held /\ in' = in
      BY <1>1, <1>3, <1>4, <2>1, <2>3 DEF GivenBy
    <3>2. CASE in[a] # j
      <4>1. held[a] \subseteq Kept(j) \cup spoiled
        BY <3>1, <3>2 DEF GivenTo
      <4> QED
        BY <1>2, <3>1, <3>2, <4>1 DEF GivenTo
    <3>3. CASE in[a] = j
      <4>1. Links(a) /\ j \in Folders
        BY <3>1, <3>3 DEF Links
      <4>2. CASE at[a] = "wait"
        <5>1. \/ at'[a] = "failed"
              \/ /\ Free(j) /\ plan'[a] = {Named(e, in[a]) : e \in Usable(a)}
                 /\ at'[a] = IF plan'[a] = {} THEN "kept" ELSE "placed"
          BY <1>6, <3>3, <4>2, FolderNow
        <5>2. CASE at'[a] = "failed"
          BY <3>1, <3>3, <5>2 DEF GivenTo
        <5>3. CASE /\ Free(j) /\ plan'[a] = {Named(e, in[a]) : e \in Usable(a)}
                   /\ at'[a] = IF plan'[a] = {} THEN "kept" ELSE "placed"
          <6>1. held[a] \subseteq Kept(j) \cup spoiled \cup WorksOf(a)'
            BY <3>1, <3>3, <4>2, <5>3, GivenPlaced
          <6>2. plan'[a] = {} => WorksOf(a)' = {}
            BY DEF WorksOf
          <6> QED
            BY <1>2, <3>1, <3>3, <5>3, <6>1, <6>2 DEF GivenTo
        <5> QED
          BY <5>1, <5>2, <5>3
      <4>3. CASE at[a] \in {"placed", "indexed", "listed"}
        <5>1. held[a] \subseteq Kept(j) \cup spoiled \cup WorksOf(a)
          BY <3>1, <3>3, <4>3 DEF GivenTo
        <5>2. plan'[a] = plan[a] /\ WorksOf(a)' = WorksOf(a)
          BY <1>6, <4>3, FolderNow DEF WorksOf
        <5>3. CASE at'[a] # "kept"
          <6>1. at'[a] # "wait"
            BY <1>6, <4>3, FolderNow
          <6> QED
            BY <1>2, <3>1, <3>3, <5>1, <5>2, <5>3, <6>1 DEF GivenTo
        <5>4. CASE at'[a] = "kept"
          <6>1. plan[a] \subseteq listed'[j]
            <7>1. at[a] = "listed" => plan[a] \subseteq listed[j]
              BY <3>3 DEF Placing, Come, Changing
            <7> QED
              BY <1>6, <3>3, <4>3, <5>4, <7>1, FolderNow DEF folders
          <6>2. \A e \in plan[a] : e \in OfBatch(j)'
            <7>1. \A e \in plan[a] : e[2]
              BY <4>1 DEF Linking
            <7> QED
              BY <6>1, <7>1 DEF OfBatch
          <6>3. \A x \in Threads : in'[x] = j => at'[x] \notin Changing
            <7>1. at'[a] \notin Changing
              BY <5>4 DEF Changing
            <7> QED
              BY <1>6, <3>1, <3>3, <7>1, FolderAlone
          <6>4. WorksOf(a) \subseteq Kept(j)'
            BY <6>2, <6>3 DEF WorksOf, Kept
          <6> QED
            BY <1>2, <3>1, <3>3, <5>1, <5>4, <6>4 DEF GivenTo
        <5> QED
          BY <5>3, <5>4
      <4>4. CASE at[a] \in {"unlist", "unindex", "unplace"}
        <5>1. at'[a] \in {"unindex", "unplace", "failed"}
          BY <1>6, <4>4, FolderNow
        <5> QED
          BY <3>1, <3>3, <5>1 DEF GivenTo
      <4> QED
        BY <2>1, <4>2, <4>3, <4>4 DEF Changing
    <3> QED
      BY <3>2, <3>3
  <2> QED
    BY <2>1, <2>2, <2>3 DEF GivenBy
<1> QED
  BY <1>5, <1>6

\* Which steps that are not in a folder concern an addition to the batch.
LEMMA SparesAdders ==
    ASSUME TypeOK, Posts, NEW a \in Adders,
           \/ Elsewhere \/ StartBatch \/ StoreInstalled \/ Settle
           \/ \E x \in Adders : AddToBatch(x) \/ LinkFailed(x) \/ Finished(x)
           \/ \E o \in Owners, j \in Jobs : AddToJob(o, j)
           \/ \E o \in Threads, j \in Jobs : ReadStore(o, j)
           \/ \E j \in Jobs : Repeat(j)
           \/ \E o \in Threads : \/ Discard(o) \/ InstallFailed(o) \/ CreationFailed(o)
                                 \/ Created(o) \/ Register(o) \/ Announce(o)
    PROVE  \/ AdderSame(a) \/ held'[a] = {}
           \/ AddToBatch(a) \/ LinkFailed(a) \/ Discard(a) \/ Announce(a)
           \/ \E j \in Jobs : ReadStore(a, j)
<1> USE Names
<1>1. CASE Elsewhere
  BY <1>1, ElsewhereIs DEF ops, AdderSame
<1>2. CASE StartBatch
  BY <1>2 DEF StartBatch, AdderSame, TypeOK
<1>3. CASE StoreInstalled
  BY <1>3 DEF StoreInstalled, Leaves, Goes, AdderSame, TypeOK
<1>4. CASE Settle
  BY <1>4 DEF Settle, Over, Leaves, Goes, AdderSame, TypeOK
<1>5. ASSUME NEW x \in Adders, AddToBatch(x), x # a PROVE AdderSame(a)
  BY <1>5 DEF AddToBatch, AdderSame, TypeOK
<1>6. ASSUME NEW x \in Adders, LinkFailed(x), x # a PROVE AdderSame(a)
  BY <1>6 DEF LinkFailed, Leaves, Goes, AdderSame, TypeOK
<1>7. ASSUME NEW x \in Adders, Finished(x) PROVE AdderSame(a) \/ held'[a] = {}
  BY <1>7 DEF Finished, Over, Leaves, Goes, AdderSame, TypeOK
<1>8. ASSUME NEW o \in Owners, NEW j \in Jobs, AddToJob(o, j) PROVE AdderSame(a)
  <2>1. PICK S : plan' = [plan EXCEPT ![o] = S]
    BY <1>8 DEF AddToJob
  <2> QED
    BY ZenonT(40), <1>8, <2>1 DEF AddToJob, AdderSame, TypeOK
<1>9. ASSUME NEW o \in Threads, NEW j \in Jobs, ReadStore(o, j), o # a PROVE AdderSame(a)
  <2>1. PICK S : plan' = [plan EXCEPT ![o] = S]
    BY <1>9 DEF ReadStore
  <2>2. /\ at' = [at EXCEPT ![o] = "wait"] /\ in' = [in EXCEPT ![o] = j]
        /\ todo' = [todo EXCEPT ![o] = @ \ {j}] /\ UNCHANGED <<members, held, refused>>
    BY <1>9 DEF ReadStore
  <2> QED
    BY <1>9, <2>1, <2>2 DEF AdderSame, TypeOK
<1>10. ASSUME NEW j \in Jobs, Repeat(j) PROVE AdderSame(a)
  BY <1>10 DEF Repeat, AdderSame, TypeOK
<1>11. ASSUME NEW o \in Threads, Discard(o), o # a PROVE AdderSame(a)
  BY <1>11, DiscardIs DEF Leaves, Goes, AdderSame, TypeOK
<1>12. ASSUME NEW o \in Threads, InstallFailed(o) PROVE AdderSame(a) \/ held'[a] = {}
  BY <1>12 DEF InstallFailed, Over, Leaves, Goes, AdderSame, TypeOK
<1>13. ASSUME NEW o \in Threads, CreationFailed(o) PROVE AdderSame(a)
  BY <1>13 DEF CreationFailed, Leaves, Goes, AdderSame, TypeOK
<1>14. ASSUME NEW o \in Threads, Created(o) PROVE AdderSame(a)
  BY <1>14 DEF Created, Goes, Only, AdderSame, TypeOK
<1>15. ASSUME NEW o \in Threads, Register(o) PROVE AdderSame(a)
  <2>1. o # a
    BY <1>15 DEF Register, Posts, Creators
  <2> QED
    BY <1>15, <2>1 DEF Register, Leaves, Goes, AdderSame, TypeOK
<1>16. ASSUME NEW o \in Threads, Announce(o), o # a PROVE AdderSame(a)
  BY <1>16, AnnounceIs DEF Leaves, Goes, AdderSame, TypeOK
<1> QED
  BY <1>1, <1>2, <1>3, <1>4, <1>5, <1>6, <1>7, <1>8, <1>9, <1>10, <1>11, <1>12, <1>13, <1>14, <1>15, <1>16

\* An addition takes, reads or ends with a folder.
LEMMA GivenOwn ==
    ASSUME TypeOK, Posts, Given, Still, spoiled \subseteq spoiled', UNCHANGED folders,
           NEW a \in Adders, \A j \in members[a] : Kept(j) \subseteq Kept(j)',
           \/ AddToBatch(a) \/ LinkFailed(a) \/ Discard(a) \/ Announce(a)
           \/ \E j \in Jobs : ReadStore(a, j)
    PROVE  GivenBy(a)'
<1> USE Names
<1>1. GivenBy(a) /\ Shared(Store)' = Shared(Store)
  BY SameShared DEF Given
<1>2. CASE AddToBatch(a)
  <2>1. held'[a] = {}
    BY <1>1, <1>2 DEF AddToBatch, Starts, GivenBy, Idle
  <2> QED
    BY <2>1, GivenNothing
<1>3. CASE LinkFailed(a)
  <2>1. /\ in'[a] = None /\ at'[a] = "next" /\ at[a] = "failed" /\ refused'[a] = refused[a] \cup {in[a]}
        /\ UNCHANGED <<todo, members, held>>
    BY <1>3 DEF LinkFailed, Leaves, Goes, TypeOK
  <2>2. ASSUME NEW j \in members'[a] \ (todo'[a] \cup refused'[a]) PROVE GivenTo(a, j)'
    <3>1. j # in[a] /\ GivenTo(a, j) /\ Kept(j) \subseteq Kept(j)' /\ j \in Jobs
      BY <1>1, <2>1, <2>2 DEF GivenBy, TypeOK
    <3> QED
      BY <2>1, <3>1 DEF GivenTo
  <2> QED
    BY <1>1, <2>1, <2>2 DEF GivenBy, Idle
<1>4. CASE Discard(a)
  <2>1. /\ in[a] = Store /\ in'[a] = None /\ at'[a] = "next" /\ held'[a] = Shared(Store)
        /\ UNCHANGED <<todo, members, refused>>
    BY <1>4, DiscardIs DEF Uploading, Leaves, Goes, TypeOK
  <2>2. members'[a] \ (todo'[a] \cup refused'[a]) = {}
    BY <2>1 DEF Posts
  <2> QED
    BY <1>1, <2>1, <2>2 DEF GivenBy, Idle
<1>5. CASE Announce(a)
  <2>1. /\ in'[a] = None /\ at'[a] = "next" /\ at[a] = "kept"
        /\ UNCHANGED <<todo, members, refused, held>>
    BY <1>5, AnnounceIs DEF Leaves, Goes, TypeOK
  <2>2. ASSUME NEW j \in members'[a] \ (todo'[a] \cup refused'[a]) PROVE GivenTo(a, j)'
    <3>1. GivenTo(a, j) /\ Kept(j) \subseteq Kept(j)' /\ j \in Jobs
      BY <1>1, <2>1, <2>2 DEF GivenBy, TypeOK
    <3> QED
      BY <2>1, <3>1 DEF GivenTo
  <2> QED
    BY <1>1, <2>1, <2>2 DEF GivenBy, Idle
<1>6. ASSUME NEW k \in Jobs, ReadStore(a, k) PROVE GivenBy(a)'
  <2>1. /\ at[a] = "next" /\ at'[a] = "wait" /\ in'[a] = k /\ in[a] = None
        /\ todo'[a] = todo[a] \ {k} /\ UNCHANGED <<members, refused, held>>
    BY <1>6 DEF ReadStore, TypeOK, Posts
  <2>2. WorksOf(a)' = Shared(Store)
    <3>1. plan'[a] = {<<w, TRUE, 0>> : w \in Offered(a)} /\ Offered(a) = Shared(Store)
      BY <1>6 DEF ReadStore, TypeOK, Offered
    <3>2. \A w \in Shared(Store) : <<w, TRUE, 0>>[1] = w
      OBVIOUS
    <3>3. \A w \in Shared(Store) : \E e \in plan'[a] : e[1] = w
      BY <3>1, <3>2
    <3>4. \A e \in plan'[a] : e[1] \in Shared(Store)
      BY <3>1, <3>2
    <3> QED
      BY <3>3, <3>4 DEF WorksOf
  <2>3. ASSUME NEW j \in members'[a] \ (todo'[a] \cup refused'[a]) PROVE GivenTo(a, j)'
    <3>1. CASE j = k
      BY <1>1, <2>1, <2>2, <3>1 DEF GivenTo, GivenBy
    <3>2. CASE j # k
      <4>1. GivenTo(a, j) /\ Kept(j) \subseteq Kept(j)' /\ j \in Jobs
        BY <1>1, <2>1, <2>3, <3>2 DEF GivenBy, TypeOK
      <4> QED
        BY <2>1, <3>2, <4>1 DEF GivenTo
    <3> QED
      BY <3>1, <3>2
  <2> QED
    BY <1>1, <2>1, <2>3 DEF GivenBy, Idle
<1> QED
  BY <1>2, <1>3, <1>4, <1>5, <1>6

LEMMA GivenNext ==
    ASSUME TypeOK, Bounded, Posts, Roles, Before, Unborn, Beginning, Locks, Nested, Placing,
           Linking, Given, Next
    PROVE  Given'
<1> USE Names
<1>1. CASE Crash
  <2>1. \A a \in Adders : held'[a] = {}
    BY <1>1 DEF Crash, NoJobs
  <2> QED
    BY <2>1, GivenNothing DEF Given
<1>2. CASE \E o \in Threads : FolderStep(o)
  BY <1>2, GivenFolder
<1>3. CASE ~Crash /\ ~ \E o \in Threads : FolderStep(o)
  <2>1. /\ Still /\ spoiled \subseteq spoiled'
        /\ UNCHANGED folders \/ \E f \in Folders : Clears(f)
    BY <1>3, NextIs, AsideIs
  <2> SUFFICES ASSUME NEW a \in Adders PROVE GivenBy(a)'
    BY DEF Given
  <2>2. \/ AdderSame(a) \/ held'[a] = {}
        \/ AddToBatch(a) \/ LinkFailed(a) \/ Discard(a) \/ Announce(a)
        \/ \E j \in Jobs : ReadStore(a, j)
    BY <1>3, NextIs, SparesAdders
  <2>3. GivenBy(a) /\ \A j \in members[a] : j \in Jobs /\ j \in Registered
    BY DEF Given, Roles, TypeOK
  <2>4. \A j \in members[a] : Kept(j) \subseteq Kept(j)'
    BY <2>1, <2>3, KeptStays
  <2>5. CASE AdderSame(a)
    <3>1. Shared(Store) \subseteq Shared(Store)' \/ held[a] = {}
      <4>1. CASE UNCHANGED folders
        BY <4>1, SameShared
      <4>2. ASSUME NEW f \in Folders, Clears(f), f # Store
            PROVE  Shared(Store)' = Shared(Store)
        <5>1. listed'[Store] = listed[Store]
          BY <4>2 DEF Clears, Cleared, TypeOK
        <5> QED
          BY <5>1 DEF Shared, OfBatch
      <4>3. ASSUME Clears(Store) PROVE held[a] = {}
        <5>1. Idle(a)
          BY <2>5, <4>3 DEF Clears, Idle, AdderSame
        <5> QED
          BY <2>3, <5>1 DEF GivenBy
      <4> QED
        BY <2>1, <4>1, <4>2, <4>3
    <3> QED
      BY <2>1, <2>3, <2>4, <2>5, <3>1, GivenSame
  <2>6. CASE held'[a] = {}
    BY <2>6, GivenNothing
  <2>7. CASE \/ AddToBatch(a) \/ LinkFailed(a) \/ Discard(a) \/ Announce(a)
             \/ \E j \in Jobs : ReadStore(a, j)
    <3>1. UNCHANGED folders
      <4>1. CASE Discard(a) \/ Announce(a)
        BY <4>1, DiscardIs, AnnounceIs
      <4>2. CASE AddToBatch(a) \/ LinkFailed(a) \/ \E j \in Jobs : ReadStore(a, j)
        BY <4>2, Zenon DEF AddToBatch, LinkFailed, ReadStore
      <4> QED
        BY <2>7, <4>1, <4>2
    <3> QED
      BY <2>1, <2>4, <2>7, <3>1, GivenOwn
  <2> QED
    BY <2>2, <2>5, <2>6, <2>7
<1> QED
  BY <1>1, <1>2, <1>3

-----------------------------------------------------------------------------
(* What an author knows *)

Tellers == Adders \cup Owners
\* A request has listed the entry in the job's folder and is to tell its author.
Tells(x, j) == in[x] = j /\ at[x] \in {"listed", "unlist", "kept", "discarded"}
Knows(j, e) ==
    \/ e \in told[j] \/ e \in pending[j] \/ e \in unsaid[j] \/ e \in stuck[j]
    \/ \E x \in Tellers : Tells(x, j) /\ e \in plan[x]
AtWork(j) == phase[j] \in {"running", "paused"}

LEMMA UnannouncedIs ==
    ASSUME NEW j
    PROVE  /\ \A e \in Unannounced(j) : \E x \in Tellers : Tells(x, j) /\ e \in plan[x]
           /\ \A x \in Tellers : Tells(x, j) => plan[x] \cap listed[j] \subseteq Unannounced(j)
  BY DEF Unannounced, Tellers, Tells

LEMMA UnannouncedNext ==
    ASSUME NEW j
    PROVE  \A x \in Tellers : Tells(x, j)' => plan'[x] \cap listed'[j] \subseteq Unannounced(j)'
  BY DEF Unannounced, Tellers, Tells

LEMMA KnownNow ==
    ASSUME AuthorKnows, NEW j \in Jobs, AtWork(j), NEW e \in listed[j]
    PROVE  Knows(j, e)
<1>1. e \in told[j] \cup pending[j] \cup unsaid[j] \cup stuck[j] \cup Unannounced(j)
  BY DEF AuthorKnows, AtWork
<1> QED
  BY <1>1, UnannouncedIs DEF Knows

LEMMA KnownNext ==
    ASSUME \A j \in Jobs : AtWork(j)' => \A e \in listed'[j] : Knows(j, e)'
    PROVE  AuthorKnows'
<1> SUFFICES ASSUME NEW j \in Jobs, AtWork(j)', NEW e \in listed'[j] \ stuck'[j]
             PROVE  e \in told'[j] \cup pending'[j] \cup unsaid'[j] \cup Unannounced(j)'
  BY DEF AuthorKnows, AtWork
<1>1. Knows(j, e)'
  OBVIOUS
<1> QED
  BY <1>1, UnannouncedNext DEF Knows

\* What an author is told of it knows or is still to be told.
LEMMA ElsewhereKnows ==
    ASSUME TypeOK, AuthorKnows, Elsewhere
    PROVE  AuthorKnows'
<1> USE Names
<1> DEFINE Heard(j) == told[j] \cup pending[j] \cup unsaid[j]
<1>1. UNCHANGED <<ops, folders>>
  BY ElsewhereIs
<1>2. \A i \in Jobs : AtWork(i)' =>
          \/ AtWork(i) /\ Heard(i) \subseteq Heard(i)'
          \/ listed[i] \subseteq Heard(i)'
  <2>1. ASSUME UNCHANGED jobs
        PROVE  \A i \in Jobs : AtWork(i)' => AtWork(i) /\ Heard(i) \subseteq Heard(i)'
    BY <2>1 DEF jobs, AtWork
  <2>2. ASSUME NEW w \in Works, Receive(w) \/ Staged(w) \/ CutShort(w) \/ Prune(w) \/ Spoil(w)
        PROVE  UNCHANGED jobs
    BY <2>2, Zenon DEF Receive, Staged, CutShort, Prune, Spoil
  <2> DEFINE Works2(j) ==
          \A i \in Jobs : AtWork(i)' =>
              \/ AtWork(i) /\ Heard(i) \subseteq Heard(i)'
              \/ listed[i] \subseteq Heard(i)'
  <2>3. ASSUME NEW j \in Jobs, Launch(j) PROVE Works2(j)
    BY <2>3 DEF Launch, AtWork, TypeOK
  <2>4. ASSUME NEW j \in Jobs, Pause(j) PROVE Works2(j)
    BY <2>4 DEF Pause, AtWork, TypeOK
  <2>5. ASSUME NEW j \in Jobs, Finish(j) PROVE Works2(j)
    BY <2>5 DEF Finish, AtWork, TypeOK
  <2>6. ASSUME NEW j \in Jobs, Resume(j) PROVE Works2(j)
    <3>1. /\ phase[j] = "paused" /\ phase' = [phase EXCEPT ![j] = "running"] /\ unsaid' = unsaid
          /\ \/ told' = [told EXCEPT ![j] = @ \cup pending[j]] /\ pending' = [pending EXCEPT ![j] = {}]
             \/ told' = told /\ pending' = pending
      BY <2>6, Zenon DEF Resume
    <3> QED
      BY <3>1 DEF AtWork, TypeOK
  <2>7. ASSUME NEW j \in Jobs, SendTurn(j) PROVE Works2(j)
    BY <2>7 DEF SendTurn, AtWork, TypeOK
  <2>8. ASSUME NEW j \in Jobs, TurnEnds(j) PROVE Works2(j)
    <3>1. /\ phase' = phase /\ unsaid' = unsaid
          /\ \/ told' = [told EXCEPT ![j] = @ \cup sent[j]] /\ pending' = [pending EXCEPT ![j] = pending[j] \ sent[j]]
             \/ told' = told /\ pending' = pending
      BY <2>8, Zenon DEF TurnEnds, StillPending
    <3> QED
      BY <3>1 DEF AtWork, TypeOK
  <2> QED
    BY <2>1, <2>2, <2>3, <2>4, <2>5, <2>6, <2>7, <2>8 DEF Elsewhere
<1>3. ASSUME NEW i \in Jobs, AtWork(i)', NEW e \in listed'[i]
      PROVE  Knows(i, e)'
  <2>1. e \in listed[i] /\ stuck' = stuck /\ \A x : Tells(x, i)' = Tells(x, i) /\ plan'[x] = plan[x]
    BY <1>1, <1>3 DEF ops, folders, Tells
  <2>2. CASE AtWork(i) /\ Heard(i) \subseteq Heard(i)'
    BY <2>1, <2>2, KnownNow DEF Knows
  <2>3. CASE listed[i] \subseteq Heard(i)'
    BY <2>1, <2>3 DEF Knows
  <2> QED
    BY <1>2, <1>3, <2>2, <2>3
<1> QED
  BY <1>3, KnownNext

\* A request's step next to a folder leaves those alone that are to tell an author.
Telling(o) ==
    /\ \A x \in Tellers \ {o} : at'[x] = at[x] /\ in'[x] = in[x] /\ plan'[x] = plan[x]
    /\ o \in Tellers =>
          \/ in[o] \notin Jobs \/ ~Tells(o, in[o])
          \/ /\ in'[o] = in[o] /\ plan'[o] = plan[o]
             /\ at'[o] \in {"listed", "unlist", "kept", "discarded"}

LEMMA TellingKeeps ==
    ASSUME TypeOK, Posts, Roles, AuthorKnows, NEW o \in Threads, Telling(o),
           UNCHANGED <<told, pending, unsaid>>,
           \A j \in Jobs : AtWork(j)' => AtWork(j),
           UNCHANGED folders \/ \E f \in Folders : Clears(f)
    PROVE  AuthorKnows'
<1> USE Names
<1> SUFFICES ASSUME NEW j \in Jobs, AtWork(j)', NEW e \in listed'[j]
             PROVE  Knows(j, e)'
  BY KnownNext
<1>1. AtWork(j) /\ j \in Registered
  BY DEF AtWork, Registered
<1>2. e \in listed[j]
  <2>1. CASE UNCHANGED folders
    BY <2>1 DEF folders
  <2>2. ASSUME NEW f \in Folders, Clears(f) PROVE listed'[j] \subseteq listed[j]
    BY <2>2 DEF Clears, Cleared, TypeOK
  <2> QED
    BY <2>1, <2>2
<1>3. Knows(j, e)
  BY <1>1, <1>2, KnownNow
<1>4. ASSUME NEW x \in Tellers, Tells(x, j), e \in plan[x] PROVE Tells(x, j)' /\ e \in plan'[x]
  BY <1>4 DEF Telling, Tells
<1>5. stuck'[j] = stuck[j]
  <2>1. ASSUME NEW f \in Folders, Clears(f), j # f PROVE stuck'[j] = stuck[j]
    BY <2>1 DEF Clears, Cleared, TypeOK
  <2>2. ASSUME NEW f \in Folders, Clears(f) PROVE listed'[f] = {}
    BY <2>2 DEF Clears, Cleared, TypeOK
  <2> QED
    BY <2>1, <2>2 DEF folders
<1> QED
  BY <1>3, <1>4, <1>5 DEF Knows

\* The request that announces its entries.
LEMMA AnnounceKnows ==
    ASSUME TypeOK, Posts, AuthorKnows, NEW o \in Threads, Announce(o)
    PROVE  AuthorKnows'
<1> USE Names
<1> SUFFICES ASSUME NEW j \in Jobs, AtWork(j)', NEW e \in listed'[j]
             PROVE  Knows(j, e)'
  BY KnownNext
<1>1. UNCHANGED <<folders, phase>> /\ AtWork(j) /\ e \in listed[j]
  BY AnnounceIs DEF folders, AtWork
<1>2. Knows(j, e)
  BY <1>1, KnownNow
<1>3. \A x \in Tellers \ {o} : at'[x] = at[x] /\ in'[x] = in[x] /\ plan'[x] = plan[x]
  BY AnnounceIs DEF Leaves, Goes, TypeOK, Tellers
<1>4. in[o] \in Jobs
  BY AnnounceIs DEF Posts, TypeOK, Folders
<1>5. /\ told[j] \subseteq told'[j] /\ pending[j] \subseteq pending'[j] /\ unsaid[j] \subseteq unsaid'[j]
      /\ in[o] = j => plan[o] \subseteq told'[j] \cup pending'[j] \cup unsaid'[j]
  <2>1. CASE Announces(o, in[o], plan[o])
    BY <1>1, <1>4, <2>1 DEF Announces, AtWork, TypeOK
  <2>2. CASE Unrecorded(in[o], plan[o])
    BY <1>4, <2>2 DEF Unrecorded, TypeOK
  <2> QED
    BY <2>1, <2>2 DEF Announce
<1>6. ASSUME NEW x \in Tellers, Tells(x, j), e \in plan[x] PROVE Knows(j, e)'
  <2>1. CASE x = o
    BY <1>5, <1>6, <2>1 DEF Knows, Tells
  <2>2. CASE x # o
    BY <1>3, <1>6, <2>2 DEF Knows, Tells
  <2> QED
    BY <2>1, <2>2
<1> QED
  BY <1>1, <1>2, <1>5, <1>6 DEF Knows, folders

\* A step in a folder: what it lists, the request has still to announce.
LEMMA FolderKnows ==
    ASSUME TypeOK, Bounded, Posts, Roles, Locks, Placing, AuthorKnows, NEW o \in Threads, FolderStep(o)
    PROVE  AuthorKnows'
<1> USE Names
<1> SUFFICES ASSUME NEW j \in Jobs, AtWork(j)', NEW e \in listed'[j]
             PROVE  Knows(j, e)'
  BY KnownNext
<1>1. UNCHANGED jobs /\ AtWork(j) /\ j \in Registered
  BY FolderStepIs DEF jobs, AtWork, Registered
<1>2. \A x \in Threads \ {o} : at'[x] = at[x] /\ in'[x] = in[x] /\ plan'[x] = plan[x]
  BY FolderAlone
<1>3. in'[o] = in[o] /\ at[o] \in Changing \cup {"wait"}
  BY FolderStepIs
<1>4. ASSUME e \in listed[j], e \in stuck[j] => e \in stuck'[j],
             \A x \in Tellers : x = o /\ Tells(o, j) /\ e \in plan[o] => Tells(o, j)' /\ e \in plan'[o]
      PROVE  Knows(j, e)'
  <2>1. Knows(j, e)
    BY <1>1, <1>4, KnownNow
  <2>2. ASSUME NEW x \in Tellers, Tells(x, j), e \in plan[x] PROVE Tells(x, j)' /\ e \in plan'[x]
    BY <1>2, <1>4, <2>2 DEF Tells, Tellers
  <2> QED
    BY <1>1, <1>4, <2>1, <2>2 DEF Knows, jobs
<1>5. CASE in[o] # j
  <2>1. listed'[j] = listed[j] /\ stuck'[j] = stuck[j]
    BY <1>5, FolderAlone
  <2> QED
    BY <1>4, <1>5, <2>1 DEF Tells
<1>6. CASE in[o] = j
  <2>1. o \in Tellers
    BY <1>1, <1>3, <1>6 DEF Tellers, Roles, Own, Creators
  <2>2. CASE e \in listed[j] /\ e \notin stuck'[j]
    <3>1. ASSUME Tells(o, j), e \in plan[o] PROVE Tells(o, j)' /\ e \in plan'[o]
      <4>1. at[o] \in {"listed", "unlist"}
        BY <1>3, <3>1 DEF Tells, Changing
      <4>2. /\ plan'[o] = plan[o]
            /\ \/ at'[o] \in {"kept", "unlist"}
               \/ listed'[j] = listed[j] \ plan[o]
               \/ plan[o] \cap listed[j] \subseteq stuck'[j]
        BY <1>6, <4>1, FolderNow
      <4> QED
        BY <1>3, <1>6, <2>2, <3>1, <4>2 DEF Tells
    <3>2. e \notin stuck[j]
      <4>1. at[o] = "placed" => e \notin plan[o]
        BY <1>6, <2>2 DEF Placing, Come, Changing
      <4>2. e \in stuck[j] => e \in stuck'[j] \/ (at[o] = "placed" /\ e \in plan[o])
        <5>1. CASE at[o] \in {"wait", "placed"}
          BY <1>6, <5>1, FolderNow DEF folders
        <5>2. CASE at[o] \in {"indexed", "listed"}
          BY <1>6, <5>2, FolderNow DEF folders
        <5>3. CASE at[o] = "unlist"
          BY <1>6, <5>3, FolderNow
        <5>4. CASE at[o] = "unindex"
          BY <1>6, <5>4, FolderNow
        <5>5. CASE at[o] = "unplace"
          BY <1>6, <5>5, FolderNow
        <5> QED
          BY <1>3, <5>1, <5>2, <5>3, <5>4, <5>5 DEF Changing
      <4> QED
        BY <2>2, <4>1, <4>2
    <3> QED
      BY <1>4, <2>2, <3>1, <3>2
  <2>3. CASE e \notin listed[j]
    <3>1. e \in plan'[o] /\ at'[o] \in {"listed", "kept"}
      BY <1>6, <2>3, FolderNow DEF folders
    <3> QED
      BY <1>3, <1>6, <2>1, <3>1 DEF Knows, Tells
  <2>4. CASE e \in stuck'[j]
    BY <2>4 DEF Knows
  <2> QED
    BY <2>2, <2>3, <2>4
<1> QED
  BY <1>5, <1>6

LEMMA CrashKnows ==
    ASSUME TypeOK, AuthorKnows, Crash
    PROVE  AuthorKnows'
<1> SUFFICES ASSUME NEW j \in Jobs, AtWork(j)', NEW e \in listed'[j]
             PROVE  Knows(j, e)'
  BY KnownNext
<1>1. AtWork(j)
  <2>1. phase'[j] = IF \E o \in Threads : in[o] = j /\ at[o] = "register" THEN "ready"
                    ELSE IF phase[j] = "pending" THEN "absent"
                    ELSE IF phase[j] = "running" THEN "paused" ELSE phase[j]
    BY DEF Crash
  <2> QED
    BY <2>1 DEF AtWork
<1>2. e \in listed[j]
  <2>1. listed' = [f \in Folders |-> IF f \in Jobs /\ Creating(f) THEN {} ELSE listed[f]]
    BY DEF Crash
  <2> QED
    BY <2>1 DEF Folders
<1>3. e \in told[j] \cup pending[j] \cup unsaid[j] \cup stuck[j] \cup Unannounced(j)
  BY <1>1, <1>2 DEF AuthorKnows, AtWork
<1>4. told' = told /\ pending' = pending /\ stuck' = stuck /\ unsaid'[j] = unsaid[j] \cup Unannounced(j)
  BY DEF Crash
<1> QED
  BY <1>3, <1>4 DEF Knows

LEMMA KnowsNext ==
    ASSUME TypeOK, Bounded, Posts, Roles, Before, Unborn, Beginning, Locks, Placing, AuthorKnows, Next
    PROVE  AuthorKnows'
<1> USE Names
<1>1. CASE Elsewhere
  BY <1>1, ElsewhereKnows
<1>2. CASE Crash
  BY <1>2, CrashKnows
<1>3. CASE \E o \in Threads : FolderStep(o)
  BY <1>3, FolderKnows
<1>4. CASE \E o \in Threads : Announce(o)
  BY <1>4, AnnounceKnows
<1> DEFINE Quiet == UNCHANGED <<told, pending, unsaid>> /\ \A j \in Jobs : AtWork(j)' => AtWork(j)
           S(o) == \A x \in Threads \ {o} : at'[x] = at[x] /\ in'[x] = in[x] /\ plan'[x] = plan[x]
           T(o) == S(o) /\ (o \in Tellers => in[o] \notin Jobs \/ ~Tells(o, in[o]))
           P == Quiet /\ \E o \in Threads : Telling(o)
<1>5. ASSUME NEW o \in Threads, T(o) PROVE Telling(o)
  BY <1>5 DEF Telling, Tellers
<1>6. ASSUME UNCHANGED jobs PROVE Quiet
  BY <1>6 DEF jobs, AtWork
<1>7. ASSUME StartBatch PROVE P
  <2>1. T(Starter)
    BY <1>7 DEF StartBatch, TypeOK, Tellers
  <2> QED
    BY <1>5, <1>6, <1>7, <2>1 DEF StartBatch
<1>8. ASSUME StoreInstalled PROVE P
  <2>1. T(Starter)
    BY <1>8 DEF StoreInstalled, Leaves, Goes, TypeOK, Tellers
  <2> QED
    BY <1>5, <1>6, <1>8, <2>1 DEF StoreInstalled
<1>9. ASSUME Settle PROVE P
  <2>1. T(Starter)
    BY <1>9 DEF Settle, Over, Leaves, Goes, TypeOK, Tellers
  <2> QED
    BY <1>5, <1>6, <1>9, <2>1 DEF Settle
<1>10. ASSUME NEW a \in Adders, AddToBatch(a) \/ LinkFailed(a) \/ Finished(a) PROVE P
  <2>1. T(a)
    <3>1. CASE AddToBatch(a)
      BY <3>1 DEF AddToBatch, Starts, Tells, TypeOK
    <3>2. CASE LinkFailed(a)
      BY <3>2 DEF LinkFailed, Leaves, Goes, Tells, TypeOK
    <3>3. CASE Finished(a)
      BY <3>3 DEF Finished, Over, Leaves, Goes, Tells, TypeOK
    <3> QED
      BY <1>10, <3>1, <3>2, <3>3
  <2>2. UNCHANGED jobs
    BY <1>10, Zenon DEF AddToBatch, LinkFailed, Finished
  <2> QED
    BY <1>5, <1>6, <2>1, <2>2
<1>11. ASSUME NEW o \in Owners, NEW j \in Jobs, AddToJob(o, j) PROVE P
  <2>1. T(o) /\ UNCHANGED jobs
    BY <1>11 DEF AddToJob, Starts, Tells, TypeOK
  <2> QED
    BY <1>5, <1>6, <2>1
<1>12. ASSUME NEW o \in Threads, NEW j \in Jobs, ReadStore(o, j) PROVE P
  <2>1. PICK W : plan' = [plan EXCEPT ![o] = W]
    BY <1>12 DEF ReadStore
  <2>2. at[o] = "next" /\ at' = [at EXCEPT ![o] = "wait"] /\ in' = [in EXCEPT ![o] = j] /\ UNCHANGED jobs
    BY <1>12, Zenon DEF ReadStore
  <2>3. T(o)
    BY <2>1, <2>2 DEF Tells, TypeOK
  <2> QED
    BY <1>5, <1>6, <2>2, <2>3
<1>13. ASSUME NEW j \in Jobs, Repeat(j) PROVE P
  <2>1. T(Scheduler) /\ UNCHANGED jobs
    BY <1>13 DEF Repeat, TypeOK, Tellers
  <2> QED
    BY <1>5, <1>6, <2>1
<1>14. ASSUME NEW o \in Threads, Discard(o) PROVE P
  <2>1. S(o) /\ UNCHANGED jobs
    BY <1>14, DiscardIs DEF Leaves, Goes, TypeOK
  <2>2. CASE o \in Owners
    <3>1. at'[o] = "discarded" /\ in'[o] = in[o] /\ plan'[o] = plan[o]
      BY <1>14, <2>2, DiscardIs DEF TypeOK
    <3> QED
      BY <1>6, <2>1, <3>1 DEF Telling, Tellers
  <2>3. CASE o \notin Owners
    BY <1>5, <1>6, <1>14, <2>1, <2>3, DiscardIs DEF Uploading
  <2> QED
    BY <2>2, <2>3
<1>15. ASSUME NEW o \in Threads, InstallFailed(o) PROVE P
  <2>1. T(o) /\ UNCHANGED jobs
    BY <1>15 DEF InstallFailed, Over, Leaves, Goes, Tells, TypeOK
  <2> QED
    BY <1>5, <1>6, <2>1
<1>16. ASSUME NEW o \in Threads, CreationFailed(o) PROVE P
  <2>1. T(o)
    BY <1>16 DEF CreationFailed, Leaves, Goes, Tells, TypeOK
  <2>2. Quiet
    BY <1>16 DEF CreationFailed, AtWork, TypeOK
  <2> QED
    BY <1>5, <2>1, <2>2
<1>17. ASSUME NEW o \in Threads, Created(o) \/ Register(o) PROVE P
  <2>1. CASE Created(o)
    <3>1. T(o) /\ Quiet
      BY <2>1 DEF Created, Goes, Only, AtWork, Tellers, TypeOK
    <3> QED
      BY <1>5, <3>1
  <2>2. CASE Register(o)
    <3>1. T(o) /\ Quiet
      BY <2>2 DEF Register, Leaves, Goes, AtWork, Tells, TypeOK
    <3> QED
      BY <1>5, <3>1
  <2> QED
    BY <1>17, <2>1, <2>2
<1>18. CASE ~Crash /\ ~ \E o \in Threads : FolderStep(o) \/ Announce(o)
  <2>1. UNCHANGED folders \/ \E f \in Folders : Clears(f)
    BY <1>18, NextIs, AsideIs
  <2>2. Elsewhere \/ P
    BY <1>7, <1>8, <1>9, <1>10, <1>11, <1>12, <1>13, <1>14, <1>15, <1>16, <1>17, <1>18, NextIs
  <2> QED
    BY <1>1, <2>1, <2>2, TellingKeeps
<1> QED
  BY <1>1, <1>2, <1>3, <1>4, <1>18

-----------------------------------------------------------------------------
(* The theorems *)

\* At first every folder is empty and every thread off.
LEMMA InitInv ==
    ASSUME Init
    PROVE  Inv
<1> USE Names
<1> USE DEF Init, NoEntries, Nothing, NoJobs
<1>1. TypeOK
  BY DEF TypeOK, States
<1>2. Bounded
  BY FS_EmptySet DEF Bounded
<1>3. Posts /\ Roles
  BY WorksConstants DEF Posts, Roles, Own, Creators, Registered, Idle
<1>4. Before /\ Unborn /\ Beginning
  BY DEF Before, Unborn, Beginning, Idle, Own, Registered
<1>5. Locks /\ Nested /\ Placing /\ Complete
  BY DEF Locks, Holds, Nested, Placing, Complete, Changing, Sound
<1>6. SharedOnce /\ Linking
  BY DEF SharedOnce, Shared, OfBatch, Linking, Links
<1>7. Given
  BY DEF Given, GivenBy
<1>8. AuthorKnows
  BY DEF AuthorKnows
<1> QED
  BY <1>1, <1>2, <1>3, <1>4, <1>5, <1>6, <1>7, <1>8 DEF Inv

LEMMA StutterInv ==
    ASSUME Inv, UNCHANGED vars
    PROVE  Inv'
<1> USE DEF Inv, vars, ops, folders, jobs, world
<1>1. TypeOK' /\ Bounded'
  BY DEF TypeOK, Bounded
<1>2. Posts'
  BY DEF Posts, Idle
<1>3. Own(Starter)' = Own(Starter) /\ Own(Scheduler)' = Own(Scheduler) /\ Registered' = Registered
  BY DEF Own, Registered
<1>4. Roles'
  BY <1>3 DEF Roles, Creators, Own, Registered
<1>5. Before' /\ Unborn'
  BY DEF Before, Unborn, Idle
<1>6. Beginning'
  BY <1>3 DEF Beginning, Idle
<1>7. Locks' /\ Nested'
  BY DEF Locks, Holds, Nested, Sound
<1>8. Placing' /\ Complete'
  BY DEF Placing, Come, Complete, Sound
<1>9. SharedOnce' /\ Linking'
  BY DEF SharedOnce, Shared, OfBatch, Linking, Links
<1>10. Given'
  <2>1. /\ \A j \in Jobs : Kept(j)' = Kept(j)
        /\ \A a \in Adders : WorksOf(a)' = WorksOf(a)
        /\ Shared(Store)' = Shared(Store)
    BY DEF Kept, WorksOf, Shared, OfBatch
  <2> QED
    BY <2>1 DEF Given, GivenBy, GivenTo, Kept, WorksOf, Shared, OfBatch, Idle
<1>11. AuthorKnows'
  BY DEF AuthorKnows, Unannounced
<1> QED
  BY <1>1, <1>2, <1>4, <1>5, <1>6, <1>7, <1>8, <1>9, <1>10, <1>11

LEMMA NextInv ==
    ASSUME Inv, [Next]_vars
    PROVE  Inv'
<1>1. CASE UNCHANGED vars
  BY <1>1, StutterInv
<1>2. CASE Next
  <2>1. TypeOK' /\ Bounded' /\ Posts' /\ Roles'
    BY <1>2, TypesNext, BoundedNext, PostsNext, RolesNext DEF Inv
  <2>2. Before' /\ Unborn' /\ Beginning' /\ Locks'
    BY <1>2, BeforeNext, UnbornNext, BeginningNext, LocksNext DEF Inv
  <2>3. Nested' /\ Placing' /\ Complete' /\ SharedOnce' /\ Linking'
    BY <1>2, FoldersNext, SharedNext DEF Inv
  <2>4. Given' /\ AuthorKnows'
    BY <1>2, GivenNext, KnowsNext DEF Inv
  <2> QED
    BY <2>1, <2>2, <2>3, <2>4 DEF Inv
<1> QED
  BY <1>1, <1>2

LEMMA InvAlways == Spec => []Inv
  BY InitInv, NextInv, PTL DEF Spec

(***************************************************************************)
(* Every variable keeps its type: no folder, plan or job ever holds        *)
(* anything but entries of works and jobs of the batch.                    *)
(***************************************************************************)
THEOREM WorksTypeCorrect == Spec => []TypeOK
  <1>1. Inv => TypeOK
    BY DEF Inv
  <1> QED BY <1>1, InvAlways, PTL

(***************************************************************************)
(* A folder read without its lock never lists a file that is not there,    *)
(* and with nobody at work in it, it holds what it lists, whatever step of *)
(* an addition failed and whatever steps of its undoing failed too; but    *)
(* for the entries that such a step of the undoing left behind (the try of *)
(* _add in ui/related_works.py).                                           *)
(***************************************************************************)
THEOREM FoldersAllOrNothing == Spec => []AllOrNothing
  <1>1. ASSUME Inv PROVE AllOrNothing
    <2> SUFFICES ASSUME NEW f \in Folders
                 PROVE  /\ listed[f] \ stuck[f] \subseteq index[f] /\ index[f] \ stuck[f] \subseteq files[f]
                        /\ Free(f) /\ ~crashed => files[f] \ stuck[f] = listed[f] \ stuck[f]
      BY DEF AllOrNothing
    <2>1. listed[f] \ stuck[f] \subseteq index[f] /\ index[f] \ stuck[f] \subseteq files[f]
      BY <1>1 DEF Inv, Nested, Sound
    <2>2. Free(f) => \A o \in Threads : at[o] \in Changing => in[o] # f
      BY DEF Free, Holds
    <2> QED
      BY <1>1, <2>1, <2>2 DEF Inv, Complete, Sound
  <1> QED BY <1>1, InvAlways, PTL

(***************************************************************************)
(* A job has no work of its batch twice and none the store does not have,  *)
(* however many requests read the store's manifest before they have the    *)
(* job's folder (link_into in ui/related_works.py).                        *)
(***************************************************************************)
THEOREM WorksSharedOnce == Spec => []SharedOnce
  <1>1. Inv => SharedOnce
    BY DEF Inv
  <1> QED BY <1>1, InvAlways, PTL

(***************************************************************************)
(* An addition that is over has given each job it found, and did not name  *)
(* as refused, all that the store held when it had installed its upload,   *)
(* whatever failed and whatever others added, undid or created meanwhile;  *)
(* each with its file, unless a failed undoing left the entry in the       *)
(* manifest (add_batch_related_works in ui/server.py).                     *)
(***************************************************************************)
THEOREM AdditionsMissNothing == Spec => []NothingMissed
  <1>1. ASSUME Inv PROVE NothingMissed
    <2> SUFFICES ASSUME NEW a \in Adders, at[a] = "next", todo[a] = {},
                        NEW j \in members[a] \ refused[a]
                 PROVE  held[a] \subseteq Has(j) \cup spoiled
      BY DEF NothingMissed
    <2>1. GivenTo(a, j)
      BY <1>1 DEF Inv, Given, GivenBy
    <2>2. in[a] = None /\ j \in Jobs
      BY <1>1, Names DEF Inv, Posts, TypeOK
    <2>3. held[a] \subseteq Kept(j) \cup spoiled
      BY <2>1, <2>2, Names DEF GivenTo
    <2>4. Kept(j) \subseteq Has(j)
      <3>1. listed[j] \subseteq files[j] \cup stuck[j]
        BY <1>1, <2>2, Names DEF Inv, Nested, Sound
      <3> QED
        BY <3>1 DEF Kept, Has, OfBatch
    <2> QED
      BY <2>3, <2>4
  <1> QED BY <1>1, InvAlways, PTL

(***************************************************************************)
(* The author of a running or paused job knows of every entry its folder   *)
(* lists, has a note of it waiting, or a request that holds it is about to *)
(* tell; across pauses, resumptions, refused notes and the server's death, *)
(* unless the user was told that this, or the addition itself, failed      *)
(* (_announce_related_works_locked in ui/server.py).                       *)
(***************************************************************************)
THEOREM AuthorsKnow == Spec => []AuthorKnows
  <1>1. Inv => AuthorKnows
    BY DEF Inv
  <1> QED BY <1>1, InvAlways, PTL

=============================================================================
