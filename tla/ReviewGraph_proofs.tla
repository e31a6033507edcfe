------------------------- MODULE ReviewGraph_proofs -------------------------
(***************************************************************************)
(* Proofs about ReviewGraph, for any number of edited rounds, selections   *)
(* of stages, texts, unread records, faults and pauses.                    *)
(***************************************************************************)
EXTENDS ReviewGraph, Integers, SequenceTheorems, WellFoundedInduction, TLAPS

-----------------------------------------------------------------------------
(* The newest of some records *)

\* Positions that are at most n have a last one.
LEMMA LastOf ==
    ASSUME NEW n \in Nat, NEW T, T \subseteq 1 .. n, T # {}
    PROVE  \E x \in T : \A y \in T : y <= x
  <1> DEFINE D == {n - x : x \in T}
  <1>1. IsWellFoundedOn(OpToRel(<, Nat), Nat)
    BY NatLessThanWellFounded
  <1>2. \A x \in T : x \in Int /\ 1 <= x /\ x <= n /\ n - x \in Nat
    BY SMT
  <1>3. D \subseteq Nat /\ D # {}
    BY <1>2, Zenon
  <1>4. PICK d \in D : \A e \in D : ~ (<<e, d>> \in OpToRel(<, Nat))
    <2> HIDE DEF D
    <2> QED BY <1>1, <1>3, WFMin
  <1>5. \A e \in D : ~ (e < d)
    BY <1>3, <1>4 DEF OpToRel
  <1>6. PICK x \in T : d = n - x
    BY <1>4, Zenon
  <1>7. ASSUME NEW y \in T PROVE y <= x
    <2>1. ~ (n - y < n - x)
      <3>1. n - y \in D
        BY Zenon
      <3> QED BY <1>5, <1>6, <3>1
    <2>2. x \in Int /\ y \in Int /\ n \in Int
      BY <1>2
    <2> HIDE DEF D
    <2> QED BY <2>1, <2>2
  <1> QED BY <1>7, Zenon

Texts == 0 .. InFile

\* The records of a runner, and what the transcript keeps.
Records ==
    [kind : {"step"}, node : Nodes, visit : Nat, verify : BOOLEAN]
    \cup [kind : {"author", "handoff", "final"}, text : Texts]
    \cup [kind : {"input", "paused"}, node : Nodes, st : States]
    \cup [kind : {"critic"}, verdict : {"pass", "reject"}, edited : BOOLEAN, text : Texts]
    \cup [kind : {"approved", "convention", "failure"}]
Entries == Records \cup [kind : {"resume"}, node : Nodes]

Logs ==
    /\ log \in Seq(Entries)
    /\ \A i \in DOMAIN log :
         log[i].kind \in {"author", "step", "handoff", "critic", "approved", "convention", "resume"}
    /\ \A i \in DOMAIN log : log[i].kind = "author" => i = 1

LEMMA NewestIs ==
    ASSUME Logs, NEW ks, Kinds(ks) # {}
    PROVE  /\ Newest(ks) \in Kinds(ks) /\ \A j \in Kinds(ks) : j <= Newest(ks)
           /\ Newest(ks) \in DOMAIN log /\ log[Newest(ks)].kind \in ks
  <1>1. DOMAIN log = 1 .. Len(log) /\ Len(log) \in Nat
    BY LenProperties DEF Logs
  <1>2. Kinds(ks) \subseteq 1 .. Len(log)
    BY <1>1 DEF Kinds
  <1>3. \E x \in Kinds(ks) : \A y \in Kinds(ks) : y <= x
    BY <1>1, <1>2, LastOf
  <1> QED BY <1>3 DEF Newest, Kinds

-----------------------------------------------------------------------------
(* Types *)

Places == {"off", "dead", "exited", "top", "work", "prepare", "input", "write", "model",
           "after", "approve", "revise", "capture", "final_input", "publish"}

StepTyped ==
    /\ node \in Nodes /\ st \in States /\ before \in States /\ pc \in Places
    /\ visits \in Nat /\ verify \in BOOLEAN /\ previous \in Nodes \cup {"none"}

FilesTyped == proofFile \in 0 .. MaxProofs /\ saved \in Texts /\ finalInput \in Texts

PipeTyped == pipe \in Seq(Records) /\ Len(pipe) <= MaxPipe

TextsTyped ==
    /\ made \in 0 .. MaxProofs /\ newest \in Texts
    /\ edits \in [Texts -> Nat] /\ root \in [Texts -> Texts]
    /\ approved \subseteq Texts \ {0} /\ faults \in Nat

\* What is reviewed is not empty, and was answered before it is acted on.
HasText ==
    /\ pc \in {"input", "write", "model", "after"} /\ node \in {"critic", "convention"} => st.sol # 0
    /\ pc = "after" => node = "critic" /\ st.report \in {"pass", "fixed", "reject"}
    /\ pc = "final_input" => node = "latex"

ServerTyped ==
    /\ phase \in {"running", "pausing", "paused", "done", "down"}
    /\ ckpt \in [status : {"none", "running", "pausing", "paused"}, node : Nodes, st : States]
    /\ request \in BOOLEAN /\ Logs
    /\ critique \in [verdict : {"none", "pass", "reject"}, text : Texts]
    /\ result \in Texts /\ failed \in BOOLEAN /\ at \in Nodes
    /\ stepInput \in [node : Nodes \cup {"none"}, st : States]
    /\ passed \in Texts /\ accepted \in Texts /\ pauses \in Nat
    /\ {submitted, refused, cutShort, gap} \subseteq BOOLEAN

Typed == /\ stages \in Selections /\ StepTyped /\ FilesTyped /\ PipeTyped /\ TextsTyped
         /\ HasText /\ ServerTyped

LEMMA TypedIsTypeOK == Typed => TypeOK
  BY DEF Typed, StepTyped, FilesTyped, PipeTyped, TextsTyped, ServerTyped, TypeOK, Places, Texts

LEMMA Numbers ==
    /\ MaxProofs \in Nat /\ InFile = MaxProofs + 1 /\ InFile \in Texts /\ 0 \in Texts
    /\ Proofs = 1 .. MaxProofs /\ Proofs \subseteq Texts /\ InFile \notin Proofs /\ 0 \notin Proofs
  BY ReviewConstants DEF InFile, Texts, Proofs

LEMMA BlankIs == Blank \in States /\ Blank.sol = 0
  BY Numbers DEF Blank, States, Texts

LEMMA StepVisitIs ==
    ASSUME NEW s \in States, NEW n, NEW v \in Nat, NEW check \in BOOLEAN
    PROVE  /\ StepVisit(s, n, v, check) \in States
           /\ StepVisit(s, n, v, check).sol = s.sol /\ StepVisit(s, n, v, check).note = s.note
           /\ StepVisit(s, n, v, check).report = s.report
  BY DEF StepVisit, States

LEMMA EmitTyped ==
    ASSUME PipeTyped, NEW r \in Records, Emit(r)
    PROVE  PipeTyped'
  <1>1. pipe' \in Seq(Records) /\ Len(pipe') = Len(pipe) + 1 /\ Len(pipe) \in Nat
    BY AppendProperties, LenProperties DEF Emit, PipeTyped
  <1> QED BY <1>1, ReviewConstants DEF Emit, PipeTyped

LEMMA PausesTyped ==
    ASSUME PipeTyped, NEW n \in Nodes, NEW s \in States, PausesAt(n, s)
    PROVE  PipeTyped' /\ pc' = "exited" /\ pc' \in Places
  <1>1. [kind |-> "paused", node |-> n, st |-> s] \in Records
    BY DEF Records
  <1> QED BY <1>1, EmitTyped DEF PausesAt, Places

\* What the runner's own actions leave alone.
RunnersOwn == UNCHANGED <<stages, ckpt, request, trace, phase, reader, pauses, history>>

LEMMA OwnTyped ==
    ASSUME Typed, RunnersOwn
    PROVE  stages' \in Selections /\ ServerTyped'
  BY DEF Typed, RunnersOwn, ServerTyped, Logs, Kinds, trace, reader, history

LEMMA BeginStepTyped ==
    ASSUME Typed, BeginStep
    PROVE  Typed'
  <1>1. RunnersOwn
    BY DEF BeginStep, NoOtherActor, RunnersOwn
  <1>2. UNCHANGED <<node, st, verify, previous, before, proofFile, saved, finalInput, faults, texts>>
    BY DEF BeginStep
  <1>3. visits' \in Nat /\ visits' = visits + 1
    BY DEF BeginStep, Typed, StepTyped
  <1>4. /\ PipeTyped' /\ pc' \in {"exited", "work", "final_input", "prepare"}
        /\ pc' = "final_input" => node = "latex"
    <2>1. CASE request
      <3>1. PausesAt(node, IF node = "author" THEN st ELSE StepVisit(st, node, visits + 1, verify))
        BY <2>1 DEF BeginStep
      <3>2. (IF node = "author" THEN st ELSE StepVisit(st, node, visits + 1, verify)) \in States
        BY <1>3, StepVisitIs DEF Typed, StepTyped
      <3> QED BY <3>1, <3>2, PausesTyped DEF Typed, StepTyped
    <2>2. CASE ~request
      <3>1. [kind |-> "step", node |-> node, visit |-> visits + 1, verify |-> verify] \in Records
        BY <1>3 DEF Records, Typed, StepTyped
      <3> QED BY <2>2, <3>1, EmitTyped DEF BeginStep, Typed
    <2> QED BY <2>1, <2>2
  <1> QED BY <1>1, <1>2, <1>3, <1>4, OwnTyped
          DEF Typed, StepTyped, FilesTyped, TextsTyped, HasText, Places, texts

LEMMA AuthorSubmitsTyped ==
    ASSUME Typed, AuthorSubmits
    PROVE  Typed'
  <1>1. RunnersOwn
    BY DEF AuthorSubmits, NoOtherActor, RunnersOwn
  <1>2. PICK pointer \in BOOLEAN, c \in {0} \cup ({made + 1} \cap Proofs) :
          /\ (c = 0 => pointer)
          /\ proofFile' = IF pointer THEN c ELSE proofFile
          /\ made' = IF c = 0 THEN made ELSE c
          /\ newest' = IF c = 0 THEN newest ELSE c
          /\ st' = [st EXCEPT !.sol = IF pointer THEN InFile ELSE c, !.note = FALSE]
          /\ Emit([kind |-> "author", text |-> st'.sol])
    BY DEF AuthorSubmits
  <1>3. c \in 0 .. MaxProofs /\ c \in Texts
    BY Numbers DEF Texts
  <1>4. st' \in States /\ st'.sol \in Texts
    BY <1>2, <1>3, Numbers DEF Typed, StepTyped, States, Texts
  <1>5. PipeTyped'
    <2>1. [kind |-> "author", text |-> st'.sol] \in Records
      BY <1>4 DEF Records
    <2> QED BY <1>2, <2>1, EmitTyped DEF Typed
  <1>6. StepTyped' /\ pc' \in {"top", "capture"}
    <2>1. before' = st
      BY Zenon DEF AuthorSubmits
    <2>2. GoTo("critic") \/ (pc' = "capture" /\ previous' = "author" /\ UNCHANGED <<node, visits, verify>>)
      BY Zenon DEF AuthorSubmits
    <2>3. CASE GoTo("critic")
      BY <1>4, <2>1, <2>3 DEF Typed, StepTyped, GoTo, Nodes, Places
    <2>4. CASE pc' = "capture" /\ previous' = "author" /\ UNCHANGED <<node, visits, verify>>
      BY <1>4, <2>1, <2>4 DEF Typed, StepTyped, Nodes, Places
    <2> QED BY <2>2, <2>3, <2>4
  <1>7. FilesTyped' /\ TextsTyped'
    BY <1>2, <1>3 DEF AuthorSubmits, Typed, FilesTyped, TextsTyped
  <1> QED BY <1>1, <1>5, <1>6, <1>7, OwnTyped DEF Typed, HasText

LEMMA AuthorPausesTyped ==
    ASSUME Typed, AuthorPauses
    PROVE  Typed'
  <1>1. RunnersOwn
    BY DEF AuthorPauses, NoOtherActor, RunnersOwn
  <1>2. PipeTyped' /\ pc' = "exited"
    BY PausesTyped DEF AuthorPauses, Typed, StepTyped, Nodes
  <1>3. faults' \in Nat
    BY DEF AuthorPauses, Typed, TextsTyped
  <1> QED BY <1>1, <1>2, <1>3, OwnTyped
          DEF AuthorPauses, Typed, StepTyped, StaysAt, FilesTyped, TextsTyped, HasText, Places, texts

LEMMA RefuseTyped ==
    ASSUME Typed, Refuse
    PROVE  PipeTyped' /\ pc' = "exited" /\ st' = st
  <1>1. [(IF previous = "author" THEN before ELSE st) EXCEPT !.note = TRUE] \in States
    BY DEF Typed, StepTyped, States
  <1> QED BY <1>1, PausesTyped DEF Refuse, Typed, Nodes

LEMMA PrepareTyped ==
    ASSUME Typed, Prepare
    PROVE  Typed'
  <1>1. RunnersOwn
    BY DEF Prepare, NoOtherActor, RunnersOwn
  <1>2. UNCHANGED <<before, proofFile, saved, finalInput, faults, texts, node, visits, verify, previous>>
    BY DEF Prepare, StaysAt
  <1>3. Candidate \in Texts
    BY Numbers DEF Candidate, Typed, StepTyped, FilesTyped, States, Texts
  <1>4. CASE Candidate = 0
    <2>1. PipeTyped' /\ pc' = "exited" /\ st' = st
      BY <1>4, RefuseTyped DEF Prepare
    <2> QED BY <1>1, <1>2, <2>1, OwnTyped
            DEF Typed, StepTyped, FilesTyped, TextsTyped, HasText, Places, texts
  <1>5. CASE Candidate # 0
    <2>1. Emit([kind |-> "handoff", text |-> Candidate]) /\ pc' = "input"
          /\ st' = [st EXCEPT !.sol = Candidate, !.captured = Candidate]
      BY <1>5 DEF Prepare
    <2>2. [kind |-> "handoff", text |-> Candidate] \in Records
      BY <1>3 DEF Records
    <2>3. st' \in States /\ st'.sol # 0
      BY <1>3, <1>5, <2>1 DEF Typed, StepTyped, States, Texts
    <2>4. PipeTyped'
      BY <2>1, <2>2, EmitTyped DEF Typed
    <2> QED BY <1>1, <1>2, <2>1, <2>3, <2>4, OwnTyped
            DEF Typed, StepTyped, FilesTyped, TextsTyped, HasText, Places, texts
  <1> QED BY <1>4, <1>5

LEMMA ReportInputTyped ==
    ASSUME Typed, ReportInput
    PROVE  Typed'
  <1>1. RunnersOwn
    BY DEF ReportInput, NoOtherActor, RunnersOwn
  <1>2. [kind |-> "input", node |-> node, st |-> StepVisit(st, node, visits, verify)] \in Records
    BY StepVisitIs DEF Typed, StepTyped, Records
  <1>3. PipeTyped' /\ pc' \in {"write", "model"} /\ pc = "input"
    BY <1>2, EmitTyped DEF ReportInput, Typed
  <1> QED BY <1>1, <1>3, OwnTyped
          DEF ReportInput, Typed, StepTyped, StaysAt, FilesTyped, TextsTyped, HasText, Places, texts

LEMMA SaveCandidateTyped ==
    ASSUME Typed, SaveCandidate
    PROVE  Typed'
  <1>1. RunnersOwn
    BY DEF SaveCandidate, NoOtherActor, RunnersOwn
  <1>2. saved' \in Texts
    BY DEF SaveCandidate, Typed, StepTyped, States, Texts
  <1> QED BY <1>1, <1>2, OwnTyped
          DEF SaveCandidate, Typed, StepTyped, StaysAt, FilesTyped, TextsTyped, PipeTyped, HasText,
              Places, texts

LEMMA CriticAnswersTyped ==
    ASSUME Typed, NEW outcome \in {"pass", "fixed", "reject"},
           NEW t \in {st.sol} \cup ({made + 1} \cap Proofs), CriticAnswers(outcome, t),
           approved' \in {approved, approved \cup {st.sol}}
    PROVE  Typed'
  <1>1. RunnersOwn
    BY DEF CriticAnswers, NoOtherActor, RunnersOwn
  <1>2. t \in Texts /\ t # 0 /\ st.sol \in Texts /\ st.sol # 0
    BY Numbers DEF CriticAnswers, Typed, StepTyped, HasText, States, Texts
  <1>3. t # st.sol => t \in 0 .. MaxProofs
    BY Numbers DEF Typed, TextsTyped
  <1>4. PipeTyped'
    <2>1. [kind |-> "critic", verdict |-> IF outcome = "reject" THEN "reject" ELSE "pass",
           edited |-> t # st.sol, text |-> t] \in Records
      BY <1>2 DEF Records
    <2> QED BY <2>1, EmitTyped DEF CriticAnswers, Typed
  <1>5. st' \in States /\ st'.sol = t
    BY <1>2 DEF CriticAnswers, Typed, StepTyped, States, Texts
  <1>6. TextsTyped'
    <2>1. edits[st.sol] + 1 \in Nat /\ root[st.sol] \in Texts
      BY <1>2 DEF Typed, TextsTyped
    <2>2. edits' \in [Texts -> Nat] /\ root' \in [Texts -> Texts]
      BY <2>1 DEF CriticAnswers, Typed, TextsTyped
    <2>3. approved' \subseteq Texts \ {0}
      BY <1>2 DEF Typed, TextsTyped
    <2>4. made' \in 0 .. MaxProofs
      BY <1>3 DEF CriticAnswers, Typed, TextsTyped
    <2> QED BY <2>2, <2>3, <2>4 DEF CriticAnswers, Typed, TextsTyped
  <1> QED BY <1>1, <1>2, <1>4, <1>5, <1>6, OwnTyped
          DEF CriticAnswers, Typed, StepTyped, StaysAt, FilesTyped, HasText, Places

LEMMA CriticTyped ==
    ASSUME Typed, CriticPasses \/ CriticFixes \/ CriticRejects
    PROVE  Typed'
  <1>1. CASE CriticPasses
    BY <1>1, CriticAnswersTyped DEF CriticPasses
  <1>2. CASE CriticFixes
    <2>1. made + 1 \in Proofs
      BY <1>2, Numbers DEF CriticFixes, Typed, TextsTyped
    <2> QED BY <1>2, <2>1, CriticAnswersTyped DEF CriticFixes
  <1>3. CASE CriticRejects
    BY <1>3, CriticAnswersTyped DEF CriticRejects
  <1> QED BY <1>1, <1>2, <1>3

LEMMA AfterCriticTyped ==
    ASSUME Typed, AfterCritic
    PROVE  Typed'
  <1>1. RunnersOwn
    BY DEF AfterCritic, NoOtherActor, RunnersOwn
  <1>2. saved' \in Texts
    BY DEF AfterCritic, Typed, StepTyped, States, Texts
  <1>3. /\ pc' \in {"approve", "top", "revise"} /\ node' \in Nodes /\ visits' \in Nat
        /\ verify' \in BOOLEAN /\ previous' \in Nodes \cup {"none"}
    <2>1. CASE st.report = "pass"
      BY <2>1 DEF AfterCritic, StaysAt, Typed, StepTyped
    <2>2. CASE st.report = "fixed"
      BY <2>2 DEF AfterCritic, RepeatsAsCheck, Typed, StepTyped, Nodes
    <2>3. CASE st.report = "reject"
      <3>1. IF "author" \in stages THEN GoTo("author") ELSE pc' = "revise" /\ StaysAt
        BY <2>3 DEF AfterCritic
      <3>2. CASE GoTo("author")
        BY <3>2 DEF GoTo, Typed, StepTyped, Nodes
      <3>3. CASE pc' = "revise" /\ StaysAt
        BY <3>3 DEF StaysAt, Typed, StepTyped, Nodes
      <3> QED BY <3>1, <3>2, <3>3
    <2> QED BY <2>1, <2>2, <2>3 DEF AfterCritic, Typed, HasText
  <1> QED BY <1>1, <1>2, <1>3, OwnTyped
          DEF AfterCritic, Typed, StepTyped, FilesTyped, TextsTyped, PipeTyped, HasText, Places, texts

LEMMA FinishTyped ==
    ASSUME Typed, Finish
    PROVE  /\ node' \in Nodes /\ visits' \in Nat /\ verify' \in BOOLEAN
           /\ previous' \in Nodes \cup {"none"}
           /\ \/ pc' = "top" /\ node' = "latex"
              \/ pc' = "publish" /\ node' = node
  <1>1. \/ /\ pc' = "top" /\ node' = "latex" /\ previous' = "none" /\ visits' = 0 /\ verify' = FALSE
        \/ pc' = "publish" /\ StaysAt
    BY Zenon DEF Finish
  <1>2. CASE pc' = "publish" /\ StaysAt
    BY <1>2 DEF StaysAt, Typed, StepTyped
  <1>3. CASE /\ pc' = "top" /\ node' = "latex" /\ previous' = "none" /\ visits' = 0 /\ verify' = FALSE
    BY <1>3 DEF Nodes
  <1> QED BY <1>1, <1>2, <1>3

LEMMA EndsTyped ==
    ASSUME Typed, Approve \/ Revise \/ ConventionAnswers \/ Publish
    PROVE  Typed'
  <1>1. RunnersOwn
    BY DEF Approve, Revise, ConventionAnswers, Publish, NoOtherActor, RunnersOwn
  <1>2. UNCHANGED <<st, before, proofFile, saved, finalInput, faults, texts>>
    BY DEF Approve, Revise, ConventionAnswers, Publish
  <1>3. PipeTyped'
    <2>1. /\ [kind |-> "approved"] \in Records /\ [kind |-> "failure"] \in Records
          /\ [kind |-> "convention"] \in Records
          /\ [kind |-> "final", text |-> st.sol] \in Records
      BY DEF Records, Typed, StepTyped, States, Texts
    <2> QED BY <2>1, EmitTyped DEF Approve, Revise, ConventionAnswers, Publish, Typed
  <1>4. /\ pc' \in {"top", "exited", "publish"} /\ node' \in Nodes /\ visits' \in Nat
        /\ verify' \in BOOLEAN /\ previous' \in Nodes \cup {"none"}
    <2>1. CASE Approve
      BY <2>1 DEF Approve, GoTo, Typed, StepTyped, Nodes
    <2>2. CASE Revise \/ Publish
      BY <2>2 DEF Revise, Publish, StaysAt, Typed, StepTyped
    <2>3. CASE ConventionAnswers
      BY <2>3, FinishTyped DEF ConventionAnswers
    <2> QED BY <2>1, <2>2, <2>3
  <1> QED BY <1>1, <1>2, <1>3, <1>4, OwnTyped
          DEF Typed, StepTyped, FilesTyped, TextsTyped, HasText, Places, texts

LEMMA CaptureTyped ==
    ASSUME Typed, Capture
    PROVE  Typed'
  <1>1. RunnersOwn
    BY DEF Capture, NoOtherActor, RunnersOwn
  <1>2. UNCHANGED <<before, proofFile, saved, finalInput, faults, texts>>
    BY DEF Capture
  <1> DEFINE c == IF st.sol = InFile THEN proofFile ELSE st.sol
  <1>3. c \in Texts
    BY Numbers DEF Typed, StepTyped, FilesTyped, States, Texts
  <1>4. CASE c = 0
    <2>1. PipeTyped' /\ pc' = "exited" /\ st' = st
      BY <1>4, RefuseTyped DEF Capture
    <2>2. StaysAt
      BY <1>4 DEF Capture
    <2> QED BY <1>1, <1>2, <2>1, <2>2, OwnTyped
            DEF Typed, StepTyped, StaysAt, FilesTyped, TextsTyped, HasText, Places, texts
  <1>5. CASE c # 0
    <2>1. st' = [st EXCEPT !.sol = c] /\ Finish /\ pipe' = pipe
      BY <1>5 DEF Capture
    <2>2. st' \in States
      BY <1>3, <2>1 DEF Typed, StepTyped, States, Texts
    <2>3. /\ pc' \in {"top", "publish"} /\ node' \in Nodes /\ visits' \in Nat
          /\ verify' \in BOOLEAN /\ previous' \in Nodes \cup {"none"}
      BY <2>1, FinishTyped
    <2> QED BY <1>1, <1>2, <2>1, <2>2, <2>3, OwnTyped
            DEF Typed, StepTyped, FilesTyped, PipeTyped, TextsTyped, HasText, Places, texts
  <1> QED BY <1>4, <1>5

LEMMA SaveFinalInputTyped ==
    ASSUME Typed, SaveFinalInput
    PROVE  Typed'
  <1>1. RunnersOwn
    BY DEF SaveFinalInput, NoOtherActor, RunnersOwn
  <1>2. finalInput' \in Texts
    BY DEF SaveFinalInput, Typed, StepTyped, States, Texts
  <1> QED BY <1>1, <1>2, OwnTyped
          DEF SaveFinalInput, Typed, StepTyped, StaysAt, FilesTyped, TextsTyped, PipeTyped, HasText,
              Places, texts

LEMMA StepFailsTyped ==
    ASSUME Typed, StepFails
    PROVE  Typed'
  <1>1. RunnersOwn
    BY DEF StepFails, NoOtherActor, RunnersOwn
  <1>2. PipeTyped' /\ pc' = "exited"
    <2>1. StepVisit(st, node, visits, verify) \in States
      BY StepVisitIs DEF Typed, StepTyped
    <2> QED BY <2>1, PausesTyped DEF StepFails, Typed, StepTyped
  <1>3. faults' \in Nat
    BY DEF StepFails, Typed, TextsTyped
  <1> QED BY <1>1, <1>2, <1>3, OwnTyped
          DEF StepFails, Typed, StepTyped, StaysAt, FilesTyped, TextsTyped, HasText, Places, texts
-----------------------------------------------------------------------------
(* What the server rebuilds has its type *)

LEMMA EntryIs ==
    ASSUME Logs, NEW i \in DOMAIN log
    PROVE  /\ log[i] \in Entries
           /\ log[i].kind \in {"author", "handoff", "critic"} => log[i].text \in Texts
           /\ log[i].kind = "step" => log[i].visit \in Nat /\ log[i].verify \in BOOLEAN
  <1>1. log[i] \in Entries
    BY LenProperties, ElementOfSeq DEF Logs
  <1>2. log[i].kind \in {"author", "step", "handoff", "critic", "approved", "convention", "resume"}
    BY DEF Logs
  <1> QED BY <1>1, <1>2 DEF Entries, Records

LEMMA CandidateTyped ==
    ASSUME Typed
    PROVE  InterruptedCandidate \in Texts
  <1>1. Logs /\ saved \in Texts
    BY DEF Typed, ServerTyped, FilesTyped
  <1>2. CASE saved # 0 /\ Kinds({"handoff"}) # {} /\ log[Newest({"handoff"})].text = saved
    BY <1>1, <1>2 DEF InterruptedCandidate
  <1>3. Kinds({"critic"}) # {} => log[Newest({"critic"})].text \in Texts
    BY <1>1, NewestIs, EntryIs
  <1>4. Kinds({"author"}) # {} => log[1].text \in Texts
    <2> SUFFICES ASSUME NEW i \in DOMAIN log, log[i].kind = "author" PROVE log[1].text \in Texts
      BY DEF Kinds
    <2>1. i = 1
      BY <1>1 DEF Logs
    <2> QED BY <1>1, <2>1, EntryIs
  <1> QED BY <1>1, <1>2, <1>3, <1>4 DEF InterruptedCandidate

LEMMA VisitTyped ==
    ASSUME Typed, NEW s \in States
    PROVE  InterruptedVisit(s) \in States /\ InterruptedVisit(s).sol = s.sol
  <1> DEFINE seen == {i \in Kinds({"author", "critic", "step", "resume"}) :
                        log[i].kind = "step" => log[i].node = "critic"}
             last == CHOOSE i \in seen : \A j \in seen : j <= i
             r == log[last]
  <1>1. Logs /\ ckpt.st \in States
    BY DEF Typed, ServerTyped
  <1>2. seen # {} => last \in DOMAIN log
    <2>1. DOMAIN log = 1 .. Len(log) /\ Len(log) \in Nat
      BY <1>1, LenProperties DEF Logs
    <2>2. seen \subseteq 1 .. Len(log)
      BY <2>1 DEF Kinds
    <2>3. seen # {} => \E x \in seen : \A y \in seen : y <= x
      <3> HIDE DEF seen
      <3> QED BY <2>1, <2>2, LastOf
    <2>4. seen # {} => last \in seen
      <3> HIDE DEF seen
      <3> QED BY <2>3
    <2> QED BY <2>1, <2>2, <2>4
  <1>3. seen # {} /\ r.kind = "step" =>
          /\ StepVisit(s, "critic", r.visit, r.verify) \in States
          /\ StepVisit(s, "critic", r.visit, r.verify).sol = s.sol
    BY <1>1, <1>2, EntryIs, StepVisitIs
  <1>4. /\ [s EXCEPT !.visit = ckpt.st.visit, !.verify = ckpt.st.verify] \in States
        /\ [s EXCEPT !.visit = ckpt.st.visit, !.verify = ckpt.st.verify].sol = s.sol
    BY <1>1 DEF States
  <1>5. \/ InterruptedVisit(s) = s
        \/ seen # {} /\ r.kind = "step" /\ InterruptedVisit(s) = StepVisit(s, "critic", r.visit, r.verify)
        \/ InterruptedVisit(s) = [s EXCEPT !.visit = ckpt.st.visit, !.verify = ckpt.st.verify]
    BY Zenon DEF InterruptedVisit
  <1> HIDE DEF seen, last, r
  <1> QED BY <1>3, <1>4, <1>5

LEMMA InputIs ==
    ASSUME NEW p \in Texts
    PROVE  Input(p) \in States /\ Input(p).sol = p
  BY BlankIs DEF Input, States, Texts

Saves == [node : Nodes, st : States]

LEMMA AtIs ==
    ASSUME NEW n \in Nodes, NEW s \in States
    PROVE  At(n, s) \in Saves \cup {Nothing} /\ (At(n, s) # Nothing => At(n, s).node = n /\ At(n, s).st = s)
  BY DEF At, Saves

LEMMA StageTyped ==
    ASSUME Typed, NEW n
    PROVE  InterruptedStage(n) \in Saves \cup {Nothing}
  <1>1. Logs /\ finalInput \in Texts /\ critique.text \in Texts
    BY DEF Typed, ServerTyped, FilesTyped
  <1>2. At("latex", Input(finalInput)) \in Saves \cup {Nothing}
    BY <1>1, InputIs, AtIs DEF Nodes
  <1>3. At("convention", Input(IF Kinds({"critic"}) # {} THEN log[Newest({"critic"})].text
                               ELSE InterruptedCandidate)) \in Saves \cup {Nothing}
    <2>1. Kinds({"critic"}) # {} => log[Newest({"critic"})].text \in Texts
      BY <1>1, NewestIs, EntryIs
    <2> QED BY <2>1, CandidateTyped, InputIs, AtIs DEF Nodes
  <1>4. At("author", [Input(critique.text) EXCEPT !.report = "reject"]) \in Saves \cup {Nothing}
    <2>1. [Input(critique.text) EXCEPT !.report = "reject"] \in States
      BY <1>1, InputIs DEF States
    <2> QED BY <2>1, AtIs DEF Nodes
  <1>5. At("critic", InterruptedVisit(Input(InterruptedCandidate))) \in Saves \cup {Nothing}
    BY CandidateTyped, InputIs, VisitTyped, AtIs DEF Nodes
  <1>6. InterruptedStage(n) \in
          {Nothing, At("latex", Input(finalInput)),
           At("convention", Input(IF Kinds({"critic"}) # {} THEN log[Newest({"critic"})].text
                                  ELSE InterruptedCandidate)),
           At("author", [Input(critique.text) EXCEPT !.report = "reject"]),
           At("critic", InterruptedVisit(Input(InterruptedCandidate)))}
    BY Zenon DEF InterruptedStage
  <1> QED BY <1>2, <1>3, <1>4, <1>5, <1>6

LEMMA RejectionIs ==
    ASSUME Typed, NEW s \in States
    PROVE  WithRejection(s) \in States /\ PauseState \in States
  <1>1. critique.text \in Texts
    BY DEF Typed, ServerTyped
  <1>2. ASSUME NEW t \in States PROVE WithRejection(t) \in States
    BY <1>1 DEF WithRejection, States, Texts
  <1> QED BY <1>2, BlankIs DEF PauseState

LEMMA UnfinishedTyped ==
    ASSUME Typed, NEW again
    PROVE  Unfinished(again) \in Saves /\ Unfinished(again).node = "author"
  <1>1. WithoutOldNote(ckpt.st, again) \in States
    BY DEF WithoutOldNote, Typed, ServerTyped, States
  <1> QED BY <1>1, RejectionIs DEF Unfinished, Saves, Nodes

LEMMA RebuiltTyped ==
    ASSUME Typed
    PROVE  Rebuilt \in Saves \cup {Nothing}
  <1>1. Rebuilt \in {Nothing, Unfinished(SubmittedSinceResume), InterruptedStage(LastWorkNode)}
    BY Zenon DEF Rebuilt
  <1> QED BY <1>1, StageTyped, UnfinishedTyped
-----------------------------------------------------------------------------
(* The server's steps keep the types *)


LEMMA RunnersRestTyped ==
    ASSUME Typed, RunnerRests, UNCHANGED faults
    PROVE  /\ StepTyped' /\ TextsTyped' /\ HasText'
           /\ finalInput' \in Texts => FilesTyped'
  BY DEF Typed, RunnerRests, runner, texts, StepTyped, TextsTyped, HasText, FilesTyped

LEMMA HeadIs ==
    ASSUME PipeTyped, pipe # <<>>
    PROVE  /\ Head(pipe) \in Records /\ Tail(pipe) \in Seq(Records)
           /\ Len(Tail(pipe)) = Len(pipe) - 1 /\ Len(Tail(pipe)) <= MaxPipe
           /\ \A i \in 1 .. Len(Tail(pipe)) : Tail(pipe)[i] = pipe[i + 1]
           /\ Len(pipe) \in Nat /\ Len(pipe) >= 1 /\ Head(pipe) = pipe[1]
  <1>1. /\ Head(pipe) \in Records /\ Tail(pipe) \in Seq(Records) /\ Len(Tail(pipe)) = Len(pipe) - 1
        /\ \A i \in 1 .. Len(Tail(pipe)) : Tail(pipe)[i] = pipe[i + 1]
    BY HeadTailProperties DEF PipeTyped
  <1>2. Len(pipe) \in Nat /\ Len(pipe) >= 1
    BY EmptySeq, LenProperties DEF PipeTyped
  <1> QED BY <1>1, <1>2, ReviewConstants DEF PipeTyped

LEMMA LoggedTyped ==
    ASSUME Logs, NEW r \in Records, log' = Logged(r)
    PROVE  Logs'
  <1>1. DOMAIN log = 1 .. Len(log) /\ Len(log) \in Nat
    BY LenProperties DEF Logs
  <1>2. r \in Entries
    BY DEF Entries
  <1>3. CASE r.kind = "author"
    BY <1>2, <1>3 DEF Logged, Logs
  <1>4. CASE r.kind \in {"step", "handoff", "critic", "approved", "convention"}
    <2>1. log' = Append(log, r)
      BY <1>4 DEF Logged
    <2>2. /\ log' \in Seq(Entries) /\ Len(log') = Len(log) + 1
          /\ \A i \in 1 .. Len(log) : log'[i] = log[i]
          /\ log'[Len(log) + 1] = r
      BY <1>2, <2>1, AppendProperties DEF Logs
    <2>3. DOMAIN log' = 1 .. Len(log) + 1
      BY <2>2, LenProperties
    <2> QED BY <1>1, <1>4, <2>2, <2>3 DEF Logs
  <1>5. CASE r.kind \in {"final", "input", "paused", "failure"}
    BY <1>5 DEF Logged, Logs
  <1> QED BY <1>3, <1>4, <1>5 DEF Records

LEMMA ReadTyped ==
    ASSUME Typed, Read
    PROVE  Typed'
  <1> DEFINE r == Head(pipe)
  <1>1. PipeTyped' /\ r \in Records
    BY HeadIs DEF Read, Typed, PipeTyped
  <1>2. Logs'
    BY <1>1, LoggedTyped DEF Read, Typed, ServerTyped
  <1>3. /\ r.kind \in {"author", "critic", "final"} => r.text \in Texts
        /\ r.kind \in {"step", "input", "paused"} => r.node \in Nodes
        /\ r.kind \in {"input", "paused"} => r.st \in States
        /\ r.kind = "critic" => r.verdict \in {"pass", "reject"}
    BY <1>1 DEF Records
  <1> HIDE DEF r
  <1>4. /\ at' = IF r.kind = "author" THEN "author"
                 ELSE IF r.kind \in {"step", "paused"} THEN r.node ELSE at
        /\ stepInput' = IF r.kind = "input" THEN [node |-> r.node, st |-> r.st] ELSE stepInput
        /\ submitted' = (submitted \/ r.kind = "author")
        /\ critique' = IF r.kind = "critic" THEN [verdict |-> r.verdict, text |-> r.text] ELSE critique
        /\ passed' = IF r.kind # "critic" THEN passed ELSE IF r.verdict = "pass" THEN r.text ELSE 0
        /\ finalInput' = IF r.kind = "approved" /\ passed # 0 THEN passed ELSE finalInput
        /\ accepted' = IF r.kind = "approved" /\ accepted = 0 THEN critique.text ELSE accepted
        /\ refused' = IF r.kind = "author" THEN FALSE
                      ELSE IF r.kind = "paused" THEN r.st.note ELSE refused
        /\ result' = IF r.kind = "final" THEN r.text ELSE result
        /\ failed' = (failed \/ r.kind = "failure")
        /\ phase' = IF r.kind = "paused" THEN "pausing" ELSE phase
        /\ ckpt' = IF r.kind = "paused" THEN [status |-> "pausing", node |-> r.node, st |-> r.st]
                   ELSE ckpt
        /\ UNCHANGED <<stages, request, faults, pauses, cutShort, gap>>
    BY Zenon DEF Read, r
  <1>5. StepTyped' /\ TextsTyped' /\ HasText' /\ FilesTyped' /\ stages' \in Selections
    <2>1. finalInput' \in Texts
      BY <1>4 DEF Typed, FilesTyped, ServerTyped
    <2> QED BY <1>4, <2>1, RunnersRestTyped DEF Read, Typed
  <1>6. /\ at' \in Nodes /\ stepInput' \in [node : Nodes \cup {"none"}, st : States]
        /\ critique' \in [verdict : {"none", "pass", "reject"}, text : Texts]
        /\ ckpt' \in [status : {"none", "running", "pausing", "paused"}, node : Nodes, st : States]
    BY <1>3, <1>4, Numbers DEF Typed, ServerTyped, Nodes
  <1>7. /\ passed' \in Texts /\ accepted' \in Texts /\ result' \in Texts
        /\ phase' \in {"running", "pausing", "paused", "done", "down"}
    BY <1>3, <1>4, Numbers DEF Typed, ServerTyped
  <1>8. {submitted', refused', cutShort', gap'} \subseteq BOOLEAN /\ failed' \in BOOLEAN
    <2>1. r.kind = "paused" => r.st.note \in BOOLEAN
      BY <1>3 DEF States
    <2>2. refused' \in BOOLEAN
      BY <1>4, <2>1 DEF Typed, ServerTyped
    <2> QED BY <1>4, <2>2 DEF Typed, ServerTyped
  <1> QED BY <1>1, <1>2, <1>4, <1>5, <1>6, <1>7, <1>8 DEF Typed, ServerTyped

Stops(c) ==
    /\ phase' = "paused"
    /\ ckpt' = [status |-> "paused", node |-> c.node, st |-> c.st]

LEMMA SettleIs ==
    ASSUME Settle
    PROVE  /\ pc' = "off" /\ phase \in {"running", "pausing"} /\ pipe = <<>>
           /\ UNCHANGED <<stages, node, st, visits, verify, previous, before, proofFile, saved, finalInput,
                          request, trace, pipe, reader, texts, bounds, history>>
           /\ \/ UNCHANGED ckpt /\ phase' = "done"
              \/ phase = "pausing" /\ result = 0 /\ ~failed /\ Stops(ckpt)
              \/ phase = "running" /\ result = 0 /\ ~failed /\ at = "author" /\ Stops(Unfinished(submitted))
              \/ phase = "running" /\ result = 0 /\ ~failed /\ StepStopped /\ Stops(stepInput)
  BY Zenon DEF Settle, Stops

LEMMA SettleTyped ==
    ASSUME Typed, Settle
    PROVE  Typed'
  <1>1. /\ ckpt' \in [status : {"none", "running", "pausing", "paused"}, node : Nodes, st : States]
        /\ phase' \in {"done", "paused"}
    <2>1. CASE UNCHANGED ckpt /\ phase' = "done"
      BY <2>1 DEF Typed, ServerTyped
    <2>2. CASE Stops(ckpt)
      BY <2>2 DEF Stops, Typed, ServerTyped
    <2>3. CASE Stops(Unfinished(submitted))
      BY <2>3, UnfinishedTyped DEF Stops, Saves
    <2>4. CASE StepStopped /\ Stops(stepInput)
      BY <2>4 DEF Stops, StepStopped, Typed, ServerTyped
    <2> QED BY <2>1, <2>2, <2>3, <2>4, SettleIs
  <1> QED BY <1>1, SettleIs
          DEF Typed, StepTyped, FilesTyped, PipeTyped, TextsTyped, HasText, ServerTyped, Places,
              Logs, trace, reader, texts, bounds, history

LEMMA ResumedVisitIs ==
    ASSUME Typed
    PROVE  ResumedVisit(ckpt) \in Nat
  BY DEF Typed, ServerTyped, ResumedVisit, States

LEMMA ResumeTyped ==
    ASSUME Typed, Resume
    PROVE  Typed'
  <1>1. ckpt \in [status : {"none", "running", "pausing", "paused"}, node : Nodes, st : States]
    BY DEF Typed, ServerTyped
  <1>2. StepTyped'
    <2>1. st' \in States
      BY <1>1 DEF Resume, States
    <2>2. verify' \in BOOLEAN
      BY <1>1 DEF Resume, States
    <2>3. before' \in States /\ visits' \in Nat
      BY BlankIs, ResumedVisitIs DEF Resume
    <2> QED BY <1>1, <2>1, <2>2, <2>3 DEF Resume, StepTyped, Places
  <1>3. Logs'
    <2>1. log' = Append(log, [kind |-> "resume", node |-> ckpt.node])
      BY DEF Resume
    <2>2. [kind |-> "resume", node |-> ckpt.node] \in Entries
      BY <1>1 DEF Entries
    <2>3. DOMAIN log = 1 .. Len(log) /\ Len(log) \in Nat
      BY LenProperties DEF Typed, ServerTyped, Logs
    <2>4. /\ log' \in Seq(Entries) /\ Len(log') = Len(log) + 1
          /\ \A i \in 1 .. Len(log) : log'[i] = log[i]
          /\ log'[Len(log) + 1] = [kind |-> "resume", node |-> ckpt.node]
      BY <2>1, <2>2, AppendProperties DEF Typed, ServerTyped, Logs
    <2>5. DOMAIN log' = 1 .. Len(log) + 1
      BY <2>4, LenProperties
    <2>6. ASSUME NEW i \in DOMAIN log'
          PROVE  /\ log'[i].kind \in {"author", "step", "handoff", "critic", "approved", "convention", "resume"}
                 /\ log'[i].kind = "author" => i = 1
      <3>1. CASE i \in 1 .. Len(log)
        BY <2>3, <2>4, <3>1 DEF Typed, ServerTyped, Logs
      <3>2. CASE i = Len(log) + 1
        BY <2>4, <3>2
      <3> QED BY <2>3, <2>5, <3>1, <3>2
    <2> QED BY <2>4, <2>6 DEF Logs
  <1>4. ckpt' \in [status : {"none", "running", "pausing", "paused"}, node : Nodes, st : States]
    BY <1>1 DEF Resume
  <1>5. /\ stepInput' \in [node : Nodes \cup {"none"}, st : States] /\ at' \in Nodes
        /\ passed' \in Texts /\ submitted' \in BOOLEAN /\ request' \in BOOLEAN /\ phase' = "running"
    BY <1>1, BlankIs, Numbers DEF Resume, Nothing
  <1> QED BY <1>2, <1>3, <1>4, <1>5
          DEF Resume, Typed, FilesTyped, PipeTyped, TextsTyped, HasText, ServerTyped, texts, bounds, history

LEMMA RestartIs ==
    ASSUME Restart
    PROVE  /\ phase = "down"
           /\ UNCHANGED <<stages, runner, proofFile, saved, finalInput, request, trace, pipe, reader,
                          texts, bounds, history>>
           /\ \/ UNCHANGED ckpt /\ phase' = "done"
              \/ /\ ckpt.status \in {"paused", "pausing"}
                 /\ phase' = "paused" /\ ckpt' = [ckpt EXCEPT !.status = "paused"]
              \/ /\ ckpt.status \notin {"paused", "pausing"}
                 /\ Rebuilt # Nothing /\ Stops(Rebuilt)
  BY Zenon DEF Restart, Stops

LEMMA RestartTyped ==
    ASSUME Typed, Restart
    PROVE  Typed'
  <1>1. /\ ckpt' \in [status : {"none", "running", "pausing", "paused"}, node : Nodes, st : States]
        /\ phase' \in {"done", "paused"}
    <2>1. CASE UNCHANGED ckpt /\ phase' = "done"
      BY <2>1 DEF Typed, ServerTyped
    <2>2. CASE phase' = "paused" /\ ckpt' = [ckpt EXCEPT !.status = "paused"]
      BY <2>2 DEF Typed, ServerTyped
    <2>3. CASE Rebuilt # Nothing /\ Stops(Rebuilt)
      BY <2>3, RebuiltTyped DEF Stops, Saves
    <2> QED BY <2>1, <2>2, <2>3, RestartIs
  <1> QED BY <1>1, RestartIs
          DEF Typed, StepTyped, FilesTyped, PipeTyped, TextsTyped, HasText, ServerTyped,
              Logs, runner, trace, reader, texts, bounds, history

LEMMA PauseTyped ==
    ASSUME Typed, Pause
    PROVE  Typed'
  <1>1. ckpt' \in [status : {"none", "running", "pausing", "paused"}, node : Nodes, st : States]
    BY RejectionIs, BlankIs DEF Pause, Nodes
  <1>2. StepTyped' /\ TextsTyped' /\ HasText' /\ FilesTyped'
    BY RunnersRestTyped DEF Pause, Typed, FilesTyped
  <1> QED BY <1>1, <1>2 DEF Pause, Typed, PipeTyped, ServerTyped, Logs, trace, reader

LEMMA FaultTyped ==
    ASSUME Typed, Kill \/ Crash
    PROVE  Typed'
  <1>1. PipeTyped'
    <2>1. <<>> \in Seq(Records) /\ Len(<<>>) = 0
      BY EmptySeq
    <2>2. CASE Kill
      BY <2>2 DEF Kill, Typed, PipeTyped
    <2>3. CASE Crash
      <3>1. pipe' = <<>>
        BY <2>3 DEF Crash
      <3> QED BY <2>1, <3>1, ReviewConstants DEF PipeTyped
    <2> QED BY <2>2, <2>3
  <1>2. pc' \in {"dead", "off"} /\ phase' \in {phase, "down"} /\ faults' \in Nat
    <2>1. faults' = faults + 1 /\ faults \in Nat
      BY Zenon DEF Kill, Crash, Typed, TextsTyped
    <2>2. pc' \in {"dead", "off"} /\ phase' \in {phase, "down"}
      BY Zenon DEF Kill, Crash
    <2> QED BY <2>1, <2>2
  <1>3. cutShort' \in BOOLEAN /\ gap' \in BOOLEAN
    <2>1. cutShort \in BOOLEAN /\ gap \in BOOLEAN
      BY DEF Typed, ServerTyped
    <2>2. CASE Kill
      BY <2>1, <2>2, Zenon DEF Kill
    <2>3. CASE Crash
      BY <2>1, <2>3, Zenon DEF Crash
    <2> QED BY <2>2, <2>3
  <1>4. UNCHANGED <<stages, node, st, visits, verify, previous, before, files, trace,
                    reader, pauses, texts, accepted, refused>>
    BY DEF Kill, Crash
  <1> QED BY <1>1, <1>2, <1>3, <1>4
          DEF Typed, StepTyped, FilesTyped, TextsTyped, HasText, ServerTyped, Places,
              Logs, files, trace, reader, texts

LEMMA InitTyped == Init => Typed
  <1> SUFFICES ASSUME Init PROVE Typed OBVIOUS
  <1>1. made \in {0, 1} /\ made \in 0 .. MaxProofs /\ made \in Texts /\ node \in Nodes
    BY ReviewConstants, Numbers DEF Init, Texts, Nodes
  <1>2. st \in States /\ before \in States
    BY <1>1, BlankIs DEF Init, States, Texts
  <1>3. StepTyped /\ FilesTyped /\ HasText
    <2>1. StepTyped
      BY <1>1, <1>2 DEF Init, StepTyped, Places
    <2>2. FilesTyped
      BY <1>1, Numbers DEF Init, FilesTyped
    <2>3. HasText
      BY DEF Init, HasText
    <2> QED BY <2>1, <2>2, <2>3
  <1>4. TextsTyped
    <2>1. edits \in [Texts -> Nat] /\ root \in [Texts -> Texts]
      BY DEF Init, Texts
    <2> QED BY <1>1, <2>1 DEF Init, TextsTyped
  <1>5. PipeTyped /\ Logs
    <2>1. pipe = <<>> /\ log = <<>>
      BY DEF Init
    <2>2. /\ pipe \in Seq(Records) /\ Len(pipe) = 0
          /\ log \in Seq(Entries) /\ Len(log) = 0 /\ DOMAIN log = 1 .. 0
      BY <2>1, EmptySeq, LenProperties
    <2> QED BY <2>2, ReviewConstants DEF PipeTyped, Logs
  <1>6. ServerTyped
    <2>1. NoCkpt \in [status : {"none", "running", "pausing", "paused"}, node : Nodes, st : States]
      BY BlankIs DEF NoCkpt, Nodes
    <2>2. Nothing \in [node : Nodes \cup {"none"}, st : States]
      BY BlankIs DEF Nothing
    <2> QED BY <1>1, <1>5, <2>1, <2>2, Numbers DEF Init, ServerTyped
  <1> QED BY <1>3, <1>4, <1>5, <1>6 DEF Init, Typed

LEMMA NextTyped == Typed /\ [Next]_vars => Typed'
  <1> SUFFICES ASSUME Typed, [Next]_vars PROVE Typed' OBVIOUS
  <1>1. CASE UNCHANGED vars
    BY <1>1 DEF vars, Typed, StepTyped, FilesTyped, PipeTyped, TextsTyped, HasText, ServerTyped,
                Logs, runner, files, trace, reader, texts, bounds, history
  <1>2. CASE Runner
    BY <1>2, BeginStepTyped, AuthorSubmitsTyped, AuthorPausesTyped, PrepareTyped, ReportInputTyped,
       SaveCandidateTyped, CriticTyped, AfterCriticTyped, EndsTyped, CaptureTyped,
       SaveFinalInputTyped, StepFailsTyped DEF Runner
  <1>3. CASE Server
    BY <1>3, ReadTyped, SettleTyped, ResumeTyped, RestartTyped DEF Server
  <1>4. CASE Pause
    BY <1>4, PauseTyped
  <1>5. CASE Fault
    BY <1>5, FaultTyped DEF Fault
  <1> QED BY <1>1, <1>2, <1>3, <1>4, <1>5 DEF Next

(***************************************************************************)
(* Every variable of the executor, the transcript and the reader keeps its *)
(* type, over edits, refused submissions, pauses, kills and crashes.       *)
(***************************************************************************)
THEOREM ReviewTypeCorrect == Spec => []TypeOK
  <1>1. Spec => []Typed
    BY InitTyped, NextTyped, PTL DEF Spec
  <1> QED BY <1>1, TypedIsTypeOK, PTL

-----------------------------------------------------------------------------
(* What follows an approval is an approved text *)

Late == {"convention", "latex"}

\* A saved or sent step input of a late node holds a text a critic passed.
Carries(c) == c.node \in Late => c.st.sol \in approved

StepPassed ==
    /\ Working /\ node \in Late => st.sol \in approved
    /\ pc = "approve" \/ (pc = "after" /\ st.report = "pass") => st.sol \in approved
    /\ pc \in {"publish", "final_input"} => node \in Late
    /\ pc # "capture"

ServerPassed ==
    /\ {result, finalInput, accepted} \subseteq approved \cup {0}
    /\ Carries(stepInput) /\ Carries(ckpt)

SentPassed ==
    \A i \in DOMAIN pipe :
      /\ pipe[i].kind = "final" => pipe[i].text \in approved
      /\ pipe[i].kind \in {"input", "paused"} => Carries(pipe[i])

\* The critic's latest answer, among the first i - 1 unread records or else read
\* already, is about a text a critic passed.
ReadPass ==
    critique.text \in approved /\ passed \in approved \cup {0} /\ Kinds({"critic"}) # {}
NoAnswer(a, b) == \A k \in a .. b : pipe[k].kind \notin {"critic", "author"}
PassedBefore(i) ==
    \/ \E k \in 1 .. i - 1 : /\ pipe[k].kind = "critic" /\ pipe[k].text \in approved
                             /\ NoAnswer(k + 1, i - 1)
    \/ NoAnswer(1, i - 1) /\ ReadPass

\* Every "Critic approved" on the way follows such an answer, the next one too.
SentAfterPass == \A i \in DOMAIN pipe : pipe[i].kind = "approved" => PassedBefore(i)
NextAfterPass ==
    pc = "approve" \/ (pc = "after" /\ st.report = "pass") => PassedBefore(Len(pipe) + 1)

LogPassed ==
    /\ \A i \in Kinds({"critic"}) :
         (\A j \in Kinds({"critic"}) : j <= i) => log[i].text = critique.text
    /\ \A i \in Kinds({"approved"}) :
         (\A j \in Kinds(Decisive) : j <= i)
           => Kinds({"critic"}) # {} /\ critique.text \in approved

Passing == /\ StepPassed /\ ServerPassed /\ SentPassed /\ SentAfterPass /\ NextAfterPass
           /\ LogPassed

\* The hypothesis of AcceptedIsReviewed, under which the rest is proved.
PassInv == Typed /\ (Reviewed /\ InFile \notin approved => Passing)

-----------------------------------------------------------------------------
(* Unread records: what a new one and a read one change *)

LEMMA PipeIs ==
    ASSUME PipeTyped
    PROVE  Len(pipe) \in Nat /\ DOMAIN pipe = 1 .. Len(pipe) /\ pipe \in Seq(Records)
  BY LenProperties DEF PipeTyped

LEMMA AppendedIs ==
    ASSUME PipeTyped, NEW r \in Records, Emit(r)
    PROVE  /\ Len(pipe') = Len(pipe) + 1 /\ DOMAIN pipe' = 1 .. Len(pipe) + 1
           /\ \A i \in 1 .. Len(pipe) : pipe'[i] = pipe[i]
           /\ pipe'[Len(pipe) + 1] = r
  <1>1. pipe' = Append(pipe, r) /\ pipe \in Seq(Records)
    BY DEF Emit, PipeTyped
  <1>2. /\ pipe' \in Seq(Records) /\ Len(pipe') = Len(pipe) + 1
        /\ \A i \in 1 .. Len(pipe) : pipe'[i] = pipe[i]
        /\ pipe'[Len(pipe) + 1] = r
    BY <1>1, AppendProperties
  <1> QED BY <1>2, LenProperties

LEMMA CarriesOn ==
    ASSUME NEW c, Carries(c), approved \subseteq approved'
    PROVE  c.node \in Late => c.st.sol \in approved'
  BY DEF Carries

\* A new record leaves what the earlier ones show, when the reader rests.
LEMMA EmitPassed ==
    ASSUME PipeTyped, SentPassed, SentAfterPass, approved \subseteq approved',
           UNCHANGED <<log, critique, passed>>, NEW r \in Records, Emit(r),
           r.kind = "final" => r.text \in approved',
           r.kind \in {"input", "paused"} => (r.node \in Late => r.st.sol \in approved'),
           r.kind = "approved" => PassedBefore(Len(pipe) + 1)
    PROVE  SentPassed' /\ SentAfterPass'
  <1>1. /\ Len(pipe) \in Nat /\ DOMAIN pipe = 1 .. Len(pipe)
        /\ Len(pipe') = Len(pipe) + 1 /\ DOMAIN pipe' = 1 .. Len(pipe) + 1
        /\ \A i \in 1 .. Len(pipe) : pipe'[i] = pipe[i]
        /\ pipe'[Len(pipe) + 1] = r
    BY PipeIs, AppendedIs
  <1>2. SentPassed'
    <2> SUFFICES ASSUME NEW i \in DOMAIN pipe'
                 PROVE  /\ pipe'[i].kind = "final" => pipe'[i].text \in approved'
                        /\ pipe'[i].kind \in {"input", "paused"}
                             => (pipe'[i].node \in Late => pipe'[i].st.sol \in approved')
      BY DEF SentPassed, Carries
    <2>1. CASE i = Len(pipe) + 1
      BY <1>1, <2>1
    <2>2. CASE i \in 1 .. Len(pipe)
      BY <1>1, <2>2 DEF SentPassed, Carries
    <2> QED BY <1>1, <2>1, <2>2
  <1>3. ASSUME NEW i \in 1 .. Len(pipe) + 1, PassedBefore(i)
        PROVE  PassedBefore(i)'
    <2>1. \A a, b \in Int : 1 <= a /\ b <= Len(pipe) /\ NoAnswer(a, b) => NoAnswer(a, b)'
      BY <1>1 DEF NoAnswer
    <2>2. CASE NoAnswer(1, i - 1) /\ ReadPass
      <3>1. NoAnswer(1, i - 1)'
        BY <1>1, <2>1, <2>2
      <3>2. ReadPass'
        BY <2>2 DEF ReadPass, Kinds
      <3> QED BY <3>1, <3>2 DEF PassedBefore
    <2>3. CASE \E k \in 1 .. i - 1 : /\ pipe[k].kind = "critic" /\ pipe[k].text \in approved
                                     /\ NoAnswer(k + 1, i - 1)
      <3>1. PICK k \in 1 .. i - 1 : /\ pipe[k].kind = "critic" /\ pipe[k].text \in approved
                                    /\ NoAnswer(k + 1, i - 1)
        BY <2>3
      <3>2. NoAnswer(k + 1, i - 1)'
        BY <1>1, <2>1, <3>1
      <3>3. pipe'[k].kind = "critic" /\ pipe'[k].text \in approved'
        BY <1>1, <3>1
      <3> QED BY <3>1, <3>2, <3>3 DEF PassedBefore
    <2> QED BY <1>3, <2>2, <2>3 DEF PassedBefore
  <1>4. SentAfterPass'
    <2> SUFFICES ASSUME NEW i \in DOMAIN pipe', pipe'[i].kind = "approved"
                 PROVE  PassedBefore(i)'
      BY DEF SentAfterPass
    <2>1. CASE i = Len(pipe) + 1
      BY <1>1, <1>3, <2>1
    <2>2. CASE i \in 1 .. Len(pipe)
      BY <1>1, <1>3, <2>2 DEF SentAfterPass
    <2> QED BY <1>1, <2>1, <2>2
  <1> QED BY <1>2, <1>4

\* Nothing is sent and nothing is read.
LEMMA QuietPassed ==
    ASSUME PipeTyped, SentPassed, SentAfterPass, UNCHANGED <<pipe, log, critique, passed, approved>>
    PROVE  /\ SentPassed' /\ SentAfterPass'
           /\ PassedBefore(Len(pipe) + 1) => PassedBefore(Len(pipe) + 1)'
  BY DEF SentPassed, SentAfterPass, PassedBefore, NoAnswer, ReadPass, Carries, Kinds
-----------------------------------------------------------------------------
(* The runner's steps *)

LEMMA OwnPassed ==
    ASSUME ServerPassed, LogPassed, RunnersOwn, approved \subseteq approved',
           finalInput' \in approved' \cup {0}
    PROVE  ServerPassed' /\ LogPassed' /\ UNCHANGED <<log, critique, passed>>
  BY DEF ServerPassed, LogPassed, RunnersOwn, trace, reader, history, Carries, Kinds

\* A step that sends one record and is not past the critic's answer.
LEMMA SendPassed ==
    ASSUME Typed, Passing, RunnersOwn, UNCHANGED <<approved, finalInput>>,
           NEW r \in Records, Emit(r),
           r.kind = "final" => r.text \in approved,
           r.kind \in {"input", "paused"} => (r.node \in Late => r.st.sol \in approved),
           r.kind = "approved" => PassedBefore(Len(pipe) + 1),
           pc' \notin {"approve", "after"}, StepPassed'
    PROVE  Passing'
  <1>1. ServerPassed' /\ LogPassed' /\ UNCHANGED <<log, critique, passed>>
    BY OwnPassed DEF Passing, ServerPassed
  <1>2. SentPassed' /\ SentAfterPass'
    BY <1>1, EmitPassed DEF Typed, Passing
  <1> QED BY <1>1, <1>2 DEF Passing, NextAfterPass

\* A step that sends nothing; the next record may be an approval if it was before.
LEMMA SilentPassed ==
    ASSUME Typed, Passing, RunnersOwn, UNCHANGED <<approved, pipe>>,
           finalInput' \in approved \cup {0}, StepPassed',
           pc' = "approve" \/ (pc' = "after" /\ st'.report = "pass")
             => pc = "approve" \/ (pc = "after" /\ st.report = "pass")
    PROVE  Passing'
  <1>1. ServerPassed' /\ LogPassed' /\ UNCHANGED <<log, critique, passed>>
    BY OwnPassed DEF Passing, ServerPassed
  <1>2. /\ SentPassed' /\ SentAfterPass'
        /\ PassedBefore(Len(pipe) + 1) => PassedBefore(Len(pipe) + 1)'
    BY <1>1, QuietPassed DEF Typed, Passing
  <1>3. NextAfterPass'
    BY <1>2 DEF Passing, NextAfterPass
  <1> QED BY <1>1, <1>2, <1>3 DEF Passing

LEMMA PausingPassed ==
    ASSUME Typed, Passing, RunnersOwn, UNCHANGED <<approved, finalInput>>,
           NEW n \in Nodes, NEW s \in States, PausesAt(n, s), n \in Late => s.sol \in approved
    PROVE  Passing'
  <1>1. [kind |-> "paused", node |-> n, st |-> s] \in Records
    BY DEF Records
  <1>2. pc' = "exited" /\ Emit([kind |-> "paused", node |-> n, st |-> s])
    BY DEF PausesAt
  <1>3. StepPassed'
    BY <1>2 DEF StepPassed, Working
  <1> QED BY <1>1, <1>2, <1>3, SendPassed

LEMMA BeginStepPassed ==
    ASSUME Typed, Passing, BeginStep
    PROVE  Passing'
  <1>1. RunnersOwn /\ UNCHANGED <<approved, finalInput, node, st>>
    BY DEF BeginStep, NoOtherActor, RunnersOwn, texts
  <1>2. /\ node \in Nodes /\ st \in States /\ visits + 1 \in Nat /\ verify \in BOOLEAN
        /\ node \in Late => st.sol \in approved
    BY DEF BeginStep, Typed, StepTyped, Passing, StepPassed, Working
  <1>3. CASE request
    <2>1. PausesAt(node, IF node = "author" THEN st ELSE StepVisit(st, node, visits + 1, verify))
      BY <1>3 DEF BeginStep
    <2>2. /\ (IF node = "author" THEN st ELSE StepVisit(st, node, visits + 1, verify)) \in States
          /\ (IF node = "author" THEN st ELSE StepVisit(st, node, visits + 1, verify)).sol = st.sol
      BY <1>2, StepVisitIs
    <2> QED BY <1>1, <1>2, <2>1, <2>2, PausingPassed
  <1>4. CASE ~request
    <2>1. [kind |-> "step", node |-> node, visit |-> visits + 1, verify |-> verify] \in Records
      BY <1>2 DEF Records
    <2>2. /\ Emit([kind |-> "step", node |-> node, visit |-> visits + 1, verify |-> verify])
          /\ pc' \in {"work", "prepare", "final_input"}
          /\ pc' = "final_input" => node = "latex"
      BY <1>4 DEF BeginStep
    <2>3. StepPassed'
      BY <1>1, <1>2, <2>2 DEF StepPassed, Late
    <2> QED BY <1>1, <2>1, <2>2, <2>3, SendPassed
  <1> QED BY <1>3, <1>4

LEMMA AuthorSubmitsPassed ==
    ASSUME Typed, Reviewed, Passing, AuthorSubmits
    PROVE  Passing'
  <1>1. RunnersOwn /\ UNCHANGED <<approved, finalInput>>
    BY DEF AuthorSubmits, NoOtherActor, RunnersOwn
  <1>2. Emit([kind |-> "author", text |-> st'.sol])
    BY DEF AuthorSubmits
  <1>3. [kind |-> "author", text |-> st'.sol] \in Records
    <2>1. Typed'
      BY AuthorSubmitsTyped
    <2> QED BY <2>1 DEF Typed, StepTyped, States, Texts, Records
  <1>4. pc' = "top" /\ node' = "critic"
    BY DEF AuthorSubmits, Reviewed, GoTo
  <1>5. StepPassed'
    BY <1>4 DEF StepPassed, Late
  <1> QED BY <1>1, <1>2, <1>3, <1>4, <1>5, SendPassed

LEMMA AuthorPausesPassed ==
    ASSUME Typed, Passing, AuthorPauses
    PROVE  Passing'
  <1>1. RunnersOwn /\ UNCHANGED <<approved, finalInput>>
    BY DEF AuthorPauses, NoOtherActor, RunnersOwn, texts
  <1>2. PausesAt("author", st) /\ st \in States
    BY DEF AuthorPauses, Typed, StepTyped
  <1> QED BY <1>1, <1>2, PausingPassed DEF Nodes, Late

LEMMA RefusePassed ==
    ASSUME Typed, Passing, RunnersOwn, UNCHANGED <<approved, finalInput>>, Refuse
    PROVE  Passing'
  <1>1. [(IF previous = "author" THEN before ELSE st) EXCEPT !.note = TRUE] \in States
    BY DEF Typed, StepTyped, States
  <1> QED BY <1>1, PausingPassed DEF Refuse, Nodes, Late

LEMMA PreparePassed ==
    ASSUME Typed, Passing, InFile \notin approved, Prepare
    PROVE  Passing'
  <1>1. RunnersOwn /\ UNCHANGED <<approved, finalInput, node>>
    BY DEF Prepare, NoOtherActor, RunnersOwn, texts, StaysAt
  <1>2. CASE Candidate = 0
    BY <1>1, <1>2, RefusePassed DEF Prepare
  <1>3. CASE Candidate # 0
    <2>1. Emit([kind |-> "handoff", text |-> Candidate]) /\ pc' = "input"
          /\ st' = [st EXCEPT !.sol = Candidate, !.captured = Candidate]
      BY <1>3 DEF Prepare
    <2>2. [kind |-> "handoff", text |-> Candidate] \in Records
      BY Numbers DEF Candidate, Typed, StepTyped, FilesTyped, States, Texts, Records
    <2>3. node \in Late => st.sol \in approved /\ Candidate = st.sol
      BY DEF Prepare, Passing, StepPassed, Working, Candidate
    <2>4. StepPassed'
      <3>1. st'.sol = Candidate
        BY <2>1 DEF Typed, StepTyped, States
      <3> QED BY <1>1, <2>1, <2>3, <3>1 DEF StepPassed
    <2> QED BY <1>1, <2>1, <2>2, <2>4, SendPassed
  <1> QED BY <1>2, <1>3

LEMMA ReportInputPassed ==
    ASSUME Typed, Passing, ReportInput
    PROVE  Passing'
  <1>1. RunnersOwn /\ UNCHANGED <<approved, finalInput, node, st>>
    BY DEF ReportInput, NoOtherActor, RunnersOwn, texts, StaysAt
  <1>2. /\ StepVisit(st, node, visits, verify) \in States
        /\ StepVisit(st, node, visits, verify).sol = st.sol
    BY StepVisitIs DEF Typed, StepTyped
  <1>3. [kind |-> "input", node |-> node, st |-> StepVisit(st, node, visits, verify)] \in Records
    BY <1>2 DEF Typed, StepTyped, Records
  <1>4. node \in Late => st.sol \in approved
    BY DEF ReportInput, Passing, StepPassed, Working
  <1>5. /\ Emit([kind |-> "input", node |-> node, st |-> StepVisit(st, node, visits, verify)])
        /\ pc' \in {"write", "model"}
    BY DEF ReportInput
  <1>6. StepPassed'
    BY <1>1, <1>4, <1>5 DEF StepPassed
  <1> QED BY <1>1, <1>2, <1>3, <1>4, <1>5, <1>6, SendPassed

LEMMA SaveCandidatePassed ==
    ASSUME Typed, Passing, SaveCandidate
    PROVE  Passing'
  <1>1. RunnersOwn /\ UNCHANGED <<approved, finalInput, node, st, pipe>>
    BY DEF SaveCandidate, NoOtherActor, RunnersOwn, texts, StaysAt
  <1>2. StepPassed' /\ pc' = "model"
    BY <1>1 DEF SaveCandidate, Passing, StepPassed, Working
  <1> QED BY <1>1, <1>2, SilentPassed DEF Passing, ServerPassed

\* A pass with no edit is what makes a text a passed one.
LEMMA CriticAnswersPassed ==
    ASSUME Typed, Passing, NEW outcome \in {"pass", "fixed", "reject"},
           NEW t \in {st.sol} \cup ({made + 1} \cap Proofs), CriticAnswers(outcome, t),
           approved' = IF outcome = "pass" THEN approved \cup {t} ELSE approved
    PROVE  Passing'
  <1> DEFINE r == [kind |-> "critic", verdict |-> IF outcome = "reject" THEN "reject" ELSE "pass",
                   edited |-> t # st.sol, text |-> t]
  <1>1. RunnersOwn /\ UNCHANGED <<finalInput, node>> /\ approved \subseteq approved'
    BY DEF CriticAnswers, NoOtherActor, RunnersOwn, StaysAt
  <1>2. Emit(r) /\ pc' = "after" /\ node = "critic"
    BY DEF CriticAnswers
  <1>3. r \in Records
    BY Numbers DEF Typed, StepTyped, States, Texts, Records
  <1>4. st'.sol = t /\ st'.report = outcome
    BY DEF CriticAnswers, Typed, StepTyped, States
  <1>5. StepPassed'
    BY <1>1, <1>2, <1>4 DEF StepPassed, Late
  <1>6. ServerPassed' /\ LogPassed' /\ UNCHANGED <<log, critique, passed>>
    BY <1>1, OwnPassed DEF Passing, ServerPassed
  <1>7. r.kind = "critic" /\ r.text = t
    OBVIOUS
  <1> HIDE DEF r
  <1>8. SentPassed' /\ SentAfterPass'
    BY <1>1, <1>2, <1>3, <1>6, <1>7, EmitPassed DEF Typed, Passing
  <1>9. NextAfterPass'
    <2> SUFFICES ASSUME outcome = "pass" PROVE PassedBefore(Len(pipe) + 1)'
      BY <1>2, <1>4 DEF NextAfterPass
    <2>1. Len(pipe') = Len(pipe) + 1 /\ pipe'[Len(pipe) + 1] = r /\ Len(pipe) \in Nat
      BY <1>2, <1>3, AppendedIs, PipeIs DEF Typed
    <2>2. /\ pipe'[Len(pipe')].kind = "critic" /\ pipe'[Len(pipe')].text \in approved'
          /\ Len(pipe') \in 1 .. Len(pipe') + 1 - 1
      BY <1>7, <2>1
    <2>3. \A k \in Len(pipe') + 1 .. Len(pipe') + 1 - 1 : FALSE
      BY <2>1
    <2> QED BY <2>2, <2>3 DEF PassedBefore, NoAnswer
  <1> QED BY <1>5, <1>6, <1>8, <1>9 DEF Passing

LEMMA CriticPassed ==
    ASSUME Typed, Passing, CriticPasses \/ CriticFixes \/ CriticRejects
    PROVE  Passing'
  <1>1. CASE CriticPasses
    BY <1>1, CriticAnswersPassed DEF CriticPasses
  <1>2. CASE CriticFixes
    <2>1. made + 1 \in Proofs
      BY <1>2, Numbers DEF CriticFixes, Typed, TextsTyped
    <2> QED BY <1>2, <2>1, CriticAnswersPassed DEF CriticFixes
  <1>3. CASE CriticRejects
    BY <1>3, CriticAnswersPassed DEF CriticRejects
  <1> QED BY <1>1, <1>2, <1>3

LEMMA AfterCriticPassed ==
    ASSUME Typed, Passing, AfterCritic
    PROVE  Passing'
  <1>1. RunnersOwn /\ UNCHANGED <<approved, finalInput, st, pipe>>
    BY DEF AfterCritic, NoOtherActor, RunnersOwn, texts
  <1>2. \/ st.report = "pass" /\ pc' = "approve" /\ node' = node
        \/ pc' = "top" /\ node' \in {node, "author"}
        \/ pc' = "revise" /\ node' = node
    BY DEF AfterCritic, StaysAt, GoTo, Typed, HasText
  <1>3. StepPassed'
    BY <1>1, <1>2 DEF AfterCritic, Passing, StepPassed, Working, Typed, HasText, Late
  <1> QED BY <1>1, <1>2, <1>3, SilentPassed DEF AfterCritic, Passing, ServerPassed

LEMMA ApprovePassed ==
    ASSUME Typed, Passing, Approve
    PROVE  Passing'
  <1>1. RunnersOwn /\ UNCHANGED <<approved, finalInput, st>>
    BY DEF Approve, NoOtherActor, RunnersOwn, texts
  <1>2. Emit([kind |-> "approved"]) /\ [kind |-> "approved"] \in Records /\ pc' = "top"
    BY DEF Approve, GoTo, Records
  <1>3. PassedBefore(Len(pipe) + 1) /\ StepPassed'
    BY <1>1 DEF Approve, GoTo, Passing, NextAfterPass, StepPassed
  <1> QED BY <1>1, <1>2, <1>3, SendPassed

LEMMA RevisePassed ==
    ASSUME Typed, Passing, Revise
    PROVE  Passing'
  <1>1. RunnersOwn /\ UNCHANGED <<approved, finalInput>>
    BY DEF Revise, NoOtherActor, RunnersOwn, texts
  <1>2. Emit([kind |-> "failure"]) /\ [kind |-> "failure"] \in Records /\ pc' = "exited"
    BY DEF Revise, Records
  <1>3. StepPassed'
    BY <1>2 DEF StepPassed, Working
  <1> QED BY <1>1, <1>2, <1>3, SendPassed

LEMMA ConventionAnswersPassed ==
    ASSUME Typed, Passing, ConventionAnswers
    PROVE  Passing'
  <1>1. RunnersOwn /\ UNCHANGED <<approved, finalInput, st>>
    BY DEF ConventionAnswers, NoOtherActor, RunnersOwn, texts
  <1>2. Emit([kind |-> "convention"]) /\ [kind |-> "convention"] \in Records
    BY DEF ConventionAnswers, Records
  <1>3. pc' \in {"top", "publish"} /\ node' \in Late
    BY DEF ConventionAnswers, Finish, StaysAt, Late
  <1>4. StepPassed'
    BY <1>1, <1>3 DEF ConventionAnswers, Passing, StepPassed, Working, Late
  <1> QED BY <1>1, <1>2, <1>3, <1>4, SendPassed

LEMMA SaveFinalInputPassed ==
    ASSUME Typed, Passing, SaveFinalInput
    PROVE  Passing'
  <1>1. RunnersOwn /\ UNCHANGED <<approved, node, st, pipe>> /\ pc' = "input"
    BY DEF SaveFinalInput, NoOtherActor, RunnersOwn, texts, StaysAt
  <1>2. finalInput' \in approved /\ st.sol \in approved
    BY DEF SaveFinalInput, Passing, StepPassed, Working
  <1>3. StepPassed'
    BY <1>1, <1>2 DEF StepPassed
  <1> QED BY <1>1, <1>2, <1>3, SilentPassed

LEMMA PublishPassed ==
    ASSUME Typed, Passing, Publish
    PROVE  Passing'
  <1>1. RunnersOwn /\ UNCHANGED <<approved, finalInput>>
    BY DEF Publish, NoOtherActor, RunnersOwn, texts
  <1>2. st.sol \in approved
    BY DEF Publish, Passing, StepPassed, Working, Late
  <1>3. Emit([kind |-> "final", text |-> st.sol]) /\ pc' = "exited"
    BY DEF Publish
  <1>4. [kind |-> "final", text |-> st.sol] \in Records
    BY DEF Typed, StepTyped, States, Texts, Records
  <1>5. StepPassed'
    BY <1>3 DEF StepPassed, Working
  <1> QED BY <1>1, <1>2, <1>3, <1>4, <1>5, SendPassed

LEMMA StepFailsPassed ==
    ASSUME Typed, Passing, StepFails
    PROVE  Passing'
  <1>1. RunnersOwn /\ UNCHANGED <<approved, finalInput>>
    BY DEF StepFails, NoOtherActor, RunnersOwn, texts
  <1>2. /\ StepVisit(st, node, visits, verify) \in States
        /\ StepVisit(st, node, visits, verify).sol = st.sol
    BY StepVisitIs DEF Typed, StepTyped
  <1>3. node \in Late => st.sol \in approved
    BY DEF StepFails, Passing, StepPassed, Working
  <1> QED BY <1>1, <1>2, <1>3, PausingPassed DEF StepFails, Typed, StepTyped

LEMMA RunnerPassed ==
    ASSUME Typed, Reviewed, InFile \notin approved, Passing, Runner
    PROVE  Passing'
  <1>1. ~Capture
    BY DEF Capture, Passing, StepPassed
  <1> QED BY <1>1, BeginStepPassed, AuthorSubmitsPassed, AuthorPausesPassed, PreparePassed,
             ReportInputPassed, SaveCandidatePassed, CriticPassed, AfterCriticPassed, ApprovePassed,
             RevisePassed, ConventionAnswersPassed, SaveFinalInputPassed, PublishPassed,
             StepFailsPassed DEF Runner
-----------------------------------------------------------------------------
(* The server's steps *)

\* Reading a record moves the answers before the others by one, or into memory.
LEMMA ReadShifts ==
    ASSUME Typed, Read, NEW i \in 1 .. Len(pipe), PassedBefore(i + 1)
    PROVE  PassedBefore(i)'
  <1>1. /\ Len(pipe) \in Nat /\ Len(pipe) >= 1 /\ Head(pipe) = pipe[1] /\ pipe[1] \in Records
        /\ pipe' = Tail(pipe) /\ Len(Tail(pipe)) = Len(pipe) - 1
        /\ \A k \in 1 .. Len(pipe) - 1 : pipe'[k] = pipe[k + 1]
    <2>1. pipe # <<>> /\ pipe' = Tail(pipe) /\ PipeTyped
      BY Zenon DEF Read, Typed
    <2>2. /\ Len(pipe) \in Nat /\ Len(pipe) >= 1 /\ Head(pipe) = pipe[1] /\ Head(pipe) \in Records
          /\ Len(Tail(pipe)) = Len(pipe) - 1
          /\ \A k \in 1 .. Len(Tail(pipe)) : Tail(pipe)[k] = pipe[k + 1]
      BY <2>1, HeadIs
    <2> QED BY <2>1, <2>2
  <1>2. approved' = approved
    BY DEF Read, RunnerRests, texts
  <1>3. /\ log' = Logged(pipe[1])
        /\ critique' = IF pipe[1].kind = "critic"
                       THEN [verdict |-> pipe[1].verdict, text |-> pipe[1].text] ELSE critique
        /\ passed' = IF pipe[1].kind # "critic" THEN passed
                     ELSE IF pipe[1].verdict = "pass" THEN pipe[1].text ELSE 0
    BY <1>1, Zenon DEF Read
  <1>4. /\ Len(log) \in Nat /\ DOMAIN log = 1 .. Len(log) /\ log \in Seq(Entries)
        /\ pipe[1] \in Entries
    BY <1>1, LenProperties DEF Typed, ServerTyped, Logs, Entries
  <1>5. pipe[1].kind # "author" => DOMAIN log \subseteq DOMAIN log'
                                   /\ \A j \in DOMAIN log : log'[j] = log[j]
    <2>1. CASE log' = log
      BY <2>1
    <2>2. CASE log' = Append(log, pipe[1])
      <3>1. /\ log' \in Seq(Entries) /\ Len(log') = Len(log) + 1
            /\ \A j \in 1 .. Len(log) : log'[j] = log[j]
        BY <1>4, <2>2, AppendProperties
      <3>2. DOMAIN log' = 1 .. Len(log) + 1
        BY <3>1, LenProperties
      <3> QED BY <1>4, <3>1, <3>2
    <2> QED BY <1>3, <2>1, <2>2, Zenon DEF Logged
  <1>6. CASE NoAnswer(1, i) /\ ReadPass
    <2>1. pipe[1].kind \notin {"critic", "author"}
      BY <1>6 DEF NoAnswer
    <2>2. ReadPass'
      BY <1>2, <1>3, <1>5, <1>6, <2>1 DEF ReadPass, Kinds
    <2>3. NoAnswer(1, i - 1)'
      BY <1>1, <1>6 DEF NoAnswer
    <2> QED BY <2>2, <2>3 DEF PassedBefore
  <1>7. ASSUME NEW k \in 1 .. i, pipe[k].kind = "critic", pipe[k].text \in approved, NoAnswer(k + 1, i)
        PROVE  PassedBefore(i)'
    <2>1. CASE k = 1
      <3>1. pipe[1].kind = "critic" /\ pipe[1].text \in approved
        BY <1>7, <2>1
      <3>2. log' = Append(log, pipe[1])
        BY <1>3, <3>1 DEF Logged
      <3>3. /\ Len(log') = Len(log) + 1 /\ log'[Len(log) + 1] = pipe[1]
            /\ DOMAIN log' = 1 .. Len(log) + 1
        <4>1. log' \in Seq(Entries) /\ Len(log') = Len(log) + 1 /\ log'[Len(log) + 1] = pipe[1]
          BY <1>4, <3>2, AppendProperties
        <4> QED BY <4>1, LenProperties
      <3>4. Kinds({"critic"})' # {}
        BY <1>4, <3>1, <3>3 DEF Kinds
      <3>5. ReadPass'
        BY <1>2, <1>3, <3>1, <3>4 DEF ReadPass
      <3>6. NoAnswer(1, i - 1)'
        BY <1>1, <1>7, <2>1 DEF NoAnswer
      <3> QED BY <3>5, <3>6 DEF PassedBefore
    <2>2. CASE k # 1
      <3>1. k - 1 \in 1 .. i - 1 /\ pipe'[k - 1] = pipe[k]
        BY <1>1, <2>2
      <3>2. NoAnswer((k - 1) + 1, i - 1)'
        BY <1>1, <1>7, <2>2 DEF NoAnswer
      <3>3. pipe'[k - 1].kind = "critic" /\ pipe'[k - 1].text \in approved'
        BY <1>2, <1>7, <3>1
      <3> QED BY <3>1, <3>2, <3>3 DEF PassedBefore
    <2> QED BY <2>1, <2>2
  <1> QED BY <1>6, <1>7 DEF PassedBefore

\* An entry that is no answer leaves what the transcript shows.
LEMMA AppendedLog ==
    ASSUME Logs, LogPassed, NEW e \in Entries, log' = Append(log, e), e.kind # "critic",
           UNCHANGED <<critique, approved>>,
           e.kind = "approved" => Kinds({"critic"}) # {} /\ critique.text \in approved
    PROVE  LogPassed'
  <1>1. Len(log) \in Nat /\ DOMAIN log = 1 .. Len(log)
    BY LenProperties DEF Logs
  <1>2. /\ Len(log') = Len(log) + 1 /\ DOMAIN log' = 1 .. Len(log) + 1
        /\ \A j \in 1 .. Len(log) : log'[j] = log[j]
        /\ log'[Len(log) + 1] = e
    <2>1. /\ log' \in Seq(Entries) /\ Len(log') = Len(log) + 1 /\ log'[Len(log) + 1] = e
          /\ \A j \in 1 .. Len(log) : log'[j] = log[j]
      BY AppendProperties DEF Logs
    <2> QED BY <2>1, LenProperties
  <1>3. \A ks : Kinds(ks) \subseteq Kinds(ks)' /\ Kinds(ks)' \subseteq Kinds(ks) \cup {Len(log) + 1}
    BY <1>1, <1>2 DEF Kinds
  <1>4. Kinds({"critic"})' = Kinds({"critic"})
    BY <1>1, <1>2 DEF Kinds
  <1>5. ASSUME NEW i \in Kinds({"critic"})', \A j \in Kinds({"critic"})' : j <= i
        PROVE  log'[i].text = critique'.text
    <2>1. i \in 1 .. Len(log)
      BY <1>1, <1>4 DEF Kinds
    <2> QED BY <1>2, <1>4, <1>5, <2>1 DEF LogPassed
  <1>6. ASSUME NEW i \in Kinds({"approved"})', \A j \in Kinds(Decisive)' : j <= i
        PROVE  Kinds({"critic"})' # {} /\ critique'.text \in approved'
    <2>1. CASE i = Len(log) + 1
      <3>1. e.kind = "approved"
        BY <1>2, <2>1 DEF Kinds
      <3> QED BY <1>4, <3>1
    <2>2. CASE i # Len(log) + 1
      <3>1. i \in Kinds({"approved"})
        BY <1>3, <2>2
      <3> QED BY <1>3, <1>4, <1>6, <3>1 DEF LogPassed
    <2> QED BY <2>1, <2>2
  <1> QED BY <1>5, <1>6 DEF LogPassed

LEMMA ReadLog ==
    ASSUME Typed, Passing, Read
    PROVE  LogPassed'
  <1> DEFINE r == pipe[1]
  <1>1. /\ r \in Records /\ r \in Entries /\ log' = Logged(r) /\ Logs /\ 1 \in DOMAIN pipe
        /\ Len(log) \in Nat /\ DOMAIN log = 1 .. Len(log) /\ approved' = approved
        /\ critique' = IF r.kind = "critic" THEN [verdict |-> r.verdict, text |-> r.text] ELSE critique
    <2>1. Head(pipe) = r /\ r \in Records /\ 1 \in DOMAIN pipe
      BY HeadIs, PipeIs DEF Read, Typed
    <2>2. Logs /\ Len(log) \in Nat /\ DOMAIN log = 1 .. Len(log)
      BY LenProperties DEF Typed, ServerTyped, Logs
    <2>3. approved' = approved
      BY DEF Read, RunnerRests, texts
    <2> HIDE DEF r
    <2>4. /\ log' = Logged(r)
          /\ critique' = IF r.kind = "critic" THEN [verdict |-> r.verdict, text |-> r.text] ELSE critique
      BY <2>1, Zenon DEF Read
    <2> QED BY <2>1, <2>2, <2>3, <2>4 DEF Entries
  <1>2. r.kind = "approved" => Kinds({"critic"}) # {} /\ critique.text \in approved
    BY <1>1 DEF Passing, SentAfterPass, PassedBefore, ReadPass
  <1> HIDE DEF r
  <1>3. CASE r.kind = "author"
    <2>1. log' = <<r>>
      BY <1>1, <1>3 DEF Logged
    <2> QED BY <1>3, <2>1 DEF LogPassed, Kinds
  <1>4. CASE r.kind = "critic"
    <2>1. log' = Append(log, r)
      BY <1>1, <1>4 DEF Logged
    <2>2. DOMAIN log' = 1 .. Len(log) + 1 /\ log'[Len(log) + 1] = r
      <3>1. log' \in Seq(Entries) /\ Len(log') = Len(log) + 1 /\ log'[Len(log) + 1] = r
        BY <1>1, <2>1, AppendProperties DEF Logs
      <3> QED BY <3>1, LenProperties
    <2>3. critique'.text = r.text /\ Len(log) + 1 \in Kinds({"critic"})'
          /\ Len(log) + 1 \in Kinds(Decisive)'
      BY <1>1, <1>4, <2>2 DEF Kinds, Decisive
    <2>4. ASSUME NEW i \in DOMAIN log', Len(log) + 1 <= i
          PROVE  i = Len(log) + 1
      BY <1>1, <2>2, <2>4
    <2>5. ASSUME NEW i \in Kinds({"critic"})', \A j \in Kinds({"critic"})' : j <= i
          PROVE  log'[i].text = critique'.text
      BY <2>2, <2>3, <2>4, <2>5 DEF Kinds
    <2>6. ASSUME NEW i \in Kinds({"approved"})', \A j \in Kinds(Decisive)' : j <= i
          PROVE  FALSE
      <3>1. i = Len(log) + 1
        BY <2>3, <2>4, <2>6 DEF Kinds
      <3> QED BY <1>4, <2>2, <2>6, <3>1 DEF Kinds
    <2> QED BY <2>5, <2>6 DEF LogPassed
  <1>5. CASE r.kind \in {"step", "handoff", "approved", "convention"}
    <2>1. log' = Append(log, r)
      BY <1>1, <1>5 DEF Logged
    <2>2. UNCHANGED <<critique, approved>> /\ r.kind # "critic"
      BY <1>1, <1>5
    <2>3. LogPassed /\ Logs /\ r \in Entries
      BY <1>1 DEF Passing
    <2>4. r.kind = "approved" => Kinds({"critic"}) # {} /\ critique.text \in approved
      BY <1>2
    <2> HIDE DEF r
    <2> QED BY <2>1, <2>2, <2>3, <2>4, AppendedLog, Zenon
  <1>6. CASE r.kind \in {"final", "input", "paused", "failure"}
    <2>1. UNCHANGED <<log, critique, approved>>
      BY <1>1, <1>6 DEF Logged
    <2>2. LogPassed
      BY DEF Passing
    <2>3. /\ Kinds({"critic"})' = Kinds({"critic"}) /\ Kinds({"approved"})' = Kinds({"approved"})
          /\ Kinds(Decisive)' = Kinds(Decisive)
      BY <2>1 DEF Kinds
    <2> QED BY <2>1, <2>2, <2>3, Zenon DEF LogPassed
  <1> QED BY <1>1, <1>3, <1>4, <1>5, <1>6 DEF Records

LEMMA ReadPassed ==
    ASSUME Typed, Passing, Read
    PROVE  Passing'
  <1> DEFINE r == pipe[1]
  <1>1. /\ Len(pipe) \in Nat /\ Len(pipe) >= 1 /\ Head(pipe) = r /\ r \in Records
        /\ Len(pipe') = Len(pipe) - 1 /\ DOMAIN pipe' = 1 .. Len(pipe) - 1
        /\ \A k \in 1 .. Len(pipe) - 1 : pipe'[k] = pipe[k + 1]
        /\ DOMAIN pipe = 1 .. Len(pipe)
    <2>1. pipe # <<>> /\ pipe' = Tail(pipe) /\ PipeTyped
      BY Zenon DEF Read, Typed
    <2>2. /\ Len(pipe) \in Nat /\ Len(pipe) >= 1 /\ Head(pipe) = r /\ Head(pipe) \in Records
          /\ Len(Tail(pipe)) = Len(pipe) - 1 /\ Tail(pipe) \in Seq(Records)
          /\ \A k \in 1 .. Len(Tail(pipe)) : Tail(pipe)[k] = pipe[k + 1]
      BY <2>1, HeadIs
    <2> QED BY <2>1, <2>2, LenProperties, PipeIs
  <1>2. /\ UNCHANGED <<pc, node, st, approved>>
        /\ UNCHANGED <<stages, request>>
    BY DEF Read, RunnerRests, runner, texts
  <1>3. /\ r.kind = "final" => r.text \in approved
        /\ r.kind \in {"input", "paused"} => Carries(r)
        /\ r.kind = "approved" => PassedBefore(1)
    BY <1>1 DEF Passing, SentPassed, SentAfterPass
  <1>4. r.kind = "approved" => passed \in approved \cup {0} /\ critique.text \in approved
    BY <1>3 DEF PassedBefore, ReadPass
  <1> HIDE DEF r
  <1>5. ServerPassed'
    <2>1. /\ stepInput' = IF r.kind = "input" THEN [node |-> r.node, st |-> r.st] ELSE stepInput
          /\ finalInput' = IF r.kind = "approved" /\ passed # 0 THEN passed ELSE finalInput
          /\ accepted' = IF r.kind = "approved" /\ accepted = 0 THEN critique.text ELSE accepted
          /\ result' = IF r.kind = "final" THEN r.text ELSE result
          /\ ckpt' = IF r.kind = "paused" THEN [status |-> "pausing", node |-> r.node, st |-> r.st]
                     ELSE ckpt
      BY <1>1, Zenon DEF Read
    <2>2. {result', finalInput', accepted'} \subseteq approved \cup {0}
      BY <1>3, <1>4, <2>1 DEF Passing, ServerPassed
    <2>3. Carries(stepInput)' /\ Carries(ckpt)'
      BY <1>2, <1>3, <2>1 DEF Passing, ServerPassed, Carries
    <2> QED BY <1>2, <2>2, <2>3 DEF ServerPassed
  <1>6. StepPassed'
    BY <1>2 DEF Passing, StepPassed, Working
  <1>7. SentPassed'
    <2> SUFFICES ASSUME NEW i \in DOMAIN pipe'
                 PROVE  /\ pipe'[i].kind = "final" => pipe'[i].text \in approved'
                        /\ pipe'[i].kind \in {"input", "paused"} => Carries(pipe[i])'
      BY DEF SentPassed
    <2>1. i + 1 \in DOMAIN pipe /\ pipe'[i] = pipe[i + 1]
      BY <1>1
    <2> QED BY <1>2, <2>1 DEF Passing, SentPassed, Carries
  <1>8. SentAfterPass'
    <2> SUFFICES ASSUME NEW i \in DOMAIN pipe', pipe'[i].kind = "approved"
                 PROVE  PassedBefore(i)'
      BY DEF SentAfterPass
    <2>1. i + 1 \in DOMAIN pipe /\ pipe'[i] = pipe[i + 1] /\ i \in 1 .. Len(pipe)
      BY <1>1
    <2>2. PassedBefore(i + 1)
      BY <2>1 DEF Passing, SentAfterPass
    <2> QED BY <2>1, <2>2, ReadShifts
  <1>9. NextAfterPass'
    <2> SUFFICES ASSUME pc = "approve" \/ (pc = "after" /\ st.report = "pass")
                 PROVE  PassedBefore(Len(pipe) + 1)'
      BY <1>2 DEF NextAfterPass
    <2>1. PassedBefore(Len(pipe) + 1)
      BY DEF Passing, NextAfterPass
    <2>2. Len(pipe) \in 1 .. Len(pipe) /\ Len(pipe') + 1 = Len(pipe)
      BY <1>1
    <2>3. \A n \in 1 .. Len(pipe) : PassedBefore(n + 1) => PassedBefore(n)'
      BY ReadShifts
    <2> QED BY <2>1, <2>2, <2>3 DEF PassedBefore
  <1> QED BY <1>5, <1>6, <1>7, <1>8, <1>9, ReadLog DEF Passing

\* A checkpoint of a late node that a crashed server rebuilds holds a passed text.
LEMMA RebuiltCarries ==
    ASSUME Typed, Passing
    PROVE  Carries(Rebuilt)
  <1>1. Rebuilt \in {Nothing, Unfinished(SubmittedSinceResume), InterruptedStage(LastWorkNode)}
    BY Zenon DEF Rebuilt
  <1>2. Carries(Nothing) /\ Carries(Unfinished(SubmittedSinceResume))
    BY DEF Carries, Nothing, Unfinished, Late
  <1>3. \A n, s : Carries(At(n, s)) \/ (n \in Late /\ s.sol # 0 /\ s.sol \notin approved)
    BY DEF Carries, At, Nothing, Late
  <1>4. Input(finalInput).sol \in approved \cup {0}
    BY BlankIs DEF Input, States, Passing, ServerPassed
  <1> DEFINE n == LastWorkNode
             last == IF Kinds(Decisive) = {} THEN "none" ELSE log[Newest(Decisive)].kind
             text == IF Kinds({"critic"}) # {} THEN log[Newest({"critic"})].text
                     ELSE InterruptedCandidate
  <1>5. InterruptedStage(n) \in
          {Nothing, At("latex", Input(finalInput)), At("author", [Input(critique.text) EXCEPT !.report = "reject"]),
           At("critic", InterruptedVisit(Input(InterruptedCandidate)))}
        \/ (last = "approved" /\ InterruptedStage(n) = At("convention", Input(text)))
    BY Zenon DEF InterruptedStage
  <1>6. last = "approved" => text \in approved
    <2> SUFFICES ASSUME last = "approved" PROVE text \in approved OBVIOUS
    <2>1. /\ Kinds(Decisive) # {} /\ Newest(Decisive) \in Kinds({"approved"})
          /\ \A j \in Kinds(Decisive) : j <= Newest(Decisive)
      BY NewestIs DEF Typed, ServerTyped, Kinds
    <2>2. Kinds({"critic"}) # {} /\ critique.text \in approved
      BY <2>1 DEF Passing, LogPassed
    <2>3. log[Newest({"critic"})].text = critique.text
      BY <2>2, NewestIs DEF Typed, ServerTyped, Passing, LogPassed
    <2> QED BY <2>2, <2>3
  <1>7. last = "approved" => Input(text).sol = text
    BY BlankIs DEF Input, States
  <1> QED BY <1>1, <1>2, <1>3, <1>4, <1>5, <1>6, <1>7 DEF Late

LEMMA StopsPassed ==
    ASSUME Typed, Passing, NEW c, Stops(c), Carries(c),
           pc' \notin {"approve", "after", "publish", "final_input", "capture"},
           Working' => Working /\ UNCHANGED <<node, st>>,
           UNCHANGED <<approved, pipe, log, critique, passed, result, finalInput, accepted, stepInput>>
    PROVE  Passing'
  <1>1. ServerPassed' /\ LogPassed' /\ StepPassed'
    BY DEF Stops, Passing, ServerPassed, LogPassed, StepPassed, Carries, Kinds
  <1> QED BY <1>1, QuietPassed DEF Typed, Passing, NextAfterPass

LEMMA EndsPassed ==
    ASSUME Typed, Passing, UNCHANGED ckpt,
           pc' \in {"off", "dead"},
           UNCHANGED <<approved, pipe, log, critique, passed, result, finalInput, accepted, stepInput>>
    PROVE  Passing'
  <1>1. ServerPassed' /\ LogPassed' /\ StepPassed'
    BY DEF Passing, ServerPassed, LogPassed, StepPassed, Working, Carries, Kinds
  <1> QED BY <1>1, QuietPassed DEF Typed, Passing, NextAfterPass

LEMMA SettlePassed ==
    ASSUME Typed, Passing, Settle
    PROVE  Passing'
  <1>1. /\ pc' = "off"
        /\ UNCHANGED <<approved, pipe, log, critique, passed, result, finalInput, accepted, stepInput>>
    BY SettleIs DEF trace, reader, texts, history
  <1>2. ~Working'
    BY <1>1 DEF Working
  <1>3. Carries(ckpt) /\ Carries(stepInput) /\ Carries(Unfinished(submitted))
    BY DEF Passing, ServerPassed, Carries, Unfinished, Late
  <1> QED BY <1>1, <1>2, <1>3, SettleIs, StopsPassed, EndsPassed

LEMMA RestartPassed ==
    ASSUME Typed, Passing, Restart, ~Working
    PROVE  Passing'
  <1>1. UNCHANGED <<pc, node, st, approved, pipe, log, critique, passed, result, finalInput, accepted,
                    stepInput>>
    BY RestartIs DEF runner, trace, reader, texts, history
  <1>2. ckpt' = ckpt \/ ckpt' = [ckpt EXCEPT !.status = "paused"]
        \/ ckpt' = [status |-> "paused", node |-> Rebuilt.node, st |-> Rebuilt.st]
    BY RestartIs DEF Stops
  <1>3. Carries(ckpt)'
    BY <1>1, <1>2, RebuiltCarries DEF Passing, ServerPassed, Carries, Typed, ServerTyped
  <1>4. ServerPassed' /\ LogPassed' /\ StepPassed'
    BY <1>1, <1>3 DEF Passing, ServerPassed, LogPassed, StepPassed, Working, Carries, Kinds
  <1> QED BY <1>1, <1>4, QuietPassed DEF Typed, Passing, NextAfterPass

\* A new runner starts from the checkpoint, and knows of no answer before it.
LEMMA ResumePassed ==
    ASSUME Typed, Passing, Resume
    PROVE  Passing'
  <1>1. /\ UNCHANGED <<approved, pipe, critique, result, finalInput, accepted>>
        /\ pc' = "top" /\ node' = ckpt.node /\ passed' = 0
        /\ log' = Append(log, [kind |-> "resume", node |-> ckpt.node])
    BY DEF Resume, texts, history
  <1>2. /\ ckpt' = [ckpt EXCEPT !.status = "running"]
        /\ st' = [ckpt.st EXCEPT !.visit = 0, !.verify = FALSE]
        /\ stepInput' = IF ckpt.node = "author" THEN Nothing
                        ELSE [node |-> ckpt.node, st |-> ckpt.st]
    BY DEF Resume
  <1>3. /\ ckpt'.node = ckpt.node /\ ckpt'.st = ckpt.st /\ st'.sol = ckpt.st.sol /\ ckpt.node \in Nodes
    BY <1>2 DEF Typed, ServerTyped, States
  <1>4. StepPassed'
    BY <1>1, <1>3 DEF Passing, ServerPassed, StepPassed, Carries
  <1>5. ServerPassed'
    BY <1>1, <1>2, <1>3 DEF Passing, ServerPassed, Carries, Nothing, Late
  <1>6. LogPassed'
    <2>1. [kind |-> "resume", node |-> ckpt.node] \in Entries
      BY <1>3 DEF Entries
    <2> QED BY <1>1, <2>1, AppendedLog DEF Typed, ServerTyped, Passing
  <1>7. ReadPass => ReadPass'
    <2>1. /\ DOMAIN log = 1 .. Len(log) /\ Len(log) \in Nat
          /\ Len(log') = Len(log) + 1 /\ \A j \in 1 .. Len(log) : log'[j] = log[j]
          /\ DOMAIN log' = 1 .. Len(log')
      <3>1. log \in Seq(Entries) /\ [kind |-> "resume", node |-> ckpt.node] \in Entries
        BY <1>3 DEF Entries, Typed, ServerTyped, Logs
      <3>2. /\ log' \in Seq(Entries) /\ Len(log') = Len(log) + 1
            /\ \A j \in 1 .. Len(log) : log'[j] = log[j]
        BY <1>1, <3>1, AppendProperties
      <3> QED BY <3>1, <3>2, LenProperties
    <2>2. Kinds({"critic"}) \subseteq Kinds({"critic"})'
      BY <2>1 DEF Kinds
    <2> QED BY <1>1, <2>2 DEF ReadPass
  <1>8. SentPassed' /\ SentAfterPass'
    <2>1. \A i : PassedBefore(i) => PassedBefore(i)'
      BY <1>1, <1>7 DEF PassedBefore, NoAnswer
    <2> QED BY <1>1, <2>1 DEF Passing, SentPassed, SentAfterPass, Carries
  <1> QED BY <1>1, <1>4, <1>5, <1>6, <1>8 DEF Passing, NextAfterPass

LEMMA PausePassed ==
    ASSUME Typed, Passing, Pause
    PROVE  Passing'
  <1>1. /\ UNCHANGED <<pc, node, st, approved, pipe, log, critique, passed, result, finalInput,
                       accepted, stepInput>>
        /\ ckpt'.node = "author"
    BY DEF Pause, RunnerRests, runner, texts, trace, reader
  <1>2. ServerPassed' /\ LogPassed' /\ StepPassed'
    BY <1>1 DEF Passing, ServerPassed, LogPassed, StepPassed, Working, Carries, Kinds, Late
  <1> QED BY <1>1, <1>2, QuietPassed DEF Typed, Passing, NextAfterPass

LEMMA FaultPassed ==
    ASSUME Typed, Passing, Kill \/ Crash
    PROVE  Passing'
  <1>1. /\ UNCHANGED <<approved, log, critique, passed, result, finalInput, accepted, stepInput, ckpt>>
        /\ pc' \in {"dead", "off"}
    BY DEF Kill, Crash, texts, trace, reader, files
  <1>2. CASE UNCHANGED pipe
    BY <1>1, <1>2, EndsPassed
  <1>3. CASE pipe' = <<>>
    <2>1. ServerPassed' /\ LogPassed' /\ StepPassed' /\ NextAfterPass'
      BY <1>1 DEF Passing, ServerPassed, LogPassed, StepPassed, NextAfterPass, Working, Carries, Kinds
    <2>2. DOMAIN pipe' = {}
      BY <1>3
    <2> QED BY <2>1, <2>2 DEF Passing, SentPassed, SentAfterPass
  <1> QED BY <1>2, <1>3 DEF Kill, Crash

\* The runner ends with the server.
LEMMA DownIsOff == Spec => [](phase = "down" => ~Working)
  <1> DEFINE D == phase = "down" => ~Working
  <1>1. Init => D
    BY DEF Init
  <1>2. Typed /\ D /\ [Next]_vars => D'
    <2> SUFFICES ASSUME Typed, D, [Next]_vars PROVE D' OBVIOUS
    <2>1. CASE UNCHANGED vars
      BY <2>1 DEF vars, runner, Working
    <2>2. CASE Runner
      <3>1. UNCHANGED phase /\ Working
        BY <2>2 DEF Runner, BeginStep, AuthorSubmits, AuthorPauses, Prepare, ReportInput, SaveCandidate,
            CriticPasses, CriticFixes, CriticRejects, CriticAnswers, AfterCritic, Approve, Revise,
            ConventionAnswers, Capture, SaveFinalInput, Publish, StepFails, NoOtherActor, Working
      <3> QED BY <3>1
    <2>3. CASE Read
      BY <2>3 DEF Read
    <2>4. CASE Settle
      BY <2>4, SettleIs DEF Working
    <2>5. CASE Resume
      BY <2>5 DEF Resume
    <2>6. CASE Restart
      BY <2>6, RestartIs DEF Stops
    <2>7. CASE Pause
      BY <2>7 DEF Pause
    <2>8. CASE Kill
      BY <2>8 DEF Kill, Working
    <2>9. CASE Crash
      BY <2>9 DEF Crash, Working
    <2> QED BY <2>1, <2>2, <2>3, <2>4, <2>5, <2>6, <2>7, <2>8, <2>9 DEF Next, Server, Fault
  <1>3. Spec => []Typed
    BY InitTyped, NextTyped, PTL DEF Spec
  <1> QED BY <1>1, <1>2, <1>3, PTL DEF Spec

LEMMA ApprovedGrows ==
    ASSUME Typed, [Next]_vars
    PROVE  approved \subseteq approved' /\ stages' = stages
  <1>1. CASE Runner
    BY <1>1 DEF Runner, BeginStep, AuthorSubmits, AuthorPauses, Prepare, ReportInput, SaveCandidate,
        CriticPasses, CriticFixes, CriticRejects, CriticAnswers, AfterCritic, Approve, Revise,
        ConventionAnswers, Capture, SaveFinalInput, Publish, StepFails, NoOtherActor, texts
  <1>2. CASE Read \/ Resume \/ Pause \/ Kill \/ Crash
    BY <1>2, Zenon DEF Read, Resume, Pause, Kill, Crash, RunnerRests, texts
  <1>3. CASE Settle \/ Restart
    BY <1>3, SettleIs, RestartIs DEF texts
  <1>4. CASE UNCHANGED vars
    BY <1>4 DEF vars, texts
  <1> QED BY <1>1, <1>2, <1>3, <1>4 DEF Next, Server, Fault

LEMMA InitPassed == Init => Passing
  <1> SUFFICES ASSUME Init, Typed PROVE Passing
    BY InitTyped
  <1>1. ServerPassed /\ StepPassed /\ NextAfterPass
    BY DEF Init, ServerPassed, StepPassed, NextAfterPass, Carries, Late, NoCkpt, Nothing
  <1>2. DOMAIN pipe = {} /\ DOMAIN log = {}
    BY DEF Init
  <1> QED BY <1>1, <1>2 DEF Passing, SentPassed, SentAfterPass, LogPassed, Kinds

LEMMA NextPassed ==
    PassInv /\ (phase = "down" => ~Working) /\ [Next]_vars => PassInv'
  <1> SUFFICES ASSUME PassInv, phase = "down" => ~Working, [Next]_vars,
                      Reviewed', (InFile \notin approved)'
               PROVE  Passing'
    BY NextTyped DEF PassInv
  <1>1. Typed /\ Reviewed /\ InFile \notin approved /\ Passing
    BY ApprovedGrows DEF PassInv, Reviewed, InFile
  <1>2. CASE UNCHANGED vars
    BY <1>1, <1>2 DEF vars, runner, files, trace, reader, texts, history, Passing, StepPassed,
        ServerPassed, SentPassed, SentAfterPass, NextAfterPass, LogPassed, Working, Carries,
        PassedBefore, NoAnswer, ReadPass, Kinds
  <1>3. CASE Runner
    BY <1>1, <1>3, RunnerPassed
  <1>4. CASE Server
    BY <1>1, <1>4, ReadPassed, SettlePassed, ResumePassed, RestartPassed, RestartIs DEF Server
  <1>5. CASE Pause
    BY <1>1, <1>5, PausePassed
  <1>6. CASE Fault
    BY <1>1, <1>6, FaultPassed DEF Fault
  <1> QED BY <1>2, <1>3, <1>4, <1>5, <1>6 DEF Next

(***************************************************************************)
(* Whatever is published, edited for LaTeX or announced as approved was    *)
(* passed unchanged by a critic, over any number of pauses, kills, failed  *)
(* calls and crashes, unless a critic passed an answer that only points to *)
(* proof.md.                                                               *)
(***************************************************************************)
THEOREM AcceptedWasReviewed == Spec => []AcceptedIsReviewed
  <1>1. Init => PassInv
    BY InitTyped, InitPassed DEF PassInv
  <1>2. Spec => []PassInv
    BY <1>1, NextPassed, DownIsOff, PTL DEF Spec
  <1>3. PassInv => AcceptedIsReviewed
    BY DEF PassInv, AcceptedIsReviewed, Passing, ServerPassed, StepPassed, Late
  <1> QED BY <1>2, <1>3, PTL

-----------------------------------------------------------------------------
(***************************************************************************)
(* What the server knows                                                   *)
(*                                                                         *)
(* A view is what the reader and the transcript show at one moment.  The   *)
(* views of a state are the server's own and those it will have after each *)
(* of the unread records, so that reading a record only drops the first.   *)
(***************************************************************************)
Submits == {"author", "critic", "step", "resume"}

\* The visit of the critic that the transcript shows under way.
OpenVisit ==
    IF Kinds(Submits) = {} THEN "none"
    ELSE LET r == log[Newest(Submits)]
         IN  IF r.kind \in {"step", "resume"} /\ r.node = "critic" THEN r.kind ELSE "none"

\* As it is saved: the first visit, which may edit, is 0.
SavedVisit(v, check) == IF v > 1 \/ check THEN v ELSE 0

\* Its number and whether it only confirms, and what the newest records say.
OpenNumber ==
    IF OpenVisit # "step" THEN 0
    ELSE SavedVisit(log[Newest(Submits)].visit, log[Newest(Submits)].verify)
OpenCheck == OpenVisit = "step" /\ log[Newest(Submits)].verify
LastKind == IF log = <<>> THEN "none" ELSE log[Len(log)].kind
LastDecisive == IF Kinds(Decisive) = {} THEN "none" ELSE log[Newest(Decisive)].kind
Shown(k) == Kinds({k}) # {}
TextOf(k) == IF Shown(k) THEN log[Newest({k})].text ELSE 0
Stopped == ckpt.status \in {"pausing", "paused"}

Now ==
    [node |-> LastWorkNode, at |-> at, input |-> stepInput, last |-> LastKind,
     gave |-> Shown("author"), first |-> TextOf("author"), answer |-> TextOf("critic"),
     handed |-> TextOf("handoff"), open |-> OpenVisit, visit |-> OpenNumber, check |-> OpenCheck,
     decisive |-> LastDecisive, verdict |-> critique.verdict, text |-> critique.text,
     passed |-> passed, refused |-> refused, submitted |-> submitted,
     resumed |-> Shown("resume"), stopped |-> Stopped]

\* The view after record r.
Seen(v, r) ==
    [node |-> IF r.kind = "author" THEN "author" ELSE IF r.kind = "step" THEN r.node
              ELSE IF v.node = "none" /\ r.kind \in {"handoff", "critic", "approved", "convention"} THEN "critic"
              ELSE v.node,
     at |-> IF r.kind = "author" THEN "author" ELSE IF r.kind \in {"step", "paused"} THEN r.node ELSE v.at,
     input |-> IF r.kind = "input" THEN [node |-> r.node, st |-> r.st] ELSE v.input,
     last |-> IF r.kind \in {"author", "step", "handoff", "critic", "approved", "convention"} THEN r.kind ELSE v.last,
     gave |-> v.gave \/ r.kind = "author",
     first |-> IF r.kind = "author" THEN r.text ELSE v.first,
     answer |-> IF r.kind = "author" THEN 0 ELSE IF r.kind = "critic" THEN r.text ELSE v.answer,
     handed |-> IF r.kind = "author" THEN 0 ELSE IF r.kind = "handoff" THEN r.text ELSE v.handed,
     open |-> IF r.kind = "step" /\ r.node = "critic" THEN "step" ELSE IF r.kind \in {"author", "critic", "step"} THEN "none" ELSE v.open,
     visit |-> IF r.kind = "step" /\ r.node = "critic" THEN SavedVisit(r.visit, r.verify)
               ELSE IF r.kind \in {"author", "critic", "step"} THEN 0 ELSE v.visit,
     check |-> IF r.kind = "step" /\ r.node = "critic" THEN r.verify
               ELSE IF r.kind \in {"author", "critic", "step"} THEN FALSE ELSE v.check,
     decisive |-> IF r.kind \in Decisive THEN r.kind ELSE v.decisive,
     verdict |-> IF r.kind = "critic" THEN r.verdict ELSE v.verdict,
     text |-> IF r.kind = "critic" THEN r.text ELSE v.text,
     passed |-> IF r.kind # "critic" THEN v.passed ELSE IF r.verdict = "pass" THEN r.text ELSE 0,
     refused |-> IF r.kind = "author" THEN FALSE ELSE IF r.kind = "paused" THEN r.st.note ELSE v.refused,
     submitted |-> v.submitted \/ r.kind = "author",
     resumed |-> IF r.kind = "author" THEN FALSE ELSE v.resumed,
     stopped |-> v.stopped \/ r.kind = "paused"]

Kinded == {"none", "author", "step", "handoff", "critic", "approved", "convention", "resume"}
Views ==
    [node : Nodes \cup {"none"}, at : Nodes, input : [node : Nodes \cup {"none"}, st : States],
     last : Kinded, gave : BOOLEAN, first : Texts, answer : Texts, handed : Texts,
     open : {"none", "step", "resume"}, visit : Nat, check : BOOLEAN,
     decisive : Decisive \cup {"none"}, verdict : {"none", "pass", "reject"}, text : Texts,
     passed : Texts, refused : BOOLEAN, submitted : BOOLEAN, resumed : BOOLEAN, stopped : BOOLEAN]

\* The server's view, and those after the unread records.
Tracks(w) ==
    /\ w \in [0 .. Len(pipe) -> Views] /\ w[0] = Now
    /\ \A i \in 1 .. Len(pipe) : w[i] = Seen(w[i - 1], pipe[i])

-----------------------------------------------------------------------------
(* The rounds *)

Asked == "author" \in stages
InReview == {"critic", "convention"}

\* The text under review: the critic's latest, the author's, or the supplied one.
Text(v) == IF v.answer # 0 THEN v.answer ELSE IF v.first # 0 THEN v.first ELSE 1
Approved(v) == v.decisive \in {"approved", "convention"}

\* An author that was given the step and has not answered.
Awaits(v) == Asked /\ v.node \in {"author", "none"} /\ v.last # "author"

\* A round on text p after k edits.
Round(p, k, check) ==
    p \in Proofs \cup {InFile} /\ k = edits[p] /\ k <= Limit /\ (check <=> k = Limit)
Before(k) == IF k > 0 THEN k - 1 ELSE 0
SavedRound(p, k, check) == Round(p, Before(k), k > 0 /\ check)

\* q is p, or the proof that p points to.
Same(p, q) == q = p \/ (p = InFile /\ q \in Proofs /\ edits[q] = 0)

\* p is the newest submission or an edit of it.
Current(p) ==
    IF p = InFile THEN proofFile \in {0, newest} ELSE p \in 1 .. made /\ root[p] = newest

\* What saved-candidate.md holds is no older than the critic's latest text.
Fixes(v) == v.answer # 0 => saved >= v.answer

\* c continues the work that v shows.
Continues(c, v) ==
    /\ c.st.captured # InFile
    /\ c.node = "critic" => SavedRound(c.st.sol, c.st.visit, c.st.verify) /\ Fixes(v)
    /\ c.node \in InReview => Same(Text(v), c.st.sol) /\ (Asked => v.first # 0)
    /\ c.node \in Late <=> Approved(v)
    /\ c.node \in Late => c.st.sol # InFile
    /\ c.node # "author" => Current(c.st.sol) /\ ~Awaits(v)
    /\ c.node = "author" => Asked /\ (v.last # "author" \/ c.st.note)

TextsOk ==
    /\ \A p \in Texts : p > made \/ p = 0 => edits[p] = 0
    /\ edits[proofFile] = 0 /\ proofFile <= made
    /\ \A p \in Texts : p > made => root[p] = p
    /\ newest <= made /\ (newest # 0 => root[newest] = newest) /\ saved <= made
    /\ ~Asked => /\ made >= 1 /\ newest = 1 /\ saved >= 1
                 /\ \A p \in 1 .. made : root[p] = 1

VisitOk(v) ==
    /\ v.open # "none" => /\ v.node = "critic" /\ ~Approved(v) /\ v.last \notin {"critic", "author"}
                          /\ Fixes(v)
    /\ v.open = "step" => SavedRound(Text(v), v.visit, v.check)
    /\ v.open = "resume" /\ phase \in {"running", "down"} /\ ckpt.status \in {"none", "running"} =>
         /\ ckpt.status = "running" /\ ckpt.node = "critic"
         /\ SavedRound(Text(v), ckpt.st.visit, ckpt.st.verify)
    /\ v.node = "critic" /\ v.open = "none" => v.last \in {"critic", "approved"}

HandedOk(v) ==
    v.handed # 0 =>
      /\ v.handed \in Proofs /\ v.handed <= made
      /\ Same(Text(v), v.handed) \/ (v.answer # 0 /\ v.handed < v.answer)

ViewOk(v) ==
    /\ v.answer \in 0 .. made /\ v.first \in (0 .. made) \cup {InFile} /\ (v.gave => v.first # 0)
    /\ ~Asked => v.first = 0 /\ v.node # "author" /\ v.at # "author"
    /\ VisitOk(v) /\ HandedOk(v)
    /\ v.node \in Late => Approved(v)
    /\ Approved(v) => /\ v.node \in Late \cup {"critic"} /\ v.answer # 0
                      /\ v.node = "critic" => v.last = "approved"
    /\ v.node \in InReview /\ Asked => v.first # 0
    /\ v.last = "critic" => /\ v.answer # 0 /\ v.node = "critic"
                            /\ v.verdict = "pass" => v.passed = v.answer
    /\ v.answer # 0 => v.text = v.answer
    /\ v.last = "author" => v.first # 0 /\ v.answer = 0 /\ v.decisive = "author"
    /\ v.last = "approved" => v.decisive = "approved"
    /\ v.node = "none" => v.last = "none" /\ v.answer = 0 /\ v.first = 0
    /\ v.input.st.captured # InFile

\* No submission is unread after view i.
Final(i) == \A j \in DOMAIN pipe : j > i => pipe[j].kind # "author"

\* No submission is on the way but after a critic's answer.
Behind(w, i) ==
    \/ Awaits(w[i]) \/ w[i].last = "critic"
    \/ \E j \in DOMAIN pipe : j > i /\ pipe[j].kind = "critic"

PlaceOk(w, i) ==
    /\ ~Asked /\ w[i].answer = 0 =>
         made = 1 \/ \E j \in DOMAIN pipe : j > i /\ pipe[j].kind = "critic" /\ pipe[j].edited
    /\ Final(i) /\ ~Awaits(w[i]) =>
         Current(Text(w[i])) /\ (w[i].handed # 0 => Current(w[i].handed))
    /\ ~Final(i) => Behind(w, i)

SentOk(w, j) ==
    /\ pipe[j].kind = "approved" => w[j - 1].last = "critic" /\ w[j - 1].verdict = "pass"
    /\ pipe[j].kind = "convention" => Approved(w[j - 1])
    /\ pipe[j].kind = "paused" => j = Len(pipe) /\ pc = "exited" /\ Continues(pipe[j], w[j])

ServerOk(v) ==
    /\ ckpt.st.captured # InFile
    /\ phase = "running" => ckpt.status \in {"none", "running"}
    /\ phase = "pausing" => /\ ckpt.status = "pausing" /\ pc # "dead"
                            /\ ckpt.node # "author" => pipe = <<>> /\ ~Working /\ Continues(ckpt, v)
    /\ phase = "paused" => ckpt.status = "paused" /\ Continues(ckpt, v)
    /\ phase \in {"paused", "done"} => ~Working /\ pc # "dead" /\ pipe = <<>>
    /\ phase = "down" => /\ pc = "off" /\ pipe = <<>> /\ v.last # "critic"
                         /\ ckpt.status # "pausing"
                         /\ ckpt.status = "paused" => Continues(ckpt, v)
    /\ Final(0) /\ Approved(v) => finalInput = 0 \/ (finalInput # InFile /\ Current(finalInput))

\* No text is newer than t that an answer on the way is about.
Older(w, t) == \A i \in 0 .. Len(pipe) : w[i].answer <= t

StepOk(w, v) ==
    /\ st.captured # InFile /\ before.captured # InFile /\ pc # "capture"
    /\ st.visit = 0 /\ ~st.verify
    /\ node \in Late <=> Approved(v)
    /\ node = "author" => Asked /\ \A i \in 0 .. Len(pipe) : Behind(w, i)
    /\ node # "author" => Current(st.sol) /\ ~Awaits(v)
    /\ node \in InReview => Same(Text(v), st.sol) /\ (Asked => v.first # 0)
    /\ node \in Late => st.sol # InFile
    /\ v.stopped => phase = "pausing"

\* The critic's text is the newest of them.
Foremost(w) ==
    IF st.sol = InFile THEN proofFile = 0 \/ Older(w, proofFile)
    ELSE Older(w, st.sol) /\ st.sol <= made

CriticOk(w, v) ==
    /\ pc = "top" => Round(st.sol, visits, verify)
    /\ pc \in {"prepare", "input", "write", "model"} =>
         visits >= 1 /\ Round(st.sol, visits - 1, verify) /\ v.open # "none"
    /\ pc \in {"top", "prepare"} /\ st.sol = InFile => previous \in {"none", "author"}
    /\ pc \in {"top", "prepare", "input", "write", "model"} => Fixes(v)
    /\ pc \in {"after", "approve", "revise"} => v.last = "critic" /\ v.answer = st.sol
    /\ pc = "approve" \/ (pc = "after" /\ st.report # "reject") => v.verdict = "pass"
    /\ pc \in {"input", "write", "model", "after"} => st.sol \in Proofs
    /\ pc = "after" /\ st.report = "fixed" => visits = edits[st.sol] /\ visits <= Limit
    /\ Foremost(w)

\* How a runner ends.
RoundEnded(v) ==
    \/ /\ pipe # <<>> /\ pipe[Len(pipe)].kind \in {"paused", "failure", "final"}
       /\ pipe[Len(pipe)].kind = "final" => pipe[Len(pipe)].text # 0
    \/ pipe = <<>> /\ (failed \/ result # 0)
    \/ phase = "pausing" /\ pipe = <<>> /\ Continues(ckpt, v)

RunnerOk(w, v) ==
    /\ Working => StepOk(w, v) /\ (node = "critic" => CriticOk(w, v))
    /\ Working /\ node = "convention" => st.sol = v.answer
    /\ pc \in {"write", "after", "approve", "revise"} => node = "critic"
    /\ pc = "prepare" => node \in InReview
    /\ pc = "publish" => node = "convention"
    /\ pc \in {"prepare", "final_input", "input", "write", "model", "after", "approve", "revise"} =>
         v.node = node /\ v.at = node /\ node # "author"
    /\ pc \in {"input", "write", "model"} /\ node \in InReview => v.handed = st.sol
    /\ pc \in {"write", "model"} =>
         v.input = [node |-> node, st |-> StepVisit(st, node, visits, verify)]
    /\ pc = "work" => node = "author" /\ v.at = "author" /\ Awaits(v)
    /\ pc = "dead" => IF v.at = "author" THEN Awaits(v) /\ ~Approved(v)
                      ELSE v.at = v.input.node /\ Continues(v.input, v)
    /\ pc = "exited" => RoundEnded(v)

Rounds(w) ==
    /\ TextsOk /\ InFile \notin approved
    /\ \A i \in 0 .. Len(pipe) : ViewOk(w[i]) /\ PlaceOk(w, i)
    /\ \A j \in 1 .. Len(pipe) : SentOk(w, j)
    /\ ServerOk(w[0]) /\ RunnerOk(w, w[Len(pipe)])
-----------------------------------------------------------------------------
(* The feedback *)

\* The author's state tells what sent it back.
Told(v, s) ==
    /\ s.note = v.refused
    /\ ~v.refused /\ v.verdict = "reject" => s.report = "reject" /\ s.sol = v.text

\* Only an author is told that its submission was refused; a late text is not empty.
NoteOk(c) == (c.st.note => c.node = "author") /\ (c.node = "latex" => c.st.sol # 0)

Noted(v) ==
    /\ v.submitted <=> (v.gave /\ ~v.resumed)
    /\ NoteOk(v.input) /\ (v.refused => v.at = "author")
    /\ ~v.stopped => /\ v.refused <=> ckpt.st.note /\ ~v.submitted
                     /\ v.node # "author" => ~v.refused

SentNoted(w, j) ==
    /\ pipe[j].kind \in {"input", "paused"} => NoteOk(pipe[j])
    /\ pipe[j].kind = "paused" => /\ j = Len(pipe) /\ pc = "exited"
                                  /\ pipe[j].node = "author" => Told(w[j], pipe[j].st)

\* The saved checkpoint continues what v shows.
Kept(v) == ckpt.st.note = v.refused /\ (ckpt.node = "author" => Told(v, ckpt.st))

ServerNoted(v) ==
    /\ NoteOk(ckpt)
    /\ phase = "running" => ckpt.status \in {"none", "running"}
    /\ phase = "pausing" => ckpt.status = "pausing" /\ pc # "dead"
    /\ phase = "pausing" /\ ckpt.st.note => pipe = <<>> /\ ~Working
    /\ phase = "paused" => ckpt.status = "paused" /\ Kept(v)
    /\ phase \in {"paused", "done"} => ~Working /\ pc # "dead" /\ pipe = <<>>
    /\ phase = "down" => /\ pc = "off" /\ pipe = <<>> /\ ckpt.status # "pausing"
                         /\ ckpt.status = "paused" => Kept(v)

\* How a runner ends.
Ended(v) ==
    \/ /\ pipe # <<>> /\ pipe[Len(pipe)].kind \in {"paused", "failure", "final"}
       /\ pipe[Len(pipe)].kind = "final" => pipe[Len(pipe)].text # 0
    \/ pipe = <<>> /\ (failed \/ result # 0)
    \/ phase = "pausing" /\ pipe = <<>> /\ Kept(v)

RunnerNoted(v) ==
    /\ Working => /\ st.note = v.refused /\ (st.note => node = "author")
                  /\ node = "latex" => st.sol # 0
                  /\ v.stopped => phase = "pausing"
                  /\ node = "author" => pc \in {"top", "work", "capture", "publish"}
    /\ pc = "work" => node = "author"
    /\ pc = "capture" => ~st.note
    /\ node = "author" /\ pc \in {"top", "work"} => Told(v, st)
    /\ pc = "after" => v.text = st.sol /\ (st.report = "reject" => v.verdict = "reject")
    /\ pc \in {"publish", "final_input"} => st.sol # 0
    /\ pc = "exited" => Ended(v)

Feedback(w) ==
    /\ \A i \in 0 .. Len(pipe) : Noted(w[i])
    /\ \A j \in 1 .. Len(pipe) : SentNoted(w, j)
    /\ ServerNoted(w[0]) /\ RunnerNoted(w[Len(pipe)])
-----------------------------------------------------------------------------
\* What an appended entry changes of the newest ones.
LEMMA NewestAppended ==
    ASSUME Logs, NEW e \in Entries, log' = Append(log, e), Logs', NEW ks
    PROVE  /\ e.kind \in ks => Kinds(ks)' # {} /\ log'[Newest(ks)'] = e
           /\ e.kind \notin ks => /\ Kinds(ks)' = Kinds(ks)
                                  /\ Kinds(ks) # {} => log'[Newest(ks)'] = log[Newest(ks)]
  <1>1. Len(log) \in Nat /\ DOMAIN log = 1 .. Len(log)
    BY LenProperties DEF Logs
  <1>2. /\ DOMAIN log' = 1 .. Len(log) + 1
        /\ \A j \in 1 .. Len(log) : log'[j] = log[j]
        /\ log'[Len(log) + 1] = e
    <2>1. /\ log' \in Seq(Entries) /\ Len(log') = Len(log) + 1 /\ log'[Len(log) + 1] = e
          /\ \A j \in 1 .. Len(log) : log'[j] = log[j]
      BY AppendProperties DEF Logs
    <2> QED BY <2>1, LenProperties
  <1>3. Kinds(ks)' = IF e.kind \in ks THEN Kinds(ks) \cup {Len(log) + 1} ELSE Kinds(ks)
    BY <1>1, <1>2 DEF Kinds
  <1>4. Newest(ks)' = CHOOSE i \in Kinds(ks)' : \A j \in Kinds(ks)' : j <= i
    BY DEF Newest
  <1>5. Kinds(ks) \subseteq 1 .. Len(log)
    BY <1>1 DEF Kinds
  <1>6. CASE e.kind \in ks
    <2>1. Len(log) + 1 \in Kinds(ks)' /\ \A j \in Kinds(ks)' : j <= Len(log) + 1
      BY <1>1, <1>3, <1>5, <1>6
    <2> DEFINE K == Kinds(ks)'
    <2>2. K \subseteq 1 .. Len(log) + 1
      BY <1>1, <1>3, <1>5
    <2> HIDE DEF K
    <2>3. (CHOOSE i \in K : \A j \in K : j <= i) = Len(log) + 1
      <3>1. \A i \in K : (\A j \in K : j <= i) => i = Len(log) + 1
        BY <1>1, <2>1, <2>2 DEF K
      <3> QED BY <2>1, <3>1 DEF K
    <2>4. Newest(ks)' = Len(log) + 1
      BY <1>4, <2>3 DEF K
    <2> QED BY <1>2, <1>6, <2>1, <2>4
  <1>7. CASE e.kind \notin ks
    <2>1. Kinds(ks)' = Kinds(ks)
      BY <1>3, <1>7
    <2>2. Newest(ks)' = Newest(ks)
      BY <1>4, <2>1 DEF Newest
    <2>3. Kinds(ks) # {} => Newest(ks) \in 1 .. Len(log)
      BY <1>1, NewestIs
    <2> QED BY <1>2, <1>7, <2>1, <2>2, <2>3
  <1> QED BY <1>6, <1>7

\* A transcript that begins again with an author's result.
LEMMA NewestAlone ==
    ASSUME NEW e \in Entries, log' = <<e>>, NEW ks
    PROVE  /\ e.kind \in ks => Kinds(ks)' # {} /\ log'[Newest(ks)'] = e
           /\ e.kind \notin ks => Kinds(ks)' = {}
  <1>1. DOMAIN log' = {1} /\ log'[1] = e
    BY SMT
  <1>2. Kinds(ks)' = IF e.kind \in ks THEN {1} ELSE {}
    BY <1>1 DEF Kinds
  <1>3. e.kind \in ks => Newest(ks)' = 1
    BY <1>2 DEF Newest
  <1> QED BY <1>1, <1>2, <1>3

\* The transcript's summary, which Now holds.
LEMMA NowTyped == Typed => Now \in Views
  <1> SUFFICES ASSUME Typed PROVE Now \in Views
    OBVIOUS
  <1>1. Logs /\ Len(log) \in Nat /\ DOMAIN log = 1 .. Len(log)
    BY LenProperties DEF Typed, ServerTyped, Logs
  <1>2. ASSUME NEW i \in DOMAIN log
        PROVE  /\ log[i] \in Entries
               /\ log[i].kind \in Kinded \ {"none"}
               /\ log[i].kind \in {"author", "handoff", "critic"} => log[i].text \in Texts
               /\ log[i].kind = "step" => log[i].node \in Nodes /\ log[i].visit \in Nat /\ log[i].verify \in BOOLEAN
               /\ log[i].kind = "resume" => log[i].node \in Nodes
    <2>1. log[i] \in Entries
      BY <1>1, <1>2, ElementOfSeq DEF Logs
    <2>2. log[i].kind \in Kinded \ {"none"}
      BY <1>1, <1>2 DEF Logs, Kinded
    <2> QED BY <2>1, <2>2 DEF Entries, Records
  <1>3. \A ks : Kinds(ks) # {} => Newest(ks) \in DOMAIN log /\ log[Newest(ks)].kind \in ks
    BY <1>1, NewestIs
  <1>4. LastWorkNode \in Nodes \cup {"none"}
    <2>1. CASE log = <<>>
      BY <2>1 DEF LastWorkNode
    <2>2. CASE log # <<>> /\ Kinds({"step", "resume"}) = {}
      BY <2>2 DEF LastWorkNode, Nodes
    <2>3. CASE log # <<>> /\ Kinds({"step", "resume"}) # {}
      BY <1>2, <1>3, <2>3 DEF LastWorkNode
    <2> QED BY <2>1, <2>2, <2>3
  <1>5. /\ OpenVisit \in {"none", "step", "resume"}
        /\ OpenVisit = "step" => /\ log[Newest(Submits)].visit \in Nat
                                 /\ log[Newest(Submits)].verify \in BOOLEAN
    <2>1. CASE Kinds(Submits) = {}
      BY <2>1 DEF OpenVisit
    <2>2. CASE Kinds(Submits) # {}
      BY <1>2, <1>3, <2>2 DEF OpenVisit
    <2> QED BY <2>1, <2>2
  <1>6. LastKind \in Kinded
    <2>1. log # <<>> => Len(log) >= 1
      BY <1>1, EmptySeq DEF Logs
    <2> QED BY <1>1, <1>2, <2>1 DEF LastKind, Kinded
  <1>7. \A k \in {"author", "handoff", "critic"} : TextOf(k) \in Texts
    <2> TAKE k \in {"author", "handoff", "critic"}
    <2>1. CASE Kinds({k}) = {}
      BY <2>1, Numbers DEF TextOf, Shown
    <2>2. CASE Kinds({k}) # {}
      <3>1. Newest({k}) \in DOMAIN log /\ log[Newest({k})].kind = k
        BY <1>3, <2>2
      <3> QED BY <1>2, <2>2, <3>1 DEF TextOf, Shown
    <2> QED BY <2>1, <2>2
  <1>8. LastDecisive \in Decisive \cup {"none"}
    BY <1>3 DEF LastDecisive
  <1>9. OpenNumber \in Nat /\ OpenCheck \in BOOLEAN
    BY <1>5 DEF OpenNumber, OpenCheck, SavedVisit
  <1>10. Shown("author") \in BOOLEAN /\ Shown("resume") \in BOOLEAN /\ Stopped \in BOOLEAN
    BY DEF Shown, Stopped
  <1>11. /\ at \in Nodes /\ stepInput \in [node : Nodes \cup {"none"}, st : States]
         /\ critique.verdict \in {"none", "pass", "reject"} /\ critique.text \in Texts
         /\ passed \in Texts /\ refused \in BOOLEAN /\ submitted \in BOOLEAN
    BY DEF Typed, ServerTyped
  <1> QED BY <1>4, <1>5, <1>6, <1>7, <1>8, <1>9, <1>10, <1>11 DEF Now, Views

\* The views are typed, and a view is its fields.
LEMMA SeenTyped == ASSUME NEW v \in Views, NEW r \in Records PROVE Seen(v, r) \in Views
  <1>1. /\ r.kind \in {"author", "step", "handoff", "critic", "approved", "convention", "final",
                       "input", "paused", "failure"}
        /\ r.kind \in {"author", "handoff", "critic"} => r.text \in Texts
        /\ r.kind \in {"step", "paused", "input"} => r.node \in Nodes
        /\ r.kind = "step" => r.visit \in Nat /\ r.verify \in BOOLEAN
        /\ r.kind = "critic" => r.verdict \in {"pass", "reject"}
        /\ r.kind \in {"input", "paused"} => r.st \in States /\ r.st.note \in BOOLEAN
    BY DEF Records, States
  <1> DEFINE u == Seen(v, r)
  <1>2. u.node \in Nodes \cup {"none"} /\ u.at \in Nodes
    BY <1>1 DEF Seen, Views, Nodes
  <1>3. u.input \in [node : Nodes \cup {"none"}, st : States]
    BY <1>1 DEF Seen, Views
  <1>4. u.last \in Kinded /\ u.gave \in BOOLEAN /\ u.open \in {"none", "step", "resume"}
    BY <1>1 DEF Seen, Views, Kinded
  <1>5. u.first \in Texts /\ u.answer \in Texts /\ u.handed \in Texts /\ u.text \in Texts /\ u.passed \in Texts
    BY <1>1, Numbers DEF Seen, Views
  <1>6. u.visit \in Nat /\ u.check \in BOOLEAN
    BY <1>1 DEF Seen, Views, SavedVisit
  <1>7. u.decisive \in Decisive \cup {"none"} /\ u.verdict \in {"none", "pass", "reject"}
    BY <1>1 DEF Seen, Views
  <1>8. u.refused \in BOOLEAN /\ u.submitted \in BOOLEAN /\ u.resumed \in BOOLEAN /\ u.stopped \in BOOLEAN
    BY <1>1 DEF Seen, Views
  <1> QED BY <1>2, <1>3, <1>4, <1>5, <1>6, <1>7, <1>8 DEF Seen, Views

LEMMA SameView ==
    ASSUME NEW u \in Views, NEW v \in Views,
           u.node = v.node, u.at = v.at, u.input = v.input, u.last = v.last, u.gave = v.gave,
           u.first = v.first, u.answer = v.answer, u.handed = v.handed, u.open = v.open,
           u.visit = v.visit, u.check = v.check, u.decisive = v.decisive, u.verdict = v.verdict,
           u.text = v.text, u.passed = v.passed, u.refused = v.refused,
           u.submitted = v.submitted, u.resumed = v.resumed, u.stopped = v.stopped
    PROVE  u = v
  BY DEF Views

\* One more entry: of the reader's record r, or of a resumed run.
LEMMA NowLogs ==
    ASSUME Typed, Logs', NEW e \in Entries,
           e.kind \in {"author", "step", "handoff", "critic", "approved", "convention", "resume"},
           log' = IF e.kind = "author" THEN <<e>> ELSE Append(log, e)
    PROVE  /\ LastWorkNode' = IF e.kind = "author" THEN "author"
                              ELSE IF e.kind \in {"step", "resume"} THEN e.node
                              ELSE IF LastWorkNode = "none" THEN "critic" ELSE LastWorkNode
           /\ log' # <<>> /\ log'[Len(log')] = e
           /\ \A ks : Kinds(ks)' # {} <=> (e.kind \in ks \/ (e.kind # "author" /\ Kinds(ks) # {}))
           /\ \A ks : e.kind \in ks => log'[Newest(ks)'] = e
           /\ \A ks : e.kind \notin ks /\ Kinds(ks)' # {} => log'[Newest(ks)'] = log[Newest(ks)]
  <1>1. Logs /\ log \in Seq(Entries)
    BY DEF Typed, ServerTyped, Logs
  <1>2. /\ \A ks : Kinds(ks)' # {} <=> (e.kind \in ks \/ (e.kind # "author" /\ Kinds(ks) # {}))
        /\ \A ks : e.kind \in ks => log'[Newest(ks)'] = e
        /\ \A ks : e.kind \notin ks /\ Kinds(ks)' # {} => log'[Newest(ks)'] = log[Newest(ks)]
    <2> SUFFICES ASSUME NEW ks
                 PROVE  /\ Kinds(ks)' # {} <=> (e.kind \in ks \/ (e.kind # "author" /\ Kinds(ks) # {}))
                        /\ e.kind \in ks => log'[Newest(ks)'] = e
                        /\ e.kind \notin ks /\ Kinds(ks)' # {} => log'[Newest(ks)'] = log[Newest(ks)]
      OBVIOUS
    <2>1. CASE e.kind = "author"
      <3>1. log' = <<e>>
        BY <2>1
      <3> QED BY <2>1, <3>1, NewestAlone
    <2>2. CASE e.kind # "author"
      <3>1. log' = Append(log, e)
        BY <2>2
      <3> QED BY <1>1, <2>2, <3>1, NewestAppended
    <2> QED BY <2>1, <2>2
  <1>3. log' # <<>> /\ log'[Len(log')] = e
    <2>1. CASE e.kind = "author"
      BY <2>1
    <2>2. CASE e.kind # "author"
      <3>1. Len(log') = Len(log) + 1 /\ log'[Len(log) + 1] = e /\ Len(log) \in Nat /\ log' \in Seq(Entries)
        BY <1>1, <2>2, AppendProperties, LenProperties
      <3> QED BY <3>1, EmptySeq
    <2> QED BY <2>1, <2>2
  <1>4. log # <<>> /\ e.kind # "author" => log'[1] = log[1]
    <2>1. log # <<>> => Len(log) \in Nat /\ Len(log) >= 1
      BY <1>1, EmptySeq, LenProperties
    <2> QED BY <1>1, <2>1, AppendProperties
  <1>5. log = <<>> => (e.kind # "author" => log'[1] = e) /\ \A ks : Kinds(ks) = {}
    <2>1. log = <<>> => Len(log) = 0 /\ DOMAIN log = {}
      BY EmptySeq
    <2>2. log = <<>> => \A ks : Kinds(ks) = {}
      BY <2>1 DEF Kinds
    <2>3. log = <<>> /\ e.kind # "author" => log'[Len(log) + 1] = e
      BY <1>1, AppendProperties
    <2> QED BY <2>1, <2>2, <2>3
  <1>6. LastWorkNode = "none" <=> log = <<>>
    <2>1. log # <<>> => LastWorkNode # "none"
      <3>1. CASE Kinds({"step", "resume"}) = {}
        BY <3>1 DEF LastWorkNode
      <3>2. CASE Kinds({"step", "resume"}) # {}
        <4>1. Newest({"step", "resume"}) \in DOMAIN log /\ log[Newest({"step", "resume"})].kind \in {"step", "resume"}
          BY <1>1, <3>2, NewestIs
        <4>2. log[Newest({"step", "resume"})] \in Entries
          BY <1>1, <4>1, ElementOfSeq, LenProperties
        <4>3. log[Newest({"step", "resume"})].node \in Nodes
          BY <4>1, <4>2 DEF Entries, Records
        <4> QED BY <3>2, <4>3 DEF LastWorkNode, Nodes
      <3> QED BY <3>1, <3>2
    <2> QED BY <2>1 DEF LastWorkNode
  <1>7. LastWorkNode' = IF Kinds({"step", "resume"})' = {}
                        THEN IF log'[1].kind = "author" THEN "author" ELSE "critic"
                        ELSE log'[Newest({"step", "resume"})'].node
    BY <1>3 DEF LastWorkNode
  <1>8. LastWorkNode' = IF e.kind = "author" THEN "author"
                        ELSE IF e.kind \in {"step", "resume"} THEN e.node
                        ELSE IF LastWorkNode = "none" THEN "critic" ELSE LastWorkNode
    <2>1. CASE e.kind = "author"
      <3>1. Kinds({"step", "resume"})' = {} /\ log'[1] = e
        BY <1>2, <2>1
      <3> QED BY <1>7, <2>1, <3>1
    <2>2. CASE e.kind \in {"step", "resume"}
      BY <1>2, <1>7, <2>2
    <2>3. CASE e.kind \notin {"author", "step", "resume"} /\ log = <<>>
      BY <1>2, <1>5, <1>6, <1>7, <2>3
    <2>4. CASE e.kind \notin {"author", "step", "resume"} /\ log # <<>>
      <3>1. LastWorkNode = IF Kinds({"step", "resume"}) = {}
                           THEN IF log[1].kind = "author" THEN "author" ELSE "critic"
                           ELSE log[Newest({"step", "resume"})].node
        BY <2>4 DEF LastWorkNode
      <3> QED BY <1>2, <1>4, <1>6, <1>7, <2>4, <3>1
    <2> QED BY <2>1, <2>2, <2>3, <2>4
  <1> QED BY <1>2, <1>3, <1>8

LEMMA ViewGave == ASSUME NEW v \in Views PROVE v.gave \in BOOLEAN
  BY DEF Views

\* Reading a record leads to the view after it.
LEMMA NowReads ==
    ASSUME Typed, Read
    PROVE  Now' = Seen(Now, pipe[1]) /\ Len(pipe) >= 1 /\ pipe[1] \in Records
  <1> DEFINE r == pipe[1]
  <1>1. /\ r \in Records /\ r \in Entries /\ Len(pipe) >= 1 /\ Head(pipe) = r
        /\ Logs /\ log \in Seq(Entries)
    BY HeadIs DEF Read, Typed, ServerTyped, Logs, Entries
  <1> HIDE DEF r
  <1>2. /\ log' = Logged(r)
        /\ at' = IF r.kind = "author" THEN "author"
                 ELSE IF r.kind \in {"step", "paused"} THEN r.node ELSE at
        /\ stepInput' = IF r.kind = "input" THEN [node |-> r.node, st |-> r.st] ELSE stepInput
        /\ submitted' = (submitted \/ r.kind = "author")
        /\ critique' = IF r.kind = "critic" THEN [verdict |-> r.verdict, text |-> r.text] ELSE critique
        /\ passed' = IF r.kind # "critic" THEN passed ELSE IF r.verdict = "pass" THEN r.text ELSE 0
        /\ refused' = IF r.kind = "author" THEN FALSE
                      ELSE IF r.kind = "paused" THEN r.st.note ELSE refused
        /\ ckpt' = IF r.kind = "paused" THEN [status |-> "pausing", node |-> r.node, st |-> r.st]
                   ELSE ckpt
    BY <1>1, Zenon DEF Read
  <1>3. Logs'
    BY <1>1, <1>2, LoggedTyped
  <1>4. /\ critique'.verdict = IF r.kind = "critic" THEN r.verdict ELSE critique.verdict
        /\ critique'.text = IF r.kind = "critic" THEN r.text ELSE critique.text
        /\ Stopped' <=> Stopped \/ r.kind = "paused"
    BY <1>2 DEF Stopped
  <1>5. Now \in Views /\ Now' \in Views /\ Seen(Now, r) \in Views
    <2>1. Typed'
      BY ReadTyped
    <2>2. Typed' => (Now \in Views)'
      BY NowTyped, PTL
    <2> QED BY <1>1, <2>1, <2>2, NowTyped, SeenTyped
  <1>6. r.kind \in {"author", "step", "handoff", "critic", "approved", "convention", "final", "input", "paused", "failure"}
    BY <1>1 DEF Records
  <1>7. /\ LastWorkNode' = Seen(Now, r).node /\ LastKind' = Seen(Now, r).last
        /\ Shown("author")' = Seen(Now, r).gave /\ Shown("resume")' = Seen(Now, r).resumed
        /\ TextOf("author")' = Seen(Now, r).first /\ TextOf("critic")' = Seen(Now, r).answer
        /\ TextOf("handoff")' = Seen(Now, r).handed
        /\ OpenVisit' = Seen(Now, r).open /\ OpenNumber' = Seen(Now, r).visit
        /\ OpenCheck' = Seen(Now, r).check /\ LastDecisive' = Seen(Now, r).decisive
    <2>1. CASE r.kind \in {"author", "step", "handoff", "critic", "approved", "convention"}
      <3>1. log' = IF r.kind = "author" THEN <<r>> ELSE Append(log, r)
        BY <2>1, <1>2 DEF Logged
      <3>2. /\ LastWorkNode' = IF r.kind = "author" THEN "author"
                               ELSE IF r.kind \in {"step", "resume"} THEN r.node
                               ELSE IF LastWorkNode = "none" THEN "critic" ELSE LastWorkNode
            /\ log' # <<>> /\ log'[Len(log')] = r
            /\ \A ks : Kinds(ks)' # {} <=> (r.kind \in ks \/ (r.kind # "author" /\ Kinds(ks) # {}))
            /\ \A ks : r.kind \in ks => log'[Newest(ks)'] = r
            /\ \A ks : r.kind \notin ks /\ Kinds(ks)' # {} => log'[Newest(ks)'] = log[Newest(ks)]
        BY <1>1, <1>3, <2>1, <3>1, NowLogs
      <3>3. OpenVisit' = IF r.kind = "step" /\ r.node = "critic" THEN "step"
                         ELSE IF r.kind \in {"author", "critic", "step"} THEN "none" ELSE OpenVisit
        <4>1. OpenVisit' = IF Kinds(Submits)' = {} THEN "none"
                           ELSE IF log'[Newest(Submits)'].kind \in {"step", "resume"} /\ log'[Newest(Submits)'].node = "critic"
                                THEN log'[Newest(Submits)'].kind ELSE "none"
          BY DEF OpenVisit
        <4>2. OpenVisit = IF Kinds(Submits) = {} THEN "none"
                          ELSE IF log[Newest(Submits)].kind \in {"step", "resume"} /\ log[Newest(Submits)].node = "critic"
                                THEN log[Newest(Submits)].kind ELSE "none"
          BY DEF OpenVisit
        <4>3. CASE r.kind \in Submits
          <5>1. log'[Newest(Submits)'] = r /\ Kinds(Submits)' # {}
            BY <3>2, <4>3
          <5> QED BY <2>1, <4>1, <4>3, <5>1 DEF Submits
        <4>4. CASE r.kind \notin Submits
          <5>1. /\ Kinds(Submits)' # {} <=> Kinds(Submits) # {}
                /\ Kinds(Submits) # {} => log'[Newest(Submits)'] = log[Newest(Submits)]
            BY <3>2, <4>4 DEF Submits
          <5> QED BY <4>1, <4>2, <4>4, <5>1 DEF Submits
        <4> QED BY <4>3, <4>4
      <3>4. OpenVisit' = "step" =>
              log'[Newest(Submits)'] = IF r.kind = "step" THEN r ELSE log[Newest(Submits)]
        <4>1. OpenVisit' = "step" => Kinds(Submits)' # {}
          BY DEF OpenVisit
        <4> QED BY <2>1, <3>2, <3>3, <4>1 DEF Submits
      <3>5. /\ OpenNumber' = IF r.kind = "step" /\ r.node = "critic" THEN SavedVisit(r.visit, r.verify)
                             ELSE IF r.kind \in {"author", "critic", "step"} THEN 0 ELSE OpenNumber
            /\ OpenCheck' = IF r.kind = "step" /\ r.node = "critic" THEN r.verify
                            ELSE IF r.kind \in {"author", "critic", "step"} THEN FALSE ELSE OpenCheck
        <4>1. /\ OpenNumber' = IF OpenVisit' # "step" THEN 0
                               ELSE SavedVisit(log'[Newest(Submits)'].visit, log'[Newest(Submits)'].verify)
              /\ OpenCheck' = (OpenVisit' = "step" /\ log'[Newest(Submits)'].verify)
          BY DEF OpenNumber, OpenCheck, SavedVisit
        <4>2. r.kind = "step" => r.verify \in BOOLEAN
          BY <1>1 DEF Records
        <4>3. CASE r.kind = "step"
          BY <3>3, <3>4, <4>1, <4>2, <4>3
        <4>4. CASE r.kind # "step"
          BY <2>1, <3>3, <3>4, <4>1, <4>4 DEF OpenNumber, OpenCheck
        <4> QED BY <4>3, <4>4
      <3>6. LastKind' = r.kind
        BY <3>2 DEF LastKind
      <3>7. \A k : Shown(k)' <=> (r.kind = k \/ (r.kind # "author" /\ Shown(k)))
        BY <3>2 DEF Shown
      <3>8. \A k : TextOf(k)' = IF r.kind = k THEN r.text ELSE IF r.kind = "author" THEN 0 ELSE TextOf(k)
        <4> TAKE k
        <4>1. CASE r.kind = k
          BY <3>2, <3>7, <4>1 DEF TextOf
        <4>2. CASE r.kind # k
          <5>1. Kinds({k})' # {} => log'[Newest({k})'] = log[Newest({k})]
            BY <3>2, <4>2
          <5>2. TextOf(k)' = IF Shown(k)' THEN log'[Newest({k})'].text ELSE 0
            BY DEF TextOf
          <5>3. Shown(k)' <=> r.kind # "author" /\ Shown(k)
            BY <3>7, <4>2
          <5>4. Shown(k)' => Kinds({k})' # {}
            BY DEF Shown
          <5> QED BY <4>2, <5>1, <5>2, <5>3, <5>4 DEF TextOf
        <4> QED BY <4>1, <4>2
      <3>9. LastDecisive' = IF r.kind \in Decisive THEN r.kind ELSE LastDecisive
        BY <3>2 DEF LastDecisive, Decisive
      <3>10. /\ Now.node = LastWorkNode /\ Now.gave = Shown("author") /\ Now.resumed = Shown("resume")
             /\ Now.first = TextOf("author") /\ Now.answer = TextOf("critic") /\ Now.handed = TextOf("handoff")
             /\ Now.open = OpenVisit /\ Now.visit = OpenNumber /\ Now.check = OpenCheck
             /\ Now.decisive = LastDecisive
        BY DEF Now
      <3> HIDE DEF r
      <3>11. LastWorkNode' = Seen(Now, r).node
        BY <2>1, <3>2, <3>10 DEF Seen
      <3>12. LastKind' = Seen(Now, r).last
        BY <2>1, <3>6 DEF Seen
      <3>13. Shown("author")' = Seen(Now, r).gave /\ Shown("resume")' = Seen(Now, r).resumed
        <4>1. /\ Shown("author")' \in BOOLEAN /\ Shown("resume")' \in BOOLEAN
              /\ Shown("author") \in BOOLEAN /\ Shown("resume") \in BOOLEAN
          BY DEF Shown
        <4>2. /\ Shown("author")' <=> (r.kind = "author" \/ (r.kind # "author" /\ Shown("author")))
              /\ Shown("resume")' <=> (r.kind = "resume" \/ (r.kind # "author" /\ Shown("resume")))
          BY <3>7
        <4>3. /\ Seen(Now, r).gave = (Now.gave \/ r.kind = "author")
              /\ Seen(Now, r).resumed = IF r.kind = "author" THEN FALSE ELSE Now.resumed
          BY DEF Seen
        <4> QED BY <2>1, <3>10, <4>1, <4>2, <4>3
      <3>14. /\ TextOf("author")' = Seen(Now, r).first /\ TextOf("critic")' = Seen(Now, r).answer
             /\ TextOf("handoff")' = Seen(Now, r).handed
        BY <2>1, <3>8, <3>10 DEF Seen
      <3>15. /\ OpenVisit' = Seen(Now, r).open /\ OpenNumber' = Seen(Now, r).visit
        BY <2>1, <3>3, <3>5, <3>10 DEF Seen
      <3>16. OpenCheck' = Seen(Now, r).check
        BY <2>1, <3>5, <3>10 DEF Seen
      <3>17. LastDecisive' = Seen(Now, r).decisive
        BY <2>1, <3>9, <3>10 DEF Seen
      <3> QED BY <3>11, <3>12, <3>13, <3>14, <3>15, <3>16, <3>17
    <2>2. CASE r.kind \in {"final", "input", "paused", "failure"}
      <3>1. log' = log
        BY <1>2, <2>2 DEF Logged
      <3>2. \A ks : Kinds(ks)' = Kinds(ks) /\ Newest(ks)' = Newest(ks)
        BY <3>1 DEF Kinds, Newest
      <3>3. /\ LastWorkNode' = LastWorkNode /\ OpenVisit' = OpenVisit /\ LastKind' = LastKind
            /\ OpenNumber' = OpenNumber /\ OpenCheck' = OpenCheck /\ LastDecisive' = LastDecisive
            /\ \A k : Shown(k)' = Shown(k) /\ TextOf(k)' = TextOf(k)
        BY <3>1, <3>2 DEF LastWorkNode, OpenVisit, LastKind, OpenNumber, OpenCheck, LastDecisive, Shown, TextOf
      <3>4. /\ Seen(Now, r).node = Now.node /\ Seen(Now, r).last = Now.last
            /\ Seen(Now, r).resumed = Now.resumed
            /\ Seen(Now, r).first = Now.first /\ Seen(Now, r).answer = Now.answer
            /\ Seen(Now, r).handed = Now.handed /\ Seen(Now, r).open = Now.open
        BY <2>2 DEF Seen
      <3>5. /\ Seen(Now, r).visit = Now.visit /\ Seen(Now, r).check = Now.check
            /\ Seen(Now, r).decisive = Now.decisive
        BY <2>2 DEF Seen, Decisive
      <3>6. Seen(Now, r).gave = Now.gave
        <4>1. Now.gave \in BOOLEAN
          BY <1>5, ViewGave
        <4> QED BY <2>2, <4>1 DEF Seen
      <3> QED BY <3>3, <3>4, <3>5, <3>6 DEF Now
    <2> QED BY <1>6, <2>1, <2>2
  <1>8. /\ at' = Seen(Now, r).at /\ stepInput' = Seen(Now, r).input
        /\ critique'.verdict = Seen(Now, r).verdict /\ critique'.text = Seen(Now, r).text
        /\ passed' = Seen(Now, r).passed /\ refused' = Seen(Now, r).refused
    BY <1>2, <1>4 DEF Now, Seen
  <1>9. submitted' = Seen(Now, r).submitted /\ Stopped' = Seen(Now, r).stopped
    <2>1. /\ Seen(Now, r).submitted = (Now.submitted \/ r.kind = "author")
          /\ Seen(Now, r).stopped = (Now.stopped \/ r.kind = "paused")
      BY DEF Seen
    <2>2. Stopped \in BOOLEAN /\ Stopped' \in BOOLEAN
      BY DEF Stopped
    <2>3. Now.submitted = submitted /\ Now.stopped = Stopped
      BY DEF Now
    <2> QED BY <1>2, <1>4, <2>1, <2>2, <2>3
  <1>10. /\ Now'.node = LastWorkNode' /\ Now'.at = at' /\ Now'.input = stepInput'
         /\ Now'.last = LastKind' /\ Now'.gave = Shown("author")' /\ Now'.first = TextOf("author")'
         /\ Now'.answer = TextOf("critic")' /\ Now'.handed = TextOf("handoff")'
         /\ Now'.open = OpenVisit' /\ Now'.visit = OpenNumber' /\ Now'.check = OpenCheck'
         /\ Now'.decisive = LastDecisive' /\ Now'.verdict = critique'.verdict
         /\ Now'.text = critique'.text /\ Now'.passed = passed' /\ Now'.refused = refused'
         /\ Now'.submitted = submitted' /\ Now'.resumed = Shown("resume")' /\ Now'.stopped = Stopped'
    BY DEF Now
  <1> QED BY <1>1, <1>5, <1>7, <1>8, <1>9, <1>10, SameView DEF r

\* What leaves the transcript and the reader's memory alone leaves the view.
LEMMA NowSame ==
    ASSUME UNCHANGED <<log, at, stepInput, passed, refused, submitted>>,
           critique'.verdict = critique.verdict, critique'.text = critique.text,
           Stopped' = Stopped
    PROVE  Now' = Now
  <1>1. \A ks : Kinds(ks)' = Kinds(ks) /\ Newest(ks)' = Newest(ks)
    BY DEF Kinds, Newest
  <1>2. /\ LastWorkNode' = LastWorkNode /\ OpenVisit' = OpenVisit /\ LastKind' = LastKind
        /\ OpenNumber' = OpenNumber /\ OpenCheck' = OpenCheck /\ LastDecisive' = LastDecisive
        /\ \A k : Shown(k)' = Shown(k) /\ TextOf(k)' = TextOf(k)
    BY <1>1 DEF LastWorkNode, OpenVisit, LastKind, OpenNumber, OpenCheck, LastDecisive, Shown, TextOf
  <1> QED BY <1>2 DEF Now

\* A resumed run.
ResumedView(u) ==
    /\ u.node = ckpt.node /\ u.at = ckpt.node /\ u.last = "resume"
    /\ u.input = IF ckpt.node = "author" THEN Nothing ELSE [node |-> ckpt.node, st |-> ckpt.st]
    /\ u.gave = Now.gave /\ u.first = Now.first /\ u.answer = Now.answer /\ u.handed = Now.handed
    /\ u.open = (IF ckpt.node = "critic" THEN "resume" ELSE "none") /\ u.visit = 0 /\ u.check = FALSE
    /\ u.decisive = Now.decisive /\ u.verdict = Now.verdict /\ u.text = Now.text
    /\ u.passed = 0 /\ u.refused = Now.refused /\ u.submitted = FALSE /\ u.resumed = TRUE
    /\ u.stopped = FALSE

LEMMA NowResumes ==
    ASSUME Typed, Resume
    PROVE  ResumedView(Now') /\ Now' \in Views
  <1> DEFINE e == [kind |-> "resume", node |-> ckpt.node]
  <1>1. e \in Entries /\ ckpt.node \in Nodes
    BY DEF Typed, ServerTyped, Entries
  <1>2. Typed'
    BY ResumeTyped
  <1>3. /\ log' = Append(log, e) /\ at' = ckpt.node /\ submitted' = FALSE /\ passed' = 0
        /\ stepInput' = IF ckpt.node = "author" THEN Nothing ELSE [node |-> ckpt.node, st |-> ckpt.st]
        /\ critique' = critique /\ refused' = refused
        /\ ckpt' = [ckpt EXCEPT !.status = "running"]
    BY DEF Resume, history
  <1>4. Logs'
    BY <1>2 DEF Typed, ServerTyped
  <1>5. /\ LastWorkNode' = ckpt.node /\ log' # <<>> /\ log'[Len(log')] = e
        /\ \A ks : Kinds(ks)' # {} <=> ("resume" \in ks \/ Kinds(ks) # {})
        /\ \A ks : "resume" \in ks => log'[Newest(ks)'] = e
        /\ \A ks : "resume" \notin ks /\ Kinds(ks)' # {} => log'[Newest(ks)'] = log[Newest(ks)]
    BY <1>1, <1>3, <1>4, NowLogs
  <1>6. LastKind' = "resume"
    BY <1>5 DEF LastKind
  <1>7. \A k : k # "resume" => Shown(k)' = Shown(k) /\ TextOf(k)' = TextOf(k)
    <2> TAKE k
    <2> HAVE k # "resume"
    <2>1. Kinds({k})' # {} <=> Kinds({k}) # {}
      BY <1>5
    <2>2. Kinds({k})' # {} => log'[Newest({k})'] = log[Newest({k})]
      BY <1>5
    <2>3. TextOf(k)' = IF Shown(k)' THEN log'[Newest({k})'].text ELSE 0
      BY DEF TextOf
    <2>4. Shown(k)' = Shown(k) /\ (Shown(k) => Kinds({k})' # {})
      BY <2>1 DEF Shown
    <2> QED BY <2>2, <2>3, <2>4 DEF TextOf
  <1>8. Shown("resume")' = TRUE
    BY <1>5 DEF Shown
  <1>9. OpenVisit' = IF ckpt.node = "critic" THEN "resume" ELSE "none"
    <2>1. Kinds(Submits)' # {} /\ log'[Newest(Submits)'] = e
      BY <1>5 DEF Submits
    <2>2. OpenVisit' = IF Kinds(Submits)' = {} THEN "none"
                       ELSE IF log'[Newest(Submits)'].kind \in {"step", "resume"} /\ log'[Newest(Submits)'].node = "critic"
                            THEN log'[Newest(Submits)'].kind ELSE "none"
      BY DEF OpenVisit
    <2> QED BY <2>1, <2>2
  <1>10. OpenNumber' = 0 /\ OpenCheck' = FALSE
    BY <1>9 DEF OpenNumber, OpenCheck
  <1>11. LastDecisive' = LastDecisive
    <2>1. Kinds(Decisive)' # {} <=> Kinds(Decisive) # {}
      BY <1>5 DEF Decisive
    <2>2. Kinds(Decisive)' # {} => log'[Newest(Decisive)'] = log[Newest(Decisive)]
      BY <1>5 DEF Decisive
    <2> QED BY <2>1, <2>2 DEF LastDecisive
  <1>12. Stopped' = FALSE
    BY <1>3 DEF Stopped, Typed, ServerTyped
  <1>13. Now' \in Views
    <2>1. Typed' => (Now \in Views)'
      BY NowTyped, PTL
    <2> QED BY <1>2, <2>1
  <1>14. /\ Now'.node = LastWorkNode' /\ Now'.at = at' /\ Now'.input = stepInput'
         /\ Now'.last = LastKind' /\ Now'.gave = Shown("author")' /\ Now'.first = TextOf("author")'
         /\ Now'.answer = TextOf("critic")' /\ Now'.handed = TextOf("handoff")'
         /\ Now'.open = OpenVisit' /\ Now'.visit = OpenNumber' /\ Now'.check = OpenCheck'
         /\ Now'.decisive = LastDecisive' /\ Now'.verdict = critique'.verdict
         /\ Now'.text = critique'.text /\ Now'.passed = passed' /\ Now'.refused = refused'
         /\ Now'.submitted = submitted' /\ Now'.resumed = Shown("resume")' /\ Now'.stopped = Stopped'
    BY DEF Now
  <1>15. /\ Now.gave = Shown("author") /\ Now.first = TextOf("author") /\ Now.answer = TextOf("critic")
         /\ Now.handed = TextOf("handoff") /\ Now.decisive = LastDecisive
         /\ Now.verdict = critique.verdict /\ Now.text = critique.text /\ Now.refused = refused
    BY DEF Now
  <1> HIDE DEF e
  <1> QED BY <1>3, <1>5, <1>6, <1>7, <1>8, <1>9, <1>10, <1>11, <1>12, <1>13, <1>14, <1>15 DEF ResumedView

\* The pipe and the views along it.
LEMMA TrackIs ==
    ASSUME Typed, NEW w, Tracks(w)
    PROVE  /\ Len(pipe) \in Nat /\ DOMAIN pipe = 1 .. Len(pipe) /\ w[0] = Now /\ w[0] \in Views
           /\ \A i \in 0 .. Len(pipe) : w[i] \in Views
           /\ \A j \in 1 .. Len(pipe) : pipe[j] \in Records /\ w[j - 1] \in Views
                                        /\ w[j] = Seen(w[j - 1], pipe[j])
  <1>1. Len(pipe) \in Nat /\ DOMAIN pipe = 1 .. Len(pipe) /\ pipe \in Seq(Records)
    BY LenProperties DEF Typed, PipeTyped
  <1>2. \A j \in 1 .. Len(pipe) : pipe[j] \in Records
    BY <1>1, ElementOfSeq
  <1> QED BY <1>1, <1>2 DEF Tracks

LEMMA TrackSame ==
    ASSUME NEW w, Tracks(w), pipe' = pipe, Now' = Now
    PROVE  Tracks(w)'
  BY DEF Tracks

\* u is w with one more view, after record r.
Extends(u, w, r) ==
    /\ Len(pipe)' = Len(pipe) + 1 /\ pipe'[Len(pipe) + 1] = r
    /\ \A j \in 1 .. Len(pipe) : pipe'[j] = pipe[j]
    /\ \A i \in 0 .. Len(pipe) : u[i] = w[i]
    /\ u[Len(pipe) + 1] = Seen(w[Len(pipe)], r) /\ u[Len(pipe) + 1] \in Views

LEMMA TrackEmit ==
    ASSUME Typed, NEW w, Tracks(w), NEW r \in Records, Emit(r), Now' = Now
    PROVE  \E u : Tracks(u)' /\ Extends(u, w, r)
  <1> DEFINE n == Len(pipe)
             f == [i \in 0 .. n + 1 |-> IF i <= n THEN w[i] ELSE Seen(w[n], r)]
  <1>1. /\ n \in Nat /\ w[0] = Now /\ \A i \in 0 .. n : w[i] \in Views
        /\ \A j \in 1 .. n : w[j] = Seen(w[j - 1], pipe[j])
    BY TrackIs
  <1>2. /\ pipe' \in Seq(Records) /\ Len(pipe') = n + 1 /\ pipe'[n + 1] = r
        /\ \A j \in 1 .. n : pipe'[j] = pipe[j]
    BY AppendProperties DEF Emit, Typed, PipeTyped
  <1>3. Seen(w[n], r) \in Views
    BY <1>1, SeenTyped
  <1> HIDE DEF n
  <1>4. PICK u : /\ u \in [0 .. n + 1 -> Views] /\ \A i \in 0 .. n : u[i] = w[i]
                 /\ u[n + 1] = Seen(w[n], r) /\ u[0] = w[0]
    <2>1. /\ f \in [0 .. n + 1 -> Views] /\ \A i \in 0 .. n : f[i] = w[i]
          /\ f[n + 1] = Seen(w[n], r) /\ f[0] = w[0]
      BY <1>1, <1>3
    <2> HIDE DEF f
    <2> QED BY <2>1
  <1> HIDE DEF f
  <1>5. ASSUME NEW j \in 1 .. n + 1 PROVE u[j] = Seen(u[j - 1], pipe'[j])
    <2>1. CASE j <= n
      BY <1>1, <1>2, <1>4, <2>1
    <2>2. CASE j = n + 1
      BY <1>1, <1>2, <1>4, <2>2
    <2> QED BY <1>1, <2>1, <2>2
  <1>6. Tracks(u)'
    BY <1>1, <1>2, <1>4, <1>5 DEF Tracks, n
  <1>7. Extends(u, w, r)
    BY <1>2, <1>3, <1>4 DEF Extends, n
  <1> QED BY <1>6, <1>7

\* u is w without its first view.
Drops(u, w) ==
    /\ Len(pipe) \in Nat \ {0} /\ Len(pipe)' = Len(pipe) - 1
    /\ \A j \in 1 .. Len(pipe) - 1 : pipe'[j] = pipe[j + 1]
    /\ \A i \in 0 .. Len(pipe) - 1 : u[i] = w[i + 1]

LEMMA TrackRead ==
    ASSUME Typed, NEW w, Tracks(w), Read
    PROVE  \E u : Tracks(u)' /\ Drops(u, w)
  <1> DEFINE n == Len(pipe)
             f == [i \in 0 .. n - 1 |-> w[i + 1]]
  <1>1. /\ n \in Nat /\ w[0] = Now /\ \A i \in 0 .. n : w[i] \in Views
        /\ \A j \in 1 .. n : w[j] = Seen(w[j - 1], pipe[j])
    BY TrackIs
  <1>2. Now' = Seen(Now, pipe[1]) /\ n >= 1
    BY NowReads
  <1>3. Len(pipe') = n - 1 /\ \A j \in 1 .. n - 1 : pipe'[j] = pipe[j + 1]
    BY <1>1, <1>2, HeadTailProperties, EmptySeq DEF Read, Typed, PipeTyped
  <1> HIDE DEF n
  <1>4. PICK u : u \in [0 .. n - 1 -> Views] /\ \A i \in 0 .. n - 1 : u[i] = w[i + 1]
    <2>1. f \in [0 .. n - 1 -> Views] /\ \A i \in 0 .. n - 1 : f[i] = w[i + 1]
      BY <1>1, <1>2
    <2> HIDE DEF f
    <2> QED BY <2>1
  <1> HIDE DEF f
  <1>5. u[0] = Now'
    BY <1>1, <1>2, <1>4
  <1>6. ASSUME NEW j \in 1 .. n - 1 PROVE u[j] = Seen(u[j - 1], pipe'[j])
    <2>1. u[j] = w[j + 1] /\ u[j - 1] = w[j]
      BY <1>1, <1>4
    <2>2. w[j + 1] = Seen(w[j], pipe[j + 1])
      BY <1>1
    <2> QED BY <1>3, <2>1, <2>2
  <1>7. Tracks(u)'
    BY <1>1, <1>2, <1>3, <1>4, <1>5, <1>6 DEF Tracks, n
  <1>8. Drops(u, w)
    BY <1>1, <1>2, <1>3, <1>4 DEF Drops, n
  <1> QED BY <1>7, <1>8

LEMMA TrackEmpty ==
    ASSUME Typed', pipe' = <<>>
    PROVE  \E u : Tracks(u)' /\ u[0] = Now' /\ Len(pipe') = 0
  <1> DEFINE f == [i \in {0} |-> Now']
  <1>1. Now' \in Views
    <2>1. Typed' => (Now \in Views)'
      BY NowTyped, PTL
    <2> QED BY <2>1
  <1>2. Len(pipe') = 0
    BY EmptySeq
  <1>3. PICK u : u \in [0 .. 0 -> Views] /\ u[0] = Now'
    <2>1. f \in [0 .. 0 -> Views] /\ f[0] = Now'
      BY <1>1
    <2> HIDE DEF f
    <2> QED BY <2>1
  <1> HIDE DEF f
  <1>4. Tracks(u)'
    BY <1>2, <1>3 DEF Tracks
  <1> QED BY <1>2, <1>3, <1>4

-----------------------------------------------------------------------------
(* The feedback: the runner's steps *)

LEMMA OwnNow ==
    ASSUME RunnersOwn
    PROVE  /\ Now' = Now /\ Stopped' = Stopped
           /\ UNCHANGED <<stages, ckpt, request, log, critique, result, failed, phase, at, stepInput,
                          passed, submitted, pauses, accepted, refused, cutShort, gap>>
  <1>1. UNCHANGED <<stages, ckpt, request, log, critique, result, failed, phase, at, stepInput,
                    passed, submitted, pauses, accepted, refused, cutShort, gap>>
    BY DEF RunnersOwn, trace, reader, history
  <1>2. Stopped' = Stopped
    BY <1>1 DEF Stopped
  <1> QED BY <1>1, <1>2, NowSame

LEMMA NotedAfter ==
    ASSUME NEW v \in Views, NEW r \in Records, Noted(v),
           r.kind \in {"input", "paused"} => NoteOk(r),
           r.kind = "step" => (v.refused => r.node = "author")
    PROVE  Noted(Seen(v, r))
  <1>1. /\ r.kind \in {"author", "step", "handoff", "critic", "approved", "convention", "final",
                       "input", "paused", "failure"}
        /\ r.kind \in {"input", "paused"} => r.st \in States /\ r.st.note \in BOOLEAN
    BY DEF Records, States
  <1>2. /\ v.submitted \in BOOLEAN /\ v.gave \in BOOLEAN /\ v.resumed \in BOOLEAN
        /\ v.stopped \in BOOLEAN /\ v.refused \in BOOLEAN
    BY DEF Views
  <1> DEFINE u == Seen(v, r)
  <1>3. /\ u.gave = (v.gave \/ r.kind = "author") /\ u.submitted = (v.submitted \/ r.kind = "author")
        /\ u.resumed = IF r.kind = "author" THEN FALSE ELSE v.resumed
        /\ u.input = IF r.kind = "input" THEN [node |-> r.node, st |-> r.st] ELSE v.input
        /\ u.refused = IF r.kind = "author" THEN FALSE ELSE IF r.kind = "paused" THEN r.st.note ELSE v.refused
        /\ u.at = IF r.kind = "author" THEN "author" ELSE IF r.kind \in {"step", "paused"} THEN r.node ELSE v.at
        /\ u.stopped = (v.stopped \/ r.kind = "paused")
        /\ u.node = IF r.kind = "author" THEN "author" ELSE IF r.kind = "step" THEN r.node
              ELSE IF v.node = "none" /\ r.kind \in {"handoff", "critic", "approved", "convention"} THEN "critic"
              ELSE v.node
    BY DEF Seen
  <1> HIDE DEF u
  <1>4. u.submitted <=> (u.gave /\ ~u.resumed)
    BY <1>2, <1>3 DEF Noted
  <1>5. NoteOk(u.input)
    BY <1>1, <1>3 DEF Noted, NoteOk
  <1>6. u.refused => u.at = "author"
    BY <1>1, <1>2, <1>3 DEF Noted, NoteOk
  <1>7. ~u.stopped => /\ u.refused <=> ckpt.st.note /\ ~u.submitted
                      /\ u.node # "author" => ~u.refused
    BY <1>1, <1>2, <1>3 DEF Noted
  <1> QED BY <1>4, <1>5, <1>6, <1>7 DEF Noted, u

\* The runner sends one record more.
LEMMA SendNoted ==
    ASSUME Typed, NEW w, Tracks(w), Feedback(w), RunnersOwn, Working,
           NEW r \in Records, Emit(r), NEW v, v = Seen(w[Len(pipe)], r),
           r.kind \in {"input", "paused"} => NoteOk(r),
           r.kind = "step" => (w[Len(pipe)].refused => r.node = "author"),
           r.kind = "paused" => pc' = "exited" /\ (r.node = "author" => Told(v, r.st)),
           pc' \notin {"dead", "off"},
           RunnerNoted(v)'
    PROVE  \E u : Tracks(u)' /\ Feedback(u)'
  <1> DEFINE n == Len(pipe)
  <1>u. PICK u : Tracks(u)' /\ Extends(u, w, r)
    BY OwnNow, TrackEmit
  <1>1. /\ n \in Nat /\ w[0] = Now /\ \A i \in 0 .. n : w[i] \in Views
    BY TrackIs
  <1>2. /\ Len(pipe)' = n + 1 /\ pipe'[n + 1] = r
        /\ \A j \in 1 .. n : pipe'[j] = pipe[j]
        /\ \A i \in 0 .. n : u[i] = w[i]
        /\ u[n + 1] = Seen(w[n], r) /\ u[n + 1] \in Views
    BY <1>u DEF Extends
  <1>3. /\ \A i \in 0 .. n : Noted(w[i])
        /\ \A j \in 1 .. n : SentNoted(w, j)
        /\ ServerNoted(w[0]) /\ RunnerNoted(w[n])
    BY DEF Feedback
  <1>4. UNCHANGED <<ckpt, phase, result, failed>>
    BY OwnNow
  <1>5. \A j \in 1 .. n : pipe[j].kind # "paused"
    BY <1>3 DEF SentNoted, Working
  <1>6. Noted(Seen(w[n], r))
    BY <1>1, <1>3, NotedAfter
  <1> HIDE DEF n
  <1>7. ASSUME NEW i \in 0 .. n + 1 PROVE Noted(u[i])'
    <2>1. Noted(u[i])
      BY <1>1, <1>2, <1>3, <1>6
    <2> QED BY <1>4, <2>1 DEF Noted
  <1>8. ASSUME NEW j \in 1 .. n + 1 PROVE SentNoted(u, j)'
    <2>1. CASE j \in 1 .. n
      BY <1>1, <1>2, <1>3, <1>5, <2>1 DEF SentNoted
    <2>2. CASE j = n + 1
      BY <1>1, <1>2, <2>2 DEF SentNoted, n, Told
    <2> QED BY <1>1, <2>1, <2>2
  <1>9. ServerNoted(u[0])'
    <2>1. phase \in {"running", "pausing"}
      BY <1>3 DEF ServerNoted, Working, Typed, ServerTyped
    <2>2. NoteOk(ckpt)' /\ (phase = "pausing" => ckpt.status = "pausing" /\ ~ckpt.st.note)
      BY <1>3, <1>4 DEF ServerNoted, NoteOk
    <2> QED BY <1>3, <1>4, <2>1, <2>2 DEF ServerNoted
  <1>10. RunnerNoted(u[Len(pipe)])'
    <2>1. u[Len(pipe)]' = v
      BY <1>2 DEF n
    <2> QED BY <2>1 DEF RunnerNoted, Told, Ended, Kept
  <1> QED BY <1>u, <1>2, <1>7, <1>8, <1>9, <1>10 DEF Feedback, n

\* The runner sends nothing.
LEMMA QuietNoted ==
    ASSUME Typed, NEW w, Tracks(w), Feedback(w), RunnersOwn, Working, pipe' = pipe,
           pc' \notin {"dead", "off", "exited"}, RunnerNoted(w[Len(pipe)])'
    PROVE  Tracks(w)' /\ Feedback(w)'
  <1>1. UNCHANGED <<ckpt, phase, result, failed>> /\ Now' = Now
    BY OwnNow
  <1>2. Tracks(w)'
    BY <1>1, TrackSame
  <1>3. /\ \A i \in 0 .. Len(pipe) : Noted(w[i])
        /\ \A j \in 1 .. Len(pipe) : SentNoted(w, j)
        /\ ServerNoted(w[0]) /\ RunnerNoted(w[Len(pipe)])
    BY DEF Feedback
  <1>4. \A i \in 0 .. Len(pipe) : Noted(w[i])'
    BY <1>1, <1>3 DEF Noted
  <1>5. \A j \in 1 .. Len(pipe) : SentNoted(w, j)'
    BY <1>3 DEF SentNoted, Working, Told
  <1>6. ServerNoted(w[0])'
    <2>1. phase \in {"running", "pausing"}
      BY <1>3 DEF ServerNoted, Working, Typed, ServerTyped
    <2>2. NoteOk(ckpt)' /\ (phase = "pausing" => ckpt.status = "pausing" /\ ~ckpt.st.note)
      BY <1>1, <1>3 DEF ServerNoted, NoteOk
    <2> QED BY <1>1, <1>3, <2>1, <2>2 DEF ServerNoted
  <1> QED BY <1>2, <1>4, <1>5, <1>6 DEF Feedback

\* What every step of the runner starts from.
LEMMA StepNoted ==
    ASSUME Typed, NEW w, Tracks(w), Feedback(w), NEW v, v = w[Len(pipe)], Working
    PROVE  /\ v \in Views /\ st.note \in BOOLEAN /\ st \in States /\ node \in Nodes
           /\ st.note = v.refused /\ (st.note => node = "author") /\ (node = "latex" => st.sol # 0)
           /\ v.stopped => phase = "pausing"
           /\ node = "author" => pc \in {"top", "work", "capture", "publish"}
           /\ pc = "work" => node = "author"
           /\ pc = "capture" => ~st.note
           /\ node = "author" /\ pc \in {"top", "work"} => Told(v, st)
           /\ pc = "after" => v.text = st.sol /\ (st.report = "reject" => v.verdict = "reject")
           /\ pc \in {"publish", "final_input"} => st.sol # 0
  <1>1. v \in Views
    BY TrackIs
  <1>2. st \in States /\ node \in Nodes /\ st.note \in BOOLEAN
    BY DEF Typed, StepTyped, States
  <1> QED BY <1>1, <1>2 DEF Feedback, RunnerNoted

\* A step that ends the runner with its checkpoint.
LEMMA PausesNoted ==
    ASSUME Typed, NEW w, Tracks(w), Feedback(w), RunnersOwn, Working,
           NEW n \in Nodes, NEW s \in States, PausesAt(n, s),
           (s.note => n = "author") /\ (n = "latex" => s.sol # 0),
           n = "author" /\ w[Len(pipe)].verdict = "reject" /\ ~s.note
             => s.report = "reject" /\ s.sol = w[Len(pipe)].text
    PROVE  \E u : Tracks(u)' /\ Feedback(u)'
  <1> DEFINE r == [kind |-> "paused", node |-> n, st |-> s]
  <1>1. PICK v : v = Seen(w[Len(pipe)], r)
    OBVIOUS
  <1>2. r \in Records /\ Emit(r) /\ pc' = "exited"
    BY DEF Records, PausesAt
  <1>3. v.refused = s.note /\ v.verdict = w[Len(pipe)].verdict /\ v.text = w[Len(pipe)].text
    BY <1>1 DEF Seen
  <1>4. n = "author" => Told(v, s)
    BY <1>3 DEF Told
  <1>5. RunnerNoted(v)'
    <2>1. Len(pipe') = Len(pipe) + 1 /\ pipe'[Len(pipe) + 1] = r /\ Len(pipe) \in Nat
      BY <1>2, AppendedIs, PipeIs DEF Typed
    <2>2. pipe' # <<>> /\ pipe'[Len(pipe')].kind = "paused"
      BY <2>1, EmptySeq
    <2> QED BY <1>2, <2>2 DEF RunnerNoted, Working, Ended
  <1>6. NoteOk(r)
    BY DEF NoteOk
  <1>7. r.kind = "paused" /\ r.node = n /\ r.st = s
    OBVIOUS
  <1> HIDE DEF r
  <1> QED BY <1>1, <1>2, <1>4, <1>5, <1>6, <1>7, SendNoted

LEMMA BeginStepNoted ==
    ASSUME Typed, NEW w, Tracks(w), Feedback(w), BeginStep
    PROVE  \E u : Tracks(u)' /\ Feedback(u)'
  <1>1. RunnersOwn /\ Working
    BY DEF BeginStep, NoOtherActor, RunnersOwn, Working
  <1>2. PICK v : v = w[Len(pipe)]
    OBVIOUS
  <1>3. /\ v \in Views /\ st.note \in BOOLEAN /\ st \in States /\ node \in Nodes
        /\ st.note = v.refused /\ (st.note => node = "author") /\ (node = "latex" => st.sol # 0)
        /\ v.stopped => phase = "pausing"
        /\ node = "author" => Told(v, st)
    BY <1>1, <1>2, StepNoted DEF BeginStep
  <1>4. visits + 1 \in Nat /\ verify \in BOOLEAN
    BY DEF Typed, StepTyped
  <1>5. CASE request
    <2> DEFINE s == IF node = "author" THEN st ELSE StepVisit(st, node, visits + 1, verify)
    <2>1. s \in States /\ s.sol = st.sol /\ s.note = st.note /\ s.report = st.report
      BY <1>3, <1>4, StepVisitIs
    <2>2. PausesAt(node, s)
      BY <1>5 DEF BeginStep
    <2> HIDE DEF s
    <2>3. node = "author" => (v.verdict = "reject" /\ ~s.note => s.report = "reject" /\ s.sol = v.text)
      BY <1>3, <2>1 DEF Told
    <2> QED BY <1>1, <1>2, <1>3, <2>1, <2>2, <2>3, PausesNoted
  <1>6. CASE ~request
    <2> DEFINE r == [kind |-> "step", node |-> node, visit |-> visits + 1, verify |-> verify]
    <2>1. r \in Records /\ Emit(r)
      BY <1>3, <1>4, <1>6 DEF BeginStep, Records
    <2>2. PICK u : u = Seen(v, r)
      OBVIOUS
    <2>3. /\ u.refused = v.refused /\ u.verdict = v.verdict /\ u.text = v.text /\ u.stopped = v.stopped
      BY <1>3, <2>2 DEF Seen, Views
    <2>4. /\ pc' = CASE node = "author" -> "work" [] node = "latex" -> "final_input" [] OTHER -> "prepare"
          /\ node' = node /\ st' = st /\ phase' = phase
      BY <1>1, <1>6, OwnNow DEF BeginStep
    <2>5. RunnerNoted(u)'
      BY <1>3, <2>3, <2>4 DEF RunnerNoted, Told, Working
    <2>6. pc' \notin {"dead", "off"}
      BY <2>4
    <2>7. r.kind = "step" /\ (v.refused => r.node = "author")
      BY <1>3
    <2> HIDE DEF r
    <2> QED BY <1>1, <1>2, <2>1, <2>2, <2>5, <2>6, <2>7, SendNoted
  <1> QED BY <1>5, <1>6

LEMMA AuthorSubmitsNoted ==
    ASSUME Typed, NEW w, Tracks(w), Feedback(w), AuthorSubmits
    PROVE  \E u : Tracks(u)' /\ Feedback(u)'
  <1>1. RunnersOwn /\ Working
    BY DEF AuthorSubmits, NoOtherActor, RunnersOwn, Working
  <1>2. PICK v : v = w[Len(pipe)]
    OBVIOUS
  <1>3. v \in Views /\ (v.stopped => phase = "pausing")
    BY <1>1, <1>2, StepNoted
  <1>4. node = "author" /\ v \in Views
    BY <1>1, <1>2, StepNoted DEF AuthorSubmits
  <1>5. Typed'
    BY AuthorSubmitsTyped
  <1> DEFINE r == [kind |-> "author", text |-> st'.sol]
  <1>6. Emit(r) /\ st'.note = FALSE
    BY DEF AuthorSubmits, Typed, StepTyped, States
  <1>7. r \in Records
    BY <1>5 DEF Records, Typed, StepTyped, States, Texts
  <1>8. PICK u : u = Seen(v, r)
    OBVIOUS
  <1>9. u.refused = FALSE /\ u.stopped = v.stopped
    BY <1>4, <1>8 DEF Seen, Views
  <1>10. /\ (pc' = "top" /\ node' = "critic") \/ (pc' = "capture" /\ node' = node)
         /\ phase' = phase
    BY <1>1, OwnNow DEF AuthorSubmits, GoTo
  <1>11. RunnerNoted(u)'
    BY <1>3, <1>4, <1>6, <1>9, <1>10 DEF RunnerNoted, Working
  <1>12. r.kind = "author" /\ pc' \notin {"dead", "off"}
    BY <1>10
  <1> HIDE DEF r
  <1> QED BY <1>1, <1>2, <1>6, <1>7, <1>8, <1>11, <1>12, SendNoted

LEMMA AuthorPausesNoted ==
    ASSUME Typed, NEW w, Tracks(w), Feedback(w), AuthorPauses
    PROVE  \E u : Tracks(u)' /\ Feedback(u)'
  <1>1. RunnersOwn /\ Working /\ PausesAt("author", st)
    BY DEF AuthorPauses, NoOtherActor, RunnersOwn, Working
  <1>2. node = "author" /\ st \in States /\ Told(w[Len(pipe)], st) /\ st.note = w[Len(pipe)].refused
    BY <1>1, StepNoted DEF AuthorPauses
  <1> QED BY <1>1, <1>2, PausesNoted DEF Told, Nodes

\* A refused submission goes back with the reason.
LEMMA RefuseNoted ==
    ASSUME Typed, NEW w, Tracks(w), Feedback(w), RunnersOwn, Working, Refuse
    PROVE  \E u : Tracks(u)' /\ Feedback(u)'
  <1> DEFINE s == [(IF previous = "author" THEN before ELSE st) EXCEPT !.note = TRUE]
  <1>1. s \in States /\ s.note
    BY DEF Typed, StepTyped, States
  <1>2. PausesAt("author", s)
    BY DEF Refuse
  <1> HIDE DEF s
  <1> QED BY <1>1, <1>2, PausesNoted DEF Nodes

LEMMA PrepareNoted ==
    ASSUME Typed, NEW w, Tracks(w), Feedback(w), Prepare
    PROVE  \E u : Tracks(u)' /\ Feedback(u)'
  <1>1. RunnersOwn /\ Working
    BY DEF Prepare, NoOtherActor, RunnersOwn, Working
  <1>2. CASE Candidate = 0
    BY <1>1, <1>2, RefuseNoted DEF Prepare
  <1>3. CASE Candidate # 0
    <2>1. PICK v : v = w[Len(pipe)]
      OBVIOUS
    <2>2. /\ v \in Views /\ st \in States /\ st.note = v.refused /\ (st.note => node = "author")
          /\ v.stopped => phase = "pausing"
          /\ node # "author"
      BY <1>1, <2>1, StepNoted DEF Prepare
    <2> DEFINE r == [kind |-> "handoff", text |-> Candidate]
    <2>3. Candidate \in Texts
      BY Numbers DEF Candidate, Typed, StepTyped, FilesTyped, States, Texts
    <2>4. r \in Records /\ Emit(r)
      BY <1>3, <2>3 DEF Prepare, Records
    <2>5. PICK u : u = Seen(v, r)
      OBVIOUS
    <2>6. u.refused = v.refused /\ u.stopped = v.stopped
      BY <2>2, <2>5 DEF Seen, Views
    <2>7. /\ pc' = "input" /\ node' = node /\ phase' = phase
          /\ st' = [st EXCEPT !.sol = Candidate, !.captured = Candidate]
      BY <1>1, <1>3, OwnNow DEF Prepare, StaysAt
    <2>8. st'.note = st.note /\ st'.sol = Candidate
      BY <2>2, <2>7 DEF States
    <2>9. RunnerNoted(u)'
      BY <1>3, <2>2, <2>6, <2>7, <2>8 DEF RunnerNoted, Working
    <2>10. r.kind = "handoff" /\ pc' \notin {"dead", "off"}
      BY <2>7
    <2> HIDE DEF r
    <2> QED BY <1>1, <2>1, <2>4, <2>5, <2>9, <2>10, SendNoted
  <1> QED BY <1>2, <1>3

LEMMA ReportInputNoted ==
    ASSUME Typed, NEW w, Tracks(w), Feedback(w), ReportInput
    PROVE  \E u : Tracks(u)' /\ Feedback(u)'
  <1>1. RunnersOwn /\ Working
    BY DEF ReportInput, NoOtherActor, RunnersOwn, Working
  <1>2. PICK v : v = w[Len(pipe)]
    OBVIOUS
  <1>3. /\ v \in Views /\ st \in States /\ node \in Nodes /\ st.note = v.refused
        /\ (st.note => node = "author") /\ (node = "latex" => st.sol # 0)
        /\ v.stopped => phase = "pausing"
        /\ node # "author"
    BY <1>1, <1>2, StepNoted DEF ReportInput
  <1> DEFINE s == StepVisit(st, node, visits, verify)
             r == [kind |-> "input", node |-> node, st |-> s]
  <1>4. s \in States /\ s.sol = st.sol /\ s.note = st.note
    BY <1>3, StepVisitIs DEF Typed, StepTyped
  <1>5. r \in Records /\ Emit(r)
    BY <1>3, <1>4 DEF ReportInput, Records
  <1>6. PICK u : u = Seen(v, r)
    OBVIOUS
  <1>7. u.refused = v.refused /\ u.stopped = v.stopped
    BY <1>3, <1>6 DEF Seen, Views
  <1>8. pc' \in {"write", "model"} /\ node' = node /\ phase' = phase /\ st' = st
    BY <1>1, OwnNow DEF ReportInput, StaysAt
  <1>9. RunnerNoted(u)'
    BY <1>3, <1>7, <1>8 DEF RunnerNoted, Working
  <1> HIDE DEF s
  <1>10. r.kind = "input" /\ NoteOk(r) /\ pc' \notin {"dead", "off"}
    BY <1>3, <1>4, <1>8 DEF NoteOk
  <1> HIDE DEF r
  <1> QED BY <1>1, <1>2, <1>5, <1>6, <1>9, <1>10, SendNoted

\* The steps that send nothing.
LEMMA SilentNoted ==
    ASSUME Typed, NEW w, Tracks(w), Feedback(w), SaveCandidate \/ SaveFinalInput \/ AfterCritic
    PROVE  \E u : Tracks(u)' /\ Feedback(u)'
  <1>1. RunnersOwn /\ Working /\ pipe' = pipe /\ st' = st
    BY DEF SaveCandidate, SaveFinalInput, AfterCritic, NoOtherActor, RunnersOwn, Working
  <1>2. PICK v : v = w[Len(pipe)]
    OBVIOUS
  <1>3. /\ v \in Views /\ st \in States /\ node \in Nodes /\ st.note = v.refused
        /\ (st.note => node = "author") /\ (node = "latex" => st.sol # 0)
        /\ v.stopped => phase = "pausing"
        /\ node = "author" => pc \in {"top", "work", "capture", "publish"}
        /\ pc = "after" => v.text = st.sol /\ (st.report = "reject" => v.verdict = "reject")
    BY <1>1, <1>2, StepNoted
  <1>4. phase' = phase
    BY <1>1, OwnNow
  <1>5. RunnerNoted(v)' /\ pc' \notin {"dead", "off", "exited"}
    <2>1. CASE SaveCandidate \/ SaveFinalInput
      <3>1. node' = node /\ pc' \in {"model", "input"} /\ node # "author"
        BY <1>3, <2>1 DEF SaveCandidate, SaveFinalInput, StaysAt
      <3> QED BY <1>1, <1>3, <1>4, <3>1 DEF RunnerNoted, Working
    <2>2. CASE AfterCritic
      <3>1. pc = "after" /\ node = "critic" /\ st.report \in {"pass", "fixed", "reject"}
        BY <2>2 DEF AfterCritic, Typed, HasText
      <3>2. \/ pc' \in {"approve", "top", "revise"} /\ node' = node
            \/ pc' = "top" /\ node' = "author" /\ st.report = "reject"
        <4>1. CASE st.report = "pass"
          BY <2>2, <4>1 DEF AfterCritic, StaysAt
        <4>2. CASE st.report = "fixed"
          BY <2>2, <4>2 DEF AfterCritic
        <4>3. CASE st.report = "reject"
          BY <2>2, <4>3 DEF AfterCritic, StaysAt, GoTo
        <4> QED BY <3>1, <4>1, <4>2, <4>3
      <3>3. CASE pc' \in {"approve", "top", "revise"} /\ node' = node
        BY <1>1, <1>3, <1>4, <3>1, <3>3 DEF RunnerNoted, Working
      <3>4. CASE pc' = "top" /\ node' = "author" /\ st.report = "reject"
        BY <1>1, <1>3, <1>4, <3>1, <3>4 DEF RunnerNoted, Working, Told
      <3> QED BY <3>2, <3>3, <3>4
    <2> QED BY <2>1, <2>2
  <1>6. RunnerNoted(w[Len(pipe)])'
    BY <1>1, <1>2, <1>5
  <1> QED BY <1>1, <1>5, <1>6, QuietNoted

LEMMA CriticAnswersNoted ==
    ASSUME Typed, NEW w, Tracks(w), Feedback(w), NEW outcome \in {"pass", "fixed", "reject"},
           NEW t \in Texts, CriticAnswers(outcome, t)
    PROVE  \E u : Tracks(u)' /\ Feedback(u)'
  <1>1. RunnersOwn /\ Working /\ node = "critic"
    BY DEF CriticAnswers, NoOtherActor, RunnersOwn, Working
  <1>2. PICK v : v = w[Len(pipe)]
    OBVIOUS
  <1>3. /\ v \in Views /\ st \in States /\ st.note = v.refused /\ ~st.note
        /\ v.stopped => phase = "pausing"
    BY <1>1, <1>2, StepNoted
  <1> DEFINE r == [kind |-> "critic", verdict |-> IF outcome = "reject" THEN "reject" ELSE "pass",
                   edited |-> t # st.sol, text |-> t]
  <1>4. r \in Records /\ Emit(r)
    BY DEF CriticAnswers, Records
  <1>5. PICK u : u = Seen(v, r)
    OBVIOUS
  <1>6. /\ u.refused = v.refused /\ u.stopped = v.stopped /\ u.text = t
        /\ outcome = "reject" => u.verdict = "reject"
    BY <1>3, <1>5 DEF Seen, Views
  <1>7. /\ pc' = "after" /\ node' = node /\ phase' = phase
        /\ st' = [st EXCEPT !.sol = t, !.report = outcome]
    BY <1>1, OwnNow DEF CriticAnswers, StaysAt
  <1>8. st'.note = st.note /\ st'.sol = t /\ st'.report = outcome
    BY <1>3, <1>7 DEF States
  <1>9. RunnerNoted(u)'
    BY <1>1, <1>3, <1>6, <1>7, <1>8 DEF RunnerNoted, Working
  <1>10. r.kind = "critic" /\ pc' \notin {"dead", "off"}
    BY <1>7
  <1> HIDE DEF r
  <1> QED BY <1>1, <1>2, <1>4, <1>5, <1>9, <1>10, SendNoted

LEMMA CriticNoted ==
    ASSUME Typed, NEW w, Tracks(w), Feedback(w), CriticPasses \/ CriticFixes \/ CriticRejects
    PROVE  \E u : Tracks(u)' /\ Feedback(u)'
  <1>1. st.sol \in Texts /\ made + 1 \in Int
    BY DEF Typed, StepTyped, States, Texts, TextsTyped
  <1>2. CASE CriticPasses
    BY <1>1, <1>2, CriticAnswersNoted DEF CriticPasses
  <1>3. CASE CriticFixes
    <2>1. made + 1 \in Texts
      BY <1>3, Numbers DEF CriticFixes, Typed, TextsTyped, Texts
    <2> QED BY <1>3, <2>1, CriticAnswersNoted DEF CriticFixes
  <1>4. CASE CriticRejects
    <2>1. PICK t \in {st.sol} \cup ({made + 1} \cap Proofs) : CriticAnswers("reject", t)
      BY <1>4 DEF CriticRejects
    <2>2. t \in Texts
      BY <1>1, Numbers
    <2> QED BY <2>1, <2>2, CriticAnswersNoted
  <1> QED BY <1>2, <1>3, <1>4

LEMMA ApproveNoted ==
    ASSUME Typed, NEW w, Tracks(w), Feedback(w), Approve \/ ConventionAnswers
    PROVE  \E u : Tracks(u)' /\ Feedback(u)'
  <1>1. RunnersOwn /\ Working /\ st' = st
    BY DEF Approve, ConventionAnswers, NoOtherActor, RunnersOwn, Working
  <1>2. PICK v : v = w[Len(pipe)]
    OBVIOUS
  <1>3. /\ v \in Views /\ st \in States /\ st.note = v.refused /\ ~st.note
        /\ v.stopped => phase = "pausing"
    BY <1>1, <1>2, StepNoted DEF Approve, ConventionAnswers
  <1>4. PICK r : r \in Records /\ Emit(r) /\ r.kind \in {"approved", "convention"}
    BY DEF Approve, ConventionAnswers, Records
  <1>5. PICK u : u = Seen(v, r)
    OBVIOUS
  <1>6. u.refused = v.refused /\ u.stopped = v.stopped
    BY <1>3, <1>4, <1>5 DEF Seen, Views
  <1>7. phase' = phase
    BY <1>1, OwnNow
  <1>8. RunnerNoted(u)' /\ pc' \notin {"dead", "off"}
    <2>1. CASE Approve
      BY <1>1, <1>3, <1>6, <1>7, <2>1 DEF Approve, GoTo, RunnerNoted, Working
    <2>2. CASE ConventionAnswers
      <3>1. \/ pc' = "top" /\ node' = "latex"
            \/ pc' = "publish" /\ node' = "convention"
        BY <2>2, FinishTyped DEF ConventionAnswers
      <3>2. st.sol # 0
        BY <2>2 DEF ConventionAnswers, Typed, HasText
      <3> QED BY <1>1, <1>3, <1>6, <1>7, <3>1, <3>2 DEF RunnerNoted, Working
    <2> QED BY <2>1, <2>2
  <1> QED BY <1>1, <1>2, <1>4, <1>5, <1>8, SendNoted

LEMMA EndNoted ==
    ASSUME Typed, NEW w, Tracks(w), Feedback(w), Revise \/ Publish
    PROVE  \E u : Tracks(u)' /\ Feedback(u)'
  <1>1. RunnersOwn /\ Working /\ pc' = "exited"
    BY DEF Revise, Publish, NoOtherActor, RunnersOwn, Working
  <1>2. st.sol \in Texts
    BY DEF Typed, StepTyped, States, Texts
  <1>3. Publish => st.sol # 0
    BY <1>1, StepNoted DEF Publish
  <1>4. PICK r : /\ r \in Records /\ Emit(r)
                 /\ r.kind = "failure" \/ (r.kind = "final" /\ r.text # 0)
    BY <1>2, <1>3 DEF Revise, Publish, Records
  <1>5. PICK v : v = Seen(w[Len(pipe)], r)
    OBVIOUS
  <1>6. RunnerNoted(v)'
    <2>1. Len(pipe') = Len(pipe) + 1 /\ pipe'[Len(pipe) + 1] = r /\ Len(pipe) \in Nat
      BY <1>4, AppendedIs, PipeIs DEF Typed
    <2>2. pipe' # <<>> /\ pipe'[Len(pipe')] = r
      BY <2>1, EmptySeq
    <2> QED BY <1>1, <1>4, <2>2 DEF RunnerNoted, Working, Ended
  <1> QED BY <1>1, <1>4, <1>5, <1>6, SendNoted

LEMMA CaptureNoted ==
    ASSUME Typed, NEW w, Tracks(w), Feedback(w), Capture
    PROVE  \E u : Tracks(u)' /\ Feedback(u)'
  <1>1. RunnersOwn /\ Working
    BY DEF Capture, NoOtherActor, RunnersOwn, Working
  <1> DEFINE c == IF st.sol = InFile THEN proofFile ELSE st.sol
  <1>2. CASE c = 0
    BY <1>1, <1>2, RefuseNoted DEF Capture
  <1>3. CASE c # 0
    <2>1. st' = [st EXCEPT !.sol = c] /\ Finish /\ pipe' = pipe
      BY <1>3 DEF Capture
    <2> HIDE DEF c
    <2>2. PICK v : v = w[Len(pipe)]
      OBVIOUS
    <2>3. /\ v \in Views /\ st \in States /\ node \in Nodes /\ st.note = v.refused
          /\ (st.note => node = "author") /\ (node = "latex" => st.sol # 0)
          /\ v.stopped => phase = "pausing"
          /\ pc = "capture" /\ ~st.note
      BY <1>1, <2>2, StepNoted DEF Capture
    <2>4. st'.sol = c /\ st'.note = st.note
      BY <2>1, <2>3 DEF States
    <2>5. (pc' = "top" /\ node' = "latex") \/ (pc' = "publish" /\ node' = node)
      BY <2>1, FinishTyped
    <2>6. phase' = phase
      BY <1>1, OwnNow
    <2>7. RunnerNoted(v)' /\ pc' \notin {"dead", "off", "exited"}
      BY <1>3, <2>3, <2>4, <2>5, <2>6 DEF RunnerNoted, Working
    <2>8. RunnerNoted(w[Len(pipe)])'
      BY <2>1, <2>2, <2>7
    <2> QED BY <1>1, <2>1, <2>7, <2>8, QuietNoted
  <1> QED BY <1>2, <1>3

LEMMA StepFailsNoted ==
    ASSUME Typed, NEW w, Tracks(w), Feedback(w), StepFails
    PROVE  \E u : Tracks(u)' /\ Feedback(u)'
  <1>1. RunnersOwn /\ Working /\ PausesAt(node, StepVisit(st, node, visits, verify))
    BY DEF StepFails, NoOtherActor, RunnersOwn, Working
  <1>2. /\ st \in States /\ node \in Nodes /\ (st.note => node = "author")
        /\ (node = "latex" => st.sol # 0) /\ node # "author"
    BY <1>1, StepNoted DEF StepFails
  <1>3. /\ StepVisit(st, node, visits, verify) \in States
        /\ StepVisit(st, node, visits, verify).sol = st.sol
        /\ StepVisit(st, node, visits, verify).note = st.note
    BY <1>2, StepVisitIs DEF Typed, StepTyped
  <1> QED BY <1>1, <1>2, <1>3, PausesNoted

LEMMA RunnerStepNoted ==
    ASSUME Typed, NEW w, Tracks(w), Feedback(w), Runner
    PROVE  \E u : Tracks(u)' /\ Feedback(u)'
  BY BeginStepNoted, AuthorSubmitsNoted, AuthorPausesNoted, PrepareNoted, ReportInputNoted, SilentNoted,
     CriticNoted, ApproveNoted, EndNoted, CaptureNoted, StepFailsNoted DEF Runner

-----------------------------------------------------------------------------
\* A saved checkpoint only changes what the server knows of it.
Halted(v) == [v EXCEPT !.stopped = TRUE]

LEMMA HaltedIs ==
    ASSUME NEW v \in Views
    PROVE  /\ Halted(v) \in Views /\ Halted(v).stopped
           /\ Halted(v).node = v.node /\ Halted(v).at = v.at /\ Halted(v).input = v.input
           /\ Halted(v).last = v.last /\ Halted(v).gave = v.gave /\ Halted(v).first = v.first
           /\ Halted(v).answer = v.answer /\ Halted(v).handed = v.handed /\ Halted(v).open = v.open
           /\ Halted(v).visit = v.visit /\ Halted(v).check = v.check
           /\ Halted(v).decisive = v.decisive /\ Halted(v).verdict = v.verdict
           /\ Halted(v).text = v.text /\ Halted(v).passed = v.passed
           /\ Halted(v).refused = v.refused /\ Halted(v).submitted = v.submitted
           /\ Halted(v).resumed = v.resumed
  BY DEF Halted, Views

LEMMA HaltedSeen ==
    ASSUME NEW v \in Views, NEW r \in Records
    PROVE  Seen(Halted(v), r) = Halted(Seen(v, r))
  <1> DEFINE h == Halted(v)
             a == Seen(h, r)
             b == Seen(v, r)
             c == Halted(b)
  <1>1. h \in Views /\ a \in Views /\ b \in Views /\ c \in Views
    BY HaltedIs, SeenTyped
  <1>2. /\ h.node = v.node /\ h.at = v.at /\ h.input = v.input /\ h.last = v.last /\ h.gave = v.gave
        /\ h.first = v.first /\ h.answer = v.answer /\ h.handed = v.handed /\ h.open = v.open
        /\ h.visit = v.visit /\ h.check = v.check /\ h.decisive = v.decisive /\ h.verdict = v.verdict
        /\ h.text = v.text /\ h.passed = v.passed /\ h.refused = v.refused
        /\ h.submitted = v.submitted /\ h.resumed = v.resumed /\ h.stopped
    BY HaltedIs
  <1>3. /\ c.node = b.node /\ c.at = b.at /\ c.input = b.input /\ c.last = b.last /\ c.gave = b.gave
        /\ c.first = b.first /\ c.answer = b.answer /\ c.handed = b.handed /\ c.open = b.open
        /\ c.visit = b.visit /\ c.check = b.check /\ c.decisive = b.decisive /\ c.verdict = b.verdict
        /\ c.text = b.text /\ c.passed = b.passed /\ c.refused = b.refused
        /\ c.submitted = b.submitted /\ c.resumed = b.resumed /\ c.stopped
    BY <1>1, HaltedIs
  <1> HIDE DEF h
  <1>4. /\ a.node = b.node /\ a.at = b.at /\ a.input = b.input /\ a.last = b.last /\ a.gave = b.gave
        /\ a.first = b.first /\ a.answer = b.answer
    BY <1>2 DEF Seen
  <1>5. /\ a.handed = b.handed /\ a.open = b.open
        /\ a.visit = b.visit /\ a.check = b.check /\ a.decisive = b.decisive
    BY <1>2 DEF Seen
  <1>6. /\ a.verdict = b.verdict /\ a.text = b.text /\ a.passed = b.passed /\ a.refused = b.refused
        /\ a.submitted = b.submitted /\ a.resumed = b.resumed
    BY <1>2 DEF Seen
  <1>7. a.stopped = c.stopped
    <2>1. a.stopped = (h.stopped \/ r.kind = "paused")
      BY DEF Seen
    <2>2. h.stopped /\ c.stopped /\ a.stopped \in BOOLEAN /\ c.stopped \in BOOLEAN
      BY <1>1, <1>2, <1>3 DEF Views
    <2> HIDE DEF a, c, h
    <2> QED BY <2>1, <2>2
  <1> HIDE DEF a, b, c
  <1>8. /\ a.node = c.node /\ a.at = c.at /\ a.input = c.input /\ a.last = c.last /\ a.gave = c.gave
        /\ a.first = c.first /\ a.answer = c.answer /\ a.handed = c.handed /\ a.open = c.open
        /\ a.visit = c.visit /\ a.check = c.check /\ a.decisive = c.decisive /\ a.verdict = c.verdict
        /\ a.text = c.text /\ a.passed = c.passed /\ a.refused = c.refused
        /\ a.submitted = c.submitted /\ a.resumed = c.resumed
    BY <1>3, <1>4, <1>5, <1>6
  <1>9. a = c
    BY <1>1, <1>7, <1>8, SameView
  <1> QED BY <1>9 DEF a, b, c, h

LEMMA NowHalts ==
    ASSUME Typed, Typed', UNCHANGED <<log, at, stepInput, passed, refused, submitted, critique>>, Stopped'
    PROVE  Now' = Halted(Now)
  <1>1. \A ks : Kinds(ks)' = Kinds(ks) /\ Newest(ks)' = Newest(ks)
    BY DEF Kinds, Newest
  <1>2. /\ LastWorkNode' = LastWorkNode /\ OpenVisit' = OpenVisit /\ LastKind' = LastKind
        /\ OpenNumber' = OpenNumber /\ OpenCheck' = OpenCheck /\ LastDecisive' = LastDecisive
        /\ \A k : Shown(k)' = Shown(k) /\ TextOf(k)' = TextOf(k)
    BY <1>1 DEF LastWorkNode, OpenVisit, LastKind, OpenNumber, OpenCheck, LastDecisive, Shown, TextOf
  <1>3. Now \in Views /\ Now' \in Views
    <2>1. Typed' => (Now \in Views)'
      BY NowTyped, PTL
    <2> QED BY <2>1, NowTyped
  <1> DEFINE h == Halted(Now)
  <1>4. /\ h \in Views /\ h.node = Now.node /\ h.at = Now.at /\ h.input = Now.input
        /\ h.last = Now.last /\ h.gave = Now.gave /\ h.first = Now.first /\ h.answer = Now.answer
        /\ h.handed = Now.handed /\ h.open = Now.open /\ h.visit = Now.visit /\ h.check = Now.check
        /\ h.decisive = Now.decisive /\ h.verdict = Now.verdict /\ h.text = Now.text
        /\ h.passed = Now.passed /\ h.refused = Now.refused /\ h.submitted = Now.submitted
        /\ h.resumed = Now.resumed /\ h.stopped
    BY <1>3, HaltedIs
  <1> HIDE DEF h
  <1>5. /\ Now'.node = Now.node /\ Now'.at = Now.at /\ Now'.input = Now.input
        /\ Now'.last = Now.last /\ Now'.gave = Now.gave /\ Now'.first = Now.first /\ Now'.answer = Now.answer
        /\ Now'.handed = Now.handed /\ Now'.open = Now.open /\ Now'.visit = Now.visit /\ Now'.check = Now.check
        /\ Now'.decisive = Now.decisive /\ Now'.verdict = Now.verdict /\ Now'.text = Now.text
        /\ Now'.passed = Now.passed /\ Now'.refused = Now.refused /\ Now'.submitted = Now.submitted
        /\ Now'.resumed = Now.resumed
    BY <1>2 DEF Now
  <1>6. Now'.stopped
    BY DEF Now
  <1>7. Now'.stopped = h.stopped
    BY <1>3, <1>4, <1>6 DEF Views
  <1>8. Now' = h
    <2>1. /\ Now'.node = h.node /\ Now'.at = h.at /\ Now'.input = h.input
          /\ Now'.last = h.last /\ Now'.gave = h.gave /\ Now'.first = h.first /\ Now'.answer = h.answer
          /\ Now'.handed = h.handed /\ Now'.open = h.open /\ Now'.visit = h.visit /\ Now'.check = h.check
          /\ Now'.decisive = h.decisive /\ Now'.verdict = h.verdict /\ Now'.text = h.text
          /\ Now'.passed = h.passed /\ Now'.refused = h.refused /\ Now'.submitted = h.submitted
          /\ Now'.resumed = h.resumed
      BY <1>4, <1>5
    <2> QED BY <1>3, <1>4, <1>7, <2>1, SameView
  <1> QED BY <1>8 DEF h

LEMMA TrackHalts ==
    ASSUME Typed, Typed', NEW w, Tracks(w), pipe' = pipe,
           UNCHANGED <<log, at, stepInput, passed, refused, submitted, critique>>, Stopped'
    PROVE  \E u : Tracks(u)' /\ \A i \in 0 .. Len(pipe) : u[i] = Halted(w[i])
  <1> DEFINE n == Len(pipe)
             f == [i \in 0 .. n |-> Halted(w[i])]
  <1>1. /\ n \in Nat /\ w[0] = Now /\ \A i \in 0 .. n : w[i] \in Views
        /\ \A j \in 1 .. n : pipe[j] \in Records /\ w[j] = Seen(w[j - 1], pipe[j])
    BY TrackIs
  <1>2. Now' = Halted(Now)
    BY NowHalts
  <1> HIDE DEF n
  <1>3. PICK u : u \in [0 .. n -> Views] /\ \A i \in 0 .. n : u[i] = Halted(w[i])
    <2>1. f \in [0 .. n -> Views] /\ \A i \in 0 .. n : f[i] = Halted(w[i])
      BY <1>1, HaltedIs
    <2> HIDE DEF f
    <2> QED BY <2>1
  <1> HIDE DEF f
  <1>4. ASSUME NEW j \in 1 .. n PROVE u[j] = Seen(u[j - 1], pipe[j])
    <2>1. u[j] = Halted(w[j]) /\ u[j - 1] = Halted(w[j - 1]) /\ w[j - 1] \in Views
      BY <1>1, <1>3
    <2> QED BY <1>1, <2>1, HaltedSeen
  <1>5. Len(pipe') = n
    BY DEF n
  <1> QED BY <1>1, <1>2, <1>3, <1>4, <1>5 DEF Tracks, n
-----------------------------------------------------------------------------
(* The feedback: the server's steps *)

LEMMA ReadNoted ==
    ASSUME Typed, NEW w, Tracks(w), Feedback(w), Read
    PROVE  \E u : Tracks(u)' /\ Feedback(u)'
  <1> DEFINE n == Len(pipe)
             r == pipe[1]
  <1>1. PICK u : Tracks(u)' /\ Drops(u, w)
    BY TrackRead
  <1>2. /\ n \in Nat \ {0} /\ Len(pipe)' = n - 1
        /\ \A j \in 1 .. n - 1 : pipe'[j] = pipe[j + 1]
        /\ \A i \in 0 .. n - 1 : u[i] = w[i + 1]
    BY <1>1 DEF Drops
  <1>3. /\ \A i \in 0 .. n : Noted(w[i])
        /\ \A j \in 1 .. n : SentNoted(w, j)
        /\ ServerNoted(w[0]) /\ RunnerNoted(w[n])
    BY DEF Feedback
  <1>4. /\ phase \in {"running", "pausing"} /\ pipe # <<>> /\ Head(pipe) = r
        /\ result' = (IF r.kind = "final" THEN r.text ELSE result)
        /\ failed' = (failed \/ r.kind = "failure")
        /\ phase' = (IF r.kind = "paused" THEN "pausing" ELSE phase)
        /\ ckpt' = IF r.kind = "paused" THEN [status |-> "pausing", node |-> r.node, st |-> r.st]
                   ELSE ckpt
        /\ RunnerRests
    <2>1. Head(pipe) = r
      BY HeadIs DEF Read, Typed
    <2> QED BY <2>1, Zenon DEF Read
  <1>5. /\ w[0] \in Views /\ w[1] \in Views /\ w[1] = Seen(w[0], r) /\ r \in Records
        /\ \A i \in 0 .. n : w[i] \in Views
    BY <1>2, TrackIs
  <1>6. r.kind = "paused" => /\ n = 1 /\ pc = "exited" /\ NoteOk(r) /\ w[1].stopped
                             /\ (r.node = "author" => Told(w[1], r.st))
                             /\ w[1].refused = r.st.note
    <2> SUFFICES ASSUME r.kind = "paused"
                 PROVE  /\ n = 1 /\ pc = "exited" /\ NoteOk(r) /\ w[1].stopped
                        /\ (r.node = "author" => Told(w[1], r.st))
                        /\ w[1].refused = r.st.note
      OBVIOUS
    <2>1. SentNoted(w, 1)
      BY <1>2, <1>3
    <2>2. NoteOk(r) /\ n = 1 /\ pc = "exited" /\ (r.node = "author" => Told(w[1], r.st))
      BY <2>1 DEF SentNoted
    <2>3. w[1].stopped /\ w[1].refused = r.st.note
      <3>1. w[1].stopped = (w[0].stopped \/ r.kind = "paused")
        BY <1>5 DEF Seen
      <3>2. w[1].refused = r.st.note
        BY <1>5 DEF Seen
      <3> QED BY <3>1, <3>2
    <2> QED BY <2>2, <2>3
  <1>7. /\ pc' = pc /\ st' = st /\ node' = node
    BY <1>4 DEF RunnerRests, runner
  <1>8. pipe' = <<>> <=> n = 1
    <2>1. pipe' \in Seq(Records)
      BY HeadIs DEF Read, Typed
    <2> QED BY <1>2, <2>1, EmptySeq
  <1> HIDE DEF n, r
  <1>9. ASSUME NEW i \in 0 .. n - 1 PROVE Noted(u[i])'
    <2>1. Noted(w[i + 1]) /\ u[i] = w[i + 1]
      BY <1>2, <1>3
    <2>2. CASE r.kind = "paused"
      <3>1. i = 0 /\ w[1].stopped
        BY <1>2, <1>6, <2>2
      <3> QED BY <2>1, <3>1 DEF Noted
    <2>3. CASE r.kind # "paused"
      BY <1>4, <2>1, <2>3 DEF Noted
    <2> QED BY <2>2, <2>3
  <1>10. ASSUME NEW j \in 1 .. n - 1 PROVE SentNoted(u, j)'
    <2>1. SentNoted(w, j + 1) /\ u[j] = w[j + 1] /\ pipe'[j] = pipe[j + 1]
      BY <1>2, <1>3
    <2> QED BY <1>2, <1>7, <2>1 DEF SentNoted, Told, n
  <1>11. NoteOk(ckpt')
    BY <1>3, <1>4, <1>6 DEF ServerNoted, NoteOk
  <1>12. ServerNoted(u[0])'
    <2>1. CASE r.kind = "paused"
      BY <1>4, <1>6, <1>7, <1>8, <1>11, <2>1 DEF ServerNoted, Working, NoteOk
    <2>2. CASE r.kind # "paused"
      BY <1>3, <1>4, <1>7, <1>11, <2>2 DEF ServerNoted, Working, NoteOk
    <2> QED BY <2>1, <2>2
  <1>13. PICK v : v = w[n]
    OBVIOUS
  <1>14. pc = "exited" => Ended(v)'
    <2> SUFFICES ASSUME pc = "exited" PROVE Ended(v)'
      OBVIOUS
    <2>1. Ended(v)
      BY <1>3, <1>13 DEF RunnerNoted
    <2>2. /\ pipe[n].kind \in {"paused", "failure", "final"}
          /\ pipe[n].kind = "final" => pipe[n].text # 0
      BY <1>4, <2>1 DEF Ended, n
    <2>3. CASE n > 1
      <3>1. pipe'[n - 1] = pipe[n] /\ pipe' # <<>> /\ Len(pipe') = n - 1
        BY <1>2, <1>8, <2>3
      <3> QED BY <2>2, <3>1 DEF Ended
    <2>4. CASE n = 1
      <3>1. pipe' = <<>> /\ pipe[n] = r /\ v = w[1]
        BY <1>8, <1>13, <2>4 DEF r
      <3>2. CASE r.kind = "paused"
        <4>1. phase' = "pausing" /\ ckpt'.node = r.node /\ ckpt'.st = r.st
          BY <1>4, <3>2
        <4> QED BY <1>6, <3>1, <3>2, <4>1 DEF Ended, Kept, Told
      <3>3. CASE r.kind # "paused"
        BY <1>4, <2>2, <3>1, <3>3 DEF Ended
      <3> QED BY <3>2, <3>3
    <2> QED BY <1>2, <2>3, <2>4
  <1>15. RunnerNoted(v)'
    <2>1. RunnerNoted(v)
      BY <1>3, <1>13
    <2> QED BY <1>4, <1>7, <1>14, <2>1 DEF RunnerNoted, Working, Told
  <1>16. RunnerNoted(u[Len(pipe)])'
    <2>1. u[Len(pipe)]' = v
      BY <1>2, <1>13
    <2> QED BY <1>15, <2>1 DEF RunnerNoted, Told, Ended, Kept
  <1> QED BY <1>1, <1>2, <1>9, <1>10, <1>12, <1>16 DEF Feedback

\* What an unfinished author continues from.
LEMMA UnfinishedNoted ==
    ASSUME Typed, Noted(Now), ~Now.stopped, NEW again, again <=> Now.submitted
    PROVE  /\ NoteOk(Unfinished(again)) /\ Unfinished(again).st.note = Now.refused
           /\ Told(Now, Unfinished(again).st)
  <1> DEFINE s == WithoutOldNote(ckpt.st, again)
             c == Unfinished(again)
  <1>1. ckpt.st \in States /\ ckpt.st.note \in BOOLEAN /\ Now.submitted \in BOOLEAN /\ Now.refused \in BOOLEAN
    BY NowTyped DEF Typed, ServerTyped, States, Views
  <1>2. s \in States /\ (s.note <=> ckpt.st.note /\ ~again)
    BY <1>1 DEF WithoutOldNote, States
  <1>3. critique.verdict = Now.verdict /\ critique.text = Now.text
    BY DEF Now
  <1>4. c.node = "author" /\ c.st = WithRejection(s)
    BY DEF Unfinished
  <1> HIDE DEF s, c
  <1>5. /\ WithRejection(s).note = s.note
        /\ Now.verdict = "reject" => WithRejection(s).report = "reject" /\ WithRejection(s).sol = Now.text
    BY <1>2, <1>3 DEF WithRejection, States
  <1>6. s.note = Now.refused
    BY <1>1, <1>2 DEF Noted, States
  <1> QED BY <1>4, <1>5, <1>6 DEF NoteOk, Told, c

\* What a restarted server continues from.
LEMMA RebuiltNoted ==
    ASSUME Typed, Noted(Now), ~Now.stopped, Rebuilt # Nothing
    PROVE  /\ NoteOk(Rebuilt) /\ Rebuilt.st.note = Now.refused
           /\ Rebuilt.node = "author" => Told(Now, Rebuilt.st)
  <1>1. Now.node = LastWorkNode /\ Now.gave = Shown("author") /\ Now.resumed = Shown("resume")
        /\ critique.verdict = Now.verdict /\ critique.text = Now.text
    BY DEF Now
  <1>2. Now \in Views /\ Now.submitted \in BOOLEAN
    BY NowTyped DEF Views
  <1>3. \/ LastWorkNode = "author" /\ Rebuilt = Unfinished(SubmittedSinceResume)
        \/ LastWorkNode # "author" /\ Rebuilt = InterruptedStage(LastWorkNode)
    BY Zenon DEF Rebuilt
  <1>4. CASE LastWorkNode = "author" /\ Rebuilt = Unfinished(SubmittedSinceResume)
    <2>1. Logs /\ DOMAIN log = 1 .. Len(log) /\ Len(log) \in Nat /\ log \in Seq(Entries)
      BY LenProperties DEF Typed, ServerTyped, Logs
    <2>2. Shown("author") <=> log # <<>> /\ log[1].kind = "author"
      <3>1. Shown("author") => log # <<>> /\ log[1].kind = "author"
        <4> SUFFICES ASSUME NEW i \in DOMAIN log, log[i].kind = "author"
                     PROVE  log # <<>> /\ log[1].kind = "author"
          BY DEF Shown, Kinds
        <4>1. i = 1
          BY <2>1 DEF Logs
        <4> QED BY <2>1, <4>1, EmptySeq
      <3>2. log # <<>> => 1 \in DOMAIN log
        BY <2>1, EmptySeq
      <3> QED BY <3>1, <3>2 DEF Shown, Kinds
    <2>3. Shown("resume") <=> Kinds({"resume"}) # {}
      BY DEF Shown
    <2>4. SubmittedSinceResume <=> Now.submitted
      BY <1>1, <2>2, <2>3 DEF SubmittedSinceResume, Noted
    <2> QED BY <1>4, <2>4, UnfinishedNoted
  <1>5. CASE LastWorkNode # "author" /\ Rebuilt = InterruptedStage(LastWorkNode)
    <2> DEFINE n == LastWorkNode
               text == IF Kinds({"critic"}) # {} THEN log[Newest({"critic"})].text
                       ELSE InterruptedCandidate
    <2>1. Now.refused = FALSE
      BY <1>1, <1>2, <1>5 DEF Noted, Views
    <2>2. \/ Rebuilt = At("latex", Input(finalInput))
          \/ Rebuilt = At("convention", Input(text))
          \/ critique.verdict = "reject" /\ Rebuilt = At("author", [Input(critique.text) EXCEPT !.report = "reject"])
          \/ Rebuilt = At("critic", InterruptedVisit(Input(InterruptedCandidate)))
      BY <1>5, Zenon DEF InterruptedStage
    <2>3. \A p : Input(p).note = FALSE /\ Input(p).sol = p /\ [Input(p) EXCEPT !.report = "reject"].sol = p
                 /\ [Input(p) EXCEPT !.report = "reject"].note = FALSE
                 /\ [Input(p) EXCEPT !.report = "reject"].report = "reject"
      BY DEF Input, Blank
    <2>4. \A m, s : At(m, s) # Nothing => At(m, s).node = m /\ At(m, s).st = s /\ s.sol # 0
      BY DEF At
    <2>5. InterruptedVisit(Input(InterruptedCandidate)).note = FALSE
      <3>1. ASSUME NEW v, NEW check PROVE StepVisit(Input(InterruptedCandidate), "critic", v, check).note = FALSE
        BY DEF StepVisit, Input, Blank
      <3>2. [Input(InterruptedCandidate) EXCEPT !.visit = ckpt.st.visit, !.verify = ckpt.st.verify].note = FALSE
        BY DEF Input, Blank
      <3> DEFINE seen == {i \in Kinds({"author", "critic", "step", "resume"}) :
                            log[i].kind = "step" => log[i].node = "critic"}
                 r == log[CHOOSE i \in seen : \A j \in seen : j <= i]
                 s == Input(InterruptedCandidate)
      <3>3. \/ InterruptedVisit(s) = s
            \/ InterruptedVisit(s) = StepVisit(s, "critic", r.visit, r.verify)
            \/ InterruptedVisit(s) = [s EXCEPT !.visit = ckpt.st.visit, !.verify = ckpt.st.verify]
        BY Zenon DEF InterruptedVisit
      <3>4. s.note = FALSE /\ (\A v, check : StepVisit(s, "critic", v, check).note = FALSE)
            /\ [s EXCEPT !.visit = ckpt.st.visit, !.verify = ckpt.st.verify].note = FALSE
        BY <2>3, <3>1, <3>2
      <3> HIDE DEF seen, r, s
      <3>5. InterruptedVisit(s).note = FALSE
        BY <3>3, <3>4, Zenon
      <3> QED BY <3>5 DEF s
    <2> HIDE DEF text
    <2>6. ASSUME NEW m, NEW s, Rebuilt = At(m, s)
          PROVE  Rebuilt.node = m /\ Rebuilt.st = s /\ s.sol # 0
      BY <2>4, <2>6
    <2>7. CASE critique.verdict = "reject" /\ Rebuilt = At("author", [Input(critique.text) EXCEPT !.report = "reject"])
      <3> DEFINE s == [Input(critique.text) EXCEPT !.report = "reject"]
      <3>1. s.note = FALSE /\ s.report = "reject" /\ s.sol = critique.text
        BY <2>3
      <3> HIDE DEF s
      <3>2. Rebuilt.node = "author" /\ Rebuilt.st = s
        BY <2>6, <2>7 DEF s
      <3> QED BY <1>1, <2>1, <3>1, <3>2 DEF NoteOk, Told
    <2>8. ASSUME NEW m \in {"latex", "convention", "critic"}, NEW s, s.note = FALSE, Rebuilt = At(m, s)
          PROVE  /\ NoteOk(Rebuilt) /\ Rebuilt.st.note = Now.refused
                 /\ Rebuilt.node = "author" => Told(Now, Rebuilt.st)
      <3>1. Rebuilt.node = m /\ Rebuilt.st = s /\ s.sol # 0
        BY <2>6, <2>8
      <3> QED BY <2>1, <2>8, <3>1 DEF NoteOk
    <2>9. Input(finalInput).note = FALSE /\ Input(text).note = FALSE
      BY <2>3
    <2> QED BY <2>2, <2>5, <2>7, <2>8, <2>9
  <1> QED BY <1>3, <1>4, <1>5

\* The server saves checkpoint c of a run whose runner is gone, or gives it up.
LEMMA StopsNoted ==
    ASSUME Typed, Typed', NEW w, Tracks(w), Feedback(w), pipe = <<>>, pc' = "off",
           UNCHANGED <<pipe, trace, reader, refused>>, NEW c, Stops(c), NoteOk(c),
           c.st.note = Now.refused, c.node = "author" => Told(Now, c.st)
    PROVE  \E u : Tracks(u)' /\ Feedback(u)'
  <1>1. /\ phase' = "paused" /\ ckpt' = [status |-> "paused", node |-> c.node, st |-> c.st]
        /\ UNCHANGED <<log, at, stepInput, passed, refused, submitted, critique>> /\ pipe' = <<>>
    BY DEF Stops, trace, reader
  <1>2. Stopped'
    BY <1>1 DEF Stopped
  <1>3. PICK u : Tracks(u)' /\ \A i \in 0 .. Len(pipe) : u[i] = Halted(w[i])
    BY <1>1, <1>2, TrackHalts
  <1>4. Len(pipe) = 0 /\ Len(pipe') = 0 /\ w[0] = Now /\ Now \in Views /\ u[0] = Halted(Now)
    BY <1>1, <1>3, EmptySeq, TrackIs
  <1>5. /\ u[0].submitted = Now.submitted /\ u[0].gave = Now.gave /\ u[0].resumed = Now.resumed
        /\ u[0].input = Now.input /\ u[0].refused = Now.refused /\ u[0].at = Now.at /\ u[0].stopped
        /\ u[0].verdict = Now.verdict /\ u[0].text = Now.text
    BY <1>4, HaltedIs
  <1>6. Noted(u[0])'
    <2>1. Noted(Now)
      BY <1>4 DEF Feedback
    <2> QED BY <1>5, <2>1 DEF Noted
  <1>7. ckpt'.node = c.node /\ ckpt'.st = c.st /\ ckpt'.status = "paused"
    BY <1>1
  <1>8. ServerNoted(u[0])'
    BY <1>1, <1>5, <1>7 DEF ServerNoted, Working, NoteOk, Kept, Told
  <1>9. RunnerNoted(u[0])'
    BY DEF RunnerNoted, Working
  <1>10. \A i \in 0 .. Len(pipe') : Noted(u[i])'
    BY <1>4, <1>6
  <1>11. \A j \in 1 .. Len(pipe') : SentNoted(u, j)'
    BY <1>4
  <1>12. RunnerNoted(u[Len(pipe)])'
    BY <1>4, <1>9
  <1> QED BY <1>3, <1>8, <1>10, <1>11, <1>12 DEF Feedback

LEMMA EndsNoted ==
    ASSUME Typed, Typed', NEW w, Tracks(w), Feedback(w), pipe = <<>>, pc' = "off",
           UNCHANGED <<pipe, trace, reader, refused, ckpt>>, phase' = "done"
    PROVE  \E u : Tracks(u)' /\ Feedback(u)'
  <1>1. UNCHANGED <<log, at, stepInput, passed, refused, submitted, critique, ckpt>> /\ pipe' = <<>>
    BY DEF trace, reader
  <1>2. Stopped' = Stopped
    BY <1>1 DEF Stopped
  <1>3. Tracks(w)'
    BY <1>1, <1>2, NowSame, TrackSame
  <1>4. Len(pipe) = 0 /\ Len(pipe') = 0
    BY <1>1, EmptySeq
  <1>5. Noted(w[0])'
    BY <1>1, <1>4 DEF Feedback, Noted
  <1>6. ServerNoted(w[0])'
    BY <1>1, <1>4 DEF Feedback, ServerNoted, Working, NoteOk
  <1>7. RunnerNoted(w[0])'
    BY DEF RunnerNoted, Working
  <1>8. \A i \in 0 .. Len(pipe') : Noted(w[i])'
    BY <1>4, <1>5
  <1>9. \A j \in 1 .. Len(pipe') : SentNoted(w, j)'
    BY <1>4
  <1>10. RunnerNoted(w[Len(pipe)])'
    BY <1>4, <1>7
  <1> QED BY <1>3, <1>6, <1>8, <1>9, <1>10 DEF Feedback

LEMMA SettleNoted ==
    ASSUME Typed, NEW w, Tracks(w), Feedback(w), Settle
    PROVE  \E u : Tracks(u)' /\ Feedback(u)'
  <1>1. Typed'
    BY SettleTyped
  <1>2. /\ pc' = "off" /\ phase \in {"running", "pausing"} /\ pipe = <<>>
        /\ UNCHANGED <<pipe, trace, reader, refused>>
        /\ \/ UNCHANGED ckpt /\ phase' = "done"
           \/ phase = "pausing" /\ result = 0 /\ ~failed /\ Stops(ckpt)
           \/ phase = "running" /\ at = "author" /\ Stops(Unfinished(submitted))
           \/ phase = "running" /\ StepStopped /\ Stops(stepInput)
    BY SettleIs DEF history
  <1>3. /\ Len(pipe) = 0 /\ w[0] = Now /\ Now \in Views
        /\ Noted(Now) /\ ServerNoted(Now) /\ RunnerNoted(Now)
    BY <1>2, EmptySeq, TrackIs DEF Feedback
  <1>4. Now.refused = refused /\ Now.submitted = submitted /\ Now.at = at /\ Now.input = stepInput /\ Now.stopped = Stopped
    BY DEF Now
  <1>5. CASE UNCHANGED ckpt /\ phase' = "done"
    BY <1>1, <1>2, <1>5, EndsNoted
  <1>6. CASE phase = "pausing" /\ result = 0 /\ ~failed /\ Stops(ckpt)
    <2>1. pc = "exited"
      BY <1>3, <1>6, Zenon DEF Settle, ServerNoted
    <2>2. Kept(Now)
      BY <1>2, <1>3, <1>6, <2>1 DEF RunnerNoted, Ended
    <2> QED BY <1>1, <1>2, <1>3, <1>6, <2>2, StopsNoted DEF Kept, ServerNoted
  <1>7. phase = "running" => ~Now.stopped
    BY <1>3, <1>4 DEF ServerNoted, Stopped
  <1>8. CASE phase = "running" /\ at = "author" /\ Stops(Unfinished(submitted))
    <2>1. /\ NoteOk(Unfinished(submitted)) /\ Unfinished(submitted).st.note = Now.refused
          /\ Told(Now, Unfinished(submitted).st)
      BY <1>3, <1>4, <1>7, <1>8, UnfinishedNoted
    <2> QED BY <1>1, <1>2, <1>8, <2>1, StopsNoted
  <1>9. CASE phase = "running" /\ StepStopped /\ Stops(stepInput)
    <2>1. at = stepInput.node /\ at # "author"
      BY <1>9 DEF StepStopped
    <2>2. NoteOk(stepInput) /\ ~stepInput.st.note /\ ~Now.refused
      BY <1>3, <1>4, <2>1 DEF Noted, NoteOk
    <2>3. stepInput.st.note = Now.refused
      BY <1>3, <2>2 DEF Typed, ServerTyped, States, Views
    <2> QED BY <1>1, <1>2, <1>9, <2>1, <2>2, <2>3, StopsNoted
  <1> QED BY <1>2, <1>5, <1>6, <1>8, <1>9

LEMMA RestartNoted ==
    ASSUME Typed, NEW w, Tracks(w), Feedback(w), Restart
    PROVE  \E u : Tracks(u)' /\ Feedback(u)'
  <1>1. Typed'
    BY RestartTyped
  <1>2. /\ phase = "down" /\ UNCHANGED <<pipe, trace, reader, refused, pc>>
        /\ \/ UNCHANGED ckpt /\ phase' = "done"
           \/ /\ ckpt.status \in {"paused", "pausing"}
              /\ phase' = "paused" /\ ckpt' = [ckpt EXCEPT !.status = "paused"]
           \/ /\ ckpt.status \notin {"paused", "pausing"}
              /\ Rebuilt # Nothing /\ Stops(Rebuilt)
    BY RestartIs DEF runner, history
  <1>3. ServerNoted(w[0]) /\ w[0] = Now /\ Now \in Views
    BY TrackIs DEF Feedback
  <1>4. pipe = <<>> /\ pc' = "off" /\ ckpt.status # "pausing"
    BY <1>2, <1>3 DEF ServerNoted
  <1>5. Noted(Now) /\ Len(pipe) = 0
    BY <1>3, <1>4, EmptySeq DEF Feedback
  <1>6. CASE UNCHANGED ckpt /\ phase' = "done"
    BY <1>1, <1>2, <1>4, <1>6, EndsNoted
  <1>7. CASE /\ ckpt.status \in {"paused", "pausing"}
             /\ phase' = "paused" /\ ckpt' = [ckpt EXCEPT !.status = "paused"]
    <2>1. Stops(ckpt)
      BY <1>7 DEF Stops, Typed, ServerTyped
    <2>2. Kept(Now) /\ NoteOk(ckpt)
      BY <1>2, <1>3, <1>4, <1>7 DEF ServerNoted
    <2> QED BY <1>1, <1>2, <1>4, <2>1, <2>2, StopsNoted DEF Kept
  <1>8. CASE /\ ckpt.status \notin {"paused", "pausing"}
             /\ Rebuilt # Nothing /\ Stops(Rebuilt)
    <2>1. ~Now.stopped
      BY <1>8 DEF Now, Stopped
    <2> QED BY <1>1, <1>2, <1>4, <1>5, <1>8, <2>1, RebuiltNoted, StopsNoted
  <1> QED BY <1>2, <1>6, <1>7, <1>8

LEMMA ResumeNoted ==
    ASSUME Typed, NEW w, Tracks(w), Feedback(w), Resume
    PROVE  \E u : Tracks(u)' /\ Feedback(u)'
  <1>1. Typed'
    BY ResumeTyped
  <1>2. ServerNoted(w[0]) /\ w[0] = Now /\ Now \in Views
    BY TrackIs DEF Feedback
  <1>3. pipe = <<>> /\ pipe' = <<>> /\ Kept(Now) /\ NoteOk(ckpt) /\ phase = "paused" /\ ckpt.status = "paused"
    BY <1>2 DEF ServerNoted, Resume
  <1>4. PICK u : Tracks(u)' /\ u[0] = Now' /\ Len(pipe') = 0
    BY <1>1, <1>3, TrackEmpty
  <1>5. /\ ckpt.node \in Nodes /\ ckpt.st \in States /\ ckpt.st.note \in BOOLEAN
    BY DEF Typed, ServerTyped, States
  <1>6. /\ phase' = "running" /\ pc' = "top" /\ node' = ckpt.node
        /\ ckpt'.status = "running" /\ ckpt'.node = ckpt.node /\ ckpt'.st = ckpt.st
        /\ st' = [ckpt.st EXCEPT !.visit = 0, !.verify = FALSE]
    BY DEF Resume, Typed, ServerTyped
  <1>7. /\ st'.note = ckpt.st.note /\ st'.sol = ckpt.st.sol /\ st'.report = ckpt.st.report
    BY <1>5, <1>6 DEF States
  <1>8. ResumedView(u[0])
    BY <1>4, NowResumes
  <1>9. Noted(u[0])'
    <2>1. NoteOk(u[0].input)
      BY <1>3, <1>8 DEF ResumedView, NoteOk, Nothing, Blank
    <2> QED BY <1>2, <1>3, <1>5, <1>6, <1>8, <2>1 DEF Noted, ResumedView, Kept, NoteOk, Views
  <1>10. ServerNoted(u[0])'
    BY <1>3, <1>6 DEF ServerNoted, NoteOk
  <1>11. RunnerNoted(u[0])'
    <2>1. u[0].refused = Now.refused /\ u[0].verdict = Now.verdict /\ u[0].text = Now.text /\ u[0].stopped = FALSE
      BY <1>8 DEF ResumedView
    <2> QED BY <1>3, <1>5, <1>6, <1>7, <2>1 DEF RunnerNoted, Working, Told, Kept, NoteOk
  <1>12. \A i \in 0 .. Len(pipe') : Noted(u[i])'
    BY <1>4, <1>9
  <1>13. \A j \in 1 .. Len(pipe') : SentNoted(u, j)'
    BY <1>4
  <1>14. RunnerNoted(u[Len(pipe)])'
    BY <1>4, <1>11
  <1> QED BY <1>4, <1>10, <1>12, <1>13, <1>14 DEF Feedback

LEMMA PauseNoted ==
    ASSUME Typed, NEW w, Tracks(w), Feedback(w), Pause, ~cutShort'
    PROVE  \E u : Tracks(u)' /\ Feedback(u)'
  <1>1. Typed'
    BY PauseTyped
  <1>2. /\ phase = "running" /\ at = "author" /\ phase' = "pausing" /\ pc # "dead"
        /\ ckpt' = [status |-> "pausing", node |-> "author", st |-> PauseState]
        /\ pipe' = pipe /\ UNCHANGED <<trace, reader, refused>> /\ RunnerRests
    BY DEF Pause
  <1>3. /\ UNCHANGED <<log, at, stepInput, passed, refused, submitted, critique, result, failed>>
        /\ pc' = pc /\ st' = st /\ node' = node
    BY <1>2 DEF trace, reader, RunnerRests, runner
  <1>4. Stopped' /\ ckpt'.status = "pausing" /\ ckpt'.node = "author" /\ ckpt'.st = PauseState
    BY <1>2 DEF Stopped
  <1>5. PauseState.note = FALSE
    BY BlankIs DEF PauseState, WithRejection, Blank
  <1>6. PICK u : Tracks(u)' /\ \A i \in 0 .. Len(pipe) : u[i] = Halted(w[i])
    BY <1>1, <1>2, <1>3, <1>4, TrackHalts
  <1>7. Len(pipe) \in Nat /\ \A i \in 0 .. Len(pipe) : w[i] \in Views
    BY TrackIs
  <1>8. ASSUME NEW i \in 0 .. Len(pipe)
        PROVE  /\ u[i].submitted = w[i].submitted /\ u[i].gave = w[i].gave /\ u[i].resumed = w[i].resumed
               /\ u[i].input = w[i].input /\ u[i].refused = w[i].refused /\ u[i].at = w[i].at /\ u[i].stopped
               /\ u[i].verdict = w[i].verdict /\ u[i].text = w[i].text
    BY <1>6, <1>7, HaltedIs
  <1>9. Len(pipe') = Len(pipe)
    BY <1>2
  <1>10. ASSUME NEW i \in 0 .. Len(pipe') PROVE Noted(u[i])'
    <2>1. Noted(w[i])
      BY <1>9 DEF Feedback
    <2> QED BY <1>8, <1>9, <2>1 DEF Noted
  <1>11. ASSUME NEW j \in 1 .. Len(pipe') PROVE SentNoted(u, j)'
    <2>1. SentNoted(w, j)
      BY <1>9 DEF Feedback
    <2>2. u[j].refused = w[j].refused /\ u[j].verdict = w[j].verdict /\ u[j].text = w[j].text
      BY <1>7, <1>8, <1>9
    <2> QED BY <1>2, <1>3, <2>1, <2>2 DEF SentNoted, Told
  <1>12. ServerNoted(u[0])'
    BY <1>2, <1>3, <1>4, <1>5 DEF ServerNoted, NoteOk
  <1>13. PICK v : v = u[Len(pipe)]
    OBVIOUS
  <1>14. RunnerNoted(v)'
    <2>1. RunnerNoted(w[Len(pipe)])
      BY DEF Feedback
    <2>2. v.refused = w[Len(pipe)].refused /\ v.verdict = w[Len(pipe)].verdict /\ v.text = w[Len(pipe)].text
      BY <1>7, <1>8, <1>13
    <2> QED BY <1>2, <1>3, <2>1, <2>2 DEF RunnerNoted, Working, Told, Ended
  <1>15. RunnerNoted(u[Len(pipe)])'
    BY <1>2, <1>13, <1>14
  <1> QED BY <1>6, <1>10, <1>11, <1>12, <1>15 DEF Feedback

LEMMA KillNoted ==
    ASSUME Typed, NEW w, Tracks(w), Feedback(w), Kill, ~cutShort'
    PROVE  \E u : Tracks(u)' /\ Feedback(u)'
  <1>1. /\ Working /\ phase \in {"running", "pausing"} /\ pc' = "dead" /\ phase # "pausing"
        /\ UNCHANGED <<ckpt, trace, pipe, phase, reader, refused>>
    BY Zenon DEF Kill, files
  <1>2. /\ UNCHANGED <<log, at, stepInput, passed, refused, submitted, critique, ckpt>>
        /\ pipe' = pipe /\ phase' = phase /\ phase = "running"
    BY <1>1 DEF trace, reader
  <1>3. Stopped' = Stopped
    BY <1>2 DEF Stopped
  <1>4. Tracks(w)'
    BY <1>2, <1>3, NowSame, TrackSame
  <1>5. \A i \in 0 .. Len(pipe) : Noted(w[i])'
    BY <1>2 DEF Feedback, Noted
  <1>6. ASSUME NEW j \in 1 .. Len(pipe) PROVE SentNoted(w, j)'
    <2>1. SentNoted(w, j)
      BY DEF Feedback
    <2> QED BY <1>1, <1>2, <2>1 DEF SentNoted, Working
  <1>7. ServerNoted(w[0])'
    <2>1. ServerNoted(w[0])
      BY DEF Feedback
    <2> QED BY <1>1, <1>2, <2>1 DEF ServerNoted, NoteOk
  <1>8. RunnerNoted(w[Len(pipe)])'
    BY <1>1 DEF RunnerNoted, Working
  <1> QED BY <1>2, <1>4, <1>5, <1>6, <1>7, <1>8 DEF Feedback

LEMMA CrashNoted ==
    ASSUME Typed, NEW w, Tracks(w), Feedback(w), Crash, ~cutShort'
    PROVE  \E u : Tracks(u)' /\ Feedback(u)'
  <1>1. Typed'
    BY FaultTyped
  <1>2. /\ phase' = "down" /\ pc' = "off" /\ pipe' = <<>> /\ phase # "pausing" /\ phase # "down" /\ phase # "done"
        /\ UNCHANGED <<files, trace, reader, refused>>
    BY Zenon DEF Crash
  <1>3. UNCHANGED <<log, at, stepInput, passed, refused, submitted, critique, ckpt>>
    BY <1>2 DEF trace, reader, files
  <1>4. Stopped' = Stopped
    BY <1>3 DEF Stopped
  <1>5. PICK u : Tracks(u)' /\ u[0] = Now' /\ Len(pipe') = 0
    BY <1>1, <1>2, TrackEmpty
  <1>6. u[0] = w[0]
    BY <1>3, <1>4, <1>5, NowSame, TrackIs
  <1>7. Len(pipe) \in Nat
    BY TrackIs
  <1>8. Noted(u[0])'
    <2>1. Noted(w[0])
      BY <1>7 DEF Feedback
    <2> QED BY <1>3, <1>6, <2>1 DEF Noted
  <1>9. ServerNoted(u[0])'
    <2>1. ServerNoted(w[0])
      BY DEF Feedback
    <2>2. phase \in {"running", "paused"}
      BY <1>2 DEF Typed, ServerTyped
    <2> QED BY <1>2, <1>3, <1>6, <2>1, <2>2 DEF ServerNoted, NoteOk, Working, Kept, Told
  <1>10. RunnerNoted(u[0])'
    BY <1>2 DEF RunnerNoted, Working
  <1>11. \A i \in 0 .. Len(pipe') : Noted(u[i])'
    BY <1>5, <1>8
  <1>12. \A j \in 1 .. Len(pipe') : SentNoted(u, j)'
    BY <1>5
  <1>13. RunnerNoted(u[Len(pipe)])'
    BY <1>5, <1>10
  <1> QED BY <1>5, <1>9, <1>11, <1>12, <1>13 DEF Feedback

\* What was cut short stays so.
LEMMA EndedStays ==
    ASSUME Typed, Next
    PROVE  (cutShort => cutShort') /\ (gap => gap')
  <1>1. CASE Runner
    <2>1. RunnersOwn
      BY <1>1, Zenon DEF Runner, BeginStep, AuthorSubmits, AuthorPauses, Prepare, ReportInput, SaveCandidate, CriticPasses,
             CriticFixes, CriticRejects, CriticAnswers, AfterCritic, Approve, Revise, ConventionAnswers,
             Capture, SaveFinalInput, Publish, StepFails, NoOtherActor, RunnersOwn
    <2> QED BY <2>1, OwnNow
  <1>2. CASE Server
    <2>1. UNCHANGED <<cutShort, gap>>
      <3>1. CASE Read
        BY <3>1, Zenon DEF Read
      <3>2. CASE Settle
        BY <3>2, SettleIs DEF history
      <3>3. CASE Resume
        BY <3>3 DEF Resume, history
      <3>4. CASE Restart
        BY <3>4, RestartIs DEF history
      <3> QED BY <1>2, <3>1, <3>2, <3>3, <3>4 DEF Server
    <2> QED BY <2>1
  <1>3. CASE Pause
    BY <1>3 DEF Pause
  <1>4. CASE Fault
    <2>1. CASE Kill
      BY <2>1, Zenon DEF Kill
    <2>2. CASE Crash
      BY <2>2, Zenon DEF Crash
    <2> QED BY <1>4, <2>1, <2>2 DEF Fault
  <1> QED BY <1>1, <1>2, <1>3, <1>4 DEF Next

FeedbackInv == Typed /\ (~cutShort => \E w : Tracks(w) /\ Feedback(w))

LEMMA InitFeedback == Init => FeedbackInv
  <1> SUFFICES ASSUME Init PROVE FeedbackInv
    OBVIOUS
  <1>1. Typed
    BY InitTyped
  <1>2. pipe = <<>> /\ log = <<>> /\ Len(pipe) = 0
    BY EmptySeq DEF Init
  <1>3. Now \in Views
    BY <1>1, NowTyped
  <1>4. PICK w : w = [i \in {0} |-> Now]
    OBVIOUS
  <1>5. w \in [0 .. 0 -> Views] /\ w[0] = Now
    BY <1>3, <1>4
  <1>6. Tracks(w)
    BY <1>2, <1>5 DEF Tracks
  <1>7. /\ st.note = FALSE /\ refused = FALSE /\ submitted = FALSE /\ pc = "top" /\ phase = "running"
        /\ ckpt = NoCkpt /\ stepInput = Nothing /\ critique.verdict = "none" /\ node \in {"author", "critic"}
    BY DEF Init, Blank
  <1>8. Shown("author") = FALSE
    BY <1>2 DEF Shown, Kinds
  <1>9. /\ Now.refused = FALSE /\ Now.submitted = FALSE /\ Now.gave = FALSE /\ Now.input = Nothing
        /\ Now.stopped = FALSE /\ Now.verdict = "none"
    <2>1. Stopped = FALSE
      BY <1>7 DEF Stopped, NoCkpt
    <2> QED BY <1>7, <1>8, <2>1 DEF Now
  <1>10. ckpt.st.note = FALSE /\ ckpt.status = "none" /\ ckpt.node = "author"
    BY <1>7 DEF NoCkpt, Blank
  <1>11. Noted(Now)
    BY <1>9, <1>10 DEF Noted, NoteOk, Nothing, Blank
  <1>12. ServerNoted(Now)
    BY <1>7, <1>10 DEF ServerNoted, NoteOk
  <1>13. RunnerNoted(Now)
    BY <1>7, <1>9 DEF RunnerNoted, Working, Told
  <1>14. Feedback(w)
    BY <1>2, <1>5, <1>11, <1>12, <1>13 DEF Feedback
  <1> QED BY <1>1, <1>6, <1>14 DEF FeedbackInv

LEMMA NextFeedback == FeedbackInv /\ [Next]_vars => FeedbackInv'
  <1> SUFFICES ASSUME FeedbackInv, [Next]_vars PROVE FeedbackInv'
    OBVIOUS
  <1>1. Typed /\ Typed'
    BY NextTyped DEF FeedbackInv
  <1>2. ASSUME ~cutShort' PROVE (\E w : Tracks(w) /\ Feedback(w))'
    <2>1. CASE UNCHANGED vars
      <3>1. /\ UNCHANGED <<log, at, stepInput, passed, refused, submitted, critique, ckpt, pipe, phase,
                           pc, st, node, result, failed, cutShort>>
        BY <2>1 DEF vars, trace, reader, history, runner, files
      <3>2. Stopped' = Stopped
        BY <3>1 DEF Stopped
      <3>3. PICK w : Tracks(w) /\ Feedback(w)
        BY <1>2, <3>1 DEF FeedbackInv
      <3>4. Tracks(w)'
        BY <3>1, <3>2, <3>3, NowSame, TrackSame
      <3>5. Feedback(w)'
        BY <3>1, <3>3 DEF Feedback, Noted, SentNoted, ServerNoted, RunnerNoted, NoteOk, Told, Kept, Ended, Working
      <3> QED BY <3>4, <3>5
    <2>2. CASE Next
      <3>1. PICK w : Tracks(w) /\ Feedback(w)
        BY <1>1, <1>2, <2>2, EndedStays DEF FeedbackInv
      <3> QED BY <1>1, <1>2, <2>2, <3>1, RunnerStepNoted, ReadNoted, SettleNoted, ResumeNoted, RestartNoted,
                 PauseNoted, KillNoted, CrashNoted DEF Next, Server, Fault
    <2> QED BY <2>1, <2>2
  <1> QED BY <1>1, <1>2 DEF FeedbackInv

\* A value that no step along a function changes.
LEMMA StaysAlong ==
    ASSUME NEW n \in Nat, NEW f, \A i \in 1 .. n : f[i] = f[i - 1]
    PROVE  f[n] = f[0]
  <1> DEFINE D == {i \in 0 .. n : f[i] = f[n]}
  <1>1. IsWellFoundedOn(OpToRel(<, Nat), Nat)
    BY NatLessThanWellFounded
  <1>2. D \subseteq Nat /\ n \in D
    OBVIOUS
  <1>3. PICK d \in D : \A e \in D : ~ (<<e, d>> \in OpToRel(<, Nat))
    <2> HIDE DEF D
    <2> QED BY <1>1, <1>2, WFMin
  <1>4. d = 0
    <2> SUFFICES ASSUME d # 0 PROVE FALSE
      OBVIOUS
    <2>0. d \in 0 .. n /\ f[d] = f[n]
      BY <1>3
    <2>1. d \in 1 .. n /\ d - 1 \in 0 .. n /\ d - 1 \in Nat /\ f[d] = f[n]
      BY <2>0
    <2>2. d - 1 \in D
      BY <2>1
    <2>3. <<d - 1, d>> \in OpToRel(<, Nat)
      BY <2>1 DEF OpToRel
    <2> QED BY <1>3, <2>2, <2>3
  <1> QED BY <1>3, <1>4

\* At any moment of an author's work, and however its runner started: with the
\* reason of the refused submission, or with the critic's latest rejection.
THEOREM AuthorIsTold == Spec => []FeedbackKept
  <1>1. FeedbackInv => FeedbackKept
    <2> SUFFICES ASSUME FeedbackInv, pc = "work", ~Unread({"author"}), ~cutShort
                 PROVE  /\ st.note = refused
                        /\ ~Unread({"critic"}) /\ ~refused /\ critique.verdict = "reject"
                             => st.report = "reject" /\ st.sol = critique.text
      BY DEF FeedbackKept
    <2>1. PICK w : Typed /\ Tracks(w) /\ Feedback(w)
      BY DEF FeedbackInv
    <2> DEFINE n == Len(pipe)
    <2>2. /\ n \in Nat /\ DOMAIN pipe = 1 .. n /\ w[0] = Now
          /\ \A j \in 1 .. n : pipe[j] \in Records /\ w[j - 1] \in Views /\ w[j] = Seen(w[j - 1], pipe[j])
      BY <2>1, TrackIs
    <2>3. \A j \in 1 .. n : pipe[j].kind \notin {"author", "paused"}
      BY <2>1, <2>2 DEF Feedback, SentNoted, Unread
    <2>4. Told(w[n], st) /\ st.note = w[n].refused
      BY <2>1 DEF Feedback, RunnerNoted, Working
    <2>5. Now.refused = refused /\ Now.verdict = critique.verdict /\ Now.text = critique.text
      BY DEF Now
    <2> HIDE DEF n
    <2>6. w[n].refused = refused
      <3>1. PICK f : f = [i \in 0 .. n |-> w[i].refused]
        OBVIOUS
      <3>2. \A i \in 1 .. n : f[i] = f[i - 1]
        <4> TAKE i \in 1 .. n
        <4>1. f[i] = w[i].refused /\ f[i - 1] = w[i - 1].refused
          BY <2>2, <3>1
        <4>2. Seen(w[i - 1], pipe[i]).refused = w[i - 1].refused
          BY <2>3 DEF Seen
        <4> QED BY <2>2, <4>1, <4>2
      <3>3. f[n] = f[0]
        BY <2>2, <3>2, StaysAlong
      <3> QED BY <2>2, <2>5, <3>1, <3>3
    <2>7. ASSUME ~Unread({"critic"}) PROVE w[n].verdict = critique.verdict /\ w[n].text = critique.text
      <3>1. PICK f : f = [i \in 0 .. n |-> <<w[i].verdict, w[i].text>>]
        OBVIOUS
      <3>2. \A i \in 1 .. n : f[i] = f[i - 1]
        <4> TAKE i \in 1 .. n
        <4>1. f[i] = <<w[i].verdict, w[i].text>> /\ f[i - 1] = <<w[i - 1].verdict, w[i - 1].text>>
          BY <2>2, <3>1
        <4>2. pipe[i].kind # "critic"
          BY <2>2, <2>7 DEF Unread
        <4>3. /\ Seen(w[i - 1], pipe[i]).verdict = w[i - 1].verdict
              /\ Seen(w[i - 1], pipe[i]).text = w[i - 1].text
          BY <4>2 DEF Seen
        <4> QED BY <2>2, <4>1, <4>3
      <3>3. f[n] = f[0]
        BY <2>2, <3>2, StaysAlong
      <3> QED BY <2>2, <2>5, <3>1, <3>3
    <2> QED BY <2>4, <2>6, <2>7 DEF Told
  <1> QED BY <1>1, InitFeedback, NextFeedback, PTL DEF Spec

-----------------------------------------------------------------------------
(* The rounds: texts *)

LEMMA TextFacts ==
    ASSUME Typed
    PROVE  /\ made \in Nat /\ made <= MaxProofs /\ MaxProofs \in Nat /\ InFile = MaxProofs + 1 /\ MaxProofs >= 1
           /\ Limit \in Nat /\ Limit >= 1 /\ Proofs = 1 .. MaxProofs /\ Texts = 0 .. InFile
           /\ edits \in [Texts -> Nat] /\ root \in [Texts -> Texts] /\ newest \in Texts
           /\ proofFile \in 0 .. MaxProofs /\ saved \in Texts /\ finalInput \in Texts
           /\ InFile \in Texts /\ InFile # 0 /\ InFile # 1
  BY ReviewConstants DEF Typed, TextsTyped, FilesTyped, InFile, Proofs, Texts

LEMMA StepFacts ==
    ASSUME Typed
    PROVE  /\ st \in States /\ before \in States /\ node \in Nodes /\ visits \in Nat /\ verify \in BOOLEAN
           /\ st.sol \in Texts /\ st.captured \in Texts /\ st.visit \in Nat /\ st.verify \in BOOLEAN
           /\ st.note \in BOOLEAN /\ before.captured \in Texts
  BY DEF Typed, StepTyped, States, Texts

LEMMA VisitIs ==
    ASSUME NEW s \in States, NEW n, NEW v \in Nat, NEW check \in BOOLEAN
    PROVE  /\ StepVisit(s, n, v, check).captured = s.captured
           /\ StepVisit(s, n, v, check).visit = IF v > 1 \/ check THEN v ELSE s.visit
           /\ StepVisit(s, n, v, check).verify = IF v > 1 \/ check THEN check ELSE s.verify
  BY DEF StepVisit, States

LEMMA TextIs ==
    ASSUME NEW v \in Views
    PROVE  /\ Text(v) \in Texts /\ Text(v) # 0 /\ v.answer \in Texts /\ v.first \in Texts /\ v.handed \in Texts
           /\ v.answer # 0 => Text(v) = v.answer
           /\ v.answer = 0 /\ v.first # 0 => Text(v) = v.first
  BY ReviewConstants DEF Text, Views, Texts, InFile

\* A text that is no pointer is at most made.
LEMMA TextMade ==
    ASSUME Typed, TextsOk, NEW v \in Views, ViewOk(v), Asked => v.first # 0
    PROVE  /\ Text(v) \in 1 .. made \/ (Text(v) = InFile /\ v.answer = 0 /\ v.first = InFile /\ Asked)
           /\ v.answer <= made
  <1>1. made \in Nat /\ InFile # 1
    BY TextFacts
  <1>2. v.answer \in 0 .. made /\ v.first \in (0 .. made) \cup {InFile} /\ (~Asked => v.first = 0 /\ made >= 1)
    BY DEF ViewOk, TextsOk
  <1> QED BY <1>1, <1>2 DEF Text

\* The two names of a text have the same round.
LEMMA SameRound ==
    ASSUME Typed, TextsOk, NEW p, NEW q, Same(p, q), NEW k \in Nat, NEW check \in BOOLEAN
    PROVE  /\ Round(p, k, check) => Round(q, k, check)
           /\ Round(q, k, check) /\ (p \in Proofs \cup {InFile}) => Round(p, k, check)
           /\ SavedRound(p, k, check) => SavedRound(q, k, check)
           /\ SavedRound(q, k, check) /\ (p \in Proofs \cup {InFile}) => SavedRound(p, k, check)
  <1>1. edits[InFile] = 0
    BY TextFacts DEF TextsOk
  <1>2. edits[q] = edits[p] /\ (p \in Proofs \cup {InFile} => q \in Proofs \cup {InFile})
    BY <1>1 DEF Same
  <1>3. /\ Round(p, k, check) => Round(q, k, check)
        /\ Round(q, k, check) /\ (p \in Proofs \cup {InFile}) => Round(p, k, check)
    BY <1>2 DEF Round
  <1>4. PICK i : i = Before(k)
    OBVIOUS
  <1>5. /\ Round(p, i, k > 0 /\ check) => Round(q, i, k > 0 /\ check)
        /\ Round(q, i, k > 0 /\ check) /\ (p \in Proofs \cup {InFile}) => Round(p, i, k > 0 /\ check)
    BY <1>2 DEF Round
  <1> QED BY <1>3, <1>4, <1>5 DEF SavedRound

\* The first visit, which may edit, need not be saved.
LEMMA SavesRound ==
    ASSUME Typed, NEW p, NEW k \in Nat, NEW check \in BOOLEAN, Round(p, k, check)
    PROVE  SavedRound(p, SavedVisit(k + 1, check), check)
  BY TextFacts DEF Round, SavedRound, SavedVisit, Before

\* The texts a step of the runner leaves as they were.
TextsGrow ==
    /\ made' \in Nat /\ made <= made' /\ made' < InFile
    /\ \A p \in Texts : p <= made \/ p = InFile => edits'[p] = edits[p]

LEMMA ViewGrows ==
    ASSUME Typed, TextsOk, NEW v \in Views, ViewOk(v), TextsGrow, UNCHANGED <<stages, phase, ckpt>>,
           v.open # "none" => (v.answer # 0 => saved' >= v.answer)
    PROVE  ViewOk(v)'
  <1>1. /\ made \in Nat /\ made < InFile /\ made' \in Nat /\ made <= made'
        /\ \A p \in Texts : p <= made \/ p = InFile => edits'[p] = edits[p]
    BY TextFacts DEF TextsGrow
  <1>2. Asked' = Asked
    BY DEF Asked
  <1>3. v.answer \in 0 .. made /\ v.handed \in Texts /\ v.open \in {"none", "step", "resume"}
    BY DEF ViewOk, Views
  <1>4. \A q \in Proofs : q <= made => edits'[q] = edits[q]
    BY <1>1, TextFacts
  <1>5. VisitOk(v)'
    <2>1. v.open = "none" => VisitOk(v)'
      BY DEF ViewOk, VisitOk
    <2>2. ASSUME v.open # "none" PROVE VisitOk(v)'
      <3>1. Asked => v.first # 0
        BY <2>2 DEF ViewOk, VisitOk, InReview
      <3>2. edits'[Text(v)] = edits[Text(v)]
        <4>1. Text(v) \in 1 .. made \/ Text(v) = InFile
          BY <3>1, TextMade
        <4> QED BY <1>1, <4>1, TextFacts
      <3>3. Text(v)' = Text(v)
        BY DEF Text
      <3>4. \A k, check : SavedRound(Text(v), k, check) => SavedRound(Text(v), k, check)'
        BY <3>2, <3>3 DEF SavedRound, Round, Before
      <3>5. Fixes(v)'
        BY <2>2 DEF Fixes
      <3> QED BY <2>2, <3>4, <3>5 DEF ViewOk, VisitOk, Approved
    <2> QED BY <2>1, <2>2
  <1>6. HandedOk(v)'
    <2>1. HandedOk(v)
      BY DEF ViewOk
    <2>2. v.handed # 0 => /\ v.handed \in Proofs /\ v.handed <= made /\ v.handed \in Nat
                          /\ Same(Text(v), v.handed) \/ (v.answer # 0 /\ v.handed < v.answer)
      BY <2>1, TextFacts DEF HandedOk
    <2>3. \A p : v.handed # 0 /\ Same(p, v.handed) => Same(p, v.handed)'
      BY <1>4, <2>2 DEF Same
    <2>4. v.handed # 0 => v.handed <= made'
      BY <1>1, <2>2
    <2>5. Text(v)' = Text(v)
      BY DEF Text
    <2> QED BY <2>2, <2>3, <2>4, <2>5 DEF HandedOk
  <1>7. v.answer \in 0 .. made' /\ v.first \in (0 .. made') \cup {InFile}
    BY <1>1 DEF ViewOk
  <1> QED BY <1>2, <1>5, <1>6, <1>7 DEF ViewOk, Approved

\* What every step of the runner starts from.
LEMMA StepRounds ==
    ASSUME Typed, NEW w, Tracks(w), Rounds(w), NEW v, v = w[Len(pipe)], Working
    PROVE  /\ v \in Views /\ ViewOk(v) /\ TextsOk /\ StepOk(w, v) /\ (node = "critic" => CriticOk(w, v))
           /\ RunnerOk(w, v) /\ InFile \notin approved
           /\ phase \in {"running", "pausing"}
           /\ \A j \in 1 .. Len(pipe) : pipe[j].kind # "paused"
           /\ ~Awaits(v) => Current(Text(v)) /\ (v.handed # 0 => Current(v.handed))
           /\ ~Asked /\ v.answer = 0 => made = 1
           /\ \A i \in 0 .. Len(pipe) : w[i] \in Views /\ ViewOk(w[i]) /\ PlaceOk(w, i)
           /\ \A i \in 0 .. Len(pipe) : w[i].answer <= made
           /\ Len(pipe) \in Nat
  <1>1. /\ v \in Views /\ Len(pipe) \in Nat /\ DOMAIN pipe = 1 .. Len(pipe) /\ \A i \in 0 .. Len(pipe) : w[i] \in Views
    BY TrackIs
  <1>2. /\ TextsOk /\ InFile \notin approved /\ ServerOk(w[0]) /\ RunnerOk(w, v)
        /\ \A i \in 0 .. Len(pipe) : ViewOk(w[i]) /\ PlaceOk(w, i)
        /\ \A j \in 1 .. Len(pipe) : SentOk(w, j)
    BY DEF Rounds
  <1>3. StepOk(w, v) /\ (node = "critic" => CriticOk(w, v))
    BY <1>2 DEF RunnerOk
  <1>4. phase \in {"running", "pausing"}
    BY <1>2 DEF ServerOk, Working, Typed, ServerTyped
  <1>5. \A j \in 1 .. Len(pipe) : pipe[j].kind # "paused"
    BY <1>2 DEF SentOk, Working
  <1>6. PlaceOk(w, Len(pipe)) /\ Final(Len(pipe))
    BY <1>1, <1>2 DEF Final
  <1>7. ~Asked /\ v.answer = 0 => made = 1
    BY <1>1, <1>6 DEF PlaceOk
  <1>8. ~Awaits(v) => Current(Text(v)) /\ (v.handed # 0 => Current(v.handed))
    BY <1>6 DEF PlaceOk
  <1>9. \A i \in 0 .. Len(pipe) : w[i].answer <= made
    BY <1>2, TextFacts DEF ViewOk
  <1> QED BY <1>1, <1>2, <1>3, <1>4, <1>5, <1>7, <1>8, <1>9

\* The place of a view before a record that the runner sends now.
LEMMA PlaceGrows ==
    ASSUME Typed, NEW w, Tracks(w), TextsOk, NEW r, NEW u, NEW i \in 0 .. Len(pipe), PlaceOk(w, i),
           Len(pipe') = Len(pipe) + 1, pipe'[Len(pipe) + 1] = r,
           \A j \in 1 .. Len(pipe) : pipe'[j] = pipe[j],
           DOMAIN pipe' = 1 .. Len(pipe) + 1, u[i] = w[i], stages' = stages,
           made' = made \/ Asked \/ (r.kind = "critic" /\ r.edited),
           r.kind # "author" => \A p \in Texts : Current(p) => Current(p)',
           r.kind = "author" => Behind(w, i)
    PROVE  PlaceOk(u, i)'
  <1> DEFINE n == Len(pipe)
             v == w[i]
  <1>1. /\ n \in Nat /\ DOMAIN pipe = 1 .. n /\ DOMAIN pipe' = 1 .. n + 1 /\ v \in Views
        /\ pipe'[n + 1] = r /\ \A j \in 1 .. n : pipe'[j] = pipe[j] /\ i \in 0 .. n
    BY TrackIs
  <1>2. Asked' = Asked
    BY DEF Asked
  <1>3. Text(v) \in Texts /\ v.handed \in Texts
    BY <1>1, TextIs
  <1> HIDE DEF n, v
  <1>4. \A j \in DOMAIN pipe : j \in DOMAIN pipe' /\ pipe'[j] = pipe[j]
    BY <1>1
  <1>5. n + 1 \in DOMAIN pipe' /\ n + 1 > i
    BY <1>1
  <1>6. ~Asked /\ v.answer = 0 =>
          made' = 1 \/ \E j \in DOMAIN pipe' : j > i /\ pipe'[j].kind = "critic" /\ pipe'[j].edited
    <2> SUFFICES ASSUME ~Asked, v.answer = 0
                 PROVE  made' = 1 \/ \E j \in DOMAIN pipe' : j > i /\ pipe'[j].kind = "critic" /\ pipe'[j].edited
      OBVIOUS
    <2>1. CASE r.kind = "critic" /\ r.edited
      BY <1>1, <1>5, <2>1
    <2>2. CASE made' = made
      <3>1. made = 1 \/ \E j \in DOMAIN pipe : j > i /\ pipe[j].kind = "critic" /\ pipe[j].edited
        BY DEF PlaceOk, v
      <3> QED BY <1>4, <2>2, <3>1
    <2> QED BY <2>1, <2>2
  <1>7. Behind(w, i) => Behind(u, i)'
    <2>1. u[i] = v /\ w[i] = v
      BY DEF v
    <2> QED BY <1>2, <1>4, <2>1 DEF Behind, Awaits
  <1>8. Final(i)' => Final(i) /\ r.kind # "author"
    <2> SUFFICES ASSUME Final(i)' PROVE Final(i) /\ r.kind # "author"
      OBVIOUS
    <2>1. \A j \in DOMAIN pipe' : j > i => pipe'[j].kind # "author"
      BY DEF Final
    <2> QED BY <1>1, <1>4, <1>5, <2>1 DEF Final
  <1>9. Final(i)' /\ ~Awaits(v) => Current(Text(v))' /\ (v.handed # 0 => Current(v.handed)')
    BY <1>3, <1>8 DEF PlaceOk, v
  <1>10. ~Final(i)' => Behind(u, i)'
    <2> SUFFICES ASSUME ~Final(i)' PROVE Behind(w, i)
      BY <1>7
    <2>1. PICK j \in DOMAIN pipe' : j > i /\ pipe'[j].kind = "author"
      BY DEF Final
    <2>2. CASE j \in DOMAIN pipe
      BY <1>4, <2>1, <2>2 DEF Final, PlaceOk
    <2>3. CASE j = n + 1
      BY <1>1, <2>1, <2>3
    <2> QED BY <1>1, <2>1, <2>2, <2>3
  <1>11. u[i] = v
    BY DEF v
  <1> QED BY <1>2, <1>6, <1>9, <1>10, <1>11 DEF PlaceOk, Awaits, Text

\* The runner sends one record more.
LEMMA SendRounds ==
    ASSUME Typed, NEW w, Tracks(w), Rounds(w), RunnersOwn, Working,
           NEW r \in Records, Emit(r), NEW v, v = Seen(w[Len(pipe)], r), NEW x, x = w[Len(pipe)],
           TextsGrow, TextsOk', InFile \notin approved', finalInput' = finalInput, saved' = saved,
           made' = made \/ Asked \/ (r.kind = "critic" /\ r.edited),
           r.kind # "author" => \A p \in Texts : Current(p) => Current(p)',
           r.kind = "author" => \A i \in 0 .. Len(pipe) : Behind(w, i),
           ViewOk(v)',
           ~Asked /\ v.answer = 0 => made' = 1,
           ~Awaits(v) => Current(Text(v))' /\ (v.handed # 0 => Current(v.handed)'),
           r.kind = "approved" => x.last = "critic" /\ x.verdict = "pass",
           r.kind = "convention" => Approved(x),
           r.kind = "paused" => pc' = "exited" /\ Continues(r, v)',
           pc' \notin {"dead", "off"},
           \A u : Extends(u, w, r) => RunnerOk(u, v)'
    PROVE  \E u : Tracks(u)' /\ Rounds(u)'
  <1> DEFINE n == Len(pipe)
  <1>u. PICK u : Tracks(u)' /\ Extends(u, w, r)
    BY OwnNow, TrackEmit
  <1>1. /\ Len(pipe)' = n + 1 /\ pipe'[n + 1] = r
        /\ \A j \in 1 .. n : pipe'[j] = pipe[j]
        /\ \A i \in 0 .. n : u[i] = w[i]
        /\ u[n + 1] = v /\ v \in Views /\ n \in Nat
        /\ DOMAIN pipe' = 1 .. n + 1
    <2>1. n \in Nat /\ pipe \in Seq(Records)
      BY TrackIs DEF Typed, PipeTyped
    <2>2. pipe' \in Seq(Records)
      BY <2>1, AppendProperties DEF Emit
    <2>3. Len(pipe') \in Nat /\ DOMAIN pipe' = 1 .. Len(pipe')
      BY <2>2, LenProperties
    <2> QED BY <1>u, <2>1, <2>3 DEF Extends
  <1>2. UNCHANGED <<stages, ckpt, phase>>
    BY OwnNow
  <1>3. /\ TextsOk /\ phase \in {"running", "pausing"}
        /\ \A i \in 0 .. n : w[i] \in Views /\ ViewOk(w[i]) /\ PlaceOk(w, i)
        /\ \A j \in 1 .. n : SentOk(w, j) /\ pipe[j].kind # "paused"
        /\ ServerOk(w[0])
    <2>1. \A j \in 1 .. n : SentOk(w, j)
      BY DEF Rounds
    <2> QED BY <2>1, StepRounds DEF Rounds
  <1>4. RunnerOk(u, v)'
    BY <1>u
  <1> HIDE DEF n
  <1>5. ASSUME NEW i \in 0 .. n + 1 PROVE ViewOk(u[i])' /\ PlaceOk(u, i)'
    <2>1. CASE i \in 0 .. n
      <3>1. u[i] = w[i] /\ ViewOk(w[i]) /\ w[i] \in Views /\ PlaceOk(w, i)
        BY <1>1, <1>3, <2>1
      <3>2. w[i].open # "none" => (w[i].answer # 0 => saved' >= w[i].answer)
        BY <3>1 DEF ViewOk, VisitOk, Fixes
      <3>3. ViewOk(w[i])'
        BY <1>2, <1>3, <3>1, <3>2, ViewGrows
      <3>4. PlaceOk(u, i)'
        BY <1>1, <1>2, <1>3, <2>1, <3>1, PlaceGrows DEF n
      <3> QED BY <3>1, <3>3, <3>4
    <2>2. CASE i = n + 1
      <3>1. u[i] = v
        BY <1>1, <2>2
      <3>2. Final(i)'
        <4>1. \A j \in DOMAIN pipe' : ~ (j > i)
          BY <1>1, <2>2
        <4> QED BY <4>1 DEF Final
      <3>3. Asked' = Asked
        BY <1>2 DEF Asked
      <3>4. Awaits(v)' = Awaits(v) /\ Text(v)' = Text(v)
        BY <3>3 DEF Awaits, Text
      <3> QED BY <3>1, <3>2, <3>3, <3>4 DEF PlaceOk
    <2> QED BY <1>1, <2>1, <2>2
  <1>6. ASSUME NEW j \in 1 .. n + 1 PROVE SentOk(u, j)'
    <2>1. CASE j \in 1 .. n
      <3>1. u[j - 1] = w[j - 1] /\ u[j] = w[j] /\ pipe'[j] = pipe[j]
        BY <1>1, <2>1
      <3> QED BY <1>3, <2>1, <3>1 DEF SentOk, Approved
    <2>2. CASE j = n + 1
      <3>1. u[j - 1] = x /\ u[j] = v /\ pipe'[j] = r /\ j = Len(pipe')
        BY <1>1, <2>2 DEF n
      <3> QED BY <3>1 DEF SentOk, Approved
    <2> QED BY <1>1, <2>1, <2>2
  <1>7. ServerOk(u[0])'
    <2>1. u[0] = w[0] /\ Asked' = Asked
      BY <1>1, <1>2 DEF Asked
    <2>2. phase = "pausing" => ckpt.node = "author"
      BY <1>3 DEF ServerOk
    <2>3. Final(0)' => Final(0) /\ r.kind # "author"
      <3> SUFFICES ASSUME Final(0)' PROVE Final(0) /\ r.kind # "author"
        OBVIOUS
      <3>1. \A j \in DOMAIN pipe' : j > 0 => pipe'[j].kind # "author"
        BY DEF Final
      <3>2. n + 1 \in DOMAIN pipe' /\ n + 1 > 0 /\ DOMAIN pipe = 1 .. n
        BY <1>1, TrackIs DEF n
      <3> QED BY <1>1, <3>1, <3>2 DEF Final
    <2>4. Final(0)' /\ Approved(w[0]) => finalInput = 0 \/ (finalInput # InFile /\ Current(finalInput)')
      BY <1>3, <2>3, TextFacts DEF ServerOk
    <2> QED BY <1>2, <1>3, <2>1, <2>2, <2>4 DEF ServerOk, Approved
  <1>8. RunnerOk(u, u[Len(pipe)])'
    <2>1. u[Len(pipe)]' = v
      BY <1>1
    <2>2. RunnerOk(u, u[Len(pipe)])' <=> RunnerOk(u, v)'
      BY <2>1 DEF RunnerOk, StepOk, CriticOk, Foremost, RoundEnded, Continues
    <2> QED BY <1>4, <2>2
  <1> QED BY <1>u, <1>1, <1>5, <1>6, <1>7, <1>8 DEF Rounds, n

\* The runner sends nothing.
LEMMA QuietRounds ==
    ASSUME Typed, NEW w, Tracks(w), Rounds(w), RunnersOwn, Working, pipe' = pipe,
           UNCHANGED texts, proofFile' = proofFile, saved' = saved \/ saved' = st.sol,
           saved' # saved => node = "critic" /\ st.sol \in Proofs /\ st.sol <= made /\ Older(w, st.sol),
           finalInput' = finalInput \/ (finalInput' # InFile /\ Current(finalInput')),
           pc' \notin {"dead", "off", "exited"}, NEW v, v = w[Len(pipe)], RunnerOk(w, v)'
    PROVE  \E u : Tracks(u)' /\ Rounds(u)'
  <1>1. UNCHANGED <<stages, ckpt, phase>> /\ Now' = Now
    BY OwnNow
  <1>2. Tracks(w)'
    BY <1>1, TrackSame
  <1>3. UNCHANGED <<made, edits, root, newest, approved>> /\ Asked' = Asked
    BY <1>1 DEF texts, Asked
  <1>4. /\ TextsOk /\ phase \in {"running", "pausing"} /\ InFile \notin approved
        /\ \A i \in 0 .. Len(pipe) : w[i] \in Views /\ ViewOk(w[i]) /\ PlaceOk(w, i)
        /\ \A j \in 1 .. Len(pipe) : SentOk(w, j) /\ pipe[j].kind # "paused"
        /\ ServerOk(w[0]) /\ Len(pipe) \in Nat
    <2>1. \A j \in 1 .. Len(pipe) : SentOk(w, j)
      BY DEF Rounds
    <2> QED BY <2>1, StepRounds DEF Rounds
  <1>5. TextsOk'
    <2>1. saved' <= made /\ (~Asked => saved' >= 1)
      BY <1>4, TextFacts DEF TextsOk
    <2> QED BY <1>3, <1>4, <2>1 DEF TextsOk
  <1>6. TextsGrow
    BY <1>3, TextFacts DEF TextsGrow
  <1>7. \A p : Current(p)' = Current(p)
    BY <1>3 DEF Current
  <1>8. ASSUME NEW i \in 0 .. Len(pipe') PROVE ViewOk(w[i])' /\ PlaceOk(w, i)'
    <2>1. i \in 0 .. Len(pipe) /\ w[i] \in Views /\ ViewOk(w[i])
      BY <1>4
    <2>2. w[i].open # "none" => (w[i].answer # 0 => saved' >= w[i].answer)
      BY <1>4, <2>1 DEF ViewOk, VisitOk, Fixes, Older
    <2>3. ViewOk(w[i])'
      BY <1>1, <1>4, <1>6, <2>1, <2>2, ViewGrows
    <2>4. PlaceOk(w, i)'
      BY <1>3, <1>4, <1>7, <2>1 DEF PlaceOk, Final, Behind, Awaits, Text
    <2> QED BY <2>3, <2>4
  <1>9. \A j \in 1 .. Len(pipe') : SentOk(w, j)'
    BY <1>4 DEF SentOk, Approved
  <1>10. ServerOk(w[0])'
    <2>1. phase = "pausing" => ckpt.node = "author"
      BY <1>4 DEF ServerOk
    <2>2. Final(0)' /\ Approved(w[0]) => finalInput' = 0 \/ (finalInput' # InFile /\ Current(finalInput)')
      <3>1. Final(0)' = Final(0)
        BY DEF Final
      <3> QED BY <1>3, <1>4, <3>1 DEF ServerOk, Current
    <2> QED BY <1>1, <1>3, <1>4, <2>1, <2>2 DEF ServerOk, Approved, Current
  <1>11. RunnerOk(w, w[Len(pipe)])'
    <2>1. w[Len(pipe)]' = v
      OBVIOUS
    <2> QED BY <2>1 DEF RunnerOk, StepOk, CriticOk, Foremost, RoundEnded, Continues
  <1> QED BY <1>2, <1>3, <1>4, <1>5, <1>8, <1>9, <1>10, <1>11 DEF Rounds

\* Records that show no work leave what the rounds need of a view.
Idle(a, b) ==
    /\ a.node = b.node /\ a.last = b.last /\ a.gave = b.gave /\ a.first = b.first
    /\ a.answer = b.answer /\ a.handed = b.handed /\ a.open = b.open /\ a.visit = b.visit
    /\ a.check = b.check /\ a.decisive = b.decisive /\ a.verdict = b.verdict /\ a.text = b.text
    /\ a.passed = b.passed

LEMMA IdleSeen ==
    ASSUME NEW v \in Views, NEW r \in Records, r.kind \in {"input", "paused", "failure", "final"}
    PROVE  /\ Idle(Seen(v, r), v)
           /\ Seen(v, r).input = IF r.kind = "input" THEN [node |-> r.node, st |-> r.st] ELSE v.input
           /\ Seen(v, r).at = IF r.kind = "paused" THEN r.node ELSE v.at
           /\ r.kind # "paused" => Seen(v, r).stopped = v.stopped
  BY DEF Seen, Idle, Decisive, Views

LEMMA IdleOk ==
    ASSUME NEW a, NEW b, Idle(a, b), ViewOk(b), a.input.st.captured # InFile, ~Asked => a.at # "author"
    PROVE  ViewOk(a)
  BY DEF Idle, ViewOk, VisitOk, HandedOk, Text, Fixes, Awaits, Approved

LEMMA IdleSame ==
    ASSUME NEW a, NEW b, Idle(a, b)
    PROVE  /\ Awaits(a) = Awaits(b) /\ Text(a) = Text(b) /\ Approved(a) = Approved(b)
           /\ Fixes(a) = Fixes(b) /\ \A c : Continues(c, a) = Continues(c, b)
  BY DEF Idle, Continues, Text, Fixes, Awaits, Approved

\* The runner sends one record more, and no text changes.
LEMMA SendPlain ==
    ASSUME Typed, NEW w, Tracks(w), Rounds(w), RunnersOwn, Working,
           NEW r \in Records, Emit(r), NEW v, v = Seen(w[Len(pipe)], r), NEW x, x = w[Len(pipe)],
           UNCHANGED texts, UNCHANGED <<proofFile, saved, finalInput>>, r.kind # "author",
           ViewOk(v), ~Asked /\ v.answer = 0 => made = 1,
           ~Awaits(v) => Current(Text(v)) /\ (v.handed # 0 => Current(v.handed)),
           r.kind = "approved" => x.last = "critic" /\ x.verdict = "pass",
           r.kind = "convention" => Approved(x),
           r.kind = "paused" => pc' = "exited" /\ Continues(r, v),
           pc' \notin {"dead", "off"},
           \A u : Extends(u, w, r) => RunnerOk(u, v)'
    PROVE  \E u : Tracks(u)' /\ Rounds(u)'
  <1>1. UNCHANGED <<stages, ckpt, phase>> /\ Asked' = Asked
    BY OwnNow DEF Asked
  <1>2. UNCHANGED <<made, edits, root, newest, approved>>
    BY DEF texts
  <1>3. TextsGrow
    BY <1>2, TextFacts DEF TextsGrow
  <1>4. x \in Views /\ TextsOk /\ InFile \notin approved
    BY StepRounds
  <1>5. TextsOk' /\ InFile \notin approved'
    BY <1>1, <1>2, <1>4 DEF TextsOk
  <1>6. v \in Views
    BY <1>4, SeenTyped
  <1>7. v.open # "none" => (v.answer # 0 => saved' >= v.answer)
    BY DEF ViewOk, VisitOk, Fixes
  <1>8. ViewOk(v)'
    BY <1>1, <1>3, <1>4, <1>6, <1>7, ViewGrows
  <1>9. \A p : Current(p)' = Current(p)
    BY <1>2 DEF Current
  <1>10. Text(v)' = Text(v)
    BY DEF Text
  <1>11. r.kind = "paused" => Continues(r, v)'
    <2>1. Continues(r, v) => Continues(r, v)'
      BY <1>1, <1>2 DEF Continues, SavedRound, Round, Before, Fixes, Text, Same, Approved, Current, Awaits
    <2> QED BY <2>1
  <1> QED BY <1>2, <1>3, <1>5, <1>8, <1>9, <1>10, <1>11, SendRounds

\* A step that ends the runner with its checkpoint.
LEMMA PausesRounds ==
    ASSUME Typed, NEW w, Tracks(w), Rounds(w), RunnersOwn, Working,
           NEW n \in Nodes, NEW s \in States, PausesAt(n, s),
           UNCHANGED texts, UNCHANGED <<proofFile, saved, finalInput>>,
           Continues([kind |-> "paused", node |-> n, st |-> s], w[Len(pipe)])
    PROVE  \E u : Tracks(u)' /\ Rounds(u)'
  <1> DEFINE r == [kind |-> "paused", node |-> n, st |-> s]
  <1>1. PICK x : x = w[Len(pipe)]
    OBVIOUS
  <1>2. PICK v : v = Seen(x, r)
    OBVIOUS
  <1>3. /\ r \in Records /\ Emit(r) /\ pc' = "exited" /\ r.kind = "paused" /\ r.node = n
        /\ Continues(r, x)
    BY <1>1 DEF Records, PausesAt
  <1>4. /\ x \in Views /\ ViewOk(x) /\ Len(pipe) \in Nat
        /\ ~Awaits(x) => Current(Text(x)) /\ (x.handed # 0 => Current(x.handed))
        /\ ~Asked /\ x.answer = 0 => made = 1
    BY <1>1, StepRounds
  <1> HIDE DEF r
  <1>5. Idle(v, x) /\ v.input = x.input /\ v.at = n
    BY <1>2, <1>3, <1>4, IdleSeen
  <1>6. n = "author" => Asked
    BY <1>3 DEF Continues
  <1>7. ViewOk(v)
    BY <1>4, <1>5, <1>6, IdleOk DEF ViewOk
  <1>8. Awaits(v) = Awaits(x) /\ Text(v) = Text(x) /\ Continues(r, v) = Continues(r, x)
    BY <1>5, IdleSame
  <1>9. v.handed = x.handed /\ v.answer = x.answer
    BY <1>5 DEF Idle
  <1>10. ASSUME NEW u PROVE RunnerOk(u, v)'
    <2>1. Len(pipe') = Len(pipe) + 1 /\ pipe'[Len(pipe) + 1] = r /\ Len(pipe) \in Nat
      BY <1>3, AppendedIs, PipeIs DEF Typed
    <2>2. pipe' # <<>> /\ pipe'[Len(pipe')].kind = "paused"
      BY <1>3, <2>1, EmptySeq
    <2> QED BY <1>3, <2>2 DEF RunnerOk, Working, RoundEnded
  <1> QED BY <1>1, <1>2, <1>3, <1>4, <1>7, <1>8, <1>9, <1>10, SendPlain

-----------------------------------------------------------------------------
(* The rounds: the runner's steps *)

LEMMA OlderGrows ==
    ASSUME Typed, NEW w, Tracks(w), NEW r, NEW u, Extends(u, w, r), NEW t, Older(w, t),
           NEW v, v = Seen(w[Len(pipe)], r), v.answer <= t
    PROVE  Older(u, t)'
  <1>1. Len(pipe) \in Nat /\ Len(pipe)' = Len(pipe) + 1
    BY TrackIs DEF Extends
  <1>2. \A i \in 0 .. Len(pipe) + 1 : i \in 0 .. Len(pipe) \/ i = Len(pipe) + 1
    BY <1>1
  <1>3. \A i \in 0 .. Len(pipe) + 1 : u[i].answer <= t
    BY <1>2 DEF Older, Extends
  <1> QED BY <1>1, <1>3 DEF Older

LEMMA ForemostGrows ==
    ASSUME Typed, NEW w, Tracks(w), NEW r, NEW u, Extends(u, w, r), Foremost(w),
           NEW v, v = Seen(w[Len(pipe)], r), v.answer = w[Len(pipe)].answer,
           UNCHANGED <<proofFile, made>>, st'.sol = st.sol
    PROVE  Foremost(u)'
  <1>1. ASSUME NEW t, Older(w, t) PROVE Older(u, t)'
    <2>1. v.answer <= t
      BY <1>1, TrackIs DEF Older
    <2> QED BY <1>1, <2>1, OlderGrows
  <1>2. CASE st.sol = InFile /\ proofFile # 0
    <2>1. PICK t : t = proofFile
      OBVIOUS
    <2>2. Older(u, t)'
      BY <1>1, <1>2, <2>1 DEF Foremost
    <2>3. Older(u, proofFile)'
      BY <2>1, <2>2 DEF Older
    <2> QED BY <1>2, <2>3 DEF Foremost
  <1>3. CASE st.sol = InFile /\ proofFile = 0
    BY <1>3 DEF Foremost
  <1>4. CASE st.sol # InFile
    <2>1. PICK t : t = st.sol
      OBVIOUS
    <2>2. Older(u, t)'
      BY <1>1, <1>4, <2>1 DEF Foremost
    <2>3. Older(u, st.sol)'
      BY <2>1, <2>2 DEF Older
    <2> QED BY <1>4, <2>3 DEF Foremost
  <1> QED BY <1>2, <1>3, <1>4

\* An author is given the step.
LEMMA BehindGrows ==
    ASSUME Typed, NEW w, Tracks(w), NEW r \in Records, Emit(r), NEW u, Extends(u, w, r), stages' = stages,
           \A i \in 0 .. Len(pipe) : Behind(w, i), NEW v, v = Seen(w[Len(pipe)], r), Awaits(v)
    PROVE  (\A i \in 0 .. Len(pipe) : Behind(u, i))'
  <1> DEFINE n == Len(pipe)
  <1>1. n \in Nat /\ pipe \in Seq(Records) /\ DOMAIN pipe = 1 .. n
    BY TrackIs DEF Typed, PipeTyped
  <1>2. DOMAIN pipe' = 1 .. Len(pipe') /\ Len(pipe') = n + 1
    BY <1>1, AppendProperties, LenProperties DEF Emit
  <1>3. /\ \A j \in 1 .. n : pipe'[j] = pipe[j]
        /\ \A i \in 0 .. n : u[i] = w[i]
        /\ u[n + 1] = v
    BY DEF Extends
  <1> HIDE DEF n
  <1>4. Asked' = Asked
    BY DEF Asked
  <1>5. ASSUME NEW i \in 0 .. n + 1 PROVE Behind(u, i)'
    <2>1. CASE i \in 0 .. n
      <3>1. Behind(w, i) /\ u[i] = w[i]
        BY <1>3, <2>1 DEF n
      <3>2. CASE Awaits(w[i]) \/ w[i].last = "critic"
        BY <1>4, <3>1, <3>2 DEF Behind, Awaits
      <3>3. CASE \E j \in DOMAIN pipe : j > i /\ pipe[j].kind = "critic"
        <4>1. PICK j \in 1 .. n : j > i /\ pipe[j].kind = "critic"
          BY <1>1, <3>3
        <4>2. j \in DOMAIN pipe' /\ pipe'[j].kind = "critic"
          BY <1>1, <1>2, <1>3, <4>1
        <4> QED BY <4>1, <4>2 DEF Behind
      <3> QED BY <3>1, <3>2, <3>3 DEF Behind
    <2>2. CASE i = n + 1
      BY <1>3, <1>4, <2>2 DEF Behind, Awaits
    <2> QED BY <1>1, <2>1, <2>2
  <1> QED BY <1>2, <1>5

\* A critic's visit that its round counts.
LEMMA VisitContinues ==
    ASSUME Typed, NEW w, NEW v, StepOk(w, v), node # "author", NEW k \in Nat,
           node = "critic" => Round(st.sol, k, verify) /\ Fixes(v),
           NEW c, c.node = node, c.st = StepVisit(st, node, k + 1, verify)
    PROVE  Continues(c, v)
  <1> DEFINE s == StepVisit(st, node, k + 1, verify)
  <1>1. st \in States /\ verify \in BOOLEAN /\ node \in Nodes /\ k + 1 \in Nat
    BY StepFacts
  <1>2. /\ s.sol = st.sol /\ s.captured = st.captured
        /\ s.visit = IF k + 1 > 1 \/ verify THEN k + 1 ELSE st.visit
        /\ s.verify = IF k + 1 > 1 \/ verify THEN verify ELSE st.verify
    BY <1>1, VisitIs, StepVisitIs
  <1> HIDE DEF s
  <1>3. c.st = s
    BY DEF s
  <1>4. node = "critic" => SavedRound(st.sol, s.visit, s.verify)
    BY <1>1, <1>2, TextFacts DEF SavedRound, Before, Round, StepOk
  <1>5. c.st.sol = st.sol /\ c.st.captured = st.captured /\ c.st.visit = s.visit /\ c.st.verify = s.verify
    BY <1>2, <1>3
  <1> QED BY <1>4, <1>5 DEF Continues, StepOk

LEMMA BeginStepRounds ==
    ASSUME Typed, NEW w, Tracks(w), Rounds(w), BeginStep
    PROVE  \E u : Tracks(u)' /\ Rounds(u)'
  <1>1. /\ RunnersOwn /\ Working /\ pc = "top"
        /\ UNCHANGED texts /\ UNCHANGED <<proofFile, saved, finalInput>>
        /\ UNCHANGED <<node, st, verify, previous, before>> /\ visits' = visits + 1
    BY DEF BeginStep, NoOtherActor, RunnersOwn, Working
  <1>2. PICK x : x = w[Len(pipe)]
    OBVIOUS
  <1>3. /\ x \in Views /\ ViewOk(x) /\ TextsOk /\ StepOk(w, x) /\ (node = "critic" => CriticOk(w, x))
        /\ Len(pipe) \in Nat
        /\ ~Awaits(x) => Current(Text(x)) /\ (x.handed # 0 => Current(x.handed))
        /\ ~Asked /\ x.answer = 0 => made = 1
        /\ \A i \in 0 .. Len(pipe) : w[i] \in Views /\ w[i].answer <= made
        /\ (node = "convention" => st.sol = x.answer)
    BY <1>1, <1>2, StepRounds DEF RunnerOk
  <1>4. st \in States /\ node \in Nodes /\ visits \in Nat /\ verify \in BOOLEAN /\ visits + 1 \in Nat
    BY StepFacts
  <1>5. node = "critic" => Round(st.sol, visits, verify) /\ Fixes(x)
    BY <1>1, <1>3 DEF CriticOk
  <1>6. CASE request
    <2> DEFINE s == IF node = "author" THEN st ELSE StepVisit(st, node, visits + 1, verify)
               c == [kind |-> "paused", node |-> node, st |-> s]
    <2>1. PausesAt(node, s) /\ s \in States
      BY <1>4, <1>6, StepVisitIs DEF BeginStep
    <2>2. Continues(c, x)
      <3>1. CASE node = "author"
        <4>1. Asked /\ Behind(w, Len(pipe)) /\ ~Approved(x) /\ st.captured # InFile
          BY <1>3, <3>1 DEF StepOk, Late
        <4>2. x.last # "author"
          BY <1>2, <1>3, <4>1, TrackIs DEF Behind, Awaits
        <4>3. c.node = "author" /\ c.st.captured = st.captured
          BY <3>1
        <4> HIDE DEF c, s
        <4> QED BY <4>1, <4>2, <4>3 DEF Continues, Late, InReview
      <3>2. CASE node # "author"
        <4>1. c.node = node /\ c.st = StepVisit(st, node, visits + 1, verify)
          BY <3>2
        <4> HIDE DEF c, s
        <4> QED BY <1>3, <1>4, <1>5, <3>2, <4>1, VisitContinues
      <3> QED BY <3>1, <3>2
    <2> HIDE DEF s
    <2> QED BY <1>1, <1>2, <1>4, <2>1, <2>2, PausesRounds
  <1>7. CASE ~request
    <2> DEFINE r == [kind |-> "step", node |-> node, visit |-> visits + 1, verify |-> verify]
    <2>1. r \in Records /\ Emit(r) /\ r.kind = "step" /\ r.node = node /\ r.visit = visits + 1 /\ r.verify = verify
      BY <1>4, <1>7 DEF BeginStep, Records
    <2>2. pc' = CASE node = "author" -> "work" [] node = "latex" -> "final_input" [] OTHER -> "prepare"
      BY <1>7 DEF BeginStep
    <2> HIDE DEF r
    <2>3. PICK v : v = Seen(x, r)
      OBVIOUS
    <2>4. /\ v.node = node /\ v.at = node /\ v.last = "step" /\ v.input = x.input
          /\ v.gave = x.gave /\ v.first = x.first /\ v.answer = x.answer /\ v.handed = x.handed
          /\ v.open = (IF node = "critic" THEN "step" ELSE "none")
          /\ v.visit = (IF node = "critic" THEN SavedVisit(visits + 1, verify) ELSE 0)
          /\ v.check = (IF node = "critic" THEN verify ELSE FALSE)
          /\ v.decisive = x.decisive /\ v.verdict = x.verdict /\ v.text = x.text /\ v.passed = x.passed
          /\ v.stopped = x.stopped
      BY <1>3, <2>1, <2>3 DEF Seen, Decisive, Views
    <2>5. Text(v) = Text(x) /\ Fixes(v) = Fixes(x) /\ Approved(v) = Approved(x)
      BY <2>4 DEF Text, Fixes, Approved
    <2>6. node = "author" => Asked /\ Awaits(v)
      BY <1>3, <2>4 DEF StepOk, Awaits
    <2>7. node # "author" => ~Awaits(v) /\ Current(Text(x)) /\ (x.handed # 0 => Current(x.handed))
      BY <1>3, <1>4, <2>4 DEF StepOk, Awaits, Nodes
    <2>8. VisitOk(v)
      <3>1. ASSUME node = "critic" PROVE SavedRound(Text(x), SavedVisit(visits + 1, verify), verify)
        <4>1. Same(Text(x), st.sol) /\ Text(x) \in Proofs \cup {InFile}
          <5>1. Same(Text(x), st.sol) /\ (Asked => x.first # 0)
            BY <1>3, <3>1 DEF StepOk, InReview
          <5> QED BY <1>3, <5>1, TextMade, TextFacts
        <4>2. Round(Text(x), visits, verify)
          BY <1>3, <1>4, <1>5, <3>1, <4>1, SameRound
        <4> QED BY <1>4, <4>2, SavesRound
      <3> QED BY <1>3, <1>5, <2>4, <2>5, <3>1 DEF VisitOk, StepOk, Late
    <2>9. ViewOk(v)
      <3>1. HandedOk(v)
        BY <1>3, <2>4, <2>5 DEF ViewOk, HandedOk
      <3> QED BY <1>3, <1>4, <2>4, <2>5, <2>6, <2>8, <3>1 DEF ViewOk, StepOk, Late, InReview, Nodes
    <2>10. ASSUME NEW u, Extends(u, w, r) PROVE RunnerOk(u, v)'
      <3>1. pc' \in {"work", "prepare", "final_input"} /\ (pc' = "work" <=> node = "author")
            /\ (pc' = "prepare" <=> node \in InReview)
        BY <1>4, <2>2 DEF Nodes, InReview
      <3>2. UNCHANGED <<stages, phase, made, edits, root, newest>> /\ Asked' = Asked
        BY <1>1, OwnNow DEF texts, Asked
      <3>3. StepOk(u, v)'
        <4>1. node = "author" => (\A i \in 0 .. Len(pipe) : Behind(u, i))'
          BY <1>2, <1>3, <2>1, <2>3, <2>6, <2>10, <3>2, BehindGrows DEF StepOk
        <4>2. Current(st.sol)' = Current(st.sol) /\ Text(v)' = Text(v) /\ Awaits(v)' = Awaits(v)
              /\ Approved(v)' = Approved(v)
          BY <1>1, <3>2 DEF Current, Text, Awaits, Approved
        <4>3. Same(Text(v), st.sol)' = Same(Text(v), st.sol)
          BY <1>1, <3>2 DEF Same, Text
        <4> QED BY <1>1, <1>3, <2>4, <2>5, <2>6, <2>7, <3>1, <3>2, <4>1, <4>2, <4>3 DEF StepOk
      <3>4. node = "critic" => CriticOk(u, v)'
        <4> SUFFICES ASSUME node = "critic" PROVE CriticOk(u, v)'
          OBVIOUS
        <4>1. pc' = "prepare" /\ visits' - 1 = visits /\ visits' >= 1 /\ v.open # "none" /\ CriticOk(w, x)
          BY <1>1, <1>3, <1>4, <2>4, <3>1 DEF InReview
        <4>3. Foremost(u)'
          BY <1>1, <1>2, <2>3, <2>4, <2>10, <3>2, <4>1, ForemostGrows DEF CriticOk
        <4>4. Fixes(v)'
          BY <1>1, <1>5, <2>5 DEF Fixes
        <4>5. Round(st.sol, visits - 1, verify)'
          BY <1>1, <1>4, <1>5, <3>2 DEF Round
        <4> QED BY <1>1, <4>1, <4>3, <4>4, <4>5 DEF CriticOk
      <3> QED BY <1>1, <1>3, <2>4, <2>6, <3>1, <3>2, <3>3, <3>4 DEF RunnerOk, Working, Awaits
    <2>11. pc' \notin {"dead", "off"}
      BY <1>4, <2>2 DEF Nodes
    <2> QED BY <1>1, <1>2, <1>3, <2>1, <2>3, <2>4, <2>5, <2>6, <2>7, <2>9, <2>10, <2>11, SendPlain
  <1> QED BY <1>6, <1>7

LEMMA AuthorSubmitsRounds ==
    ASSUME Typed, Reviewed, NEW w, Tracks(w), Rounds(w), AuthorSubmits
    PROVE  \E u : Tracks(u)' /\ Rounds(u)'
  <1>1. /\ RunnersOwn /\ Working /\ pc = "work" /\ node' = "critic" /\ pc' = "top" /\ previous' = node
        /\ visits' = 0 /\ verify' = FALSE /\ before' = st
        /\ UNCHANGED <<saved, finalInput, edits, root, approved>>
    BY DEF AuthorSubmits, NoOtherActor, RunnersOwn, Working, Reviewed, GoTo
  <1>2. PICK x : x = w[Len(pipe)]
    OBVIOUS
  <1>3. /\ x \in Views /\ ViewOk(x) /\ TextsOk /\ StepOk(w, x) /\ InFile \notin approved
        /\ node = "author" /\ Len(pipe) \in Nat
        /\ \A i \in 0 .. Len(pipe) : w[i] \in Views /\ w[i].answer <= made /\ w[i].answer \in Texts
    BY <1>1, <1>2, StepRounds, TextIs DEF RunnerOk
  <1>4. PICK pointer \in BOOLEAN, c \in {0} \cup ({made + 1} \cap Proofs) :
          /\ (c = 0 => pointer)
          /\ proofFile' = IF pointer THEN c ELSE proofFile
          /\ made' = IF c = 0 THEN made ELSE c
          /\ newest' = IF c = 0 THEN newest ELSE c
          /\ st' = [st EXCEPT !.sol = IF pointer THEN InFile ELSE c, !.note = FALSE]
          /\ Emit([kind |-> "author", text |-> st'.sol])
    BY DEF AuthorSubmits
  <1>5. PICK t : t = IF pointer THEN InFile ELSE c
    OBVIOUS
  <1>6. /\ made \in Nat /\ made < InFile /\ Limit >= 1 /\ Limit \in Nat /\ InFile \in Texts /\ 0 \in Texts
        /\ c \in Texts /\ c <= MaxProofs /\ InFile = MaxProofs + 1 /\ InFile # 0
        /\ c # 0 => c = made + 1 /\ c \in Proofs
        /\ edits \in [Texts -> Nat] /\ root \in [Texts -> Texts]
    BY TextFacts
  <1>7. /\ st'.sol = t /\ st'.captured = st.captured /\ st'.visit = st.visit /\ st'.verify = st.verify
        /\ st'.report = st.report
    BY <1>4, <1>5, StepFacts DEF States
  <1>8. Asked /\ Asked' = Asked /\ phase' = phase
    BY <1>1, <1>3, OwnNow DEF StepOk, Asked
  <1> DEFINE r == [kind |-> "author", text |-> t]
  <1>9. r \in Records /\ Emit(r) /\ r.kind = "author" /\ r.text = t
    BY <1>4, <1>5, <1>6, <1>7 DEF Records
  <1> HIDE DEF r
  <1>10. PICK v : v = Seen(x, r)
    OBVIOUS
  <1>11. /\ v.node = "author" /\ v.at = "author" /\ v.last = "author" /\ v.gave /\ v.first = t
         /\ v.answer = 0 /\ v.handed = 0 /\ v.open = "none" /\ v.decisive = "author"
         /\ v.input = x.input /\ v.stopped = x.stopped
    BY <1>3, <1>9, <1>10 DEF Seen, Views, Decisive
  <1>12. made <= made' /\ made' \in Nat /\ made' < InFile
    <2>1. CASE c = 0
      BY <1>4, <1>6, <2>1
    <2>2. CASE c # 0
      <3>1. made' = made + 1 /\ made + 1 <= MaxProofs
        BY <1>4, <1>6, <2>2
      <3> QED BY <1>6, <3>1, TextFacts
    <2> QED BY <2>1, <2>2
  <1>13. TextsGrow
    BY <1>1, <1>12 DEF TextsGrow
  <1>14. TextsOk' /\ InFile \notin approved'
    <2>1. \A p \in Texts : p > made' \/ p = 0 => edits[p] = 0
      BY <1>3, <1>6, <1>12 DEF TextsOk
    <2>2. edits[proofFile'] = 0 /\ proofFile' <= made'
      <3>1. edits[proofFile] = 0 /\ proofFile <= made /\ proofFile \in Nat /\ made + 1 \in Nat
        BY <1>3, <1>6, TextFacts DEF TextsOk
      <3>2. edits[c] = 0 /\ c <= made' /\ c \in Nat
        <4>1. c = 0 \/ (c = made + 1 /\ c \in Texts /\ made' = c)
          BY <1>4, <1>6
        <4> QED BY <1>3, <1>6, <1>12, <4>1 DEF TextsOk
      <3> QED BY <1>4, <1>12, <1>6, <3>1, <3>2
    <2>3. \A p \in Texts : p > made' => root[p] = p
      BY <1>3, <1>6, <1>12 DEF TextsOk
    <2>4. newest' <= made' /\ (newest' # 0 => root[newest'] = newest') /\ saved <= made'
      <3>1. newest <= made /\ (newest # 0 => root[newest] = newest) /\ saved <= made /\ newest \in Nat /\ saved \in Nat
        BY <1>3, <1>6, TextFacts DEF TextsOk
      <3>2. c # 0 => root[c] = c
        BY <1>3, <1>6 DEF TextsOk
      <3> QED BY <1>4, <1>6, <1>12, <3>1, <3>2
    <2> QED BY <1>1, <1>3, <1>8, <2>1, <2>2, <2>3, <2>4 DEF TextsOk
  <1>15. ViewOk(v)'
    <2>1. t \in (0 .. made') \cup {InFile} /\ t # 0
      BY <1>4, <1>5, <1>6
    <2>2. VisitOk(v)' /\ HandedOk(v)'
      BY <1>11 DEF VisitOk, HandedOk
    <2> QED BY <1>3, <1>8, <1>11, <1>12, <2>1, <2>2 DEF ViewOk, Approved, Late, InReview
  <1>16. Text(v) = t /\ t # 0
    BY <1>4, <1>5, <1>6, <1>11 DEF Text
  <1>17. Current(t)'
    BY <1>1, <1>3, <1>4, <1>5, <1>6, <1>12 DEF Current, TextsOk
  <1>18. \A i \in 0 .. Len(pipe) : Behind(w, i)
    BY <1>3 DEF StepOk
  <1>19. ASSUME NEW u, Extends(u, w, r) PROVE RunnerOk(u, v)'
    <2>1. StepOk(u, v)'
      <3>1. Current(st.sol)'
        BY <1>7, <1>17 DEF Current
      <3>2. Text(v)' = Text(v)
        BY DEF Text
      <3> QED BY <1>1, <1>3, <1>7, <1>8, <1>11, <1>16, <3>1, <3>2 DEF StepOk, Approved, Late, Awaits, Same
    <2>2. CriticOk(u, v)'
      <3>1. edits[t] = 0 /\ t \in Proofs \cup {InFile}
        BY <1>3, <1>4, <1>5, <1>6 DEF TextsOk
      <3>2. Round(st.sol, visits, verify)'
        BY <1>1, <1>6, <1>7, <3>1 DEF Round
      <3>3. ASSUME NEW p \in Texts, p = made + 1 PROVE Older(u, p)'
        <4>1. \A i \in 0 .. Len(pipe) : w[i].answer <= p
          BY <1>3, <1>6, <3>3 DEF Texts
        <4>2. Older(w, p) /\ v.answer <= p
          BY <1>6, <1>11, <3>3, <4>1 DEF Older
        <4> QED BY <1>2, <1>10, <1>19, <4>2, OlderGrows
      <3>4. Foremost(u)'
        <4>1. CASE pointer /\ c = 0
          BY <1>4, <1>5, <1>7, <4>1 DEF Foremost
        <4>2. CASE pointer /\ c # 0
          <5>1. Older(u, c)'
            BY <1>6, <3>3, <4>2
          <5>2. Older(u, proofFile)'
            BY <1>4, <4>2, <5>1 DEF Older
          <5> QED BY <1>5, <1>7, <4>2, <5>2 DEF Foremost
        <4>3. CASE ~pointer
          <5>1. c # 0 /\ st'.sol = c /\ made' = c
            BY <1>4, <1>5, <1>7, <4>3
          <5>2. Older(u, c)'
            BY <1>6, <3>3, <5>1
          <5>3. Older(u, st.sol)'
            BY <5>1, <5>2 DEF Older
          <5>4. c # InFile /\ c <= c
            BY <1>6, <5>1, TextFacts
          <5>5. st'.sol # InFile /\ st'.sol <= made'
            BY <5>1, <5>4
          <5> QED BY <5>3, <5>5 DEF Foremost, InFile
        <4> QED BY <4>1, <4>2, <4>3
      <3> QED BY <1>1, <1>3, <1>11, <3>2, <3>4 DEF CriticOk, Fixes
    <2> QED BY <1>1, <2>1, <2>2 DEF RunnerOk, Working
  <1>20. Awaits(v) = FALSE /\ v.handed = 0
    BY <1>11 DEF Awaits
  <1>21. Text(v)' = Text(v)
    BY DEF Text
  <1>22. Current(Text(v))'
    BY <1>16, <1>17, <1>21 DEF Current
  <1> QED BY <1>1, <1>2, <1>8, <1>9, <1>10, <1>13, <1>14, <1>15, <1>18, <1>19, <1>20, <1>22, SendRounds

LEMMA AuthorPausesRounds ==
    ASSUME Typed, NEW w, Tracks(w), Rounds(w), AuthorPauses
    PROVE  \E u : Tracks(u)' /\ Rounds(u)'
  <1>1. /\ RunnersOwn /\ Working /\ PausesAt("author", st) /\ pc = "work"
        /\ UNCHANGED texts /\ UNCHANGED <<proofFile, saved, finalInput>>
    BY DEF AuthorPauses, NoOtherActor, RunnersOwn, Working
  <1>2. PICK x : x = w[Len(pipe)]
    OBVIOUS
  <1>3. StepOk(w, x) /\ node = "author" /\ Awaits(x)
    BY <1>1, <1>2, StepRounds DEF RunnerOk
  <1>4. Continues([kind |-> "paused", node |-> "author", st |-> st], x)
    BY <1>3 DEF Continues, StepOk, Late, InReview, Awaits
  <1> QED BY <1>1, <1>2, <1>4, StepFacts, PausesRounds DEF Nodes

\* An answer that only points to proof.md, whose content cannot be read.
LEMMA RefuseRounds ==
    ASSUME Typed, NEW w, Tracks(w), Rounds(w), RunnersOwn, Working, Refuse,
           UNCHANGED texts, UNCHANGED <<proofFile, saved, finalInput>>, NEW x, x = w[Len(pipe)],
           ~Approved(x), Asked
    PROVE  \E u : Tracks(u)' /\ Rounds(u)'
  <1> DEFINE s == [(IF previous = "author" THEN before ELSE st) EXCEPT !.note = TRUE]
             c == [kind |-> "paused", node |-> "author", st |-> s]
  <1>1. s \in States /\ s.note /\ (s.captured = st.captured \/ s.captured = before.captured)
    BY StepFacts DEF States
  <1>2. PausesAt("author", s)
    BY DEF Refuse
  <1>3. st.captured # InFile /\ before.captured # InFile
    BY StepRounds DEF StepOk
  <1>4. c.node = "author" /\ c.st = s
    OBVIOUS
  <1> HIDE DEF s
  <1>5. Continues(c, x)
    <2> HIDE DEF c
    <2> QED BY <1>1, <1>3, <1>4 DEF Continues, Late, InReview
  <1> QED BY <1>1, <1>2, <1>5, PausesRounds DEF Nodes

-----------------------------------------------------------------------------
(* The rounds: the runner's other steps *)

\* What a step that reviews a text hands over.
LEMMA HandsOver ==
    ASSUME Typed, NEW w, Tracks(w), Rounds(w), pc = "prepare", NEW x, x = w[Len(pipe)]
    PROVE  /\ node \in InReview /\ x.node = node /\ x.at = node
           /\ st.sol # InFile => Candidate = st.sol
           /\ st.sol = InFile => node = "critic" /\ Asked /\ Candidate = proofFile
           /\ Candidate # 0 => /\ Candidate \in Proofs /\ Candidate <= made /\ Candidate # InFile
                               /\ Same(st.sol, Candidate) /\ Same(Text(x), Candidate)
                               /\ Current(Candidate)
           /\ Candidate = 0 => st.sol = InFile
  <1>1. Working
    BY DEF Working
  <1>2. /\ x \in Views /\ ViewOk(x) /\ TextsOk /\ StepOk(w, x) /\ (node = "critic" => CriticOk(w, x))
        /\ RunnerOk(w, x)
    BY <1>1, StepRounds
  <1>3. node \in InReview /\ x.node = node /\ x.at = node /\ (node = "convention" => st.sol = x.answer)
    BY <1>1, <1>2 DEF RunnerOk
  <1>4. /\ Current(st.sol) /\ Same(Text(x), st.sol) /\ (Asked => x.first # 0)
        /\ node = "convention" => st.sol # InFile /\ Approved(x)
        /\ st.captured # InFile
    BY <1>2, <1>3 DEF StepOk, InReview, Late
  <1>5. node = "convention" => st.sol # 0
    BY <1>2, <1>3, <1>4 DEF ViewOk
  <1>6. node = "critic" =>
          /\ visits >= 1 /\ Round(st.sol, visits - 1, verify)
          /\ st.sol = InFile => previous \in {"none", "author"}
    BY <1>2 DEF CriticOk
  <1>7. st.sol # 0
    BY <1>3, <1>5, <1>6, TextFacts DEF Round, InReview
  <1>8. st.sol = InFile => node = "critic" /\ visits = 1 /\ previous \in {"none", "author"}
    <2>1. edits[InFile] = 0 /\ visits \in Nat
      BY <1>2, TextFacts, StepFacts DEF TextsOk
    <2> QED BY <1>3, <1>4, <1>6, <2>1 DEF Round, InReview
  <1>9. st.sol = InFile => Candidate = proofFile
    BY <1>4, <1>8 DEF Candidate, ResolvesAgain
  <1>10. st.sol # InFile => Candidate = st.sol
    BY DEF Candidate
  <1>11. st.sol = InFile => Asked
    <2>1. Same(Text(x), InFile) => Text(x) = InFile
      BY TextFacts DEF Same
    <2>2. InFile \notin 1 .. made
      BY TextFacts
    <2> QED BY <1>2, <1>4, <2>1, <2>2, TextMade
  <1>12. ASSUME Candidate # 0 PROVE
           /\ Candidate \in Proofs /\ Candidate <= made /\ Candidate # InFile
           /\ Same(st.sol, Candidate) /\ Same(Text(x), Candidate)
           /\ Current(Candidate)
    <2>1. CASE st.sol = InFile
      <3>1. /\ proofFile \in Proofs /\ proofFile <= made /\ proofFile # InFile /\ edits[proofFile] = 0
            /\ proofFile \in 1 .. made /\ proofFile = newest /\ root[newest] = newest
        BY <1>2, <1>4, <1>9, <1>12, <2>1, TextFacts DEF Current, TextsOk
      <3>2. Text(x) = InFile
        BY <1>4, <2>1, TextFacts DEF Same
      <3> QED BY <1>9, <2>1, <3>1, <3>2 DEF Same, Current
    <2>2. CASE st.sol # InFile
      <3>1. st.sol \in 1 .. made /\ root[st.sol] = newest
        BY <1>4, <2>2 DEF Current
      <3>2. st.sol \in Proofs /\ st.sol <= made
        BY <3>1, TextFacts
      <3> QED BY <1>4, <1>10, <2>2, <3>2 DEF Same
    <2> QED BY <2>1, <2>2
  <1> QED BY <1>3, <1>7, <1>8, <1>9, <1>10, <1>11, <1>12

LEMMA PrepareRounds ==
    ASSUME Typed, NEW w, Tracks(w), Rounds(w), Prepare
    PROVE  \E u : Tracks(u)' /\ Rounds(u)'
  <1>1. /\ RunnersOwn /\ Working /\ pc = "prepare"
        /\ UNCHANGED texts /\ UNCHANGED <<proofFile, saved, finalInput>>
        /\ UNCHANGED <<node, visits, verify, previous, before>>
    BY DEF Prepare, NoOtherActor, RunnersOwn, Working, StaysAt
  <1>2. PICK x : x = w[Len(pipe)]
    OBVIOUS
  <1>3. /\ x \in Views /\ ViewOk(x) /\ TextsOk /\ StepOk(w, x) /\ (node = "critic" => CriticOk(w, x))
        /\ Len(pipe) \in Nat
        /\ ~Awaits(x) => Current(Text(x)) /\ (x.handed # 0 => Current(x.handed))
        /\ ~Asked /\ x.answer = 0 => made = 1
        /\ node = "convention" => st.sol = x.answer
    BY <1>1, <1>2, StepRounds DEF RunnerOk
  <1>4. st \in States /\ node \in Nodes /\ visits \in Nat /\ verify \in BOOLEAN
    BY StepFacts
  <1>5. PICK c : c = Candidate
    OBVIOUS
  <1>6. /\ node \in InReview /\ x.node = node /\ x.at = node
        /\ st.sol # InFile => c = st.sol
        /\ st.sol = InFile => node = "critic" /\ Asked /\ c = proofFile
        /\ c # 0 => /\ c \in Proofs /\ c <= made /\ c # InFile
                    /\ Same(st.sol, c) /\ Same(Text(x), c) /\ Current(c)
        /\ c = 0 => st.sol = InFile
    BY <1>1, <1>2, <1>5, HandsOver
  <1>7. CASE c = 0
    <2>1. Refuse
      BY <1>5, <1>7 DEF Prepare
    <2>2. ~Approved(x) /\ Asked
      BY <1>3, <1>6, <1>7 DEF StepOk, Late
    <2> QED BY <1>1, <1>2, <2>1, <2>2, RefuseRounds
  <1>8. CASE c # 0
    <2> DEFINE r == [kind |-> "handoff", text |-> c]
    <2>1. r \in Records /\ Emit(r) /\ r.kind = "handoff" /\ r.text = c
      BY <1>5, <1>6, <1>8, Numbers DEF Prepare, Records
    <2>2. pc' = "input" /\ st' = [st EXCEPT !.sol = c, !.captured = c]
      BY <1>5, <1>8 DEF Prepare
    <2> HIDE DEF r
    <2>3. /\ st'.sol = c /\ st'.captured = c /\ st'.visit = st.visit /\ st'.verify = st.verify
          /\ st'.report = st.report
      BY <1>4, <2>2 DEF States
    <2>4. PICK v : v = Seen(x, r)
      OBVIOUS
    <2>5. /\ v.node = node /\ v.at = node /\ v.last = "handoff" /\ v.input = x.input
          /\ v.gave = x.gave /\ v.first = x.first /\ v.answer = x.answer /\ v.handed = c
          /\ v.open = x.open /\ v.visit = x.visit /\ v.check = x.check
          /\ v.decisive = x.decisive /\ v.verdict = x.verdict /\ v.text = x.text /\ v.passed = x.passed
          /\ v.stopped = x.stopped
      BY <1>3, <1>6, <2>1, <2>4 DEF Seen, Decisive, Views, InReview
    <2>6. Text(v) = Text(x) /\ Fixes(v) = Fixes(x) /\ Approved(v) = Approved(x)
      BY <2>5 DEF Text, Fixes, Approved
    <2>7. ~Awaits(v) /\ ~Awaits(x)
      BY <1>3, <1>6, <2>5 DEF StepOk, Awaits, InReview
    <2>8. /\ node \in Late <=> Approved(x)
          /\ node = "critic" => x.open # "none" /\ Fixes(x) /\ Round(st.sol, visits - 1, verify)
                                /\ visits >= 1 /\ Foremost(w)
      BY <1>1, <1>3 DEF StepOk, CriticOk
    <2>9. ViewOk(v)
      <3>1. HandedOk(v)
        BY <1>6, <1>8, <2>5, <2>6 DEF HandedOk
      <3>2. VisitOk(v)
        BY <1>3, <1>6, <2>5, <2>6, <2>8 DEF VisitOk, ViewOk
      <3> QED BY <1>3, <1>6, <2>5, <2>6, <2>8, <3>1, <3>2 DEF ViewOk, Late, InReview
    <2>10. ASSUME NEW u, Extends(u, w, r) PROVE RunnerOk(u, v)'
      <3>1. UNCHANGED <<stages, phase, made, edits, root, newest>> /\ Asked' = Asked
        BY <1>1, OwnNow DEF texts, Asked
      <3>2. /\ Current(st.sol)' /\ Same(Text(v), st.sol)'
            /\ Text(v)' = Text(v) /\ Awaits(v)' = Awaits(v) /\ Approved(v)' = Approved(v)
        <4>1. Current(c)' /\ Same(Text(v), c)'
          BY <1>1, <1>6, <1>8, <2>6, <3>1 DEF Current, Same, Text
        <4>2. st'.sol = c
          BY <2>3
        <4> QED BY <3>1, <4>1, <4>2 DEF Current, Same, Text, Awaits, Approved
      <3>3. StepOk(u, v)'
        BY <1>1, <1>3, <1>6, <1>8, <2>2, <2>3, <2>5, <2>6, <2>7, <2>8, <3>1, <3>2 DEF StepOk, InReview
      <3>4. node = "critic" => CriticOk(u, v)'
        <4> SUFFICES ASSUME node = "critic" PROVE CriticOk(u, v)'
          OBVIOUS
        <4>1. Round(c, visits - 1, verify)
          BY <1>3, <1>4, <1>6, <1>8, <2>8, SameRound
        <4>2. Round(st.sol, visits - 1, verify)'
          BY <1>1, <2>3, <3>1, <4>1 DEF Round
        <4>3. Older(w, c)
          BY <1>6, <1>8, <2>8 DEF Foremost
        <4>4. v.answer <= c
          BY <1>2, <1>3, <2>5, <4>3 DEF Older
        <4>5. Older(u, c)'
          BY <1>2, <2>4, <2>10, <4>3, <4>4, OlderGrows
        <4>6. Older(u, st.sol)'
          BY <2>3, <4>5 DEF Older
        <4>7. Foremost(u)'
          BY <1>6, <1>8, <2>3, <3>1, <4>6 DEF Foremost, InFile
        <4>8. Fixes(v)'
          BY <1>1, <2>6, <2>8 DEF Fixes
        <4> QED BY <1>1, <1>6, <1>8, <2>2, <2>3, <2>5, <2>8, <4>2, <4>7, <4>8 DEF CriticOk, InFile
      <3>5. node = "convention" => c = v.answer
        BY <1>3, <1>6, <2>5
      <3> QED BY <1>1, <1>6, <2>2, <2>3, <2>5, <3>3, <3>4, <3>5 DEF RunnerOk, Working, InReview
    <2> QED BY <1>1, <1>2, <1>3, <1>6, <1>8, <2>1, <2>2, <2>4, <2>5, <2>6, <2>7, <2>9, <2>10, SendPlain
  <1> QED BY <1>7, <1>8

LEMMA ReportInputRounds ==
    ASSUME Typed, NEW w, Tracks(w), Rounds(w), ReportInput
    PROVE  \E u : Tracks(u)' /\ Rounds(u)'
  <1>1. /\ RunnersOwn /\ Working /\ pc = "input"
        /\ UNCHANGED texts /\ UNCHANGED <<proofFile, saved, finalInput>>
        /\ UNCHANGED <<st, node, visits, verify, previous, before>>
        /\ pc' = IF node = "critic" THEN "write" ELSE "model"
    BY DEF ReportInput, NoOtherActor, RunnersOwn, Working, StaysAt
  <1>2. PICK x : x = w[Len(pipe)]
    OBVIOUS
  <1>3. /\ x \in Views /\ ViewOk(x) /\ TextsOk /\ StepOk(w, x) /\ (node = "critic" => CriticOk(w, x))
        /\ Len(pipe) \in Nat
        /\ ~Awaits(x) => Current(Text(x)) /\ (x.handed # 0 => Current(x.handed))
        /\ ~Asked /\ x.answer = 0 => made = 1
        /\ RunnerOk(w, x)
    BY <1>1, <1>2, StepRounds
  <1>4. st \in States /\ node \in Nodes /\ visits \in Nat /\ verify \in BOOLEAN
    BY StepFacts
  <1> DEFINE s == StepVisit(st, node, visits, verify)
             r == [kind |-> "input", node |-> node, st |-> s]
  <1>5. s \in States /\ s.captured = st.captured
    BY <1>4, StepVisitIs, VisitIs
  <1>6. r \in Records /\ Emit(r) /\ r.kind = "input" /\ r.node = node /\ r.st = s
    BY <1>4, <1>5 DEF ReportInput, Records
  <1> HIDE DEF r, s
  <1>7. PICK v : v = Seen(x, r)
    OBVIOUS
  <1>8. Idle(v, x) /\ v.input = [node |-> node, st |-> s] /\ v.at = x.at /\ v.stopped = x.stopped
    BY <1>3, <1>6, <1>7, IdleSeen
  <1>9. x.node = node /\ x.at = node /\ node # "author" /\ (node \in InReview => x.handed = st.sol)
        /\ (node = "convention" => st.sol = x.answer) /\ st.captured # InFile
    BY <1>1, <1>3 DEF RunnerOk, StepOk
  <1>10. ViewOk(v)
    <2>1. v.input.st.captured # InFile /\ v.at # "author"
      BY <1>5, <1>8, <1>9
    <2> QED BY <1>3, <1>8, <2>1, IdleOk
  <1>11. /\ Awaits(v) = Awaits(x) /\ Text(v) = Text(x) /\ Approved(v) = Approved(x) /\ Fixes(v) = Fixes(x)
         /\ v.handed = x.handed /\ v.answer = x.answer /\ v.first = x.first /\ v.open = x.open
         /\ v.node = x.node
    BY <1>8, IdleSame DEF Idle
  <1>12. ASSUME NEW u, Extends(u, w, r) PROVE RunnerOk(u, v)'
    <2>1. UNCHANGED <<stages, phase, made, edits, root, newest>> /\ Asked' = Asked
      BY <1>1, OwnNow DEF texts, Asked
    <2>2. /\ Current(st.sol)' = Current(st.sol) /\ Same(Text(v), st.sol)' = Same(Text(x), st.sol)
          /\ Awaits(v)' = Awaits(x) /\ Approved(v)' = Approved(x) /\ Fixes(v)' = Fixes(x)
      <3>1. Text(v)' = Text(v)
        BY DEF Text
      <3> QED BY <1>1, <1>11, <2>1, <3>1 DEF Current, Same, Awaits, Approved, Fixes
    <2>3. StepOk(u, v)'
      BY <1>1, <1>3, <1>8, <1>9, <1>11, <2>1, <2>2 DEF StepOk
    <2>4. node = "critic" => CriticOk(u, v)'
      <3> SUFFICES ASSUME node = "critic" PROVE CriticOk(u, v)'
        OBVIOUS
      <3>1. Foremost(u)'
        BY <1>1, <1>2, <1>3, <1>7, <1>11, <1>12, <2>1, ForemostGrows DEF CriticOk
      <3>2. Round(st.sol, visits - 1, verify)' = Round(st.sol, visits - 1, verify)
        BY <1>1, <2>1 DEF Round
      <3> QED BY <1>1, <1>3, <1>11, <2>2, <3>1, <3>2 DEF CriticOk
    <2>5. (pc \in {"write", "model"} =>
             v.input = [node |-> node, st |-> StepVisit(st, node, visits, verify)])'
      BY <1>1, <1>8 DEF s, StepVisit
    <2> QED BY <1>1, <1>8, <1>9, <1>11, <2>3, <2>4, <2>5 DEF RunnerOk, Working
  <1>13. pc' \notin {"dead", "off"}
    BY <1>1
  <1> QED BY <1>1, <1>2, <1>3, <1>6, <1>7, <1>10, <1>11, <1>12, <1>13, SendPlain

LEMMA SaveCandidateRounds ==
    ASSUME Typed, NEW w, Tracks(w), Rounds(w), SaveCandidate
    PROVE  \E u : Tracks(u)' /\ Rounds(u)'
  <1>1. /\ RunnersOwn /\ Working /\ pc = "write" /\ pc' = "model" /\ saved' = st.sol
        /\ UNCHANGED texts /\ UNCHANGED <<pipe, proofFile, finalInput>>
        /\ UNCHANGED <<st, node, visits, verify, previous, before>>
    BY DEF SaveCandidate, NoOtherActor, RunnersOwn, Working, StaysAt
  <1>2. PICK x : x = w[Len(pipe)]
    OBVIOUS
  <1>3. /\ x \in Views /\ StepOk(w, x) /\ CriticOk(w, x) /\ RunnerOk(w, x) /\ node = "critic"
        /\ Len(pipe) \in Nat
    BY <1>1, <1>2, StepRounds DEF RunnerOk
  <1>4. st.sol \in Proofs /\ st.sol # InFile /\ st.sol <= made /\ Older(w, st.sol) /\ x.answer <= st.sol
    BY <1>1, <1>2, <1>3, TextFacts DEF CriticOk, Foremost, Older
  <1>5. UNCHANGED <<stages, phase, made, edits, root, newest>> /\ Asked' = Asked
    BY <1>1, OwnNow DEF texts, Asked
  <1>6. RunnerOk(w, x)'
    <2>1. StepOk(w, x)'
      BY <1>1, <1>3, <1>5 DEF StepOk, Current, Same, Awaits, Approved, Text, Behind
    <2>2. Fixes(x)'
      BY <1>1, <1>4, TextFacts, StepFacts, <1>3, TextIs DEF Fixes, Texts
    <2>3. CriticOk(w, x)'
      BY <1>1, <1>3, <1>5, <2>2 DEF CriticOk, Round, Foremost, Older
    <2>4. (pc \in {"write", "model"} =>
             x.input = [node |-> node, st |-> StepVisit(st, node, visits, verify)])'
      BY <1>1, <1>3 DEF RunnerOk, StepVisit
    <2> QED BY <1>1, <1>3, <2>1, <2>3, <2>4 DEF RunnerOk, Working
  <1> QED BY <1>1, <1>2, <1>3, <1>4, <1>6, QuietRounds

LEMMA SaveFinalInputRounds ==
    ASSUME Typed, NEW w, Tracks(w), Rounds(w), SaveFinalInput
    PROVE  \E u : Tracks(u)' /\ Rounds(u)'
  <1>1. /\ RunnersOwn /\ Working /\ pc = "final_input" /\ pc' = "input" /\ finalInput' = st.sol
        /\ UNCHANGED texts /\ UNCHANGED <<pipe, proofFile, saved>>
        /\ UNCHANGED <<st, node, visits, verify, previous, before>> /\ node = "latex"
    BY DEF SaveFinalInput, NoOtherActor, RunnersOwn, Working, StaysAt, Typed, HasText
  <1>2. PICK x : x = w[Len(pipe)]
    OBVIOUS
  <1>3. x \in Views /\ StepOk(w, x) /\ RunnerOk(w, x)
    BY <1>1, <1>2, StepRounds
  <1>4. st.sol # InFile /\ Current(st.sol)
    BY <1>1, <1>3 DEF StepOk, Late
  <1>5. UNCHANGED <<stages, phase, made, edits, root, newest>> /\ Asked' = Asked
    BY <1>1, OwnNow DEF texts, Asked
  <1>6. finalInput' # InFile /\ Current(finalInput')
    BY <1>1, <1>4
  <1>7. RunnerOk(w, x)'
    <2>1. StepOk(w, x)'
      BY <1>1, <1>3, <1>5 DEF StepOk, Current, Same, Awaits, Approved, Text, Behind
    <2> QED BY <1>1, <1>3, <2>1 DEF RunnerOk, Working, InReview
  <1>8. UNCHANGED <<proofFile, saved>> /\ pipe' = pipe /\ pc' \notin {"dead", "off", "exited"}
    BY <1>1
  <1> QED BY <1>1, <1>2, <1>6, <1>7, <1>8, QuietRounds

\* The critic's answer that the newest view shows was sent after view i, or view i shows it.
LEMMA CriticBefore ==
    ASSUME Typed, NEW w, Tracks(w), NEW i \in 0 .. Len(pipe), w[Len(pipe)].last = "critic"
    PROVE  w[i].last = "critic" \/ \E j \in DOMAIN pipe : j > i /\ pipe[j].kind = "critic"
  <1> DEFINE n == Len(pipe)
             D == {d \in i .. n : w[d].last = "critic"}
  <1>1. /\ n \in Nat /\ DOMAIN pipe = 1 .. n
        /\ \A j \in 1 .. n : pipe[j] \in Records /\ w[j] = Seen(w[j - 1], pipe[j])
    BY TrackIs
  <1> HIDE DEF n
  <1>2. i \in Nat /\ i <= n /\ w[n].last = "critic"
    BY <1>1 DEF n
  <1>3. D \subseteq Nat /\ n \in D
    BY <1>1, <1>2
  <1>4. PICK d \in D : \A e \in D : ~ (<<e, d>> \in OpToRel(<, Nat))
    <2> HIDE DEF D
    <2>1. IsWellFoundedOn(OpToRel(<, Nat), Nat)
      BY NatLessThanWellFounded
    <2> QED BY <1>3, <2>1, WFMin
  <1>5. d \in i .. n /\ w[d].last = "critic" /\ d \in Nat
    BY <1>3, <1>4
  <1>6. CASE d = i
    BY <1>5, <1>6
  <1>7. CASE d # i
    <2>1. d - 1 \in i .. n /\ d \in 1 .. n /\ d > i /\ d - 1 \in Nat /\ d - 1 < d
      BY <1>1, <1>2, <1>5, <1>7
    <2>2. w[d - 1].last # "critic"
      <3> SUFFICES ASSUME w[d - 1].last = "critic" PROVE FALSE
        OBVIOUS
      <3>1. d - 1 \in D
        BY <2>1
      <3>2. <<d - 1, d>> \in OpToRel(<, Nat)
        BY <1>5, <2>1 DEF OpToRel
      <3> QED BY <1>4, <3>1, <3>2
    <2>3. pipe[d].kind = "critic"
      <3>1. w[d] = Seen(w[d - 1], pipe[d])
        BY <1>1, <2>1
      <3>2. Seen(w[d - 1], pipe[d]).last =
              IF pipe[d].kind \in {"author", "step", "handoff", "critic", "approved", "convention"}
              THEN pipe[d].kind ELSE w[d - 1].last
        BY DEF Seen
      <3> QED BY <1>5, <2>2, <3>1, <3>2
    <2> QED BY <1>1, <2>1, <2>3
  <1> QED BY <1>6, <1>7

LEMMA AfterCriticRounds ==
    ASSUME Typed, NEW w, Tracks(w), Rounds(w), AfterCritic
    PROVE  \E u : Tracks(u)' /\ Rounds(u)'
  <1>1. /\ RunnersOwn /\ Working /\ pc = "after" /\ saved' = st.sol
        /\ UNCHANGED texts /\ UNCHANGED <<pipe, proofFile, finalInput>>
        /\ UNCHANGED <<st, before>>
    BY DEF AfterCritic, NoOtherActor, RunnersOwn, Working
  <1>2. PICK x : x = w[Len(pipe)]
    OBVIOUS
  <1>3. /\ x \in Views /\ ViewOk(x) /\ StepOk(w, x) /\ CriticOk(w, x) /\ RunnerOk(w, x) /\ node = "critic"
        /\ Len(pipe) \in Nat /\ visits \in Nat
    BY <1>1, <1>2, StepRounds, StepFacts DEF RunnerOk
  <1>4. /\ st.sol \in Proofs /\ st.sol # InFile /\ st.sol <= made /\ Older(w, st.sol)
        /\ x.last = "critic" /\ x.answer = st.sol /\ x.node = "critic" /\ x.at = "critic"
        /\ ~Approved(x)
        /\ st.report # "reject" => x.verdict = "pass"
        /\ st.report = "fixed" => visits = edits[st.sol] /\ visits <= Limit
    BY <1>1, <1>3, TextFacts DEF CriticOk, Foremost, RunnerOk, StepOk, Late
  <1>5. UNCHANGED <<stages, phase, made, edits, root, newest>> /\ Asked' = Asked
    BY <1>1, OwnNow DEF texts, Asked
  <1>6. /\ Awaits(x)' = Awaits(x) /\ Approved(x)' = Approved(x) /\ Foremost(w)' /\ Fixes(x)'
        /\ Current(st.sol)' = Current(st.sol) /\ Same(Text(x), st.sol)' = Same(Text(x), st.sol)
        /\ \A i : Behind(w, i)' = Behind(w, i)
    <2>1. Foremost(w)'
      BY <1>1, <1>4, <1>5 DEF Foremost, Older, InFile
    <2>2. Fixes(x)'
      BY <1>1, <1>4, TextFacts DEF Fixes
    <2> QED BY <1>1, <1>5, <2>1, <2>2 DEF Awaits, Approved, Current, Same, Text, Behind
  <1>7. st.report \in {"pass", "fixed", "reject"}
    BY <1>1 DEF Typed, HasText
  <1>8. CASE st.report = "pass"
    <2>1. pc' = "approve" /\ UNCHANGED <<node, visits, verify, previous>>
      BY <1>8 DEF AfterCritic, StaysAt
    <2>2. StepOk(w, x)'
      BY <1>1, <1>3, <1>5, <1>6, <2>1 DEF StepOk
    <2>3. CriticOk(w, x)'
      BY <1>1, <1>4, <1>6, <1>8, <2>1 DEF CriticOk
    <2>4. RunnerOk(w, x)'
      BY <1>1, <1>3, <1>4, <2>1, <2>2, <2>3 DEF RunnerOk, Working
    <2> QED BY <1>1, <1>2, <1>3, <1>4, <2>1, <2>4, QuietRounds
  <1>9. CASE st.report = "fixed"
    <2>1. pc' = "top" /\ previous' = "critic" /\ verify' = (visits >= Limit) /\ UNCHANGED <<node, visits>>
      BY <1>9 DEF AfterCritic, RepeatsAsCheck
    <2>2. StepOk(w, x)'
      BY <1>1, <1>3, <1>5, <1>6, <2>1 DEF StepOk
    <2>3. Round(st.sol, visits, verify)'
      <3>1. st'.sol = st.sol /\ visits' = visits /\ edits' = edits /\ (verify' <=> visits = Limit)
        <4>1. Limit \in Nat /\ visits \in Nat /\ visits <= Limit
          BY <1>3, <1>4, <1>9, TextFacts
        <4>2. verify' <=> visits >= Limit
          BY <2>1
        <4>3. UNCHANGED <<st, visits, edits>>
          BY <1>1, <1>5, <2>1
        <4> QED BY <4>1, <4>2, <4>3
      <3> QED BY <1>4, <1>9, <3>1 DEF Round, Proofs, InFile
    <2>4. CriticOk(w, x)'
      BY <1>1, <1>4, <1>6, <2>1, <2>3 DEF CriticOk, InFile
    <2>5. RunnerOk(w, x)'
      BY <1>1, <1>3, <2>1, <2>2, <2>4 DEF RunnerOk, Working
    <2> QED BY <1>1, <1>2, <1>3, <1>4, <2>1, <2>5, QuietRounds
  <1>10. CASE st.report = "reject" /\ Asked
    <2>1. pc' = "top" /\ node' = "author" /\ previous' = node /\ visits' = 0 /\ verify' = FALSE
      BY <1>10 DEF AfterCritic, Asked, GoTo
    <2>2. \A i \in 0 .. Len(pipe) : Behind(w, i)
      BY <1>2, <1>4, CriticBefore DEF Behind
    <2>3. (\A i \in 0 .. Len(pipe) : Behind(w, i))'
      BY <1>1, <1>6, <2>2
    <2>4. StepOk(w, x)'
      BY <1>1, <1>3, <1>4, <1>5, <1>6, <1>10, <2>1, <2>3 DEF StepOk, Late, InReview
    <2>5. RunnerOk(w, x)'
      BY <1>1, <2>1, <2>4 DEF RunnerOk, Working
    <2> QED BY <1>1, <1>2, <1>3, <1>4, <2>1, <2>5, QuietRounds
  <1>11. CASE st.report = "reject" /\ ~Asked
    <2>1. pc' = "revise" /\ UNCHANGED <<node, visits, verify, previous>>
      BY <1>11 DEF AfterCritic, StaysAt, Asked
    <2>2. StepOk(w, x)'
      BY <1>1, <1>3, <1>5, <1>6, <2>1 DEF StepOk
    <2>3. CriticOk(w, x)'
      BY <1>1, <1>4, <1>6, <2>1 DEF CriticOk
    <2>4. RunnerOk(w, x)'
      BY <1>1, <1>3, <1>4, <2>1, <2>2, <2>3 DEF RunnerOk, Working
    <2> QED BY <1>1, <1>2, <1>3, <1>4, <2>1, <2>4, QuietRounds
  <1> QED BY <1>7, <1>8, <1>9, <1>10, <1>11

LEMMA CriticAnswersRounds ==
    ASSUME Typed, NEW w, Tracks(w), Rounds(w), NEW outcome \in {"pass", "fixed", "reject"},
           NEW t \in {st.sol} \cup ({made + 1} \cap Proofs), CriticAnswers(outcome, t),
           outcome = "fixed" => ~verify /\ t = made + 1,
           approved' = approved \/ approved' = approved \cup {st.sol}
    PROVE  \E u : Tracks(u)' /\ Rounds(u)'
  <1>1. /\ RunnersOwn /\ Working /\ pc = "model" /\ pc' = "after" /\ node = "critic"
        /\ UNCHANGED <<newest, proofFile, saved, finalInput>>
        /\ UNCHANGED <<node, visits, verify, previous, before>>
        /\ st' = [st EXCEPT !.sol = t, !.report = outcome]
        /\ made' = (IF t # st.sol THEN t ELSE made)
        /\ edits' = (IF t # st.sol THEN [edits EXCEPT ![t] = edits[st.sol] + 1] ELSE edits)
        /\ root' = (IF t # st.sol THEN [root EXCEPT ![t] = root[st.sol]] ELSE root)
    BY DEF CriticAnswers, NoOtherActor, RunnersOwn, Working, StaysAt
  <1>2. PICK x : x = w[Len(pipe)]
    OBVIOUS
  <1>3. /\ x \in Views /\ ViewOk(x) /\ TextsOk /\ StepOk(w, x) /\ CriticOk(w, x) /\ RunnerOk(w, x)
        /\ InFile \notin approved /\ Len(pipe) \in Nat
        /\ ~Asked /\ x.answer = 0 => made = 1
    BY <1>1, <1>2, StepRounds
  <1>4. /\ st \in States /\ visits \in Nat /\ verify \in BOOLEAN
        /\ made \in Nat /\ made < InFile /\ InFile \in Nat /\ Limit \in Nat
        /\ edits \in [Texts -> Nat] /\ root \in [Texts -> Texts] /\ Texts = 0 .. InFile
        /\ Proofs = 1 .. MaxProofs /\ MaxProofs \in Nat /\ InFile = MaxProofs + 1
        /\ newest \in Texts /\ proofFile \in Texts
    <2>1. /\ made \in Nat /\ made <= MaxProofs /\ MaxProofs \in Nat /\ InFile = MaxProofs + 1
          /\ Limit \in Nat /\ Proofs = 1 .. MaxProofs /\ newest \in Texts
          /\ edits \in [Texts -> Nat] /\ root \in [Texts -> Texts]
          /\ proofFile \in 0 .. MaxProofs
      BY TextFacts
    <2>2. Texts = 0 .. InFile
      BY DEF Texts
    <2>3. proofFile \in Texts /\ made < InFile /\ InFile \in Nat
      BY <2>1, <2>2
    <2>4. st \in States /\ visits \in Nat /\ verify \in BOOLEAN
      BY StepFacts
    <2> QED BY <2>1, <2>2, <2>3, <2>4
  <1>5. /\ st.sol \in Proofs /\ st.sol # InFile /\ st.sol <= made /\ Older(w, st.sol)
        /\ x.node = "critic" /\ x.at = "critic" /\ x.handed = st.sol
        /\ visits >= 1 /\ Round(st.sol, visits - 1, verify) /\ Current(st.sol)
    BY <1>1, <1>3, <1>4, Numbers DEF CriticOk, Foremost, RunnerOk, StepOk, InReview
  <1>6. root[st.sol] = newest /\ st.sol \in 1 .. made
    BY <1>5 DEF Current
  <1>7. t # st.sol => t = made + 1 /\ t \in Proofs /\ t # InFile
    <2>1. t # st.sol => t = made + 1 /\ t \in Proofs
      OBVIOUS
    <2> QED BY <2>1, Numbers
  <1>n. /\ made \in Nat /\ MaxProofs \in Nat /\ made <= MaxProofs /\ InFile = MaxProofs + 1
        /\ st.sol \in Nat /\ 1 <= st.sol /\ st.sol <= made /\ t \in Nat
        /\ t = st.sol \/ (t # st.sol /\ t = made + 1 /\ t <= MaxProofs)
    <2>1. made \in Nat /\ MaxProofs \in Nat /\ made <= MaxProofs /\ InFile = MaxProofs + 1 /\ Proofs = 1 .. MaxProofs
      BY TextFacts
    <2>2. st.sol \in Nat /\ 1 <= st.sol /\ st.sol <= made
      BY <1>6, <2>1
    <2>3. t # st.sol => t = made + 1 /\ t <= MaxProofs
      BY <1>7, <2>1
    <2> QED BY <2>1, <2>2, <2>3
  <1>8. /\ made' \in Nat /\ made <= made' /\ made' < InFile /\ t <= made' /\ st.sol <= t /\ t \in Proofs /\ t # InFile
        /\ t \in 1 .. made' /\ t \in Nat
    <2>1. CASE t = st.sol
      <3>1. made' = made
        BY <1>1, <2>1
      <3> QED BY <1>5, <1>n, <2>1, <3>1
    <2>2. CASE t # st.sol
      <3>1. made' = made + 1 /\ t = made + 1
        BY <1>1, <1>n, <2>2
      <3> QED BY <1>7, <1>n, <2>2, <3>1
    <2> QED BY <2>1, <2>2
  <1>9. \A p \in Texts : p <= made \/ p = InFile => edits'[p] = edits[p] /\ root'[p] = root[p]
    BY <1>1, <1>4, <1>7
  <1>10. TextsGrow
    BY <1>8, <1>9 DEF TextsGrow
  <1>11. root'[t] = newest /\ (t # st.sol => edits'[t] = edits[st.sol] + 1)
    BY <1>1, <1>4, <1>6, <1>7, <1>8
  <1>12. Asked' = Asked /\ phase' = phase
    BY <1>1, OwnNow DEF Asked
  <1>13. TextsOk'
    <2>1. \A p \in Texts : p > made' \/ p = 0 => edits'[p] = 0
      BY <1>1, <1>3, <1>4, <1>7, <1>8 DEF TextsOk
    <2>2. edits'[proofFile'] = 0 /\ proofFile' <= made'
      BY <1>1, <1>3, <1>4, <1>8, <1>9 DEF TextsOk
    <2>3. \A p \in Texts : p > made' => root'[p] = p
      BY <1>1, <1>3, <1>4, <1>7, <1>8 DEF TextsOk
    <2>4. newest' <= made' /\ (newest' # 0 => root'[newest'] = newest')
      <3>1. newest <= made /\ (newest # 0 => root[newest] = newest) /\ newest' = newest
        BY <1>1, <1>3 DEF TextsOk
      <3>2. root'[newest] = root[newest]
        BY <1>4, <1>9, <3>1
      <3> QED BY <1>4, <1>8, <3>1, <3>2
    <2>5. saved' <= made'
      BY <1>1, <1>3, <1>4, <1>8, TextFacts DEF TextsOk, Texts
    <2>6. ~Asked => /\ made' >= 1 /\ newest' = 1 /\ saved' >= 1
                    /\ \A p \in 1 .. made' : root'[p] = 1
      <3> SUFFICES ASSUME ~Asked PROVE /\ made' >= 1 /\ newest' = 1 /\ saved' >= 1
                                       /\ \A p \in 1 .. made' : root'[p] = 1
        OBVIOUS
      <3>1. made >= 1 /\ newest = 1 /\ saved >= 1 /\ \A p \in 1 .. made : root[p] = 1
        BY <1>3 DEF TextsOk
      <3>2. \A p \in 1 .. made' : p \in 1 .. made \/ p = t
        BY <1>1, <1>4, <1>7
      <3>3. \A p \in 1 .. made : p \in Texts /\ p <= made
        BY <1>4
      <3> QED BY <1>1, <1>4, <1>8, <1>9, <1>11, <3>1, <3>2, <3>3
    <2> QED BY <1>12, <2>1, <2>2, <2>3, <2>4, <2>5, <2>6 DEF TextsOk
  <1>14. ASSUME NEW p \in Texts, Current(p) PROVE Current(p)'
    <2>1. CASE p = InFile
      BY <1>1, <1>14, <2>1 DEF Current, InFile
    <2>2. CASE p # InFile
      <3>1. p \in 1 .. made /\ root[p] = newest
        BY <1>14, <2>2 DEF Current
      <3> QED BY <1>1, <1>4, <1>8, <1>9, <2>2, <3>1 DEF Current, InFile
    <2> QED BY <2>1, <2>2
  <1>15. Current(t)'
    BY <1>1, <1>8, <1>11 DEF Current, InFile
  <1>16. PICK vd \in {"pass", "reject"} : vd = IF outcome = "reject" THEN "reject" ELSE "pass"
    OBVIOUS
  <1> DEFINE r == [kind |-> "critic", verdict |-> vd, edited |-> t # st.sol, text |-> t]
  <1>17. /\ r \in Records /\ Emit(r) /\ r.kind = "critic" /\ r.verdict = vd /\ (r.edited <=> t # st.sol) /\ r.text = t
    BY <1>4, <1>8, <1>16, Numbers DEF CriticAnswers, Records
  <1> HIDE DEF r
  <1>18. PICK v : v = Seen(x, r)
    OBVIOUS
  <1>19. /\ v.node = "critic" /\ v.at = "critic" /\ v.last = "critic" /\ v.input = x.input
         /\ v.gave = x.gave /\ v.first = x.first /\ v.answer = t /\ v.handed = st.sol
         /\ v.open = "none" /\ v.decisive = "critic" /\ v.verdict = vd /\ v.text = t
         /\ v.passed = (IF vd = "pass" THEN t ELSE 0) /\ v.stopped = x.stopped
    BY <1>3, <1>5, <1>17, <1>18 DEF Seen, Decisive, Views
  <1>20. Text(v) = t /\ ~Approved(v) /\ ~Awaits(v) /\ t # 0
    BY <1>4, <1>8, <1>19 DEF Text, Approved, Awaits
  <1>21. ViewOk(v)'
    <2>1. VisitOk(v)' /\ (v.answer \in 0 .. made)'
      BY <1>8, <1>19 DEF VisitOk
    <2>2. HandedOk(v)'
      <3>1. st.sol \in Proofs /\ st.sol <= made' /\ (t = st.sol \/ st.sol < t)
        <4>1. t # st.sol => st.sol < t
          BY <1>n
        <4> QED BY <1>5, <1>8, <1>n, <4>1
      <3>2. Text(v)' = t
        BY <1>20 DEF Text
      <3> QED BY <1>19, <1>20, <3>1, <3>2 DEF HandedOk, Same
    <2>3. (v.first \in (0 .. made) \cup {InFile})' /\ (v.gave => v.first # 0)
      <3>1. x.first \in (0 .. made) \cup {InFile} /\ (x.gave => x.first # 0)
        BY <1>3 DEF ViewOk
      <3>2. x.first \in (0 .. made') \cup {InFile}
        BY <1>8, <1>n, <3>1
      <3> QED BY <1>19, <3>1, <3>2 DEF InFile
    <2>4. Asked => x.first # 0
      BY <1>1, <1>3 DEF StepOk, InReview
    <2>5. (~Asked => x.first = 0) /\ x.input.st.captured # InFile
      BY <1>3 DEF ViewOk
    <2> QED BY <1>12, <1>19, <1>20, <2>1, <2>2, <2>3, <2>4, <2>5 DEF ViewOk, Approved, Late, InReview
  <1>22. ASSUME NEW u, Extends(u, w, r) PROVE RunnerOk(u, v)'
    <2>1. st'.sol = t /\ st'.report = outcome /\ st'.captured = st.captured /\ st'.visit = st.visit /\ st'.verify = st.verify
      BY <1>1, <1>4 DEF States
    <2>2. StepOk(u, v)'
      <3>1. Current(st.sol)'
        BY <1>15, <2>1 DEF Current
      <3>2. Same(Text(v), st.sol)' /\ ~Awaits(v)' /\ ~Approved(v)'
        <4>1. Text(v)' = t
          BY <1>20 DEF Text
        <4> QED BY <1>12, <1>20, <2>1, <4>1 DEF Same, Awaits, Approved
      <3> QED BY <1>1, <1>3, <1>12, <1>19, <2>1, <3>1, <3>2 DEF StepOk, Late, InReview
    <2>3. CriticOk(u, v)'
      <3>1. Older(w, t)
        <4>1. ASSUME NEW i \in 0 .. Len(pipe) PROVE w[i].answer <= t
          <5>1. w[i].answer \in Texts
            BY TrackIs, TextIs
          <5>2. w[i].answer <= st.sol
            BY <1>5 DEF Older
          <5>3. w[i].answer \in Nat
            BY <5>1, TextFacts DEF Texts
          <5> QED BY <1>8, <1>n, <5>2, <5>3
        <4> QED BY <4>1 DEF Older
      <3>2. Older(u, t)'
        BY <1>2, <1>8, <1>18, <1>19, <1>22, <3>1, OlderGrows
      <3>3. Foremost(u)'
        <4>1. Older(u, st.sol)'
          BY <2>1, <3>2 DEF Older
        <4> QED BY <1>8, <2>1, <4>1 DEF Foremost, InFile
      <3>4. outcome = "fixed" => visits = edits'[t] /\ visits <= Limit
        <4> SUFFICES ASSUME outcome = "fixed" PROVE visits = edits'[t] /\ visits <= Limit
          OBVIOUS
        <4>1. ~verify /\ t # st.sol
          BY <1>n
        <4>2. visits - 1 = edits[st.sol] /\ visits - 1 <= Limit /\ visits - 1 # Limit
          BY <1>5, <4>1 DEF Round
        <4>3. edits[st.sol] \in Nat
          BY TextFacts, StepFacts
        <4>4. visits \in Nat /\ Limit \in Nat
          BY <1>4
        <4>5. edits'[t] = edits[st.sol] + 1
          BY <1>11, <4>1
        <4> QED BY <4>2, <4>3, <4>4, <4>5
      <3> QED BY <1>1, <1>8, <1>16, <1>19, <2>1, <3>3, <3>4 DEF CriticOk, InFile, Proofs
    <2> QED BY <1>1, <1>19, <2>2, <2>3 DEF RunnerOk, Working
  <1>23. Current(Text(v))' /\ Current(v.handed)'
    <2>1. Current(st.sol)
      BY <1>5
    <2>2. (\A p \in Texts : Current(p) => Current(p)') /\ st.sol \in Texts
      BY <1>14, StepFacts
    <2>3. PICK q : q = st.sol
      OBVIOUS
    <2>4. Current(q)'
      BY <2>1, <2>2, <2>3
    <2>5. Text(v)' = t /\ v.handed = q
      BY <1>19, <1>20, <2>3 DEF Text
    <2> QED BY <1>15, <2>4, <2>5 DEF Current
  <1>24. InFile \notin approved'
    BY <1>3, <1>5
  <1>25. made' = made \/ Asked \/ (r.kind = "critic" /\ r.edited)
    BY <1>1, <1>17
  <1>26. r.kind # "author" /\ r.kind # "approved" /\ r.kind # "convention" /\ r.kind # "paused" /\ v.answer # 0
    BY <1>17, <1>19, <1>20
  <1>27. pc' \notin {"dead", "off"}
    BY <1>1
  <1> QED BY <1>1, <1>2, <1>10, <1>13, <1>14, <1>17, <1>18, <1>21, <1>22, <1>23, <1>24, <1>25, <1>26, <1>27, SendRounds

LEMMA ApproveRounds ==
    ASSUME Typed, NEW w, Tracks(w), Rounds(w), Approve
    PROVE  \E u : Tracks(u)' /\ Rounds(u)'
  <1>1. /\ RunnersOwn /\ Working /\ pc = "approve" /\ pc' = "top" /\ node' = "convention"
        /\ UNCHANGED texts /\ UNCHANGED <<proofFile, saved, finalInput>> /\ UNCHANGED <<st, before>>
        /\ Emit([kind |-> "approved"])
    BY DEF Approve, NoOtherActor, RunnersOwn, Working, GoTo
  <1>2. PICK x : x = w[Len(pipe)]
    OBVIOUS
  <1>3. /\ x \in Views /\ ViewOk(x) /\ StepOk(w, x) /\ CriticOk(w, x) /\ RunnerOk(w, x) /\ node = "critic"
        /\ ~Awaits(x) => Current(Text(x)) /\ (x.handed # 0 => Current(x.handed))
        /\ ~Asked /\ x.answer = 0 => made = 1
    BY <1>1, <1>2, StepRounds DEF RunnerOk
  <1>4. /\ x.last = "critic" /\ x.answer = st.sol /\ x.answer # 0 /\ x.verdict = "pass" /\ x.node = "critic"
        /\ x.open = "none" /\ x.at = "critic"
    BY <1>1, <1>3 DEF CriticOk, RunnerOk, ViewOk, VisitOk
  <1>5. st.sol # InFile
    BY <1>3, <1>4, TextFacts DEF ViewOk
  <1> DEFINE r == [kind |-> "approved"]
  <1>6. r \in Records /\ Emit(r) /\ r.kind = "approved"
    BY <1>1 DEF Records
  <1> HIDE DEF r
  <1>7. PICK v : v = Seen(x, r)
    OBVIOUS
  <1>8. /\ v.node = "critic" /\ v.at = "critic" /\ v.last = "approved" /\ v.input = x.input
        /\ v.gave = x.gave /\ v.first = x.first /\ v.answer = x.answer /\ v.handed = x.handed
        /\ v.open = "none" /\ v.decisive = "approved" /\ v.verdict = x.verdict /\ v.text = x.text
        /\ v.passed = x.passed /\ v.stopped = x.stopped
    BY <1>3, <1>4, <1>6, <1>7 DEF Seen, Decisive, Views
  <1>9. Text(v) = Text(x) /\ Text(v) = st.sol /\ Approved(v) /\ ~Awaits(v) /\ ~Awaits(x)
    BY <1>4, <1>8 DEF Text, Approved, Awaits
  <1>10. ViewOk(v)
    <2>1. VisitOk(v)
      BY <1>8 DEF VisitOk
    <2>2. HandedOk(v)
      BY <1>3, <1>8, <1>9 DEF ViewOk, HandedOk
    <2> QED BY <1>3, <1>4, <1>8, <1>9, <2>1, <2>2 DEF ViewOk, InReview, Late
  <1>11. ASSUME NEW u PROVE RunnerOk(u, v)'
    <2>1. UNCHANGED <<stages, phase, made, edits, root, newest>> /\ Asked' = Asked
      BY <1>1, OwnNow DEF texts, Asked
    <2>2. StepOk(u, v)'
      <3>1. Current(st.sol)'
        BY <1>1, <1>3, <2>1 DEF Current, StepOk
      <3>2. Same(Text(v), st.sol)' /\ ~Awaits(v)' /\ Approved(v)'
        BY <1>1, <1>9, <2>1 DEF Same, Text, Awaits, Approved
      <3>3. Asked => x.first # 0
        BY <1>3 DEF StepOk, InReview
      <3> QED BY <1>1, <1>3, <1>5, <1>8, <2>1, <3>1, <3>2, <3>3 DEF StepOk, Late, InReview, InFile
    <2> QED BY <1>1, <1>4, <1>8, <2>2 DEF RunnerOk, Working
  <1>12. pc' \notin {"dead", "off"}
    BY <1>1
  <1> QED BY <1>1, <1>2, <1>3, <1>4, <1>6, <1>7, <1>8, <1>9, <1>10, <1>11, <1>12, SendPlain

LEMMA ConventionAnswersRounds ==
    ASSUME Typed, NEW w, Tracks(w), Rounds(w), ConventionAnswers
    PROVE  \E u : Tracks(u)' /\ Rounds(u)'
  <1>1. /\ RunnersOwn /\ Working /\ pc = "model" /\ node = "convention"
        /\ \/ pc' = "top" /\ node' = "latex"
           \/ pc' = "publish" /\ node' = node
        /\ UNCHANGED texts /\ UNCHANGED <<proofFile, saved, finalInput>> /\ UNCHANGED <<st, before>>
        /\ Emit([kind |-> "convention"])
    BY DEF ConventionAnswers, NoOtherActor, RunnersOwn, Working, Finish, StaysAt
  <1>2. PICK x : x = w[Len(pipe)]
    OBVIOUS
  <1>3. /\ x \in Views /\ ViewOk(x) /\ StepOk(w, x) /\ RunnerOk(w, x)
        /\ ~Awaits(x) => Current(Text(x)) /\ (x.handed # 0 => Current(x.handed))
        /\ ~Asked /\ x.answer = 0 => made = 1
    BY <1>1, <1>2, StepRounds
  <1>4. /\ x.answer = st.sol /\ x.node = "convention" /\ x.at = "convention" /\ Approved(x) /\ x.answer # 0
        /\ x.open = "none" /\ st.sol # InFile /\ ~Awaits(x) /\ (Asked => x.first # 0)
    BY <1>1, <1>3 DEF RunnerOk, StepOk, ViewOk, VisitOk, Late, InReview
  <1> DEFINE r == [kind |-> "convention"]
  <1>6. r \in Records /\ Emit(r) /\ r.kind = "convention"
    BY <1>1 DEF Records
  <1> HIDE DEF r
  <1>7. PICK v : v = Seen(x, r)
    OBVIOUS
  <1>8. /\ v.node = "convention" /\ v.at = "convention" /\ v.last = "convention" /\ v.input = x.input
        /\ v.gave = x.gave /\ v.first = x.first /\ v.answer = x.answer /\ v.handed = x.handed
        /\ v.open = "none" /\ v.decisive = "convention" /\ v.verdict = x.verdict /\ v.text = x.text
        /\ v.passed = x.passed /\ v.stopped = x.stopped
    BY <1>3, <1>4, <1>6, <1>7 DEF Seen, Decisive, Views
  <1>9. Text(v) = Text(x) /\ Text(v) = st.sol /\ Approved(v) /\ ~Awaits(v)
    BY <1>4, <1>8 DEF Text, Approved, Awaits
  <1>10. ViewOk(v)
    <2>1. VisitOk(v)
      BY <1>8 DEF VisitOk
    <2>2. HandedOk(v)
      BY <1>3, <1>8, <1>9 DEF ViewOk, HandedOk
    <2> QED BY <1>3, <1>4, <1>8, <1>9, <2>1, <2>2 DEF ViewOk, InReview, Late
  <1>11. ASSUME NEW u PROVE RunnerOk(u, v)'
    <2>1. UNCHANGED <<stages, phase, made, edits, root, newest>> /\ Asked' = Asked
      BY <1>1, OwnNow DEF texts, Asked
    <2>2. StepOk(u, v)'
      <3>1. Current(st.sol)'
        BY <1>1, <1>3, <2>1 DEF Current, StepOk
      <3>2. Same(Text(v), st.sol)' /\ ~Awaits(v)' /\ Approved(v)'
        BY <1>1, <1>9, <2>1 DEF Same, Text, Awaits, Approved
      <3> QED BY <1>1, <1>3, <1>4, <1>8, <2>1, <3>1, <3>2 DEF StepOk, Late, InReview, InFile
    <2> QED BY <1>1, <1>4, <1>8, <2>2 DEF RunnerOk, Working
  <1>12. pc' \notin {"dead", "off"}
    BY <1>1
  <1> QED BY <1>1, <1>2, <1>3, <1>4, <1>6, <1>7, <1>8, <1>9, <1>10, <1>11, <1>12, SendPlain

\* A runner that ends with its result or its failure.
LEMMA EndsRounds ==
    ASSUME Typed, NEW w, Tracks(w), Rounds(w), RunnersOwn, Working,
           UNCHANGED texts, UNCHANGED <<proofFile, saved, finalInput>>,
           NEW r \in Records, Emit(r), pc' = "exited", r.kind \in {"failure", "final"},
           r.kind = "final" => r.text # 0
    PROVE  \E u : Tracks(u)' /\ Rounds(u)'
  <1>1. PICK x : x = w[Len(pipe)]
    OBVIOUS
  <1>2. PICK v : v = Seen(x, r)
    OBVIOUS
  <1>4. /\ x \in Views /\ ViewOk(x) /\ Len(pipe) \in Nat
        /\ ~Awaits(x) => Current(Text(x)) /\ (x.handed # 0 => Current(x.handed))
        /\ ~Asked /\ x.answer = 0 => made = 1
    BY <1>1, StepRounds
  <1>5. Idle(v, x) /\ v.input = x.input /\ v.at = x.at
    BY <1>2, <1>4, IdleSeen
  <1>7. ViewOk(v)
    BY <1>4, <1>5, IdleOk DEF ViewOk
  <1>8. Awaits(v) = Awaits(x) /\ Text(v) = Text(x)
    BY <1>5, IdleSame
  <1>9. v.handed = x.handed /\ v.answer = x.answer
    BY <1>5 DEF Idle
  <1>10. ASSUME NEW u PROVE RunnerOk(u, v)'
    <2>1. Len(pipe') = Len(pipe) + 1 /\ pipe'[Len(pipe) + 1] = r /\ Len(pipe) \in Nat
      BY AppendedIs, PipeIs DEF Typed
    <2>2. pipe' # <<>> /\ pipe'[Len(pipe')] = r
      BY <2>1, EmptySeq
    <2> QED BY <2>2 DEF RunnerOk, Working, RoundEnded
  <1> QED BY <1>1, <1>2, <1>4, <1>7, <1>8, <1>9, <1>10, SendPlain

LEMMA ReviseRounds ==
    ASSUME Typed, NEW w, Tracks(w), Rounds(w), Revise
    PROVE  \E u : Tracks(u)' /\ Rounds(u)'
  <1>1. /\ RunnersOwn /\ Working /\ pc' = "exited"
        /\ UNCHANGED texts /\ UNCHANGED <<proofFile, saved, finalInput>>
        /\ Emit([kind |-> "failure"])
    BY DEF Revise, NoOtherActor, RunnersOwn, Working
  <1>2. [kind |-> "failure"] \in Records
    BY DEF Records
  <1> QED BY <1>1, <1>2, EndsRounds

LEMMA PublishRounds ==
    ASSUME Typed, NEW w, Tracks(w), Rounds(w), Publish
    PROVE  \E u : Tracks(u)' /\ Rounds(u)'
  <1>1. /\ RunnersOwn /\ Working /\ pc' = "exited" /\ (pc = "publish" \/ node = "latex")
        /\ UNCHANGED texts /\ UNCHANGED <<proofFile, saved, finalInput>>
        /\ Emit([kind |-> "final", text |-> st.sol])
    BY DEF Publish, NoOtherActor, RunnersOwn, Working
  <1>2. [kind |-> "final", text |-> st.sol] \in Records
    BY StepFacts DEF Records
  <1>3. st.sol # 0
    <2>1. StepOk(w, w[Len(pipe)]) /\ (pc = "publish" => node = "convention")
      BY <1>1, StepRounds DEF RunnerOk
    <2>2. Current(st.sol) /\ st.sol # InFile
      BY <1>1, <2>1 DEF StepOk, Late
    <2> QED BY <2>2 DEF Current
  <1> QED BY <1>1, <1>2, <1>3, EndsRounds

LEMMA StepFailsRounds ==
    ASSUME Typed, NEW w, Tracks(w), Rounds(w), StepFails
    PROVE  \E u : Tracks(u)' /\ Rounds(u)'
  <1>1. /\ RunnersOwn /\ Working /\ pc = "model"
        /\ PausesAt(node, StepVisit(st, node, visits, verify))
        /\ UNCHANGED texts /\ UNCHANGED <<proofFile, saved, finalInput>>
    BY DEF StepFails, NoOtherActor, RunnersOwn, Working
  <1>2. PICK x : x = w[Len(pipe)]
    OBVIOUS
  <1>3. /\ StepOk(w, x) /\ (node = "critic" => CriticOk(w, x)) /\ node # "author"
    BY <1>1, <1>2, StepRounds DEF RunnerOk
  <1>4. st \in States /\ node \in Nodes /\ visits \in Nat /\ verify \in BOOLEAN
    BY StepFacts
  <1> DEFINE s == StepVisit(st, node, visits, verify)
             c == [kind |-> "paused", node |-> node, st |-> s]
  <1>5. s \in States /\ s.sol = st.sol /\ s.captured = st.captured
    BY <1>4, StepVisitIs, VisitIs
  <1>6. c.node = node /\ c.st = s
    OBVIOUS
  <1>7. Continues(c, x)
    <2> HIDE DEF c
    <2>1. CASE node = "critic"
      <3>1. visits >= 1 /\ Round(st.sol, visits - 1, verify) /\ Fixes(x)
        BY <1>1, <1>3, <2>1 DEF CriticOk
      <3>2. PICK k \in Nat : k = visits - 1 /\ visits = k + 1
        BY <1>4, <3>1
      <3>3. Round(st.sol, k, verify) /\ c.st = StepVisit(st, node, k + 1, verify)
        BY <1>6, <3>1, <3>2
      <3> QED BY <1>3, <1>6, <3>1, <3>3, VisitContinues
    <2>2. CASE node # "critic"
      BY <1>3, <1>5, <1>6, <2>2 DEF Continues, StepOk
    <2> QED BY <2>1, <2>2
  <1> HIDE DEF s
  <1> QED BY <1>1, <1>2, <1>4, <1>5, <1>7, PausesRounds DEF s

LEMMA RunnerStepRounds ==
    ASSUME Typed, Reviewed, NEW w, Tracks(w), Rounds(w), Runner
    PROVE  \E u : Tracks(u)' /\ Rounds(u)'
  <1>1. CASE CriticPasses
    BY <1>1, CriticAnswersRounds DEF CriticPasses
  <1>2. CASE CriticFixes
    <2>1. made + 1 \in Proofs
      BY <1>2, TextFacts DEF CriticFixes
    <2> QED BY <1>2, <2>1, CriticAnswersRounds DEF CriticFixes
  <1>3. CASE CriticRejects
    BY <1>3, CriticAnswersRounds DEF CriticRejects
  <1>4. CASE Capture
    <2>1. Working /\ pc = "capture"
      BY <1>4 DEF Capture, Working
    <2> QED BY <2>1, StepRounds DEF StepOk
  <1> QED BY <1>1, <1>2, <1>3, <1>4, BeginStepRounds, AuthorSubmitsRounds, AuthorPausesRounds, PrepareRounds,
             ReportInputRounds, SaveCandidateRounds, AfterCriticRounds, ApproveRounds, ReviseRounds,
             ConventionAnswersRounds, SaveFinalInputRounds, PublishRounds, StepFailsRounds DEF Runner

-----------------------------------------------------------------------------
(* The rounds: the server's steps *)

\* What the server's steps leave as it is.
TextsStay == UNCHANGED <<stages, proofFile, saved>> /\ UNCHANGED texts

LEMMA StaysIs ==
    ASSUME TextsStay
    PROVE  /\ UNCHANGED <<stages, proofFile, saved, made, edits, root, newest, approved>> /\ Asked' = Asked
           /\ (TextsOk => TextsOk')
  <1>1. UNCHANGED <<stages, proofFile, saved, made, edits, root, newest, approved>> /\ Asked' = Asked
    BY DEF TextsStay, texts, Asked
  <1> QED BY <1>1 DEF TextsOk

LEMMA ViewPartsStay ==
    ASSUME TextsStay, NEW v
    PROVE  /\ Awaits(v)' = Awaits(v) /\ Text(v)' = Text(v) /\ Approved(v)' = Approved(v) /\ Fixes(v)' = Fixes(v)
           /\ HandedOk(v)' = HandedOk(v)
           /\ \A p : Current(p)' = Current(p)
           /\ \A p, q : Same(p, q)' = Same(p, q)
           /\ \A p, k, check : Round(p, k, check)' = Round(p, k, check)
                               /\ SavedRound(p, k, check)' = SavedRound(p, k, check)
           /\ \A c : Continues(c, v)' = Continues(c, v)
  <1>1. UNCHANGED <<stages, proofFile, saved, made, edits, root, newest, approved>> /\ Asked' = Asked
    BY StaysIs
  <1> QED BY <1>1 DEF Awaits, Text, Approved, Fixes, HandedOk, Current, Same, Round, SavedRound, Continues

\* The visit that a resumed critic is at.
AtVisit(v) ==
    v.open = "resume" /\ phase \in {"running", "down"} /\ ckpt.status \in {"none", "running"} =>
      /\ ckpt.status = "running" /\ ckpt.node = "critic"
      /\ SavedRound(Text(v), ckpt.st.visit, ckpt.st.verify)

LEMMA ViewStays ==
    ASSUME TextsStay, NEW v, ViewOk(v), AtVisit(v)'
    PROVE  ViewOk(v)'
  <1>1. UNCHANGED <<stages, proofFile, saved, made, edits, root, newest, approved>> /\ Asked' = Asked
    BY StaysIs
  <1>2. /\ Awaits(v)' = Awaits(v) /\ Text(v)' = Text(v) /\ Approved(v)' = Approved(v) /\ Fixes(v)' = Fixes(v)
        /\ HandedOk(v)' = HandedOk(v)
        /\ \A p, k, check : SavedRound(p, k, check)' = SavedRound(p, k, check)
    BY ViewPartsStay
  <1>3. VisitOk(v)'
    <2>1. v.open = "step" => SavedRound(Text(v), v.visit, v.check)'
      BY <1>2 DEF ViewOk, VisitOk
    <2> QED BY <1>2, <2>1 DEF ViewOk, VisitOk, AtVisit
  <1> QED BY <1>1, <1>2, <1>3 DEF ViewOk

LEMMA ViewAsBefore ==
    ASSUME TextsStay, NEW v, ViewOk(v), \/ phase' \notin {"running", "down"}
                                        \/ ckpt'.status \in {"pausing", "paused"}
                                        \/ ckpt' = ckpt /\ phase \in {"running", "down"}
    PROVE  ViewOk(v)'
  <1>1. AtVisit(v)'
    <2>1. \A p, k, check : SavedRound(p, k, check)' = SavedRound(p, k, check)
      BY ViewPartsStay
    <2>2. Text(v)' = Text(v)
      BY DEF Text
    <2> QED BY <2>1, <2>2 DEF AtVisit, ViewOk, VisitOk
  <1> QED BY <1>1, ViewStays

\* The server reads a record: its view is the next one.
LEMMA PlaceDrops ==
    ASSUME Typed, NEW w, Tracks(w), NEW u, Drops(u, w), Tracks(u)', Typed', TextsStay,
           NEW i \in 0 .. Len(pipe) - 1
    PROVE  /\ PlaceOk(w, i + 1) => PlaceOk(u, i)'
           /\ Behind(w, i + 1) => Behind(u, i)'
           /\ Final(i)' => Final(i + 1)
  <1> DEFINE n == Len(pipe)
             v == w[i + 1]
  <1>1. /\ n \in Nat \ {0} /\ Len(pipe') = n - 1 /\ DOMAIN pipe = 1 .. n
        /\ \A j \in 1 .. n - 1 : pipe'[j] = pipe[j + 1]
        /\ u[i] = v /\ i \in Nat
    BY TrackIs DEF Drops
  <1>2. DOMAIN pipe' = 1 .. n - 1
    <2>1. pipe' \in Seq(Records)
      BY DEF Typed, PipeTyped
    <2> QED BY <1>1, <2>1, LenProperties
  <1>3. /\ Awaits(v)' = Awaits(v) /\ Text(v)' = Text(v) /\ \A p : Current(p)' = Current(p)
        /\ made' = made /\ Asked' = Asked
    BY StaysIs, ViewPartsStay
  <1> HIDE DEF n
  <1>4. \A j \in DOMAIN pipe : j > i + 1 => j - 1 \in DOMAIN pipe' /\ j - 1 > i /\ pipe'[j - 1] = pipe[j]
    BY <1>1, <1>2
  <1>5. \A j \in DOMAIN pipe' : j > i => j + 1 \in DOMAIN pipe /\ j + 1 > i + 1 /\ pipe'[j] = pipe[j + 1]
    BY <1>1, <1>2
  <1>6. Final(i)' => Final(i + 1)
    BY <1>4 DEF Final
  <1>7. Final(i + 1) => Final(i)'
    BY <1>5 DEF Final
  <1>8. w[i + 1] = v
    OBVIOUS
  <1> HIDE DEF v
  <1>9. Behind(w, i + 1) => Behind(u, i)'
    <2>1. (\E j \in DOMAIN pipe : j > i + 1 /\ pipe[j].kind = "critic")
            => \E j \in DOMAIN pipe' : j > i /\ pipe'[j].kind = "critic"
      BY <1>4
    <2> QED BY <1>1, <1>3, <1>8, <2>1 DEF Behind, Awaits
  <1>10. ASSUME PlaceOk(w, i + 1) PROVE PlaceOk(u, i)'
    <2>1. (\E j \in DOMAIN pipe : j > i + 1 /\ pipe[j].kind = "critic" /\ pipe[j].edited)
            => \E j \in DOMAIN pipe' : j > i /\ pipe'[j].kind = "critic" /\ pipe'[j].edited
      BY <1>4
    <2>2. Final(i)' /\ ~Awaits(v)' => Current(Text(v))' /\ (v.handed # 0 => Current(v.handed)')
      BY <1>3, <1>6, <1>8, <1>10 DEF PlaceOk
    <2> QED BY <1>1, <1>3, <1>7, <1>8, <1>9, <1>10, <2>1, <2>2 DEF PlaceOk, Awaits, Text
  <1> QED BY <1>6, <1>9, <1>10

LEMMA ReadServer ==
    ASSUME Typed, Typed', NEW w, Tracks(w), Rounds(w), Read, NEW u, Tracks(u)', Drops(u, w), TextsStay,
           NEW r, r = pipe[1]
    PROVE  /\ r.kind = "paused" => Len(pipe) = 1 /\ pc = "exited" /\ Continues(r, w[1])
           /\ ServerOk(u[0])'
  <1> DEFINE n == Len(pipe)
             a == w[0]
             v == w[1]
  <1>1. /\ n \in Nat \ {0} /\ Len(pipe)' = n - 1 /\ u[0] = v /\ a = Now /\ a \in Views /\ v \in Views
        /\ v = Seen(a, r) /\ r \in Records /\ DOMAIN pipe = 1 .. n
    BY TrackIs DEF Drops
  <1>2. /\ ViewOk(a) /\ PlaceOk(w, 0) /\ SentOk(w, 1) /\ ServerOk(a)
    BY <1>1 DEF Rounds
  <1>3. /\ phase \in {"running", "pausing"} /\ pipe # <<>> /\ pc' = pc
        /\ phase' = (IF r.kind = "paused" THEN "pausing" ELSE phase)
        /\ ckpt' = IF r.kind = "paused" THEN [status |-> "pausing", node |-> r.node, st |-> r.st]
                   ELSE ckpt
        /\ finalInput' = IF r.kind = "approved" /\ passed # 0 THEN passed ELSE finalInput
    <2>1. Head(pipe) = r
      BY HeadIs DEF Read, Typed
    <2>2. Read => RunnerRests
      BY Zenon DEF Read
    <2> QED BY <2>1, <2>2, Zenon DEF Read, RunnerRests, runner
  <1>4. pipe' = <<>> <=> n = 1
    <2>1. pipe' \in Seq(Records)
      BY HeadIs DEF Read, Typed
    <2> QED BY <1>1, <2>1, EmptySeq
  <1>5. r.kind = "paused" => n = 1 /\ pc = "exited" /\ Continues(r, v)
    <2>1. w[1] = v
      OBVIOUS
    <2> HIDE DEF v
    <2> QED BY <1>2, <2>1 DEF SentOk
  <1>6. /\ v.decisive = (IF r.kind \in Decisive THEN r.kind ELSE a.decisive)
    BY <1>1 DEF Seen
  <1>7. /\ \A p : Current(p)' = Current(p)
        /\ Approved(v)' = Approved(v) /\ \A c : Continues(c, v)' = Continues(c, v)
    BY ViewPartsStay
  <1>8. /\ r.kind = "approved" => a.last = "critic" /\ a.verdict = "pass"
        /\ r.kind = "convention" => Approved(a)
    <2>1. a = w[1 - 1]
      OBVIOUS
    <2> HIDE DEF a
    <2> QED BY <1>2, <2>1 DEF SentOk
  <1>9. Final(0)' => Final(1)
    <2>1. 0 \in 0 .. Len(pipe) - 1
      BY <1>1
    <2> QED BY <2>1, PlaceDrops
  <1>10. Final(0)' /\ r.kind # "author" => Final(0)
    <2> SUFFICES ASSUME Final(1), r.kind # "author" PROVE Final(0)
      BY <1>9
    <2> QED BY <1>1 DEF Final
  <1>11. a.passed = passed
    BY <1>1 DEF Now
  <1> HIDE DEF n, a, v
  <1>12. Final(0)' /\ Approved(v) => finalInput' = 0 \/ (finalInput' # InFile /\ Current(finalInput'))
    <2> SUFFICES ASSUME Final(0)', Approved(v)
                 PROVE  finalInput' = 0 \/ (finalInput' # InFile /\ Current(finalInput'))
      OBVIOUS
    <2>1. r.kind # "author" /\ Final(0)
      BY <1>6, <1>10 DEF Approved, Decisive
    <2>2. Approved(a) => finalInput = 0 \/ (finalInput # InFile /\ Current(finalInput))
      BY <1>2, <2>1 DEF ServerOk
    <2>3. CASE r.kind = "approved"
      <3>1. a.node = "critic" /\ a.answer # 0 /\ passed = a.answer /\ a.answer \in 0 .. made
        BY <1>2, <1>8, <1>11, <2>3 DEF ViewOk
      <3>2. ~Awaits(a) /\ Text(a) = a.answer
        BY <3>1 DEF Awaits, Text
      <3>3. Current(a.answer)
        BY <1>2, <2>1, <3>2 DEF PlaceOk, a
      <3>4. passed # InFile
        BY <3>1, TextFacts
      <3> QED BY <1>3, <2>3, <3>1, <3>3, <3>4
    <2>4. CASE r.kind = "convention"
      BY <1>3, <1>8, <2>2, <2>4
    <2>5. CASE r.kind \notin {"approved", "convention"}
      <3>1. r.kind # "critic"
        BY <1>6 DEF Approved, Decisive
      <3>2. Approved(a)
        BY <1>6, <2>1, <2>5, <3>1 DEF Approved, Decisive
      <3> QED BY <1>3, <2>2, <2>5, <3>2
    <2> QED BY <2>3, <2>4, <2>5
  <1>13. ServerOk(v)'
    <2>0. Final(0)' /\ Approved(v)' => (finalInput = 0 \/ (finalInput # InFile /\ Current(finalInput)))'
      <3>1. PICK f : f = finalInput'
        OBVIOUS
      <3>2. Current(f)' = Current(f)
        BY <1>7
      <3>3. Final(0)' /\ Approved(v)' => f = 0 \/ (f # InFile /\ Current(f)')
        BY <1>7, <1>12, <3>1, <3>2
      <3> QED BY <3>1, <3>3 DEF Current, InFile
    <2>1. CASE r.kind = "paused"
      <3>1. /\ phase' = "pausing" /\ ckpt'.status = "pausing" /\ ckpt'.node = r.node /\ ckpt'.st = r.st
            /\ pipe' = <<>> /\ pc' = "exited" /\ Continues(r, v)'
        BY <1>3, <1>4, <1>5, <1>7, <2>1
      <3>2. ckpt'.st.captured # InFile
        BY <1>5, <2>1, <3>1 DEF Continues
      <3>3. Continues(ckpt, v)'
        BY <3>1 DEF Continues
      <3> QED BY <2>0, <3>1, <3>2, <3>3 DEF ServerOk, Working, InFile
    <2>2. CASE r.kind # "paused"
      <3>1. phase' = phase /\ ckpt' = ckpt
        BY <1>3, <2>2
      <3> QED BY <1>2, <1>3, <2>0, <3>1 DEF ServerOk, InFile
    <2> QED BY <2>1, <2>2
  <1>14. u[0] = v /\ w[1] = v
    BY <1>1 DEF v
  <1>15. ServerOk(u[0])'
    BY <1>13, <1>14 DEF ServerOk, Continues, Approved
  <1> QED BY <1>5, <1>14, <1>15 DEF n

LEMMA ReadRounds ==
    ASSUME Typed, NEW w, Tracks(w), Rounds(w), Read
    PROVE  \E u : Tracks(u)' /\ Rounds(u)'
  <1> DEFINE n == Len(pipe)
  <1>1. PICK u : Tracks(u)' /\ Drops(u, w)
    BY TrackRead
  <1>2. PICK r : r = pipe[1]
    OBVIOUS
  <1>3. /\ n \in Nat \ {0} /\ Len(pipe)' = n - 1
        /\ \A j \in 1 .. n - 1 : pipe'[j] = pipe[j + 1]
        /\ \A i \in 0 .. n - 1 : u[i] = w[i + 1]
    BY <1>1 DEF Drops
  <1>4. /\ TextsOk /\ InFile \notin approved
        /\ \A i \in 0 .. n : ViewOk(w[i]) /\ PlaceOk(w, i)
        /\ \A j \in 1 .. n : SentOk(w, j)
        /\ RunnerOk(w, w[n])
    BY DEF Rounds
  <1>5. /\ phase \in {"running", "pausing"} /\ pipe # <<>>
        /\ result' = (IF r.kind = "final" THEN r.text ELSE result)
        /\ failed' = (failed \/ r.kind = "failure")
        /\ phase' = (IF r.kind = "paused" THEN "pausing" ELSE phase)
        /\ ckpt' = IF r.kind = "paused" THEN [status |-> "pausing", node |-> r.node, st |-> r.st]
                   ELSE ckpt
        /\ RunnerRests /\ stages' = stages
    <2>1. Head(pipe) = r
      BY <1>2, HeadIs DEF Read, Typed
    <2> QED BY <2>1, Zenon DEF Read
  <1>6. TextsStay /\ UNCHANGED <<pc, node, st, visits, verify, previous, before>>
    BY <1>5 DEF TextsStay, RunnerRests, runner
  <1>7. Typed'
    BY ReadTyped
  <1>8. /\ r.kind = "paused" => n = 1 /\ pc = "exited" /\ Continues(r, w[1])
        /\ ServerOk(u[0])'
    BY <1>1, <1>2, <1>6, <1>7, ReadServer
  <1>9. pipe' = <<>> <=> n = 1
    <2>1. pipe' \in Seq(Records)
      BY HeadIs DEF Read, Typed
    <2> QED BY <1>3, <2>1, EmptySeq
  <1>10. TextsOk' /\ InFile \notin approved'
    BY <1>4, <1>6, StaysIs
  <1> HIDE DEF n
  <1>11. ASSUME NEW i \in 0 .. n - 1 PROVE ViewOk(u[i])' /\ PlaceOk(u, i)'
    <2>1. /\ u[i] = w[i + 1] /\ i + 1 \in 0 .. n /\ ViewOk(w[i + 1]) /\ PlaceOk(w, i + 1)
      BY <1>3, <1>4
    <2>2. ViewOk(w[i + 1])'
      <3>1. CASE r.kind = "paused"
        BY <1>5, <1>6, <2>1, <3>1, ViewAsBefore
      <3>2. CASE r.kind # "paused" /\ phase = "running"
        BY <1>5, <1>6, <2>1, <3>2, ViewAsBefore
      <3>3. CASE r.kind # "paused" /\ phase = "pausing"
        BY <1>5, <1>6, <2>1, <3>3, ViewAsBefore
      <3> QED BY <1>5, <3>1, <3>2, <3>3
    <2>3. PlaceOk(u, i)'
      BY <1>1, <1>6, <1>7, <2>1, PlaceDrops DEF n
    <2> QED BY <2>1, <2>2, <2>3
  <1>12. ASSUME NEW j \in 1 .. n - 1 PROVE SentOk(u, j)'
    <2>1. /\ SentOk(w, j + 1) /\ u[j] = w[j + 1] /\ u[j - 1] = w[j] /\ pipe'[j] = pipe[j + 1]
          /\ (j + 1 = n) <=> (j = n - 1)
      BY <1>3, <1>4
    <2>2. j + 1 - 1 = j
      BY <1>3
    <2>3. \A c : Continues(c, w[j + 1])' = Continues(c, w[j + 1])
      BY <1>6, ViewPartsStay
    <2> QED BY <1>3, <1>6, <2>1, <2>2, <2>3 DEF SentOk, Approved, n
  <1>13. PICK v : v = w[n]
    OBVIOUS
  <1>14. /\ Awaits(v)' = Awaits(v) /\ Text(v)' = Text(v) /\ Approved(v)' = Approved(v) /\ Fixes(v)' = Fixes(v)
         /\ \A p : Current(p)' = Current(p)
         /\ \A p, q : Same(p, q)' = Same(p, q)
         /\ \A p, k, check : Round(p, k, check)' = Round(p, k, check)
         /\ \A c : Continues(c, v)' = Continues(c, v)
         /\ UNCHANGED <<made, edits, proofFile>> /\ Asked' = Asked
    BY <1>6, ViewPartsStay, StaysIs
  <1>15. pc = "exited" => RoundEnded(v)'
    <2> SUFFICES ASSUME pc = "exited" PROVE RoundEnded(v)'
      OBVIOUS
    <2>1. RoundEnded(v)
      BY <1>4, <1>13 DEF RunnerOk
    <2>2. /\ pipe[n].kind \in {"paused", "failure", "final"}
          /\ pipe[n].kind = "final" => pipe[n].text # 0
      BY <1>5, <2>1 DEF RoundEnded, n
    <2>3. CASE n > 1
      <3>1. pipe'[n - 1] = pipe[n] /\ pipe' # <<>> /\ Len(pipe') = n - 1
        BY <1>3, <1>9, <2>3
      <3> QED BY <2>2, <3>1 DEF RoundEnded
    <2>4. CASE n = 1
      <3>1. pipe' = <<>> /\ pipe[n] = r /\ v = w[1]
        BY <1>2, <1>9, <1>13, <2>4
      <3>2. CASE r.kind = "paused"
        <4>1. phase' = "pausing" /\ ckpt'.node = r.node /\ ckpt'.st = r.st
          BY <1>5, <3>2
        <4>2. Continues(r, v)'
          BY <1>8, <1>14, <3>1, <3>2
        <4>3. Continues(ckpt, v)'
          BY <4>1, <4>2 DEF Continues
        <4> QED BY <3>1, <4>1, <4>3 DEF RoundEnded
      <3>3. CASE r.kind # "paused"
        BY <1>5, <2>2, <3>1, <3>3 DEF RoundEnded
      <3> QED BY <3>2, <3>3
    <2> QED BY <1>3, <2>3, <2>4
  <1>16. RunnerOk(w, v)
    BY <1>4, <1>13
  <1>17. ASSUME Working PROVE StepOk(u, v)' /\ (node = "critic" => CriticOk(u, v)')
    <2>1. StepOk(w, v) /\ (node = "critic" => CriticOk(w, v))
      BY <1>16, <1>17 DEF RunnerOk
    <2>2. phase' = phase
      BY <1>5, <1>8, <1>17 DEF Working
    <2>3. node = "author" => (\A i \in 0 .. Len(pipe) : Behind(u, i))'
      <3> SUFFICES ASSUME node = "author", NEW i \in 0 .. n - 1 PROVE Behind(u, i)'
        BY <1>3
      <3>1. i + 1 \in 0 .. Len(pipe) /\ i \in 0 .. Len(pipe) - 1
        BY <1>3 DEF n
      <3> QED BY <1>1, <1>6, <1>7, <2>1, <3>1, PlaceDrops DEF StepOk
    <2>4. Same(Text(v), st.sol)' = Same(Text(v), st.sol) /\ Current(st.sol)' = Current(st.sol)
      BY <1>6, <1>14 DEF Same, Current
    <2>5. StepOk(u, v)'
      BY <1>6, <1>14, <2>1, <2>2, <2>3, <2>4 DEF StepOk, InFile
    <2>6. ASSUME NEW t, Older(w, t) PROVE Older(u, t)'
      <3>1. \A i \in 0 .. n - 1 : u[i].answer <= t
        <4> TAKE i \in 0 .. n - 1
        <4>1. i + 1 \in 0 .. Len(pipe) /\ u[i] = w[i + 1]
          BY <1>3 DEF n
        <4> QED BY <2>6, <4>1 DEF Older
      <3> QED BY <1>3, <3>1 DEF Older
    <2>7. ASSUME node = "critic" PROVE CriticOk(u, v)'
      <3>1. CriticOk(w, v)
        BY <2>1, <2>7
      <3>2. Foremost(u)'
        <4>1. CASE st.sol = InFile /\ proofFile # 0
          <5>1. PICK t : t = proofFile
            OBVIOUS
          <5>2. Older(u, t)'
            BY <2>6, <3>1, <4>1, <5>1 DEF CriticOk, Foremost
          <5>3. Older(u, proofFile)'
            BY <1>14, <5>1, <5>2 DEF Older
          <5> QED BY <1>6, <4>1, <5>3 DEF Foremost, InFile
        <4>2. CASE st.sol = InFile /\ proofFile = 0
          BY <1>6, <1>14, <4>2 DEF Foremost, InFile
        <4>3. CASE st.sol # InFile
          <5>1. PICK t : t = st.sol
            OBVIOUS
          <5>2. Older(u, t)'
            BY <2>6, <3>1, <4>3, <5>1 DEF CriticOk, Foremost
          <5>3. Older(u, st.sol)'
            BY <1>6, <5>1, <5>2 DEF Older
          <5> QED BY <1>6, <1>14, <3>1, <4>3, <5>3 DEF CriticOk, Foremost, InFile
        <4> QED BY <4>1, <4>2, <4>3
      <3>3. /\ Round(st.sol, visits, verify)' = Round(st.sol, visits, verify)
            /\ Round(st.sol, visits - 1, verify)' = Round(st.sol, visits - 1, verify)
        BY <1>6, <1>14 DEF Round
      <3> QED BY <1>6, <1>14, <3>1, <3>2, <3>3 DEF CriticOk, InFile, Proofs
    <2> QED BY <2>5, <2>7
  <1>18. RunnerOk(u, v)'
    <2>1. Working' => StepOk(u, v)' /\ ((node = "critic")' => CriticOk(u, v)')
      BY <1>6, <1>17 DEF Working
    <2>2. pc = "dead" => IF v.at = "author" THEN Awaits(v)' /\ ~Approved(v)'
                         ELSE v.at = v.input.node /\ Continues(v.input, v)'
      BY <1>14, <1>16 DEF RunnerOk
    <2>3. (pc \in {"write", "model"} => v.input = [node |-> node, st |-> StepVisit(st, node, visits, verify)])'
      BY <1>6, <1>16 DEF RunnerOk, StepVisit
    <2> QED BY <1>6, <1>14, <1>15, <1>16, <2>1, <2>2, <2>3 DEF RunnerOk, Working
  <1>19. RunnerOk(u, u[Len(pipe)])'
    <2>1. u[Len(pipe)]' = v
      BY <1>3, <1>13
    <2> QED BY <1>18, <2>1 DEF RunnerOk, StepOk, CriticOk, Foremost, RoundEnded, Continues
  <1> QED BY <1>1, <1>3, <1>8, <1>10, <1>11, <1>12, <1>19 DEF Rounds

LEMMA HaltedIdle ==
    ASSUME NEW v \in Views
    PROVE  Idle(Halted(v), v) /\ Halted(v).input = v.input /\ Halted(v).at = v.at
  BY HaltedIs DEF Idle

\* Nothing is unread, before and after.
LEMMA PlaceEmpty ==
    ASSUME TextsStay, NEW w, NEW u, PlaceOk(w, 0), pipe = <<>>, pipe' = <<>>, Idle(u[0], w[0])
    PROVE  PlaceOk(u, 0)'
  <1>1. DOMAIN pipe = {} /\ DOMAIN pipe' = {}
    BY SMT
  <1>2. Final(0) /\ Final(0)'
    BY <1>1 DEF Final
  <1> DEFINE a == u[0]
             b == w[0]
  <1>3. /\ Awaits(a)' = Awaits(a) /\ Text(a)' = Text(a)
        /\ \A p : Current(p)' = Current(p)
        /\ made' = made /\ Asked' = Asked
    BY StaysIs, ViewPartsStay
  <1>4. Awaits(a) = Awaits(b) /\ Text(a) = Text(b) /\ a.answer = b.answer /\ a.handed = b.handed
    BY IdleSame DEF Idle
  <1> HIDE DEF a, b
  <1>5. PlaceOk(w, 0) /\ u[0] = a /\ w[0] = b
    BY DEF a, b
  <1>6. (~Awaits(a))' => Current(Text(a))' /\ (a.handed # 0 => Current(a.handed)')
    BY <1>2, <1>3, <1>4, <1>5 DEF PlaceOk
  <1>7. (~Asked)' /\ a.answer = 0 => made' = 1
    BY <1>1, <1>3, <1>4, <1>5 DEF PlaceOk
  <1> QED BY <1>1, <1>2, <1>3, <1>5, <1>6, <1>7 DEF PlaceOk, Awaits, Text

\* The server saves checkpoint c of a run whose runner is gone.
LEMMA StopsRounds ==
    ASSUME Typed, Typed', NEW w, Tracks(w), Rounds(w), pipe = <<>>, pc' = "off", TextsStay,
           UNCHANGED <<pipe, trace, reader, refused, finalInput>>, NEW c, Stops(c), Continues(c, Now)
    PROVE  \E u : Tracks(u)' /\ Rounds(u)'
  <1>1. /\ phase' = "paused" /\ ckpt' = [status |-> "paused", node |-> c.node, st |-> c.st]
        /\ UNCHANGED <<log, at, stepInput, passed, refused, submitted, critique>> /\ pipe' = <<>>
    BY DEF Stops, trace, reader
  <1>2. Stopped'
    BY <1>1 DEF Stopped
  <1>3. PICK u : Tracks(u)' /\ \A i \in 0 .. Len(pipe) : u[i] = Halted(w[i])
    BY <1>1, <1>2, TrackHalts
  <1>4. Len(pipe) = 0 /\ Len(pipe') = 0 /\ w[0] = Now /\ Now \in Views /\ u[0] = Halted(Now)
    BY <1>1, <1>3, EmptySeq, TrackIs
  <1>5. PICK v : v = u[0]
    OBVIOUS
  <1>6. Idle(v, Now) /\ v.input = Now.input /\ v.at = Now.at
    BY <1>4, <1>5, HaltedIdle
  <1>7. ViewOk(Now) /\ PlaceOk(w, 0) /\ ServerOk(Now) /\ TextsOk /\ InFile \notin approved
    BY <1>4 DEF Rounds
  <1>8. ViewOk(v)'
    <2>1. ViewOk(v)
      BY <1>6, <1>7, IdleOk DEF ViewOk
    <2> QED BY <1>1, <2>1, ViewAsBefore
  <1>9. PlaceOk(u, 0)'
    BY <1>1, <1>4, <1>5, <1>6, <1>7, PlaceEmpty
  <1>10. ServerOk(v)'
    <2>1. ckpt'.node = c.node /\ ckpt'.st = c.st /\ ckpt'.status = "paused"
      BY <1>1
    <2>2. Continues(c, v)'
      BY <1>6, IdleSame, ViewPartsStay
    <2>3. Continues(ckpt, v)' /\ ckpt'.st.captured # InFile
      BY <2>1, <2>2 DEF Continues, InFile
    <2>4. Final(0)' => Final(0)
      BY DEF Final
    <2>5. Approved(v)' = Approved(Now)
      BY <1>6, IdleSame DEF Approved
    <2>6. Current(finalInput)' = Current(finalInput)
      BY StaysIs DEF Current
    <2> QED BY <1>1, <1>7, <2>1, <2>3, <2>4, <2>5, <2>6 DEF ServerOk, Working, InFile
  <1>11. \A i \in 0 .. Len(pipe') : ViewOk(u[i])' /\ PlaceOk(u, i)'
    BY <1>4, <1>5, <1>8, <1>9
  <1>12. \A j \in 1 .. Len(pipe') : SentOk(u, j)'
    BY <1>4
  <1>13. ServerOk(u[0])' /\ RunnerOk(u, u[Len(pipe)])'
    BY <1>5, <1>10 DEF ServerOk, Continues, Approved, RunnerOk, Working
  <1>14. TextsOk' /\ InFile \notin approved'
    BY <1>7, StaysIs
  <1> QED BY <1>3, <1>11, <1>12, <1>13, <1>14 DEF Rounds

\* The server gives the run up.
LEMMA DoneRounds ==
    ASSUME Typed, Typed', NEW w, Tracks(w), Rounds(w), pipe = <<>>, pc' = "off", TextsStay,
           UNCHANGED <<pipe, trace, reader, refused, finalInput, ckpt>>, phase' = "done"
    PROVE  \E u : Tracks(u)' /\ Rounds(u)'
  <1>1. UNCHANGED <<log, at, stepInput, passed, refused, submitted, critique, ckpt>> /\ pipe' = <<>>
    BY DEF trace, reader
  <1>2. Stopped' = Stopped
    BY <1>1 DEF Stopped
  <1>3. Tracks(w)'
    BY <1>1, <1>2, NowSame, TrackSame
  <1>4. Len(pipe) = 0 /\ Len(pipe') = 0 /\ 0 \in 0 .. Len(pipe)
    BY <1>1, EmptySeq
  <1>5. PICK v : v = w[0]
    OBVIOUS
  <1>6. ViewOk(v) /\ PlaceOk(w, 0) /\ ServerOk(v) /\ TextsOk /\ InFile \notin approved
    BY <1>4, <1>5 DEF Rounds
  <1>7. ViewOk(v)'
    BY <1>6, ViewAsBefore
  <1>8. PlaceOk(w, 0)'
    BY <1>1, <1>6, PlaceEmpty DEF Idle
  <1>9. ServerOk(v)'
    <2>1. Final(0)' => Final(0)
      BY DEF Final
    <2>2. Approved(v)' = Approved(v)
      BY DEF Approved
    <2>3. Current(finalInput)' = Current(finalInput)
      BY StaysIs DEF Current
    <2> QED BY <1>1, <1>6, <2>1, <2>2, <2>3 DEF ServerOk, Working, InFile
  <1>10. \A i \in 0 .. Len(pipe') : ViewOk(w[i])' /\ PlaceOk(w, i)'
    BY <1>4, <1>5, <1>7, <1>8
  <1>11. \A j \in 1 .. Len(pipe') : SentOk(w, j)'
    BY <1>4
  <1>12. ServerOk(w[0])' /\ RunnerOk(w, w[Len(pipe)])'
    BY <1>5, <1>9 DEF ServerOk, Continues, Approved, RunnerOk, Working
  <1>13. TextsOk' /\ InFile \notin approved'
    BY <1>6, StaysIs
  <1> QED BY <1>3, <1>10, <1>11, <1>12, <1>13 DEF Rounds

\* An author that ended without a final answer.
LEMMA UnfinishedRounds ==
    ASSUME Typed, ServerOk(Now), Awaits(Now), ~Approved(Now), NEW again
    PROVE  Continues(Unfinished(again), Now)
  <1> DEFINE s == WithoutOldNote(ckpt.st, again)
             c == Unfinished(again)
  <1>1. ckpt.st \in States /\ ckpt.st.captured # InFile
    BY DEF Typed, ServerTyped, ServerOk
  <1>2. s \in States /\ s.captured = ckpt.st.captured
    BY <1>1 DEF WithoutOldNote, States
  <1>3. c.node = "author" /\ c.st = WithRejection(s)
    BY DEF Unfinished
  <1> HIDE DEF s, c
  <1>4. WithRejection(s).captured = s.captured
    BY <1>2 DEF WithRejection, States
  <1>5. c.st.captured # InFile
    BY <1>1, <1>2, <1>3, <1>4
  <1>6. Continues(c, Now)
    BY <1>3, <1>5 DEF Continues, InReview, Late, Awaits
  <1> QED BY <1>6 DEF c

LEMMA SettleRounds ==
    ASSUME Typed, NEW w, Tracks(w), Rounds(w), Settle
    PROVE  \E u : Tracks(u)' /\ Rounds(u)'
  <1>1. Typed'
    BY SettleTyped
  <1>2. /\ pc' = "off" /\ phase \in {"running", "pausing"} /\ pipe = <<>>
        /\ UNCHANGED <<pipe, trace, reader, refused, finalInput>> /\ TextsStay
        /\ \/ UNCHANGED ckpt /\ phase' = "done"
           \/ phase = "pausing" /\ result = 0 /\ ~failed /\ Stops(ckpt)
           \/ phase = "running" /\ result = 0 /\ ~failed /\ at = "author" /\ Stops(Unfinished(submitted))
           \/ phase = "running" /\ result = 0 /\ ~failed /\ StepStopped /\ Stops(stepInput)
    BY SettleIs DEF history, TextsStay
  <1>3. Len(pipe) = 0 /\ w[0] = Now /\ ServerOk(Now) /\ RunnerOk(w, Now)
    BY <1>2, EmptySeq, TrackIs DEF Rounds
  <1>4. Now.at = at /\ Now.input = stepInput
    BY DEF Now
  <1>5. pc \in {"exited", "dead"}
    BY Zenon DEF Settle
  <1>6. result = 0 /\ ~failed => pc = "dead" \/ (phase = "pausing" /\ Continues(ckpt, Now))
    BY <1>2, <1>3, <1>5 DEF RunnerOk, RoundEnded
  <1>7. CASE UNCHANGED ckpt /\ phase' = "done"
    BY <1>1, <1>2, <1>7, DoneRounds
  <1>8. CASE phase = "pausing" /\ result = 0 /\ ~failed /\ Stops(ckpt)
    <2>1. Continues(ckpt, Now)
      BY <1>3, <1>6, <1>8 DEF ServerOk
    <2> QED BY <1>1, <1>2, <1>8, <2>1, StopsRounds
  <1>9. CASE phase = "running" /\ result = 0 /\ ~failed /\ at = "author" /\ Stops(Unfinished(submitted))
    <2>1. Awaits(Now) /\ ~Approved(Now)
      BY <1>3, <1>4, <1>6, <1>9 DEF RunnerOk
    <2>2. Continues(Unfinished(submitted), Now)
      BY <1>3, <2>1, UnfinishedRounds
    <2> QED BY <1>1, <1>2, <1>9, <2>2, StopsRounds
  <1>10. CASE phase = "running" /\ result = 0 /\ ~failed /\ StepStopped /\ Stops(stepInput)
    <2>1. at = stepInput.node /\ at # "author"
      BY <1>10 DEF StepStopped
    <2>2. Continues(stepInput, Now)
      BY <1>3, <1>4, <1>6, <1>10, <2>1 DEF RunnerOk
    <2> QED BY <1>1, <1>2, <1>10, <2>2, StopsRounds
  <1> QED BY <1>2, <1>7, <1>8, <1>9, <1>10

LEMMA ResumeRounds ==
    ASSUME Typed, NEW w, Tracks(w), Rounds(w), Resume
    PROVE  \E u : Tracks(u)' /\ Rounds(u)'
  <1>1. Typed'
    BY ResumeTyped
  <1>2. /\ w[0] = Now /\ Now \in Views /\ ServerOk(Now) /\ ViewOk(Now) /\ PlaceOk(w, 0) /\ TextsOk
        /\ InFile \notin approved
    BY TrackIs DEF Rounds
  <1>3. /\ pipe = <<>> /\ pipe' = <<>> /\ Continues(ckpt, Now) /\ phase = "paused" /\ TextsStay
        /\ finalInput' = finalInput
    BY <1>2 DEF ServerOk, Resume, TextsStay
  <1>4. PICK u : Tracks(u)' /\ u[0] = Now' /\ Len(pipe') = 0
    BY <1>1, <1>3, TrackEmpty
  <1>5. PICK c : c = ckpt
    OBVIOUS
  <1>6. PICK v : v = u[0]
    OBVIOUS
  <1>7. PICK a : a = Now
    OBVIOUS
  <1>8. /\ c.node \in Nodes /\ c.st \in States /\ c.st.visit \in Nat /\ c.st.verify \in BOOLEAN
    BY <1>5 DEF Typed, ServerTyped, States
  <1>9. /\ phase' = "running" /\ pc' = "top" /\ node' = c.node /\ previous' = "none" /\ before' = Blank
        /\ ckpt'.status = "running" /\ ckpt'.node = c.node /\ ckpt'.st = c.st
        /\ st' = [c.st EXCEPT !.visit = 0, !.verify = FALSE]
        /\ visits' = ResumedVisit(c)
        /\ verify' = (c.node = "critic" /\ c.st.visit > 0 /\ c.st.verify)
    BY <1>5 DEF Resume, Typed, ServerTyped
  <1>10. /\ st'.sol = c.st.sol /\ st'.captured = c.st.captured /\ st'.visit = 0 /\ st'.verify = FALSE
    BY <1>8, <1>9 DEF States
  <1>11. /\ v.node = c.node /\ v.at = c.node /\ v.last = "resume"
         /\ v.input = IF c.node = "author" THEN Nothing ELSE [node |-> c.node, st |-> c.st]
         /\ v.gave = a.gave /\ v.first = a.first /\ v.answer = a.answer /\ v.handed = a.handed
         /\ v.open = (IF c.node = "critic" THEN "resume" ELSE "none") /\ v.visit = 0 /\ v.check = FALSE
         /\ v.decisive = a.decisive /\ v.verdict = a.verdict /\ v.text = a.text
         /\ v.passed = 0 /\ v.stopped = FALSE
    BY <1>4, <1>5, <1>6, <1>7, NowResumes DEF ResumedView
  <1>12. /\ ViewOk(a) /\ PlaceOk(w, 0) /\ w[0] = a /\ a \in Views /\ ServerOk(a) /\ Continues(c, a)
    BY <1>2, <1>3, <1>5, <1>7
  <1>13. Text(v) = Text(a) /\ Approved(v) = Approved(a) /\ Fixes(v) = Fixes(a)
    BY <1>11 DEF Text, Approved, Fixes
  <1>14. /\ Awaits(v)' = Awaits(v) /\ Text(v)' = Text(v) /\ Approved(v)' = Approved(v) /\ Fixes(v)' = Fixes(v)
         /\ HandedOk(v)' = HandedOk(v)
         /\ \A p : Current(p)' = Current(p)
         /\ \A p, q : Same(p, q)' = Same(p, q)
         /\ \A p, k, check : Round(p, k, check)' = Round(p, k, check)
                             /\ SavedRound(p, k, check)' = SavedRound(p, k, check)
         /\ UNCHANGED <<made, edits, proofFile>> /\ Asked' = Asked
    BY <1>3, ViewPartsStay, StaysIs
  <1>15. /\ c.node = "author" => Asked /\ Awaits(v)
         /\ c.node # "author" => ~Awaits(v) /\ ~Awaits(a)
    BY <1>8, <1>11, <1>12 DEF Continues, Awaits, Nodes
  <1>16. c.node = "critic" => /\ SavedRound(c.st.sol, c.st.visit, c.st.verify) /\ Fixes(v)
                              /\ ~Approved(v) /\ Same(Text(v), c.st.sol)
    BY <1>12, <1>13 DEF Continues, Late, InReview
  <1>17. c.node \in InReview => Text(v) \in Proofs \cup {InFile} /\ (Asked => a.first # 0)
    <2>1. c.node \in InReview => (Asked => a.first # 0)
      BY <1>12 DEF Continues
    <2> QED BY <1>2, <1>12, <1>13, <2>1, TextMade, TextFacts
  <1>18. ViewOk(v)'
    <2>1. AtVisit(v)'
      <3>1. c.node = "critic" => SavedRound(Text(v), c.st.visit, c.st.verify)
        BY <1>2, <1>8, <1>16, <1>17, SameRound DEF InReview
      <3>2. c.node = "critic" => SavedRound(Text(v), c.st.visit, c.st.verify)'
        BY <1>14, <3>1
      <3>3. (SavedRound(Text(v), ckpt.st.visit, ckpt.st.verify))' <=> SavedRound(Text(v), c.st.visit, c.st.verify)'
        BY <1>9 DEF SavedRound, Round, Before
      <3> QED BY <1>9, <1>11, <3>2, <3>3 DEF AtVisit
    <2>2. VisitOk(v)'
      BY <1>11, <1>14, <1>16, <2>1 DEF VisitOk, AtVisit
    <2>3. HandedOk(v)
      BY <1>11, <1>12, <1>13 DEF ViewOk, HandedOk
    <2>4. v.input.st.captured # InFile
      <3>1. c.st.captured # InFile
        BY <1>12 DEF Continues
      <3> QED BY <1>11, <3>1, TextFacts DEF Nothing, Blank
    <2>5. c.node \in Late <=> Approved(v)
      BY <1>12, <1>13 DEF Continues
    <2>6. v.node # "none" /\ v.last = "resume"
      BY <1>8, <1>11 DEF Nodes
    <2>7. c.node \in InReview /\ Asked => v.first # 0
      BY <1>11, <1>17
    <2>8. /\ v.answer \in 0 .. made /\ v.first \in (0 .. made) \cup {InFile} /\ (v.gave => v.first # 0)
          /\ v.answer # 0 => v.text = v.answer
          /\ ~Asked => v.first = 0 /\ v.node # "author" /\ v.at # "author"
          /\ Approved(v) => v.answer # 0
      BY <1>11, <1>12, <1>13, <1>15 DEF ViewOk
    <2> QED BY <1>11, <1>14, <2>2, <2>3, <2>4, <2>5, <2>6, <2>7, <2>8 DEF ViewOk, Late, InFile
  <1>19. DOMAIN pipe = {} /\ DOMAIN pipe' = {} /\ Final(0) /\ Final(0)'
    BY <1>3 DEF Final
  <1>20. PlaceOk(u, 0)'
    <2>1. /\ ~Awaits(a) => Current(Text(a)) /\ (a.handed # 0 => Current(a.handed))
          /\ ~Asked /\ a.answer = 0 => made = 1
      BY <1>12, <1>19 DEF PlaceOk
    <2>2. (~Awaits(v))' => Current(Text(v))' /\ (v.handed # 0 => Current(v.handed)')
      BY <1>11, <1>13, <1>14, <1>15, <2>1
    <2> QED BY <1>6, <1>11, <1>14, <1>19, <2>1, <2>2 DEF PlaceOk, Awaits, Text
  <1>21. ServerOk(v)'
    <2>0. PICK f : f = finalInput
      OBVIOUS
    <2>1. Approved(v)' => f = 0 \/ (f # InFile /\ Current(f)')
      <3>1. Approved(a) => f = 0 \/ (f # InFile /\ Current(f))
        BY <1>12, <1>19, <2>0 DEF ServerOk
      <3> QED BY <1>13, <1>14, <3>1
    <2>2. c.st.captured # InFile
      BY <1>12 DEF Continues
    <2>3. (Final(0) /\ Approved(v) => finalInput = 0 \/ (finalInput # InFile /\ Current(finalInput)))'
      BY <1>3, <2>0, <2>1 DEF Current, InFile
    <2> QED BY <1>3, <1>9, <2>2, <2>3 DEF ServerOk, InFile
  <1>22. StepOk(u, v)'
    <2>1. c.node = "author" => (\A i \in 0 .. Len(pipe) : Behind(u, i))'
      BY <1>4, <1>6, <1>14, <1>15 DEF Behind, Awaits
    <2>2. /\ c.node # "author" => Current(c.st.sol)'
          /\ c.node \in InReview => Same(Text(v), c.st.sol)' /\ (Asked => v.first # 0)
          /\ c.node \in Late => c.st.sol # InFile
          /\ c.node \in Late <=> Approved(v)
          /\ c.st.captured # InFile
      BY <1>11, <1>12, <1>13, <1>14 DEF Continues
    <2>3. /\ Current(st.sol)' <=> Current(c.st.sol)'
          /\ Same(Text(v), st.sol)' <=> Same(Text(v), c.st.sol)'
      BY <1>10 DEF Current, Same
    <2>4. before'.captured # InFile
      BY <1>9, TextFacts DEF Blank
    <2> QED BY <1>9, <1>10, <1>11, <1>14, <1>15, <2>1, <2>2, <2>3, <2>4 DEF StepOk, InFile
  <1>23. c.node = "critic" => CriticOk(u, v)'
    <2> SUFFICES ASSUME c.node = "critic" PROVE CriticOk(u, v)'
      OBVIOUS
    <2>1. Round(st.sol, visits, verify)'
      <3>1. Round(c.st.sol, Before(c.st.visit), c.st.visit > 0 /\ c.st.verify)
        BY <1>16 DEF SavedRound
      <3>2. visits' = Before(c.st.visit) /\ verify' = (c.st.visit > 0 /\ c.st.verify)
        BY <1>9 DEF ResumedVisit, Before
      <3>3. Round(c.st.sol, visits', verify')
        BY <3>1, <3>2
      <3> QED BY <1>10, <1>14, <3>3 DEF Round, Proofs, InFile
    <2>2. Same(Text(a), c.st.sol) /\ Current(c.st.sol)
      BY <1>12 DEF Continues, InReview
    <2>3. /\ Text(a) \in 1 .. made \/ (Text(a) = InFile /\ a.answer = 0 /\ a.first = InFile /\ Asked)
          /\ made \in Nat /\ made < InFile /\ a.answer \in Nat
      <3>1. made \in Nat /\ made < InFile /\ a.answer \in 0 .. made
        BY <1>12, TextFacts DEF ViewOk
      <3>2. a.answer \in Nat
        BY <3>1
      <3> QED BY <1>2, <1>12, <1>17, <3>1, <3>2, TextMade DEF InReview
    <2>4. c.st.sol = InFile => a.answer = 0
      BY <2>2, <2>3, TextFacts DEF Same
    <2>5. c.st.sol # InFile => a.answer <= c.st.sol /\ c.st.sol <= made
      <3> SUFFICES ASSUME c.st.sol # InFile PROVE a.answer <= c.st.sol /\ c.st.sol <= made
        OBVIOUS
      <3>1. c.st.sol \in 1 .. made
        BY <2>2 DEF Current
      <3>2. a.answer # 0 => Text(a) = a.answer
        BY DEF Text
      <3>3. a.answer # 0 => c.st.sol = a.answer
        BY <2>2, <2>3, <3>2, TextFacts DEF Same
      <3> QED BY <2>3, <3>1, <3>3
    <2>6. Foremost(u)'
      <3>1. v.answer = a.answer /\ proofFile' = proofFile /\ proofFile \in Nat
        BY <1>11, <1>14, TextFacts
      <3>2. \A t : Older(u, t)' <=> v.answer <= t
        BY <1>4, <1>6 DEF Older
      <3>3. CASE c.st.sol = InFile
        <4>1. Older(u, proofFile)' <=> v.answer <= proofFile'
          BY <1>4, <1>6 DEF Older
        <4>2. v.answer <= proofFile'
          BY <2>4, <3>1, <3>3
        <4> QED BY <1>10, <3>3, <4>1, <4>2 DEF Foremost, InFile
      <3>4. CASE c.st.sol # InFile
        <4>1. Older(u, st.sol)' <=> v.answer <= st'.sol
          BY <1>4, <1>6 DEF Older
        <4> QED BY <1>10, <1>14, <2>5, <3>1, <3>4, <4>1 DEF Foremost, InFile
      <3> QED BY <3>3, <3>4
    <2> QED BY <1>9, <1>14, <1>16, <2>1, <2>6 DEF CriticOk
  <1>24. c.node = "convention" => c.st.sol = v.answer
    <2> SUFFICES ASSUME c.node = "convention" PROVE c.st.sol = v.answer
      OBVIOUS
    <2>1. Approved(a) /\ Same(Text(a), c.st.sol) /\ a.answer # 0 /\ a.answer \in 0 .. made
      BY <1>12 DEF Continues, Late, InReview, ViewOk
    <2>2. Text(a) = a.answer /\ a.answer # InFile
      BY <2>1, TextFacts DEF Text
    <2> QED BY <1>11, <2>1, <2>2 DEF Same
  <1>25. RunnerOk(u, v)'
    BY <1>9, <1>10, <1>22, <1>23, <1>24 DEF RunnerOk, Working
  <1>26. \A i \in 0 .. Len(pipe') : ViewOk(u[i])' /\ PlaceOk(u, i)'
    BY <1>4, <1>6, <1>18, <1>20
  <1>27. \A j \in 1 .. Len(pipe') : SentOk(u, j)'
    BY <1>4
  <1>28. ServerOk(u[0])' /\ RunnerOk(u, u[Len(pipe)])'
    BY <1>4, <1>6, <1>21, <1>25 DEF ServerOk, Continues, Approved, RunnerOk, StepOk, CriticOk, Foremost, RoundEnded
  <1>29. TextsOk' /\ InFile \notin approved'
    BY <1>2, <1>3, StaysIs
  <1> QED BY <1>4, <1>26, <1>27, <1>28, <1>29 DEF Rounds

\* What a restarted server takes the interrupted visit to be.
LEMMA VisitRebuilt ==
    ASSUME Typed, NEW s, OpenVisit # "none", NEW r, r = log[Newest(Submits)]
    PROVE  /\ r.kind = OpenVisit /\ r.node = "critic" /\ r \in Entries
           /\ r.kind = "step" =>
                InterruptedVisit(s) = IF r.visit > 1 \/ r.verify
                                      THEN [s EXCEPT !.visit = r.visit, !.verify = r.verify] ELSE s
           /\ r.kind = "resume" /\ ckpt.status = "running" /\ ckpt.node = "critic"
                => InterruptedVisit(s) = [s EXCEPT !.visit = ckpt.st.visit, !.verify = ckpt.st.verify]
  <1> DEFINE K == Kinds(Submits)
             seen == {i \in K : log[i].kind = "step" => log[i].node = "critic"}
             N == Newest(Submits)
             M == CHOOSE i \in seen : \A j \in seen : j <= i
  <1>1. K # {} /\ r.kind = OpenVisit /\ r.kind \in {"step", "resume"} /\ r.node = "critic"
    BY DEF OpenVisit
  <1>2. Logs /\ DOMAIN log = 1 .. Len(log) /\ Len(log) \in Nat
    BY LenProperties DEF Typed, ServerTyped, Logs
  <1>3. N \in K /\ (\A j \in K : j <= N) /\ N \in DOMAIN log
    BY <1>1, <1>2, NewestIs
  <1>4. r \in Entries
    BY <1>2, <1>3, ElementOfSeq DEF Logs
  <1>5. K \subseteq Nat
    BY <1>2 DEF Kinds
  <1> HIDE DEF K, N
  <1>6. N \in seen /\ \A j \in seen : j <= N
    BY <1>1, <1>3 DEF N
  <1>7. M = N
    <2>1. \A i \in seen : (\A j \in seen : j <= i) => i = N
      BY <1>3, <1>5, <1>6
    <2> HIDE DEF seen
    <2> QED BY <1>6, <2>1
  <1>8. seen # {} /\ log[M] = r
    BY <1>6, <1>7 DEF N
  <1>9. InterruptedVisit(s) =
          CASE seen = {} -> s
            [] seen # {} /\ log[M].kind = "step" -> StepVisit(s, "critic", log[M].visit, log[M].verify)
            [] seen # {} /\ log[M].kind = "resume" ->
                 IF log[M].node = "critic" /\ ckpt.status = "running" /\ ckpt.node = "critic"
                 THEN [s EXCEPT !.visit = ckpt.st.visit, !.verify = ckpt.st.verify] ELSE s
            [] OTHER -> s
    BY Zenon DEF InterruptedVisit, K, seen, M, Submits
  <1> HIDE DEF seen, M
  <1>10. r.kind = "step" =>
           InterruptedVisit(s) = IF r.visit > 1 \/ r.verify
                                 THEN [s EXCEPT !.visit = r.visit, !.verify = r.verify] ELSE s
    BY <1>8, <1>9 DEF StepVisit
  <1>11. r.kind = "resume" /\ ckpt.status = "running" /\ ckpt.node = "critic"
           => InterruptedVisit(s) = [s EXCEPT !.visit = ckpt.st.visit, !.verify = ckpt.st.verify]
    BY <1>1, <1>8, <1>9
  <1> QED BY <1>1, <1>4, <1>10, <1>11

\* What a restarted server takes the interrupted text to be.
LEMMA CandidateRebuilt ==
    ASSUME Typed
    PROVE  \/ InterruptedCandidate = saved /\ saved # 0 /\ saved = Now.handed
           \/ InterruptedCandidate = Now.answer
           \/ Now.answer = 0 /\ InterruptedCandidate = Now.first
           \/ Now.answer = 0 /\ Now.first = 0 /\ InterruptedCandidate = saved
  <1>1. Logs /\ DOMAIN log = 1 .. Len(log) /\ Len(log) \in Nat
    BY LenProperties DEF Typed, ServerTyped, Logs
  <1>2. /\ Now.handed = IF Kinds({"handoff"}) # {} THEN log[Newest({"handoff"})].text ELSE 0
        /\ Now.answer = IF Kinds({"critic"}) # {} THEN log[Newest({"critic"})].text ELSE 0
        /\ Now.first = IF Kinds({"author"}) # {} THEN log[Newest({"author"})].text ELSE 0
    BY DEF Now, TextOf, Shown
  <1>3. Kinds({"author"}) # {} => Newest({"author"}) = 1
    <2> SUFFICES ASSUME Kinds({"author"}) # {} PROVE Newest({"author"}) = 1
      OBVIOUS
    <2>1. Newest({"author"}) \in DOMAIN log /\ log[Newest({"author"})].kind = "author"
      BY <1>1, NewestIs
    <2> QED BY <1>1, <2>1 DEF Logs
  <1>4. InterruptedCandidate =
          IF saved # 0 /\ Kinds({"handoff"}) # {} /\ log[Newest({"handoff"})].text = saved THEN saved
          ELSE IF Kinds({"critic"}) # {} THEN log[Newest({"critic"})].text
          ELSE IF Kinds({"author"}) # {} THEN log[1].text
          ELSE saved
    BY Zenon DEF InterruptedCandidate
  <1> QED BY <1>2, <1>3, <1>4

\* The text of the interrupted review.
LEMMA TextRebuilt ==
    ASSUME Typed, TextsOk, NEW w, Tracks(w), pipe = <<>>, ViewOk(Now), PlaceOk(w, 0),
           Fixes(Now), Now.node = "critic", InterruptedCandidate # 0
    PROVE  /\ Same(Text(Now), InterruptedCandidate) /\ Current(InterruptedCandidate)
           /\ InterruptedCandidate \in Texts
  <1> DEFINE c == InterruptedCandidate
  <1>1. PICK v : v = Now
    OBVIOUS
  <1>2. /\ v \in Views /\ ViewOk(v) /\ v.node = "critic" /\ w[0] = v
    BY <1>1, TrackIs
  <1>3. DOMAIN pipe = {} /\ Final(0) /\ ~Awaits(v)
    BY <1>2 DEF Final, Awaits
  <1>4. /\ Current(Text(v)) /\ (v.handed # 0 => Current(v.handed)) /\ (~Asked /\ v.answer = 0 => made = 1)
    BY <1>2, <1>3 DEF PlaceOk
  <1>5. (Asked => v.first # 0) /\ v.answer \in Texts /\ v.first \in Texts /\ saved \in Texts /\ saved \in Nat
        /\ v.answer \in Nat /\ v.handed \in Nat
    BY <1>2, TextFacts DEF ViewOk, InReview, Views
  <1>6. \/ c = saved /\ saved # 0 /\ saved = v.handed
        \/ c = v.answer
        \/ v.answer = 0 /\ c = v.first
        \/ v.answer = 0 /\ v.first = 0 /\ c = saved
    BY <1>1, CandidateRebuilt
  <1>7. c # 0 /\ (v.answer # 0 => saved >= v.answer)
    BY <1>1 DEF Fixes
  <1> HIDE DEF c
  <1>8. CASE c = saved /\ saved # 0 /\ saved = v.handed
    <2>1. Same(Text(v), v.handed) \/ (v.answer # 0 /\ v.handed < v.answer)
      BY <1>2, <1>8 DEF ViewOk, HandedOk
    <2>2. Same(Text(v), v.handed)
      BY <1>5, <1>7, <1>8, <2>1
    <2> QED BY <1>1, <1>4, <1>5, <1>8, <2>2 DEF c
  <1>9. CASE c = v.answer
    <2>1. Text(v) = v.answer
      BY <1>7, <1>9 DEF Text
    <2> QED BY <1>1, <1>4, <1>5, <1>9, <2>1 DEF c, Same
  <1>10. CASE v.answer = 0 /\ c = v.first
    <2>1. Text(v) = v.first
      BY <1>7, <1>10 DEF Text
    <2> QED BY <1>1, <1>4, <1>5, <1>10, <2>1 DEF c, Same
  <1>11. CASE v.answer = 0 /\ v.first = 0 /\ c = saved
    <2>1. ~Asked /\ made = 1 /\ Text(v) = 1
      BY <1>4, <1>5, <1>11 DEF Text
    <2>2. saved = 1
      BY <1>5, <2>1 DEF TextsOk
    <2> QED BY <1>1, <1>4, <1>5, <1>11, <2>1, <2>2 DEF c, Same
  <1> QED BY <1>6, <1>8, <1>9, <1>10, <1>11

\* A critic that was at work.
LEMMA CriticRebuilt ==
    ASSUME Typed, TextsOk, NEW w, Tracks(w), pipe = <<>>, ViewOk(Now), PlaceOk(w, 0),
           Now.node = "critic", Now.open # "none", phase = "down", ckpt.status \in {"none", "running"},
           NEW c, c.node = "critic", c.st = InterruptedVisit(Input(InterruptedCandidate)), c.st.sol # 0
    PROVE  Continues(c, Now)
  <1>1. PICK v : v = Now
    OBVIOUS
  <1>2. PICK p : p = InterruptedCandidate
    OBVIOUS
  <1>3. PICK r : r = log[Newest(Submits)]
    OBVIOUS
  <1>s. PICK s : s = Input(p)
    OBVIOUS
  <1>4. v.open = OpenVisit /\ v.visit = OpenNumber /\ v.check = OpenCheck /\ v \in Views
    BY <1>1, NowTyped DEF Now
  <1>5. OpenVisit # "none" /\ VisitOk(v)
    BY <1>1, <1>4 DEF ViewOk
  <1>6. /\ r.kind = OpenVisit /\ r.node = "critic" /\ r \in Entries
        /\ r.kind = "step" =>
             InterruptedVisit(s) = IF r.visit > 1 \/ r.verify
                                   THEN [s EXCEPT !.visit = r.visit, !.verify = r.verify] ELSE s
        /\ r.kind = "resume" /\ ckpt.status = "running" /\ ckpt.node = "critic"
             => InterruptedVisit(s) = [s EXCEPT !.visit = ckpt.st.visit, !.verify = ckpt.st.verify]
    BY <1>3, <1>5, VisitRebuilt
  <1>7. s.sol = p /\ s.captured = 0 /\ s.visit = 0 /\ s.verify = FALSE
    BY <1>s DEF Input, Blank
  <1>8. s \in States
    <2>1. p \in Texts
      BY <1>2, CandidateRebuilt, TextFacts, NowTyped DEF Views
    <2> QED BY <1>s, <2>1, BlankIs DEF Input, States, Texts
  <1>9. c.st = InterruptedVisit(s)
    BY <1>2, <1>s
  <1>10. /\ c.st.sol = p /\ c.st.captured = 0
         /\ SavedRound(Text(v), c.st.visit, c.st.verify)
         /\ c.st.visit \in Nat /\ c.st.verify \in BOOLEAN
    <2>1. CASE OpenVisit = "step"
      <3>1. r.visit \in Nat /\ r.verify \in BOOLEAN
        BY <1>6, <2>1 DEF Entries, Records
      <3>2. v.visit = SavedVisit(r.visit, r.verify) /\ v.check = r.verify
        BY <1>3, <1>4, <2>1, <3>1 DEF OpenNumber, OpenCheck
      <3>3. SavedRound(Text(v), v.visit, v.check)
        BY <1>4, <1>5, <2>1 DEF VisitOk
      <3>4. c.st = IF r.visit > 1 \/ r.verify THEN [s EXCEPT !.visit = r.visit, !.verify = r.verify] ELSE s
        BY <1>6, <1>9, <2>1
      <3>5. c.st.sol = p /\ c.st.captured = 0 /\ c.st.visit = SavedVisit(r.visit, r.verify) /\ c.st.verify = r.verify
        BY <1>7, <1>8, <3>1, <3>4 DEF SavedVisit, States
      <3> QED BY <3>1, <3>2, <3>3, <3>5 DEF SavedVisit
    <2>2. CASE OpenVisit = "resume"
      <3>1. /\ ckpt.status = "running" /\ ckpt.node = "critic"
            /\ SavedRound(Text(v), ckpt.st.visit, ckpt.st.verify)
        BY <1>4, <1>5, <2>2 DEF VisitOk
      <3>2. c.st = [s EXCEPT !.visit = ckpt.st.visit, !.verify = ckpt.st.verify]
        BY <1>6, <1>9, <2>2, <3>1
      <3>3. ckpt.st.visit \in Nat /\ ckpt.st.verify \in BOOLEAN
        BY DEF Typed, ServerTyped, States
      <3> QED BY <1>7, <1>8, <3>1, <3>2, <3>3 DEF States
    <2> QED BY <1>5, <2>1, <2>2 DEF OpenVisit
  <1>11. /\ v.node = "critic" /\ ~Approved(v) /\ Fixes(v) /\ ~Awaits(v) /\ (Asked => v.first # 0) /\ ViewOk(v)
    BY <1>1, <1>4, <1>5 DEF VisitOk, Awaits, ViewOk, InReview
  <1>12. Same(Text(v), p) /\ Current(p) /\ p \in Texts
    BY <1>1, <1>2, <1>10, <1>11, TextRebuilt
  <1>13. SavedRound(p, c.st.visit, c.st.verify)
    BY <1>10, <1>12, SameRound
  <1>14. Continues(c, v)
    BY <1>10, <1>11, <1>12, <1>13, TextFacts DEF Continues, InReview, Late
  <1> QED BY <1>1, <1>14

\* What a restarted server continues from.
LEMMA RebuiltRounds ==
    ASSUME Typed, TextsOk, NEW w, Tracks(w), pipe = <<>>, ViewOk(Now), PlaceOk(w, 0), ServerOk(Now),
           phase = "down", ckpt.status \in {"none", "running"}, Rebuilt # Nothing
    PROVE  Continues(Rebuilt, Now)
  <1>1. PICK v : v = Now
    OBVIOUS
  <1>2. /\ v \in Views /\ ViewOk(v) /\ ServerOk(v) /\ w[0] = v /\ v.node = LastWorkNode /\ v.last = LastKind
        /\ v.decisive = LastDecisive /\ v.verdict = critique.verdict
        /\ v.answer = TextOf("critic")
    BY <1>1, TrackIs DEF Now
  <1>3. DOMAIN pipe = {} /\ Final(0)
    BY DEF Final
  <1>4. v.last # "critic" /\ VisitOk(v)
    BY <1>2 DEF ServerOk, ViewOk
  <1>5. \A m, s : At(m, s) # Nothing => At(m, s).node = m /\ At(m, s).st = s /\ s.sol # 0
    BY DEF At
  <1>6. \A p : /\ Input(p).sol = p /\ Input(p).captured = 0
               /\ [Input(p) EXCEPT !.report = "reject"].captured = 0
    BY DEF Input, Blank
  <1>7. InFile # 0
    BY TextFacts
  <1>8. CASE LastWorkNode = "author"
    <2>1. Rebuilt = Unfinished(SubmittedSinceResume) /\ ~AuthorFinished
      BY <1>8, Zenon DEF Rebuilt
    <2>2. Logs /\ DOMAIN log = 1 .. Len(log) /\ Len(log) \in Nat
      BY LenProperties DEF Typed, ServerTyped, Logs
    <2>3. log # <<>> /\ Len(log) >= 1
      <3>1. log # <<>>
        BY <1>8 DEF LastWorkNode
      <3> QED BY <2>2, <3>1, EmptySeq DEF Logs
    <2>4. Kinds({"step", "resume"}) # {}
      BY <1>8, <2>1, <2>3 DEF AuthorFinished
    <2>5. v.last # "author"
      <3> SUFFICES ASSUME log[Len(log)].kind = "author" PROVE FALSE
        BY <1>2, <2>3 DEF LastKind
      <3>1. Len(log) = 1
        BY <2>2, <2>3 DEF Logs
      <3> QED BY <2>2, <2>4, <3>1 DEF Kinds
    <2>6. v.node = "author" /\ Asked /\ ~Approved(v)
      BY <1>2, <1>8 DEF ViewOk, Late
    <2>7. Awaits(v)
      BY <2>5, <2>6 DEF Awaits
    <2> QED BY <1>1, <1>2, <2>1, <2>6, <2>7, UnfinishedRounds
  <1>9. CASE LastWorkNode # "author"
    <2> DEFINE n == LastWorkNode
               text == IF Kinds({"critic"}) # {} THEN log[Newest({"critic"})].text
                       ELSE InterruptedCandidate
    <2>1. n # "none" /\ n \in {"critic", "convention", "latex"} /\ Rebuilt = InterruptedStage(n)
      <3>1. Rebuilt = IF n = "none" THEN Nothing ELSE InterruptedStage(n)
        BY <1>9, Zenon DEF Rebuilt
      <3>2. n \in Nodes \cup {"none"}
        BY <1>2 DEF Views
      <3> QED BY <1>9, <3>1, <3>2 DEF Nodes
    <2>2. \/ /\ n = "latex" \/ v.decisive = "convention"
             /\ Rebuilt = At("latex", Input(finalInput))
          \/ n # "latex" /\ v.decisive = "approved" /\ Rebuilt = At("convention", Input(text))
          \/ /\ v.decisive = "critic" /\ n # "latex" /\ Asked
             /\ Rebuilt = At("author", [Input(critique.text) EXCEPT !.report = "reject"])
          \/ /\ n # "latex" /\ v.decisive \notin {"convention", "approved"}
             /\ Rebuilt = At("critic", InterruptedVisit(Input(InterruptedCandidate)))
      <3> DEFINE last == IF Kinds(Decisive) = {} THEN "none" ELSE log[Newest(Decisive)].kind
      <3>1. InterruptedStage(n) =
              CASE n = "latex" \/ last = "convention" ->
                     IF "writing" \in stages THEN At("latex", Input(finalInput)) ELSE Nothing
                [] n # "latex" /\ last = "approved" -> At("convention", Input(text))
                [] n # "latex" /\ last = "critic" /\ critique.verdict = "reject" ->
                     IF "author" \in stages
                     THEN At("author", [Input(critique.text) EXCEPT !.report = "reject"]) ELSE Nothing
                [] OTHER -> At("critic", InterruptedVisit(Input(InterruptedCandidate)))
        BY Zenon DEF InterruptedStage
      <3>2. last = v.decisive
        BY <1>2 DEF LastDecisive
      <3> HIDE DEF last, n, text
      <3>3. CASE n = "latex" \/ last = "convention"
        BY <2>1, <3>1, <3>2, <3>3
      <3>4. CASE n # "latex" /\ last = "approved"
        BY <2>1, <3>1, <3>2, <3>4
      <3>5. CASE n # "latex" /\ last = "critic" /\ critique.verdict = "reject"
        BY <2>1, <3>1, <3>2, <3>5 DEF Asked
      <3>6. CASE n # "latex" /\ last \notin {"convention", "approved"} /\ ~ (last = "critic" /\ critique.verdict = "reject")
        BY <2>1, <3>1, <3>2, <3>6
      <3> QED BY <3>3, <3>4, <3>5, <3>6
    <2>3. ~Awaits(v)
      BY <1>2, <2>1 DEF Awaits
    <2>4. Current(Text(v))
      BY <1>2, <1>3, <2>3 DEF PlaceOk
    <2>5. Kinds({"critic"}) # {} => text = v.answer
      BY <1>2 DEF TextOf, Shown
    <2>6. v.answer # 0 => text = v.answer /\ Text(v) = v.answer
      <3>1. v.answer # 0 => Kinds({"critic"}) # {}
        BY <1>2 DEF TextOf, Shown
      <3> QED BY <2>5, <3>1 DEF Text
    <2> HIDE DEF text
    <2>7. CASE (n = "latex" \/ v.decisive = "convention") /\ Rebuilt = At("latex", Input(finalInput))
      <3>1. Rebuilt.node = "latex" /\ Rebuilt.st = Input(finalInput) /\ Input(finalInput).sol # 0
        BY <1>5, <2>7
      <3>2. Rebuilt.st.sol = finalInput /\ Rebuilt.st.captured = 0 /\ finalInput # 0
        BY <1>6, <3>1
      <3>3. Approved(v)
        BY <1>2, <2>7 DEF ViewOk, Approved, Late
      <3>4. finalInput # InFile /\ Current(finalInput)
        BY <1>2, <1>3, <3>2, <3>3 DEF ServerOk
      <3> QED BY <1>1, <1>7, <2>3, <3>1, <3>2, <3>3, <3>4 DEF Continues, InReview, Late
    <2>8. CASE n # "latex" /\ v.decisive = "approved" /\ Rebuilt = At("convention", Input(text))
      <3>1. Rebuilt.node = "convention" /\ Rebuilt.st = Input(text)
        BY <1>5, <2>8
      <3>2. Rebuilt.st.sol = text /\ Rebuilt.st.captured = 0
        BY <1>6, <3>1
      <3>3. Approved(v)
        BY <2>8 DEF Approved
      <3>4. v.answer # 0 /\ v.answer \in 0 .. made /\ (Asked => v.first # 0)
        BY <1>2, <2>1, <2>8, <3>3 DEF ViewOk, InReview
      <3>5. text = Text(v) /\ text # InFile
        BY <2>6, <3>4, TextFacts
      <3> QED BY <1>1, <1>7, <2>3, <2>4, <3>1, <3>2, <3>3, <3>4, <3>5 DEF Continues, InReview, Late, Same
    <2>9. CASE /\ v.decisive = "critic" /\ n # "latex" /\ Asked
               /\ Rebuilt = At("author", [Input(critique.text) EXCEPT !.report = "reject"])
      <3>1. Rebuilt.node = "author" /\ Rebuilt.st = [Input(critique.text) EXCEPT !.report = "reject"]
        BY <1>5, <2>9
      <3>2. Rebuilt.st.captured = 0
        BY <1>6, <3>1
      <3>3. ~Approved(v) /\ v.last # "author"
        BY <1>2, <2>9 DEF Approved, ViewOk
      <3> QED BY <1>1, <1>7, <2>9, <3>1, <3>2, <3>3 DEF Continues, InReview, Late
    <2>10. CASE /\ n # "latex" /\ v.decisive \notin {"convention", "approved"}
                /\ Rebuilt = At("critic", InterruptedVisit(Input(InterruptedCandidate)))
      <3>1. /\ Rebuilt.node = "critic" /\ Rebuilt.st = InterruptedVisit(Input(InterruptedCandidate))
            /\ Rebuilt.st.sol # 0
        BY <1>5, <2>10
      <3>2. ~Approved(v)
        BY <2>10 DEF Approved
      <3>3. v.node = "critic"
        BY <1>2, <2>1, <3>2 DEF ViewOk, Late
      <3>4. v.last # "approved"
        BY <1>2, <2>10 DEF ViewOk
      <3>5. v.open # "none"
        BY <1>4, <3>3, <3>4 DEF VisitOk
      <3> QED BY <1>1, <1>2, <3>1, <3>3, <3>5, CriticRebuilt
    <2> QED BY <2>2, <2>7, <2>8, <2>9, <2>10
  <1> QED BY <1>8, <1>9

LEMMA RestartRounds ==
    ASSUME Typed, NEW w, Tracks(w), Rounds(w), Restart
    PROVE  \E u : Tracks(u)' /\ Rounds(u)'
  <1>1. Typed'
    BY RestartTyped
  <1>2. /\ phase = "down" /\ UNCHANGED <<pipe, trace, reader, refused, finalInput, pc>> /\ TextsStay
        /\ \/ UNCHANGED ckpt /\ phase' = "done"
           \/ /\ ckpt.status \in {"paused", "pausing"}
              /\ phase' = "paused" /\ ckpt' = [ckpt EXCEPT !.status = "paused"]
           \/ /\ ckpt.status \notin {"paused", "pausing"}
              /\ Rebuilt # Nothing /\ Stops(Rebuilt)
    BY RestartIs DEF runner, history, TextsStay
  <1>3. Len(pipe) \in Nat /\ w[0] = Now
    BY TrackIs
  <1>4. ServerOk(Now) /\ ViewOk(Now) /\ PlaceOk(w, 0) /\ TextsOk
    BY <1>3 DEF Rounds
  <1>5. pipe = <<>> /\ pc' = "off" /\ ckpt.status # "pausing"
    BY <1>2, <1>4 DEF ServerOk
  <1>6. CASE UNCHANGED ckpt /\ phase' = "done"
    BY <1>1, <1>2, <1>5, <1>6, DoneRounds
  <1>7. CASE /\ ckpt.status \in {"paused", "pausing"}
             /\ phase' = "paused" /\ ckpt' = [ckpt EXCEPT !.status = "paused"]
    <2>1. Stops(ckpt)
      BY <1>7 DEF Stops, Typed, ServerTyped
    <2>2. Continues(ckpt, Now)
      BY <1>2, <1>4, <1>5, <1>7 DEF ServerOk
    <2> QED BY <1>1, <1>2, <1>5, <2>1, <2>2, StopsRounds
  <1>8. CASE /\ ckpt.status \notin {"paused", "pausing"}
             /\ Rebuilt # Nothing /\ Stops(Rebuilt)
    <2>1. ckpt.status \in {"none", "running"}
      BY <1>8 DEF Typed, ServerTyped
    <2>2. Continues(Rebuilt, Now)
      BY <1>2, <1>4, <1>5, <1>8, <2>1, RebuiltRounds
    <2> QED BY <1>1, <1>2, <1>5, <1>8, <2>2, StopsRounds
  <1> QED BY <1>2, <1>6, <1>7, <1>8

\* The place of a view whose pipe stays.
LEMMA PlaceIdle ==
    ASSUME TextsStay, pipe' = pipe, NEW w, NEW u, NEW i, PlaceOk(w, i), Idle(u[i], w[i])
    PROVE  PlaceOk(u, i)' /\ (Behind(w, i) => Behind(u, i)')
  <1> DEFINE a == u[i]
             b == w[i]
  <1>1. /\ Awaits(a)' = Awaits(a) /\ Text(a)' = Text(a)
        /\ \A p : Current(p)' = Current(p)
        /\ made' = made /\ Asked' = Asked
    BY StaysIs, ViewPartsStay
  <1>2. Awaits(a) = Awaits(b) /\ Text(a) = Text(b) /\ a.answer = b.answer /\ a.handed = b.handed /\ a.last = b.last
    BY IdleSame DEF Idle
  <1> HIDE DEF a, b
  <1>3. PlaceOk(w, i) /\ u[i] = a /\ w[i] = b
    BY DEF a, b
  <1>4. Final(i)' = Final(i)
    BY DEF Final
  <1>5. Behind(w, i) => Behind(u, i)'
    BY <1>1, <1>2, <1>3 DEF Behind, Awaits
  <1>6. Final(i)' /\ (~Awaits(a))' => Current(Text(a))' /\ (a.handed # 0 => Current(a.handed)')
    BY <1>1, <1>2, <1>3, <1>4 DEF PlaceOk
  <1> QED BY <1>1, <1>2, <1>3, <1>4, <1>5, <1>6 DEF PlaceOk, Awaits, Text

LEMMA PauseRounds ==
    ASSUME Typed, NEW w, Tracks(w), Rounds(w), Pause, ~cutShort'
    PROVE  \E u : Tracks(u)' /\ Rounds(u)'
  <1>1. Typed'
    BY PauseTyped
  <1>2. /\ phase = "running" /\ at = "author" /\ phase' = "pausing" /\ pc # "dead"
        /\ ckpt' = [status |-> "pausing", node |-> "author", st |-> PauseState]
        /\ pipe' = pipe /\ UNCHANGED <<trace, reader, refused, finalInput>> /\ RunnerRests /\ stages' = stages
    BY DEF Pause
  <1>3. /\ UNCHANGED <<log, at, stepInput, passed, refused, submitted, critique, result, failed>>
        /\ UNCHANGED <<pc, node, st, visits, verify, previous, before>> /\ TextsStay
    BY <1>2 DEF trace, reader, RunnerRests, runner, TextsStay
  <1>4. Stopped' /\ ckpt'.status = "pausing" /\ ckpt'.node = "author" /\ ckpt'.st = PauseState
    BY <1>2 DEF Stopped
  <1>5. PauseState.captured = 0
    BY BlankIs DEF PauseState, WithRejection, Blank
  <1>6. PICK u : Tracks(u)' /\ \A i \in 0 .. Len(pipe) : u[i] = Halted(w[i])
    BY <1>1, <1>2, <1>3, <1>4, TrackHalts
  <1>7. Len(pipe) \in Nat /\ \A i \in 0 .. Len(pipe) : w[i] \in Views
    BY TrackIs
  <1>8. ASSUME NEW i \in 0 .. Len(pipe)
        PROVE  Idle(u[i], w[i]) /\ u[i].input = w[i].input /\ u[i].at = w[i].at
    BY <1>6, <1>7, HaltedIdle
  <1>9. Len(pipe') = Len(pipe)
    BY <1>2
  <1>10. /\ TextsOk /\ InFile \notin approved
         /\ \A i \in 0 .. Len(pipe) : ViewOk(w[i]) /\ PlaceOk(w, i)
         /\ \A j \in 1 .. Len(pipe) : SentOk(w, j)
         /\ ServerOk(w[0]) /\ RunnerOk(w, w[Len(pipe)])
    BY DEF Rounds
  <1>11. ASSUME NEW i \in 0 .. Len(pipe') PROVE ViewOk(u[i])' /\ PlaceOk(u, i)'
    <2>1. ViewOk(w[i]) /\ PlaceOk(w, i) /\ Idle(u[i], w[i]) /\ u[i].input = w[i].input /\ u[i].at = w[i].at
      BY <1>8, <1>9, <1>10
    <2>2. ViewOk(u[i])
      BY <2>1, IdleOk DEF ViewOk
    <2>3. ViewOk(u[i])'
      BY <1>2, <1>3, <2>2, ViewAsBefore
    <2> QED BY <1>2, <1>3, <2>1, <2>3, PlaceIdle
  <1>12. ASSUME NEW j \in 1 .. Len(pipe') PROVE SentOk(u, j)'
    <2>1. SentOk(w, j) /\ j \in 0 .. Len(pipe) /\ j - 1 \in 0 .. Len(pipe)
      BY <1>7, <1>9, <1>10
    <2>2. Idle(u[j], w[j]) /\ Idle(u[j - 1], w[j - 1])
      BY <1>8, <2>1
    <2>3. \A c : Continues(c, u[j])' = Continues(c, w[j])
      BY <1>3, <2>2, IdleSame, ViewPartsStay
    <2>4. Approved(u[j - 1])' = Approved(w[j - 1]) /\ u[j - 1].last = w[j - 1].last
          /\ u[j - 1].verdict = w[j - 1].verdict
      BY <2>2, IdleSame DEF Approved, Idle
    <2> QED BY <1>2, <1>3, <2>1, <2>3, <2>4 DEF SentOk
  <1>13. PICK a : a = u[0]
    OBVIOUS
  <1>14. ServerOk(a)'
    <2>1. Idle(a, w[0]) /\ 0 \in 0 .. Len(pipe)
      BY <1>7, <1>8, <1>13
    <2>2. Approved(a)' = Approved(w[0])
      BY <2>1, IdleSame DEF Approved
    <2>3. Final(0)' => Final(0)
      BY <1>2 DEF Final
    <2>4. Current(finalInput)' = Current(finalInput)
      BY <1>2, <1>3, StaysIs DEF Current
    <2> QED BY <1>2, <1>3, <1>4, <1>5, <1>10, <2>2, <2>3, <2>4, TextFacts DEF ServerOk, InFile
  <1>15. PICK v : v = u[Len(pipe)]
    OBVIOUS
  <1>16. PICK x : x = w[Len(pipe)]
    OBVIOUS
  <1>17. Idle(v, x) /\ v.input = x.input /\ v.at = x.at /\ RunnerOk(w, x)
    BY <1>7, <1>8, <1>10, <1>15, <1>16
  <1>18. /\ Awaits(v)' = Awaits(x) /\ Text(v)' = Text(x) /\ Approved(v)' = Approved(x) /\ Fixes(v)' = Fixes(x)
         /\ \A p : Current(p)' = Current(p)
         /\ \A p, q : Same(p, q)' = Same(p, q)
         /\ \A p, k, check : Round(p, k, check)' = Round(p, k, check)
         /\ \A c : Continues(c, v)' = Continues(c, x)
         /\ UNCHANGED <<made, edits, proofFile>> /\ Asked' = Asked
    BY <1>3, <1>17, IdleSame, ViewPartsStay, StaysIs
  <1>19. /\ v.node = x.node /\ v.last = x.last /\ v.first = x.first /\ v.answer = x.answer
         /\ v.handed = x.handed /\ v.open = x.open /\ v.verdict = x.verdict
    BY <1>17 DEF Idle
  <1>20. ASSUME Working PROVE StepOk(u, v)' /\ (node = "critic" => CriticOk(u, v)')
    <2>1. StepOk(w, x) /\ (node = "critic" => CriticOk(w, x))
      BY <1>17, <1>20 DEF RunnerOk
    <2>2. node = "author" => (\A i \in 0 .. Len(pipe) : Behind(u, i))'
      <3> SUFFICES ASSUME node = "author", NEW i \in 0 .. Len(pipe) PROVE Behind(u, i)'
        BY <1>9
      <3> QED BY <1>2, <1>3, <1>8, <1>10, <2>1, PlaceIdle DEF StepOk
    <2>3. Same(Text(v), st.sol)' = Same(Text(x), st.sol) /\ Current(st.sol)' = Current(st.sol)
      BY <1>3, <1>18 DEF Same, Current
    <2>4. StepOk(u, v)'
      BY <1>2, <1>3, <1>18, <1>19, <2>1, <2>2, <2>3 DEF StepOk, InFile
    <2>5. \A t : Older(w, t) => Older(u, t)'
      BY <1>8, <1>9 DEF Older, Idle
    <2>6. ASSUME node = "critic" PROVE CriticOk(u, v)'
      <3>1. CriticOk(w, x)
        BY <2>1, <2>6
      <3>2. Foremost(u)'
        <4>1. Older(w, proofFile) => Older(u, proofFile)'
          BY <1>8, <1>9, <1>18 DEF Older, Idle
        <4>2. Older(w, st.sol) => Older(u, st.sol)'
          BY <1>3, <1>8, <1>9 DEF Older, Idle
        <4> QED BY <1>3, <1>18, <3>1, <4>1, <4>2 DEF CriticOk, Foremost, InFile
      <3>3. /\ Round(st.sol, visits, verify)' = Round(st.sol, visits, verify)
            /\ Round(st.sol, visits - 1, verify)' = Round(st.sol, visits - 1, verify)
        BY <1>3, <1>18 DEF Round
      <3> QED BY <1>3, <1>18, <1>19, <3>1, <3>2, <3>3 DEF CriticOk, InFile, Proofs
    <2> QED BY <2>4, <2>6
  <1>21. RunnerOk(u, v)'
    <2>1. Working' => StepOk(u, v)' /\ ((node = "critic")' => CriticOk(u, v)')
      BY <1>3, <1>20 DEF Working
    <2>2. (pc \in {"write", "model"} => v.input = [node |-> node, st |-> StepVisit(st, node, visits, verify)])'
      BY <1>3, <1>17 DEF RunnerOk, StepVisit
    <2>3. pc = "exited" => RoundEnded(v)'
      BY <1>2, <1>3, <1>17 DEF RunnerOk, RoundEnded
    <2> QED BY <1>2, <1>3, <1>17, <1>18, <1>19, <2>1, <2>2, <2>3 DEF RunnerOk, Working
  <1>22. ServerOk(u[0])' /\ RunnerOk(u, u[Len(pipe)])'
    <2>1. u[Len(pipe)]' = v
      BY <1>2, <1>15
    <2> QED BY <1>13, <1>14, <1>21, <2>1 DEF ServerOk, Continues, Approved, RunnerOk, StepOk, CriticOk, Foremost, RoundEnded
  <1>23. TextsOk' /\ InFile \notin approved'
    BY <1>3, <1>10, StaysIs
  <1> QED BY <1>6, <1>11, <1>12, <1>22, <1>23 DEF Rounds

LEMMA KillRounds ==
    ASSUME Typed, NEW w, Tracks(w), Rounds(w), Kill, ~cutShort', ~gap'
    PROVE  \E u : Tracks(u)' /\ Rounds(u)'
  <1>1. /\ Working /\ pc' = "dead" /\ phase = "running" /\ pc \in {"work", "write", "model"}
        /\ UNCHANGED <<ckpt, trace, pipe, phase, reader, refused, finalInput>> /\ TextsStay
    BY Zenon DEF Kill, files, BetweenSteps, TextsStay
  <1>2. /\ UNCHANGED <<log, at, stepInput, passed, refused, submitted, critique, ckpt>>
        /\ pipe' = pipe /\ phase' = phase
    BY <1>1 DEF trace, reader
  <1>3. Stopped' = Stopped
    BY <1>2 DEF Stopped
  <1>4. Tracks(w)'
    BY <1>2, <1>3, NowSame, TrackSame
  <1>5. PICK x : x = w[Len(pipe)]
    OBVIOUS
  <1>6. /\ x \in Views /\ TextsOk /\ InFile \notin approved /\ StepOk(w, x) /\ (node = "critic" => CriticOk(w, x))
        /\ RunnerOk(w, x) /\ Len(pipe) \in Nat
        /\ \A j \in 1 .. Len(pipe) : pipe[j].kind # "paused"
        /\ \A i \in 0 .. Len(pipe) : ViewOk(w[i]) /\ PlaceOk(w, i)
    BY <1>1, <1>5, StepRounds
  <1>7. ServerOk(w[0]) /\ \A j \in 1 .. Len(pipe) : SentOk(w, j)
    BY DEF Rounds
  <1>8. ASSUME NEW i \in 0 .. Len(pipe') PROVE ViewOk(w[i])' /\ PlaceOk(w, i)'
    <2>1. ViewOk(w[i]) /\ PlaceOk(w, i)
      BY <1>2, <1>6
    <2>2. Idle(w[i], w[i])
      BY DEF Idle
    <2> QED BY <1>1, <1>2, <2>1, <2>2, ViewAsBefore, PlaceIdle
  <1>9. \A j \in 1 .. Len(pipe') : SentOk(w, j)'
    BY <1>2, <1>6, <1>7 DEF SentOk, Approved
  <1>10. ServerOk(w[0])'
    <2>1. Current(finalInput)' = Current(finalInput)
      BY <1>1, StaysIs DEF Current
    <2>2. Final(0)' = Final(0)
      BY <1>2 DEF Final
    <2> QED BY <1>1, <1>2, <1>7, <2>1, <2>2 DEF ServerOk, Approved, InFile
  <1>11. IF x.at = "author" THEN Awaits(x) /\ ~Approved(x)
         ELSE x.at = x.input.node /\ Continues(x.input, x)
    <2>1. CASE pc = "work"
      BY <1>6, <2>1 DEF RunnerOk, StepOk, Late
    <2>2. CASE pc \in {"write", "model"}
      <3>1. /\ node # "author" /\ x.at = node
            /\ x.input.node = node /\ x.input.st = StepVisit(st, node, visits, verify)
        BY <1>6, <2>2 DEF RunnerOk
      <3>2. st \in States /\ node \in Nodes /\ visits \in Nat /\ verify \in BOOLEAN
        BY StepFacts
      <3>3. PICK c : c = x.input
        OBVIOUS
      <3>4. CASE node = "critic"
        <4>1. visits >= 1 /\ Round(st.sol, visits - 1, verify) /\ Fixes(x)
          BY <1>6, <2>2, <3>4 DEF CriticOk
        <4>2. PICK k \in Nat : k = visits - 1 /\ visits = k + 1
          BY <3>2, <4>1
        <4>3. Round(st.sol, k, verify) /\ c.node = node /\ c.st = StepVisit(st, node, k + 1, verify)
          BY <3>1, <3>3, <4>1, <4>2
        <4>4. Continues(c, x)
          BY <1>6, <3>4, <4>1, <4>3, VisitContinues
        <4> QED BY <3>1, <3>3, <4>4
      <3>5. CASE node # "critic"
        <4>1. c.node = node /\ c.st.sol = st.sol /\ c.st.captured = st.captured
          BY <3>1, <3>2, <3>3, StepVisitIs, VisitIs
        <4>2. Continues(c, x)
          BY <1>6, <3>1, <3>5, <4>1 DEF Continues, StepOk
        <4> QED BY <3>1, <3>3, <4>2
      <3> QED BY <3>4, <3>5
    <2> QED BY <1>1, <2>1, <2>2
  <1>12. RunnerOk(w, x)'
    <2>1. /\ Awaits(x)' = Awaits(x) /\ Approved(x)' = Approved(x)
          /\ \A c : Continues(c, x)' = Continues(c, x)
      BY <1>1, ViewPartsStay
    <2> QED BY <1>1, <1>11, <2>1 DEF RunnerOk, Working
  <1>13. RunnerOk(w, w[Len(pipe)])'
    <2>1. w[Len(pipe)]' = x
      BY <1>2, <1>5
    <2> QED BY <1>12, <2>1 DEF RunnerOk, StepOk, CriticOk, Foremost, RoundEnded, Continues, Awaits, Approved
  <1>14. TextsOk' /\ InFile \notin approved'
    BY <1>1, <1>6, StaysIs
  <1> QED BY <1>4, <1>8, <1>9, <1>10, <1>13, <1>14 DEF Rounds

LEMMA CrashRounds ==
    ASSUME Typed, NEW w, Tracks(w), Rounds(w), Crash, ~cutShort', ~gap'
    PROVE  \E u : Tracks(u)' /\ Rounds(u)'
  <1>1. Typed'
    BY FaultTyped
  <1>2. /\ phase' = "down" /\ pc' = "off" /\ pipe' = <<>> /\ phase # "pausing" /\ phase # "down" /\ phase # "done"
        /\ UNCHANGED <<files, trace, reader, refused>> /\ TextsStay /\ ~LogBetweenSteps
        /\ \A i, j \in DOMAIN pipe : ~ (pipe[i].kind = "critic" /\ (pipe[i].edited \/ pipe[j].kind = "author"))
    BY Zenon DEF Crash, TextsStay, files
  <1>3. UNCHANGED <<log, at, stepInput, passed, refused, submitted, critique, ckpt, finalInput>>
    BY <1>2 DEF trace, reader, files
  <1>4. Stopped' = Stopped
    BY <1>3 DEF Stopped
  <1>5. PICK u : Tracks(u)' /\ u[0] = Now' /\ Len(pipe') = 0
    BY <1>1, <1>2, TrackEmpty
  <1>6. u[0] = w[0] /\ w[0] = Now /\ Len(pipe) \in Nat
    BY <1>3, <1>4, <1>5, NowSame, TrackIs
  <1>7. PICK v : v = w[0]
    OBVIOUS
  <1>8. ViewOk(v) /\ PlaceOk(w, 0) /\ ServerOk(v) /\ TextsOk /\ InFile \notin approved /\ v.last = LastKind
    BY <1>6, <1>7 DEF Rounds, Now
  <1>9. phase \in {"running", "paused"}
    BY <1>2 DEF Typed, ServerTyped
  <1>10. v.last # "critic"
    BY <1>2, <1>8 DEF LastKind, LogBetweenSteps
  <1>11. Awaits(v) \/ Final(0)
    <2> SUFFICES ASSUME ~Final(0) PROVE Awaits(v)
      OBVIOUS
    <2>1. Behind(w, 0) /\ \E j \in DOMAIN pipe : pipe[j].kind = "author"
      BY <1>8 DEF PlaceOk, Final
    <2> QED BY <1>2, <1>7, <1>10, <2>1 DEF Behind
  <1>12. ~Asked /\ v.answer = 0 => made = 1
    BY <1>2, <1>7, <1>8 DEF PlaceOk
  <1>13. /\ Awaits(v)' = Awaits(v) /\ Text(v)' = Text(v) /\ Approved(v)' = Approved(v)
         /\ \A p : Current(p)' = Current(p)
         /\ \A c : Continues(c, v)' = Continues(c, v)
         /\ made' = made /\ Asked' = Asked
    BY <1>2, ViewPartsStay, StaysIs
  <1>14. ViewOk(v)'
    <2>1. CASE phase = "running"
      BY <1>2, <1>3, <1>8, <2>1, ViewAsBefore
    <2>2. CASE phase = "paused"
      BY <1>2, <1>3, <1>8, <2>2, ViewAsBefore DEF ServerOk
    <2> QED BY <1>9, <2>1, <2>2
  <1>15. DOMAIN pipe' = {} /\ Final(0)'
    BY <1>2 DEF Final
  <1>16. PlaceOk(u, 0)'
    <2>1. (~Awaits(v))' => Current(Text(v))' /\ (v.handed # 0 => Current(v.handed)')
      BY <1>7, <1>8, <1>11, <1>13 DEF PlaceOk
    <2> QED BY <1>6, <1>7, <1>12, <1>13, <1>15, <2>1 DEF PlaceOk, Awaits, Text
  <1>17. ServerOk(v)'
    <2>1. Approved(v) => finalInput = 0 \/ (finalInput # InFile /\ Current(finalInput))
      <3>1. Approved(v) => ~Awaits(v)
        BY <1>8 DEF ViewOk, Awaits, Late
      <3> QED BY <1>8, <1>11, <3>1 DEF ServerOk
    <2>2. Current(finalInput)' = Current(finalInput)
      BY <1>2, <1>3, StaysIs DEF Current
    <2>3. ckpt.status # "pausing" /\ (ckpt.status = "paused" => Continues(ckpt, v))
      BY <1>8, <1>9 DEF ServerOk
    <2>4. (Continues(ckpt, v))' <=> Continues(ckpt, v)
      <3>1. PICK c : c = ckpt
        OBVIOUS
      <3>2. Continues(c, v)' <=> Continues(c, v)
        BY <1>13
      <3>3. (Continues(ckpt, v))' <=> Continues(c, v)'
        BY <1>3, <3>1 DEF Continues
      <3> QED BY <3>1, <3>2, <3>3
    <2>5. ckpt' = ckpt /\ pc' = "off" /\ pipe' = <<>> /\ phase' = "down" /\ finalInput' = finalInput
      BY <1>2, <1>3
    <2> QED BY <1>8, <1>10, <1>13, <1>15, <2>1, <2>2, <2>3, <2>4, <2>5 DEF ServerOk, InFile
  <1>18. \A i \in 0 .. Len(pipe') : ViewOk(u[i])' /\ PlaceOk(u, i)'
    BY <1>5, <1>6, <1>7, <1>14, <1>16
  <1>19. \A j \in 1 .. Len(pipe') : SentOk(u, j)'
    BY <1>5
  <1>20. ServerOk(u[0])' /\ RunnerOk(u, u[Len(pipe)])'
    BY <1>2, <1>6, <1>7, <1>17 DEF ServerOk, Continues, Approved, RunnerOk, Working
  <1>21. TextsOk' /\ InFile \notin approved'
    BY <1>2, <1>8, StaysIs
  <1> QED BY <1>5, <1>18, <1>19, <1>20, <1>21 DEF Rounds

-----------------------------------------------------------------------------
(* The rounds: from the start of a run on *)

LEMMA InitRounds == Init => \E w : Tracks(w) /\ Rounds(w)
  <1> SUFFICES ASSUME Init PROVE \E w : Tracks(w) /\ Rounds(w)
    OBVIOUS
  <1>1. Typed
    BY InitTyped
  <1>2. pipe = <<>> /\ log = <<>> /\ Len(pipe) = 0 /\ DOMAIN pipe = {}
    BY EmptySeq DEF Init
  <1>3. Now \in Views
    BY <1>1, NowTyped
  <1>4. PICK w : w = [i \in {0} |-> Now]
    OBVIOUS
  <1>5. PICK v : v = Now
    OBVIOUS
  <1>6. w \in [0 .. 0 -> Views] /\ w[0] = v /\ v \in Views
    BY <1>3, <1>4, <1>5
  <1>7. Tracks(w)
    BY <1>2, <1>5, <1>6 DEF Tracks
  <1>8. \A ks : Kinds(ks) = {}
    BY <1>2 DEF Kinds
  <1>9. Stopped = FALSE /\ ckpt = NoCkpt /\ stepInput = Nothing
    BY DEF Stopped, NoCkpt, Init
  <1>10. /\ v.node = "none" /\ v.at = at /\ v.last = "none" /\ v.open = "none" /\ v.visit = 0 /\ v.check = FALSE
         /\ v.decisive = "none" /\ v.first = 0 /\ v.answer = 0 /\ v.handed = 0 /\ v.gave = FALSE
         /\ v.input = Nothing /\ v.stopped = FALSE
    BY <1>2, <1>5, <1>8, <1>9 DEF Now, LastWorkNode, LastKind, OpenVisit, OpenNumber, OpenCheck, LastDecisive,
                                 Shown, TextOf
  <1>11. /\ pc = "top" /\ visits = 0 /\ verify = FALSE /\ previous = "none" /\ before = Blank
         /\ proofFile = 0 /\ saved = made /\ finalInput = 0 /\ phase = "running" /\ at = node
         /\ newest = made /\ approved = {} /\ st = [Blank EXCEPT !.sol = made]
         /\ edits = [p \in Texts |-> 0] /\ root = [p \in Texts |-> p]
         /\ node = (IF Asked THEN "author" ELSE "critic") /\ made = IF Asked THEN 0 ELSE 1
    BY DEF Init, Asked, Texts
  <1>12. /\ st.sol = made /\ st.captured = 0 /\ st.visit = 0 /\ st.verify = FALSE /\ before.captured = 0
         /\ ckpt.st.captured = 0 /\ ckpt.status = "none" /\ v.input.st.captured = 0
    BY <1>9, <1>10, <1>11 DEF Blank, NoCkpt, Nothing
  <1>13. /\ MaxProofs \in Nat /\ InFile = MaxProofs + 1 /\ MaxProofs >= 1 /\ Proofs = 1 .. MaxProofs
         /\ Limit \in Nat /\ Limit >= 1 /\ Texts = 0 .. InFile
    BY <1>1, TextFacts
  <1>14. Text(v) = 1 /\ ~Approved(v) /\ (Asked => Awaits(v)) /\ Working
    BY <1>10, <1>11 DEF Text, Approved, Awaits, Working
  <1>15. ~Asked => 1 \in Proofs /\ Current(1) /\ edits[1] = 0
    BY <1>11, <1>13 DEF Current
  <1>16. TextsOk
    BY <1>11, <1>13 DEF TextsOk
  <1>17. ViewOk(v)
    BY <1>10, <1>11, <1>12, <1>13, <1>14 DEF ViewOk, VisitOk, HandedOk, InReview, Late
  <1>18. PlaceOk(w, 0)
    BY <1>2, <1>6, <1>10, <1>11, <1>14, <1>15 DEF PlaceOk, Final, Awaits
  <1>19. ServerOk(v)
    BY <1>11, <1>12, <1>13, <1>14 DEF ServerOk
  <1>20. StepOk(w, v)
    BY <1>2, <1>6, <1>10, <1>11, <1>12, <1>13, <1>14, <1>15 DEF StepOk, Late, InReview, Same, Behind, Awaits
  <1>21. node = "critic" => CriticOk(w, v)
    <2> SUFFICES ASSUME ~Asked PROVE CriticOk(w, v)
      BY <1>11
    <2>1. Round(st.sol, visits, verify)
      BY <1>11, <1>12, <1>13, <1>15 DEF Round
    <2>2. Foremost(w)
      BY <1>2, <1>6, <1>10, <1>11, <1>12, <1>13 DEF Foremost, Older
    <2> QED BY <1>10, <1>11, <2>1, <2>2 DEF CriticOk, Fixes
  <1>22. RunnerOk(w, v)
    BY <1>11, <1>20, <1>21 DEF RunnerOk
  <1> QED BY <1>2, <1>6, <1>7, <1>11, <1>16, <1>17, <1>18, <1>19, <1>22 DEF Rounds

\* The stages of a run are fixed.
LEMMA StagesStay == [Next]_vars => stages' = stages
  <1> SUFFICES ASSUME [Next]_vars PROVE stages' = stages
    OBVIOUS
  <1>1. CASE UNCHANGED vars
    BY <1>1 DEF vars
  <1>2. CASE Runner
    <2>1. RunnersOwn
      BY <1>2, Zenon DEF Runner, BeginStep, AuthorSubmits, AuthorPauses, Prepare, ReportInput, SaveCandidate,
             CriticPasses, CriticFixes, CriticRejects, CriticAnswers, AfterCritic, Approve, Revise,
             ConventionAnswers, Capture, SaveFinalInput, Publish, StepFails, NoOtherActor, RunnersOwn
    <2> QED BY <2>1, OwnNow
  <1>3. CASE Read
    BY <1>3, Zenon DEF Read
  <1>4. CASE Settle
    BY <1>4, SettleIs
  <1>5. CASE Resume
    BY <1>5, Zenon DEF Resume
  <1>6. CASE Restart
    BY <1>6, RestartIs
  <1>7. CASE Pause
    BY <1>7, Zenon DEF Pause
  <1>8. CASE Kill \/ Crash
    BY <1>8, Zenon DEF Kill, Crash
  <1> QED BY <1>1, <1>2, <1>3, <1>4, <1>5, <1>6, <1>7, <1>8 DEF Next, Server, Fault

RoundsInv == Typed /\ (Reviewed /\ EndedWell => \E w : Tracks(w) /\ Rounds(w))

LEMMA NextRounds == RoundsInv /\ [Next]_vars => RoundsInv'
  <1> SUFFICES ASSUME RoundsInv, [Next]_vars PROVE RoundsInv'
    OBVIOUS
  <1>1. Typed /\ Typed'
    BY NextTyped DEF RoundsInv
  <1>2. stages' = stages
    BY StagesStay
  <1>3. ASSUME Reviewed', EndedWell' PROVE (\E w : Tracks(w) /\ Rounds(w))'
    <2>1. Reviewed /\ ~gap' /\ ~cutShort'
      BY <1>2, <1>3 DEF Reviewed, EndedWell
    <2>2. CASE UNCHANGED vars
      <3>1. /\ UNCHANGED <<log, at, stepInput, passed, refused, submitted, critique, ckpt, pipe, phase, pc, st,
                           node, visits, verify, previous, before, result, failed, cutShort, gap, stages,
                           proofFile, saved, finalInput, made, edits, root, newest, approved>>
        BY <2>2 DEF vars, trace, reader, history, runner, files, texts
      <3>2. Stopped' = Stopped
        BY <3>1 DEF Stopped
      <3>3. PICK w : Tracks(w) /\ Rounds(w)
        BY <2>1, <3>1 DEF RoundsInv, EndedWell
      <3>4. Tracks(w)'
        BY <3>1, <3>2, <3>3, NowSame, TrackSame
      <3>5. TextsOk' /\ \A v : ViewOk(v)' <=> ViewOk(v)
        BY <3>1, <3>3 DEF Rounds, TextsOk, Asked, ViewOk, VisitOk, HandedOk, Fixes, Text, Approved, SavedRound, Round,
                        Before, Same, Proofs, InFile
      <3>6. \A v : ServerOk(v)' <=> ServerOk(v)
        BY <3>1 DEF ServerOk, Continues, Fixes, Text, Approved, Awaits, Asked, SavedRound, Round, Before, Same,
                  Current, Final, Working, Proofs, InFile
      <3>7. \A i : PlaceOk(w, i)' <=> PlaceOk(w, i)
        BY <3>1 DEF PlaceOk, Asked, Final, Awaits, Behind, Current, Text, InFile
      <3>8. \A j : SentOk(w, j)' <=> SentOk(w, j)
        BY <3>1 DEF SentOk, Continues, Fixes, Text, Approved, Awaits, Asked, SavedRound, Round, Before, Same,
                  Current, Proofs, InFile
      <3>9. \A v : RunnerOk(w, v)' <=> RunnerOk(w, v)
        BY <3>1 DEF RunnerOk, StepOk, CriticOk, RoundEnded, Foremost, Older, Continues, Fixes, Text, Approved, Awaits,
                  Asked, SavedRound, Round, Before, Same, Behind, Current, Working, Proofs, InFile
      <3>10. Rounds(w)'
        BY <3>1, <3>3, <3>5, <3>6, <3>7, <3>8, <3>9 DEF Rounds, InFile
      <3> QED BY <3>4, <3>10
    <2>3. CASE Next
      <3>1. PICK w : Tracks(w) /\ Rounds(w)
        BY <1>1, <2>1, <2>3, EndedStays DEF RoundsInv, EndedWell
      <3> QED BY <1>1, <2>1, <2>3, <3>1, RunnerStepRounds, ReadRounds, SettleRounds, ResumeRounds, RestartRounds,
                 PauseRounds, KillRounds, CrashRounds DEF Next, Server, Fault
    <2> QED BY <2>2, <2>3
  <1> QED BY <1>1, <1>3 DEF RoundsInv

-----------------------------------------------------------------------------
(* Runs without a critic *)

\* A record of such a run.
PlainRecord(r) ==
    /\ r.kind \notin {"handoff", "critic", "approved", "convention"}
    /\ r.kind \in {"step", "input", "paused", "resume"} => r.node \notin InReview

PlainPipe == \A j \in DOMAIN pipe : PlainRecord(pipe[j])

\* No actor is, or will ever be, at a critic's or the conventions' step.
Plain ==
    /\ node \notin InReview /\ ckpt.node \notin InReview
    /\ at \notin InReview /\ stepInput.node \notin InReview
    /\ pc \notin {"prepare", "write", "after", "approve", "revise"}
    /\ approved = {} /\ PlainPipe
    /\ \A i \in DOMAIN log : PlainRecord(log[i])

LEMMA EmitPlain ==
    ASSUME Typed, PlainPipe, NEW r \in Records, PlainRecord(r), Emit(r)
    PROVE  PlainPipe'
  BY PipeIs, AppendedIs DEF Typed, PlainPipe

LEMMA PausesPlain ==
    ASSUME Typed, PlainPipe, NEW n \in Nodes, n \notin InReview, NEW s \in States, PausesAt(n, s)
    PROVE  PlainPipe' /\ pc' = "exited"
  <1>1. [kind |-> "paused", node |-> n, st |-> s] \in Records /\ PlainRecord([kind |-> "paused", node |-> n, st |-> s])
    BY DEF Records, PlainRecord
  <1> QED BY <1>1, EmitPlain DEF PausesAt

LEMMA RunnerPlain ==
    ASSUME Typed, ~Reviewed, Plain, Runner
    PROVE  Plain'
  <1>1. UNCHANGED <<ckpt, at, stepInput, log>>
    <2>1. RunnersOwn
      BY Zenon DEF Runner, BeginStep, AuthorSubmits, AuthorPauses, Prepare, ReportInput, SaveCandidate,
             CriticPasses, CriticFixes, CriticRejects, CriticAnswers, AfterCritic, Approve, Revise,
             ConventionAnswers, Capture, SaveFinalInput, Publish, StepFails, NoOtherActor, RunnersOwn
    <2> QED BY <2>1, OwnNow
  <1>2. /\ node \in Nodes /\ st \in States /\ before \in States /\ visits \in Nat /\ verify \in BOOLEAN
        /\ node \notin InReview /\ PlainPipe /\ approved = {}
    BY DEF Typed, StepTyped, Plain
  <1>3. SUFFICES node' \notin InReview /\ approved' = {} /\ PlainPipe'
                 /\ pc' \notin {"prepare", "write", "after", "approve", "revise"}
    BY <1>1 DEF Plain
  <1>4. CASE BeginStep
    <2>1. node' = node /\ approved' = approved
      BY <1>4 DEF BeginStep, texts
    <2>2. CASE request
      <3>1. (IF node = "author" THEN st ELSE StepVisit(st, node, visits + 1, verify)) \in States
        BY <1>2, StepVisitIs
      <3> QED BY <1>2, <1>4, <2>1, <2>2, <3>1, PausesPlain DEF BeginStep
    <2>3. CASE ~request
      <3>1. PICK r : r = [kind |-> "step", node |-> node, visit |-> visits + 1, verify |-> verify]
        OBVIOUS
      <3>2. r \in Records /\ PlainRecord(r)
        BY <1>2, <3>1 DEF Records, PlainRecord
      <3>3. Emit(r) /\ pc' \in {"work", "final_input"}
        BY <1>2, <1>4, <2>3, <3>1 DEF BeginStep, Nodes, InReview
      <3> QED BY <1>2, <2>1, <3>2, <3>3, EmitPlain
    <2> QED BY <2>2, <2>3
  <1>5. CASE AuthorSubmits
    <2>1. node' = node /\ approved' = approved /\ pc' = "capture" /\ st'.sol \in Texts
          /\ Emit([kind |-> "author", text |-> st'.sol])
      <3>1. Typed'
        BY <1>5, AuthorSubmitsTyped
      <3>2. st'.sol \in Texts
        BY <3>1 DEF Typed, StepTyped, States, Texts
      <3> QED BY <1>5, <3>2 DEF AuthorSubmits, Reviewed
    <2>2. PICK r : r = [kind |-> "author", text |-> st'.sol]
      OBVIOUS
    <2>3. r \in Records /\ PlainRecord(r)
      BY <2>1, <2>2 DEF Records, PlainRecord
    <2> QED BY <1>2, <2>1, <2>2, <2>3, EmitPlain
  <1>6. CASE AuthorPauses
    <2>1. node' = node /\ approved' = approved /\ PausesAt("author", st)
      BY <1>6 DEF AuthorPauses, texts, StaysAt
    <2> QED BY <1>2, <2>1, PausesPlain DEF Nodes, InReview
  <1>7. CASE Prepare \/ SaveCandidate \/ AfterCritic \/ Approve \/ Revise
    BY <1>7 DEF Plain, Prepare, SaveCandidate, AfterCritic, Approve, Revise
  <1>8. CASE CriticPasses \/ CriticFixes \/ CriticRejects \/ ConventionAnswers
    BY <1>2, <1>8 DEF CriticPasses, CriticFixes, CriticRejects, CriticAnswers, ConventionAnswers, InReview
  <1>9. CASE ReportInput
    <2>1. PICK s : s = StepVisit(st, node, visits, verify)
      OBVIOUS
    <2>2. s \in States
      BY <1>2, <2>1, StepVisitIs
    <2>3. PICK r : r = [kind |-> "input", node |-> node, st |-> s]
      OBVIOUS
    <2>4. r \in Records /\ PlainRecord(r)
      BY <1>2, <2>2, <2>3 DEF Records, PlainRecord
    <2>5. node' = node /\ approved' = approved /\ Emit(r) /\ pc' = "model"
      BY <1>2, <1>9, <2>1, <2>3 DEF ReportInput, texts, StaysAt, InReview
    <2> QED BY <1>2, <2>4, <2>5, EmitPlain
  <1>10. CASE Capture
    <2>1. approved' = approved
      BY <1>10 DEF Capture, texts
    <2>2. CASE Refuse /\ StaysAt
      <3>1. \E s \in States : PausesAt("author", s)
        <4>1. [(IF previous = "author" THEN before ELSE st) EXCEPT !.note = TRUE] \in States
          BY <1>2 DEF States
        <4> QED BY <2>2, <4>1 DEF Refuse
      <3>2. node' = node
        BY <2>2 DEF StaysAt
      <3> QED BY <1>2, <2>1, <3>1, <3>2, PausesPlain DEF Nodes, InReview
    <2>3. CASE Finish /\ UNCHANGED pipe
      BY <1>2, <2>1, <2>3 DEF Finish, StaysAt, InReview, PlainPipe
    <2> QED BY <1>10, <2>2, <2>3 DEF Capture
  <1>11. CASE SaveFinalInput
    BY <1>2, <1>11 DEF SaveFinalInput, texts, StaysAt, PlainPipe
  <1>12. CASE Publish
    <2>1. PICK r : r = [kind |-> "final", text |-> st.sol]
      OBVIOUS
    <2>2. r \in Records /\ PlainRecord(r)
      BY <1>2, <2>1 DEF Records, PlainRecord, States, Texts
    <2>3. node' = node /\ approved' = approved /\ Emit(r) /\ pc' = "exited"
      BY <1>12, <2>1 DEF Publish, texts, StaysAt
    <2> QED BY <1>2, <2>2, <2>3, EmitPlain
  <1>13. CASE StepFails
    <2>1. PICK s : s = StepVisit(st, node, visits, verify)
      OBVIOUS
    <2>2. s \in States
      BY <1>2, <2>1, StepVisitIs
    <2>3. node' = node /\ approved' = approved /\ PausesAt(node, s)
      BY <1>13, <2>1 DEF StepFails, texts, StaysAt
    <2> QED BY <1>2, <2>2, <2>3, PausesPlain
  <1> QED BY <1>4, <1>5, <1>6, <1>7, <1>8, <1>9, <1>10, <1>11, <1>12, <1>13 DEF Runner

\* What a crash leaves of such a run goes on with the author or the LaTeX editor.
LEMMA RebuiltPlain ==
    ASSUME Typed, Plain
    PROVE  Rebuilt.node \notin InReview
  <1>1. Logs
    BY DEF Typed, ServerTyped
  <1>2. Nothing.node = "none" /\ "none" \notin InReview /\ "author" \notin InReview /\ "latex" \notin InReview
    BY DEF Nothing, InReview
  <1>3. log # <<>> => 1 \in DOMAIN log
    BY <1>1, LenProperties, EmptySeq DEF Logs
  <1>4. LastWorkNode \notin InReview
    <2>1. CASE log = <<>>
      BY <1>2, <2>1 DEF LastWorkNode
    <2>2. CASE log # <<>> /\ Kinds({"step", "resume"}) = {}
      <3>1. log[1].kind \notin {"step", "resume"}
        BY <1>3, <2>2 DEF Kinds
      <3>2. log[1].kind = "author"
        BY <1>1, <1>3, <2>2, <3>1 DEF Logs, Plain, PlainRecord
      <3> QED BY <1>2, <2>2, <3>2 DEF LastWorkNode
    <2>3. CASE log # <<>> /\ Kinds({"step", "resume"}) # {}
      <3>1. PICK i \in DOMAIN log : i = Newest({"step", "resume"}) /\ log[i].kind \in {"step", "resume"}
        BY <1>1, <2>3, NewestIs
      <3>2. log[i].node \notin InReview
        BY <3>1 DEF Plain, PlainRecord
      <3> QED BY <2>3, <3>1, <3>2 DEF LastWorkNode
    <2> QED BY <2>1, <2>2, <2>3
  <1>5. CASE LastWorkNode \in {"author", "none"}
    BY <1>2, <1>5 DEF Rebuilt, Unfinished
  <1>6. CASE LastWorkNode \notin {"author", "none"}
    <2>1. LastWorkNode = "latex"
      <3>1. CASE log = <<>> \/ Kinds({"step", "resume"}) = {}
        BY <1>4, <1>6, <3>1 DEF LastWorkNode, InReview
      <3>2. CASE log # <<>> /\ Kinds({"step", "resume"}) # {}
        <4>1. PICK i \in DOMAIN log : i = Newest({"step", "resume"}) /\ log[i].kind \in {"step", "resume"}
          BY <1>1, <3>2, NewestIs
        <4>2. log[i].node \in Nodes
          BY <1>1, <4>1, EntryIs DEF Entries, Records
        <4> QED BY <1>4, <1>6, <3>2, <4>1, <4>2 DEF LastWorkNode, Nodes, InReview
      <3> QED BY <3>1, <3>2
    <2>2. PICK s : s = Input(finalInput)
      OBVIOUS
    <2>3. InterruptedStage("latex") \in {At("latex", s), Nothing}
      BY <2>2 DEF InterruptedStage
    <2>4. At("latex", s).node \in {"latex", "none"}
      BY DEF At, Nothing
    <2> QED BY <1>2, <1>6, <2>1, <2>3, <2>4 DEF Rebuilt
  <1> QED BY <1>5, <1>6

PlainInv == Typed /\ (~Reviewed => Plain)

LEMMA NextPlain == PlainInv /\ [Next]_vars => PlainInv'
  <1> SUFFICES ASSUME PlainInv, [Next]_vars PROVE PlainInv'
    OBVIOUS
  <1>1. Typed /\ Typed'
    BY NextTyped DEF PlainInv
  <1>2. ASSUME ~Reviewed' PROVE Plain'
    <2>1. ~Reviewed /\ Plain
      BY <1>2, StagesStay DEF PlainInv, Reviewed
    <2>2. CASE UNCHANGED vars
      BY <2>1, <2>2 DEF vars, trace, reader, runner, files, texts, Plain, PlainPipe
    <2>3. CASE Runner
      BY <1>1, <2>1, <2>3, RunnerPlain
    <2>4. CASE Read
      <3>1. PICK r : r = Head(pipe)
        OBVIOUS
      <3>2. /\ pipe # <<>> /\ PipeTyped /\ pipe' = Tail(pipe) /\ log' = Logged(r)
            /\ at' = (IF r.kind = "author" THEN "author"
                      ELSE IF r.kind \in {"step", "paused"} THEN r.node ELSE at)
            /\ stepInput' = (IF r.kind = "input" THEN [node |-> r.node, st |-> r.st] ELSE stepInput)
            /\ ckpt' = (IF r.kind = "paused" THEN [status |-> "pausing", node |-> r.node, st |-> r.st] ELSE ckpt)
            /\ UNCHANGED <<node, pc, approved>>
        BY <1>1, <2>4, <3>1 DEF Read, RunnerRests, runner, texts, Typed
      <3>3. /\ r \in Records /\ r = pipe[1] /\ 1 \in DOMAIN pipe
            /\ \A i \in 1 .. Len(Tail(pipe)) : Tail(pipe)[i] = pipe[i + 1]
            /\ Len(Tail(pipe)) = Len(pipe) - 1 /\ Len(pipe) \in Nat
            /\ DOMAIN pipe = 1 .. Len(pipe) /\ DOMAIN Tail(pipe) = 1 .. Len(Tail(pipe))
        BY <3>1, <3>2, HeadIs, PipeIs, LenProperties
      <3>4. PlainRecord(r)
        BY <2>1, <3>3 DEF Plain, PlainPipe
      <3>5. PlainPipe'
        BY <2>1, <3>2, <3>3 DEF Plain, PlainPipe
      <3>6. \A i \in DOMAIN log' : PlainRecord(log'[i])
        <4>1. log \in Seq(Entries) /\ r \in Entries
          BY <1>1, <3>3 DEF Typed, ServerTyped, Logs, Entries
        <4>2. CASE r.kind = "author"
          <5>1. log' = <<r>>
            BY <3>2, <4>2 DEF Logged
          <5> QED BY <3>4, <5>1
        <4>3. CASE r.kind = "step"
          <5>1. log' = Append(log, r)
            BY <3>2, <4>3 DEF Logged
          <5>2. /\ DOMAIN log' = 1 .. Len(log) + 1 /\ log'[Len(log) + 1] = r /\ Len(log) \in Nat
                /\ DOMAIN log = 1 .. Len(log) /\ \A i \in 1 .. Len(log) : log'[i] = log[i]
            BY <4>1, <5>1, AppendProperties, LenProperties
          <5> QED BY <2>1, <3>4, <5>2 DEF Plain
        <4>4. CASE r.kind \notin {"author", "step"}
          BY <2>1, <3>2, <3>4, <4>4 DEF Logged, Plain, PlainRecord
        <4> QED BY <4>2, <4>3, <4>4
      <3> QED BY <2>1, <3>2, <3>4, <3>5, <3>6 DEF Plain, PlainRecord, InReview
    <2>5. CASE Settle
      <3>1. /\ pc' = "off" /\ UNCHANGED <<node, at, stepInput, log, pipe, approved>>
            /\ ckpt'.node \in {ckpt.node, "author", stepInput.node}
        BY <2>5, SettleIs DEF Stops, Unfinished, trace, reader, texts
      <3> QED BY <2>1, <3>1 DEF Plain, PlainPipe, InReview
    <2>6. CASE Resume
      <3>1. /\ node' = ckpt.node /\ at' = ckpt.node /\ ckpt'.node = ckpt.node /\ pc' = "top"
            /\ stepInput'.node \in {"none", ckpt.node} /\ UNCHANGED <<pipe, approved>>
            /\ log' = Append(log, [kind |-> "resume", node |-> ckpt.node])
        BY <1>1, <2>6 DEF Resume, Nothing, texts, Typed, ServerTyped
      <3>2. PICK r : r = [kind |-> "resume", node |-> ckpt.node]
        OBVIOUS
      <3>3. r \in Entries /\ PlainRecord(r) /\ log \in Seq(Entries)
        BY <1>1, <2>1, <3>2 DEF Plain, PlainRecord, Entries, Typed, ServerTyped, Logs
      <3>4. /\ DOMAIN log' = 1 .. Len(log) + 1 /\ log'[Len(log) + 1] = r /\ Len(log) \in Nat
            /\ DOMAIN log = 1 .. Len(log) /\ \A i \in 1 .. Len(log) : log'[i] = log[i]
        BY <3>1, <3>2, <3>3, AppendProperties, LenProperties
      <3>5. \A i \in DOMAIN log' : PlainRecord(log'[i])
        BY <2>1, <3>3, <3>4 DEF Plain
      <3> QED BY <2>1, <3>1, <3>5 DEF Plain, PlainPipe, InReview
    <2>7. CASE Restart
      <3>1. /\ UNCHANGED <<node, pc, at, stepInput, log, pipe, approved>>
            /\ ckpt'.node \in {ckpt.node, Rebuilt.node}
        BY <1>1, <2>7, RestartIs DEF Stops, trace, reader, texts, runner, Typed, ServerTyped
      <3> QED BY <1>1, <2>1, <3>1, RebuiltPlain DEF Plain, PlainPipe
    <2>8. CASE Pause
      <3>1. ckpt'.node = "author" /\ UNCHANGED <<node, pc, at, stepInput, log, pipe, approved>>
        BY <2>8 DEF Pause, RunnerRests, trace, reader, texts, runner
      <3> QED BY <2>1, <3>1 DEF Plain, PlainPipe, InReview
    <2>9. CASE Kill \/ Crash
      <3>1. /\ pc' \in {"dead", "off"} /\ pipe' \in {pipe, <<>>}
            /\ UNCHANGED <<node, ckpt, at, stepInput, log, approved>>
        BY <2>9 DEF Kill, Crash, files, trace, reader, texts
      <3> QED BY <2>1, <3>1 DEF Plain, PlainPipe
    <2> QED BY <2>2, <2>3, <2>4, <2>5, <2>6, <2>7, <2>8, <2>9 DEF Next, Server, Fault
  <1> QED BY <1>1, <1>2 DEF PlainInv

LEMMA InitPlain == Init => PlainInv
  <1> SUFFICES ASSUME Init, ~Reviewed PROVE Plain
    BY InitTyped DEF PlainInv
  <1>1. "author" \in stages
    BY ReviewConstants DEF Init, Reviewed
  <1>2. node = "author" /\ DOMAIN pipe = {} /\ DOMAIN log = {}
    BY <1>1, EmptySeq DEF Init
  <1> QED BY <1>2 DEF Init, Plain, PlainPipe, NoCkpt, Nothing, InReview

-----------------------------------------------------------------------------
LEMMA RoundsHold == Spec => [](RoundsInv /\ PlainInv)
  <1>1. Init => RoundsInv
    BY InitTyped, InitRounds DEF RoundsInv
  <1> QED BY <1>1, NextRounds, InitPlain, NextPlain, PTL DEF Spec

\* Whatever interrupts a critic between a record and the end of its call, its
\* round is the number of edits made since the author submitted, plus one.
THEOREM RoundsAreNumbered == Spec => []RoundMatchesEdits
  <1>1. RoundsInv /\ PlainInv => RoundMatchesEdits
    <2> SUFFICES ASSUME RoundsInv, PlainInv, Working, node = "critic", pc \in {"input", "write", "model"}, EndedWell
                 PROVE  st.sol \in Proofs /\ visits = edits[st.sol] + 1 /\ verify = (edits[st.sol] = Limit)
      BY DEF RoundMatchesEdits
    <2>1. Reviewed
      BY DEF PlainInv, Plain, InReview
    <2>2. PICK w : Typed /\ Rounds(w)
      BY <2>1 DEF RoundsInv
    <2>3. CriticOk(w, w[Len(pipe)])
      BY <2>2 DEF Rounds, RunnerOk
    <2>4. visits >= 1 /\ Round(st.sol, visits - 1, verify) /\ st.sol \in Proofs
      BY <2>3 DEF CriticOk
    <2>5. visits \in Nat /\ verify \in BOOLEAN /\ Limit \in Nat /\ edits[st.sol] \in Nat
      BY <2>2, <2>4, TextFacts, StepFacts
    <2> QED BY <2>4, <2>5 DEF Round
  <1> QED BY <1>1, RoundsHold, PTL

\* A critic that passes the text it was given passes a proof, never a pointer.
THEOREM PointersWereRead == Spec => []PointersAreRead
  <1>1. RoundsInv /\ PlainInv => PointersAreRead
    BY DEF RoundsInv, PlainInv, Plain, Rounds, PointersAreRead
  <1> QED BY <1>1, RoundsHold, PTL

\* Through pauses, failed calls, killed runners and restarts, a later step that
\* calls its model has the newest submission or the critics' edits of it.
THEOREM NewestWasReviewed == Spec => []NewestReviewed
  <1>1. RoundsInv /\ PlainInv => NewestReviewed
    <2> SUFFICES ASSUME RoundsInv, EndedWell, pc = "model", Reviewed PROVE root[st.sol] = newest
      BY DEF NewestReviewed, WorksOnNewest
    <2>1. PICK w : Typed /\ Rounds(w)
      BY DEF RoundsInv
    <2>2. PICK v : v = w[Len(pipe)]
      OBVIOUS
    <2>3. RunnerOk(w, v) /\ Working
      BY <2>1, <2>2 DEF Rounds, Working
    <2>4. node # "author" /\ StepOk(w, v) /\ (node = "critic" => CriticOk(w, v))
      BY <2>3 DEF RunnerOk
    <2>5. Current(st.sol)
      BY <2>4 DEF StepOk
    <2>6. st.sol # InFile
      <3>1. CASE node = "critic"
        <4>1. st.sol \in Proofs
          BY <2>4, <3>1 DEF CriticOk
        <4> QED BY <4>1, Numbers
      <3>2. CASE node \in Late
        BY <2>4, <3>2 DEF StepOk
      <3> QED BY <2>1, <2>4, <3>1, <3>2, StepFacts DEF Nodes, Late
    <2> QED BY <2>5, <2>6 DEF Current
  <1> QED BY <1>1, RoundsHold, PTL
=============================================================================
