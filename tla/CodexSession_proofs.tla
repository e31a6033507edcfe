------------------------- MODULE CodexSession_proofs -------------------------
(***************************************************************************)
(* The author's goal in Codex, for any number of rejections, instructions, *)
(* failures and pauses.                                                    *)
(*                                                                         *)
(* The actions overlap in what they do: a session fails, ends or sends in  *)
(* the same way wherever it is.  Step says what a step does, by its kind,  *)
(* and Normal that every step is one of these; each of the invariants      *)
(*     Sane       types, places, the conversation a session is in          *)
(*     Steered    the live instructions on their way                       *)
(*     Ordered    what a turn still sends, and in which order              *)
(*     Quiet      what shows that the model worked in a turn               *)
(*     Echo       turns without an answer, and the one a retry removes     *)
(*     Pending    the feedback between the sessions of a step              *)
(*     Answered, Told   the feedback the conversation has heard            *)
(* is then kept by every kind, given the ones before it.                   *)
(***************************************************************************)
EXTENDS CodexSession, SequenceTheorems, TLAPS

Kinds == {"output", "compacted", "ended", "answer", "complete", "failed", "started", "took", "declined"}
Messages == [m : Kinds, item : Nat]

\* What a queue of messages holds: only some kinds, one of some kinds, after
\* messages of some kinds only others.
Only(w, K) == \A i \in DOMAIN w : w[i].m \in K
Has(w, K) == \E i \in DOMAIN w : w[i].m \in K
After(w, K, L) == \A i, j \in DOMAIN w : i < j /\ w[i].m \in K => w[j].m \in L

-----------------------------------------------------------------------------
\* Queues

LEMMA AppendIs ==
    ASSUME NEW S, NEW q \in Seq(S), NEW r \in S
    PROVE  /\ Append(q, r) \in Seq(S) /\ Len(q) \in Nat /\ Len(Append(q, r)) = Len(q) + 1
           /\ DOMAIN q = 1 .. Len(q) /\ DOMAIN Append(q, r) = 1 .. Len(q) + 1
           /\ \A j \in 1 .. Len(q) : Append(q, r)[j] = q[j]
           /\ Append(q, r)[Len(q) + 1] = r
  <1>1. /\ Append(q, r) \in Seq(S) /\ Len(Append(q, r)) = Len(q) + 1
        /\ \A j \in 1 .. Len(q) : Append(q, r)[j] = q[j]
        /\ Append(q, r)[Len(q) + 1] = r
    BY AppendProperties
  <1>2. DOMAIN Append(q, r) = 1 .. Len(q) + 1 /\ DOMAIN q = 1 .. Len(q) /\ Len(q) \in Nat
    BY <1>1, LenProperties
  <1> QED BY <1>1, <1>2

LEMMA TailIs ==
    ASSUME NEW S, NEW q \in Seq(S), q # <<>>
    PROVE  /\ Tail(q) \in Seq(S) /\ Len(q) \in Nat /\ Len(q) >= 1 /\ Len(Tail(q)) = Len(q) - 1
           /\ DOMAIN q = 1 .. Len(q) /\ DOMAIN Tail(q) = 1 .. Len(q) - 1
           /\ \A j \in 1 .. Len(q) - 1 : Tail(q)[j] = q[j + 1]
           /\ Head(q) = q[1] /\ q[1] \in S
  <1>1. /\ Tail(q) \in Seq(S) /\ Len(Tail(q)) = Len(q) - 1
        /\ \A j \in 1 .. Len(Tail(q)) : Tail(q)[j] = q[j + 1]
        /\ Head(q) = q[1] /\ q[1] \in S /\ Len(q) \in Nat /\ Len(q) >= 1
    BY HeadTailProperties, EmptySeq, ElementOfSeq, LenProperties
  <1>2. DOMAIN Tail(q) = 1 .. Len(q) - 1 /\ DOMAIN q = 1 .. Len(q)
    BY <1>1, LenProperties
  <1> QED BY <1>1, <1>2

\* The messages Codex sends together are sent one after the other.
LEMMA SaysIs ==
    ASSUME NEW S, NEW w \in Seq(S), NEW a \in S, NEW b \in S, NEW c \in S
    PROVE  /\ w \o <<a>> = Append(w, a)
           /\ w \o <<a, b>> = Append(Append(w, a), b)
           /\ w \o <<a, b, c>> = Append(Append(Append(w, a), b), c)
  <1>1. /\ <<a>> = Append(<<>>, a) /\ <<a, b>> = Append(<<a>>, b) /\ <<a, b, c>> = Append(<<a, b>>, c)
        /\ <<>> \in Seq(S) /\ <<a>> \in Seq(S) /\ <<a, b>> \in Seq(S)
    OBVIOUS
  <1>2. w \o <<>> = w
    BY ConcatEmptySeq
  <1>3. \A q \in Seq(S), e \in S : w \o Append(q, e) = Append(w \o q, e)
    <2> TAKE q \in Seq(S), e \in S
    <2>1. Append(w \o q, e) = (w \o q) \o <<e>> /\ Append(q, e) = q \o <<e>>
      BY AppendIsConcat, ConcatProperties
    <2>2. (w \o q) \o <<e>> = w \o (q \o <<e>>)
      BY ConcatAssociative
    <2> QED BY <2>1, <2>2
  <1>4. w \o <<a>> = Append(w, a)
    BY <1>1, <1>2, <1>3
  <1>5. w \o <<a, b>> = Append(Append(w, a), b)
    BY <1>1, <1>3, <1>4
  <1> QED BY <1>1, <1>3, <1>4, <1>5

LEMMA EmptyHas == ASSUME NEW K, NEW L PROVE Only(<<>>, K) /\ ~Has(<<>>, K) /\ After(<<>>, K, L)
  BY DEF Only, Has, After

LEMMA AppendHas ==
    ASSUME NEW w \in Seq(Messages), NEW r \in Messages, NEW K, NEW L
    PROVE  /\ Only(Append(w, r), K) <=> Only(w, K) /\ r.m \in K
           /\ Has(Append(w, r), K) <=> Has(w, K) \/ r.m \in K
           /\ After(Append(w, r), K, L) <=> After(w, K, L) /\ (Has(w, K) => r.m \in L)
  <1> DEFINE a == Append(w, r)
  <1>1. /\ Len(w) \in Nat /\ DOMAIN w = 1 .. Len(w) /\ DOMAIN a = 1 .. Len(w) + 1
        /\ \A j \in 1 .. Len(w) : a[j] = w[j]
        /\ a[Len(w) + 1] = r
    BY AppendIs
  <1> HIDE DEF a
  <1>2. Only(a, K) <=> Only(w, K) /\ r.m \in K
    BY <1>1 DEF Only
  <1>3. Has(a, K) <=> Has(w, K) \/ r.m \in K
    BY <1>1 DEF Has
  <1>4. After(a, K, L) => After(w, K, L) /\ (Has(w, K) => r.m \in L)
    BY <1>1 DEF After, Has
  <1>5. After(w, K, L) /\ (Has(w, K) => r.m \in L) => After(a, K, L)
    BY <1>1 DEF After, Has
  <1> QED BY <1>2, <1>3, <1>4, <1>5 DEF a

LEMMA TailHas ==
    ASSUME NEW w \in Seq(Messages), w # <<>>, NEW K, NEW L
    PROVE  /\ Only(w, K) <=> Only(Tail(w), K) /\ Head(w).m \in K
           /\ Has(w, K) <=> Has(Tail(w), K) \/ Head(w).m \in K
           /\ After(w, K, L) <=> After(Tail(w), K, L) /\ (Head(w).m \in K => Only(Tail(w), L))
  <1> DEFINE t == Tail(w)
  <1>1. /\ Len(w) \in Nat /\ Len(w) >= 1 /\ DOMAIN w = 1 .. Len(w) /\ DOMAIN t = 1 .. Len(w) - 1
        /\ \A j \in 1 .. Len(w) - 1 : t[j] = w[j + 1]
        /\ Head(w) = w[1]
    BY TailIs
  <1> HIDE DEF t
  <1>2. \A i \in DOMAIN w : i = 1 \/ (i - 1 \in DOMAIN t /\ w[i] = t[i - 1])
    BY <1>1
  <1>3. Only(w, K) <=> Only(t, K) /\ Head(w).m \in K
    <2>1. Only(w, K) => Only(t, K) /\ Head(w).m \in K
      BY <1>1 DEF Only
    <2>2. Only(t, K) /\ Head(w).m \in K => Only(w, K)
      BY <1>1, <1>2 DEF Only
    <2> QED BY <2>1, <2>2
  <1>4. Has(w, K) <=> Has(t, K) \/ Head(w).m \in K
    <2>1. Has(w, K) => Has(t, K) \/ Head(w).m \in K
      BY <1>1, <1>2 DEF Has
    <2>2. Has(t, K) \/ Head(w).m \in K => Has(w, K)
      BY <1>1 DEF Has
    <2> QED BY <2>1, <2>2
  <1>5. ASSUME After(w, K, L)
        PROVE  After(t, K, L) /\ (Head(w).m \in K => Only(t, L))
    <2>1. ASSUME NEW i \in DOMAIN t, NEW j \in DOMAIN t, i < j, t[i].m \in K
          PROVE  t[j].m \in L
      <3>1. i + 1 \in DOMAIN w /\ j + 1 \in DOMAIN w /\ i + 1 < j + 1 /\ t[i] = w[i + 1] /\ t[j] = w[j + 1]
        BY <1>1, <2>1
      <3> QED BY <1>5, <2>1, <3>1 DEF After
    <2>2. ASSUME Head(w).m \in K, NEW j \in DOMAIN t
          PROVE  t[j].m \in L
      <3>1. 1 \in DOMAIN w /\ j + 1 \in DOMAIN w /\ 1 < j + 1 /\ t[j] = w[j + 1]
        BY <1>1, <2>2
      <3> QED BY <1>1, <1>5, <2>2, <3>1 DEF After
    <2> QED BY <2>1, <2>2 DEF After, Only
  <1>6. After(t, K, L) /\ (Head(w).m \in K => Only(t, L)) => After(w, K, L)
    BY <1>1, <1>2 DEF After, Only
  <1> QED BY <1>3, <1>4, <1>5, <1>6 DEF t

-----------------------------------------------------------------------------
\* What the variables hold

KnownFields == {"thread", "steer", "anchor", "instr", "rewind", "replace", "refusals", "retry"}
SessionFields ==
  {"active", "thread", "instr", "delivered", "output", "steered", "own", "rewound", "turn", "running",
   "answer", "from", "complete", "steer", "anchor", "activating"}
ConvFields ==
  {"id", "live", "task", "fb", "steer", "kept", "silent", "plain", "stale", "joined", "lost"}
IsInstr(i) == DOMAIN i = {"task", "fb", "kind"} /\ i.fb \in Nat
IsRewind(r) ==
  /\ DOMAIN r = {"kind", "id", "task", "fb", "silent"} /\ r.kind \in {"none", "turn", "gone"}
  /\ r.id \in Nat /\ r.fb \in Nat /\ r.silent \in Nat

Typed ==
  /\ pc \in Attempting \cup {"launch", "submitted", "waiting", "paused", "done"}
  /\ DOMAIN s = SessionFields /\ s.thread \in Nat /\ s.steer \in Nat /\ s.from \in Nat /\ IsInstr(s.instr)
  /\ DOMAIN conv = ConvFields /\ conv.id \in Nat /\ conv.fb \in Nat /\ conv.steer \in Nat
  /\ conv.silent \in Nat /\ IsRewind(conv.kept)
  /\ DOMAIN known = KnownFields /\ known.thread \in Nat /\ known.steer \in Nat
  /\ IsInstr(known.instr) /\ IsRewind(known.rewind)
  /\ DOMAIN noted = {"thread", "steer", "repair"} /\ noted.thread \in Nat /\ noted.steer \in Nat
  /\ feedback \in Nat /\ initial \in Nat /\ queued \in 0 .. MaxSteers
  /\ wire \in Seq(Messages) /\ inbox \in Seq(Nat)

Before1 == {"waiting", "launch", "opening"}
Calling == {"sending", "starting"}
Opened == {"opened", "sending", "starting", "turn", "submitted"}

\* What a session is at each place, and to which conversation the records belong.
Sane ==
  /\ Typed
  /\ pc \in {"waiting", "launch", "paused"} =>
       s = NoSession /\ turn = "none" /\ inbox = <<>> /\ wire = <<>> /\ server = "off"
  /\ pc \in {"opening", "opened"} => turn = "none" /\ inbox = <<>> /\ wire = <<>>
  /\ pc = "opening" => s.thread = None /\ s.instr = NoInstr /\ ~s.delivered
  /\ pc \in Opened => s.thread = conv.id /\ conv.id > 0
  /\ pc \in {"opened", "sending", "starting", "turn"} => s.instr # NoInstr
  /\ pc \in Calling =>
       ~s.delivered /\ ~s.output /\ ~s.steered /\ ~s.own /\ s.running /\ ~s.complete /\ s.answer = "none"
  /\ pc = "turn" => s.delivered /\ (s.running \/ ~s.complete)
  /\ noted.thread = conv.id
  /\ pc \in Before1 \cup {"paused"} => known.thread \in {None, conv.id}
  /\ known.rewind.id <= conv.id /\ conv.kept.id <= conv.id
  /\ conv.kept.kind = "turn" => conv.kept.id = conv.id

-----------------------------------------------------------------------------
\* The steps, by what they do

Over == s' = NoSession /\ turn' = "none" /\ inbox' = <<>> /\ wire' = <<>> /\ server' = "off"

\* The run pauses, whatever the session did.
Halts ==
  /\ pc' = "paused" /\ known' = Unknown /\ Over
  /\ UNCHANGED <<initial, queued, conv, withdrawn>> /\ (excused => excused')
  /\ UNCHANGED <<feedback, repairing>> \/ (feedback' = feedback + 1 /\ repairing' = TRUE)
  /\ \/ UNCHANGED noted
     \/ /\ pc = "turn" /\ wire # <<>> /\ Head(wire).m = "took" /\ Head(wire).item # Anchor
        /\ noted' = [noted EXCEPT !.steer = Head(wire).item]

\* The session fails: before it chose or sent anything, before its turn began,
\* in its turn, or because the conversation is full.
FailedAt(places) ==
  /\ pc \in places /\ pc' = "waiting" /\ Over
  /\ DOMAIN known' = KnownFields /\ known'.retry
  /\ known'.steer = IF s.steer # 0 THEN s.steer ELSE known.steer
  /\ UNCHANGED <<feedback, initial, repairing, queued, noted, conv, withdrawn>> /\ (excused => excused')
FailsOpening ==
  /\ FailedAt({"opening", "opened"})
  /\ known'.thread = IF s.thread # None THEN s.thread ELSE known.thread
  /\ known'.replace <=> known.replace /\ s.thread = None
  /\ known'.instr = known.instr /\ known'.rewind = known.rewind
FailsSending ==
  /\ FailedAt(Calling)
  /\ known'.thread = s.thread /\ ~known'.replace
  /\ known'.instr = s.instr /\ known'.rewind \in {NoRewind, known.rewind}
FailsTurn ==
  /\ FailedAt({"turn"})
  /\ known'.thread = s.thread /\ ~known'.replace
  /\ known'.rewind = IF ~s.output /\ ~s.steered /\ s.own THEN conv.kept ELSE NoRewind
  /\ known'.instr = IF known'.rewind # NoRewind THEN s.instr ELSE RetryNote
  /\ \/ wire = <<>> /\ server = "dead"
     \/ wire # <<>> /\ Head(wire).m = "failed"
     \/ conv.silent = 0 => excused'
Outgrows ==
  /\ FailedAt({"turn"})
  /\ known'.thread = None /\ known'.replace
  /\ known'.instr = Replacement /\ known'.rewind = NoRewind

Begins ==
  /\ pc = "launch" /\ pc' = "opening" /\ server' = "up"
  /\ s' = Fresh(IF known.steer # 0 THEN known.steer ELSE noted.steer)
  /\ UNCHANGED <<known, feedback, initial, repairing, queued, noted, conv, withdrawn, turn, inbox, wire, excused>>

OpensNew ==
  /\ pc = "opening"
  /\ \/ known.thread = None /\ NewThread(FirstInstruction(FALSE, None))
     \/ known.thread # None /\ NewThread(Replacement)
  /\ UNCHANGED <<known, feedback, initial, repairing, queued, withdrawn, turn, inbox, wire, server, excused>>

\* A turn's instruction is being sent.
SendsNow(t, i) == s' = [t EXCEPT !.instr = i, !.delivered = FALSE, !.output = FALSE, !.steered = FALSE, !.own = FALSE,
                                 !.answer = "none", !.complete = FALSE, !.running = TRUE]
Sent == pc' = "sending" /\ UNCHANGED <<initial, queued, noted, conv, withdrawn, turn, inbox, server, excused>>
SendsFirst ==
  /\ pc = "opened" /\ Sent /\ SendsNow(s, s.instr)
  /\ UNCHANGED <<known, feedback, repairing, wire>>
SendsOn ==
  /\ pc = "turn" /\ ~s.running /\ wire = <<>> /\ Sent /\ SendsNow(s, Continuation)
  /\ UNCHANGED <<known, feedback, repairing, wire>>
SendsRejection ==
  /\ pc = "submitted" /\ Sent /\ SendsNow(s, Instr(FALSE, feedback'))
  /\ known' = [Unknown EXCEPT !.thread = noted.thread]
  /\ feedback' = feedback + 1 /\ repairing' = TRUE /\ UNCHANGED wire

\* The last message of a turn whose goal is complete: it is continued, or submitted.
Completes ==
  /\ pc = "turn" /\ wire # <<>> /\ wire' = Tail(wire)
  /\ (Head(wire).m = "complete" /\ ~s.running) \/ (Head(wire).m = "ended" /\ s.complete)
  /\ UNCHANGED <<known, feedback, repairing>>
SendsMore == Completes /\ Sent /\ \E t : SendsNow(t, Continuation) /\ DOMAIN t = SessionFields
                                         /\ t.thread = s.thread /\ t.steer = s.steer /\ t.from = s.from
Submits ==
  /\ Completes
  /\ pc' = "submitted" /\ DOMAIN s' = SessionFields
  /\ s'.thread = s.thread /\ s'.steer = s.steer /\ s'.instr = s.instr /\ s'.from = s.from /\ s.answer # "none"
  /\ UNCHANGED <<initial, queued, noted, conv, withdrawn, turn, inbox, server, excused>>

\* Any other message is read in a turn that goes on.
Hears(m, t, box) ==
  /\ pc = "turn" /\ wire # <<>> /\ Head(wire).m = m /\ wire' = Tail(wire)
  /\ s' = t /\ inbox' = box
  /\ UNCHANGED <<pc, known, feedback, initial, repairing, queued, conv, withdrawn, turn, server, excused>>
HearsStarted ==
  LET anchors == s.anchor /\ ~pause IN
  /\ Hears("started",
           [s EXCEPT !.running = TRUE, !.turn = TRUE, !.answer = "none", !.from = None, !.own = FALSE,
                     !.output = FALSE, !.steered = anchors, !.anchor = @ /\ ~anchors],
           IF anchors THEN Append(inbox, Anchor) ELSE inbox)
  /\ UNCHANGED noted
HearsOutput == Hears("output", [s EXCEPT !.output = TRUE], inbox) /\ UNCHANGED noted
HearsCompacted ==
  /\ \/ Hears("compacted", [s EXCEPT !.output = TRUE], inbox)
     \/ Hears("compacted", [s EXCEPT !.output = TRUE, !.turn = TRUE, !.steered = TRUE], Append(inbox, Anchor))
  /\ UNCHANGED noted
HearsTook ==
  /\ Hears("took", Taken(Head(wire).item), inbox)
  /\ noted' = IF Head(wire).item = Anchor THEN noted ELSE [noted EXCEPT !.steer = Head(wire).item]
HearsDeclined == Hears("declined", Declined(Head(wire).item), inbox) /\ UNCHANGED noted
HearsAnswer ==
  Hears("answer", [s EXCEPT !.output = TRUE, !.answer = "text", !.from = Head(wire).item], inbox) /\ UNCHANGED noted
HearsComplete == s.running /\ Hears("complete", [s EXCEPT !.complete = TRUE], inbox) /\ UNCHANGED noted
HearsEnded == ~s.complete /\ Hears("ended", [s EXCEPT !.running = FALSE, !.turn = FALSE], inbox) /\ UNCHANGED noted

Dies ==
  /\ pc \in Attempting /\ server' = "dead" /\ turn' = "none" /\ inbox' = <<>>
  /\ UNCHANGED <<pc, step, s, conv, wire, excused>>

\* The goal is active: what was queued is read now.
Activates ==
  /\ pc = "turn" /\ s' = [s EXCEPT !.activating = FALSE]
  /\ UNCHANGED <<pc, step, conv, codex, excused>>

\* The user and the retries of the step, in which the session has no part.
Rests ==
  /\ queued' \in 0 .. MaxSteers
  /\ UNCHANGED <<pc, known, feedback, initial, repairing, noted, s, conv, withdrawn, turn, inbox, wire, server, excused>>
Alone == UNCHANGED <<turn, inbox, wire, server, excused>>
Retries == Retry /\ Alone
Resumes == Resume /\ Alone
Accepts == Accepted /\ Alone
Vanishes == ConversationVanishes /\ Alone

Between == Rests \/ Halts \/ Begins \/ Retries \/ Resumes \/ Accepts \/ Vanishes
Failing == FailsOpening \/ FailsSending \/ FailsTurn \/ Outgrows
Opening1 == OpensNew \/ OpenSaved \/ OpenRemoves
Sending1 == SendsFirst \/ SendsOn \/ SendsRejection \/ SendsMore \/ GoalIsPaused \/ TurnStarts \/ Submits
Hearing == HearsStarted \/ HearsOutput \/ HearsCompacted \/ HearsTook \/ HearsDeclined \/ HearsAnswer \/ HearsComplete \/ HearsEnded
Acting == CodexWorks \/ CodexCompacts \/ CodexEndsTurn \/ CodexContinues \/ CodexTakesSteer \/ Dies \/ WatchSteer \/ WatchPause
Step == Between \/ Failing \/ Opening1 \/ Sending1 \/ Hearing \/ Acting \/ Activates

-----------------------------------------------------------------------------
\* Every step is one of these

LEMMA MergeIs ==
    ASSUME DOMAIN known = KnownFields, NEW r, ~r.rewindFailed, NEW k, k = Merge(r)
    PROVE  /\ DOMAIN k = KnownFields /\ k.retry
           /\ k.thread = IF r.replace THEN None ELSE IF r.thread # None THEN r.thread ELSE known.thread
           /\ k.steer = IF r.steer # 0 THEN r.steer ELSE known.steer
           /\ k.replace <=> r.replace \/ (known.replace /\ r.thread = None)
           /\ k.instr = IF r.instr = NoInstr THEN known.instr
                        ELSE IF r.delivered /\ r.rewind = NoRewind THEN RetryNote ELSE r.instr
           /\ k.rewind = IF r.replace THEN NoRewind ELSE IF r.instr = NoInstr THEN known.rewind
                         ELSE IF r.delivered THEN r.rewind ELSE IF r.rewound THEN NoRewind ELSE known.rewind
  <1> DEFINE first ==
                [known EXCEPT !.thread = IF r.thread # None THEN r.thread ELSE @,
                              !.steer = IF r.steer # 0 THEN r.steer ELSE @,
                              !.anchor = @ \/ r.anchor, !.refusals = r.refusals, !.retry = TRUE]
             told ==
                IF r.instr = NoInstr THEN first
                ELSE IF r.delivered
                THEN [first EXCEPT !.instr = IF r.rewind # NoRewind THEN r.instr ELSE RetryNote,
                                   !.rewind = r.rewind]
                ELSE [first EXCEPT !.instr = r.instr, !.rewind = IF r.rewound THEN NoRewind ELSE @]
  <1>1. /\ DOMAIN first = KnownFields /\ first.retry
        /\ first.thread = IF r.thread # None THEN r.thread ELSE known.thread
        /\ first.steer = IF r.steer # 0 THEN r.steer ELSE known.steer
        /\ first.replace = known.replace /\ first.instr = known.instr /\ first.rewind = known.rewind
    BY DEF KnownFields
  <1> HIDE DEF first
  <1>2. /\ DOMAIN told = KnownFields /\ told.retry
        /\ told.thread = first.thread /\ told.steer = first.steer /\ told.replace = first.replace
        /\ told.instr = IF r.instr = NoInstr THEN known.instr
                        ELSE IF r.delivered /\ r.rewind = NoRewind THEN RetryNote ELSE r.instr
        /\ told.rewind = IF r.instr = NoInstr THEN known.rewind
                         ELSE IF r.delivered THEN r.rewind ELSE IF r.rewound THEN NoRewind ELSE known.rewind
    BY <1>1 DEF KnownFields
  <1>3. k = IF r.replace
            THEN [told EXCEPT !.thread = None, !.rewind = NoRewind, !.anchor = FALSE, !.replace = TRUE]
            ELSE [told EXCEPT !.replace = @ /\ r.thread = None]
    BY DEF Merge, first
  <1> HIDE DEF told, first
  <1>4. CASE r.replace
    BY <1>1, <1>2, <1>3, <1>4 DEF KnownFields
  <1>5. CASE ~r.replace
    BY <1>1, <1>2, <1>3, <1>5 DEF KnownFields
  <1> QED BY <1>4, <1>5

LEMMA ReportIs ==
    ASSUME NEW i, NEW d, NEW r, r = Report(i, d)
    PROVE  /\ r.thread = s.thread /\ r.steer = s.steer /\ r.instr = i /\ (r.delivered <=> d)
           /\ ~r.rewindFailed /\ ~r.replace /\ (r.rewound <=> s.rewound)
           /\ r.rewind = IF d /\ ~s.output /\ ~s.steered /\ s.own THEN conv.kept ELSE NoRewind
  BY DEF Report, FailedAttempt

LEMMA PausingHalts ==
    ASSUME Pauses, Ends, UNCHANGED <<initial, queued, noted, conv, withdrawn>>, excused => excused',
           UNCHANGED <<feedback, repairing>> \/ (feedback' = feedback + 1 /\ repairing' = TRUE)
    PROVE  Halts
  BY DEF Pauses, Ends, Halts, Over

\* A failure of a session that is not pausing, at the places where it may occur.
LEMMA CallFailing ==
    ASSUME Sane, CallFails
    PROVE  Step
  <1> DEFINE r == Report(IF pc = "opened" THEN NoInstr ELSE s.instr, s.delivered)
  <1>1. /\ pc \in Calls \/ (pc = "turn" /\ (s.activating \/ (server = "dead" /\ wire = <<>>)))
        /\ SessionFails(r)
        /\ UNCHANGED <<feedback, initial, repairing, queued, noted, withdrawn, conv>>
        /\ excused' = (excused \/ (pc = "turn" /\ s.activating /\ conv.silent = 0))
    BY DEF CallFails
  <1>2. CASE pause
    BY <1>1, <1>2, PausingHalts DEF SessionFails, Step, Between
  <1>3. CASE ~pause
    <2>1. pc' = "waiting" /\ known' = Merge(r) /\ Over
      BY <1>1, <1>3 DEF SessionFails, Fails, Ends, Over
    <2>2. DOMAIN known = KnownFields
      BY DEF Sane, Typed
    <2> HIDE DEF r
    <2>3. /\ r.thread = s.thread /\ r.steer = s.steer /\ (r.delivered <=> s.delivered)
          /\ r.instr = IF pc = "opened" THEN NoInstr ELSE s.instr
          /\ ~r.rewindFailed /\ ~r.replace
          /\ r.rewind = IF s.delivered /\ ~s.output /\ ~s.steered /\ s.own THEN conv.kept ELSE NoRewind
      BY ReportIs DEF r
    <2>4. /\ DOMAIN known' = KnownFields /\ known'.retry
          /\ known'.thread = IF r.thread # None THEN r.thread ELSE known.thread
          /\ known'.steer = IF s.steer # 0 THEN s.steer ELSE known.steer
          /\ known'.replace <=> known.replace /\ r.thread = None
          /\ known'.instr = IF r.instr = NoInstr THEN known.instr
                            ELSE IF r.delivered /\ r.rewind = NoRewind THEN RetryNote ELSE r.instr
          /\ known'.rewind = IF r.instr = NoInstr THEN known.rewind
                             ELSE IF r.delivered THEN r.rewind ELSE IF r.rewound THEN NoRewind ELSE known.rewind
      BY <2>1, <2>2, <2>3, MergeIs
    <2>5. CASE pc \in {"opening", "opened"}
      <3>1. r.instr = NoInstr
        BY <2>3, <2>5 DEF Sane
      <3> QED BY <1>1, <2>1, <2>3, <2>4, <2>5, <3>1 DEF Step, Failing, FailsOpening, FailedAt
    <2>6. CASE pc \in Calling
      <3>1. r.instr = s.instr /\ s.instr # NoInstr /\ ~r.delivered /\ s.thread = conv.id /\ conv.id > 0
        BY <2>3, <2>6 DEF Sane, Calling, Opened
      <3>2. s.thread # None
        BY <3>1 DEF Sane, Typed, None
      <3> QED BY <1>1, <2>1, <2>3, <2>4, <2>6, <3>1, <3>2 DEF Step, Failing, FailsSending, FailedAt
    <2>7. CASE pc = "turn"
      <3>1. r.instr = s.instr /\ s.instr # NoInstr /\ r.delivered /\ s.thread = conv.id /\ conv.id > 0
        BY <2>3, <2>7 DEF Sane, Opened
      <3>2. s.thread # None
        BY <3>1 DEF Sane, Typed, None
      <3>3. (wire = <<>> /\ server = "dead") \/ (conv.silent = 0 => excused')
        BY <1>1, <2>7 DEF Calls
      <3> QED BY <1>1, <2>1, <2>3, <2>4, <2>7, <3>1, <3>2, <3>3 DEF Step, Failing, FailsTurn, FailedAt
    <2> QED BY <1>1, <2>5, <2>6, <2>7 DEF Calls, Calling
  <1> QED BY <1>2, <1>3

LEMMA TurnFailing ==
    ASSUME Sane, ReadFailed
    PROVE  Step
  <1> DEFINE r == Report(s.instr, s.delivered)
  <1>1. /\ pc = "turn" /\ wire # <<>> /\ Head(wire).m = "failed"
        /\ SessionFails(r)
        /\ UNCHANGED <<feedback, initial, repairing, queued, noted, withdrawn, conv, excused>>
    BY DEF ReadFailed, Receives, Reading
  <1>2. CASE pause
    BY <1>1, <1>2, PausingHalts DEF SessionFails, Step, Between
  <1>3. CASE ~pause
    <2>1. pc' = "waiting" /\ known' = Merge(r) /\ Over
      BY <1>1, <1>3 DEF SessionFails, Fails, Ends, Over
    <2>2. DOMAIN known = KnownFields
      BY DEF Sane, Typed
    <2> HIDE DEF r
    <2>3. /\ r.thread = s.thread /\ r.steer = s.steer /\ (r.delivered <=> s.delivered) /\ r.instr = s.instr
          /\ ~r.rewindFailed /\ ~r.replace
          /\ r.rewind = IF s.delivered /\ ~s.output /\ ~s.steered /\ s.own THEN conv.kept ELSE NoRewind
      BY ReportIs DEF r
    <2>4. /\ s.instr # NoInstr /\ s.delivered /\ s.thread = conv.id /\ conv.id > 0
      BY <1>1 DEF Sane, Opened
    <2>5. s.thread # None
      BY <2>4 DEF Sane, Typed, None
    <2>6. /\ DOMAIN known' = KnownFields /\ known'.retry
          /\ known'.thread = s.thread /\ ~known'.replace
          /\ known'.steer = IF s.steer # 0 THEN s.steer ELSE known.steer
          /\ known'.instr = IF r.rewind = NoRewind THEN RetryNote ELSE s.instr
          /\ known'.rewind = r.rewind
      BY <2>1, <2>2, <2>3, <2>4, <2>5, MergeIs
    <2> QED BY <1>1, <2>1, <2>3, <2>4, <2>6 DEF Step, Failing, FailsTurn, FailedAt
  <1> QED BY <1>2, <1>3

LEMMA Outgrowing ==
    ASSUME Sane, OutgrowsContext
    PROVE  Step
  <1> DEFINE p == Report(Replacement, FALSE)
             r == [p EXCEPT !.replace = TRUE, !.rewound = FALSE, !.anchor = FALSE]
  <1>1. /\ pc = "turn" /\ SessionFails(r)
        /\ UNCHANGED <<feedback, initial, repairing, queued, noted, withdrawn, conv, excused>>
    BY DEF OutgrowsContext
  <1>2. CASE pause
    BY <1>1, <1>2, PausingHalts DEF SessionFails, Step, Between
  <1>3. CASE ~pause
    <2>1. pc' = "waiting" /\ known' = Merge(r) /\ Over
      BY <1>1, <1>3 DEF SessionFails, Fails, Ends, Over
    <2>2. DOMAIN known = KnownFields
      BY DEF Sane, Typed
    <2>3. r.steer = s.steer /\ ~r.rewindFailed /\ r.replace /\ r.instr = Replacement /\ ~r.delivered
      BY DEF Report, FailedAttempt
    <2> HIDE DEF r
    <2>4. Replacement # NoInstr
      BY DEF Replacement, Instr, NoInstr
    <2>5. /\ DOMAIN known' = KnownFields /\ known'.retry
          /\ known'.thread = None /\ known'.replace
          /\ known'.steer = IF s.steer # 0 THEN s.steer ELSE known.steer
          /\ known'.instr = Replacement /\ known'.rewind = NoRewind
      BY <2>1, <2>2, <2>3, <2>4, MergeIs
    <2> QED BY <1>1, <2>1, <2>5 DEF Step, Failing, Outgrows, FailedAt
  <1> QED BY <1>2, <1>3

LEMMA Refusing ==
    ASSUME Sane, RefusesToOpen
    PROVE  Step
  <1>1. /\ pc = "opening" /\ known.thread # None
        /\ UNCHANGED <<feedback, initial, repairing, queued, withdrawn>>
    BY DEF RefusesToOpen
  <1>2. CASE known.refusals + 1 >= Refusals
    BY <1>1, <1>2 DEF RefusesToOpen, codex, OpensNew, Step, Opening1
  <1> DEFINE p == Report(NoInstr, FALSE)
             r == [p EXCEPT !.refusals = known.refusals + 1]
  <1>3. CASE ~(known.refusals + 1 >= Refusals)
    <2>1. SessionFails(r) /\ UNCHANGED <<noted, conv, excused>>
      BY <1>3 DEF RefusesToOpen
    <2>2. CASE pause
      BY <1>1, <2>1, <2>2, PausingHalts DEF SessionFails, Step, Between
    <2>3. CASE ~pause
      <3>1. pc' = "waiting" /\ known' = Merge(r) /\ Over
        BY <2>1, <2>3 DEF SessionFails, Fails, Ends, Over
      <3>2. DOMAIN known = KnownFields /\ s.thread = None
        BY <1>1 DEF Sane, Typed
      <3>3. /\ r.thread = s.thread /\ r.steer = s.steer /\ ~r.rewindFailed /\ ~r.replace
            /\ r.instr = NoInstr
        BY DEF Report, FailedAttempt
      <3> HIDE DEF r
      <3>5. /\ DOMAIN known' = KnownFields /\ known'.retry
            /\ known'.thread = known.thread
            /\ known'.replace <=> known.replace
            /\ known'.steer = IF s.steer # 0 THEN s.steer ELSE known.steer
            /\ known'.instr = known.instr /\ known'.rewind = known.rewind
        BY <3>1, <3>2, <3>3, MergeIs
      <3> QED BY <1>1, <2>1, <3>1, <3>2, <3>5 DEF Step, Failing, FailsOpening, FailedAt
    <2> QED BY <2>2, <2>3
  <1> QED BY <1>2, <1>3

\* What LoopsOn leaves, for a message after which the session is t.
LEMMA Looping ==
    ASSUME pc = "turn", wire # <<>>, NEW t, NEW box, LoopsOn(t, box)
    PROVE  \/ Pauses /\ Ends
           \/ /\ UNCHANGED <<known, turn, server>> /\ wire' = Tail(wire) /\ inbox' = box
              /\ \/ (t.running \/ ~t.complete) /\ s' = t /\ UNCHANGED pc
                 \/ ~t.running /\ t.complete /\ t.answer # "none" /\ s' = [t EXCEPT !.active = FALSE] /\ pc' = "submitted"
                 \/ ~t.running /\ t.complete /\ SendsNow(t, Continuation) /\ pc' = "sending"
  <1>1. CASE ~t.running /\ pause
    BY <1>1 DEF LoopsOn
  <1>2. CASE ~(~t.running /\ pause)
    <2>1. /\ UNCHANGED <<known, turn, server>> /\ wire' = Tail(wire) /\ inbox' = box
          /\ IF t.running \/ ~t.complete THEN s' = t /\ UNCHANGED pc
             ELSE IF t.answer # "none" THEN s' = [t EXCEPT !.active = FALSE] /\ pc' = "submitted"
             ELSE Sends(t, Continuation) /\ pc' = "sending"
      BY <1>2 DEF LoopsOn
    <2>2. CASE t.running \/ ~t.complete
      BY <2>1, <2>2
    <2>3. CASE ~(t.running \/ ~t.complete)
      BY <2>1, <2>3 DEF Sends, SendsNow
    <2> QED BY <2>2, <2>3
  <1> QED BY <1>1, <1>2

\* Messages that do not end the turn, in a session that is still in it.
LEMMA HearingOn ==
    ASSUME pc = "turn", wire # <<>>, Reading, NEW t, NEW box, LoopsOn(t, box), t.running \/ ~t.complete
    PROVE  (Pauses /\ Ends) \/ Hears(Head(wire).m, t, box)
  BY Looping DEF Hears, Reading

LEMMA ReadingIs ==
    ASSUME Sane, ReadStarted \/ ReadOutput \/ ReadCompacted \/ ReadAnswer
    PROVE  Step
  <1>1. /\ pc = "turn" /\ wire # <<>> /\ Reading /\ UNCHANGED noted
        /\ DOMAIN s = SessionFields /\ (s.running \/ ~s.complete)
    BY DEF ReadStarted, ReadOutput, ReadCompacted, ReadAnswer, Receives, Sane, Typed
  <1>2. ASSUME Pauses, Ends PROVE Step
    BY <1>1, <1>2, PausingHalts DEF Reading, Step, Between
  <1>3. CASE ReadStarted
    <2> DEFINE anchors == s.anchor /\ ~pause
               t == [s EXCEPT !.running = TRUE, !.turn = TRUE, !.answer = "none", !.from = None, !.own = FALSE,
                              !.output = FALSE, !.steered = anchors, !.anchor = @ /\ ~anchors]
               box == IF anchors THEN Append(inbox, Anchor) ELSE inbox
    <2>1. LoopsOn(t, box) /\ Head(wire).m = "started"
      BY <1>3 DEF ReadStarted, Receives
    <2>2. t.running
      BY <1>1 DEF SessionFields
    <2>3. Hears("started", t, box) \/ (Pauses /\ Ends)
      <3> HIDE DEF t, box
      <3> QED BY <1>1, <2>1, <2>2, HearingOn
    <2> QED BY <1>1, <1>2, <2>3 DEF HearsStarted, Step, Hearing
  <1>4. CASE ReadOutput
    <2> DEFINE t == [s EXCEPT !.output = TRUE]
    <2>1. LoopsOn(t, inbox) /\ Head(wire).m = "output"
      BY <1>4 DEF ReadOutput, Receives
    <2>2. t.running \/ ~t.complete
      BY <1>1 DEF SessionFields
    <2>3. Hears("output", t, inbox) \/ (Pauses /\ Ends)
      <3> HIDE DEF t
      <3> QED BY <1>1, <2>1, <2>2, HearingOn
    <2> QED BY <1>1, <1>2, <2>3 DEF HearsOutput, Step, Hearing
  <1>5. CASE ReadCompacted
    <2> DEFINE t == [s EXCEPT !.output = TRUE]
               u == [s EXCEPT !.output = TRUE, !.turn = TRUE, !.steered = TRUE]
    <2>1. LoopsOn(t, inbox) \/ LoopsOn(u, Append(inbox, Anchor))
      BY <1>5 DEF ReadCompacted
    <2>2. Head(wire).m = "compacted"
      BY <1>5 DEF ReadCompacted, Receives
    <2>3. (t.running \/ ~t.complete) /\ (u.running \/ ~u.complete)
      BY <1>1 DEF SessionFields
    <2>4. Hears("compacted", t, inbox) \/ Hears("compacted", u, Append(inbox, Anchor)) \/ (Pauses /\ Ends)
      <3> HIDE DEF t, u
      <3> QED BY <1>1, <2>1, <2>2, <2>3, HearingOn
    <2> QED BY <1>1, <1>2, <2>4 DEF HearsCompacted, Step, Hearing
  <1>6. CASE ReadAnswer
    <2> DEFINE t == [s EXCEPT !.output = TRUE, !.answer = "text", !.from = Head(wire).item]
    <2>1. LoopsOn(t, inbox) /\ Head(wire).m = "answer"
      BY <1>6 DEF ReadAnswer, Receives
    <2>2. t.running \/ ~t.complete
      BY <1>1 DEF SessionFields
    <2>3. Hears("answer", t, inbox) \/ (Pauses /\ Ends)
      <3> HIDE DEF t
      <3> QED BY <1>1, <2>1, <2>2, HearingOn
    <2> QED BY <1>1, <1>2, <2>3 DEF HearsAnswer, Step, Hearing
  <1> QED BY <1>3, <1>4, <1>5, <1>6

LEMMA SteerAnswerIs ==
    ASSUME Sane, ReadSteerAnswer
    PROVE  Step
  <1> DEFINE item == Head(wire).item
  <1>1. /\ pc = "turn" /\ wire # <<>> /\ Reading
        /\ DOMAIN s = SessionFields /\ (s.running \/ ~s.complete)
    BY DEF ReadSteerAnswer, Receives, Sane, Typed
  <1>2. /\ DOMAIN Taken(item) = SessionFields /\ (Taken(item).running \/ ~Taken(item).complete)
        /\ DOMAIN Declined(item) = SessionFields /\ (Declined(item).running \/ ~Declined(item).complete)
    BY <1>1 DEF Taken, Declined, SessionFields
  <1>3. CASE Head(wire).m = "took" /\ LoopsOn(Taken(item), inbox)
             /\ noted' = IF item = Anchor THEN noted ELSE [noted EXCEPT !.steer = item]
    <2>1. Hears("took", Taken(item), inbox) \/ (Pauses /\ Ends)
      BY <1>1, <1>2, <1>3, HearingOn
    <2>2. ASSUME Pauses, Ends PROVE Halts
      <3>1. UNCHANGED noted \/ (item # Anchor /\ noted' = [noted EXCEPT !.steer = item])
        BY <1>3
      <3> QED BY <1>1, <1>3, <2>2, <3>1 DEF Halts, Over, Pauses, Ends, Reading
    <2> QED BY <1>3, <2>1, <2>2 DEF HearsTook, Step, Hearing, Between
  <1>4. CASE Head(wire).m = "declined" /\ LoopsOn(Declined(item), inbox) /\ UNCHANGED noted
    <2>1. Hears("declined", Declined(item), inbox) \/ (Pauses /\ Ends)
      BY <1>1, <1>2, <1>4, HearingOn
    <2>2. ASSUME Pauses, Ends PROVE Halts
      BY <1>1, <1>4, <2>2, PausingHalts DEF Reading
    <2> QED BY <1>4, <2>1, <2>2 DEF HearsDeclined, Step, Hearing, Between
  <1> QED BY <1>3, <1>4 DEF ReadSteerAnswer, Receives

\* The two messages that end a goal.
LEMMA EndingIs ==
    ASSUME Sane, ReadComplete \/ ReadEnded
    PROVE  Step
  <1>1. /\ pc = "turn" /\ wire # <<>> /\ Reading /\ UNCHANGED noted /\ DOMAIN s = SessionFields
    BY DEF ReadComplete, ReadEnded, Receives, Sane, Typed
  <1>2. ASSUME Pauses, Ends PROVE Step
    BY <1>1, <1>2, PausingHalts DEF Reading, Step, Between
  <1>3. ASSUME NEW t, LoopsOn(t, inbox), DOMAIN t = SessionFields, t.thread = s.thread, t.steer = s.steer,
               t.from = s.from, t.instr = s.instr, t.answer = s.answer,
               ~t.running /\ t.complete =>
                 (Head(wire).m = "complete" /\ ~s.running) \/ (Head(wire).m = "ended" /\ s.complete)
        PROVE  Step \/ (Hears(Head(wire).m, t, inbox) /\ (t.running \/ ~t.complete))
    <2>0. \/ Pauses /\ Ends
          \/ /\ UNCHANGED <<known, turn, server>> /\ wire' = Tail(wire) /\ inbox' = inbox
             /\ \/ (t.running \/ ~t.complete) /\ s' = t /\ UNCHANGED pc
                \/ ~t.running /\ t.complete /\ t.answer # "none" /\ s' = [t EXCEPT !.active = FALSE] /\ pc' = "submitted"
                \/ ~t.running /\ t.complete /\ SendsNow(t, Continuation) /\ pc' = "sending"
      BY <1>1, <1>3, Looping
    <2>1. CASE Pauses /\ Ends
      BY <1>2, <2>1
    <2>2. CASE ~(Pauses /\ Ends)
      <3>1. CASE (t.running \/ ~t.complete) /\ s' = t /\ UNCHANGED pc
        BY <1>1, <2>0, <2>2, <3>1 DEF Hears, Reading
      <3>2. CASE ~t.running /\ t.complete /\ t.answer # "none" /\ s' = [t EXCEPT !.active = FALSE] /\ pc' = "submitted"
        <4>1. Completes
          BY <1>1, <1>3, <2>0, <2>2, <3>2 DEF Completes, Reading
        <4>2. /\ DOMAIN s' = SessionFields /\ s'.thread = s.thread /\ s'.steer = s.steer
              /\ s'.instr = s.instr /\ s'.from = s.from /\ s.answer # "none"
          BY <1>3, <3>2 DEF SessionFields
        <4> QED BY <1>1, <2>0, <2>2, <3>2, <4>1, <4>2 DEF Submits, Reading, Step, Sending1
      <3>3. CASE ~t.running /\ t.complete /\ SendsNow(t, Continuation) /\ pc' = "sending"
        <4>1. Completes
          BY <1>1, <1>3, <2>0, <2>2, <3>3 DEF Completes, Reading
        <4>2. Sent
          BY <1>1, <2>0, <2>2, <3>3 DEF Sent, Reading
        <4>3. \E u : SendsNow(u, Continuation) /\ DOMAIN u = SessionFields
                     /\ u.thread = s.thread /\ u.steer = s.steer /\ u.from = s.from
          BY <1>3, <3>3, Zenon
        <4>4. SendsMore
          BY <4>1, <4>2, <4>3, Zenon DEF SendsMore
        <4> QED BY <4>4 DEF Step, Sending1
      <3> QED BY <2>0, <2>2, <3>1, <3>2, <3>3
    <2> QED BY <2>1, <2>2
  <1>4. CASE ReadComplete
    <2> DEFINE t == [s EXCEPT !.complete = TRUE]
    <2>1. LoopsOn(t, inbox) /\ Head(wire).m = "complete"
      BY <1>4 DEF ReadComplete, Receives
    <2>2. /\ DOMAIN t = SessionFields /\ t.thread = s.thread /\ t.steer = s.steer /\ t.from = s.from
          /\ t.instr = s.instr /\ t.answer = s.answer /\ (t.running <=> s.running) /\ t.complete
      BY <1>1 DEF SessionFields
    <2>3. Step \/ (Hears("complete", t, inbox) /\ s.running)
      <3> HIDE DEF t
      <3> QED BY <1>3, <2>1, <2>2
    <2> QED BY <1>1, <2>3 DEF HearsComplete, Step, Hearing
  <1>5. CASE ReadEnded
    <2> DEFINE t == [s EXCEPT !.running = FALSE, !.turn = FALSE]
    <2>1. LoopsOn(t, inbox) /\ Head(wire).m = "ended"
      BY <1>5 DEF ReadEnded, Receives
    <2>2. /\ DOMAIN t = SessionFields /\ t.thread = s.thread /\ t.steer = s.steer /\ t.from = s.from
          /\ t.instr = s.instr /\ t.answer = s.answer /\ ~t.running /\ (t.complete <=> s.complete)
      BY <1>1 DEF SessionFields
    <2>3. Step \/ (Hears("ended", t, inbox) /\ ~s.complete)
      <3> HIDE DEF t
      <3> QED BY <1>3, <2>1, <2>2
    <2> QED BY <1>1, <2>3 DEF HearsEnded, Step, Hearing
  <1> QED BY <1>4, <1>5

LEMMA AroundIs ==
    ASSUME Sane, Around \/ Hopeless \/ RunnerKilled
    PROVE  Step
  <1>1. CASE Hopeless
    BY <1>1, PausingHalts DEF Hopeless, NoRetryHelps, Step, Between
  <1>2. CASE RunnerKilled
    BY <1>2, PausingHalts DEF RunnerKilled, Killed, Step, Between
  <1>3. CASE PauseEndsWait /\ Alone
    <2>1. s = NoSession /\ turn = "none" /\ inbox = <<>> /\ wire = <<>> /\ server = "off"
      BY <1>3 DEF Sane, PauseEndsWait
    <2> QED BY <1>3, <2>1, PausingHalts DEF PauseEndsWait, Alone, Ends, Step, Between
  <1>4. CASE (UserPauses \/ UserSteers) /\ Alone
    <2>1. queued \in 0 .. MaxSteers /\ MaxSteers \in Nat
      BY AuthorConstants DEF Sane, Typed
    <2>2. queued' \in 0 .. MaxSteers
      BY <1>4, <2>1 DEF UserPauses, UserSteers
    <2> QED BY <1>4, <2>2 DEF UserPauses, UserSteers, Alone, Rests, Step, Between
  <1>5. Around => Alone /\ AroundSession
    BY DEF Around, Alone, codex
  <1>6. Around => Step \/ (Alone /\ (PauseEndsWait \/ UserPauses \/ UserSteers))
    BY <1>5 DEF AroundSession, Retries, Resumes, Accepts, Vanishes, Step, Between
  <1> QED BY <1>1, <1>2, <1>3, <1>4, <1>6

LEMMA StartIs ==
    ASSUME Sane, Start
    PROVE  Step
  <1>1. s = NoSession /\ turn = "none" /\ inbox = <<>> /\ wire = <<>> /\ server = "off"
    BY DEF Sane, Start
  <1>2. CASE pause
    BY <1>1, <1>2, PausingHalts DEF Start, Ends, Step, Between
  <1>3. CASE ~pause
    BY <1>3 DEF Start, Begins, Step, Between
  <1> QED BY <1>2, <1>3

LEMMA SendingIs ==
    ASSUME Sane, FirstTurn \/ IdleContinue \/ Rejected
    PROVE  Step
  <1>1. CASE FirstTurn
    <2>1. CASE pause
      BY <1>1, <2>1, PausingHalts DEF FirstTurn, StartTurn, Step, Between
    <2>2. CASE ~pause
      BY <1>1, <2>2 DEF FirstTurn, StartTurn, Sends, SendsNow, Sent, SendsFirst, codex, Step, Sending1
    <2> QED BY <2>1, <2>2
  <1>2. CASE IdleContinue
    BY <1>2 DEF IdleContinue, StartTurn, Sends, SendsNow, Sent, SendsOn, codex, Step, Sending1
  <1>3. CASE Rejected
    <2>1. CASE pause
      BY <1>3, <2>1, PausingHalts DEF Rejected, Step, Between
    <2>2. CASE ~pause
      BY <1>3, <2>2 DEF Rejected, Sends, SendsNow, Sent, SendsRejection, codex, Step, Sending1
    <2> QED BY <2>1, <2>2
  <1> QED BY <1>1, <1>2, <1>3

\* Every step of Codex, of the runner and of those around it is one of these.
LEMMA Normal ==
    ASSUME Sane, [Next]_vars
    PROVE  Step
  <1>1. CASE OpenNew
    BY <1>1 DEF OpenNew, Opening, codex, OpensNew, Step, Opening1
  <1>2. CASE OpenSaved \/ OpenRemoves \/ GoalIsPaused \/ TurnStarts \/ GoalIsActive \/ Codex \/ WatchSteer \/ WatchPause
    <2>1. (CodexDies => Dies) /\ (GoalIsActive => Activates)
      BY DEF CodexDies, Dies, GoalIsActive, Activates
    <2> QED BY <1>2, <2>1 DEF Codex, Step, Opening1, Sending1, Acting
  <1>3. CASE WatchKills
    BY <1>3 DEF WatchKills, Dies, Step, Acting
  <1>4. CASE UNCHANGED vars
    BY <1>4 DEF vars, step, codex, Sane, Typed, Rests, Step, Between
  <1> QED BY <1>1, <1>2, <1>3, <1>4, StartIs, Refusing, SendingIs, CallFailing, Outgrowing, ReadingIs, SteerAnswerIs,
             EndingIs, TurnFailing, AroundIs DEF Next, Main, Watcher

-----------------------------------------------------------------------------
\* Types

\* The constants among the records.
LEMMA NoneIs ==
    /\ IsRewind(NoRewind) /\ NoRewind.id = 0 /\ NoRewind.fb = 0 /\ NoRewind.kind = "none"
    /\ DOMAIN NoSession = SessionFields /\ NoSession.thread = 0 /\ NoSession.steer = 0 /\ NoSession.from = 0
    /\ NoSession.instr = NoInstr /\ ~NoSession.delivered /\ NoSession.active
    /\ DOMAIN Unknown = KnownFields /\ Unknown.thread = 0 /\ Unknown.steer = 0 /\ Unknown.instr = NoInstr
    /\ Unknown.rewind = NoRewind /\ ~Unknown.replace /\ ~Unknown.retry
    /\ IsInstr(Continuation) /\ Continuation # NoInstr /\ Continuation.fb = 0
    /\ IsInstr(RetryNote) /\ RetryNote # NoInstr /\ RetryNote.fb = 0
    /\ IsInstr(NoInstr) /\ NoInstr.fb = 0
    /\ \A fb \in Nat : \A c : IsInstr(Instr(c, fb)) /\ Instr(c, fb) # NoInstr /\ Instr(c, fb).fb = fb
  <1>1. IsRewind(NoRewind) /\ NoRewind.id = 0 /\ NoRewind.fb = 0 /\ NoRewind.kind = "none"
    BY DEF IsRewind, NoRewind, None
  <1>2. /\ DOMAIN NoSession = SessionFields /\ NoSession.thread = 0 /\ NoSession.steer = 0 /\ NoSession.from = 0
        /\ NoSession.instr = NoInstr /\ ~NoSession.delivered /\ NoSession.active
    BY DEF NoSession, SessionFields, None
  <1>3. /\ DOMAIN Unknown = KnownFields /\ Unknown.thread = 0 /\ Unknown.steer = 0 /\ Unknown.instr = NoInstr
        /\ Unknown.rewind = NoRewind /\ ~Unknown.replace /\ ~Unknown.retry
    BY DEF Unknown, KnownFields, None
  <1>4. /\ IsInstr(Continuation) /\ Continuation # NoInstr /\ Continuation.fb = 0
        /\ IsInstr(RetryNote) /\ RetryNote # NoInstr /\ RetryNote.fb = 0
        /\ IsInstr(NoInstr) /\ NoInstr.fb = 0
    BY DEF Continuation, RetryNote, NoInstr, IsInstr, None
  <1>5. \A fb \in Nat : \A c : IsInstr(Instr(c, fb)) /\ Instr(c, fb) # NoInstr /\ Instr(c, fb).fb = fb
    BY DEF IsInstr, Instr, NoInstr
  <1> QED BY <1>1, <1>2, <1>3, <1>4, <1>5

\* The instructions a session begins with.
LEMMA InstrIs ==
    ASSUME Sane
    PROVE  /\ PendingRepair \in Nat
           /\ IsInstr(Replacement) /\ Replacement # NoInstr /\ Replacement.fb = PendingRepair
           /\ \A b, t : IsInstr(FirstInstruction(b, t)) /\ FirstInstruction(b, t) # NoInstr
  <1>1. IsInstr(known.instr) /\ initial \in Nat /\ feedback \in Nat
    BY DEF Sane, Typed
  <1>3. PendingRepair \in Nat /\ None \in Nat
    BY <1>1 DEF PendingRepair, None
  <1>4. IsInstr(Replacement) /\ Replacement # NoInstr /\ Replacement.fb = PendingRepair
    BY <1>3, NoneIs DEF Replacement
  <1>5. ASSUME NEW b, NEW t
        PROVE  IsInstr(FirstInstruction(b, t)) /\ FirstInstruction(b, t) # NoInstr
    <2>1. CASE Continues /\ known.instr # NoInstr
      BY <1>1, <2>1 DEF FirstInstruction
    <2>2. CASE ~(Continues /\ known.instr # NoInstr)
      BY <1>1, <1>3, <2>2, NoneIs DEF FirstInstruction
    <2> QED BY <2>1, <2>2
  <1> QED BY <1>3, <1>4, <1>5

\* A new conversation, and what a turn, an answer or a removed turn makes of one.
LEMMA ConvIs ==
    ASSUME Sane
    PROVE  /\ \A id \in Nat : LET c == NewConv(id) IN
                /\ DOMAIN c = ConvFields /\ c.id = id /\ ~c.live /\ c.fb = 0 /\ c.steer = conv.steer
                /\ c.kept = NoRewind /\ c.silent = 0 /\ ~c.stale /\ ~c.lost
           /\ \A i, k : LET c == Heard(i, k) IN
                /\ DOMAIN c = ConvFields /\ c.id = conv.id /\ c.fb = (IF i.fb # 0 THEN i.fb ELSE conv.fb)
                /\ c.steer = conv.steer /\ c.kept = Before(k, conv) /\ c.silent = conv.silent + 1
                /\ c.stale = conv.stale /\ c.lost = conv.lost
           /\ LET c == Settled(conv) IN
                /\ DOMAIN c = ConvFields /\ c.id = conv.id /\ c.fb = conv.fb /\ c.live = conv.live
                /\ c.steer = conv.steer /\ c.kept = conv.kept /\ c.silent = 0 /\ c.stale /\ c.lost = conv.lost
           /\ \A r : LET c == Removed(r) IN
                /\ DOMAIN c = ConvFields /\ c.id = conv.id /\ c.fb = r.fb /\ c.live = conv.live
                /\ c.steer = conv.steer /\ c.kept = NoRewind /\ c.silent = r.silent
                /\ c.stale = conv.stale /\ (c.lost <=> conv.lost \/ conv.stale)
           /\ \A k \in {"turn"} : LET r == Before(k, conv) IN
                IsRewind(r) /\ r.kind = k /\ r.id = conv.id /\ r.fb = conv.fb /\ r.silent = conv.silent
  <1>1. DOMAIN conv = ConvFields /\ conv.id \in Nat /\ conv.fb \in Nat /\ conv.steer \in Nat /\ conv.silent \in Nat
    BY DEF Sane, Typed
  <1>2. \A id \in Nat : LET c == NewConv(id) IN
                /\ DOMAIN c = ConvFields /\ c.id = id /\ ~c.live /\ c.fb = 0 /\ c.steer = conv.steer
                /\ c.kept = NoRewind /\ c.silent = 0 /\ ~c.stale /\ ~c.lost
    BY DEF NewConv, ConvFields, None
  <1>3. \A i, k : LET c == Heard(i, k) IN
                /\ DOMAIN c = ConvFields /\ c.id = conv.id /\ c.fb = (IF i.fb # 0 THEN i.fb ELSE conv.fb)
                /\ c.steer = conv.steer /\ c.kept = Before(k, conv) /\ c.silent = conv.silent + 1
                /\ c.stale = conv.stale /\ c.lost = conv.lost
    BY <1>1 DEF Heard, ConvFields, None
  <1>4. LET c == Settled(conv) IN
                /\ DOMAIN c = ConvFields /\ c.id = conv.id /\ c.fb = conv.fb /\ c.live = conv.live
                /\ c.steer = conv.steer /\ c.kept = conv.kept /\ c.silent = 0 /\ c.stale /\ c.lost = conv.lost
    BY <1>1 DEF Settled, ConvFields
  <1>5. \A r : LET c == Removed(r) IN
                /\ DOMAIN c = ConvFields /\ c.id = conv.id /\ c.fb = r.fb /\ c.live = conv.live
                /\ c.steer = conv.steer /\ c.kept = NoRewind /\ c.silent = r.silent
                /\ c.stale = conv.stale /\ (c.lost <=> conv.lost \/ conv.stale)
    BY <1>1 DEF Removed, ConvFields
  <1>6. \A k \in {"turn"} : LET r == Before(k, conv) IN
                IsRewind(r) /\ r.kind = k /\ r.id = conv.id /\ r.fb = conv.fb /\ r.silent = conv.silent
    BY <1>1 DEF Before, IsRewind
  <1> QED BY <1>2, <1>3, <1>4, <1>5, <1>6

\* The facts that hold of every state.
LEMMA TypesAre ==
    ASSUME Sane
    PROVE  /\ DOMAIN s = SessionFields /\ DOMAIN known = KnownFields /\ DOMAIN conv = ConvFields
           /\ DOMAIN noted = {"thread", "steer", "repair"}
           /\ wire \in Seq(Messages) /\ inbox \in Seq(Nat)
           /\ s.steer \in Nat /\ s.steer + 1 \in Nat /\ s.from \in Nat /\ known.steer \in Nat /\ noted.steer \in Nat
           /\ conv.id \in Nat /\ conv.id + 1 \in Nat /\ conv.fb \in Nat /\ conv.steer \in Nat /\ conv.silent \in Nat
           /\ Anchor \in Nat
  <1>1. /\ DOMAIN s = SessionFields /\ DOMAIN known = KnownFields /\ DOMAIN conv = ConvFields
        /\ DOMAIN noted = {"thread", "steer", "repair"}
        /\ wire \in Seq(Messages) /\ inbox \in Seq(Nat)
    BY DEF Sane, Typed
  <1>2. s.steer \in Nat /\ s.from \in Nat /\ known.steer \in Nat /\ noted.steer \in Nat
    BY DEF Sane, Typed
  <1>3. conv.id \in Nat /\ conv.fb \in Nat /\ conv.steer \in Nat /\ conv.silent \in Nat
    BY DEF Sane, Typed
  <1>4. s.steer + 1 \in Nat /\ conv.id + 1 \in Nat
    BY <1>2, <1>3
  <1>5. Anchor \in Nat
    BY AuthorConstants DEF Anchor
  <1> QED BY <1>1, <1>2, <1>3, <1>4, <1>5

\* The messages with which Codex ends a turn.
LEMMA EndTurnIs ==
    ASSUME Sane, CodexEndsTurn
    PROVE  LET a == [m |-> "answer", item |-> conv.fb] e == Msg("ended") c == Msg("complete") f == Msg("failed") IN
           /\ a \in Messages /\ e \in Messages /\ c \in Messages /\ f \in Messages
           /\ a.m = "answer" /\ a.item = conv.fb /\ e.m = "ended" /\ c.m = "complete" /\ f.m = "failed"
           /\ pc = "turn" /\ turn # "none" /\ turn' = "none" /\ server = "up" /\ UNCHANGED <<pc, step, s, excused, inbox, server>>
           /\ \/ wire' = Append(wire, e) /\ conv.silent = 0 /\ UNCHANGED conv
              \/ wire' = Append(wire, f) /\ UNCHANGED conv
              \/ wire' = Append(Append(wire, a), e) /\ conv' = Settled(conv)
              \/ wire' = Append(Append(Append(wire, a), e), c) /\ conv' = Settled(conv)
              \/ wire' = Append(Append(Append(wire, a), c), e) /\ conv' = Settled(conv)
  <1> DEFINE a == [m |-> "answer", item |-> conv.fb]
             e == Msg("ended")
             c == Msg("complete")
             f == Msg("failed")
  <1>0. wire \in Seq(Messages) /\ conv.fb \in Nat
    BY TypesAre
  <1>1. /\ a \in Messages /\ e \in Messages /\ c \in Messages /\ f \in Messages
        /\ a.m = "answer" /\ a.item = conv.fb /\ e.m = "ended" /\ c.m = "complete" /\ f.m = "failed"
    BY <1>0 DEF Msg, Messages, Kinds
  <1>2. /\ pc = "turn" /\ turn # "none" /\ turn' = "none" /\ server = "up" /\ UNCHANGED <<pc, step, s, excused, inbox, server>>
        /\ \/ wire' = wire \o <<e>> /\ conv.silent = 0 /\ UNCHANGED conv
           \/ wire' = wire \o <<f>> /\ UNCHANGED conv
           \/ wire' = wire \o <<a, e>> /\ conv' = Settled(conv)
           \/ wire' = wire \o <<a, e, c>> /\ conv' = Settled(conv)
           \/ wire' = wire \o <<a, c, e>> /\ conv' = Settled(conv)
    BY DEF CodexEndsTurn, Says, CodexOnly
  <1> HIDE DEF a, e, c, f
  <1>3. /\ wire \o <<e>> = Append(wire, e) /\ wire \o <<a, e>> = Append(Append(wire, a), e)
        /\ wire \o <<a, e, c>> = Append(Append(Append(wire, a), e), c)
    BY <1>0, <1>1, SaysIs
  <1>4. wire \o <<f>> = Append(wire, f)
    BY <1>0, <1>1, SaysIs
  <1>5. wire \o <<a, c, e>> = Append(Append(Append(wire, a), c), e)
    BY <1>0, <1>1, SaysIs
  <1>6. \/ wire' = Append(wire, e) /\ conv.silent = 0 /\ UNCHANGED conv
        \/ wire' = Append(wire, f) /\ UNCHANGED conv
        \/ wire' = Append(Append(wire, a), e) /\ conv' = Settled(conv)
        \/ wire' = Append(Append(Append(wire, a), e), c) /\ conv' = Settled(conv)
        \/ wire' = Append(Append(Append(wire, a), c), e) /\ conv' = Settled(conv)
    BY <1>2, <1>3, <1>4, <1>5
  <1> QED BY <1>1, <1>2, <1>6 DEF a, e, c, f

\* Any other message of Codex.
LEMMA SayingIs ==
    ASSUME Sane, CodexWorks \/ CodexCompacts \/ CodexContinues \/ WatchPause
    PROVE  \E r \in Messages :
             /\ r.m = (IF CodexWorks THEN "output" ELSE IF CodexCompacts THEN "compacted"
                       ELSE IF CodexContinues THEN "started" ELSE "failed")
             /\ wire' = Append(wire, r)
  <1>0. wire \in Seq(Messages)
    BY TypesAre
  <1>1. \A k \in Kinds : Msg(k) \in Messages /\ Msg(k).m = k /\ wire \o <<Msg(k)>> = Append(wire, Msg(k))
    <2> TAKE k \in Kinds
    <2>1. Msg(k) \in Messages /\ Msg(k).m = k
      BY DEF Msg, Messages
    <2> QED BY <1>0, <2>1, SaysIs
  <1>2. {"output", "compacted", "started", "failed"} \subseteq Kinds
    BY DEF Kinds
  <1>3. CASE CodexWorks
    BY <1>1, <1>2, <1>3 DEF CodexWorks, Says
  <1>4. CASE ~CodexWorks /\ CodexCompacts
    BY <1>1, <1>2, <1>4 DEF CodexCompacts, Says
  <1>5. CASE ~CodexWorks /\ ~CodexCompacts /\ CodexContinues
    BY <1>1, <1>2, <1>5 DEF CodexContinues, Says
  <1>6. CASE ~CodexWorks /\ ~CodexCompacts /\ ~CodexContinues /\ WatchPause
    BY <1>1, <1>2, <1>6 DEF WatchPause
  <1> QED BY <1>3, <1>4, <1>5, <1>6

\* A session that is over: what is left are the records of the step.
LEMMA OverSane ==
    ASSUME Sane, Over, pc' \in {"waiting", "paused"},
           UNCHANGED <<initial, queued, conv>>, feedback' \in Nat,
           DOMAIN noted' = DOMAIN noted, noted'.thread = noted.thread, noted'.steer \in Nat,
           DOMAIN known' = KnownFields, known'.thread \in {0, conv.id}, known'.steer \in Nat,
           IsInstr(known'.instr), IsRewind(known'.rewind), known'.rewind.id <= conv.id
    PROVE  Sane'
  <1>1. Typed'
    <2>1. s' = NoSession /\ wire' = <<>> /\ inbox' = <<>>
      BY DEF Over
    <2>2. DOMAIN s' = SessionFields /\ s'.thread \in Nat /\ s'.steer \in Nat /\ s'.from \in Nat /\ IsInstr(s'.instr)
      BY <2>1, NoneIs
    <2>3. wire' \in Seq(Messages) /\ inbox' \in Seq(Nat)
      BY <2>1
    <2>4. known'.thread \in Nat
      <3>1. conv.id \in Nat
        BY DEF Sane, Typed
      <3> QED BY <3>1
    <2> QED BY <2>2, <2>3, <2>4 DEF Sane, Typed
  <1> QED BY <1>1 DEF Sane, Over, Before1, Opened, Calling, None

LEMMA HaltsSane ==
    ASSUME Sane, Halts
    PROVE  Sane'
  <1>1. DOMAIN noted' = DOMAIN noted /\ noted'.thread = noted.thread /\ noted'.steer \in Nat
    <2>1. CASE UNCHANGED noted
      BY <2>1 DEF Sane, Typed
    <2>2. CASE wire # <<>> /\ noted' = [noted EXCEPT !.steer = Head(wire).item]
      <3>1. Head(wire) \in Messages
        BY <2>2, TailIs DEF Sane, Typed
      <3> QED BY <2>2, <3>1 DEF Sane, Typed, Messages
    <2> QED BY <2>1, <2>2 DEF Halts
  <1>2. feedback' \in Nat
    BY DEF Halts, Sane, Typed
  <1>3. known' = Unknown /\ pc' = "paused" /\ Over /\ UNCHANGED <<initial, queued, conv>> /\ conv.id \in Nat
    BY DEF Halts, Sane, Typed
  <1>4. known'.thread \in {0, conv.id} /\ known'.steer \in Nat /\ known'.rewind.id <= conv.id
    BY <1>3, NoneIs
  <1> QED BY <1>1, <1>2, <1>3, <1>4, NoneIs, OverSane

LEMMA FailingSane ==
    ASSUME Sane, Failing
    PROVE  Sane'
  <1>1. /\ pc' = "waiting" /\ Over /\ DOMAIN known' = KnownFields
        /\ known'.steer = IF s.steer # 0 THEN s.steer ELSE known.steer
        /\ UNCHANGED <<feedback, initial, queued, noted, conv>>
    BY DEF Failing, FailsOpening, FailsSending, FailsTurn, Outgrows, FailedAt
  <1>2. /\ known'.steer \in Nat /\ feedback' \in Nat /\ DOMAIN noted' = DOMAIN noted /\ noted'.steer \in Nat
        /\ noted'.thread = noted.thread /\ conv.id \in Nat
    BY <1>1 DEF Sane, Typed
  <1>3. /\ IsInstr(known.instr) /\ IsInstr(s.instr) /\ IsInstr(RetryNote) /\ IsInstr(Replacement)
        /\ IsRewind(known.rewind) /\ IsRewind(NoRewind) /\ IsRewind(conv.kept)
        /\ known.rewind.id <= conv.id /\ NoRewind.id <= conv.id /\ conv.kept.id <= conv.id
    BY <1>2, InstrIs, NoneIs DEF Sane, Typed
  <1>4. IsInstr(known'.instr) /\ IsRewind(known'.rewind) /\ known'.rewind.id <= conv.id
    <2>1. CASE FailsOpening
      BY <1>3, <2>1 DEF FailsOpening
    <2>2. CASE FailsSending
      BY <1>3, <2>2 DEF FailsSending
    <2>3. CASE FailsTurn
      BY <1>3, <2>3 DEF FailsTurn
    <2>4. CASE Outgrows
      BY <1>3, <2>4 DEF Outgrows
    <2> QED BY <2>1, <2>2, <2>3, <2>4 DEF Failing
  <1>5. known'.thread \in {0, conv.id}
    <2>1. CASE FailsOpening
      <3>1. s.thread \in {0, conv.id}
        BY <2>1 DEF FailsOpening, FailedAt, Sane, Opened, None
      <3>2. s.thread = 0 => known.thread \in {0, conv.id}
        BY <2>1 DEF FailsOpening, FailedAt, Sane, Opened, Before1, None
      <3> QED BY <2>1, <3>1, <3>2 DEF FailsOpening, None
    <2>2. CASE FailsSending \/ FailsTurn \/ Outgrows
      BY <2>2 DEF FailsSending, FailsTurn, Outgrows, FailedAt, Sane, Opened, Calling, None
    <2> QED BY <2>1, <2>2 DEF Failing
  <1> QED BY <1>1, <1>2, <1>4, <1>5, OverSane

LEMMA BetweenSane ==
    ASSUME Sane, Between
    PROVE  Sane'
  <1>1. CASE Rests
    BY <1>1 DEF Rests, Sane, Typed
  <1>2. CASE Begins
    <2> DEFINE k == IF known.steer # 0 THEN known.steer ELSE noted.steer
    <2>1. k \in Nat
      BY DEF Sane, Typed
    <2>2. s' = [NoSession EXCEPT !.steer = k, !.anchor = Continues /\ known.anchor]
      BY <1>2 DEF Begins, Fresh
    <2> HIDE DEF k
    <2>3. /\ DOMAIN s' = SessionFields /\ s'.thread = 0 /\ s'.from = 0 /\ s'.steer = k /\ s'.instr = NoInstr
          /\ ~s'.delivered
      BY <2>2, NoneIs DEF SessionFields
    <2>4. Typed'
      BY <1>2, <2>1, <2>3, NoneIs DEF Begins, Sane, Typed, Attempting, Calls
    <2> QED BY <1>2, <2>3, <2>4 DEF Begins, Sane, Before1, Opened, Calling, None
  <1>3. CASE Retries
    <2>1. /\ DOMAIN known' = KnownFields /\ known'.thread \in {0, known.thread}
          /\ known'.steer = known.steer /\ known'.instr = known.instr /\ known'.rewind = known.rewind
      BY <1>3 DEF Retries, Retry, Sane, Typed, KnownFields, None
    <2>2. /\ pc = "waiting" /\ pc' = "launch"
          /\ UNCHANGED <<feedback, initial, queued, noted, s, conv, turn, inbox, wire, server>>
      BY <1>3 DEF Retries, Retry, Alone
    <2>3. Typed'
      BY <2>1, <2>2 DEF Sane, Typed
    <2> QED BY <2>1, <2>2, <2>3 DEF Sane, Before1, Opened, Calling, None
  <1>4. CASE Resumes
    <2>1. /\ pc = "paused" /\ pc' = "launch" /\ known' = [Unknown EXCEPT !.thread = noted.thread]
          /\ initial' = feedback /\ conv' = Settled(conv)
          /\ UNCHANGED <<feedback, queued, noted, s, turn, inbox, wire, server>>
      BY <1>4 DEF Resumes, Resume, Alone
    <2>2. /\ DOMAIN known' = KnownFields /\ known'.thread = noted.thread /\ known'.steer = 0
          /\ known'.instr = NoInstr /\ known'.rewind = NoRewind
      BY <2>1, NoneIs DEF KnownFields
    <2>3. /\ DOMAIN conv' = ConvFields /\ conv'.id = conv.id /\ conv'.fb = conv.fb
          /\ conv'.steer = conv.steer /\ conv'.kept = conv.kept /\ conv'.silent = 0
      BY <2>1, ConvIs
    <2>4. Typed'
      BY <2>1, <2>2, <2>3, NoneIs DEF Sane, Typed
    <2> QED BY <2>1, <2>2, <2>3, <2>4, NoneIs DEF Sane, Typed, Before1, Opened, Calling, None
  <1>5. CASE Accepts
    BY <1>5 DEF Accepts, Accepted, Alone, step, Sane, Typed, Before1, Opened, Calling
  <1>6. CASE Vanishes
    <2>1. /\ DOMAIN conv' = ConvFields /\ conv'.id = conv.id /\ conv'.fb = conv.fb
          /\ conv'.steer = conv.steer /\ conv'.kept = conv.kept /\ conv'.silent = conv.silent
      BY <1>6 DEF Vanishes, ConversationVanishes, Sane, Typed, ConvFields
    <2>2. UNCHANGED <<pc, known, feedback, initial, queued, noted, s, turn, inbox, wire, server>>
      BY <1>6 DEF Vanishes, ConversationVanishes, Alone
    <2>3. Typed'
      BY <2>1, <2>2 DEF Sane, Typed
    <2> QED BY <2>1, <2>2, <2>3 DEF Sane
  <1> QED BY <1>1, <1>2, <1>3, <1>4, <1>5, <1>6, HaltsSane DEF Between

LEMMA OpeningSane ==
    ASSUME Sane, Opening1
    PROVE  Sane'
  <1>1. CASE OpensNew
    <2>1. PICK i : i # NoInstr /\ IsInstr(i) /\ NewThread(i)
      BY <1>1, InstrIs DEF OpensNew
    <2>0. conv.id \in Nat
      BY DEF Sane, Typed
    <2>2. conv' = NewConv(conv.id + 1) /\ conv.id \in Nat /\ conv.id + 1 \in Nat
      BY <2>0, <2>1 DEF NewThread
    <2>3. /\ DOMAIN conv' = ConvFields /\ conv'.id = conv.id + 1 /\ conv'.fb = 0 /\ conv'.steer = conv.steer
          /\ conv'.kept = NoRewind /\ conv'.silent = 0
      BY <2>2, ConvIs
    <2>4. /\ pc' = "opened" /\ noted' = [noted EXCEPT !.thread = conv.id + 1]
          /\ s' = [s EXCEPT !.thread = conv.id + 1, !.instr = i, !.rewound = FALSE]
      BY <2>1 DEF NewThread, Opens
    <2>5. /\ DOMAIN s' = SessionFields /\ s'.thread = conv.id + 1 /\ s'.steer = s.steer /\ s'.from = s.from
          /\ s'.instr = i
      BY <2>4 DEF Sane, Typed, SessionFields
    <2>6. DOMAIN noted' = DOMAIN noted /\ noted'.thread = conv.id + 1 /\ noted'.steer = noted.steer
      BY <2>4 DEF Sane, Typed
    <2>7. pc = "opening" /\ UNCHANGED <<known, feedback, initial, queued, turn, inbox, wire, server>>
      BY <1>1 DEF OpensNew
    <2>8. Typed'
      <3>1. IsRewind(conv'.kept) /\ IsInstr(s'.instr) /\ conv'.id \in Nat /\ conv'.fb \in Nat /\ conv'.silent \in Nat
        BY <2>1, <2>2, <2>3, <2>5, NoneIs
      <3>2. s'.thread \in Nat /\ noted'.thread \in Nat
        BY <2>2, <2>5, <2>6
      <3> QED BY <2>3, <2>4, <2>5, <2>6, <2>7, <3>1, <3>2 DEF Sane, Typed, Attempting, Calls
    <2>9. known.rewind.id <= conv.id /\ known.rewind.id \in Nat
      BY DEF Sane, Typed, IsRewind
    <2>10. known'.rewind.id <= conv'.id /\ conv'.kept.id <= conv'.id /\ conv'.id > 0 /\ conv'.kept.kind = "none"
      BY <2>2, <2>3, <2>7, <2>9, NoneIs
    <2> QED BY <2>1, <2>3, <2>4, <2>5, <2>6, <2>7, <2>8, <2>10 DEF Sane, Before1, Opened, Calling
  <1>2. ASSUME OpenSaved \/ OpenRemoves PROVE Sane'
    <2>1. PICK i, b : i # NoInstr /\ IsInstr(i) /\ Opens(conv.id, i, b)
      BY <1>2, InstrIs DEF OpenSaved, OpenRemoves
    <2>2. /\ pc' = "opened" /\ noted' = [noted EXCEPT !.thread = conv.id]
          /\ s' = [s EXCEPT !.thread = conv.id, !.instr = i, !.rewound = b]
      BY <2>1 DEF Opens
    <2>3. /\ DOMAIN s' = SessionFields /\ s'.thread = conv.id /\ s'.steer = s.steer /\ s'.from = s.from
          /\ s'.instr = i
      BY <2>2 DEF Sane, Typed, SessionFields
    <2>4. DOMAIN noted' = DOMAIN noted /\ noted'.thread = conv.id /\ noted'.steer = noted.steer
      BY <2>2 DEF Sane, Typed
    <2>5. /\ pc = "opening" /\ known.thread = conv.id /\ conv.id > 0 /\ conv.id \in Nat
          /\ UNCHANGED <<feedback, initial, queued, turn, inbox, wire, server>>
      <3>1. /\ pc = "opening" /\ known.thread # None
            /\ UNCHANGED <<feedback, initial, queued, turn, inbox, wire, server>>
        BY <1>2 DEF OpenSaved, OpenRemoves, Opening, codex
      <3>2. known.thread \in {None, conv.id} /\ conv.id \in Nat
        BY <3>1 DEF Sane, Typed, Before1
      <3> QED BY <3>1, <3>2 DEF None
    <2>6. CASE OpenSaved
      <3>1. UNCHANGED <<known, conv>>
        BY <2>6 DEF OpenSaved
      <3>2. Typed'
        BY <2>1, <2>2, <2>3, <2>4, <2>5, <3>1 DEF Sane, Typed, Attempting, Calls
      <3> QED BY <2>1, <2>2, <2>3, <2>4, <2>5, <3>1, <3>2 DEF Sane, Before1, Opened, Calling
    <2>7. CASE OpenRemoves
      <3>1. conv' = Removed(known.rewind) /\ known' = [known EXCEPT !.rewind.kind = "gone"]
        BY <2>7 DEF OpenRemoves
      <3>2. /\ DOMAIN conv' = ConvFields /\ conv'.id = conv.id /\ conv'.fb = known.rewind.fb
            /\ conv'.steer = conv.steer /\ conv'.kept = NoRewind /\ conv'.silent = known.rewind.silent
        BY <3>1, ConvIs
      <3>3. IsRewind(known.rewind) /\ DOMAIN known = KnownFields /\ known.rewind.id <= conv.id
        BY DEF Sane, Typed
      <3>4. known' = [known EXCEPT !.rewind = [known.rewind EXCEPT !.kind = "gone"]]
        BY <3>1, <3>3 DEF KnownFields
      <3>5. /\ DOMAIN known' = KnownFields /\ known'.thread = known.thread /\ known'.steer = known.steer
            /\ known'.instr = known.instr /\ known'.rewind = [known.rewind EXCEPT !.kind = "gone"]
        BY <3>3, <3>4 DEF KnownFields
      <3>6. IsRewind(known'.rewind) /\ known'.rewind.id = known.rewind.id
        BY <3>3, <3>5 DEF IsRewind
      <3>7. Typed'
        BY <2>1, <2>2, <2>3, <2>4, <2>5, <3>2, <3>3, <3>5, <3>6, NoneIs DEF Sane, Typed, IsRewind, Attempting, Calls
      <3> QED BY <2>1, <2>2, <2>3, <2>4, <2>5, <3>2, <3>3, <3>5, <3>6, <3>7, NoneIs DEF Sane, Before1, Opened, Calling
    <2> QED BY <1>2, <2>6, <2>7
  <1> QED BY <1>1, <1>2 DEF Opening1

LEMMA SendingSane ==
    ASSUME Sane, Sending1
    PROVE  Sane'
  <1>0. wire # <<>> => Tail(wire) \in Seq(Messages)
    BY TailIs DEF Sane, Typed
  <1>1. ASSUME NEW t, NEW i, SendsNow(t, i), DOMAIN t = SessionFields, IsInstr(i), i # NoInstr,
               t.thread = conv.id, t.steer \in Nat, t.from \in Nat, conv.id > 0,
               Sent, feedback' \in Nat, wire' \in {wire, Tail(wire)}, wire' \in Seq(Messages),
               DOMAIN known' = KnownFields, known'.thread \in Nat, known'.steer \in Nat,
               IsInstr(known'.instr), IsRewind(known'.rewind), known'.rewind.id <= conv.id
        PROVE  Sane'
    <2>1. /\ DOMAIN s' = SessionFields /\ s'.thread = conv.id /\ s'.steer = t.steer /\ s'.from = t.from
          /\ s'.instr = i /\ ~s'.delivered /\ ~s'.output /\ ~s'.steered /\ ~s'.own /\ s'.running /\ ~s'.complete
          /\ s'.answer = "none"
      BY <1>1 DEF SendsNow, SessionFields
    <2>2. pc' = "sending" /\ UNCHANGED <<initial, queued, noted, conv, turn, inbox, server>>
      BY <1>1 DEF Sent
    <2>3. Typed'
      BY <1>1, <2>1, <2>2 DEF Sane, Typed, Attempting, Calls
    <2> QED BY <1>1, <2>1, <2>2, <2>3 DEF Sane, Before1, Opened, Calling
  <1>2. /\ DOMAIN s = SessionFields /\ s.thread \in Nat /\ s.steer \in Nat /\ s.from \in Nat /\ IsInstr(s.instr)
        /\ DOMAIN known = KnownFields /\ known.thread \in Nat /\ known.steer \in Nat
        /\ IsInstr(known.instr) /\ IsRewind(known.rewind) /\ known.rewind.id <= conv.id
        /\ feedback \in Nat /\ wire \in Seq(Messages) /\ conv.id \in Nat /\ noted.thread = conv.id
    BY DEF Sane, Typed
  <1>3. CASE SendsFirst
    <2>1. s.instr # NoInstr /\ s.thread = conv.id /\ conv.id > 0
      BY <1>3 DEF SendsFirst, Sane, Opened
    <2> QED BY <1>1, <1>2, <1>3, <2>1 DEF SendsFirst
  <1>4. CASE SendsOn
    <2>1. s.thread = conv.id /\ conv.id > 0
      BY <1>4 DEF SendsOn, Sane, Opened
    <2> QED BY <1>1, <1>2, <1>4, <2>1, NoneIs DEF SendsOn
  <1>5. CASE SendsMore
    <2>1. s.thread = conv.id /\ conv.id > 0 /\ wire' \in Seq(Messages)
      BY <1>0, <1>5 DEF SendsMore, Completes, Sane, Opened
    <2>2. UNCHANGED <<known, feedback>> /\ wire' = Tail(wire) /\ Sent
      BY <1>5 DEF SendsMore, Completes
    <2>3. PICK t : SendsNow(t, Continuation) /\ DOMAIN t = SessionFields
                   /\ t.thread = s.thread /\ t.steer = s.steer /\ t.from = s.from
      BY <1>5, Zenon DEF SendsMore
    <2> QED BY <1>1, <1>2, <2>1, <2>2, <2>3, NoneIs
  <1>6. CASE SendsRejection
    <2>1. s.thread = conv.id /\ conv.id > 0
      BY <1>6 DEF SendsRejection, Sane, Opened
    <2>2. /\ DOMAIN known' = KnownFields /\ known'.thread = conv.id /\ known'.steer = 0
          /\ known'.instr = NoInstr /\ known'.rewind = NoRewind
      BY <1>2, <1>6, NoneIs DEF SendsRejection, KnownFields
    <2>3. feedback' \in Nat /\ wire' = wire
      BY <1>2, <1>6 DEF SendsRejection
    <2>5. Sent /\ SendsNow(s, Instr(FALSE, feedback'))
      BY <1>6 DEF SendsRejection
    <2>4. IsInstr(Instr(FALSE, feedback')) /\ Instr(FALSE, feedback') # NoInstr
      BY <2>3, NoneIs
    <2>6. known'.thread \in Nat /\ known'.rewind.id <= conv.id
      BY <1>2, <2>2, NoneIs
    <2>7. known'.steer \in Nat /\ IsInstr(known'.instr) /\ IsRewind(known'.rewind) /\ wire' \in Seq(Messages)
      BY <1>2, <2>2, <2>3, NoneIs
    <2> QED BY <1>1, <1>2, <2>1, <2>2, <2>3, <2>4, <2>5, <2>6, <2>7
  <1>7. CASE GoalIsPaused
    <2>1. /\ DOMAIN s' = SessionFields /\ s'.thread = s.thread /\ s'.steer = s.steer /\ s'.from = s.from
          /\ s'.instr = s.instr /\ s'.delivered = s.delivered /\ s'.output = s.output /\ s'.steered = s.steered
          /\ s'.own = s.own /\ s'.running = s.running /\ s'.complete = s.complete /\ s'.answer = s.answer
      BY <1>2, <1>7 DEF GoalIsPaused, SessionFields
    <2>2. /\ pc = "sending" /\ pc' = "starting"
          /\ UNCHANGED <<known, feedback, initial, queued, noted, conv, turn, inbox, wire, server>>
      BY <1>7 DEF GoalIsPaused, step, codex
    <2>3. Typed'
      BY <2>1, <2>2 DEF Sane, Typed, Attempting, Calls
    <2> QED BY <2>1, <2>2, <2>3 DEF Sane, Before1, Opened, Calling
  <1>8. CASE TurnStarts
    <2>1. /\ pc = "starting" /\ UNCHANGED <<known, feedback, initial, queued, inbox, wire>>
          /\ \/ /\ pc' = "turn" /\ conv' = [Heard(s.instr, "turn") EXCEPT !.stale = FALSE]
                /\ s' = [s EXCEPT !.delivered = TRUE, !.own = TRUE, !.turn = TRUE, !.activating = TRUE]
                /\ noted' \in {noted, [noted EXCEPT !.repair = [thread |-> s.thread, fb |-> PendingRepair]]}
             \/ conv' = Heard(s.instr, "turn") /\ UNCHANGED <<pc, s, noted>>
      BY <1>8 DEF TurnStarts
    <2> DEFINE h == Heard(s.instr, "turn")
    <2>2. /\ DOMAIN h = ConvFields /\ h.id = conv.id /\ h.steer = conv.steer
          /\ h.fb = (IF s.instr.fb # 0 THEN s.instr.fb ELSE conv.fb)
          /\ h.kept = Before("turn", conv) /\ h.silent = conv.silent + 1
      BY ConvIs
    <2>3. IsRewind(h.kept) /\ h.kept.id = conv.id
      BY <2>2, ConvIs
    <2> HIDE DEF h
    <2>4. /\ DOMAIN conv' = ConvFields /\ conv'.id = conv.id /\ conv'.steer = conv.steer
          /\ conv'.fb = h.fb /\ conv'.kept = h.kept /\ conv'.silent = conv.silent + 1
      BY <2>1, <2>2 DEF ConvFields, h
    <2>5. conv'.fb \in Nat /\ conv'.silent \in Nat
      <3>1. s.instr.fb \in Nat /\ conv.fb \in Nat /\ conv.silent \in Nat
        BY DEF Sane, Typed, IsInstr
      <3> QED BY <2>2, <2>4, <3>1
    <2>6. DOMAIN noted' = DOMAIN noted /\ noted'.thread = noted.thread /\ noted'.steer = noted.steer
      BY <2>1 DEF Sane, Typed
    <2>7. /\ DOMAIN s' = SessionFields /\ s'.thread = s.thread /\ s'.steer = s.steer /\ s'.from = s.from
          /\ s'.instr = s.instr /\ s'.running = s.running /\ s'.complete = s.complete
          /\ (pc' = "turn" /\ s'.delivered) \/ (pc' = "starting" /\ s' = s)
      BY <1>2, <2>1 DEF SessionFields
    <2>8. Typed'
      BY <2>1, <2>3, <2>4, <2>5, <2>6, <2>7 DEF Sane, Typed, Attempting, Calls
    <2>11. /\ s.thread = conv.id /\ conv.id > 0 /\ s.instr # NoInstr /\ noted.thread = conv.id
           /\ ~s.delivered /\ ~s.output /\ ~s.steered /\ ~s.own /\ s.running /\ ~s.complete /\ s.answer = "none"
           /\ known.rewind.id <= conv.id
      BY <2>1 DEF Sane, Opened, Calling
    <2>12. /\ known'.rewind.id <= conv'.id /\ conv'.kept.id = conv'.id /\ noted'.thread = conv'.id
           /\ conv'.kept.id <= conv'.id
      <3>1. conv.id \in Nat
        BY DEF Sane, Typed
      <3> QED BY <2>1, <2>3, <2>4, <2>6, <2>11, <3>1
    <2>9. CASE pc' = "turn"
      BY <2>4, <2>7, <2>8, <2>9, <2>11, <2>12 DEF Sane, Before1, Opened, Calling
    <2>10. CASE pc' = "starting" /\ s' = s
      BY <2>4, <2>8, <2>10, <2>11, <2>12 DEF Sane, Before1, Opened, Calling
    <2> QED BY <2>7, <2>9, <2>10
  <1>9. CASE Submits
    <2>1. /\ pc = "turn" /\ wire # <<>> /\ wire' = Tail(wire) /\ pc' = "submitted"
          /\ UNCHANGED <<known, feedback, initial, queued, noted, conv, turn, inbox, server>>
          /\ DOMAIN s' = SessionFields /\ s'.thread = s.thread /\ s'.steer = s.steer
          /\ s'.instr = s.instr /\ s'.from = s.from
      BY <1>9 DEF Submits, Completes
    <2>2. Typed'
      BY <1>0, <2>1 DEF Sane, Typed
    <2> QED BY <2>1, <2>2 DEF Sane, Before1, Opened, Calling
  <1> QED BY <1>3, <1>4, <1>5, <1>6, <1>7, <1>8, <1>9 DEF Sending1

LEMMA HearingSane ==
    ASSUME Sane, Hearing
    PROVE  Sane'
  <1>1. PICK m, t, box : Hears(m, t, box)
    BY Zenon DEF Hearing, HearsStarted, HearsOutput, HearsCompacted, HearsTook, HearsDeclined, HearsAnswer,
          HearsComplete, HearsEnded
  <1>2. /\ pc = "turn" /\ wire # <<>> /\ wire' = Tail(wire)
        /\ UNCHANGED <<pc, known, feedback, initial, queued, conv, turn, server>>
    BY <1>1 DEF Hears
  <1>3. wire' \in Seq(Messages) /\ Head(wire).item \in Nat
    <2>1. Head(wire) \in Messages /\ Tail(wire) \in Seq(Messages)
      BY <1>2, TailIs DEF Sane, Typed
    <2> QED BY <1>2, <2>1 DEF Messages
  <1>4. /\ DOMAIN s = SessionFields /\ s.steer \in Nat /\ s.from \in Nat /\ inbox \in Seq(Nat) /\ Anchor \in Nat
        /\ s.delivered /\ (s.running \/ ~s.complete) /\ noted.steer \in Nat
        /\ DOMAIN noted = {"thread", "steer", "repair"}
    <2>1. s.delivered /\ (s.running \/ ~s.complete)
      BY <1>2 DEF Sane
    <2> QED BY <2>1, TypesAre
  <1>5. /\ DOMAIN s' = SessionFields /\ s'.thread = s.thread /\ s'.instr = s.instr /\ s'.delivered = s.delivered
        /\ s'.steer \in Nat /\ s'.from \in Nat /\ (s'.running \/ ~s'.complete)
    <2>1. CASE HearsStarted
      BY <1>4, <2>1 DEF HearsStarted, Hears, SessionFields, None
    <2>2. CASE HearsOutput
      BY <1>4, <2>2 DEF HearsOutput, Hears, SessionFields
    <2>3. CASE HearsCompacted
      BY <1>4, <2>3 DEF HearsCompacted, Hears, SessionFields
    <2>4. CASE HearsTook
      BY <1>3, <1>4, <2>4 DEF HearsTook, Hears, Taken, SessionFields
    <2>5. CASE HearsDeclined
      BY <1>4, <2>5 DEF HearsDeclined, Hears, Declined, SessionFields
    <2>6. CASE HearsAnswer
      BY <1>3, <1>4, <2>6 DEF HearsAnswer, Hears, SessionFields
    <2>7. CASE HearsComplete
      BY <1>4, <2>7 DEF HearsComplete, Hears, SessionFields
    <2>8. CASE HearsEnded
      BY <1>4, <2>8 DEF HearsEnded, Hears, SessionFields
    <2> QED BY <2>1, <2>2, <2>3, <2>4, <2>5, <2>6, <2>7, <2>8 DEF Hearing
  <1>6. inbox' \in Seq(Nat)
    <2>1. inbox' = inbox \/ inbox' = Append(inbox, Anchor)
      BY DEF Hearing, HearsStarted, HearsOutput, HearsCompacted, HearsTook, HearsDeclined, HearsAnswer,
          HearsComplete, HearsEnded, Hears
    <2>2. inbox \in Seq(Nat) /\ Anchor \in Nat => Append(inbox, Anchor) \in Seq(Nat)
      BY AppendProperties
    <2> QED BY <1>4, <2>1, <2>2
  <1>7. DOMAIN noted' = DOMAIN noted /\ noted'.thread = noted.thread /\ noted'.steer \in Nat
    <2>1. CASE UNCHANGED noted
      BY <1>4, <2>1
    <2>2. CASE HearsTook
      BY <1>3, <1>4, <2>2 DEF HearsTook
    <2> QED BY <2>1, <2>2 DEF Hearing, HearsStarted, HearsOutput, HearsCompacted, HearsDeclined, HearsAnswer,
          HearsComplete, HearsEnded
  <1>8. Typed'
    BY <1>2, <1>3, <1>5, <1>6, <1>7 DEF Sane, Typed
  <1> QED BY <1>2, <1>5, <1>7, <1>8 DEF Sane, Before1, Opened, Calling

\* What Codex and the watcher add to the queues.
LEMMA ActingQueues ==
    ASSUME Sane, Acting
    PROVE  /\ pc \in Attempting /\ (pc \in {"opening", "opened"} => Dies)
           /\ wire' \in Seq(Messages) /\ inbox' \in Seq(Nat)
           /\ UNCHANGED <<pc, known, feedback, initial, repairing, queued, noted, s, withdrawn, excused>>
  <1>1. wire \in Seq(Messages) /\ inbox \in Seq(Nat) /\ s.steer \in Nat /\ conv.fb \in Nat
    BY TypesAre
  <1>2. /\ \A m \in Kinds : Msg(m) \in Messages
        /\ \A n \in Nat : [m |-> "answer", item |-> n] \in Messages /\ [m |-> "took", item |-> n] \in Messages
                          /\ [m |-> "declined", item |-> n] \in Messages
    BY DEF Msg, Messages, Kinds
  <1>3. wire' \in Seq(Messages)
    <2>1. CASE CodexWorks \/ CodexCompacts \/ CodexContinues \/ WatchPause
      <3>1. PICK r \in Messages : wire' = Append(wire, r)
        BY <2>1, SayingIs, Zenon
      <3> QED BY <1>1, <3>1, AppendIs
    <2>2. CASE CodexEndsTurn
      <3> DEFINE a == [m |-> "answer", item |-> conv.fb]
                 e == Msg("ended")
                 c == Msg("complete")
                 f == Msg("failed")
      <3>1. /\ a \in Messages /\ e \in Messages /\ c \in Messages /\ f \in Messages
            /\ \/ wire' = Append(wire, e)
               \/ wire' = Append(wire, f)
               \/ wire' = Append(Append(wire, a), e)
               \/ wire' = Append(Append(Append(wire, a), e), c)
               \/ wire' = Append(Append(Append(wire, a), c), e)
        BY <2>2, EndTurnIs
      <3> HIDE DEF a, e, c, f
      <3>2. \A q \in Seq(Messages), r \in Messages : Append(q, r) \in Seq(Messages)
        BY AppendIs
      <3> QED BY <1>1, <3>1, <3>2
    <2>3. CASE CodexTakesSteer
      <3>1. Head(inbox) \in Nat
        BY <1>1, <2>3, TailIs DEF CodexTakesSteer
      <3>2. PICK r \in Messages : wire' = Append(wire, r)
        BY <1>2, <2>3, <3>1 DEF CodexTakesSteer
      <3> QED BY <1>1, <3>2, AppendIs
    <2>4. CASE Dies \/ WatchSteer
      BY <1>1, <2>4 DEF Dies, WatchSteer
    <2> QED BY <2>1, <2>2, <2>3, <2>4 DEF Acting
  <1>4. inbox' \in Seq(Nat)
    <2>1. CASE CodexTakesSteer
      BY <1>1, <2>1, TailIs DEF CodexTakesSteer
    <2>2. CASE WatchSteer
      <3>1. s.steer + 1 \in Nat
        BY <1>1
      <3> QED BY <1>1, <2>2, <3>1, AppendIs DEF WatchSteer
    <2>3. CASE Dies
      BY <2>3 DEF Dies
    <2>4. CASE UNCHANGED inbox
      BY <1>1, <2>4
    <2> QED BY <2>1, <2>2, <2>3, <2>4 DEF Acting, CodexWorks, CodexCompacts, CodexEndsTurn, CodexContinues, WatchPause
  <1>5. /\ pc \in Attempting /\ (pc \in {"opening", "opened"} => Dies)
        /\ UNCHANGED <<pc, known, feedback, initial, repairing, queued, noted, s, withdrawn, excused>>
    BY DEF Acting, CodexWorks, CodexCompacts, CodexEndsTurn, CodexContinues, CodexTakesSteer, Dies, WatchSteer, WatchPause,
           CodexOnly, step, Attempting, Calls
  <1> QED BY <1>3, <1>4, <1>5

LEMMA ActingSane ==
    ASSUME Sane, Acting
    PROVE  Sane'
  <1>1. /\ pc \in Attempting /\ (pc \in {"opening", "opened"} => Dies)
        /\ wire' \in Seq(Messages) /\ inbox' \in Seq(Nat)
        /\ UNCHANGED <<pc, known, feedback, initial, repairing, queued, noted, s>>
    BY ActingQueues
  <1>2. /\ DOMAIN conv' = ConvFields /\ conv'.id = conv.id /\ conv'.fb = conv.fb /\ conv'.kept = conv.kept
        /\ conv'.steer \in Nat /\ conv'.silent \in Nat
    <2>0. /\ DOMAIN conv = ConvFields /\ conv.steer \in Nat /\ conv.silent \in Nat /\ 0 \in Nat
      BY DEF Sane, Typed
    <2> DEFINE c == Settled(conv)
    <2>1. /\ DOMAIN c = ConvFields /\ c.id = conv.id /\ c.fb = conv.fb /\ c.kept = conv.kept
          /\ c.steer = conv.steer /\ c.silent = 0
      BY ConvIs
    <2>2. CASE UNCHANGED conv
      BY <2>0, <2>2
    <2>3. CASE conv' = c
      BY <2>0, <2>1, <2>3
    <2> HIDE DEF c
    <2>4. CASE CodexCompacts
      BY <2>0, <2>4 DEF CodexCompacts, ConvFields
    <2>5. CASE CodexTakesSteer
      <3>1. Head(inbox) \in Nat
        <4>1. inbox # <<>> /\ inbox \in Seq(Nat)
          BY <2>5 DEF CodexTakesSteer, Sane, Typed
        <4> QED BY <4>1, TailIs
      <3>2. conv' = [c EXCEPT !.plain = FALSE] \/ conv' = [c EXCEPT !.steer = Head(inbox)] \/ conv' = conv
        BY <2>5 DEF CodexTakesSteer, c
      <3> QED BY <2>0, <2>1, <3>1, <3>2 DEF ConvFields
    <2> QED BY <2>2, <2>3, <2>4, <2>5 DEF Acting, CodexWorks, CodexEndsTurn, CodexContinues, Dies, WatchSteer, WatchPause,
            CodexOnly, step, c
  <1>3. Typed'
    BY <1>1, <1>2 DEF Sane, Typed
  <1>4. pc \in {"opening", "opened"} => turn' = "none" /\ wire' = wire /\ inbox' = <<>>
    BY <1>1 DEF Dies
  <1> QED BY <1>1, <1>2, <1>3, <1>4 DEF Sane, Attempting, Calls

\* Only the session's last call is no longer waited for.
LEMMA ActiveIs ==
    ASSUME Sane, Activates
    PROVE  /\ DOMAIN s' = SessionFields /\ s'.thread = s.thread /\ s'.steer = s.steer /\ s'.from = s.from
           /\ s'.instr = s.instr /\ s'.delivered = s.delivered /\ s'.output = s.output /\ s'.steered = s.steered
           /\ s'.own = s.own /\ s'.running = s.running /\ s'.complete = s.complete /\ s'.answer = s.answer
           /\ pc = "turn"
           /\ UNCHANGED <<pc, known, feedback, initial, repairing, queued, noted, conv, withdrawn, turn, inbox,
                          wire, server, excused>>
  <1>1. DOMAIN s = SessionFields /\ s' = [s EXCEPT !.activating = FALSE]
    BY DEF Activates, Sane, Typed
  <1>3. UNCHANGED <<pc, known, feedback, initial, repairing, queued, noted, conv, withdrawn, turn, inbox,
                    wire, server, excused>>
    BY DEF Activates, step, codex
  <1> QED BY <1>1, <1>3 DEF SessionFields, Activates

LEMMA ActiveSane ==
    ASSUME Sane, Activates
    PROVE  Sane'
  BY ActiveIs DEF Sane, Typed, Before1, Opened, Calling

LEMMA SaneNext ==
    ASSUME Sane, [Next]_vars
    PROVE  Sane'
  BY Normal, BetweenSane, FailingSane, OpeningSane, SendingSane, HearingSane, ActingSane, ActiveSane DEF Step

LEMMA SaneInit ==
    ASSUME Init
    PROVE  Sane
  <1>1. /\ pc = "launch" /\ known = Unknown /\ s = NoSession /\ turn = "none" /\ inbox = <<>> /\ wire = <<>>
        /\ server = "off" /\ feedback = 0 /\ initial = 0 /\ queued = 0
        /\ noted = [thread |-> 0, steer |-> 0, repair |-> [thread |-> 0, fb |-> 0]]
    BY DEF Init, InitStep, None
  <1>2. /\ DOMAIN conv = ConvFields /\ conv.id = 0 /\ conv.fb = 0 /\ conv.steer = 0 /\ conv.silent = 0
        /\ conv.kept = NoRewind
    BY DEF Init, InitStep, None, ConvFields
  <1>3. /\ DOMAIN noted = {"thread", "steer", "repair"} /\ noted.thread = 0 /\ noted.steer = 0
        /\ queued \in 0 .. MaxSteers
    BY <1>1, AuthorConstants
  <1>4. wire \in Seq(Messages) /\ inbox \in Seq(Nat)
    BY <1>1
  <1>5. Typed
    BY <1>1, <1>2, <1>3, <1>4, NoneIs DEF Typed
  <1> QED BY <1>1, <1>2, <1>3, <1>5, NoneIs DEF Sane, Before1, Opened, Calling

-----------------------------------------------------------------------------
\* Live instructions

\* The request or the answer of an instruction, and not of a re-anchor.
IsSteer(r) == r.m \in {"took", "declined"} /\ r.item # Anchor

\* At most one instruction is on its way to Codex or back, and it is n.
OneSteer(b, w, n) ==
  /\ \A i \in DOMAIN b : b[i] # Anchor => b[i] = n
  /\ \A i \in DOMAIN w : IsSteer(w[i]) => w[i].item = n
  /\ \A i, j \in DOMAIN b : b[i] # Anchor /\ b[j] # Anchor => i = j
  /\ \A i, j \in DOMAIN w : IsSteer(w[i]) /\ IsSteer(w[j]) => i = j
  /\ \A i \in DOMAIN b, j \in DOMAIN w : ~(b[i] # Anchor /\ IsSteer(w[j]))

\* What Codex took and nobody read is in the conversation.
TookBy(w, n) == \A i \in DOMAIN w : w[i].m = "took" /\ w[i].item # Anchor => w[i].item <= n

LEMMA NoSteer == \A n : OneSteer(<<>>, <<>>, n) /\ TookBy(<<>>, n)
  BY DEF OneSteer, TookBy

LEMMA SteerQueued ==
    ASSUME NEW b \in Seq(Nat), NEW w \in Seq(Messages), NEW n \in Nat, OneSteer(b, w, n)
    PROVE  /\ OneSteer(Append(b, Anchor), w, n) /\ OneSteer(<<>>, w, n)
           /\ (\A i \in DOMAIN b : b[i] = Anchor) /\ (\A i \in DOMAIN w : ~IsSteer(w[i])) => OneSteer(Append(b, n), w, n)
  <1>0. Anchor \in Nat
    BY AuthorConstants DEF Anchor
  <1>1. ASSUME NEW r \in Nat, r = Anchor \/ (r = n /\ (\A i \in DOMAIN b : b[i] = Anchor) /\ \A i \in DOMAIN w : ~IsSteer(w[i]))
        PROVE  OneSteer(Append(b, r), w, n)
    <2> DEFINE a == Append(b, r)
    <2>1. /\ Len(b) \in Nat /\ DOMAIN b = 1 .. Len(b) /\ DOMAIN a = 1 .. Len(b) + 1
          /\ \A j \in 1 .. Len(b) : a[j] = b[j]
          /\ a[Len(b) + 1] = r
      BY AppendIs
    <2> HIDE DEF a
    <2> QED BY <1>1, <2>1 DEF OneSteer, a
  <1>2. OneSteer(<<>>, w, n)
    BY DEF OneSteer
  <1> QED BY <1>0, <1>1, <1>2

LEMMA SteerAppended ==
    ASSUME NEW b \in Seq(Nat), NEW w \in Seq(Messages), NEW n \in Nat, OneSteer(b, w, n), NEW c \in Nat, TookBy(w, c),
           NEW r \in Messages
    PROVE  /\ ~IsSteer(r) => OneSteer(b, Append(w, r), n) /\ TookBy(Append(w, r), c)
           /\ b # <<>> /\ r.m \in {"took", "declined"} /\ r.item = Head(b) => OneSteer(Tail(b), Append(w, r), n)
           /\ \A d \in Nat : (r.m = "took" /\ r.item # Anchor => r.item <= d) /\ TookBy(w, d) => TookBy(Append(w, r), d)
  <1> DEFINE a == Append(w, r)
  <1>1. /\ Len(w) \in Nat /\ DOMAIN w = 1 .. Len(w) /\ DOMAIN a = 1 .. Len(w) + 1
        /\ \A j \in 1 .. Len(w) : a[j] = w[j]
        /\ a[Len(w) + 1] = r
    BY AppendIs
  <1> HIDE DEF a
  <1>2. ~IsSteer(r) => OneSteer(b, a, n)
    <2>1. ~IsSteer(r) => \A i \in DOMAIN a : IsSteer(a[i]) => i \in DOMAIN w /\ a[i] = w[i]
      BY <1>1
    <2> QED BY <2>1 DEF OneSteer
  <1>3. \A d \in Nat : (r.m = "took" /\ r.item # Anchor => r.item <= d) /\ TookBy(w, d) => TookBy(a, d)
    BY <1>1 DEF TookBy
  <1>4. ~IsSteer(r) => TookBy(a, c)
    BY <1>3 DEF IsSteer
  <1>5. ASSUME b # <<>>, r.m \in {"took", "declined"}, r.item = Head(b)
        PROVE  OneSteer(Tail(b), a, n)
    <2> DEFINE t == Tail(b)
    <2>1. /\ Len(b) \in Nat /\ Len(b) >= 1 /\ DOMAIN b = 1 .. Len(b) /\ DOMAIN t = 1 .. Len(b) - 1
          /\ \A j \in 1 .. Len(b) - 1 : t[j] = b[j + 1]
          /\ Head(b) = b[1]
      BY <1>5, TailIs
    <2> HIDE DEF t
    <2>2. \A i \in DOMAIN t : i + 1 \in DOMAIN b /\ t[i] = b[i + 1] /\ i + 1 # 1 /\ 1 \in DOMAIN b
      BY <2>1
    <2>3. IsSteer(r) => b[1] # Anchor /\ 1 \in DOMAIN b /\ r.item = n /\ \A j \in DOMAIN w : ~IsSteer(w[j])
      BY <1>5, <2>1 DEF OneSteer, IsSteer
    <2>4. /\ \A i \in DOMAIN t : t[i] # Anchor => t[i] = n
          /\ \A i, j \in DOMAIN t : t[i] # Anchor /\ t[j] # Anchor => i = j
      <3>1. \A i, j \in DOMAIN t : i + 1 = j + 1 => i = j
        BY <2>1
      <3> QED BY <2>2, <3>1 DEF OneSteer
    <2>5. /\ \A i \in DOMAIN a : IsSteer(a[i]) => a[i].item = n
          /\ \A i, j \in DOMAIN a : IsSteer(a[i]) /\ IsSteer(a[j]) => i = j
      BY <1>1, <2>3 DEF OneSteer
    <2>6. \A i \in DOMAIN t, j \in DOMAIN a : ~(t[i] # Anchor /\ IsSteer(a[j]))
      BY <1>1, <2>2, <2>3 DEF OneSteer
    <2> QED BY <2>4, <2>5, <2>6 DEF OneSteer, t
  <1> QED BY <1>2, <1>3, <1>4, <1>5 DEF a

LEMMA SteerRead ==
    ASSUME NEW b \in Seq(Nat), NEW w \in Seq(Messages), w # <<>>, NEW n \in Nat, OneSteer(b, w, n),
           NEW c \in Nat, TookBy(w, c)
    PROVE  /\ OneSteer(b, Tail(w), n) /\ TookBy(Tail(w), c)
           /\ IsSteer(Head(w)) => Head(w).item = n /\ \A k \in Nat : OneSteer(b, Tail(w), k)
           /\ IsSteer(Head(w)) /\ Head(w).m = "took" => Head(w).item <= c
  <1> DEFINE t == Tail(w)
  <1>1. /\ Len(w) \in Nat /\ Len(w) >= 1 /\ DOMAIN w = 1 .. Len(w) /\ DOMAIN t = 1 .. Len(w) - 1
        /\ \A j \in 1 .. Len(w) - 1 : t[j] = w[j + 1]
        /\ Head(w) = w[1]
    BY TailIs
  <1> HIDE DEF t
  <1>2. \A i \in DOMAIN t : i + 1 \in DOMAIN w /\ t[i] = w[i + 1] /\ i + 1 # 1 /\ 1 \in DOMAIN w
    BY <1>1
  <1>3. \A i, j \in DOMAIN t : i + 1 = j + 1 => i = j
    BY <1>1
  <1>4. OneSteer(b, t, n) /\ TookBy(t, c)
    BY <1>2, <1>3 DEF OneSteer, TookBy
  <1>5. 1 \in DOMAIN w
    BY <1>1
  <1>6. IsSteer(Head(w)) => Head(w).item = n /\ \A k \in Nat : OneSteer(b, t, k)
    BY <1>1, <1>2, <1>3, <1>5 DEF OneSteer
  <1>7. IsSteer(Head(w)) /\ Head(w).m = "took" => Head(w).item <= c
    BY <1>1, <1>5 DEF TookBy, IsSteer
  <1> QED BY <1>4, <1>6, <1>7 DEF t

\* The newest instruction taken: recorded, known to the session and to the step.
Steered ==
  /\ noted.steer <= conv.steer /\ known.steer <= noted.steer
  /\ pc \in {"opening"} \cup Opened => s.steer = noted.steer
  /\ pc \in {"waiting", "launch", "paused"} => known.steer \in {0, noted.steer}
  /\ OneSteer(inbox, wire, s.steer + 1) /\ TookBy(wire, conv.steer)

\* Steps that neither send nor answer an instruction.
LEMMA SteeredOver ==
    ASSUME Sane, Steered, Over, conv'.steer = conv.steer, noted'.steer <= conv.steer,
           pc' \in {"waiting", "launch", "paused"}, known'.steer \in {0, noted'.steer}, noted'.steer \in Nat
    PROVE  Steered'
  BY NoSteer DEF Steered, Over, Opened

LEMMA BetweenSteered ==
    ASSUME Sane, Steered, Between
    PROVE  Steered'
  <1>0. noted.steer \in Nat /\ known.steer \in Nat /\ conv.steer \in Nat /\ DOMAIN noted = {"thread", "steer", "repair"}
    BY TypesAre
  <1>1. CASE Rests
    BY <1>1 DEF Rests, Steered
  <1>2. CASE Halts
    <2>1. noted'.steer \in Nat /\ noted'.steer <= conv.steer
      <3>1. CASE UNCHANGED noted
        BY <1>0, <3>1 DEF Steered
      <3>2. CASE wire # <<>> /\ Head(wire).m = "took" /\ Head(wire).item # Anchor
                 /\ noted' = [noted EXCEPT !.steer = Head(wire).item]
        <4>1. wire \in Seq(Messages) /\ inbox \in Seq(Nat) /\ s.steer + 1 \in Nat /\ IsSteer(Head(wire))
          BY <3>2, TypesAre DEF IsSteer
        <4>2. Head(wire).item <= conv.steer /\ Head(wire).item = s.steer + 1
          BY <1>0, <3>2, <4>1, SteerRead DEF Steered
        <4> QED BY <1>0, <3>2, <4>1, <4>2
      <3> QED BY <1>2, <3>1, <3>2 DEF Halts
    <2>2. known'.steer = 0 /\ UNCHANGED conv /\ pc' = "paused" /\ Over
      BY <1>2, NoneIs DEF Halts
    <2> QED BY <2>1, <2>2, SteeredOver
  <1>3. CASE Begins
    <2> DEFINE k == IF known.steer # 0 THEN known.steer ELSE noted.steer
    <2>1. k = noted.steer
      BY <1>0, <1>3 DEF Begins, Steered
    <2>2. s' = [NoSession EXCEPT !.steer = k, !.anchor = Continues /\ known.anchor]
      BY <1>3 DEF Begins, Fresh
    <2> HIDE DEF k
    <2>3. s'.steer = k
      BY <2>2, NoneIs DEF SessionFields
    <2>4. /\ pc' = "opening" /\ UNCHANGED <<known, noted, conv, inbox, wire>> /\ inbox = <<>> /\ wire = <<>>
      BY <1>3 DEF Begins, Sane
    <2> QED BY <2>1, <2>3, <2>4, NoSteer DEF Steered
  <1>4. CASE Retries
    <2>1. known'.steer = known.steer
      BY <1>4 DEF Retries, Retry, Sane, Typed, KnownFields
    <2>2. pc = "waiting" /\ pc' = "launch" /\ UNCHANGED <<noted, s, conv, inbox, wire>>
      BY <1>4 DEF Retries, Retry, Alone
    <2> QED BY <2>1, <2>2 DEF Steered, Opened
  <1>5. CASE Resumes
    <2>1. /\ pc = "paused" /\ pc' = "launch" /\ known' = [Unknown EXCEPT !.thread = noted.thread]
          /\ conv' = Settled(conv) /\ UNCHANGED <<noted, s, inbox, wire>>
      BY <1>5 DEF Resumes, Resume, Alone
    <2>2. known'.steer = 0
      BY <2>1, NoneIs DEF KnownFields
    <2>3. conv'.steer = conv.steer
      BY <2>1, ConvIs
    <2> QED BY <1>0, <2>1, <2>2, <2>3 DEF Steered, Opened
  <1>6. CASE Accepts
    BY <1>6 DEF Accepts, Accepted, Alone, step, Steered, Opened
  <1>7. CASE Vanishes
    <2>1. conv'.steer = conv.steer
      BY <1>7 DEF Vanishes, ConversationVanishes, Sane, Typed, ConvFields
    <2>2. UNCHANGED <<pc, known, noted, s, inbox, wire>>
      BY <1>7 DEF Vanishes, ConversationVanishes, Alone
    <2> QED BY <2>1, <2>2 DEF Steered
  <1> QED BY <1>1, <1>2, <1>3, <1>4, <1>5, <1>6, <1>7 DEF Between

LEMMA FailingSteered ==
    ASSUME Sane, Steered, Failing
    PROVE  Steered'
  <1>1. /\ pc \in {"opening"} \cup Opened /\ pc' = "waiting" /\ Over
        /\ known'.steer = IF s.steer # 0 THEN s.steer ELSE known.steer
        /\ UNCHANGED <<noted, conv>>
    BY DEF Failing, FailsOpening, FailsSending, FailsTurn, Outgrows, FailedAt, Opened, Calling
  <1>2. noted.steer \in Nat /\ known.steer \in Nat /\ s.steer = noted.steer /\ known.steer <= noted.steer
        /\ noted.steer <= conv.steer
    BY <1>1 DEF Sane, Typed, Steered
  <1>3. known'.steer \in {0, noted'.steer}
    BY <1>1, <1>2
  <1> QED BY <1>1, <1>2, <1>3, SteeredOver

LEMMA OpeningSteered ==
    ASSUME Sane, Steered, Opening1
    PROVE  Steered'
  <1>1. /\ pc = "opening" /\ pc' = "opened" /\ UNCHANGED <<inbox, wire>> /\ known'.steer = known.steer
        /\ s'.steer = s.steer /\ noted'.steer = noted.steer /\ conv'.steer = conv.steer
    <2>0. DOMAIN s = SessionFields /\ DOMAIN noted = {"thread", "steer", "repair"} /\ DOMAIN known = KnownFields
          /\ conv.id + 1 \in Nat
      BY TypesAre
    <2>1. CASE OpensNew
      <3>1. PICK i : NewThread(i)
        BY <2>1 DEF OpensNew
      <3>2. conv'.steer = conv.steer
        BY <2>0, <3>1, ConvIs DEF NewThread
      <3>3. pc' = "opened" /\ s'.steer = s.steer /\ noted'.steer = noted.steer
        BY <2>0, <3>1 DEF NewThread, Opens, SessionFields
      <3> QED BY <2>1, <3>2, <3>3 DEF OpensNew
    <2>2. CASE OpenSaved \/ OpenRemoves
      <3>1. PICK i, b : Opens(conv.id, i, b)
        BY <2>2 DEF OpenSaved, OpenRemoves
      <3>2. pc' = "opened" /\ s'.steer = s.steer /\ noted'.steer = noted.steer
        BY <2>0, <3>1 DEF Opens, SessionFields
      <3>3. known'.steer = known.steer
        BY <2>0, <2>2 DEF OpenSaved, OpenRemoves, KnownFields
      <3>4. conv'.steer = conv.steer
        <4>1. CASE OpenSaved
          BY <4>1 DEF OpenSaved
        <4>2. CASE OpenRemoves
          BY <4>2, ConvIs DEF OpenRemoves
        <4> QED BY <2>2, <4>1, <4>2
      <3> QED BY <2>2, <3>2, <3>3, <3>4 DEF OpenSaved, OpenRemoves, Opening, codex
    <2> QED BY <2>1, <2>2 DEF Opening1
  <1> QED BY <1>1 DEF Steered, Opened

LEMMA SendingSteered ==
    ASSUME Sane, Steered, Sending1
    PROVE  Steered'
  <1>0. /\ DOMAIN s = SessionFields /\ DOMAIN noted = {"thread", "steer", "repair"} /\ DOMAIN known = KnownFields
        /\ wire \in Seq(Messages) /\ inbox \in Seq(Nat) /\ s.steer + 1 \in Nat /\ conv.steer \in Nat /\ noted.steer \in Nat
    BY TypesAre
  <1>1. OneSteer(inbox, wire, s.steer + 1) /\ TookBy(wire, conv.steer)
    BY DEF Steered
  <1>2. wire # <<>> => OneSteer(inbox, Tail(wire), s.steer + 1) /\ TookBy(Tail(wire), conv.steer)
    BY <1>0, <1>1, SteerRead
  <1>3. /\ s'.steer = s.steer /\ UNCHANGED inbox /\ conv'.steer = conv.steer /\ noted'.steer = noted.steer
        /\ known'.steer \in {0, known.steer} /\ (wire' = wire \/ (wire # <<>> /\ wire' = Tail(wire)))
        /\ pc \in Opened /\ pc' \in Opened
    <2>1. ASSUME NEW t, NEW i, SendsNow(t, i), DOMAIN t = SessionFields
          PROVE  s'.steer = t.steer
      BY <2>1 DEF SendsNow, SessionFields
    <2>2. CASE SendsFirst \/ SendsOn
      BY <1>0, <2>1, <2>2 DEF SendsFirst, SendsOn, Sent, Opened
    <2>3. CASE SendsMore
      <3>1. s'.steer = s.steer
        BY <2>1, <2>3, Zenon DEF SendsMore
      <3> QED BY <2>3, <3>1 DEF SendsMore, Completes, Sent, Opened
    <2>4. CASE SendsRejection
      <3>1. known'.steer = 0
        BY <2>4, NoneIs DEF SendsRejection, KnownFields
      <3> QED BY <1>0, <2>1, <2>4, <3>1 DEF SendsRejection, Sent, Opened
    <2>5. CASE GoalIsPaused
      BY <1>0, <2>5 DEF GoalIsPaused, step, codex, Opened, SessionFields
    <2>6. CASE TurnStarts
      <3> DEFINE h == Heard(s.instr, "turn")
      <3>1. DOMAIN h = ConvFields /\ h.steer = conv.steer
        BY ConvIs
      <3>2. conv' = [h EXCEPT !.stale = FALSE] \/ conv' = h
        BY <2>6 DEF TurnStarts
      <3> HIDE DEF h
      <3>3. conv'.steer = conv.steer
        BY <3>1, <3>2 DEF ConvFields
      <3>4. s'.steer = s.steer /\ noted'.steer = noted.steer
        BY <1>0, <2>6 DEF TurnStarts, SessionFields
      <3> QED BY <2>6, <3>3, <3>4 DEF TurnStarts, Opened
    <2>7. CASE Submits
      BY <2>7 DEF Submits, Completes, Opened
    <2> QED BY <2>2, <2>3, <2>4, <2>5, <2>6, <2>7 DEF Sending1
  <1>4. OneSteer(inbox', wire', s'.steer + 1) /\ TookBy(wire', conv'.steer)
    BY <1>1, <1>2, <1>3
  <1> QED BY <1>0, <1>3, <1>4 DEF Steered, Opened

LEMMA HearingSteered ==
    ASSUME Sane, Steered, Hearing
    PROVE  Steered'
  <1> DEFINE h == Head(wire)
  <1>0. /\ DOMAIN s = SessionFields /\ DOMAIN noted = {"thread", "steer", "repair"}
        /\ wire \in Seq(Messages) /\ inbox \in Seq(Nat) /\ s.steer \in Nat /\ s.steer + 1 \in Nat /\ conv.steer \in Nat
        /\ noted.steer \in Nat /\ known.steer \in Nat
    BY TypesAre
  <1>1. PICK m, t, box : Hears(m, t, box)
    BY Zenon DEF Hearing, HearsStarted, HearsOutput, HearsCompacted, HearsTook, HearsDeclined, HearsAnswer,
          HearsComplete, HearsEnded
  <1>2. /\ pc = "turn" /\ wire # <<>> /\ wire' = Tail(wire) /\ UNCHANGED <<pc, known, conv>>
    BY <1>1 DEF Hears
  <1>3. inbox' = inbox \/ inbox' = Append(inbox, Anchor)
    BY DEF Hearing, HearsStarted, HearsOutput, HearsCompacted, HearsTook, HearsDeclined, HearsAnswer,
        HearsComplete, HearsEnded, Hears
  <1>4. /\ OneSteer(inbox, Tail(wire), s.steer + 1) /\ TookBy(Tail(wire), conv.steer) /\ h \in Messages
        /\ Tail(wire) \in Seq(Messages)
        /\ IsSteer(h) => h.item = s.steer + 1 /\ \A k \in Nat : OneSteer(inbox, Tail(wire), k)
        /\ IsSteer(h) /\ h.m = "took" => h.item <= conv.steer
    BY <1>0, <1>2, SteerRead, TailIs DEF Steered
  <1>5. s.steer = noted.steer
    BY <1>2 DEF Steered, Opened
  <1>6. CASE HearsTook /\ h.item # Anchor
    <2>1. IsSteer(h) /\ h.m = "took" /\ inbox' = inbox
      BY <1>6 DEF HearsTook, Hears, IsSteer
    <2>2. s'.steer = h.item /\ noted'.steer = h.item
      BY <1>0, <1>6 DEF HearsTook, Hears, Taken, SessionFields
    <2>3. h.item \in Nat /\ h.item + 1 \in Nat
      BY <1>4 DEF Messages
    <2>4. OneSteer(inbox', wire', s'.steer + 1) /\ TookBy(wire', conv'.steer)
      BY <1>2, <1>4, <2>1, <2>2, <2>3
    <2>5. known.steer <= noted.steer /\ h.item = noted.steer + 1
      BY <1>4, <1>5, <2>1 DEF Steered
    <2>6. known'.steer <= noted'.steer /\ noted'.steer <= conv'.steer
      BY <1>0, <1>2, <1>4, <2>1, <2>2, <2>5
    <2> QED BY <1>2, <2>2, <2>4, <2>6 DEF Steered
  <1>7. CASE ~(HearsTook /\ h.item # Anchor)
    <2>1. UNCHANGED noted
      BY <1>7 DEF Hearing, HearsStarted, HearsOutput, HearsCompacted, HearsTook, HearsDeclined, HearsAnswer,
        HearsComplete, HearsEnded
    <2>2. s'.steer = s.steer
      <3>1. CASE HearsTook
        BY <1>7, <3>1 DEF HearsTook, Hears, Taken
      <3>2. CASE HearsStarted
        BY <1>0, <3>2 DEF HearsStarted, Hears, SessionFields
      <3>3. CASE HearsOutput \/ HearsCompacted \/ HearsAnswer
        BY <1>0, <3>3 DEF HearsOutput, HearsCompacted, HearsAnswer, Hears, SessionFields
      <3>4. CASE HearsDeclined \/ HearsComplete \/ HearsEnded
        BY <1>0, <3>4 DEF HearsDeclined, HearsComplete, HearsEnded, Hears, Declined, SessionFields
      <3> QED BY <3>1, <3>2, <3>3, <3>4 DEF Hearing
    <2>3. OneSteer(inbox', wire', s'.steer + 1) /\ TookBy(wire', conv'.steer)
      <3>1. OneSteer(Append(inbox, Anchor), Tail(wire), s.steer + 1)
        BY <1>0, <1>4, SteerQueued
      <3> QED BY <1>2, <1>3, <1>4, <2>2, <3>1
    <2> QED BY <1>2, <2>1, <2>2, <2>3 DEF Steered
  <1> QED BY <1>6, <1>7

LEMMA ActingSteered ==
    ASSUME Sane, Steered, Acting
    PROVE  Steered'
  <1>0. /\ wire \in Seq(Messages) /\ inbox \in Seq(Nat) /\ s.steer \in Nat /\ s.steer + 1 \in Nat /\ conv.steer \in Nat
        /\ noted.steer \in Nat /\ DOMAIN conv = ConvFields /\ conv.fb \in Nat
    BY TypesAre
  <1>1. OneSteer(inbox, wire, s.steer + 1) /\ TookBy(wire, conv.steer)
    BY DEF Steered
  <1>2. pc \in Attempting /\ UNCHANGED <<pc, known, noted, s>>
    BY ActingQueues
  <1>3. SUFFICES /\ OneSteer(inbox', wire', s.steer + 1) /\ TookBy(wire', conv'.steer)
                 /\ noted.steer <= conv'.steer
    BY <1>2 DEF Steered
  <1>4. noted.steer <= conv.steer
    BY DEF Steered
  <1>5. \A m \in Kinds : m \notin {"took", "declined"} => Msg(m) \in Messages /\ ~IsSteer(Msg(m))
    BY DEF Msg, Messages, Kinds, IsSteer
  <1>6. Settled(conv).steer = conv.steer /\ DOMAIN Settled(conv) = ConvFields
    BY ConvIs
  <1>7. \A r \in Messages : ~IsSteer(r) =>
          OneSteer(inbox, Append(wire, r), s.steer + 1) /\ TookBy(Append(wire, r), conv.steer)
    BY <1>0, <1>1, SteerAppended
  <1>8. CASE CodexWorks \/ CodexCompacts \/ CodexContinues \/ WatchPause
    <2>1. PICK r \in Messages : wire' = Append(wire, r) /\ r.m \in {"output", "compacted", "started", "failed"}
      BY <1>8, SayingIs, Zenon
    <2>2. UNCHANGED inbox
      BY <1>8 DEF CodexWorks, CodexCompacts, CodexContinues, WatchPause
    <2>3. conv'.steer = conv.steer
      BY <1>0, <1>6, <1>8 DEF CodexWorks, CodexCompacts, CodexContinues, WatchPause, CodexOnly, ConvFields
    <2>4. ~IsSteer(r)
      BY <2>1 DEF IsSteer
    <2> QED BY <1>4, <1>7, <2>1, <2>2, <2>3, <2>4
  <1>9. CASE CodexEndsTurn
    <2> DEFINE a == [m |-> "answer", item |-> conv.fb]
               e == Msg("ended")
               c == Msg("complete")
               f == Msg("failed")
    <2>1. /\ a \in Messages /\ e \in Messages /\ c \in Messages /\ f \in Messages
          /\ \/ wire' = Append(wire, e)
             \/ wire' = Append(wire, f)
             \/ wire' = Append(Append(wire, a), e)
             \/ wire' = Append(Append(Append(wire, a), e), c)
             \/ wire' = Append(Append(Append(wire, a), c), e)
      BY <1>9, EndTurnIs
    <2>2. ~IsSteer(a) /\ ~IsSteer(e) /\ ~IsSteer(c) /\ ~IsSteer(f)
      BY <1>5 DEF Kinds, IsSteer
    <2>3. UNCHANGED inbox /\ conv'.steer = conv.steer
      BY <1>6, <1>9 DEF CodexEndsTurn
    <2> HIDE DEF a, e, c, f
    <2>4. ASSUME NEW q \in Seq(Messages), OneSteer(inbox, q, s.steer + 1), TookBy(q, conv.steer),
                 NEW r \in Messages, ~IsSteer(r)
          PROVE  Append(q, r) \in Seq(Messages) /\ OneSteer(inbox, Append(q, r), s.steer + 1) /\ TookBy(Append(q, r), conv.steer)
      BY <1>0, <2>4, SteerAppended, AppendIs
    <2>5. OneSteer(inbox, wire', s.steer + 1) /\ TookBy(wire', conv.steer)
      <3> DEFINE good(q) == q \in Seq(Messages) /\ OneSteer(inbox, q, s.steer + 1) /\ TookBy(q, conv.steer)
      <3>1. \A q, r : good(q) /\ r \in {a, e, c, f} => good(Append(q, r))
        BY <2>1, <2>2, <2>4
      <3>2. good(wire)
        BY <1>0, <1>1
      <3>6. good(wire') => OneSteer(inbox, wire', s.steer + 1) /\ TookBy(wire', conv.steer)
        OBVIOUS
      <3> HIDE DEF good
      <3>7. /\ good(Append(wire, e)) /\ good(Append(wire, f)) /\ good(Append(Append(wire, a), e))
            /\ good(Append(Append(Append(wire, a), e), c)) /\ good(Append(Append(Append(wire, a), c), e))
        <4>1. good(Append(wire, e)) /\ good(Append(wire, f)) /\ good(Append(wire, a))
          BY <3>1, <3>2
        <4>2. good(Append(Append(wire, a), e)) /\ good(Append(Append(wire, a), c))
          BY <3>1, <4>1
        <4>3. good(Append(Append(Append(wire, a), e), c)) /\ good(Append(Append(Append(wire, a), c), e))
          BY <3>1, <4>2
        <4> QED BY <4>1, <4>2, <4>3
      <3>8. good(wire')
        BY <2>1, <3>7
      <3> QED BY <3>6, <3>8
    <2> QED BY <1>4, <2>3, <2>5
  <1>10. CASE CodexTakesSteer
    <2> DEFINE h == Head(inbox)
    <2>0. h \in Nat /\ inbox # <<>> /\ inbox' = Tail(inbox)
      <3>1. inbox # <<>> /\ inbox' = Tail(inbox)
        BY <1>10 DEF CodexTakesSteer
      <3> QED BY <1>0, <3>1, TailIs
    <2>1. h # Anchor => h = s.steer + 1
      <3>1. 1 \in DOMAIN inbox /\ h = inbox[1]
        <4>1. DOMAIN inbox = 1 .. Len(inbox) /\ Len(inbox) \in Nat /\ Len(inbox) >= 1 /\ h = inbox[1]
          BY <1>0, <2>0, TailIs
        <4> QED BY <4>1
      <3> QED BY <1>1, <3>1 DEF OneSteer
    <2>2. \A m \in {"took", "declined"} :
            [m |-> m, item |-> h] \in Messages /\ OneSteer(Tail(inbox), Append(wire, [m |-> m, item |-> h]), s.steer + 1)
      <3> TAKE m \in {"took", "declined"}
      <3> DEFINE r == [m |-> m, item |-> h]
      <3>1. r \in Messages /\ r.m = m /\ r.item = h
        BY <2>0 DEF Messages, Kinds
      <3> HIDE DEF r
      <3>2. OneSteer(Tail(inbox), Append(wire, r), s.steer + 1)
        BY <1>0, <1>1, <2>0, <3>1, SteerAppended
      <3> QED BY <3>1, <3>2 DEF r
    <2>3. CASE wire' = Append(wire, [m |-> "declined", item |-> h]) /\ UNCHANGED conv
      <3> DEFINE r == [m |-> "declined", item |-> h]
      <3>1. r \in Messages /\ r.m = "declined"
        BY <2>2
      <3>2. TookBy(Append(wire, r), conv.steer)
        <4> HIDE DEF r
        <4> QED BY <1>0, <1>1, <3>1, SteerAppended
      <3> QED BY <1>4, <2>0, <2>2, <2>3, <3>2
    <2>4. CASE wire' = Append(wire, [m |-> "took", item |-> h])
               /\ conv' = IF h = Anchor THEN [Settled(conv) EXCEPT !.plain = FALSE] ELSE [Settled(conv) EXCEPT !.steer = h]
      <3> DEFINE r == [m |-> "took", item |-> h]
      <3>1. r \in Messages /\ r.m = "took" /\ r.item = h
        BY <2>2
      <3>2. conv'.steer = IF h = Anchor THEN conv.steer ELSE h
        BY <1>6, <2>4 DEF ConvFields
      <3>3. \/ h = Anchor /\ conv'.steer = conv.steer
            \/ h # Anchor /\ conv'.steer = h /\ h = s.steer + 1
        BY <2>1, <3>2
      <3>4. h # Anchor => \A i \in DOMAIN wire : ~IsSteer(wire[i])
        <4>1. DOMAIN inbox = 1 .. Len(inbox) /\ Len(inbox) \in Nat /\ Len(inbox) >= 1 /\ h = inbox[1]
          BY <1>0, <2>0, TailIs
        <4>2. 1 \in DOMAIN inbox /\ h = inbox[1]
          BY <4>1
        <4> QED BY <1>1, <4>2 DEF OneSteer
      <3>5. TookBy(wire, conv'.steer)
        BY <1>1, <3>3, <3>4 DEF TookBy, IsSteer
      <3>6. TookBy(Append(wire, r), conv'.steer)
        <4> HIDE DEF r
        <4>1. conv'.steer \in Nat
          BY <1>0, <2>0, <3>3
        <4>2. r.item # Anchor => r.item <= conv'.steer
          BY <2>0, <3>1, <3>3
        <4> QED BY <1>0, <1>1, <3>1, <3>5, <4>1, <4>2, SteerAppended
      <3>7. noted.steer <= conv'.steer
        <4>1. s.steer = noted.steer
          BY <1>2, <1>10 DEF Steered, Opened, CodexTakesSteer
        <4> QED BY <1>0, <1>4, <3>3, <4>1
      <3> QED BY <2>0, <2>2, <2>4, <3>6, <3>7
    <2> QED BY <1>10, <2>3, <2>4 DEF CodexTakesSteer
  <1>11. CASE Dies
    BY <1>0, <1>1, <1>4, <1>11, SteerQueued DEF Dies
  <1>12. CASE WatchSteer
    <2> DEFINE n == s.steer + 1
    <2>1. ~InFlight(n) /\ inbox' = Append(inbox, n) /\ UNCHANGED <<wire, conv>>
      BY <1>12 DEF WatchSteer
    <2>2. (\A i \in DOMAIN inbox : inbox[i] = Anchor) /\ (\A i \in DOMAIN wire : ~IsSteer(wire[i]))
      BY <1>1, <2>1 DEF InFlight, OneSteer, IsSteer
    <2>3. OneSteer(Append(inbox, n), wire, n)
      BY <1>0, <1>1, <2>2, SteerQueued
    <2> QED BY <1>1, <1>4, <2>1, <2>3
  <1> QED BY <1>8, <1>9, <1>10, <1>11, <1>12 DEF Acting


LEMMA ActiveSteered == Sane /\ Steered /\ Activates => Steered'
  BY ActiveIs DEF Steered, Opened

LEMMA SteeredNext == Sane /\ Steered /\ [Next]_vars => Steered'
  BY ActiveSteered, Normal, BetweenSteered, FailingSteered, OpeningSteered, SendingSteered, HearingSteered, ActingSteered DEF Step

LEMMA SteeredInit == Init => Steered
  BY NoSteer, NoneIs DEF Init, InitStep, Steered, Opened, Unknown

\* Any instruction the runner recorded as accepted was taken by Codex: declined
\* ones, and those a failed turn left on their way, stay to be sent (goal_session).
THEOREM AcceptedWasTaken == Spec => []NoSteerLost
  <1>1. Init => Sane /\ Steered
    BY SaneInit, SteeredInit
  <1>2. Sane /\ Steered /\ [Next]_vars => (Sane /\ Steered)'
    BY SaneNext, SteeredNext
  <1>3. Steered => NoSteerLost
    BY DEF Steered, NoSteerLost
  <1> QED BY <1>1, <1>2, <1>3, PTL DEF Spec

-----------------------------------------------------------------------------
\* What a turn still sends

\* A turn's end, a failure and a complete goal come last, while nothing runs;
\* a session that is not in a turn is only owed answers to what it asked.
Ordered ==
  /\ After(wire, {"failed"}, {"declined"})
  /\ After(wire, {"ended"}, {"declined", "complete"})
  /\ After(wire, {"complete"}, {"declined", "ended"})
  /\ Has(wire, {"ended", "failed", "complete"}) => turn = "none"
  /\ pc \in {"sending", "starting", "submitted"} => Only(wire, {"declined"})
  /\ pc = "turn" /\ s.complete => turn = "none" /\ Only(wire, {"declined", "ended"})
  /\ pc = "turn" /\ ~s.running => \/ turn = "none" /\ Only(wire, {"declined", "complete"})
                                  \/ wire # <<>> /\ Head(wire).m = "started"
  /\ pc # "turn" => turn = "none" \/ (pc = "starting" /\ server = "dead")

LEMMA OrderedOver ==
    ASSUME wire' = <<>>, pc' # "turn", turn' = "none"
    PROVE  Ordered'
  BY EmptyHas DEF Ordered

LEMMA DeclinedOnly ==
    ASSUME NEW w, Only(w, {"declined"})
    PROVE  /\ ~Has(w, {"ended", "failed", "complete"}) /\ Only(w, {"declined", "failed"})
           /\ \A K, L : K \cap {"declined"} = {} => After(w, K, L) /\ ~Has(w, K)
  BY DEF Only, Has, After

LEMMA QuietOrdered ==
    ASSUME Sane, Ordered, Between \/ Failing \/ Opening1
    PROVE  Ordered'
  <1>1. CASE Rests \/ Vanishes
    BY <1>1 DEF Rests, Vanishes, ConversationVanishes, Alone, Ordered
  <1>2. CASE Accepts
    BY <1>2 DEF Accepts, Accepted, Alone, step, Ordered
  <1>3. CASE Retries \/ Resumes
    <2>1. pc \in {"waiting", "paused"} /\ pc' = "launch" /\ UNCHANGED <<turn, wire>>
      BY <1>3 DEF Retries, Retry, Resumes, Resume, Alone
    <2> QED BY <2>1, OrderedOver DEF Sane
  <1>4. CASE Begins
    BY <1>4, OrderedOver DEF Begins, Sane
  <1>5. CASE Halts \/ Failing
    <2>1. Over /\ pc' \in {"paused", "waiting"}
      BY <1>5 DEF Halts, Failing, FailsOpening, FailsSending, FailsTurn, Outgrows, FailedAt
    <2> QED BY <2>1, OrderedOver DEF Over
  <1>6. CASE Opening1
    <2>1. pc = "opening" /\ pc' = "opened" /\ UNCHANGED <<turn, wire>>
      BY <1>6 DEF Opening1, OpensNew, NewThread, OpenSaved, OpenRemoves, Opens, Opening, codex
    <2> QED BY <2>1, OrderedOver DEF Sane
  <1> QED BY <1>1, <1>2, <1>3, <1>4, <1>5, <1>6 DEF Between

\* The message that completes a goal is the last but for declined requests.
LEMMA CompletesLast ==
    ASSUME Sane, Ordered, Completes
    PROVE  Only(wire', {"declined"}) /\ turn = "none"
  <1>1. wire \in Seq(Messages) /\ wire # <<>> /\ wire' = Tail(wire) /\ pc = "turn"
    BY DEF Completes, Sane, Typed
  <1>2. CASE Head(wire).m = "complete" /\ ~s.running
    <2>1. turn = "none" /\ Only(wire, {"declined", "complete"})
      BY <1>1, <1>2 DEF Ordered
    <2>2. Only(Tail(wire), {"declined", "complete"})
      BY <1>1, <2>1, TailHas
    <2>3. Only(Tail(wire), {"declined", "ended"})
      <3>1. After(wire, {"complete"}, {"declined", "ended"})
        BY DEF Ordered
      <3> QED BY <1>1, <1>2, <3>1, TailHas
    <2> QED BY <1>1, <2>1, <2>2, <2>3 DEF Only
  <1>3. CASE Head(wire).m = "ended" /\ s.complete
    <2>1. turn = "none" /\ Only(wire, {"declined", "ended"})
      BY <1>1, <1>3 DEF Ordered
    <2>2. Only(Tail(wire), {"declined", "ended"})
      BY <1>1, <2>1, TailHas
    <2>3. Only(Tail(wire), {"declined", "complete"})
      <3>1. After(wire, {"ended"}, {"declined", "complete"})
        BY DEF Ordered
      <3> QED BY <1>1, <1>3, <3>1, TailHas
    <2> QED BY <1>1, <2>1, <2>2, <2>3 DEF Only
  <1> QED BY <1>2, <1>3 DEF Completes

LEMMA SendingOrdered ==
    ASSUME Sane, Ordered, Sending1
    PROVE  Ordered'
  <1> SUFFICES /\ Only(wire', {"declined"})
               /\ pc' # "turn" => turn' = "none" \/ (pc' = "starting" /\ server' = "dead")
               /\ pc' = "turn" => s'.running /\ ~s'.complete
    <2>1. ASSUME Only(wire', {"declined"})
          PROVE  /\ After(wire', {"failed"}, {"declined"}) /\ After(wire', {"ended"}, {"declined", "complete"})
                 /\ After(wire', {"complete"}, {"declined", "ended"}) /\ ~Has(wire', {"ended", "failed", "complete"})
      BY <2>1, DeclinedOnly
    <2> QED BY <2>1 DEF Ordered
  <1>1. CASE SendsFirst
    BY <1>1, EmptyHas DEF SendsFirst, Sent, Sane
  <1>2. CASE SendsOn
    <2>1. turn = "none" /\ wire' = <<>>
      BY <1>2 DEF SendsOn, Ordered
    <2> QED BY <1>2, <2>1, EmptyHas DEF SendsOn, Sent
  <1>3. CASE SendsRejection
    BY <1>3 DEF SendsRejection, Sent, Ordered
  <1>4. CASE SendsMore \/ Submits
    <2>1. Completes /\ pc' \in {"sending", "submitted"} /\ UNCHANGED turn
      BY <1>4 DEF SendsMore, Submits, Sent
    <2> QED BY <2>1, CompletesLast
  <1>5. CASE GoalIsPaused
    BY <1>5 DEF GoalIsPaused, codex, Ordered
  <1>6. CASE TurnStarts
    <2>1. Only(wire, {"declined"}) /\ UNCHANGED wire
      BY <1>6 DEF TurnStarts, Ordered
    <2>2. CASE pc' = "turn"
      <3>1. s' = [s EXCEPT !.delivered = TRUE, !.own = TRUE, !.turn = TRUE, !.activating = TRUE]
        BY <1>6, <2>2 DEF TurnStarts
      <3>2. s.running /\ ~s.complete /\ DOMAIN s = SessionFields
        BY <1>6 DEF TurnStarts, Sane, Typed, Calling
      <3> QED BY <2>1, <2>2, <3>1, <3>2 DEF SessionFields
    <2>3. CASE pc' # "turn"
      BY <1>6, <2>1, <2>3 DEF TurnStarts
    <2> QED BY <2>2, <2>3
  <1> QED BY <1>1, <1>2, <1>3, <1>4, <1>5, <1>6 DEF Sending1

LEMMA HearingOrdered ==
    ASSUME Sane, Ordered, Hearing
    PROVE  Ordered'
  <1> DEFINE h == Head(wire).m
             w == Tail(wire)
  <1>0. DOMAIN s = SessionFields /\ wire \in Seq(Messages)
    BY DEF Sane, Typed
  <1>1. PICK m, t, box : Hears(m, t, box)
    BY Zenon DEF Hearing, HearsStarted, HearsOutput, HearsCompacted, HearsTook, HearsDeclined, HearsAnswer,
          HearsComplete, HearsEnded
  <1>2. /\ pc = "turn" /\ wire # <<>> /\ wire' = w /\ UNCHANGED <<pc, turn, server>>
    BY <1>1 DEF Hears
  <1>3. /\ After(w, {"failed"}, {"declined"}) /\ After(w, {"ended"}, {"declined", "complete"})
        /\ After(w, {"complete"}, {"declined", "ended"})
        /\ h = "ended" => Only(w, {"declined", "complete"})
        /\ h = "complete" => Only(w, {"declined", "ended"})
    BY <1>0, <1>2, TailHas DEF Ordered
  <1>4. (Has(w, {"ended", "failed", "complete"}) \/ h \in {"ended", "failed", "complete"}) => turn = "none"
    BY <1>0, <1>2, TailHas DEF Ordered
  <1>5. /\ Only(wire, {"declined", "ended"}) => Only(w, {"declined", "ended"}) /\ h \in {"declined", "ended"}
        /\ Only(wire, {"declined", "complete"}) => Only(w, {"declined", "complete"}) /\ h \in {"declined", "complete"}
    BY <1>0, <1>2, TailHas
  <1>6. CASE HearsStarted
    <2>1. s'.running /\ s'.complete = s.complete /\ h = "started"
      BY <1>0, <1>6 DEF HearsStarted, Hears, SessionFields
    <2>2. ~s.complete
      BY <1>2, <1>5, <2>1 DEF Ordered
    <2> QED BY <1>2, <1>3, <1>4, <2>1, <2>2 DEF Ordered
  <1>7. CASE HearsComplete
    <2>1. s'.running /\ h = "complete"
      BY <1>0, <1>7 DEF HearsComplete, Hears, SessionFields
    <2> QED BY <1>2, <1>3, <1>4, <2>1 DEF Ordered
  <1>8. CASE HearsEnded
    <2>1. s'.complete = s.complete /\ ~s.complete /\ h = "ended"
      BY <1>0, <1>8 DEF HearsEnded, Hears, SessionFields
    <2> QED BY <1>2, <1>3, <1>4, <2>1 DEF Ordered
  <1>9. CASE HearsOutput \/ HearsCompacted \/ HearsTook \/ HearsDeclined \/ HearsAnswer
    <2>1. s'.running = s.running /\ s'.complete = s.complete /\ h # "started"
      BY <1>0, <1>9 DEF HearsOutput, HearsCompacted, HearsTook, HearsDeclined, HearsAnswer, Hears, Taken, Declined, SessionFields
    <2> HIDE DEF h, w
    <2>2. s.complete => turn = "none" /\ Only(w, {"declined", "ended"})
      BY <1>2, <1>5 DEF Ordered
    <2>3. ~s.running => turn = "none" /\ Only(w, {"declined", "complete"})
      BY <1>2, <1>5, <2>1 DEF Ordered, h
    <2> QED BY <1>2, <1>3, <1>4, <2>1, <2>2, <2>3 DEF Ordered
  <1> QED BY <1>6, <1>7, <1>8, <1>9 DEF Hearing

\* While a turn runs, none of its last messages was sent.
LEMMA Unfinished ==
    ASSUME Sane, Ordered, turn # "none"
    PROVE  /\ \A K \in SUBSET {"ended", "failed", "complete"} : ~Has(wire, K)
           /\ pc = "turn" => ~s.complete /\ (s.running \/ (wire # <<>> /\ Head(wire).m = "started"))
  <1>1. \A K \in SUBSET {"ended", "failed", "complete"} : ~Has(wire, K)
    <2>1. ~Has(wire, {"ended", "failed", "complete"})
      BY DEF Ordered
    <2> QED BY <2>1 DEF Has
  <1> QED BY <1>1 DEF Ordered

\* What Codex sends at once keeps the order.
LEMMA AppendOrdered ==
    ASSUME NEW w \in Seq(Messages), NEW r \in Messages,
           After(w, {"failed"}, {"declined"}), After(w, {"ended"}, {"declined", "complete"}),
           After(w, {"complete"}, {"declined", "ended"})
    PROVE  LET a == Append(w, r) IN
           /\ a \in Seq(Messages) /\ a # <<>> /\ (w # <<>> => Head(a) = Head(w))
           /\ (Has(w, {"failed"}) => r.m = "declined")
              /\ (Has(w, {"ended"}) => r.m \in {"declined", "complete"})
              /\ (Has(w, {"complete"}) => r.m \in {"declined", "ended"})
                => /\ After(a, {"failed"}, {"declined"}) /\ After(a, {"ended"}, {"declined", "complete"})
                   /\ After(a, {"complete"}, {"declined", "ended"})
           /\ \A K : Has(a, K) <=> Has(w, K) \/ r.m \in K
           /\ \A K : Only(a, K) <=> Only(w, K) /\ r.m \in K
  <1> DEFINE a == Append(w, r)
  <1>1. a \in Seq(Messages) /\ a # <<>> /\ (w # <<>> => Head(a) = Head(w))
    <2>1. /\ a \in Seq(Messages) /\ Len(w) \in Nat /\ Len(a) = Len(w) + 1 /\ a # <<>>
          /\ \A j \in 1 .. Len(w) : a[j] = w[j]
      BY AppendIs, AppendProperties
    <2>2. w # <<>> => Len(w) >= 1 /\ Head(w) = w[1] /\ Head(a) = a[1]
      BY <2>1, TailIs
    <2> QED BY <2>1, <2>2
  <1>2. /\ After(a, {"failed"}, {"declined"}) <=> (Has(w, {"failed"}) => r.m \in {"declined"})
        /\ After(a, {"ended"}, {"declined", "complete"}) <=> (Has(w, {"ended"}) => r.m \in {"declined", "complete"})
        /\ After(a, {"complete"}, {"declined", "ended"}) <=> (Has(w, {"complete"}) => r.m \in {"declined", "ended"})
    BY AppendHas
  <1>3. \A K : (Has(a, K) <=> Has(w, K) \/ r.m \in K) /\ (Only(a, K) <=> Only(w, K) /\ r.m \in K)
    BY AppendHas
  <1> QED BY <1>1, <1>2, <1>3

InOrder(w) ==
  After(w, {"failed"}, {"declined"}) /\ After(w, {"ended"}, {"declined", "complete"})
  /\ After(w, {"complete"}, {"declined", "ended"})
Going(w) == \A k \in {"ended", "failed", "complete"} : ~Has(w, {k})

\* Messages of a running turn.
LEMMA Sends1 ==
    ASSUME NEW w \in Seq(Messages), InOrder(w), Going(w), NEW r \in Messages
    PROVE  LET a == Append(w, r) IN
           /\ a \in Seq(Messages) /\ a # <<>> /\ (w # <<>> => Head(a) = Head(w)) /\ InOrder(a)
           /\ r.m \notin {"ended", "failed", "complete"} => Going(a)
           /\ \A b \in Messages : (r.m = "ended" /\ b.m = "complete") \/ (r.m = "complete" /\ b.m = "ended") =>
                LET c == Append(a, b) IN
                c \in Seq(Messages) /\ c # <<>> /\ (w # <<>> => Head(c) = Head(w)) /\ InOrder(c)
  <1> DEFINE a == Append(w, r)
  <1>1. /\ a \in Seq(Messages) /\ a # <<>> /\ (w # <<>> => Head(a) = Head(w)) /\ InOrder(a)
        /\ \A K : Has(a, K) <=> Has(w, K) \/ r.m \in K
    BY AppendOrdered DEF InOrder, Going
  <1> HIDE DEF a
  <1>2. r.m \notin {"ended", "failed", "complete"} => Going(a)
    BY <1>1 DEF Going
  <1>3. ASSUME NEW b \in Messages, (r.m = "ended" /\ b.m = "complete") \/ (r.m = "complete" /\ b.m = "ended")
        PROVE  LET c == Append(a, b) IN
                c \in Seq(Messages) /\ c # <<>> /\ (w # <<>> => Head(c) = Head(w)) /\ InOrder(c)
    <2> DEFINE c == Append(a, b)
    <2>1. /\ Has(a, {"failed"}) => b.m = "declined"
          /\ Has(a, {"ended"}) => b.m \in {"declined", "complete"}
          /\ Has(a, {"complete"}) => b.m \in {"declined", "ended"}
      BY <1>1, <1>3 DEF Going
    <2>2. c \in Seq(Messages) /\ c # <<>> /\ (a # <<>> => Head(c) = Head(a)) /\ InOrder(c)
      BY <1>1, <2>1, AppendOrdered DEF InOrder
    <2> QED BY <1>1, <2>2
  <1> QED BY <1>1, <1>2, <1>3 DEF a

LEMMA ActingOrdered ==
    ASSUME Sane, Ordered, Acting
    PROVE  Ordered'
  <1>0. wire \in Seq(Messages) /\ inbox \in Seq(Nat)
    BY DEF Sane, Typed
  <1>1. UNCHANGED <<pc, s>>
    BY ActingQueues
  <1>2. turn # "none" => InOrder(wire) /\ Going(wire)
    BY Unfinished DEF InOrder, Going, Ordered
  <1>3. ASSUME turn # "none", pc = "turn", wire' \in Seq(Messages), wire' # <<>>, wire # <<>> => Head(wire') = Head(wire),
               InOrder(wire'), Has(wire', {"ended", "failed", "complete"}) => turn' = "none"
        PROVE  Ordered'
    <2>1. ~s.complete /\ (s.running \/ (wire # <<>> /\ Head(wire).m = "started"))
      BY <1>3, Unfinished
    <2>2. ~s'.running => wire' # <<>> /\ Head(wire').m = "started"
      BY <1>1, <1>3, <2>1
    <2>3. pc' = "turn" /\ ~s'.complete
      BY <1>1, <1>3, <2>1
    <2> QED BY <1>3, <2>2, <2>3 DEF Ordered, InOrder
  <1>4. CASE CodexWorks \/ CodexCompacts \/ WatchPause
    <2>1. turn # "none" /\ pc = "turn"
      BY <1>4 DEF CodexWorks, CodexCompacts, WatchPause
    <2>2. PICK r \in Messages : wire' = Append(wire, r) /\ r.m \in {"output", "compacted", "started", "failed"} /\ (r.m = "failed" => WatchPause)
      BY <1>4, SayingIs, Zenon
    <2>3. /\ wire' \in Seq(Messages) /\ wire' # <<>> /\ (wire # <<>> => Head(wire') = Head(wire)) /\ InOrder(wire')
          /\ r.m # "failed" => Going(wire')
      BY <1>0, <1>2, <2>1, <2>2, Sends1
    <2>4. Going(wire') => ~Has(wire', {"ended", "failed", "complete"})
      BY DEF Going, Has
    <2>5. WatchPause => turn' = "none"
      BY DEF WatchPause
    <2> QED BY <1>3, <2>1, <2>2, <2>3, <2>4, <2>5
  <1>5. CASE CodexContinues
    <2>1. wire = <<>> /\ pc = "turn" /\ ~s.complete
      BY <1>5 DEF CodexContinues
    <2>2. PICK r \in Messages : wire' = Append(wire, r) /\ r.m \in {"output", "compacted", "started", "failed"} /\ (r.m = "failed" => WatchPause)
      BY <1>5, SayingIs, Zenon
    <2>3. wire' = <<Msg("started")>>
      BY <1>5, <2>1 DEF CodexContinues, Says
    <2>4. wire' # <<>> /\ Head(wire').m = "started" /\ Only(wire', {"started"})
      BY <2>3 DEF Msg, Only
    <2>5. InOrder(wire') /\ ~Has(wire', {"ended", "failed", "complete"})
      BY <2>4 DEF InOrder, After, Has, Only
    <2> QED BY <1>1, <2>1, <2>4, <2>5 DEF Ordered, InOrder
  <1>6. CASE CodexEndsTurn
    <2> DEFINE a == [m |-> "answer", item |-> conv.fb]
               e == Msg("ended")
               c == Msg("complete")
               f == Msg("failed")
    <2>1. /\ a \in Messages /\ e \in Messages /\ c \in Messages /\ f \in Messages
          /\ a.m = "answer" /\ e.m = "ended" /\ c.m = "complete" /\ f.m = "failed"
          /\ pc = "turn" /\ turn # "none" /\ turn' = "none"
          /\ \/ wire' = Append(wire, e)
             \/ wire' = Append(wire, f)
             \/ wire' = Append(Append(wire, a), e)
             \/ wire' = Append(Append(Append(wire, a), e), c)
             \/ wire' = Append(Append(Append(wire, a), c), e)
      BY <1>6, EndTurnIs
    <2> HIDE DEF a, e, c, f
    <2>2. LET q == Append(wire, a) IN
          /\ q \in Seq(Messages) /\ q # <<>> /\ InOrder(q) /\ Going(q) /\ (wire # <<>> => Head(q) = Head(wire))
      BY <1>0, <1>2, <2>1, Sends1
    <2>3. wire' \in Seq(Messages) /\ wire' # <<>> /\ (wire # <<>> => Head(wire') = Head(wire)) /\ InOrder(wire')
      <3>1. CASE wire' = Append(wire, e) \/ wire' = Append(wire, f)
        BY <1>0, <1>2, <2>1, <3>1, Sends1
      <3> DEFINE q == Append(wire, a)
      <3>2. q \in Seq(Messages) /\ q # <<>> /\ InOrder(q) /\ Going(q) /\ (wire # <<>> => Head(q) = Head(wire))
        BY <2>2
      <3>3. CASE wire' = Append(q, e) \/ wire' = Append(Append(q, e), c) \/ wire' = Append(Append(q, c), e)
        <4> HIDE DEF q
        <4>1. /\ Append(q, e) \in Seq(Messages) /\ Append(q, e) # <<>> /\ Head(Append(q, e)) = Head(q) /\ InOrder(Append(q, e))
              /\ Append(Append(q, e), c) \in Seq(Messages) /\ Append(Append(q, e), c) # <<>>
              /\ Head(Append(Append(q, e), c)) = Head(q) /\ InOrder(Append(Append(q, e), c))
          BY <2>1, <3>2, Sends1
        <4>2. /\ Append(Append(q, c), e) \in Seq(Messages) /\ Append(Append(q, c), e) # <<>>
              /\ Head(Append(Append(q, c), e)) = Head(q) /\ InOrder(Append(Append(q, c), e))
          BY <2>1, <3>2, Sends1
        <4> QED BY <3>2, <3>3, <4>1, <4>2
      <3> QED BY <2>1, <3>1, <3>3
    <2> QED BY <1>3, <2>1, <2>3
  <1>7. CASE CodexTakesSteer
    <2> DEFINE t == [m |-> "took", item |-> Head(inbox)]
               d == [m |-> "declined", item |-> Head(inbox)]
    <2>0. server = "up" /\ UNCHANGED <<turn, server>> /\ inbox # <<>>
      BY <1>7 DEF CodexTakesSteer
    <2>1. t \in Messages /\ d \in Messages /\ t.m = "took" /\ d.m = "declined"
      <3>1. Head(inbox) \in Nat
        BY <1>0, <2>0, TailIs
      <3> QED BY <3>1 DEF Messages, Kinds
    <2>2. (wire' = Append(wire, t) /\ turn # "none") \/ wire' = Append(wire, d)
      BY <1>7 DEF CodexTakesSteer
    <2> HIDE DEF t, d
    <2>3. CASE wire' = Append(wire, t) /\ turn # "none"
      <3>1. pc = "turn"
        BY <2>0, <2>3 DEF Ordered
      <3>2. /\ wire' \in Seq(Messages) /\ wire' # <<>> /\ (wire # <<>> => Head(wire') = Head(wire)) /\ InOrder(wire')
            /\ Going(wire')
        BY <1>0, <1>2, <2>1, <2>3, Sends1
      <3>3. ~Has(wire', {"ended", "failed", "complete"})
        BY <3>2 DEF Going, Has
      <3> QED BY <1>3, <2>3, <3>1, <3>2, <3>3
    <2>4. CASE wire' = Append(wire, d)
      <3>0. After(wire, {"failed"}, {"declined"}) /\ After(wire, {"ended"}, {"declined", "complete"})
            /\ After(wire, {"complete"}, {"declined", "ended"})
        BY DEF Ordered
      <3>1. /\ wire' # <<>> /\ (wire # <<>> => Head(wire') = Head(wire)) /\ InOrder(wire')
            /\ \A K : Has(wire', K) <=> Has(wire, K) \/ d.m \in K
            /\ \A K : Only(wire', K) <=> Only(wire, K) /\ d.m \in K
        BY <1>0, <2>1, <2>4, <3>0, AppendOrdered DEF InOrder
      <3>2. Has(wire', {"ended", "failed", "complete"}) <=> Has(wire, {"ended", "failed", "complete"})
        BY <2>1, <3>1
      <3>3. /\ Only(wire', {"declined"}) <=> Only(wire, {"declined"})
            /\ Only(wire', {"declined", "ended"}) <=> Only(wire, {"declined", "ended"})
            /\ Only(wire', {"declined", "complete"}) <=> Only(wire, {"declined", "complete"})
        BY <2>1, <3>1
      <3> QED BY <1>1, <2>0, <3>1, <3>2, <3>3 DEF Ordered, InOrder
    <2> QED BY <2>2, <2>3, <2>4
  <1>8. CASE Dies
    <2>1. turn' = "none" /\ UNCHANGED wire
      BY <1>8 DEF Dies
    <2> QED BY <1>1, <2>1 DEF Ordered
  <1>9. CASE WatchSteer
    <2>1. UNCHANGED <<turn, wire, server>>
      BY <1>9 DEF WatchSteer
    <2> QED BY <1>1, <2>1 DEF Ordered
  <1> QED BY <1>4, <1>5, <1>6, <1>7, <1>8, <1>9 DEF Acting

LEMMA ActiveOrdered == Sane /\ Ordered /\ Activates => Ordered'
  BY ActiveIs DEF Ordered

LEMMA OrderedNext == Sane /\ Ordered /\ [Next]_vars => Ordered'
  <1> SUFFICES ASSUME Sane, Ordered, [Next]_vars PROVE Ordered'
    OBVIOUS
  <1>1. Step
    BY Normal
  <1> QED BY <1>1, QuietOrdered, SendingOrdered, HearingOrdered, ActingOrdered, ActiveOrdered DEF Step

LEMMA OrderedInit == Init => Ordered
  BY EmptyHas DEF Init, InitStep, Ordered

-----------------------------------------------------------------------------
\* What a turn shows of the model's work

\* The re-anchors on their way, and the messages that show the model worked.
Anchored(b, w) ==
  (\E i \in DOMAIN b : b[i] = Anchor) \/ (\E i \in DOMAIN w : w[i].m = "took" /\ w[i].item = Anchor)
Shows(r) == r.m \in {"output", "answer"} \/ (r.m = "took" /\ r.item # Anchor)
Shown(w) == \E i \in DOMAIN w : Shows(w[i])

\* A turn the model has not answered in is still the instruction's own, nothing
\* was read in it, and it goes on or has failed; whatever the model did in one
\* was read or can be.
Quiet ==
  /\ pc = "turn" /\ conv.silent # 0 =>
       /\ s.own /\ ~s.output /\ ~s.steered /\ s.running /\ ~conv.stale
       /\ Only(wire, {"declined", "failed"})
       /\ turn = "own" \/ server = "dead" \/ Has(wire, {"failed"})
  /\ pc = "turn" /\ conv.silent = 0 => conv.stale
  /\ pc = "turn" /\ s.own => conv.kept.kind = "turn"
  /\ pc = "turn" /\ s.own /\ Anchored(inbox, wire) => s.steered \/ s.output
  /\ pc = "turn" /\ s.own /\ conv.stale => s.output \/ s.steered \/ Shown(wire)

LEMMA AppendShown ==
    ASSUME NEW w \in Seq(Messages), NEW r \in Messages
    PROVE  /\ Shown(Append(w, r)) <=> Shown(w) \/ Shows(r)
           /\ \A b : Anchored(b, Append(w, r)) => Anchored(b, w) \/ (r.m = "took" /\ r.item = Anchor)
  <1> DEFINE a == Append(w, r)
  <1>1. /\ Len(w) \in Nat /\ DOMAIN w = 1 .. Len(w) /\ DOMAIN a = 1 .. Len(w) + 1
        /\ \A j \in 1 .. Len(w) : a[j] = w[j]
        /\ a[Len(w) + 1] = r
    BY AppendIs
  <1> HIDE DEF a
  <1>2. /\ \A i \in DOMAIN a : (i \in DOMAIN w /\ a[i] = w[i]) \/ a[i] = r
        /\ \A i \in DOMAIN w : i \in DOMAIN a /\ a[i] = w[i]
        /\ \E i \in DOMAIN a : a[i] = r
    BY <1>1
  <1>3. Shown(a) <=> Shown(w) \/ Shows(r)
    <2>1. Shown(a) => Shown(w) \/ Shows(r)
      BY <1>2, Zenon DEF Shown
    <2>2. Shown(w) => Shown(a)
      BY <1>2, Zenon DEF Shown
    <2>3. Shows(r) => Shown(a)
      BY <1>2, Zenon DEF Shown
    <2> QED BY <2>1, <2>2, <2>3
  <1>4. \A b : Anchored(b, a) => Anchored(b, w) \/ (r.m = "took" /\ r.item = Anchor)
    BY <1>2 DEF Anchored
  <1> QED BY <1>3, <1>4 DEF a

LEMMA TailShown ==
    ASSUME NEW w \in Seq(Messages), w # <<>>
    PROVE  /\ Shown(w) => Shown(Tail(w)) \/ Shows(Head(w))
           /\ \A b : Anchored(b, Tail(w)) => Anchored(b, w)
  <1> DEFINE t == Tail(w)
  <1>1. /\ Len(w) \in Nat /\ Len(w) >= 1 /\ DOMAIN w = 1 .. Len(w) /\ DOMAIN t = 1 .. Len(w) - 1
        /\ \A j \in 1 .. Len(w) - 1 : t[j] = w[j + 1]
        /\ Head(w) = w[1]
    BY TailIs
  <1> HIDE DEF t
  <1>2. \A i \in DOMAIN w : w[i] = Head(w) \/ (i - 1 \in DOMAIN t /\ w[i] = t[i - 1])
    BY <1>1
  <1>3. \A i \in DOMAIN t : i + 1 \in DOMAIN w /\ t[i] = w[i + 1]
    BY <1>1
  <1>4. Shown(w) => Shown(t) \/ Shows(Head(w))
    BY <1>2, Zenon DEF Shown
  <1>5. \A b : Anchored(b, t) => Anchored(b, w)
    BY <1>3 DEF Anchored
  <1> QED BY <1>4, <1>5 DEF t

LEMMA QueueAnchored ==
    ASSUME NEW b \in Seq(Nat), NEW n \in Nat, NEW w
    PROVE  /\ Anchored(Append(b, n), w) => Anchored(b, w) \/ n = Anchor
           /\ b # <<>> => (Anchored(Tail(b), w) => Anchored(b, w)) /\ (Head(b) = Anchor => Anchored(b, w))
           /\ Anchored(<<>>, w) => Anchored(b, w)
  <1>1. Anchored(Append(b, n), w) => Anchored(b, w) \/ n = Anchor
    <2> DEFINE a == Append(b, n)
    <2>1. /\ Len(b) \in Nat /\ DOMAIN b = 1 .. Len(b) /\ DOMAIN a = 1 .. Len(b) + 1
          /\ \A j \in 1 .. Len(b) : a[j] = b[j]
          /\ a[Len(b) + 1] = n
      BY AppendIs
    <2> HIDE DEF a
    <2>2. \A i \in DOMAIN a : (i \in DOMAIN b /\ a[i] = b[i]) \/ a[i] = n
      BY <2>1
    <2> QED BY <2>2 DEF Anchored, a
  <1>2. ASSUME b # <<>>
        PROVE  (Anchored(Tail(b), w) => Anchored(b, w)) /\ (Head(b) = Anchor => Anchored(b, w))
    <2> DEFINE t == Tail(b)
    <2>1. /\ Len(b) \in Nat /\ Len(b) >= 1 /\ DOMAIN b = 1 .. Len(b) /\ DOMAIN t = 1 .. Len(b) - 1
          /\ \A j \in 1 .. Len(b) - 1 : t[j] = b[j + 1]
          /\ Head(b) = b[1]
      BY <1>2, TailIs
    <2> HIDE DEF t
    <2>2. (\A i \in DOMAIN t : i + 1 \in DOMAIN b /\ t[i] = b[i + 1]) /\ 1 \in DOMAIN b
      BY <2>1
    <2> QED BY <2>1, <2>2 DEF Anchored, t
  <1>3. Anchored(<<>>, w) => Anchored(b, w)
    BY DEF Anchored
  <1> QED BY <1>1, <1>2, <1>3

LEMMA RestQuiet ==
    ASSUME Sane, Ordered, Quiet, Between \/ Failing \/ Opening1 \/ Sending1
    PROVE  Quiet'
  <1>1. CASE pc' # "turn"
    BY <1>1 DEF Quiet
  <1>2. CASE Rests
    BY <1>2 DEF Rests, Quiet
  <1>3. CASE TurnStarts /\ pc' = "turn"
    <2>1. /\ pc = "starting" /\ inbox = <<>> /\ turn' = "own" /\ UNCHANGED <<inbox, wire>>
          /\ conv' = [Heard(s.instr, "turn") EXCEPT !.stale = FALSE]
          /\ s' = [s EXCEPT !.delivered = TRUE, !.own = TRUE, !.turn = TRUE, !.activating = TRUE]
      BY <1>3 DEF TurnStarts
    <2>2. DOMAIN s = SessionFields /\ ~s.output /\ ~s.steered /\ s.running /\ conv.silent \in Nat
      BY <2>1 DEF Sane, Typed, Calling
    <2>3. s'.own /\ ~s'.output /\ ~s'.steered /\ s'.running
      BY <2>1, <2>2 DEF SessionFields
    <2>4. ~conv'.stale /\ conv'.silent = conv.silent + 1 /\ conv'.kept.kind = "turn"
      <3> DEFINE h == Heard(s.instr, "turn")
      <3>1. DOMAIN h = ConvFields /\ h.silent = conv.silent + 1 /\ h.kept.kind = "turn"
        BY ConvIs
      <3>2. conv' = [h EXCEPT !.stale = FALSE]
        BY <2>1
      <3> HIDE DEF h
      <3> QED BY <3>1, <3>2 DEF ConvFields
    <2>5. Only(wire, {"declined"})
      BY <2>1 DEF Ordered
    <2>6. Only(wire', {"declined", "failed"}) /\ ~Anchored(inbox', wire')
      BY <2>1, <2>5 DEF Only, Anchored
    <2>7. conv'.silent # 0
      BY <2>2, <2>4
    <2> QED BY <2>1, <2>3, <2>4, <2>6, <2>7 DEF Quiet
  <1>4. CASE ~Rests /\ ~(TurnStarts /\ pc' = "turn")
    <2>1. pc' # "turn"
      <3>1. CASE Between
        BY <1>4, <3>1 DEF Between, Halts, Begins, Retries, Retry, Resumes, Resume, Accepts, Accepted, Vanishes, ConversationVanishes
      <3>2. CASE Failing
        BY <3>2 DEF Failing, FailsOpening, FailsSending, FailsTurn, Outgrows, FailedAt
      <3>3. CASE Opening1
        BY <3>3 DEF Opening1, OpensNew, NewThread, OpenSaved, OpenRemoves, Opens
      <3>4. CASE Sending1
        BY <1>4, <3>4 DEF Sending1, SendsFirst, SendsOn, SendsRejection, SendsMore, Sent, Submits, GoalIsPaused
      <3> QED BY <3>1, <3>2, <3>3, <3>4
    <2> QED BY <1>1, <2>1
  <1> QED BY <1>2, <1>3, <1>4

LEMMA HearingQuiet ==
    ASSUME Sane, Ordered, Quiet, Hearing
    PROVE  Quiet'
  <1> DEFINE h == Head(wire)
             w == Tail(wire)
  <1>0. DOMAIN s = SessionFields /\ wire \in Seq(Messages)
    BY DEF Sane, Typed
  <1>1. PICK m, t, box : Hears(m, t, box)
    BY Zenon DEF Hearing, HearsStarted, HearsOutput, HearsCompacted, HearsTook, HearsDeclined, HearsAnswer,
          HearsComplete, HearsEnded
  <1>2. /\ pc = "turn" /\ wire # <<>> /\ wire' = w /\ UNCHANGED <<pc, turn, server, conv>>
    BY <1>1 DEF Hears
  <1>3. /\ Only(wire, {"declined", "failed"}) => Only(w, {"declined", "failed"}) /\ h.m \in {"declined", "failed"}
        /\ Has(wire, {"failed"}) => Has(w, {"failed"}) \/ h.m = "failed"
        /\ Shown(wire) => Shown(w) \/ Shows(h)
        /\ Anchored(inbox, w) => Anchored(inbox, wire)
    BY <1>0, <1>2, TailHas, TailShown
  <1>4. CASE conv.silent # 0
    <2>1. s.own /\ ~s.output /\ ~s.steered /\ s.running /\ ~conv.stale
          /\ Only(w, {"declined", "failed"}) /\ h.m \in {"declined", "failed"}
          /\ (turn = "own" \/ server = "dead" \/ Has(w, {"failed"}) \/ h.m = "failed")
          /\ conv.kept.kind = "turn" /\ ~Anchored(inbox, wire)
      BY <1>2, <1>3, <1>4 DEF Quiet
    <2>2. HearsDeclined
      BY <2>1 DEF Hearing, HearsStarted, HearsOutput, HearsCompacted, HearsTook, HearsDeclined, HearsAnswer,
          HearsComplete, HearsEnded, Hears
    <2>3. s'.own = s.own /\ s'.output = s.output /\ s'.steered = s.steered /\ s'.running = s.running /\ inbox' = inbox /\ h.m = "declined"
      BY <1>0, <2>2 DEF HearsDeclined, Hears, Declined, SessionFields
    <2>4. ~Anchored(inbox', wire')
      BY <1>2, <1>3, <2>1, <2>3
    <2> QED BY <1>2, <1>4, <2>1, <2>3, <2>4 DEF Quiet
  <1>5. CASE conv.silent = 0
    <2>1. conv.stale /\ (s.own => conv.kept.kind = "turn") /\ (s.own /\ Anchored(inbox, wire) => s.steered \/ s.output)
          /\ (s.own => s.output \/ s.steered \/ Shown(w) \/ Shows(h))
      BY <1>2, <1>3, <1>5 DEF Quiet
    <2>2. s'.own => s.own /\ (s.output => s'.output) /\ (s.steered => s'.steered) /\ (inbox' = inbox \/ s'.steered)
                    /\ (Shows(h) => s'.output \/ s'.steered)
      <3>1. CASE HearsStarted
        <4>1. ~s'.own
          BY <1>0, <3>1 DEF HearsStarted, Hears, SessionFields
        <4> QED BY <4>1
      <3>2. CASE HearsCompacted
        BY <1>0, <3>2 DEF HearsCompacted, Hears, SessionFields
      <3>3. CASE HearsOutput \/ HearsAnswer
        BY <1>0, <3>3 DEF HearsOutput, HearsAnswer, Hears, SessionFields
      <3>4. CASE HearsTook \/ HearsDeclined
        BY <1>0, <3>4 DEF HearsTook, HearsDeclined, Hears, Taken, Declined, SessionFields, Shows
      <3>5. CASE HearsComplete \/ HearsEnded
        BY <1>0, <3>5 DEF HearsComplete, HearsEnded, Hears, SessionFields, Shows
      <3> QED BY <3>1, <3>2, <3>3, <3>4, <3>5 DEF Hearing
    <2> QED BY <1>2, <1>3, <1>5, <2>1, <2>2 DEF Quiet
  <1> QED BY <1>4, <1>5

LEMMA ActingQuiet ==
    ASSUME Sane, Ordered, Quiet, Acting
    PROVE  Quiet'
  <1>0. /\ wire \in Seq(Messages) /\ inbox \in Seq(Nat) /\ s.steer \in Nat /\ DOMAIN conv = ConvFields
    BY DEF Sane, Typed
  <1>1. UNCHANGED <<pc, s>>
    BY ActingQueues
  <1>2. SUFFICES ASSUME pc = "turn" PROVE Quiet'
    BY <1>1 DEF Quiet
  <1>3. LET c == Settled(conv) IN DOMAIN c = ConvFields /\ c.silent = 0 /\ c.stale /\ c.kept = conv.kept
    BY ConvIs
  <1>4. s.own => conv.kept.kind = "turn"
    BY <1>2 DEF Quiet
  <1>5. (s.own /\ Anchored(inbox, wire) => s.steered \/ s.output) /\ (s.own /\ conv.stale => s.output \/ s.steered \/ Shown(wire))
    BY <1>2 DEF Quiet
  <1>6. ASSUME conv'.silent = 0, conv'.stale, conv'.kept = conv.kept, Anchored(inbox', wire') => Anchored(inbox, wire),
               s.own => s.output \/ s.steered \/ Shown(wire')
        PROVE  Quiet'
    BY <1>1, <1>4, <1>5, <1>6 DEF Quiet
  <1>7. CASE CodexWorks \/ CodexCompacts \/ CodexContinues
    <2>1. PICK r \in Messages : wire' = Append(wire, r) /\ r.m \in {"output", "compacted", "started", "failed"} /\ (CodexWorks => r.m = "output")
      BY <1>7, SayingIs, Zenon
    <2>2. UNCHANGED inbox
      BY <1>7 DEF CodexWorks, CodexCompacts, CodexContinues
    <2>3. /\ Anchored(inbox, wire') => Anchored(inbox, wire)
          /\ Shown(wire) \/ Shows(r) => Shown(wire')
      BY <1>0, <2>1, AppendShown
    <2>4. CASE CodexWorks
      <3>1. conv' = Settled(conv) /\ Shows(r)
        BY <2>1, <2>4 DEF CodexWorks, Shows
      <3> QED BY <1>3, <1>6, <2>2, <2>3, <3>1
    <2>5. CASE CodexCompacts \/ CodexContinues
      <3>1. conv.silent = 0
        <4>1. CASE CodexCompacts
          BY <4>1 DEF CodexCompacts
        <4>2. CASE CodexContinues
          <5>1. wire = <<>> /\ turn = "none" /\ server = "up"
            BY <4>2 DEF CodexContinues
          <5>2. ~Has(wire, {"failed"})
            BY <5>1, EmptyHas
          <5> QED BY <1>2, <5>1, <5>2 DEF Quiet
        <4> QED BY <2>5, <4>1, <4>2
      <3>2. conv'.silent = conv.silent /\ conv'.stale = conv.stale /\ conv'.kept = conv.kept
        BY <1>0, <2>5 DEF CodexCompacts, CodexContinues, ConvFields
      <3>3. conv.stale
        BY <1>2, <3>1 DEF Quiet
      <3> QED BY <1>5, <1>6, <2>2, <2>3, <3>1, <3>2, <3>3
    <2> QED BY <1>7, <2>4, <2>5
  <1>8. ASSUME NEW r \in Messages, wire' = Append(wire, r), r.m \in {"failed", "declined"}, UNCHANGED <<conv, server>>,
               UNCHANGED turn \/ r.m = "failed", Anchored(inbox', wire) => Anchored(inbox, wire)
        PROVE  Quiet'
    <2>1. /\ Anchored(inbox', wire') => Anchored(inbox, wire)
          /\ Shown(wire) => Shown(wire')
          /\ Only(wire, {"declined", "failed"}) => Only(wire', {"declined", "failed"})
          /\ Has(wire, {"failed"}) => Has(wire', {"failed"})
          /\ r.m = "failed" => Has(wire', {"failed"})
      BY <1>0, <1>8, AppendShown, AppendHas
    <2> QED BY <1>1, <1>2, <1>8, <2>1 DEF Quiet
  <1>9. CASE WatchPause
    <2>1. PICK r \in Messages : wire' = Append(wire, r) /\ r.m \in {"failed"}
      <3>1. Msg("failed") \in Messages /\ Msg("failed").m = "failed" /\ wire' = Append(wire, Msg("failed"))
        BY <1>9 DEF WatchPause, Msg, Messages, Kinds
      <3> QED BY <3>1
    <2> QED BY <1>8, <1>9, <2>1 DEF WatchPause
  <1>10. CASE CodexEndsTurn
    <2> DEFINE a == [m |-> "answer", item |-> conv.fb]
               e == Msg("ended")
               c == Msg("complete")
               f == Msg("failed")
    <2>1. /\ a \in Messages /\ e \in Messages /\ c \in Messages /\ f \in Messages
          /\ a.m = "answer" /\ e.m = "ended" /\ c.m = "complete" /\ f.m = "failed"
          /\ UNCHANGED <<inbox, server>>
          /\ \/ wire' = Append(wire, e) /\ conv.silent = 0 /\ UNCHANGED conv
             \/ wire' = Append(wire, f) /\ UNCHANGED conv
             \/ wire' = Append(Append(wire, a), e) /\ conv' = Settled(conv)
             \/ wire' = Append(Append(Append(wire, a), e), c) /\ conv' = Settled(conv)
             \/ wire' = Append(Append(Append(wire, a), c), e) /\ conv' = Settled(conv)
      BY <1>10, EndTurnIs
    <2> HIDE DEF a, e, c, f
    <2>2. CASE wire' = Append(wire, f) /\ UNCHANGED conv
      BY <1>8, <2>1, <2>2
    <2>3. CASE wire' = Append(wire, e) /\ conv.silent = 0 /\ UNCHANGED conv
      <3>1. (Anchored(inbox, wire') => Anchored(inbox, wire)) /\ (Shown(wire) => Shown(wire'))
        BY <1>0, <2>1, <2>3, AppendShown
      <3>2. conv.stale
        BY <1>2, <2>3 DEF Quiet
      <3> QED BY <1>5, <1>6, <2>1, <2>3, <3>1, <3>2
    <2>4. CASE ~(wire' = Append(wire, f) /\ UNCHANGED conv) /\ ~(wire' = Append(wire, e) /\ conv.silent = 0 /\ UNCHANGED conv)
      <3> DEFINE q == Append(wire, a)
                 g(x) == x \in Seq(Messages) /\ Shown(x) /\ (Anchored(inbox, x) => Anchored(inbox, wire))
      <3>1. g(q)
        <4>1. Shows(a)
          BY <2>1 DEF Shows
        <4> QED BY <1>0, <2>1, <4>1, AppendShown, AppendIs
      <3>2. \A x, r : g(x) /\ r \in {e, c} => g(Append(x, r))
        BY <2>1, AppendShown, AppendIs
      <3>3. conv' = Settled(conv) /\ (wire' = Append(q, e) \/ wire' = Append(Append(q, e), c) \/ wire' = Append(Append(q, c), e))
        BY <2>1, <2>4
      <3>4. g(wire') => Shown(wire') /\ (Anchored(inbox, wire') => Anchored(inbox, wire))
        OBVIOUS
      <3> HIDE DEF g, q
      <3>5. g(Append(q, e)) /\ g(Append(q, c))
        BY <3>1, <3>2
      <3>6. g(Append(Append(q, e), c)) /\ g(Append(Append(q, c), e))
        BY <3>2, <3>5
      <3> QED BY <1>3, <1>6, <2>1, <3>3, <3>4, <3>5, <3>6
    <2> QED BY <2>2, <2>3, <2>4
  <1>11. CASE CodexTakesSteer
    <2> DEFINE t == [m |-> "took", item |-> Head(inbox)]
               d == [m |-> "declined", item |-> Head(inbox)]
    <2>1. inbox # <<>> /\ inbox' = Tail(inbox) /\ UNCHANGED <<turn, server>>
      BY <1>11 DEF CodexTakesSteer
    <2>2. /\ t \in Messages /\ d \in Messages /\ t.m = "took" /\ d.m = "declined" /\ t.item = Head(inbox)
          /\ \A w : (Anchored(inbox', w) => Anchored(inbox, w)) /\ (Head(inbox) = Anchor => Anchored(inbox, w))
      <3>1. Head(inbox) \in Nat
        BY <1>0, <2>1, TailIs
      <3> QED BY <1>0, <2>1, <3>1, QueueAnchored DEF Messages, Kinds
    <2>3. \/ wire' = Append(wire, d) /\ UNCHANGED conv
          \/ /\ wire' = Append(wire, t)
             /\ conv' = IF Head(inbox) = Anchor THEN [Settled(conv) EXCEPT !.plain = FALSE]
                        ELSE [Settled(conv) EXCEPT !.steer = Head(inbox)]
      BY <1>11 DEF CodexTakesSteer
    <2> HIDE DEF t, d
    <2>4. CASE wire' = Append(wire, d) /\ UNCHANGED conv
      BY <1>8, <2>1, <2>2, <2>4
    <2>5. CASE ~(wire' = Append(wire, d) /\ UNCHANGED conv)
      <3>1. conv'.silent = 0 /\ conv'.stale /\ conv'.kept = conv.kept
        BY <1>3, <2>3, <2>5 DEF ConvFields
      <3>2. /\ Anchored(inbox', wire') => Anchored(inbox, wire)
            /\ Shows(t) => Shown(wire')
        <4>1. \A b : Anchored(b, wire') => Anchored(b, wire) \/ (t.m = "took" /\ t.item = Anchor)
          <5>1. t \in Messages /\ wire' = Append(wire, t)
            BY <2>2, <2>3, <2>5
          <5> QED BY <1>0, <5>1, AppendShown
        <4>2. Shows(t) => Shown(wire')
          BY <1>0, <2>2, <2>3, <2>5, AppendShown
        <4> QED BY <2>2, <4>1, <4>2
      <3>3. Head(inbox) # Anchor => Shows(t)
        BY <2>2 DEF Shows
      <3>4. s.own => s.output \/ s.steered \/ Shown(wire')
        BY <1>5, <2>2, <3>2, <3>3
      <3> QED BY <1>6, <3>1, <3>2, <3>4
    <2> QED BY <2>4, <2>5
  <1>12. CASE Dies
    <2>1. UNCHANGED <<wire, conv>> /\ inbox' = <<>> /\ server' = "dead"
      BY <1>12 DEF Dies
    <2>2. Anchored(inbox', wire') => Anchored(inbox, wire)
      BY <1>0, <2>1, QueueAnchored
    <2> QED BY <1>1, <2>1, <2>2 DEF Quiet
  <1>13. CASE WatchSteer
    <2>1. /\ UNCHANGED <<wire, conv, turn, server>> /\ inbox' = Append(inbox, s.steer + 1) /\ s.steer + 1 <= queued
      BY <1>13 DEF WatchSteer
    <2>2. queued \in 0 .. MaxSteers /\ MaxSteers \in Nat
      BY AuthorConstants DEF Sane, Typed
    <2>3. s.steer + 1 \in Nat /\ s.steer + 1 # Anchor
      BY <1>0, <2>1, <2>2 DEF Anchor
    <2>4. Anchored(inbox', wire') => Anchored(inbox, wire)
      BY <1>0, <2>1, <2>3, QueueAnchored
    <2> QED BY <1>1, <2>1, <2>4 DEF Quiet
  <1> QED BY <1>7, <1>9, <1>10, <1>11, <1>12, <1>13 DEF Acting

LEMMA ActiveQuiet == Sane /\ Quiet /\ Activates => Quiet'
  BY ActiveIs DEF Quiet

LEMMA QuietNext == Sane /\ Ordered /\ Quiet /\ [Next]_vars => Quiet'
  <1> SUFFICES ASSUME Sane, Ordered, Quiet, [Next]_vars PROVE Quiet'
    OBVIOUS
  <1>1. Step
    BY Normal
  <1> QED BY <1>1, RestQuiet, HearingQuiet, ActingQuiet, ActiveQuiet DEF Step

LEMMA QuietInit == Init => Quiet
  BY DEF Init, InitStep, Quiet

-----------------------------------------------------------------------------
\* Repeated instructions, removed turns

\* As long as Codex answers the calls that start a turn and removes the turns it
\* is asked to: the conversation a session reopens ends in no turn without an answer,
\* but the one its retry removes, and that one has none.
Echo ==
  ~excused =>
    /\ conv.silent <= 1 /\ ~conv.lost
    /\ pc \in Before1 /\ known.thread # None /\ conv.silent # 0 => RewindsHere
    /\ pc \in Before1 /\ RewindsHere => known.rewind.silent = 0 /\ ~conv.stale
    /\ pc \in Opened => ~RewindsHere
    /\ pc \in {"opened", "sending", "starting", "submitted"} => conv.silent = 0
    /\ pc = "turn" /\ s.own => conv.kept.silent = 0

LEMMA NoRewindHere == ASSUME known'.rewind = NoRewind PROVE ~RewindsHere'
  BY NoneIs DEF RewindsHere

LEMMA BetweenEcho ==
    ASSUME Sane, Echo, Between
    PROVE  Echo'
  <1>1. CASE Rests \/ Begins
    BY <1>1 DEF Rests, Begins, Echo, Before1, Opened, RewindsHere
  <1>2. CASE Halts \/ Accepts
    BY <1>2 DEF Halts, Accepts, Accepted, Alone, Echo, Before1, Opened
  <1>3. CASE Retries
    <2>1. known'.rewind = known.rewind /\ known'.thread \in {None, known.thread}
      BY <1>3 DEF Retries, Retry, Sane, Typed, KnownFields
    <2>2. pc = "waiting" /\ pc' = "launch" /\ UNCHANGED <<conv, excused>>
      BY <1>3 DEF Retries, Retry, Alone
    <2> QED BY <2>1, <2>2 DEF Echo, Before1, Opened, RewindsHere
  <1>4. CASE Resumes
    <2>1. pc' = "launch" /\ conv' = Settled(conv) /\ UNCHANGED excused /\ known' = [Unknown EXCEPT !.thread = noted.thread]
      BY <1>4 DEF Resumes, Resume, Alone
    <2>2. conv'.silent = 0 /\ (conv'.lost <=> conv.lost)
      BY <2>1, ConvIs
    <2>3. known'.rewind = NoRewind
      BY <2>1, NoneIs DEF KnownFields
    <2> QED BY <2>1, <2>2, <2>3, NoRewindHere DEF Echo, Opened
  <1>5. CASE Vanishes
    <2>1. /\ pc \in {"paused", "waiting"} /\ UNCHANGED <<pc, known, excused>>
          /\ conv' = [conv EXCEPT !.live = FALSE]
      BY <1>5 DEF Vanishes, ConversationVanishes, Alone
    <2>2. conv'.silent = conv.silent /\ conv'.lost = conv.lost /\ conv'.stale = conv.stale /\ conv'.id = conv.id
      BY <2>1 DEF Sane, Typed, ConvFields
    <2> QED BY <2>1, <2>2 DEF Echo, Opened, RewindsHere
  <1> QED BY <1>1, <1>2, <1>3, <1>4, <1>5 DEF Between

LEMMA FailingEcho ==
    ASSUME Sane, Ordered, Quiet, Echo, Failing
    PROVE  Echo'
  <1>1. pc' = "waiting" /\ UNCHANGED conv /\ (excused => excused')
    BY DEF Failing, FailsOpening, FailsSending, FailsTurn, Outgrows, FailedAt
  <1>2. SUFFICES ASSUME ~excused, ~excused'
                 PROVE  /\ known'.thread # None /\ conv.silent # 0 => RewindsHere'
                        /\ RewindsHere' => known'.rewind.silent = 0 /\ ~conv.stale
    BY <1>1 DEF Echo, Before1, Opened
  <1>3. CASE FailsOpening
    <2>1. pc \in {"opening", "opened"} /\ known'.rewind = known.rewind
      BY <1>3 DEF FailsOpening, FailedAt
    <2>2. CASE pc = "opened"
      BY <1>1, <1>2, <2>1, <2>2 DEF Echo, Opened, RewindsHere
    <2>3. CASE pc = "opening"
      <3>1. s.thread = None
        BY <2>3 DEF Sane
      <3>2. known'.thread = known.thread
        BY <1>3, <3>1 DEF FailsOpening
      <3> QED BY <1>1, <1>2, <2>1, <2>3, <3>2 DEF Echo, Before1, RewindsHere
    <2> QED BY <2>1, <2>2, <2>3
  <1>4. CASE FailsSending
    <2>1. pc \in Calling /\ known'.rewind \in {NoRewind, known.rewind}
      BY <1>4 DEF FailsSending, FailedAt
    <2>2. conv.silent = 0 /\ ~RewindsHere
      BY <1>2, <2>1 DEF Echo, Calling, Opened
    <2> QED BY <1>1, <2>1, <2>2, NoRewindHere DEF RewindsHere
  <1>5. CASE FailsTurn
    <2>1. /\ pc = "turn"
          /\ known'.rewind = IF ~s.output /\ ~s.steered /\ s.own THEN conv.kept ELSE NoRewind
          /\ wire = <<>> \/ (wire # <<>> /\ Head(wire).m = "failed") \/ conv.silent # 0
      BY <1>2, <1>5 DEF FailsTurn, FailedAt
    <2>2. conv.silent = 0 => ~Shown(wire)
      <3>0. SUFFICES ASSUME conv.silent = 0 PROVE ~Shown(wire)
        OBVIOUS
      <3>1. CASE wire = <<>>
        BY <3>1 DEF Shown
      <3>2. CASE wire # <<>> /\ Head(wire).m = "failed"
        <4>1. wire \in Seq(Messages) /\ After(wire, {"failed"}, {"declined"})
          BY DEF Sane, Typed, Ordered
        <4>2. Only(Tail(wire), {"declined"})
          BY <3>2, <4>1, TailHas
        <4>3. ~Shown(Tail(wire)) /\ ~Shows(Head(wire))
          BY <3>2, <4>2 DEF Only, Shown, Shows
        <4> QED BY <3>2, <4>1, <4>3, TailShown
      <3> QED BY <2>1, <3>0, <3>1, <3>2
    <2>3. s.own => conv.kept.silent = 0 /\ conv.kept.kind = "turn" /\ conv.kept.id = conv.id
      BY <1>2, <2>1 DEF Echo, Quiet, Sane
    <2>4. CASE ~s.output /\ ~s.steered /\ s.own
      <3>1. RewindsHere' /\ known'.rewind.silent = 0
        BY <1>1, <2>1, <2>3, <2>4 DEF RewindsHere
      <3>2. ~conv.stale
        BY <2>1, <2>2, <2>4 DEF Quiet
      <3> QED BY <3>1, <3>2
    <2>5. CASE ~(~s.output /\ ~s.steered /\ s.own)
      <3>1. conv.silent = 0
        BY <2>1, <2>5 DEF Quiet
      <3>2. known'.rewind = NoRewind
        BY <2>1, <2>5
      <3> QED BY <3>1, <3>2, NoRewindHere
    <2> QED BY <2>4, <2>5
  <1>6. CASE Outgrows
    <2>1. known'.rewind = NoRewind /\ known'.thread = None
      BY <1>6 DEF Outgrows
    <2> QED BY <2>1, NoRewindHere
  <1> QED BY <1>3, <1>4, <1>5, <1>6 DEF Failing

LEMMA OpeningEcho ==
    ASSUME Sane, Echo, Opening1
    PROVE  Echo'
  <1>1. pc = "opening" /\ pc' = "opened"
    BY DEF Opening1, OpensNew, NewThread, OpenSaved, OpenRemoves, Opens
  <1>2. excused => excused'
    BY DEF Opening1, OpensNew, OpenSaved, OpenRemoves
  <1>3. SUFFICES ASSUME ~excused, ~excused'
                 PROVE  conv'.silent = 0 /\ ~conv'.lost /\ ~RewindsHere'
    BY <1>1, <1>2 DEF Echo, Before1
  <1>4. known.thread # None /\ conv.silent # 0 => RewindsHere
    BY <1>1, <1>3 DEF Echo, Before1
  <1>5. CASE OpensNew
    <2>1. conv' = NewConv(conv.id + 1) /\ UNCHANGED known
      BY <1>5 DEF OpensNew, NewThread
    <2>2. conv.id \in Nat /\ known.rewind.id \in Nat /\ known.rewind.id <= conv.id
      BY DEF Sane, Typed, IsRewind
    <2>3. conv'.silent = 0 /\ ~conv'.lost /\ conv'.id = conv.id + 1
      <3>1. conv.id + 1 \in Nat
        BY <2>2
      <3> QED BY <2>1, <3>1, ConvIs
    <2>4. known'.rewind.id # conv'.id
      BY <2>1, <2>2, <2>3
    <2> QED BY <2>3, <2>4 DEF RewindsHere
  <1>6. CASE OpenSaved
    <2>1. known.thread # None /\ ~RewindsHere /\ UNCHANGED <<known, conv>>
      BY <1>3, <1>6 DEF OpenSaved
    <2> QED BY <1>3, <1>4, <2>1 DEF RewindsHere, Echo
  <1>7. CASE OpenRemoves
    <2>1. RewindsHere /\ conv' = Removed(known.rewind) /\ known' = [known EXCEPT !.rewind.kind = "gone"]
      BY <1>7 DEF OpenRemoves
    <2>2. known.rewind.silent = 0 /\ ~conv.stale /\ ~conv.lost
      BY <1>1, <1>3, <2>1 DEF Echo, Before1
    <2>3. conv'.silent = 0 /\ ~conv'.lost
      BY <2>1, <2>2, ConvIs
    <2>4. known'.rewind.kind = "gone"
      BY <2>1 DEF Sane, Typed, KnownFields, IsRewind
    <2> QED BY <2>3, <2>4 DEF RewindsHere
  <1> QED BY <1>5, <1>6, <1>7 DEF Opening1

LEMMA SendingEcho ==
    ASSUME Sane, Ordered, Quiet, Echo, Sending1
    PROVE  Echo'
  <1>1. CASE SendsFirst \/ GoalIsPaused
    BY <1>1 DEF SendsFirst, Sent, GoalIsPaused, step, Echo, Before1, Opened, RewindsHere
  <1>2. CASE SendsOn
    <2>1. pc = "turn" /\ pc' = "sending" /\ ~s.running /\ UNCHANGED <<known, conv, excused>>
      BY <1>2 DEF SendsOn, Sent
    <2>2. conv.silent = 0
      BY <2>1 DEF Quiet
    <2> QED BY <2>1, <2>2 DEF Echo, Before1, Opened, RewindsHere
  <1>3. CASE SendsRejection
    <2>1. pc = "submitted" /\ pc' = "sending" /\ UNCHANGED <<conv, excused>> /\ known' = [Unknown EXCEPT !.thread = noted.thread]
      BY <1>3 DEF SendsRejection, Sent
    <2>2. known'.rewind = NoRewind
      BY <2>1, NoneIs DEF KnownFields
    <2> QED BY <2>1, <2>2, NoRewindHere DEF Echo, Before1
  <1>4. CASE SendsMore \/ Submits
    <2>1. /\ pc = "turn" /\ pc' \in {"sending", "submitted"} /\ UNCHANGED <<known, conv, excused>>
          /\ wire # <<>> /\ Head(wire).m \in {"complete", "ended"}
      BY <1>4 DEF SendsMore, Submits, Completes, Sent
    <2>2. conv.silent = 0
      <3>1. wire \in Seq(Messages)
        BY DEF Sane, Typed
      <3>2. ~Only(wire, {"declined", "failed"})
        BY <2>1, <3>1, TailHas
      <3> QED BY <2>1, <3>2 DEF Quiet
    <2> QED BY <2>1, <2>2 DEF Echo, Before1, Opened, RewindsHere
  <1>5. CASE TurnStarts
    <2>1. pc = "starting" /\ UNCHANGED known /\ (excused => excused') /\ pc' \in {"turn", "starting"}
      BY <1>5 DEF TurnStarts
    <2>2. SUFFICES ASSUME ~excused, ~excused'
                   PROVE  Echo'
      BY <2>1 DEF Echo
    <2>3. pc' = "turn" /\ conv' = [Heard(s.instr, "turn") EXCEPT !.stale = FALSE]
      BY <1>5, <2>2 DEF TurnStarts
    <2> DEFINE h == Heard(s.instr, "turn")
    <2>4. DOMAIN h = ConvFields /\ h.silent = conv.silent + 1 /\ h.kept.silent = conv.silent /\ (h.lost <=> conv.lost) /\ h.id = conv.id
      BY ConvIs
    <2>5. conv' = [h EXCEPT !.stale = FALSE]
      BY <2>3
    <2> HIDE DEF h
    <2>6. conv'.silent = conv.silent + 1 /\ conv'.kept.silent = conv.silent /\ (conv'.lost <=> conv.lost) /\ conv'.id = conv.id
      BY <2>4, <2>5 DEF ConvFields
    <2>7. conv.silent = 0 /\ ~conv.lost /\ ~RewindsHere
      BY <2>1, <2>2 DEF Echo, Opened
    <2> QED BY <2>1, <2>3, <2>6, <2>7 DEF Echo, Before1, RewindsHere
  <1> QED BY <1>1, <1>2, <1>3, <1>4, <1>5 DEF Sending1

LEMMA HearingEcho ==
    ASSUME Sane, Echo, Hearing
    PROVE  Echo'
  <1>0. DOMAIN s = SessionFields
    BY DEF Sane, Typed
  <1>1. PICK m, t, box : Hears(m, t, box)
    BY Zenon DEF Hearing, HearsStarted, HearsOutput, HearsCompacted, HearsTook, HearsDeclined, HearsAnswer,
          HearsComplete, HearsEnded
  <1>2. UNCHANGED <<pc, known, conv, excused>>
    BY <1>1 DEF Hears
  <1>3. s'.own => s.own
    BY <1>0 DEF Hearing, HearsStarted, HearsOutput, HearsCompacted, HearsTook, HearsDeclined, HearsAnswer,
          HearsComplete, HearsEnded, Hears, Taken, Declined, SessionFields
  <1> QED BY <1>2, <1>3 DEF Echo, RewindsHere

\* What Codex does to a conversation by itself.
LEMMA ActingIs ==
    ASSUME Sane, Acting
    PROVE  /\ UNCHANGED <<step, excused>>
           /\ conv'.id = conv.id /\ conv'.fb = conv.fb /\ conv'.lost = conv.lost /\ conv'.kept = conv.kept /\ conv'.live = conv.live
           /\ \/ conv'.silent = conv.silent /\ conv'.stale = conv.stale
              \/ pc \in {"sending", "starting", "turn"} /\ conv'.silent = 0 /\ conv'.stale
  <1> DEFINE c == Settled(conv)
  <1>1. /\ DOMAIN c = ConvFields /\ c.id = conv.id /\ c.fb = conv.fb /\ c.lost = conv.lost /\ c.kept = conv.kept
        /\ c.silent = 0 /\ c.stale /\ c.live = conv.live
    BY ConvIs
  <1>2. DOMAIN conv = ConvFields
    BY DEF Sane, Typed
  <1> HIDE DEF c
  <1>3. UNCHANGED <<step, excused>>
    BY DEF Acting, CodexWorks, CodexCompacts, CodexEndsTurn, CodexContinues, CodexTakesSteer, CodexOnly, Dies, WatchSteer, WatchPause
  <1>4. \/ UNCHANGED conv \/ conv' = [conv EXCEPT !.plain = TRUE]
        \/ /\ pc \in {"sending", "starting", "turn"}
           /\ conv' = c \/ conv' = [c EXCEPT !.plain = FALSE] \/ conv' = [c EXCEPT !.steer = Head(inbox)]
    BY DEF Acting, CodexWorks, CodexCompacts, CodexEndsTurn, CodexContinues, CodexTakesSteer, Dies, WatchSteer, WatchPause, c
  <1> QED BY <1>1, <1>2, <1>3, <1>4 DEF ConvFields

LEMMA ActingEcho ==
    ASSUME Sane, Echo, Acting
    PROVE  Echo'
  <1>1. UNCHANGED <<pc, s, known, excused>>
    BY ActingQueues, ActingIs DEF step
  <1>2. /\ conv'.id = conv.id /\ conv'.lost = conv.lost /\ conv'.kept = conv.kept
        /\ \/ conv'.silent = conv.silent /\ conv'.stale = conv.stale
           \/ pc \in {"sending", "starting", "turn"} /\ conv'.silent = 0 /\ conv'.stale
    BY ActingIs
  <1> QED BY <1>1, <1>2 DEF Echo, Before1, Opened, RewindsHere

LEMMA ActiveEcho == Sane /\ Echo /\ Activates => Echo'
  BY ActiveIs DEF Echo, RewindsHere

LEMMA EchoNext == Sane /\ Ordered /\ Quiet /\ Echo /\ [Next]_vars => Echo'
  <1> SUFFICES ASSUME Sane, Ordered, Quiet, Echo, [Next]_vars PROVE Echo'
    OBVIOUS
  <1>1. Step
    BY Normal
  <1> QED BY <1>1, BetweenEcho, FailingEcho, OpeningEcho, SendingEcho, HearingEcho, ActingEcho, ActiveEcho DEF Step

LEMMA EchoInit == Init => Echo
  <1>1. Init => /\ conv.silent = 0 /\ ~conv.lost /\ ~conv.stale /\ pc = "launch" /\ known.rewind = NoRewind
    BY NoneIs DEF Init, InitStep
  <1> QED BY <1>1, NoneIs DEF Echo, Before1, Opened, RewindsHere

\* The three invariants of a session that the properties of its turns rest on.
LEMMA TurnsHold == Spec => [](Sane /\ Ordered /\ Quiet)
  <1>1. Init => Sane /\ Ordered /\ Quiet
    BY SaneInit, OrderedInit, QuietInit
  <1>2. Sane /\ Ordered /\ Quiet /\ [Next]_vars => (Sane /\ Ordered /\ Quiet)'
    BY SaneNext, OrderedNext, QuietNext
  <1> QED BY <1>1, <1>2, PTL DEF Spec

LEMMA EchoHolds == Spec => []Echo
  BY TurnsHold, EchoInit, EchoNext, PTL DEF Spec

\* Whatever number of turns fail before the model produces anything, and
\* whatever the retries of the step do: the conversation holds one copy of the
\* instruction (_goal_step removes the failed turn before it sends it again).
THEOREM OutagesAddNothing == Spec => []NoEcho
  <1>1. Echo => NoEcho
    BY DEF Echo, NoEcho
  <1> QED BY <1>1, EchoHolds, PTL

\* A retry removes only turns the model produced nothing in, as long as Codex
\* answers the calls that start a turn (turn/start once it took the turn, the
\* thread/goal/set after it once it worked) and removes the turns it is asked to.
THEOREM RetriesKeepWork == Spec => []WorkKept
  <1>1. Echo => WorkKept
    BY DEF Echo, WorkKept
  <1> QED BY <1>1, EchoHolds, PTL

-----------------------------------------------------------------------------
\* The critic's feedback, between its sessions

\* An instruction carries the newest feedback or none; a step that must still
\* pass a rejection on remembers how, and one that replaces its conversation
\* tells the new one all.
Pending ==
  /\ ~repairing => initial = feedback
  /\ conv.fb <= feedback /\ known.rewind.fb <= feedback /\ conv.kept.fb <= feedback
  /\ known.instr.fb \in {0, feedback} /\ s.instr.fb \in {0, feedback}
  /\ known.instr # NoInstr => known.retry
  /\ pc \in Before1 \cup {"opened"} =>
       /\ repairing => known.instr # NoInstr /\ (known.thread # None \/ known.replace)
       /\ known.replace => known.thread = None /\ known.instr.fb = feedback /\ known.instr # NoInstr
       /\ known.rewind.kind # "none" => known.instr # NoInstr

\* What a session tells the conversation it opens.
LEMMA FirstIs ==
    ASSUME Sane, Pending, pc = "opening"
    PROVE  /\ Replacement.fb = feedback
           /\ known.thread = None => FirstInstruction(FALSE, None).fb = feedback
           /\ \A t : known.thread # None =>
                /\ known.instr # NoInstr => FirstInstruction(TRUE, t) = known.instr
                /\ known.instr = NoInstr => FirstInstruction(TRUE, t).fb = (IF Received(t) THEN 0 ELSE feedback)
  <1>0. initial \in Nat /\ feedback \in Nat /\ known.rewind.kind # "fresh"
    BY DEF Sane, Typed, IsRewind
  <1>1. /\ ~repairing => initial = feedback
        /\ known.instr # NoInstr => known.retry
        /\ repairing => known.instr # NoInstr /\ (known.thread # None \/ known.replace)
        /\ known.replace => known.instr.fb = feedback /\ known.instr # NoInstr
    BY DEF Pending, Before1
  <1>2. Replacement.fb = feedback
    BY <1>1, InstrIs DEF PendingRepair
  <1>3. ASSUME known.thread = None
        PROVE  FirstInstruction(FALSE, None).fb = feedback
    <2>1. CASE known.replace
      BY <1>1, <2>1 DEF FirstInstruction, Continues
    <2>2. CASE ~known.replace
      <3>1. initial = feedback /\ ~Continues
        BY <1>0, <1>1, <1>3, <2>2 DEF Continues
      <3> QED BY <1>0, <3>1, NoneIs DEF FirstInstruction
    <2> QED BY <2>1, <2>2
  <1>4. ASSUME NEW t, known.thread # None
        PROVE  /\ known.instr # NoInstr => FirstInstruction(TRUE, t) = known.instr
               /\ known.instr = NoInstr => FirstInstruction(TRUE, t).fb = (IF Received(t) THEN 0 ELSE feedback)
    <2>1. CASE known.instr # NoInstr
      BY <1>1, <1>4, <2>1 DEF FirstInstruction, Continues
    <2>2. CASE known.instr = NoInstr
      <3>1. initial = feedback
        BY <1>1, <2>2
      <3>2. CASE Received(t)
        BY <2>2, <3>2 DEF FirstInstruction, Instr, None
      <3>3. CASE ~Received(t)
        BY <2>2, <3>1, <3>3 DEF FirstInstruction, Instr, None
      <3> QED BY <2>2, <3>2, <3>3
    <2> QED BY <2>1, <2>2
  <1> QED BY <1>2, <1>3, <1>4

LEMMA BetweenPending ==
    ASSUME Sane, Pending, Between
    PROVE  Pending'
  <1>0. feedback \in Nat /\ initial \in Nat /\ conv.fb \in Nat /\ conv.kept.fb \in Nat /\ known.rewind.fb \in Nat
    BY DEF Sane, Typed, IsRewind
  <1>1. /\ Unknown.rewind.fb = 0 /\ Unknown.rewind.kind = "none" /\ Unknown.instr = NoInstr /\ NoInstr.fb = 0
        /\ ~Unknown.replace /\ NoSession.instr = NoInstr /\ DOMAIN Unknown = KnownFields
    BY NoneIs
  <1>2. CASE Rests
    BY <1>2 DEF Rests, Pending, Before1
  <1>3. CASE Halts
    <2>1. /\ pc' = "paused" /\ known' = Unknown /\ s' = NoSession /\ UNCHANGED <<initial, conv>>
          /\ UNCHANGED <<feedback, repairing>> \/ (feedback' = feedback + 1 /\ repairing' = TRUE)
      BY <1>3 DEF Halts, Over
    <2>2. feedback' \in Nat /\ feedback <= feedback' /\ (~repairing' => initial' = feedback')
      BY <1>0, <2>1 DEF Pending
    <2> QED BY <1>0, <1>1, <2>1, <2>2 DEF Pending, Before1
  <1>4. CASE Begins
    <2>1. s'.instr = NoInstr
      BY <1>1, <1>4, NoneIs DEF Begins, Fresh, SessionFields
    <2> QED BY <1>1, <1>4, <2>1 DEF Begins, Pending, Before1
  <1>5. CASE Retries
    <2>1. /\ known'.rewind = known.rewind /\ known'.instr = known.instr /\ known'.retry = known.retry
          /\ known'.replace = known.replace /\ (known'.thread = IF known.replace THEN None ELSE known.thread)
      BY <1>5 DEF Retries, Retry, Sane, Typed, KnownFields, IsRewind
    <2>2. pc = "waiting" /\ pc' = "launch" /\ UNCHANGED <<feedback, initial, repairing, s, conv>>
      BY <1>5 DEF Retries, Retry
    <2> QED BY <2>1, <2>2 DEF Pending, Before1
  <1>6. CASE Resumes
    <2>1. /\ pc' = "launch" /\ conv' = Settled(conv) /\ known' = [Unknown EXCEPT !.thread = noted.thread]
          /\ initial' = feedback /\ repairing' = FALSE /\ UNCHANGED <<feedback, s>>
      BY <1>6 DEF Resumes, Resume
    <2>2. conv'.fb = conv.fb /\ conv'.kept = conv.kept
      BY <2>1, ConvIs
    <2>3. known'.rewind.fb = 0 /\ known'.rewind.kind = "none" /\ known'.instr = NoInstr /\ ~known'.replace
      BY <1>1, <2>1 DEF KnownFields
    <2> QED BY <1>0, <1>1, <2>1, <2>2, <2>3 DEF Pending
  <1>7. CASE Accepts
    BY <1>7 DEF Accepts, Accepted, step, Pending, Before1
  <1>8. CASE Vanishes
    <2>1. conv' = [conv EXCEPT !.live = FALSE] /\ UNCHANGED <<pc, known, feedback, initial, repairing, s>>
      BY <1>8 DEF Vanishes, ConversationVanishes
    <2>2. conv'.fb = conv.fb /\ conv'.kept = conv.kept
      BY <2>1 DEF Sane, Typed, ConvFields
    <2> QED BY <2>1, <2>2 DEF Pending
  <1> QED BY <1>2, <1>3, <1>4, <1>5, <1>6, <1>7, <1>8 DEF Between

LEMMA FailingPending ==
    ASSUME Sane, Pending, Failing
    PROVE  Pending'
  <1>0. feedback \in Nat /\ conv.kept.fb \in Nat
    BY DEF Sane, Typed, IsRewind
  <1>1. /\ pc' = "waiting" /\ s' = NoSession /\ known'.retry /\ UNCHANGED <<conv, feedback, initial, repairing>>
    BY DEF Failing, FailsOpening, FailsSending, FailsTurn, Outgrows, FailedAt, Over
  <1>2. NoRewind.fb = 0 /\ NoRewind.kind = "none" /\ NoSession.instr = NoInstr /\ NoInstr.fb = 0
        /\ RetryNote # NoInstr /\ RetryNote.fb = 0
    BY NoneIs
  <1>3. SUFFICES /\ known'.rewind.fb <= feedback /\ known'.instr.fb \in {0, feedback}
                 /\ repairing => known'.instr # NoInstr /\ (known'.thread # None \/ known'.replace)
                 /\ known'.replace => known'.thread = None /\ known'.instr.fb = feedback /\ known'.instr # NoInstr
                 /\ known'.rewind.kind # "none" => known'.instr # NoInstr
    BY <1>1, <1>2 DEF Pending
  <1>4. pc \in Opened => s.thread # None
    BY DEF Sane, None
  <1>5. CASE FailsOpening
    <2>1. /\ pc \in {"opening", "opened"}
          /\ known'.thread = IF s.thread # None THEN s.thread ELSE known.thread
          /\ known'.replace <=> known.replace /\ s.thread = None
          /\ known'.instr = known.instr /\ known'.rewind = known.rewind
      BY <1>5 DEF FailsOpening, FailedAt
    <2> QED BY <2>1 DEF Pending, Before1
  <1>6. CASE FailsSending
    <2>1. /\ pc \in Calling /\ known'.thread = s.thread /\ ~known'.replace
          /\ known'.instr = s.instr /\ known'.rewind \in {NoRewind, known.rewind}
      BY <1>6 DEF FailsSending, FailedAt
    <2>2. s.instr # NoInstr /\ s.thread # None
      BY <1>4, <2>1 DEF Sane, Calling, Opened
    <2> QED BY <1>0, <1>2, <2>1, <2>2 DEF Pending
  <1>7. CASE FailsTurn
    <2>1. /\ pc = "turn" /\ known'.thread = s.thread /\ ~known'.replace
          /\ known'.rewind \in {conv.kept, NoRewind} /\ known'.instr \in {s.instr, RetryNote}
      BY <1>7 DEF FailsTurn, FailedAt
    <2>2. s.instr # NoInstr /\ s.thread # None
      BY <1>4, <2>1 DEF Sane, Opened
    <2> QED BY <1>0, <1>2, <2>1, <2>2 DEF Pending
  <1>8. CASE Outgrows
    <2>1. /\ known'.thread = None /\ known'.replace /\ known'.instr = Replacement /\ known'.rewind = NoRewind
      BY <1>8 DEF Outgrows
    <2>2. Replacement # NoInstr /\ Replacement.fb = feedback
      BY InstrIs DEF Pending, PendingRepair
    <2> QED BY <1>0, <1>2, <2>1, <2>2
  <1> QED BY <1>5, <1>6, <1>7, <1>8 DEF Failing

LEMMA OpeningPending ==
    ASSUME Sane, Pending, Opening1
    PROVE  Pending'
  <1>0. /\ feedback \in Nat /\ known.rewind.fb \in Nat /\ DOMAIN s = SessionFields /\ DOMAIN known = KnownFields
        /\ NoRewind.fb = 0
    BY NoneIs DEF Sane, Typed, IsRewind
  <1>1. pc = "opening" /\ pc' = "opened" /\ UNCHANGED <<feedback, initial, repairing>>
    BY DEF Opening1, OpensNew, NewThread, OpenSaved, OpenRemoves, Opens, Opening
  <1>2. CASE OpensNew
    <2>1. PICK i : /\ NewThread(i) /\ ((known.thread = None /\ i = FirstInstruction(FALSE, None)) \/ i = Replacement)
                   /\ UNCHANGED known
      BY <1>2 DEF OpensNew
    <2>2. s'.instr = i /\ conv' = NewConv(conv.id + 1)
      BY <1>0, <2>1 DEF NewThread, Opens, SessionFields
    <2>3. i.fb = feedback
      BY <1>1, <2>1, FirstIs
    <2>4. conv'.fb = 0 /\ conv'.kept = NoRewind
      <3>1. conv.id + 1 \in Nat
        BY DEF Sane, Typed
      <3> QED BY <2>2, <3>1, ConvIs
    <2> QED BY <1>0, <1>1, <2>1, <2>2, <2>3, <2>4 DEF Pending, Before1
  <1>3. CASE OpenSaved \/ OpenRemoves
    <2>1. s'.instr = FirstInstruction(TRUE, conv.id) /\ known.thread # None
      BY <1>0, <1>3 DEF OpenSaved, OpenRemoves, Opens, SessionFields
    <2>2. s'.instr.fb \in {0, feedback}
      BY <1>1, <2>1, FirstIs DEF Pending
    <2>3. CASE OpenSaved
      BY <1>1, <2>2, <2>3 DEF OpenSaved, Pending, Before1
    <2>4. CASE OpenRemoves
      <3>1. conv' = Removed(known.rewind) /\ known' = [known EXCEPT !.rewind.kind = "gone"] /\ known.rewind.kind = "turn"
        BY <2>4 DEF OpenRemoves, RewindsHere
      <3>2. conv'.fb = known.rewind.fb /\ conv'.kept = NoRewind
        BY <3>1, ConvIs
      <3>3. /\ known'.rewind.fb = known.rewind.fb /\ known'.instr = known.instr /\ known'.retry = known.retry
            /\ known'.replace = known.replace /\ known'.thread = known.thread
        BY <1>0, <3>1 DEF KnownFields, Sane, Typed, IsRewind
      <3> QED BY <1>0, <1>1, <2>2, <3>1, <3>2, <3>3 DEF Pending, Before1
    <2> QED BY <1>3, <2>3, <2>4
  <1> QED BY <1>2, <1>3 DEF Opening1

LEMMA SendingPending ==
    ASSUME Sane, Pending, Sending1
    PROVE  Pending'
  <1>0. feedback \in Nat /\ conv.fb \in Nat /\ conv.kept.fb \in Nat /\ known.rewind.fb \in Nat /\ DOMAIN s = SessionFields
    BY DEF Sane, Typed, IsRewind
  <1>1. pc' \notin Before1 \cup {"opened"}
    BY DEF Sending1, SendsFirst, SendsOn, SendsRejection, SendsMore, Sent, Submits, GoalIsPaused, TurnStarts, Before1
  <1>2. ASSUME NEW t, NEW i, SendsNow(t, i), DOMAIN t = SessionFields
        PROVE  s'.instr = i
    BY <1>2 DEF SendsNow, SessionFields
  <1>3. CASE SendsRejection
    <2>1. /\ UNCHANGED <<initial, conv>> /\ feedback' = feedback + 1 /\ repairing' = TRUE
          /\ known' = [Unknown EXCEPT !.thread = noted.thread] /\ s'.instr = Instr(FALSE, feedback')
      BY <1>0, <1>2, <1>3 DEF SendsRejection, Sent
    <2>2. known'.instr = NoInstr /\ known'.rewind = NoRewind /\ NoInstr.fb = 0 /\ NoRewind.fb = 0
      BY <2>1, NoneIs DEF KnownFields
    <2>3. feedback' \in Nat /\ feedback <= feedback' /\ s'.instr.fb = feedback'
      <3>1. feedback' \in Nat /\ feedback <= feedback'
        BY <1>0, <2>1
      <3>2. s'.instr.fb = feedback'
        BY <2>1 DEF Instr
      <3> QED BY <3>1, <3>2
    <2>4. conv'.fb <= feedback' /\ conv'.kept.fb <= feedback'
      <3>1. conv.fb <= feedback /\ conv.kept.fb <= feedback
        BY DEF Pending
      <3>2. UNCHANGED conv
        BY <2>1
      <3> QED BY <1>0, <2>3, <3>1, <3>2
    <2>5. known'.rewind.fb <= feedback'
      BY <2>2, <2>3
    <2>6. known'.instr.fb \in {0, feedback'} /\ known'.instr = NoInstr /\ repairing'
      BY <2>1, <2>2
    <2> QED BY <1>1, <2>3, <2>4, <2>5, <2>6 DEF Pending
  <1>4. CASE SendsFirst \/ SendsOn \/ SendsMore
    <2>1. UNCHANGED <<known, feedback, initial, repairing, conv>>
      BY <1>4 DEF SendsFirst, SendsOn, SendsMore, Completes, Sent
    <2>2. s'.instr.fb \in {0, feedback}
      <3>1. CASE SendsFirst
        BY <1>0, <1>2, <3>1 DEF SendsFirst, Pending
      <3>2. CASE SendsOn \/ SendsMore
        <4>1. s'.instr = Continuation
          BY <1>0, <1>2, <3>2, Zenon DEF SendsOn, SendsMore
        <4> QED BY <4>1, NoneIs
      <3> QED BY <1>4, <3>1, <3>2
    <2> QED BY <1>1, <2>1, <2>2 DEF Pending
  <1>5. CASE GoalIsPaused \/ Submits
    <2>1. UNCHANGED <<known, feedback, initial, repairing, conv>> /\ s'.instr = s.instr
      BY <1>0, <1>5 DEF GoalIsPaused, step, Submits, Completes, SessionFields
    <2> QED BY <1>1, <2>1 DEF Pending
  <1>6. CASE TurnStarts
    <2>1. UNCHANGED <<known, feedback, initial, repairing>> /\ s'.instr = s.instr
      BY <1>0, <1>6 DEF TurnStarts, SessionFields
    <2> DEFINE h == Heard(s.instr, "turn")
    <2>2. DOMAIN h = ConvFields /\ h.fb = (IF s.instr.fb # 0 THEN s.instr.fb ELSE conv.fb) /\ h.kept.fb = conv.fb
      BY ConvIs
    <2>3. conv' = [h EXCEPT !.stale = FALSE] \/ conv' = h
      BY <1>6 DEF TurnStarts
    <2> HIDE DEF h
    <2>4. conv'.fb = (IF s.instr.fb # 0 THEN s.instr.fb ELSE conv.fb) /\ conv'.kept.fb = conv.fb
      BY <2>2, <2>3 DEF ConvFields
    <2>5. conv'.fb <= feedback /\ conv'.kept.fb <= feedback
      BY <1>0, <2>4 DEF Pending
    <2> QED BY <1>1, <2>1, <2>5 DEF Pending
  <1> QED BY <1>3, <1>4, <1>5, <1>6 DEF Sending1

LEMMA TurnPending ==
    ASSUME Sane, Pending, Hearing \/ Acting
    PROVE  Pending'
  <1>1. CASE Hearing
    <2>0. DOMAIN s = SessionFields
      BY DEF Sane, Typed
    <2>1. PICK m, t, box : Hears(m, t, box)
      BY <1>1, Zenon DEF Hearing, HearsStarted, HearsOutput, HearsCompacted, HearsTook, HearsDeclined, HearsAnswer,
            HearsComplete, HearsEnded
    <2>2. UNCHANGED <<pc, known, conv, feedback, initial, repairing>>
      BY <2>1 DEF Hears
    <2>3. s'.instr = s.instr
      BY <1>1, <2>0 DEF Hearing, HearsStarted, HearsOutput, HearsCompacted, HearsTook, HearsDeclined, HearsAnswer,
          HearsComplete, HearsEnded, Hears, Taken, Declined, SessionFields
    <2> QED BY <2>2, <2>3 DEF Pending
  <1>2. CASE Acting
    <2>1. UNCHANGED <<pc, s, known, feedback, initial, repairing>> /\ conv'.fb = conv.fb /\ conv'.kept = conv.kept
      BY <1>2, ActingQueues, ActingIs
    <2> QED BY <2>1 DEF Pending
  <1> QED BY <1>1, <1>2

LEMMA ActivePending == Sane /\ Pending /\ Activates => Pending'
  BY ActiveIs DEF Pending

LEMMA PendingNext == Sane /\ Pending /\ [Next]_vars => Pending'
  <1> SUFFICES ASSUME Sane, Pending, [Next]_vars PROVE Pending'
    OBVIOUS
  <1>1. Step
    BY Normal
  <1> QED BY <1>1, BetweenPending, FailingPending, OpeningPending, SendingPending, TurnPending, ActivePending DEF Step

LEMMA PendingInit == Init => Pending
  <1>1. Init => /\ conv.fb = 0 /\ feedback = 0 /\ initial = 0 /\ conv.kept = NoRewind /\ known = Unknown /\ s = NoSession /\ ~repairing
    BY DEF Init, InitStep, None
  <1>2. /\ Unknown.instr = NoInstr /\ Unknown.rewind = NoRewind /\ NoRewind.fb = 0 /\ NoInstr.fb = 0 /\ NoSession.instr = NoInstr
        /\ ~Unknown.replace /\ NoRewind.kind = "none"
    BY NoneIs
  <1> QED BY <1>1, <1>2 DEF Pending

-----------------------------------------------------------------------------
\* What the conversation was told

\* The answers on their way, and the one read, are to the newest feedback the
\* conversation holds.
Answers(w, n) == \A i \in DOMAIN w : w[i].m = "answer" => w[i].item = n
Answered == pc = "turn" => Answers(wire, conv.fb) /\ (s.answer # "none" => s.from = conv.fb)

LEMMA AnswersKept ==
    ASSUME NEW w \in Seq(Messages), NEW r \in Messages, NEW n, Answers(w, n)
    PROVE  /\ r.m # "answer" \/ r.item = n => Answers(Append(w, r), n)
           /\ w # <<>> => Answers(Tail(w), n) /\ (Head(w).m = "answer" => Head(w).item = n)
  <1>1. ASSUME r.m # "answer" \/ r.item = n
        PROVE  Answers(Append(w, r), n)
    <2> DEFINE a == Append(w, r)
    <2>1. /\ Len(w) \in Nat /\ DOMAIN w = 1 .. Len(w) /\ DOMAIN a = 1 .. Len(w) + 1
          /\ \A j \in 1 .. Len(w) : a[j] = w[j]
          /\ a[Len(w) + 1] = r
      BY AppendIs
    <2> HIDE DEF a
    <2>2. \A i \in DOMAIN a : (i \in DOMAIN w /\ a[i] = w[i]) \/ a[i] = r
      BY <2>1
    <2> QED BY <1>1, <2>2 DEF Answers, a
  <1>2. ASSUME w # <<>>
        PROVE  Answers(Tail(w), n) /\ (Head(w).m = "answer" => Head(w).item = n)
    <2> DEFINE t == Tail(w)
    <2>1. /\ Len(w) \in Nat /\ Len(w) >= 1 /\ DOMAIN w = 1 .. Len(w) /\ DOMAIN t = 1 .. Len(w) - 1
          /\ \A j \in 1 .. Len(w) - 1 : t[j] = w[j + 1]
          /\ Head(w) = w[1]
      BY <1>2, TailIs
    <2> HIDE DEF t
    <2>2. (\A i \in DOMAIN t : i + 1 \in DOMAIN w /\ t[i] = w[i + 1]) /\ 1 \in DOMAIN w
      BY <2>1
    <2> QED BY <2>1, <2>2 DEF Answers, t
  <1> QED BY <1>1, <1>2

LEMMA AnsweredNext ==
    ASSUME Sane, Ordered, Answered, Step
    PROVE  Answered'
  <1>0. DOMAIN s = SessionFields /\ wire \in Seq(Messages) /\ DOMAIN conv = ConvFields
    BY DEF Sane, Typed
  <1>1. CASE Hearing
    <2>1. PICK m, t, box : Hears(m, t, box)
      BY <1>1, Zenon DEF Hearing, HearsStarted, HearsOutput, HearsCompacted, HearsTook, HearsDeclined, HearsAnswer,
            HearsComplete, HearsEnded
    <2>2. pc = "turn" /\ wire # <<>> /\ wire' = Tail(wire) /\ UNCHANGED <<pc, conv>>
      BY <2>1 DEF Hears
    <2>3. /\ Answers(Tail(wire), conv.fb) /\ (Head(wire).m = "answer" => Head(wire).item = conv.fb)
          /\ s.answer # "none" => s.from = conv.fb
      <3>1. Head(wire) \in Messages
        BY <1>0, <2>2, TailIs
      <3> QED BY <1>0, <2>2, <3>1, AnswersKept DEF Answered
    <2>4. s'.answer # "none" => s'.from = conv.fb
      <3>1. CASE HearsAnswer
        BY <1>0, <2>3, <3>1 DEF HearsAnswer, Hears, SessionFields
      <3>2. CASE HearsStarted
        BY <1>0, <3>2 DEF HearsStarted, Hears, SessionFields
      <3>3. CASE HearsOutput \/ HearsCompacted \/ HearsTook \/ HearsDeclined \/ HearsComplete \/ HearsEnded
        <4>1. s'.answer = s.answer /\ s'.from = s.from
          BY <1>0, <3>3 DEF HearsOutput, HearsCompacted, HearsTook, HearsDeclined, HearsComplete, HearsEnded, Hears,
             Taken, Declined, SessionFields
        <4> QED BY <2>3, <4>1
      <3> QED BY <1>1, <3>1, <3>2, <3>3 DEF Hearing
    <2> QED BY <2>2, <2>3, <2>4 DEF Answered
  <1>2. CASE Acting
    <2>1. UNCHANGED <<pc, s>> /\ conv'.fb = conv.fb
      BY <1>2, ActingQueues, ActingIs
    <2>2. SUFFICES ASSUME pc = "turn", Answers(wire, conv.fb) PROVE Answers(wire', conv.fb)
      BY <2>1 DEF Answered
    <2>3. CASE CodexWorks \/ CodexCompacts \/ CodexContinues \/ WatchPause
      <3>1. PICK r \in Messages : wire' = Append(wire, r) /\ r.m \in {"output", "compacted", "started", "failed"}
        BY <2>3, SayingIs, Zenon
      <3> QED BY <1>0, <2>2, <3>1, AnswersKept
    <2>4. CASE CodexEndsTurn
      <3> DEFINE a == [m |-> "answer", item |-> conv.fb]
                 e == Msg("ended")
                 c == Msg("complete")
                 f == Msg("failed")
                 g(x) == x \in Seq(Messages) /\ Answers(x, conv.fb)
      <3>1. /\ a \in Messages /\ e \in Messages /\ c \in Messages /\ f \in Messages
            /\ a.item = conv.fb /\ e.m # "answer" /\ c.m # "answer" /\ f.m # "answer"
            /\ \/ wire' = Append(wire, e)
               \/ wire' = Append(wire, f)
               \/ wire' = Append(Append(wire, a), e)
               \/ wire' = Append(Append(Append(wire, a), e), c)
               \/ wire' = Append(Append(Append(wire, a), c), e)
        BY <2>4, EndTurnIs
      <3> HIDE DEF a, e, c, f
      <3>2. \A x, r : g(x) /\ r \in {a, e, c, f} => g(Append(x, r))
        BY <3>1, AnswersKept, AppendIs
      <3>3. g(wire) /\ (g(wire') => Answers(wire', conv.fb))
        BY <1>0, <2>2
      <3> HIDE DEF g
      <3>4. g(Append(wire, e)) /\ g(Append(wire, f)) /\ g(Append(wire, a))
        BY <3>2, <3>3
      <3>5. g(Append(Append(wire, a), e)) /\ g(Append(Append(wire, a), c))
        BY <3>2, <3>4
      <3>6. g(Append(Append(Append(wire, a), e), c)) /\ g(Append(Append(Append(wire, a), c), e))
        BY <3>2, <3>5
      <3> QED BY <3>1, <3>3, <3>4, <3>5, <3>6
    <2>5. CASE CodexTakesSteer
      <3>1. Head(inbox) \in Nat
        <4>1. inbox \in Seq(Nat) /\ inbox # <<>>
          BY <2>5 DEF CodexTakesSteer, Sane, Typed
        <4> QED BY <4>1, TailIs
      <3>2. PICK r \in Messages : wire' = Append(wire, r) /\ r.m # "answer"
        BY <2>5, <3>1 DEF CodexTakesSteer, Messages, Kinds
      <3> QED BY <1>0, <2>2, <3>2, AnswersKept
    <2>6. CASE Dies \/ WatchSteer
      BY <2>2, <2>6 DEF Dies, WatchSteer
    <2> QED BY <1>2, <2>3, <2>4, <2>5, <2>6 DEF Acting
  <1>3. CASE TurnStarts /\ pc' = "turn"
    <2>1. pc = "starting" /\ UNCHANGED wire /\ s' = [s EXCEPT !.delivered = TRUE, !.own = TRUE, !.turn = TRUE, !.activating = TRUE]
      BY <1>3 DEF TurnStarts
    <2>2. s.answer = "none" /\ Only(wire, {"declined"})
      BY <2>1 DEF Sane, Calling, Ordered
    <2>3. s'.answer = "none"
      BY <1>0, <2>1, <2>2 DEF SessionFields
    <2>4. \A n : Answers(wire, n)
      BY <2>2 DEF Only, Answers
    <2> QED BY <2>1, <2>3, <2>4 DEF Answered
  <1>4. CASE Rests \/ Activates
    BY <1>4, ActiveIs DEF Rests, Answered
  <1>5. CASE ~Hearing /\ ~Acting /\ ~(TurnStarts /\ pc' = "turn") /\ ~Rests /\ ~Activates
    <2>1. pc' # "turn"
      <3>1. CASE Between
        BY <1>5, <3>1 DEF Between, Halts, Begins, Retries, Retry, Resumes, Resume, Accepts, Accepted, Vanishes, ConversationVanishes
      <3>2. CASE Failing
        BY <3>2 DEF Failing, FailsOpening, FailsSending, FailsTurn, Outgrows, FailedAt
      <3>3. CASE Opening1
        BY <3>3 DEF Opening1, OpensNew, NewThread, OpenSaved, OpenRemoves, Opens
      <3>4. CASE Sending1
        BY <1>5, <3>4 DEF Sending1, SendsFirst, SendsOn, SendsRejection, SendsMore, Sent, Submits, GoalIsPaused
      <3> QED BY <1>5, <3>1, <3>2, <3>3, <3>4 DEF Step
    <2> QED BY <2>1 DEF Answered
  <1> QED BY <1>1, <1>2, <1>3, <1>4, <1>5

\* The conversation has the newest feedback, or the instruction brings it.
Brings(i) == conv.fb = feedback \/ (i.fb = feedback /\ feedback # 0)
\* And, once the turn that the retry removes is gone, it still has, or removing
\* it loses work.
Restores(i) == conv.stale \/ known.rewind.fb = feedback \/ (i.fb = feedback /\ feedback # 0)

Told ==
  ~withdrawn /\ ~conv.lost =>
    /\ (pc \in Before1 /\ known.thread # None) \/ pc = "opened" =>
         (conv.live => IF known.instr # NoInstr THEN Brings(known.instr)
                       ELSE noted.repair = [thread |-> conv.id, fb |-> initial] => conv.fb = feedback)
    /\ pc \in Before1 \cup {"opened"} /\ RewindsHere => Restores(known.instr)
    /\ pc \in {"opened", "sending", "starting"} => Brings(s.instr) /\ (RewindsHere => Restores(s.instr))
    /\ pc \in {"turn", "submitted"} => conv.fb = feedback
    /\ pc = "turn" /\ s.own => conv.kept.fb = feedback \/ (s.instr.fb = feedback /\ feedback # 0)
    /\ pc = "submitted" => s.from = feedback

LEMMA BetweenTold ==
    ASSUME Sane, Told, Between
    PROVE  Told'
  <1>1. CASE Rests \/ Begins
    BY <1>1 DEF Rests, Begins, Told, Before1, Brings, Restores, RewindsHere
  <1>2. CASE Halts \/ Accepts
    BY <1>2 DEF Halts, Accepts, Accepted, Alone, Told, Before1
  <1>3. CASE Retries
    <2>1. known'.rewind = known.rewind /\ known'.thread \in {None, known.thread} /\ known'.instr = known.instr
      BY <1>3 DEF Retries, Retry, Sane, Typed, KnownFields
    <2>2. pc = "waiting" /\ pc' = "launch" /\ UNCHANGED <<conv, withdrawn, noted, initial, feedback>>
      BY <1>3 DEF Retries, Retry
    <2> QED BY <2>1, <2>2 DEF Told, Before1, Brings, Restores, RewindsHere
  <1>4. CASE Resumes
    <2>1. /\ pc' = "launch" /\ conv' = Settled(conv) /\ known' = [Unknown EXCEPT !.thread = noted.thread]
          /\ withdrawn' = (withdrawn \/ (conv.live /\ conv.id = noted.thread /\ ~Informed(feedback)))
          /\ initial' = feedback /\ UNCHANGED <<noted, feedback>>
      BY <1>4 DEF Resumes, Resume
    <2>2. conv'.fb = conv.fb /\ (conv'.live <=> conv.live) /\ conv'.id = conv.id /\ conv.id = noted.thread
      BY <2>1, ConvIs DEF Sane
    <2>3. known'.rewind = NoRewind /\ known'.instr = NoInstr
      BY <2>1, NoneIs DEF KnownFields
    <2>4. ~RewindsHere'
      BY <2>3, NoRewindHere
    <2>5. ~withdrawn' /\ conv'.live => (noted.repair = [thread |-> conv.id, fb |-> feedback] => conv.fb = feedback)
      BY <2>1, <2>2 DEF Informed
    <2>6. ~withdrawn' /\ conv'.live => (noted'.repair = [thread |-> conv'.id, fb |-> initial'] => conv'.fb = feedback')
      BY <2>1, <2>2, <2>5
    <2> QED BY <2>1, <2>3, <2>4, <2>6 DEF Told
  <1>5. CASE Vanishes
    <2>1. /\ pc \in {"paused", "waiting"} /\ UNCHANGED <<pc, known, withdrawn, feedback>>
          /\ conv' = [conv EXCEPT !.live = FALSE]
      BY <1>5 DEF Vanishes, ConversationVanishes
    <2>2. ~conv'.live /\ conv'.fb = conv.fb /\ conv'.lost = conv.lost /\ conv'.stale = conv.stale /\ conv'.id = conv.id
      BY <2>1 DEF Sane, Typed, ConvFields
    <2> QED BY <2>1, <2>2 DEF Told, Restores, RewindsHere
  <1> QED BY <1>1, <1>2, <1>3, <1>4, <1>5 DEF Between

LEMMA FailingTold ==
    ASSUME Sane, Pending, Told, Failing
    PROVE  Told'
  <1>1. pc' = "waiting" /\ UNCHANGED <<conv, withdrawn, noted, initial, feedback>>
    BY DEF Failing, FailsOpening, FailsSending, FailsTurn, Outgrows, FailedAt
  <1>2. SUFFICES ASSUME ~withdrawn, ~conv.lost
                 PROVE  /\ known'.thread # None /\ conv.live =>
                             IF known'.instr # NoInstr THEN Brings(known'.instr)
                             ELSE noted.repair = [thread |-> conv.id, fb |-> initial] => conv.fb = feedback
                        /\ RewindsHere' => conv.stale \/ known'.rewind.fb = feedback \/ (known'.instr.fb = feedback /\ feedback # 0)
    <2>1. Brings(known'.instr) => Brings(known.instr)'
      BY <1>1 DEF Brings
    <2>2. conv.stale \/ known'.rewind.fb = feedback \/ (known'.instr.fb = feedback /\ feedback # 0) => Restores(known.instr)'
      BY <1>1 DEF Restores
    <2> QED BY <1>1, <2>1, <2>2 DEF Told
  <1>3. CASE FailsOpening
    <2>1. /\ pc \in {"opening", "opened"} /\ known'.rewind = known.rewind /\ known'.instr = known.instr
          /\ known'.thread = IF s.thread # None THEN s.thread ELSE known.thread
      BY <1>3 DEF FailsOpening, FailedAt
    <2>2. pc = "opening" => known'.thread = known.thread
      BY <2>1 DEF Sane
    <2>3. RewindsHere' <=> RewindsHere
      BY <1>1, <2>1 DEF RewindsHere
    <2> QED BY <1>2, <2>1, <2>2, <2>3 DEF Told, Before1, Restores
  <1>4. CASE FailsSending
    <2>1. /\ pc \in Calling /\ known'.instr = s.instr /\ known'.rewind \in {NoRewind, known.rewind}
      BY <1>4 DEF FailsSending, FailedAt
    <2>2. s.instr # NoInstr /\ Brings(s.instr) /\ (RewindsHere => Restores(s.instr))
      BY <1>2, <2>1 DEF Sane, Told, Calling
    <2>3. RewindsHere' => RewindsHere /\ known'.rewind = known.rewind
      BY <1>1, <2>1, NoneIs DEF RewindsHere
    <2> QED BY <2>1, <2>2, <2>3 DEF Restores
  <1>5. CASE FailsTurn
    <2>1. /\ pc = "turn"
          /\ known'.rewind = IF ~s.output /\ ~s.steered /\ s.own THEN conv.kept ELSE NoRewind
          /\ known'.instr = IF known'.rewind # NoRewind THEN s.instr ELSE RetryNote
      BY <1>5 DEF FailsTurn, FailedAt
    <2>2. conv.fb = feedback /\ known'.instr # NoInstr
      BY <1>2, <2>1, NoneIs DEF Told, Sane
    <2>3. RewindsHere' => s.own /\ known'.rewind = conv.kept /\ known'.instr = s.instr
      <3>1. NoRewind.kind = "none"
        BY NoneIs
      <3> QED BY <2>1, <3>1 DEF RewindsHere
    <2>4. RewindsHere' => known'.rewind.fb = feedback \/ (known'.instr.fb = feedback /\ feedback # 0)
      BY <1>2, <2>1, <2>3 DEF Told
    <2> QED BY <2>2, <2>4 DEF Brings
  <1>6. CASE Outgrows
    <2>1. known'.rewind = NoRewind /\ known'.thread = None
      BY <1>6 DEF Outgrows
    <2> QED BY <2>1, NoRewindHere
  <1> QED BY <1>3, <1>4, <1>5, <1>6 DEF Failing

LEMMA OpeningTold ==
    ASSUME Sane, Pending, Told, Opening1
    PROVE  Told'
  <1>0. /\ feedback \in Nat /\ initial \in Nat /\ conv.fb \in Nat /\ DOMAIN s = SessionFields /\ DOMAIN known = KnownFields
        /\ DOMAIN noted = {"thread", "steer", "repair"} /\ conv.fb <= feedback
    BY DEF Sane, Typed, Pending
  <1>1. pc = "opening" /\ pc' = "opened" /\ UNCHANGED <<feedback, initial, withdrawn>>
    BY DEF Opening1, OpensNew, NewThread, OpenSaved, OpenRemoves, Opens, Opening
  <1>2. CASE OpensNew
    <2>1. PICK i : /\ NewThread(i) /\ ((known.thread = None /\ i = FirstInstruction(FALSE, None)) \/ i = Replacement)
                   /\ UNCHANGED known
      BY <1>2 DEF OpensNew
    <2>2. s'.instr = i /\ conv' = NewConv(conv.id + 1)
      BY <1>0, <2>1 DEF NewThread, Opens, SessionFields
    <2>3. i.fb = feedback
      BY <1>1, <2>1, FirstIs
    <2>4. conv.id \in Nat /\ known.rewind.id \in Nat /\ known.rewind.id <= conv.id
      BY DEF Sane, Typed, IsRewind
    <2>5. conv'.fb = 0 /\ ~conv'.live /\ conv'.id = conv.id + 1
      <3>1. conv.id + 1 \in Nat
        BY <2>4
      <3> QED BY <2>2, <3>1, ConvIs
    <2>6. known'.rewind.id # conv'.id
      BY <2>1, <2>4, <2>5
    <2>7. Brings(s.instr)' /\ ~RewindsHere'
      BY <1>1, <2>2, <2>3, <2>5, <2>6 DEF Brings, RewindsHere
    <2> QED BY <1>1, <2>5, <2>7 DEF Told, Before1
  <1>3. ASSUME ~withdrawn, ~conv.lost, known.thread # None, conv.live
        PROVE  /\ Brings(FirstInstruction(TRUE, conv.id))
               /\ RewindsHere => FirstInstruction(TRUE, conv.id) = known.instr /\ known.instr # NoInstr /\ Restores(known.instr)
    <2>1. /\ known.instr # NoInstr => Brings(known.instr)
          /\ known.instr = NoInstr => (noted.repair = [thread |-> conv.id, fb |-> initial] => conv.fb = feedback)
          /\ RewindsHere => Restores(known.instr)
      BY <1>1, <1>3 DEF Told, Before1
    <2>2. /\ known.instr # NoInstr => FirstInstruction(TRUE, conv.id) = known.instr
          /\ known.instr = NoInstr => FirstInstruction(TRUE, conv.id).fb = (IF Received(conv.id) THEN 0 ELSE feedback)
      BY <1>1, <1>3, FirstIs
    <2>3. RewindsHere => known.instr # NoInstr
      BY <1>1 DEF Pending, Before1, RewindsHere
    <2>4. known.instr = NoInstr => Brings(FirstInstruction(TRUE, conv.id))
      <3>1. CASE Received(conv.id)
        BY <2>1, <3>1 DEF Received, Brings
      <3>2. CASE ~Received(conv.id)
        <4>1. known.instr = NoInstr => FirstInstruction(TRUE, conv.id).fb = feedback
          BY <2>2, <3>2
        <4>2. feedback # 0 \/ conv.fb = feedback
          BY <1>0
        <4> QED BY <4>1, <4>2 DEF Brings
      <3> QED BY <3>1, <3>2
    <2> QED BY <2>1, <2>2, <2>3, <2>4
  <1>4. CASE OpenSaved
    <2>1. /\ s'.instr = FirstInstruction(TRUE, conv.id) /\ known.thread # None /\ conv.live /\ UNCHANGED <<known, conv>>
          /\ noted'.repair = noted.repair
      BY <1>0, <1>4 DEF OpenSaved, Opens, SessionFields
    <2>2. SUFFICES ASSUME ~withdrawn, ~conv.lost PROVE Told'
      BY <1>1, <2>1 DEF Told
    <2>3. Brings(s.instr)' /\ (RewindsHere' => Restores(s.instr)')
      BY <1>1, <1>3, <2>1, <2>2 DEF Brings, Restores, RewindsHere
    <2>4. /\ known.instr # NoInstr => Brings(known.instr)
          /\ known.instr = NoInstr => (noted.repair = [thread |-> conv.id, fb |-> initial] => conv.fb = feedback)
          /\ RewindsHere => Restores(known.instr)
      BY <1>1, <2>1, <2>2 DEF Told, Before1
    <2>5. /\ known'.instr # NoInstr => Brings(known.instr)'
          /\ known'.instr = NoInstr => (noted'.repair = [thread |-> conv'.id, fb |-> initial'] => conv'.fb = feedback')
          /\ RewindsHere' => Restores(known.instr)'
      BY <1>1, <2>1, <2>4 DEF Brings, Restores, RewindsHere
    <2> QED BY <1>1, <2>3, <2>5 DEF Told, Before1
  <1>5. CASE OpenRemoves
    <2>1. /\ s'.instr = FirstInstruction(TRUE, conv.id) /\ known.thread # None /\ conv.live /\ RewindsHere
          /\ conv' = Removed(known.rewind) /\ known' = [known EXCEPT !.rewind.kind = "gone"]
      BY <1>0, <1>5 DEF OpenRemoves, Opens, SessionFields
    <2>2. conv'.fb = known.rewind.fb /\ (conv'.lost <=> conv.lost \/ conv.stale)
      BY <2>1, ConvIs
    <2>3. known'.instr = known.instr /\ ~RewindsHere'
      BY <1>0, <2>1 DEF KnownFields, RewindsHere, Sane, Typed, IsRewind
    <2>4. SUFFICES ASSUME ~withdrawn, ~conv.lost, ~conv.stale PROVE Told'
      BY <1>1, <2>2 DEF Told
    <2>5. FirstInstruction(TRUE, conv.id) = known.instr /\ known.instr # NoInstr /\ Restores(known.instr)
      BY <1>3, <2>1, <2>4
    <2>6. Brings(known.instr)' /\ Brings(s.instr)'
      BY <1>1, <2>1, <2>2, <2>3, <2>4, <2>5 DEF Brings, Restores
    <2> QED BY <1>1, <2>3, <2>5, <2>6 DEF Told, Before1
  <1> QED BY <1>2, <1>4, <1>5 DEF Opening1

LEMMA SendingTold ==
    ASSUME Sane, Quiet, Pending, Answered, Told, Sending1
    PROVE  Told'
  <1>0. feedback \in Nat /\ conv.fb \in Nat /\ DOMAIN s = SessionFields
    BY DEF Sane, Typed
  <1>1. ASSUME NEW t, NEW i, SendsNow(t, i), DOMAIN t = SessionFields
        PROVE  s'.instr = i
    BY <1>1 DEF SendsNow, SessionFields
  <1>2. CASE SendsFirst \/ GoalIsPaused
    <2>1. s'.instr = s.instr
      BY <1>0, <1>1, <1>2 DEF SendsFirst, GoalIsPaused, SessionFields
    <2>2. pc \in {"opened", "sending"} /\ pc' \in {"sending", "starting"} /\ UNCHANGED <<known, conv, feedback, withdrawn>>
      BY <1>2 DEF SendsFirst, Sent, GoalIsPaused, step
    <2> QED BY <2>1, <2>2 DEF Told, Before1, Brings, Restores, RewindsHere
  <1>3. CASE SendsRejection
    <2>1. /\ UNCHANGED conv /\ feedback' = feedback + 1 /\ pc' = "sending"
          /\ known' = [Unknown EXCEPT !.thread = noted.thread] /\ s'.instr = Instr(FALSE, feedback')
      BY <1>0, <1>1, <1>3 DEF SendsRejection, Sent
    <2>2. ~RewindsHere'
      <3>1. known'.rewind = NoRewind
        BY <2>1, NoneIs DEF KnownFields
      <3> QED BY <3>1, NoRewindHere
    <2>3. s'.instr.fb = feedback' /\ feedback' # 0
      BY <1>0, <2>1 DEF Instr
    <2> QED BY <2>1, <2>2, <2>3 DEF Told, Before1, Brings
  <1>4. CASE SendsOn \/ SendsMore
    <2>1. /\ pc = "turn" /\ pc' = "sending" /\ UNCHANGED <<known, conv, feedback, withdrawn>>
          /\ ~s.running \/ (wire # <<>> /\ Head(wire).m \in {"complete", "ended"})
      BY <1>4 DEF SendsOn, SendsMore, Completes, Sent
    <2>2. conv.silent = 0 /\ conv.stale
      <3>1. wire \in Seq(Messages)
        BY DEF Sane, Typed
      <3>2. ~s.running \/ ~Only(wire, {"declined", "failed"})
        BY <2>1, <3>1, TailHas
      <3> QED BY <2>1, <3>2 DEF Quiet
    <2> QED BY <2>1, <2>2 DEF Told, Before1, Brings, Restores
  <1>5. CASE Submits
    <2>1. /\ pc = "turn" /\ pc' = "submitted" /\ UNCHANGED <<conv, feedback, withdrawn>> /\ s'.from = s.from /\ s.answer # "none"
      BY <1>5 DEF Submits, Completes
    <2>2. s.from = conv.fb
      BY <2>1 DEF Answered
    <2> QED BY <2>1, <2>2 DEF Told, Before1
  <1>6. CASE TurnStarts
    <2>1. pc = "starting" /\ pc' \in {"turn", "starting"} /\ UNCHANGED <<known, feedback, withdrawn>> /\ s'.instr = s.instr
      BY <1>0, <1>6 DEF TurnStarts, SessionFields
    <2> DEFINE h == Heard(s.instr, "turn")
    <2>2. /\ DOMAIN h = ConvFields /\ h.fb = (IF s.instr.fb # 0 THEN s.instr.fb ELSE conv.fb) /\ h.kept.fb = conv.fb
          /\ h.id = conv.id /\ h.stale = conv.stale /\ h.lost = conv.lost
      BY ConvIs
    <2>3. (conv' = [h EXCEPT !.stale = FALSE] /\ pc' = "turn") \/ (conv' = h /\ UNCHANGED pc)
      BY <1>6 DEF TurnStarts
    <2> HIDE DEF h
    <2>4. /\ conv'.fb = (IF s.instr.fb # 0 THEN s.instr.fb ELSE conv.fb) /\ conv'.kept.fb = conv.fb /\ conv'.lost = conv.lost
          /\ conv'.id = conv.id /\ (pc' = "starting" => conv'.stale = conv.stale)
      BY <2>1, <2>2, <2>3 DEF ConvFields
    <2>5. SUFFICES ASSUME ~withdrawn, ~conv.lost PROVE Told'
      BY <2>1, <2>4 DEF Told
    <2>6. Brings(s.instr) /\ (RewindsHere => Restores(s.instr)) /\ s.instr.fb \in {0, feedback}
      BY <2>1, <2>5 DEF Told, Pending
    <2>7. conv'.fb = feedback
      BY <2>4, <2>6 DEF Brings
    <2>8. conv.fb = feedback \/ (s.instr.fb = feedback /\ feedback # 0)
      BY <2>6 DEF Brings
    <2> QED BY <2>1, <2>4, <2>6, <2>7, <2>8 DEF Told, Before1, Brings, Restores, RewindsHere
  <1> QED BY <1>2, <1>3, <1>4, <1>5, <1>6 DEF Sending1

LEMMA TurnTold ==
    ASSUME Sane, Told, Hearing \/ Acting
    PROVE  Told'
  <1>1. CASE Hearing
    <2>0. DOMAIN s = SessionFields
      BY DEF Sane, Typed
    <2>1. PICK m, t, box : Hears(m, t, box)
      BY <1>1, Zenon DEF Hearing, HearsStarted, HearsOutput, HearsCompacted, HearsTook, HearsDeclined, HearsAnswer,
            HearsComplete, HearsEnded
    <2>2. pc = "turn" /\ UNCHANGED <<pc, conv, feedback, withdrawn>>
      BY <2>1 DEF Hears
    <2>3. s'.instr = s.instr /\ (s'.own => s.own)
      BY <1>1, <2>0 DEF Hearing, HearsStarted, HearsOutput, HearsCompacted, HearsTook, HearsDeclined, HearsAnswer,
          HearsComplete, HearsEnded, Hears, Taken, Declined, SessionFields
    <2> QED BY <2>2, <2>3 DEF Told, Before1
  <1>2. CASE Acting
    <2>1. UNCHANGED <<pc, s, known, noted, feedback, initial, withdrawn>>
      BY <1>2, ActingQueues
    <2>2. /\ conv'.id = conv.id /\ conv'.fb = conv.fb /\ conv'.lost = conv.lost /\ conv'.kept = conv.kept /\ conv'.live = conv.live
          /\ conv'.stale = conv.stale \/ conv'.stale
      BY <1>2, ActingIs
    <2>3. RewindsHere' <=> RewindsHere
      BY <2>1, <2>2 DEF RewindsHere
    <2>4. /\ Brings(known.instr) => Brings(known.instr)'
          /\ Brings(s.instr) => Brings(s.instr)'
          /\ Restores(known.instr) => Restores(known.instr)'
          /\ Restores(s.instr) => Restores(s.instr)'
      BY <2>1, <2>2 DEF Brings, Restores
    <2> QED BY <2>1, <2>2, <2>3, <2>4 DEF Told
  <1> QED BY <1>1, <1>2

LEMMA ActiveTold == Sane /\ Told /\ Activates => Told'
  BY ActiveIs DEF Told, Brings, Restores, RewindsHere

LEMMA FeedbackNext ==
    Sane /\ Ordered /\ Quiet /\ Pending /\ Answered /\ Told /\ [Next]_vars => Pending' /\ Answered' /\ Told'
  <1> SUFFICES ASSUME Sane, Ordered, Quiet, Pending, Answered, Told, [Next]_vars PROVE Pending' /\ Answered' /\ Told'
    OBVIOUS
  <1>1. Step
    BY Normal
  <1>2. Pending'
    BY PendingNext
  <1>3. Answered'
    BY <1>1, AnsweredNext
  <1>4. Told'
    BY <1>1, BetweenTold, FailingTold, OpeningTold, SendingTold, TurnTold, ActiveTold DEF Step
  <1> QED BY <1>2, <1>3, <1>4

LEMMA FeedbackInit == Init => Pending /\ Answered /\ Told
  <1>1. Init => Answered /\ Told
    <2>1. Init => pc = "launch" /\ known = Unknown
      BY DEF Init, InitStep
    <2>2. known = Unknown => known.thread = None /\ ~RewindsHere
      BY NoneIs DEF RewindsHere, None
    <2> QED BY <2>1, <2>2 DEF Answered, Told, Before1
  <1> QED BY <1>1, PendingInit

\* The submission the critic is given next answers its newest feedback, through
\* failed turns that are removed, refused reopenings, replaced conversations,
\* pauses and kills, for any number of them.
THEOREM CriticIsAnswered == Spec => []FeedbackReachesAuthor
  <1>1. Spec => [](Pending /\ Answered /\ Told)
    BY TurnsHold, FeedbackInit, FeedbackNext, PTL DEF Spec
  <1>2. Told => FeedbackReachesAuthor
    BY DEF Told, FeedbackReachesAuthor, Intact
  <1> QED BY <1>1, <1>2, PTL

=============================================================================
