------------------------ MODULE JobLifecycle_proofs ------------------------
(***************************************************************************)
(* Proofs about JobLifecycle, for any bounds.                              *)
(***************************************************************************)
EXTENDS JobLifecycle, FiniteSetTheorems, TLAPS

USE JobConstants DEF JobConstants

LEMMA NoToken == 0 \in 0 .. MaxLaunches
  OBVIOUS

LEMMA NoCkptType == NoCkpt \in Checkpoints
  BY DEF NoCkpt, Checkpoints, Causes

LEMMA ConfiguredType ==
  ASSUME NEW c \in Checkpoints
  PROVE  /\ Configured(c) \in Checkpoints
         /\ Configured(c).status = c.status
         /\ Configured(c).node = c.node
  BY DEF Configured, Checkpoints, Causes

LEMMA AfterNoticeType ==
  ASSUME NEW c \in Checkpoints
  PROVE  /\ AfterNotice(c) \in Checkpoints
         /\ AfterNotice(c).status = c.status
  BY DEF AfterNotice, Checkpoints, Causes

LEMMA LeftPauseType ==
  ASSUME TypeOK
  PROVE  /\ LeftPause \in Checkpoints
         /\ LeftPause # NoCkpt => LeftPause.status = "paused"
<1> DEFINE base == [ckpt EXCEPT !.status = "paused", !.summary = "no"]
           author == [base EXCEPT !.node = "author", !.cause = "error"]
           later == [base EXCEPT !.node = "later", !.cause = "error"]
<1>1. base \in Checkpoints /\ base.status = "paused"
  BY DEF TypeOK, FileType, Checkpoints
<1> HIDE DEF base
<1>2. author \in Checkpoints /\ author.status = "paused"
  BY <1>1 DEF Checkpoints, Causes
<1>3. later \in Checkpoints /\ later.status = "paused"
  BY <1>1 DEF Checkpoints, Causes
<1>4. LeftPause \in {NoCkpt, base, author, later}
  BY DEF LeftPause, base
<1> QED
  BY <1>1, <1>2, <1>3, <1>4, NoCkptType

LEMMA RebuiltType ==
  ASSUME TypeOK
  PROVE  /\ Rebuilt \in Checkpoints
         /\ Rebuilt # NoCkpt => Rebuilt.status \in {"paused", "pausing"}
<1> DEFINE new == [ckpt EXCEPT !.status = "paused", !.cause = "interrupted", !.node = node]
<1>1. ckpt \in Checkpoints
  BY DEF TypeOK, JobType, FileType, RunnerType
<1>2. node \in {"author", "later"} => new \in Checkpoints /\ new.status = "paused"
  BY <1>1 DEF Checkpoints, Causes
<1> HIDE DEF new
<1>3. \/ Rebuilt = NoCkpt
      \/ Rebuilt = ckpt /\ ckpt.status \in {"paused", "pausing"}
      \/ Rebuilt = new /\ node \in {"author", "later"}
  BY DEF Rebuilt, new
<1> QED
  BY <1>1, <1>2, <1>3, NoCkptType

LEMMA EmptyPipe == <<>> \in Seq(Records)
  OBVIOUS

LEMMA PipeType ==
  ASSUME pipe \in Seq(Records)
  PROVE  /\ pipe # <<>> => Head(pipe) \in Records /\ Tail(pipe) \in Seq(Records)
         /\ \A r \in Records : Writes(r) => pipe' \in Seq(Records)
  BY DEF Writes

LEMMA IdleType ==
  /\ Idle \in Replies
  /\ [Idle EXCEPT !.status = "queued"] \in Replies
  BY DEF Idle, Replies

LEMMA WaitsAtType ==
  ASSUME TypeOK, NEW c \in Checkpoints, NEW r \in Replies, WaitsAt(c, r)
  PROVE  /\ auto' \in {"none", "wait", "due"} /\ reply' \in Replies
         /\ asked' \in Nat /\ noticed' \in BOOLEAN
         /\ intent' \in {"run", "pause", "stop", "attention"}
<1>1. reply' \in Replies
  BY IdleType DEF WaitsAt
<1>2. intent' \in {"run", "pause", "stop", "attention"}
  BY DEF WaitsAt, TypeOK, JobType
<1>3. asked' \in Nat
  <2>1. asked \in Nat
    BY DEF TypeOK, JobType, FileType, RunnerType
  <2>2. asked' \in {asked, asked + 1}
    BY Zenon DEF WaitsAt
  <2> QED
    BY <2>1, <2>2
<1>4. noticed' \in BOOLEAN
  BY Zenon DEF WaitsAt, TypeOK, LimitReached
<1> QED
  BY <1>1, <1>2, <1>3, <1>4 DEF WaitsAt

LEMMA PausesAtType ==
  ASSUME TypeOK, NEW c \in Checkpoints, NEW r \in Replies, PausesAt(c, r)
  PROVE  /\ phase' = "paused" /\ node' \in Steps
         /\ auto' \in {"none", "wait", "due"} /\ reply' \in Replies
         /\ asked' \in Nat /\ noticed' \in BOOLEAN
         /\ intent' \in {"run", "pause", "stop", "attention"}
<1>1. phase' = "paused" /\ node' \in Steps
  BY DEF PausesAt, Checkpoints, Steps
<1>2. WaitsAt(c, r)
  BY DEF PausesAt
<1> QED
  BY <1>1, <1>2, WaitsAtType

LEMMA SpawnsType ==
  ASSUME TypeOK, NEW k \in {"work", "reply"}, NEW at \in Steps, Spawns(k, at)
  PROVE  /\ launches' \in 0 .. MaxLaunches /\ live' \subseteq Launches
         /\ active' \in 0 .. MaxLaunches /\ worker' \in 0 .. MaxLaunches
         /\ reader' = "reading" /\ heard' = "" /\ finisher' = "none"
         /\ job' \in {"work", "reply"} /\ rnode' \in Steps /\ pipe' \in Seq(Records)
<1>1. launches \in 0 .. MaxLaunches /\ live \subseteq Launches
  BY DEF TypeOK, JobType, FileType, RunnerType
<1>2. /\ launches < MaxLaunches
      /\ launches' = launches + 1 /\ live' = live \cup {launches + 1}
      /\ active' = launches + 1 /\ worker' = launches + 1
  BY DEF Spawns
<1>3. /\ launches + 1 \in 1 .. MaxLaunches
      /\ launches' \in 0 .. MaxLaunches
      /\ active' \in 0 .. MaxLaunches /\ worker' \in 0 .. MaxLaunches
  BY <1>1, <1>2
<1>4. live' \subseteq Launches
  BY <1>1, <1>2, <1>3 DEF Launches
<1>5. pipe' \in Seq(Records)
  BY EmptyPipe DEF Spawns
<1>6. /\ reader' = "reading" /\ heard' = "" /\ finisher' = "none"
      /\ job' \in {"work", "reply"} /\ rnode' \in Steps
  BY DEF Spawns
<1> QED
  BY <1>1, <1>2, <1>3, <1>4, <1>5, <1>6

LEMMA RestoresType ==
  ASSUME TypeOK, NEW keeps \in BOOLEAN, Restores(keeps)
  PROVE  /\ phase' \in {"ready", "running", "pausing", "paused", "stopping", "done", "off"}
         /\ node' \in Steps /\ stopped' \in BOOLEAN
         /\ auto' \in {"none", "wait", "due"} /\ reply' \in Replies
         /\ ckpt' \in Checkpoints /\ unsaved' \in Checkpoints /\ lost' \in Nat /\ dropped' \in BOOLEAN
         /\ asked' \in Nat /\ noticed' \in BOOLEAN
         /\ intent' \in {"run", "pause", "stop", "attention"}
<1>1. stopped' \in BOOLEAN
  BY Zenon DEF Restores, StopWins
<1>2. CASE Rebuilt = NoCkpt
  <2>2. /\ phase' \in {"ready", "done"} /\ auto' = "none" /\ reply' = Idle
        /\ UNCHANGED <<node, ckpt, unsaved, lost, intent, asked, noticed>>
        /\ dropped' = FALSE
    BY <1>2, Zenon DEF Restores, history
  <2> QED
    BY <1>1, <2>2, IdleType DEF TypeOK, JobType, FileType, RunnerType
<1>3. CASE Rebuilt # NoCkpt
  <2> DEFINE c == Configured(Rebuilt)
  <2>1. c \in Checkpoints /\ AfterNotice(c) \in Checkpoints
    BY RebuiltType, ConfiguredType, AfterNoticeType
  <2>2. RestoredReply \in Replies
    BY DEF RestoredReply, TypeOK, JobType, Replies
  <2>3. /\ PausesAt(c, RestoredReply)
        /\ \/ ckpt' = AfterNotice(c) /\ unsaved' = unsaved /\ lost' = lost /\ dropped' = FALSE
           \/ /\ lost' = lost + 1 /\ ckpt' = ckpt /\ dropped' = ~keeps
              /\ unsaved' = AfterNotice(c) \/ unsaved' = unsaved
    BY <1>3 DEF Restores
  <2> HIDE DEF c
  <2>4. /\ phase' = "paused" /\ node' \in Steps
        /\ auto' \in {"none", "wait", "due"} /\ reply' \in Replies
        /\ asked' \in Nat /\ noticed' \in BOOLEAN
        /\ intent' \in {"run", "pause", "stop", "attention"}
    BY <2>1, <2>2, <2>3, PausesAtType
  <2>5. lost' \in Nat /\ unsaved' \in Checkpoints /\ ckpt' \in Checkpoints
    <3>1. lost \in Nat /\ unsaved \in Checkpoints /\ ckpt \in Checkpoints
      BY DEF TypeOK, JobType, FileType, RunnerType
    <3> QED
      BY <2>1, <2>3, <3>1
  <2>6. dropped' \in BOOLEAN
    BY <2>3, Zenon
  <2> QED
    BY <1>1, <2>4, <2>5, <2>6
<1> QED
  BY <1>2, <1>3

LEMMA MemoryLostType ==
  ASSUME TypeOK, MemoryLost
  PROVE  /\ up' \in {"up", "closing", "down"} /\ elsewhere' \in BOOLEAN
         /\ phase' \in {"ready", "running", "pausing", "paused", "stopping", "done", "off"}
         /\ stopped' \in BOOLEAN /\ auto' \in {"none", "wait", "due"}
         /\ TokenType' /\ unsaved' \in Checkpoints /\ pipe' \in Seq(Records)
<1>1. TokenType'
  <2>1. active' = 0 /\ worker' = 0 /\ reader' = "none" /\ heard' = "" /\ finisher' = "none"
    BY DEF MemoryLost
  <2> QED
    BY <2>1, NoToken DEF TokenType
<1>2. unsaved' \in Checkpoints /\ pipe' \in Seq(Records)
  BY NoCkptType, EmptyPipe DEF MemoryLost
<1> QED
  BY <1>1, <1>2 DEF MemoryLost

LEMMA Unchanged ==
  ASSUME TypeOK
  PROVE  /\ UNCHANGED server => ServerType'
         /\ UNCHANGED tokens => TokenType'
         /\ UNCHANGED <<phase, node, stopped, auto, reply, history>> => JobType'
         /\ UNCHANGED <<unsaved, files>> => FileType'
         /\ UNCHANGED runners => RunnerType'
         /\ UNCHANGED faults => breaks' \in Nat /\ lost' \in Nat /\ dropped' \in BOOLEAN
<1>1. UNCHANGED server => ServerType'
  BY DEF TypeOK, ServerType, server
<1>2. UNCHANGED tokens => TokenType'
  BY DEF TypeOK, TokenType, tokens
<1>3. UNCHANGED <<phase, node, stopped, auto, reply, history>> => JobType'
  BY DEF TypeOK, JobType, history
<1>4. UNCHANGED <<unsaved, files>> => FileType'
  BY DEF TypeOK, FileType, files
<1>5. UNCHANGED runners => RunnerType'
  BY DEF TypeOK, RunnerType, runners
<1>6. UNCHANGED faults => breaks' \in Nat /\ lost' \in Nat /\ dropped' \in BOOLEAN
  BY DEF TypeOK, faults
<1> QED
  BY <1>1, <1>2, <1>3, <1>4, <1>5, <1>6

LEMMA CkptFieldTypes ==
  ASSUME NEW c \in Checkpoints
  PROVE  /\ [c EXCEPT !.cause = "user"] \in Checkpoints
         /\ [c EXCEPT !.block = "none"] \in Checkpoints
         /\ [c EXCEPT !.status = "paused"] \in Checkpoints
         /\ [c EXCEPT !.status = "running", !.cause = "", !.block = "none"] \in Checkpoints
         /\ \A cause \in {"user", "restart"} :
              [NoCkpt EXCEPT !.status = "pausing", !.cause = cause] \in Checkpoints
  BY DEF Checkpoints, Causes, NoCkpt

LEMMA PausedRecordType ==
  ASSUME TypeOK, NEW r \in Records, r.kind = "paused"
  PROVE  /\ r.node \in {"author", "later"}
         /\ PauseCause(r) \in Causes
         /\ Block(r.why) \in {"none", "safety", "settings"}
<1>1. r.node \in {"author", "later"}
  BY DEF Records
<1>2. PauseCause(r) \in Causes
  BY DEF PauseCause, Causes
<1>3. Block(r.why) \in {"none", "safety", "settings"}
  BY DEF Block
<1> QED
  BY <1>1, <1>2, <1>3

LEMMA TypePause ==
  ASSUME TypeOK, Pause
  PROVE  TypeOK'
<1>1. TokenType'
  BY DEF TypeOK, TokenType, Pause, PausesAuthor, server, tokens, files, runners, faults, history
<1>2. JobType'
  BY DEF TypeOK, JobType, Pause, PausesAuthor, server, tokens, files, runners, faults, history
<1>3. FileType'
  BY NoCkptType, CkptFieldTypes DEF TypeOK, FileType, Pause, PausesAuthor, server, tokens, files,
     runners, faults, history
<1>4. ServerType' /\ RunnerType' /\ breaks' \in Nat /\ lost' \in Nat /\ dropped' \in BOOLEAN
  BY Unchanged DEF Pause, PausesAuthor, server, tokens, files, runners, faults, history
<1> QED
  BY <1>1, <1>2, <1>3, <1>4 DEF TypeOK

LEMMA TypeKeepPaused ==
  ASSUME TypeOK, KeepPaused
  PROVE  TypeOK'
<1>1. JobType'
  BY DEF TypeOK, JobType, KeepPaused, server, tokens, files, runners, faults, history
<1>2. FileType'
  BY CkptFieldTypes DEF TypeOK, FileType, KeepPaused, server, tokens, files, runners, faults,
     history
<1>3. ServerType' /\ TokenType' /\ RunnerType' /\ breaks' \in Nat /\ lost' \in Nat /\ dropped' \in BOOLEAN
  BY Unchanged DEF KeepPaused, server, tokens, files, runners, faults, history
<1> QED
  BY <1>1, <1>2, <1>3 DEF TypeOK

LEMMA TypeStop ==
  ASSUME TypeOK, Stop
  PROVE  TypeOK'
<1>1. TokenType'
  BY DEF TypeOK, TokenType, Stop, server, tokens, files, runners, faults, history
<1>2. JobType'
  BY DEF TypeOK, JobType, Stop, server, tokens, files, runners, faults, history
<1>3. FileType'
  BY NoCkptType DEF TypeOK, FileType, Stop, server, tokens, files, runners, faults, history
<1>4. ServerType' /\ RunnerType' /\ breaks' \in Nat /\ lost' \in Nat /\ dropped' \in BOOLEAN
  BY Unchanged DEF Stop, server, tokens, files, runners, faults, history
<1> QED
  BY <1>1, <1>2, <1>3, <1>4 DEF TypeOK

LEMMA TypeStopSettles ==
  ASSUME TypeOK, StopSettles
  PROVE  TypeOK'
<1>1. TokenType'
  BY NoToken DEF TypeOK, TokenType, StopSettles, server, tokens, files, runners, faults, history
<1>2. JobType'
  BY DEF TypeOK, JobType, StopSettles, server, tokens, files, runners, faults, history
<1>3. ServerType' /\ FileType' /\ RunnerType' /\ breaks' \in Nat /\ lost' \in Nat /\ dropped' \in BOOLEAN
  BY Unchanged DEF StopSettles, server, tokens, files, runners, faults, history
<1> QED
  BY <1>1, <1>2, <1>3 DEF TypeOK

LEMMA TypeChangeLimit ==
  ASSUME TypeOK, ChangeLimit
  PROVE  TypeOK'
<1>1. FileType'
  BY DEF TypeOK, FileType, ChangeLimit, server, tokens, files, runners, faults, history
<1>2. ServerType' /\ TokenType' /\ JobType' /\ RunnerType' /\ breaks' \in Nat /\ lost' \in Nat /\ dropped' \in BOOLEAN
  BY Unchanged DEF ChangeLimit, server, tokens, files, runners, faults, history
<1> QED
  BY <1>1, <1>2 DEF TypeOK

LEMMA TypeAskAuthor ==
  ASSUME TypeOK, AskAuthor
  PROVE  TypeOK'
<1>1. JobType'
  BY IdleType DEF TypeOK, JobType, AskAuthor, server, tokens, files, runners, faults, history
<1>2. ServerType' /\ TokenType' /\ FileType' /\ RunnerType' /\ breaks' \in Nat /\ lost' \in Nat /\ dropped' \in BOOLEAN
  BY Unchanged DEF AskAuthor, server, tokens, files, runners, faults, history
<1> QED
  BY <1>1, <1>2 DEF TypeOK

LEMMA TypeStopReply ==
  ASSUME TypeOK, StopReply
  PROVE  TypeOK'
<1>1. TokenType'
  BY NoToken DEF TypeOK, TokenType, StopReply, server, tokens, files, runners, faults, history
<1>2. JobType'
  BY IdleType DEF TypeOK, JobType, StopReply, server, tokens, files, runners, faults, history
<1>3. ServerType' /\ FileType' /\ RunnerType' /\ breaks' \in Nat /\ lost' \in Nat /\ dropped' \in BOOLEAN
  BY Unchanged DEF StopReply, server, tokens, files, runners, faults, history
<1> QED
  BY <1>1, <1>2, <1>3 DEF TypeOK

LEMMA TypeRetryTimePasses ==
  ASSUME TypeOK, RetryTimePasses
  PROVE  TypeOK'
<1>1. JobType'
  BY DEF TypeOK, JobType, RetryTimePasses, server, tokens, files, runners, faults, history
<1>2. ServerType' /\ TokenType' /\ FileType' /\ RunnerType' /\ breaks' \in Nat /\ lost' \in Nat /\ dropped' \in BOOLEAN
  BY Unchanged DEF RetryTimePasses, server, tokens, files, runners, faults, history
<1> QED
  BY <1>1, <1>2 DEF TypeOK

LEMMA TypeAutoStopReply ==
  ASSUME TypeOK, AutoStopReply
  PROVE  TypeOK'
<1>1. JobType'
  BY IdleType DEF TypeOK, JobType, AutoStopReply, server, tokens, files, runners, faults, history
<1>2. ServerType' /\ TokenType' /\ FileType' /\ RunnerType' /\ breaks' \in Nat /\ lost' \in Nat /\ dropped' \in BOOLEAN
  BY Unchanged DEF AutoStopReply, server, tokens, files, runners, faults, history
<1> QED
  BY <1>1, <1>2 DEF TypeOK

LEMMA TypeAutoResumeFails ==
  ASSUME TypeOK, AutoResumeFails
  PROVE  TypeOK'
<1>1. JobType'
  BY DEF TypeOK, JobType, AutoResumeFails, Saved, server, tokens, files, runners, faults, history
<1>2. FileType'
  BY NoCkptType DEF TypeOK, FileType, AutoResumeFails, Saved, server, tokens, files, runners,
     faults, history
<1>3. ServerType' /\ TokenType' /\ RunnerType' /\ breaks' \in Nat /\ lost' \in Nat /\ dropped' \in BOOLEAN
  BY Unchanged DEF AutoResumeFails, Saved, server, tokens, files, runners, faults, history
<1> QED
  BY <1>1, <1>2, <1>3 DEF TypeOK

LEMMA TypeSettingsChange ==
  ASSUME TypeOK, SettingsChange
  PROVE  TypeOK'
<1>1. JobType'
  BY DEF TypeOK, JobType, SettingsChange, server, tokens, files, runners, faults, history
<1>2. FileType'
  BY CkptFieldTypes DEF TypeOK, FileType, SettingsChange, server, tokens, files, runners, faults,
     history
<1>3. ServerType' /\ TokenType' /\ RunnerType' /\ breaks' \in Nat /\ lost' \in Nat /\ dropped' \in BOOLEAN
  BY Unchanged DEF SettingsChange, server, tokens, files, runners, faults, history
<1> QED
  BY <1>1, <1>2, <1>3 DEF TypeOK

LEMMA TypeRunnerSteps ==
  ASSUME TypeOK, RunnerSteps
  PROVE  TypeOK'
<1>1. RunnerType'
  BY PipeType DEF TypeOK, RunnerType, RunnerSteps, RunnerOnly, Records, Steps, server, tokens,
     files, runners, faults, history
<1>2. ServerType' /\ TokenType' /\ JobType' /\ FileType' /\ breaks' \in Nat /\ lost' \in Nat /\ dropped' \in BOOLEAN
  BY Unchanged DEF RunnerSteps, RunnerOnly, server, tokens, files, runners, faults, history
<1> QED
  BY <1>1, <1>2 DEF TypeOK

LEMMA TypeRunnerPauses ==
  ASSUME TypeOK, RunnerPauses
  PROVE  TypeOK'
<1>1. RunnerType'
  BY PipeType DEF TypeOK, RunnerType, RunnerPauses, RunnerOnly, Exits, Records, Reasons, server,
     tokens, files, runners, faults, history
<1>2. ServerType' /\ TokenType' /\ JobType' /\ FileType' /\ breaks' \in Nat /\ lost' \in Nat /\ dropped' \in BOOLEAN
  BY Unchanged DEF RunnerPauses, RunnerOnly, server, tokens, files, runners, faults, history
<1> QED
  BY <1>1, <1>2 DEF TypeOK

LEMMA TypeRunnerFinishes ==
  ASSUME TypeOK, RunnerFinishes
  PROVE  TypeOK'
<1>1. RunnerType'
  BY PipeType DEF TypeOK, RunnerType, RunnerFinishes, RunnerOnly, Exits, Records, server, tokens,
     files, runners, faults, history
<1>2. ServerType' /\ TokenType' /\ JobType' /\ FileType' /\ breaks' \in Nat /\ lost' \in Nat /\ dropped' \in BOOLEAN
  BY Unchanged DEF RunnerFinishes, RunnerOnly, server, tokens, files, runners, faults, history
<1> QED
  BY <1>1, <1>2 DEF TypeOK

LEMMA TypeReplyRetries ==
  ASSUME TypeOK, ReplyRetries
  PROVE  TypeOK'
<1>1. RunnerType'
  BY PipeType DEF TypeOK, RunnerType, ReplyRetries, RunnerOnly, Records, server, tokens, files,
     runners, faults, history
<1>2. ServerType' /\ TokenType' /\ JobType' /\ FileType' /\ breaks' \in Nat /\ lost' \in Nat /\ dropped' \in BOOLEAN
  BY Unchanged DEF ReplyRetries, RunnerOnly, server, tokens, files, runners, faults, history
<1> QED
  BY <1>1, <1>2 DEF TypeOK

LEMMA TypeReplyEnds ==
  ASSUME TypeOK, ReplyEnds
  PROVE  TypeOK'
<1>1. RunnerType'
  BY PipeType DEF TypeOK, RunnerType, ReplyEnds, RunnerOnly, Exits, Records, server, tokens,
     files, runners, faults, history
<1>2. ServerType' /\ TokenType' /\ JobType' /\ FileType' /\ breaks' \in Nat /\ lost' \in Nat /\ dropped' \in BOOLEAN
  BY Unchanged DEF ReplyEnds, RunnerOnly, server, tokens, files, runners, faults, history
<1> QED
  BY <1>1, <1>2 DEF TypeOK

LEMMA TypeRunnerDies ==
  ASSUME TypeOK, RunnerDies
  PROVE  TypeOK'
<1>1. RunnerType'
  BY DEF TypeOK, RunnerType, RunnerDies, RunnerOnly, Exits, server, tokens, files, runners,
     faults, history
<1>2. ServerType' /\ TokenType' /\ JobType' /\ FileType' /\ breaks' \in Nat /\ lost' \in Nat /\ dropped' \in BOOLEAN
  BY Unchanged DEF RunnerDies, RunnerOnly, server, tokens, files, runners, faults, history
<1> QED
  BY <1>1, <1>2 DEF TypeOK

LEMMA TypeReadStep ==
  ASSUME TypeOK, ReadStep
  PROVE  TypeOK'
<1>1. JobType'
  BY DEF TypeOK, JobType, ReadStep, Pop, NextIs, Steps, server, tokens, files, runners, faults,
     history
<1>2. RunnerType'
  BY PipeType DEF TypeOK, RunnerType, ReadStep, Pop, NextIs, server, tokens, files, runners,
     faults, history
<1>3. ServerType' /\ TokenType' /\ FileType' /\ breaks' \in Nat /\ lost' \in Nat /\ dropped' \in BOOLEAN
  BY Unchanged DEF ReadStep, Pop, NextIs, server, tokens, files, runners, faults, history
<1> QED
  BY <1>1, <1>2, <1>3 DEF TypeOK

LEMMA TypeReadResult ==
  ASSUME TypeOK, ReadResult
  PROVE  TypeOK'
<1>1. JobType'
  BY DEF TypeOK, JobType, ReadResult, Pop, NextIs, server, tokens, files, runners, faults, history
<1>2. FileType'
  BY DEF TypeOK, FileType, ReadResult, Pop, NextIs, server, tokens, files, runners, faults, history
<1>3. RunnerType'
  BY PipeType DEF TypeOK, RunnerType, ReadResult, Pop, NextIs, server, tokens, files, runners,
     faults, history
<1>4. ServerType' /\ TokenType' /\ breaks' \in Nat /\ lost' \in Nat /\ dropped' \in BOOLEAN
  BY Unchanged DEF ReadResult, Pop, NextIs, server, tokens, files, runners, faults, history
<1> QED
  BY <1>1, <1>2, <1>3, <1>4 DEF TypeOK

LEMMA TypeSettleDone ==
  ASSUME TypeOK, SettleDone
  PROVE  TypeOK'
<1>1. TokenType'
  BY NoToken DEF TypeOK, TokenType, SettleDone, TokensDropped, server, tokens, files, runners,
     faults, history
<1>2. JobType'
  BY DEF TypeOK, JobType, SettleDone, TokensDropped, server, tokens, files, runners, faults, history
<1>3. FileType'
  BY DEF TypeOK, FileType, SettleDone, TokensDropped, server, tokens, files, runners, faults,
     history
<1>4. ServerType' /\ RunnerType' /\ breaks' \in Nat /\ lost' \in Nat /\ dropped' \in BOOLEAN
  BY Unchanged DEF SettleDone, TokensDropped, server, tokens, files, runners, faults, history
<1> QED
  BY <1>1, <1>2, <1>3, <1>4 DEF TypeOK

LEMMA TypeReadReply ==
  ASSUME TypeOK, ReadReply
  PROVE  TypeOK'
<1>1. JobType'
  BY DEF TypeOK, JobType, ReadReply, Pop, Replies, server, tokens, files, runners, faults, history
<1>2. TokenType'
  BY DEF TypeOK, TokenType, ReadReply, Pop, server, tokens, files, runners, faults, history
<1>3. RunnerType'
  BY PipeType DEF TypeOK, RunnerType, ReadReply, Pop, server, tokens, files, runners, faults,
     history
<1>4. ServerType' /\ FileType' /\ breaks' \in Nat /\ lost' \in Nat /\ dropped' \in BOOLEAN
  BY Unchanged DEF ReadReply, Pop, server, tokens, files, runners, faults, history
<1> QED
  BY <1>1, <1>2, <1>3, <1>4 DEF TypeOK

LEMMA TypeSettleReply ==
  ASSUME TypeOK, SettleReply
  PROVE  TypeOK'
<1>1. TokenType'
  BY NoToken DEF TypeOK, TokenType, SettleReply, TokensDropped, server, tokens, files, runners,
     faults, history
<1>2. JobType'
  BY IdleType DEF TypeOK, JobType, SettleReply, TokensDropped, Replies, server, tokens, files,
     runners, faults, history
<1>3. ServerType' /\ FileType' /\ RunnerType' /\ breaks' \in Nat /\ lost' \in Nat /\ dropped' \in BOOLEAN
  BY Unchanged DEF SettleReply, TokensDropped, server, tokens, files, runners, faults, history
<1> QED
  BY <1>1, <1>2, <1>3 DEF TypeOK

LEMMA TypeReaderBreaks ==
  ASSUME TypeOK, ReaderBreaks
  PROVE  TypeOK'
<1>1. TokenType'
  BY DEF TypeOK, TokenType, ReaderBreaks, server, tokens, files, runners, faults, history
<1>2. RunnerType'
  BY PipeType DEF TypeOK, RunnerType, ReaderBreaks, server, tokens, files, runners, faults, history
<1>3. breaks' \in Nat /\ lost' \in Nat /\ dropped' \in BOOLEAN
  BY DEF TypeOK, ReaderBreaks, server, tokens, files, runners, faults, history
<1>4. ServerType' /\ JobType' /\ FileType'
  BY Unchanged DEF ReaderBreaks, server, tokens, files, runners, faults, history
<1> QED
  BY <1>1, <1>2, <1>3, <1>4 DEF TypeOK

LEMMA TypeReaderVanishes ==
  ASSUME TypeOK, ReaderVanishes
  PROVE  TypeOK'
<1>1. TokenType'
  BY DEF TypeOK, TokenType, ReaderVanishes, server, tokens, files, runners, faults, history
<1>2. breaks' \in Nat /\ lost' \in Nat /\ dropped' \in BOOLEAN
  BY DEF TypeOK, ReaderVanishes, server, tokens, files, runners, faults, history
<1>3. ServerType' /\ JobType' /\ FileType' /\ RunnerType'
  BY Unchanged DEF ReaderVanishes, server, tokens, files, runners, faults, history
<1> QED
  BY <1>1, <1>2, <1>3 DEF TypeOK

LEMMA TypeCrash ==
  ASSUME TypeOK, Crash
  PROVE  TypeOK'
<1>1. ServerType'
  BY MemoryLostType DEF TypeOK, ServerType, Crash, server, tokens, files, runners, faults, history
<1>2. TokenType'
  BY MemoryLostType DEF TypeOK, TokenType, Crash, server, tokens, files, runners, faults, history
<1>3. JobType'
  BY MemoryLostType DEF TypeOK, JobType, Crash, server, tokens, files, runners, faults, history
<1>4. FileType'
  BY MemoryLostType DEF TypeOK, FileType, Crash, server, tokens, files, runners, faults, history
<1>5. RunnerType'
  BY MemoryLostType DEF TypeOK, RunnerType, Crash, server, tokens, files, runners, faults, history
<1>6. breaks' \in Nat /\ lost' \in Nat /\ dropped' \in BOOLEAN
  BY Unchanged DEF Crash, MemoryLost, server, tokens, files, runners, faults, history
<1> QED
  BY <1>1, <1>2, <1>3, <1>4, <1>5, <1>6 DEF TypeOK

LEMMA TypeClose ==
  ASSUME TypeOK, Close
  PROVE  TypeOK'
<1>1. ServerType'
  BY DEF TypeOK, ServerType, Close, PausesAuthor, server, tokens, files, runners, faults, history
<1>2. JobType'
  BY DEF TypeOK, JobType, Close, PausesAuthor, server, tokens, files, runners, faults, history
<1>3. FileType'
  BY NoCkptType, CkptFieldTypes DEF TypeOK, FileType, Close, PausesAuthor, server, tokens, files,
     runners, faults, history
<1>4. TokenType'
  BY DEF TypeOK, TokenType, Close, PausesAuthor, server, tokens, files, runners, faults, history
<1>5. RunnerType' /\ breaks' \in Nat /\ lost' \in Nat /\ dropped' \in BOOLEAN
  BY Unchanged DEF Close, PausesAuthor, server, tokens, files, runners, faults, history
<1> QED
  BY <1>1, <1>2, <1>3, <1>4, <1>5 DEF TypeOK

LEMMA TypeExit ==
  ASSUME TypeOK, Exit
  PROVE  TypeOK'
<1>1. ServerType'
  BY MemoryLostType DEF TypeOK, ServerType, Exit, server, tokens, files, runners, faults, history
<1>2. TokenType'
  BY MemoryLostType DEF TypeOK, TokenType, Exit, server, tokens, files, runners, faults, history
<1>3. JobType'
  BY MemoryLostType DEF TypeOK, JobType, Exit, server, tokens, files, runners, faults, history
<1>4. FileType'
  BY MemoryLostType DEF TypeOK, FileType, Exit, server, tokens, files, runners, faults, history
<1>5. RunnerType'
  BY MemoryLostType DEF TypeOK, RunnerType, Exit, server, tokens, files, runners, faults, history
<1>6. breaks' \in Nat /\ lost' \in Nat /\ dropped' \in BOOLEAN
  BY Unchanged DEF Exit, MemoryLost, server, tokens, files, runners, faults, history
<1> QED
  BY <1>1, <1>2, <1>3, <1>4, <1>5, <1>6 DEF TypeOK

LEMMA TypeReadPaused ==
  ASSUME TypeOK, ReadPaused
  PROVE  TypeOK'
<1> DEFINE r == Head(pipe)
           c == [status |-> "pausing", cause |-> PauseCause(r), node |-> r.node,
                 summary |-> "no", block |-> Block(r.why)]
<1>1. r \in Records /\ r.kind = "paused" /\ Tail(pipe) \in Seq(Records)
  BY PipeType DEF TypeOK, RunnerType, ReadPaused, NextIs
<1>2. r.node \in Steps /\ c \in Checkpoints
  BY <1>1, PausedRecordType DEF Steps, Checkpoints
<1>3. /\ node' = r.node /\ ckpt' \in {c, ckpt} /\ phase' \in {"pausing", phase}
      /\ intent' \in {"attention", intent} /\ pipe' = Tail(pipe)
      /\ UNCHANGED <<live, job, rnode, launches>>
  BY DEF ReadPaused, Pop
<1> HIDE DEF r, c
<1>4. JobType'
  BY <1>2, <1>3 DEF TypeOK, JobType, ReadPaused
<1>5. FileType'
  BY <1>2, <1>3 DEF TypeOK, FileType, ReadPaused
<1>6. RunnerType'
  BY <1>1, <1>3 DEF TypeOK, RunnerType
<1>7. ServerType' /\ TokenType' /\ breaks' \in Nat /\ lost' \in Nat /\ dropped' \in BOOLEAN
  BY Unchanged DEF ReadPaused, server, tokens, faults
<1> QED
  BY <1>4, <1>5, <1>6, <1>7 DEF TypeOK

LEMMA TypeDrain ==
  ASSUME TypeOK, Drain
  PROVE  TypeOK'
<1> DEFINE r == Head(pipe)
<1>1. r \in Records /\ Tail(pipe) \in Seq(Records)
  BY PipeType DEF TypeOK, RunnerType, Drain
<1>2. r.kind = "paused" => r.node \in Steps
  BY <1>1, PausedRecordType DEF Steps
<1>3. /\ node' = CASE r.kind = "submitted" -> "submitted"
                   [] r.kind = "step" -> "later"
                   [] r.kind = "rejected" -> "author"
                   [] r.kind = "paused" -> r.node
                   [] OTHER -> node
      /\ result' \in {"final", "failed", result} /\ pipe' = Tail(pipe)
      /\ UNCHANGED <<live, job, rnode, launches>>
  BY DEF Drain, Pop
<1> HIDE DEF r
<1>4. node' \in Steps
  BY <1>2, <1>3 DEF TypeOK, JobType, Steps
<1>5. JobType'
  BY <1>4 DEF TypeOK, JobType, Drain, history
<1>6. FileType'
  BY <1>3 DEF TypeOK, FileType, Drain
<1>7. RunnerType'
  BY <1>1, <1>3 DEF TypeOK, RunnerType
<1>8. ServerType' /\ TokenType' /\ breaks' \in Nat /\ lost' \in Nat /\ dropped' \in BOOLEAN
  BY Unchanged DEF Drain, server, tokens, faults
<1> QED
  BY <1>5, <1>6, <1>7, <1>8 DEF TypeOK

LEMMA LaunchesWorkType ==
  ASSUME TypeOK, NEW at \in Steps, LaunchesWork(at)
  PROVE  /\ TokenType' /\ RunnerType'
         /\ phase' = "running" /\ node' \in Steps /\ auto' = "none"
         /\ result' = "none" /\ asked' = 0 /\ noticed' = FALSE
<1>1. Spawns("work", at)
  BY DEF LaunchesWork
<1>2. TokenType' /\ RunnerType'
  BY <1>1, SpawnsType DEF TokenType, RunnerType
<1> QED
  BY <1>2 DEF LaunchesWork

LEMMA ResumesType ==
  ASSUME TypeOK, NEW c \in Checkpoints, Resumes(c),
         intent' \in {"run", "pause", "stop", "attention"}
  PROVE  TypeOK'
<1>1. c.node \in Steps
  BY DEF Checkpoints, Steps
<1>2. /\ LaunchesWork(c.node) /\ unsaved' = NoCkpt /\ request' = FALSE
      /\ ckpt' = [c EXCEPT !.status = "running", !.cause = "", !.block = "none"]
      /\ dropped' = FALSE /\ UNCHANGED <<server, stopped, stopFile, over, reply, breaks, lost>>
  BY DEF Resumes, LaunchesWork
<1>3. /\ TokenType' /\ RunnerType'
      /\ phase' = "running" /\ node' \in Steps /\ auto' = "none"
      /\ result' = "none" /\ asked' = 0 /\ noticed' = FALSE
  BY <1>1, <1>2, LaunchesWorkType
<1>4. JobType'
  BY <1>2, <1>3 DEF TypeOK, JobType
<1>5. FileType'
  BY <1>2, <1>3, NoCkptType, CkptFieldTypes DEF TypeOK, FileType
<1>6. ServerType' /\ breaks' \in Nat /\ lost' \in Nat /\ dropped' \in BOOLEAN
  BY <1>2, Unchanged DEF TypeOK
<1> QED
  BY <1>3, <1>4, <1>5, <1>6 DEF TypeOK

LEMMA SavedType ==
  ASSUME TypeOK
  PROVE  Saved \in Checkpoints
  BY DEF Saved, TypeOK, FileType

LEMMA TypeResume ==
  ASSUME TypeOK, Resume
  PROVE  TypeOK'
  BY SavedType, ResumesType DEF Resume

LEMMA TypeAutoResume ==
  ASSUME TypeOK, AutoResume
  PROVE  TypeOK'
  BY SavedType, ConfiguredType, ResumesType DEF AutoResume, TypeOK, JobType

LEMMA TypeStart ==
  ASSUME TypeOK, Start
  PROVE  TypeOK'
<1>1. /\ TokenType' /\ RunnerType'
      /\ phase' = "running" /\ node' \in Steps /\ auto' = "none"
      /\ result' = "none" /\ asked' = 0 /\ noticed' = FALSE
  BY LaunchesWorkType DEF Start, Steps
<1>2. JobType'
  BY <1>1 DEF TypeOK, JobType, Start
<1>3. FileType'
  BY <1>1 DEF TypeOK, FileType, Start
<1>4. ServerType' /\ breaks' \in Nat /\ lost' \in Nat /\ dropped' \in BOOLEAN
  BY Unchanged DEF Start, LaunchesWork, TypeOK
<1> QED
  BY <1>1, <1>2, <1>3, <1>4 DEF TypeOK

LEMMA TypeContinue ==
  ASSUME TypeOK, Continue
  PROVE  TypeOK'
<1>1. /\ TokenType' /\ RunnerType'
      /\ phase' = "running" /\ node' \in Steps /\ auto' = "none"
      /\ result' = "none" /\ asked' = 0 /\ noticed' = FALSE
  BY LaunchesWorkType DEF Continue, Steps
<1>2. JobType'
  BY <1>1 DEF TypeOK, JobType, Continue
<1>3. FileType'
  BY <1>1, NoCkptType DEF TypeOK, FileType, Continue
<1>4. ServerType' /\ breaks' \in Nat /\ lost' \in Nat /\ dropped' \in BOOLEAN
  BY Unchanged DEF Continue, LaunchesWork, TypeOK
<1> QED
  BY <1>1, <1>2, <1>3, <1>4 DEF TypeOK

LEMMA TypeStartReply ==
  ASSUME TypeOK, StartReply
  PROVE  TypeOK'
<1>1. ServerType' /\ FileType' /\ breaks' \in Nat /\ lost' \in Nat /\ dropped' \in BOOLEAN
  BY Unchanged DEF StartReply
<1>2. CASE Spawns("reply", "author") /\ reply' = [status |-> "running", failed |-> FALSE]
  <2>1. TokenType' /\ RunnerType'
    BY <1>2, SpawnsType DEF TokenType, RunnerType, Steps
  <2>2. JobType'
    BY <1>2 DEF TypeOK, JobType, StartReply, Replies, history
  <2> QED
    BY <1>1, <2>1, <2>2 DEF TypeOK
<1>3. CASE reply' = Idle /\ UNCHANGED <<tokens, runners>>
  <2>1. JobType'
    BY <1>3, IdleType DEF TypeOK, JobType, StartReply, history
  <2> QED
    BY <1>1, <1>3, <2>1, Unchanged DEF TypeOK
<1> QED
  BY <1>2, <1>3 DEF StartReply

LEMMA TypeAutoReconfigure ==
  ASSUME TypeOK, AutoReconfigure
  PROVE  TypeOK'
<1> DEFINE c == Configured(Saved)
<1>1. c \in Checkpoints /\ AfterNotice(c) \in Checkpoints
  BY SavedType, ConfiguredType, AfterNoticeType
<1>2. /\ WaitsAt(c, reply) /\ ckpt' = AfterNotice(c) /\ unsaved' = NoCkpt
      /\ UNCHANGED <<server, phase, node, tokens, stopped, stopFile, request, result, over,
                     runners, faults>>
  BY DEF AutoReconfigure
<1> HIDE DEF c
<1>3. JobType'
  BY <1>1, <1>2, WaitsAtType DEF TypeOK, JobType
<1>4. FileType'
  BY <1>1, <1>2, NoCkptType DEF TypeOK, FileType
<1> QED
  BY <1>2, <1>3, <1>4, Unchanged DEF TypeOK

LEMMA TypePauseSettles ==
  ASSUME TypeOK, PauseSettles
  PROVE  TypeOK'
<1>1. ServerType' /\ RunnerType' /\ breaks' \in Nat /\ lost' \in Nat /\ dropped' \in BOOLEAN
  BY Unchanged DEF PauseSettles
<1>2. CASE phase = "pausing" /\ reader = "gone"
  <2> DEFINE c == Configured([ckpt EXCEPT !.status = "paused"])
  <2>1. c \in Checkpoints /\ AfterNotice(c) \in Checkpoints
    BY CkptFieldTypes, ConfiguredType, AfterNoticeType DEF TypeOK, FileType
  <2>2. /\ PausesAt(c, reply) /\ ckpt' = AfterNotice(c)
        /\ active' = 0 /\ worker' = 0 /\ reader' = "none" /\ finisher' = "none"
        /\ UNCHANGED <<heard, stopped, unsaved, stopFile, request, result, over>>
    BY <1>2 DEF PauseSettles
  <2> HIDE DEF c
  <2>3. JobType'
    BY <2>1, <2>2, PausesAtType DEF TypeOK, JobType
  <2>4. TokenType'
    BY <2>2, NoToken DEF TypeOK, TokenType
  <2>5. FileType'
    BY <2>1, <2>2 DEF TypeOK, FileType
  <2> QED
    BY <1>1, <2>3, <2>4, <2>5 DEF TypeOK
<1>3. CASE ~(phase = "pausing" /\ reader = "gone")
  <2>1. TokenType'
    BY <1>3 DEF TypeOK, TokenType, PauseSettles
  <2>2. JobType' /\ FileType'
    BY <1>3, Unchanged DEF PauseSettles, files
  <2> QED
    BY <1>1, <2>1, <2>2 DEF TypeOK
<1> QED
  BY <1>2, <1>3

LEMMA TypeSettlePaused ==
  ASSUME TypeOK, SettlePaused
  PROVE  TypeOK'
<1> DEFINE c == Configured(LeftPause)
<1>1. c \in Checkpoints /\ AfterNotice(c) \in Checkpoints
  BY LeftPauseType, ConfiguredType, AfterNoticeType
<1>2. /\ PausesAt(c, reply) /\ ckpt' = AfterNotice(c) /\ TokensDropped
      /\ UNCHANGED <<server, stopped, unsaved, stopFile, request, result, over,
                     runners, faults>>
  BY DEF SettlePaused
<1> HIDE DEF c
<1>3. JobType'
  BY <1>1, <1>2, PausesAtType DEF TypeOK, JobType
<1>4. TokenType'
  BY <1>2, NoToken DEF TypeOK, TokenType, TokensDropped
<1>5. FileType'
  BY <1>1, <1>2 DEF TypeOK, FileType
<1> QED
  BY <1>2, <1>3, <1>4, <1>5, Unchanged DEF TypeOK

LEMMA TypeCrashWhileSettling ==
  ASSUME TypeOK, CrashWhileSettling
  PROVE  TypeOK'
<1> DEFINE c == Configured(LeftPause)
<1>1. c \in Checkpoints
  BY LeftPauseType, ConfiguredType
<1>2. /\ ckpt' = c /\ crashes' = crashes + 1 /\ MemoryLost
      /\ \/ UNCHANGED <<reply, asked, noticed>>
         \/ /\ reply' = [Idle EXCEPT !.status = "queued"]
            /\ asked' = asked + 1 /\ noticed' = TRUE
      /\ intent' \in {"attention", intent}
      /\ UNCHANGED <<node, stopFile, request, result, over, live, job, rnode,
                     launches, faults>>
  BY DEF CrashWhileSettling
<1> HIDE DEF c
<1>3. /\ up' \in {"up", "closing", "down"} /\ elsewhere' \in BOOLEAN
      /\ phase' \in {"ready", "running", "pausing", "paused", "stopping", "done", "off"}
      /\ stopped' \in BOOLEAN /\ auto' \in {"none", "wait", "due"}
      /\ TokenType' /\ unsaved' \in Checkpoints /\ pipe' \in Seq(Records)
  BY <1>2, MemoryLostType
<1>4. ServerType'
  BY <1>2, <1>3 DEF TypeOK, ServerType
<1>5. JobType'
  <2>1. reply \in Replies /\ asked \in Nat /\ noticed \in BOOLEAN
    BY DEF TypeOK, JobType
  <2>2. reply' \in Replies /\ asked' \in Nat /\ noticed' \in BOOLEAN
    <3>1. CASE UNCHANGED <<reply, asked, noticed>>
      BY <2>1, <3>1
    <3>2. CASE /\ reply' = [Idle EXCEPT !.status = "queued"]
               /\ asked' = asked + 1 /\ noticed' = TRUE
      BY <2>1, <3>2, IdleType
    <3> QED
      BY <1>2, <3>1, <3>2
  <2> QED
    BY <1>2, <1>3, <2>2 DEF TypeOK, JobType
<1>6. FileType'
  BY <1>1, <1>2, <1>3 DEF TypeOK, FileType
<1>7. RunnerType'
  BY <1>2, <1>3 DEF TypeOK, RunnerType
<1> QED
  BY <1>2, <1>3, <1>4, <1>5, <1>6, <1>7, Unchanged DEF TypeOK

LEMMA TypeSettleDrained ==
  ASSUME TypeOK, SettleDrained
  PROVE  TypeOK'
<1>1. /\ Restores(FALSE) /\ TokensDropped /\ breaks' = breaks
      /\ UNCHANGED <<server, stopFile, request, result, over, runners>>
  BY DEF SettleDrained
<1>2. TokenType'
  BY <1>1, NoToken DEF TypeOK, TokenType, TokensDropped
<1>3. JobType' /\ lost' \in Nat /\ dropped' \in BOOLEAN
  BY <1>1, RestoresType DEF JobType
<1>4. FileType'
  BY <1>1, RestoresType DEF TypeOK, FileType
<1>5. breaks' \in Nat
  BY <1>1 DEF TypeOK
<1> QED
  BY <1>1, <1>2, <1>3, <1>4, <1>5, Unchanged DEF TypeOK

LEMMA TypeRestart ==
  ASSUME TypeOK, Restart
  PROVE  TypeOK'
<1>1. /\ up' = "up" /\ UNCHANGED <<tokens, stopFile, request, result, over, runners,
                                    crashes, breaks>>
  BY DEF Restart
<1>2. TokenType' /\ RunnerType'
  BY <1>1, Unchanged
<1>3. CASE live # {}
  <2>1. ServerType' /\ breaks' \in Nat /\ lost' \in Nat /\ dropped' \in BOOLEAN
    BY <1>1, <1>3 DEF TypeOK, ServerType, Restart
  <2>2. JobType'
    BY <1>3 DEF TypeOK, JobType, Restart, history
  <2>3. FileType'
    BY <1>1, <1>3 DEF TypeOK, FileType, Restart
  <2> QED
    BY <1>2, <2>1, <2>2, <2>3 DEF TypeOK
<1>4. CASE live = {}
  <2>1. Restores(TRUE) /\ elsewhere' = elsewhere
    BY <1>4 DEF Restart
  <2>2. JobType' /\ lost' \in Nat /\ dropped' \in BOOLEAN
    BY <2>1, RestoresType DEF JobType
  <2>3. FileType'
    BY <1>1, <2>1, RestoresType DEF TypeOK, FileType
  <2>4. ServerType' /\ breaks' \in Nat
    BY <1>1, <2>1 DEF TypeOK, ServerType
  <2> QED
    BY <1>2, <2>2, <2>3, <2>4 DEF TypeOK
<1> QED
  BY <1>3, <1>4

LEMMA TypeAdopt ==
  ASSUME TypeOK, Adopt
  PROVE  TypeOK'
<1>1. /\ Restores(TRUE) /\ elsewhere' = FALSE /\ UNCHANGED <<up, crashes, breaks>>
      /\ UNCHANGED <<tokens, stopFile, request, result, over, runners>>
  BY DEF Adopt
<1>2. JobType' /\ lost' \in Nat /\ dropped' \in BOOLEAN
  BY <1>1, RestoresType DEF JobType
<1>3. FileType'
  BY <1>1, RestoresType DEF TypeOK, FileType
<1>4. ServerType' /\ breaks' \in Nat
  BY <1>1 DEF TypeOK, ServerType
<1> QED
  BY <1>1, <1>2, <1>3, <1>4, Unchanged DEF TypeOK
-----------------------------------------------------------------------------
LEMMA TypeNext ==
  ASSUME TypeOK, [Next]_vars
  PROVE  TypeOK'
<1>1. CASE User
  BY <1>1, TypeStart, TypePause, TypeKeepPaused, TypeStop, TypeResume, TypeContinue,
     TypeChangeLimit, TypeAskAuthor, TypeStopReply DEF User
<1>2. CASE Helpers
  BY <1>2, TypeStopSettles, TypePauseSettles DEF Helpers
<1>3. CASE Loop
  BY <1>3, TypeRetryTimePasses, TypeStartReply, TypeAutoStopReply, TypeAutoReconfigure,
     TypeAutoResume, TypeAutoResumeFails, TypeSettingsChange DEF Loop
<1>4. CASE Runner
  BY <1>4, TypeRunnerSteps, TypeRunnerPauses, TypeRunnerFinishes, TypeReplyRetries,
     TypeReplyEnds, TypeRunnerDies DEF Runner
<1>5. CASE Reader
  BY <1>5, TypeReadStep, TypeReadPaused, TypeReadResult, TypeSettlePaused, TypeSettleDone,
     TypeReadReply, TypeSettleReply, TypeDrain, TypeSettleDrained DEF Reader
<1>6. CASE Failing
  BY <1>6, TypeReaderBreaks, TypeReaderVanishes, TypeCrashWhileSettling DEF Failing
<1>7. CASE Process
  BY <1>7, TypeCrash, TypeClose, TypeExit, TypeRestart, TypeAdopt DEF Process
<1>8. CASE UNCHANGED vars
  BY <1>8, Unchanged DEF vars, TypeOK
<1> QED
  BY <1>1, <1>2, <1>3, <1>4, <1>5, <1>6, <1>7, <1>8 DEF Next

LEMMA TypeInit == Init => TypeOK
<1> SUFFICES ASSUME Init PROVE TypeOK
  OBVIOUS
<1>1. ServerType
  BY DEF Init, ServerType
<1>2. TokenType
  BY NoToken DEF Init, TokenType
<1>3. JobType
  BY IdleType DEF Init, JobType, Steps
<1>4. FileType
  BY NoCkptType DEF Init, FileType
<1>5. RunnerType
  BY NoToken, EmptyPipe DEF Init, RunnerType, Launches, Steps
<1> QED
  BY <1>1, <1>2, <1>3, <1>4, <1>5 DEF Init, TypeOK

\* Every reachable state of the job is of the declared types, for all bounds.
THEOREM JobTypeCorrect == Spec => []TypeOK
  BY TypeInit, TypeNext, PTL DEF Spec
-----------------------------------------------------------------------------
(***************************************************************************)
(* At most one runner, and it is watched.  The invariant that makes both   *)
(* inductive: only the newest runner can be alive, a server that is down   *)
(* or only shows a run another process owns has no worker, and any other   *)
(* server has the live runner as its worker.                               *)
(***************************************************************************)
RunnerInv ==
  /\ live \subseteq {launches}
  /\ worker \in {0, launches}
  /\ elsewhere \/ up = "down" => worker = 0
  /\ elsewhere => up # "down"
  /\ ~elsewhere /\ up # "down" /\ live # {} => worker = launches

LEMMA RunnerInvInit == Init => RunnerInv
  BY DEF Init, RunnerInv

\* A new runner starts only where no earlier one is alive.
LEMMA SpawnsKeepsRunnerInv ==
  ASSUME TypeOK, RunnerInv, Here, worker = 0, UNCHANGED server,
         NEW k, NEW at, Spawns(k, at)
  PROVE  RunnerInv'
<1>1. launches \in Nat /\ live \subseteq 1 .. MaxLaunches
  BY DEF TypeOK, RunnerType, Launches
<1>2. live = {}
  BY <1>1 DEF RunnerInv, Here
<1>3. /\ launches' = launches + 1 /\ live' = {launches + 1} /\ worker' = launches + 1
  BY <1>2 DEF Spawns
<1> QED
  BY <1>1, <1>3 DEF RunnerInv, Here, server

LEMMA RunnerStart ==
  ASSUME TypeOK, RunnerInv, Start
  PROVE  RunnerInv'
  BY SpawnsKeepsRunnerInv DEF RunnerInv, Start, LaunchesWork

LEMMA RunnerContinue ==
  ASSUME TypeOK, RunnerInv, Continue
  PROVE  RunnerInv'
  BY SpawnsKeepsRunnerInv DEF RunnerInv, Continue, LaunchesWork

LEMMA RunnerResumes ==
  ASSUME TypeOK, RunnerInv, NEW c, Resumes(c)
  PROVE  RunnerInv'
  BY SpawnsKeepsRunnerInv DEF RunnerInv, Resumes, MayResume, LaunchesWork

LEMMA RunnerStartReply ==
  ASSUME TypeOK, RunnerInv, StartReply
  PROVE  RunnerInv'
<1>1. CASE Spawns("reply", "author")
  BY <1>1, SpawnsKeepsRunnerInv DEF StartReply
<1>2. CASE UNCHANGED <<tokens, runners>>
  BY <1>2 DEF StartReply, RunnerInv, server, tokens, runners
<1> QED
  BY <1>1, <1>2 DEF StartReply

\* The step leaves the runner and its worker alone.
LEMMA RunnerUntouched ==
  ASSUME RunnerInv, UNCHANGED <<up, elsewhere, worker, live, launches>>
  PROVE  RunnerInv'
  BY DEF RunnerInv

\* The newest runner ends.
LEMMA RunnerExits ==
  ASSUME RunnerInv, Exits, UNCHANGED <<up, elsewhere, worker, launches>>
  PROVE  RunnerInv'
  BY DEF RunnerInv, Exits

\* The worker is given up after its runner ended.
LEMMA RunnerSettled ==
  ASSUME RunnerInv, worker \notin live, worker' = 0,
         UNCHANGED <<up, elsewhere, live, launches>>
  PROVE  RunnerInv'
<1>1. ~elsewhere /\ up # "down" => live = {}
  BY DEF RunnerInv
<1> QED
  BY <1>1 DEF RunnerInv

\* The server process ends: what was alive stays alive, or is killed.
LEMMA RunnerMemoryLost ==
  ASSUME RunnerInv, MemoryLost, live' \subseteq live, launches' = launches
  PROVE  RunnerInv'
  BY DEF RunnerInv, MemoryLost

LEMMA RunnerNext ==
  ASSUME TypeOK, RunnerInv, [Next]_vars
  PROVE  RunnerInv'
<1>1. CASE User
  <2>1. CASE Start
    BY <2>1, RunnerStart
  <2>2. CASE Resume
    BY <2>2, RunnerResumes DEF Resume
  <2>3. CASE Continue
    BY <2>3, RunnerContinue
  <2>4. CASE Pause \/ KeepPaused \/ Stop \/ ChangeLimit \/ AskAuthor \/ StopReply
    BY <2>4, RunnerUntouched
       DEF Pause, KeepPaused, Stop, ChangeLimit, AskAuthor, StopReply, server, tokens, runners
  <2> QED
    BY <1>1, <2>1, <2>2, <2>3, <2>4 DEF User
<1>2. CASE Helpers
  <2>1. CASE worker' = worker
    BY <1>2, <2>1, RunnerUntouched DEF Helpers, StopSettles, PauseSettles, server, runners
  <2>2. CASE worker' # worker
    BY <1>2, <2>2, RunnerSettled DEF Helpers, StopSettles, PauseSettles, server, runners
  <2> QED
    BY <2>1, <2>2
<1>3. CASE Loop
  <2>1. CASE StartReply
    BY <2>1, RunnerStartReply
  <2>2. CASE AutoResume
    BY <2>2, RunnerResumes DEF AutoResume
  <2>3. CASE RetryTimePasses \/ AutoStopReply \/ AutoReconfigure \/ AutoResumeFails
             \/ SettingsChange
    BY <2>3, RunnerUntouched
       DEF RetryTimePasses, AutoStopReply, AutoReconfigure, AutoResumeFails, SettingsChange,
           server, tokens, runners
  <2> QED
    BY <1>3, <2>1, <2>2, <2>3 DEF Loop
<1>4. CASE Runner
  <2>1. CASE RunnerSteps \/ ReplyRetries
    BY <2>1, RunnerUntouched DEF RunnerSteps, ReplyRetries, RunnerOnly, server, tokens
  <2>2. CASE RunnerPauses \/ RunnerFinishes \/ ReplyEnds \/ RunnerDies
    BY <2>2, RunnerExits
       DEF RunnerPauses, RunnerFinishes, ReplyEnds, RunnerDies, RunnerOnly, server, tokens
  <2> QED
    BY <1>4, <2>1, <2>2 DEF Runner
<1>5. CASE Reader
  <2>1. CASE ReadStep \/ ReadPaused \/ ReadResult \/ ReadReply \/ Drain
    BY <2>1, RunnerUntouched
       DEF ReadStep, ReadPaused, ReadResult, ReadReply, Drain, Pop, server, tokens
  <2>2. CASE SettlePaused \/ SettleDone \/ SettleReply \/ SettleDrained
    BY <2>2, RunnerSettled
       DEF SettlePaused, SettleDone, SettleReply, SettleDrained, AtEnd, TokensDropped,
           server, runners
  <2> QED
    BY <1>5, <2>1, <2>2 DEF Reader
<1>6. CASE Failing
  <2>1. CASE ReaderBreaks \/ ReaderVanishes
    BY <2>1, RunnerUntouched DEF ReaderBreaks, ReaderVanishes, server, runners
  <2>2. CASE CrashWhileSettling
    BY <2>2, RunnerMemoryLost DEF CrashWhileSettling
  <2> QED
    BY <1>6, <2>1, <2>2 DEF Failing
<1>7. CASE Process
  <2>1. CASE Crash
    BY <2>1, RunnerMemoryLost DEF Crash
  <2>2. CASE Exit
    BY <2>2, RunnerMemoryLost DEF Exit
  <2>3. CASE Close
    BY <2>3 DEF Close, RunnerInv, runners
  <2>4. CASE Restart
    BY <2>4 DEF Restart, RunnerInv, tokens, runners
  <2>5. CASE Adopt
    BY <2>5 DEF Adopt, RunnerInv, tokens, runners
  <2> QED
    BY <1>7, <2>1, <2>2, <2>3, <2>4, <2>5 DEF Process
<1>8. CASE UNCHANGED vars
  BY <1>8, RunnerUntouched DEF vars, server, tokens, runners
<1> QED
  BY <1>1, <1>2, <1>3, <1>4, <1>5, <1>6, <1>7, <1>8 DEF Next

LEMMA RunnerInvImplies ==
  ASSUME TypeOK, RunnerInv
  PROVE  OneRunner
<1>1. IsFiniteSet({launches}) /\ Cardinality({launches}) = 1
  BY FS_Singleton
<1>2. Cardinality(live) <= 1
  BY <1>1, FS_Subset DEF RunnerInv
<1>3. live # {} /\ up # "down" /\ ~elsewhere => worker \in live
  BY DEF RunnerInv
<1> QED
  BY <1>2, <1>3 DEF OneRunner

\* In every reachable state, for any number of launches, crashes and reader
\* failures, the run has at most one runner process, and a server that owns the
\* run and has a live runner has it as its worker, so it launches nothing else.
THEOREM OneWatchedRunner == Spec => []OneRunner
<1>1. Init => TypeOK /\ RunnerInv
  BY TypeInit, RunnerInvInit
<1>2. TypeOK /\ RunnerInv /\ [Next]_vars => TypeOK' /\ RunnerInv'
  BY TypeNext, RunnerNext
<1>3. TypeOK /\ RunnerInv => OneRunner
  BY RunnerInvImplies
<1> QED
  BY <1>1, <1>2, <1>3, PTL DEF Spec
-----------------------------------------------------------------------------
(***************************************************************************)
(* A paused job can always be resumed.  A checkpoint that could not be     *)
(* saved is one a restart rebuilt, for the pause the job is still in; a    *)
(* reader of the run's own work and a pause exclude each other.            *)
(***************************************************************************)
PauseInv ==
  /\ PausedCanResume /\ NoStaleUnsaved
  /\ unsaved # NoCkpt => unsaved.status # "none"
  /\ reader = "draining" => job = "work"
  /\ job = "work" /\ reader \in {"reading", "draining"} => phase # "paused"
  /\ worker = 0 => reader = "none"
  /\ elsewhere => phase = "running"
  /\ up = "down" => phase = "off"

LEMMA PauseInvInit == Init => PauseInv
  BY DEF Init, PauseInv, PausedCanResume, NoStaleUnsaved

LEMMA PauseUntouched ==
  ASSUME PauseInv,
         UNCHANGED <<up, elsewhere, phase, unsaved, ckpt, worker, job, dropped>>,
         reader' \in {reader, "gone"}, worker # 0 \/ reader' = reader
  PROVE  PauseInv'
  BY DEF PauseInv, PausedCanResume, NoStaleUnsaved, faults, Saved

LEMMA LaunchKeepsPauseInv ==
  ASSUME TypeOK, PauseInv, NEW at, LaunchesWork(at), Here, UNCHANGED server,
         unsaved' = NoCkpt \/ (unsaved' = unsaved /\ phase # "paused")
  PROVE  PauseInv'
<1>1. /\ phase' = "running" /\ worker' # 0 /\ reader' = "reading" /\ job' = "work"
  <2>1. launches \in Nat
    BY DEF TypeOK, RunnerType
  <2>2. /\ phase' = "running" /\ worker' = launches + 1
        /\ reader' = "reading" /\ job' = "work"
    BY DEF LaunchesWork, Spawns
  <2> QED
    BY <2>1, <2>2
<1>2. unsaved' = NoCkpt
  BY DEF PauseInv, NoStaleUnsaved
<1> QED
  BY <1>1, <1>2 DEF PauseInv, PausedCanResume, NoStaleUnsaved, faults, Here, server

LEMMA MemoryLostKeepsPauseInv ==
  ASSUME MemoryLost
  PROVE  PauseInv'
  BY DEF MemoryLost, PauseInv, PausedCanResume, NoStaleUnsaved, faults

LEMMA RestoresKeepsPauseInv ==
  ASSUME TypeOK, PauseInv, NEW keeps \in BOOLEAN, Restores(keeps), phase # "paused",
         up' # "down", elsewhere' = FALSE, reader' = "none"
  PROVE  PauseInv'
<1>1. unsaved = NoCkpt
  BY DEF PauseInv, NoStaleUnsaved
<1>2. CASE Rebuilt = NoCkpt
  BY <1>1, <1>2 DEF Restores, PauseInv, PausedCanResume, NoStaleUnsaved, faults
<1>3. CASE Rebuilt # NoCkpt
  <2> DEFINE c == AfterNotice(Configured(Rebuilt))
  <2>1. c.status # "none"
    BY <1>3, RebuiltType, ConfiguredType, AfterNoticeType
  <2>2. /\ phase' = "paused"
        /\ \/ ckpt' = c /\ unsaved' = unsaved
           \/ unsaved' = c
           \/ unsaved' = unsaved /\ dropped'
    BY <1>3 DEF Restores, PausesAt, WaitsAt
  <2> HIDE DEF c
  <2>3. /\ dropped' \/ Saved'.status # "none"
        /\ unsaved' # NoCkpt => unsaved'.status # "none"
    <3>1. NoCkpt.status = "none"
      BY DEF NoCkpt
    <3>2. c # NoCkpt
      BY <2>1, <3>1
    <3> QED
      BY <1>1, <2>1, <2>2, <3>2 DEF Saved
  <2> QED
    BY <2>2, <2>3 DEF PauseInv, PausedCanResume, NoStaleUnsaved, faults
<1> QED
  BY <1>2, <1>3

LEMMA PauseSettledAt ==
  ASSUME PauseInv, NEW c \in Checkpoints, c.status # "none",
         ckpt' = AfterNotice(c), phase' = "paused", reader' = "none",
         ~elsewhere, up # "down", UNCHANGED server,
         unsaved' = NoCkpt \/ (unsaved' = unsaved /\ phase # "paused")
  PROVE  PauseInv'
<1>1. unsaved' = NoCkpt
  BY DEF PauseInv, NoStaleUnsaved
<1>2. ckpt'.status # "none"
  BY AfterNoticeType
<1> QED
  BY <1>1, <1>2 DEF PauseInv, PausedCanResume, NoStaleUnsaved, faults, Saved, server

LEMMA PauseResumes ==
  ASSUME TypeOK, PauseInv, NEW c, Resumes(c)
  PROVE  PauseInv'
  BY LaunchKeepsPauseInv DEF Resumes, MayResume

LEMMA PauseUser ==
  ASSUME TypeOK, PauseInv, RunnerInv, User
  PROVE  PauseInv'
<1>1. CASE Start
  BY <1>1, LaunchKeepsPauseInv DEF Start
<1>2. CASE Resume
  BY <1>2, PauseResumes DEF Resume
<1>3. CASE Continue
  BY <1>3, LaunchKeepsPauseInv DEF Continue
<1>4. CASE KeepPaused
  <2>1. ckpt'.status = ckpt.status
    BY <1>4 DEF KeepPaused, TypeOK, FileType, Checkpoints
  <2> QED
    BY <1>4, <2>1
       DEF KeepPaused, PauseInv, PausedCanResume, NoStaleUnsaved, faults, Saved, server, tokens, runners
<1>5. CASE Pause
  BY <1>5 DEF Pause, PausesAuthor, Here, PauseInv, PausedCanResume, NoStaleUnsaved, faults,
              server, runners
<1>6. CASE Stop
  BY <1>6 DEF Stop, Here, PauseInv, PausedCanResume, NoStaleUnsaved, faults, server, runners
<1>7. CASE ChangeLimit \/ AskAuthor \/ StopReply
  BY <1>7, PauseUntouched
     DEF ChangeLimit, AskAuthor, StopReply, server, tokens, files, runners, faults
<1> QED
  BY <1>1, <1>2, <1>3, <1>4, <1>5, <1>6, <1>7 DEF User

LEMMA PauseHelpers ==
  ASSUME TypeOK, PauseInv, RunnerInv, Helpers
  PROVE  PauseInv'
<1>1. CASE StopSettles
  BY <1>1 DEF StopSettles, PauseInv, PausedCanResume, NoStaleUnsaved, faults, Saved,
              server, files, runners
<1>2. CASE PauseSettles
  <2>1. CASE phase = "pausing" /\ reader = "gone"
    <3> DEFINE c == Configured([ckpt EXCEPT !.status = "paused"])
    <3>1. c \in Checkpoints /\ c.status = "paused"
      <4>1. [ckpt EXCEPT !.status = "paused"].status = "paused"
        BY DEF TypeOK, FileType, Checkpoints
      <4> QED
        BY <4>1, CkptFieldTypes, ConfiguredType DEF TypeOK, FileType
    <3>2. /\ ckpt' = AfterNotice(c) /\ phase' = "paused" /\ reader' = "none"
          /\ UNCHANGED <<server, unsaved>> /\ up # "down" /\ ~elsewhere
      BY <1>2, <2>1 DEF PauseSettles, PausesAt, WaitsAt, PauseInv
    <3> HIDE DEF c
    <3> QED
      BY <2>1, <3>1, <3>2, PauseSettledAt
  <2>2. CASE ~(phase = "pausing" /\ reader = "gone")
    BY <1>2, <2>2, PauseUntouched DEF PauseSettles, server, runners, faults
  <2> QED
    BY <2>1, <2>2
<1> QED
  BY <1>1, <1>2 DEF Helpers

LEMMA PauseLoop ==
  ASSUME TypeOK, PauseInv, RunnerInv, Loop
  PROVE  PauseInv'
<1>1. CASE StartReply
  <2>1. CASE Spawns("reply", "author")
    <3>1. launches \in Nat
      BY DEF TypeOK, RunnerType
    <3>2. worker' = launches + 1 /\ job' = "reply" /\ reader' = "reading"
      BY <2>1 DEF Spawns
    <3>3. worker' # 0
      BY <3>1, <3>2
    <3> QED
      BY <1>1, <3>2, <3>3 DEF StartReply, Here, PauseInv, PausedCanResume, NoStaleUnsaved, faults,
                              Saved, server, files
  <2>2. CASE UNCHANGED <<tokens, runners>>
    BY <1>1, <2>2, PauseUntouched DEF StartReply, server, tokens, files, runners, faults
  <2> QED
    BY <1>1, <2>1, <2>2 DEF StartReply
<1>2. CASE AutoResume
  BY <1>2, PauseResumes DEF AutoResume
<1>3. CASE AutoReconfigure
  <2> DEFINE c == Configured(Saved)
  <2>1. c \in Checkpoints /\ c.status # "none"
    BY <1>3, SavedType, ConfiguredType DEF AutoReconfigure
  <2>2. /\ ckpt' = AfterNotice(c) /\ phase' = "paused" /\ reader' = reader /\ worker = 0
        /\ unsaved' = NoCkpt /\ UNCHANGED server /\ up # "down" /\ ~elsewhere
    BY <1>3 DEF AutoReconfigure, RetryDue, Here, tokens
  <2> HIDE DEF c
  <2> QED
    BY <2>1, <2>2, PauseSettledAt DEF PauseInv
<1>4. CASE AutoResumeFails
  BY <1>4 DEF AutoResumeFails, RetryDue, Here, PauseInv, PausedCanResume, NoStaleUnsaved, faults,
              Saved, server, tokens, runners
<1>5. CASE SettingsChange
  <2>1. ckpt'.status = ckpt.status
    BY <1>5 DEF SettingsChange, TypeOK, FileType, Checkpoints
  <2> QED
    BY <1>5, <2>1 DEF SettingsChange, PauseInv, PausedCanResume, NoStaleUnsaved, faults, Saved,
                      server, tokens, runners
<1>6. CASE RetryTimePasses \/ AutoStopReply
  BY <1>6, PauseUntouched DEF RetryTimePasses, AutoStopReply, server, tokens, files, runners, faults
<1> QED
  BY <1>1, <1>2, <1>3, <1>4, <1>5, <1>6 DEF Loop

LEMMA PauseRunner ==
  ASSUME PauseInv, Runner
  PROVE  PauseInv'
<1>1. RunnerOnly
  BY DEF Runner, RunnerSteps, RunnerPauses, RunnerFinishes, ReplyRetries, ReplyEnds, RunnerDies
<1>2. UNCHANGED <<up, elsewhere, phase, unsaved, ckpt, worker, job, reader, dropped>>
  BY <1>1 DEF RunnerOnly, server, tokens, files, faults
<1> QED
  BY <1>2, PauseUntouched

LEMMA PauseReader ==
  ASSUME TypeOK, PauseInv, RunnerInv, Reader
  PROVE  PauseInv'
<1>1. CASE ReadStep \/ ReadReply \/ Drain
  BY <1>1, PauseUntouched DEF ReadStep, ReadReply, Drain, Pop, server, tokens, files, faults
<1>2. CASE ReadPaused
  <2>1. /\ phase' # "paused" /\ phase # "paused"
    BY <1>2 DEF ReadPaused, Reading, PauseInv
  <2>2. UNCHANGED <<up, elsewhere, worker, job, reader, unsaved>> /\ up # "down" /\ reader # "none"
    BY <1>2 DEF ReadPaused, Reading, Pop, server, tokens
  <2> QED
    BY <2>1, <2>2 DEF PauseInv, PausedCanResume, NoStaleUnsaved, faults, RunnerInv
<1>3. CASE ReadResult
  <2>1. /\ phase' # "paused" /\ phase # "paused"
    BY <1>3 DEF ReadResult, Reading, PauseInv
  <2>2. UNCHANGED <<up, elsewhere, worker, job, reader, unsaved>> /\ up # "down" /\ reader # "none"
    BY <1>3 DEF ReadResult, Reading, Pop, server, tokens
  <2> QED
    BY <2>1, <2>2 DEF PauseInv, PausedCanResume, NoStaleUnsaved, faults, RunnerInv
<1>4. CASE SettlePaused
  <2> DEFINE c == Configured(LeftPause)
  <2>1. c \in Checkpoints /\ c.status = "paused"
    BY <1>4, LeftPauseType, ConfiguredType DEF SettlePaused
  <2>2. /\ ckpt' = AfterNotice(c) /\ phase' = "paused" /\ reader' = "none"
        /\ UNCHANGED <<server, unsaved>>
        /\ up # "down" /\ reader = "reading" /\ job = "work"
    BY <1>4 DEF SettlePaused, PausesAt, WaitsAt, TokensDropped, Reading
  <2>3. phase # "paused" /\ ~elsewhere
    BY <2>2 DEF PauseInv, RunnerInv
  <2> HIDE DEF c
  <2> QED
    BY <2>1, <2>2, <2>3, PauseSettledAt
<1>5. CASE SettleDone
  <2>1. phase # "paused" /\ ~elsewhere /\ up # "down"
    BY <1>5 DEF SettleDone, Reading, PauseInv, RunnerInv
  <2> QED
    BY <1>5, <2>1 DEF SettleDone, TokensDropped, PauseInv, PausedCanResume, NoStaleUnsaved, faults,
                      server, runners
<1>6. CASE SettleReply
  BY <1>6 DEF SettleReply, TokensDropped, PauseInv, PausedCanResume, NoStaleUnsaved, faults, Saved,
              server, files, runners
<1>7. CASE SettleDrained
  <2>1. reader = "draining" /\ Restores(FALSE) /\ reader' = "none" /\ UNCHANGED server /\ up # "down"
    BY <1>7 DEF SettleDrained, TokensDropped, AtEnd
  <2>2. phase # "paused" /\ ~elsewhere
    BY <2>1 DEF PauseInv, RunnerInv
  <2> QED
    BY <2>1, <2>2, RestoresKeepsPauseInv DEF server, TypeOK, ServerType
<1> QED
  BY <1>1, <1>2, <1>3, <1>4, <1>5, <1>6, <1>7 DEF Reader

LEMMA PauseFailing ==
  ASSUME TypeOK, PauseInv, RunnerInv, Failing
  PROVE  PauseInv'
<1>1. CASE ReaderBreaks
  <2>1. reader = "reading" /\ job = "work" /\ reader' = "draining"
    BY <1>1 DEF ReaderBreaks, Reading
  <2> QED
    BY <1>1, <2>1 DEF ReaderBreaks, PauseInv, PausedCanResume, NoStaleUnsaved, faults, Saved,
                      server, files
<1>2. CASE ReaderVanishes
  <2>1. reader = "draining" /\ reader' = "gone"
    BY <1>2 DEF ReaderVanishes
  <2> QED
    BY <1>2, <2>1, PauseUntouched DEF ReaderVanishes, PauseInv, server, files, runners
<1>3. CASE CrashWhileSettling
  BY <1>3, MemoryLostKeepsPauseInv DEF CrashWhileSettling
<1> QED
  BY <1>1, <1>2, <1>3 DEF Failing

LEMMA PauseProcess ==
  ASSUME TypeOK, PauseInv, RunnerInv, Process
  PROVE  PauseInv'
<1>1. CASE Crash \/ Exit
  BY <1>1, MemoryLostKeepsPauseInv DEF Crash, Exit
<1>2. CASE Close
  <2>1. CASE PausesAuthor("restart") /\ ~elsewhere
    BY <1>2, <2>1 DEF Close, PausesAuthor, PauseInv, PausedCanResume, NoStaleUnsaved, faults, runners
  <2>2. CASE UNCHANGED <<phase, auto, ckpt, request, finisher>>
    BY <1>2, <2>2 DEF Close, PauseInv, PausedCanResume, NoStaleUnsaved, faults, Saved, runners
  <2> QED
    BY <1>2, <2>1, <2>2 DEF Close
<1>3. CASE Restart
  <2>1. reader = "none" /\ phase # "paused" /\ unsaved = NoCkpt
    BY <1>3 DEF Restart, PauseInv, RunnerInv, NoStaleUnsaved
  <2>2. CASE live # {}
    BY <1>3, <2>1, <2>2 DEF Restart, PauseInv, PausedCanResume, NoStaleUnsaved, faults, tokens, runners
  <2>3. CASE live = {}
    BY <1>3, <2>1, <2>3, RestoresKeepsPauseInv DEF Restart, RunnerInv, tokens, TypeOK, ServerType
  <2> QED
    BY <2>2, <2>3
<1>4. CASE Adopt
  <2>1. reader = "none" /\ phase # "paused"
    BY <1>4 DEF Adopt, PauseInv, RunnerInv
  <2> QED
    BY <1>4, <2>1, RestoresKeepsPauseInv DEF Adopt, tokens
<1> QED
  BY <1>1, <1>2, <1>3, <1>4 DEF Process

LEMMA PauseNext ==
  ASSUME TypeOK, RunnerInv, PauseInv, [Next]_vars
  PROVE  PauseInv'
<1>1. CASE UNCHANGED vars
  BY <1>1, PauseUntouched DEF vars, server, tokens, files, runners, faults
<1> QED
  BY <1>1, PauseUser, PauseHelpers, PauseLoop, PauseRunner, PauseReader, PauseFailing,
     PauseProcess DEF Next

\* In every reachable state a paused job has the checkpoint Resume needs, on disk
\* or kept for the next save, and a checkpoint kept in memory belongs to the
\* pause the job is in.
THEOREM PausedJobResumes == Spec => [](PausedCanResume /\ NoStaleUnsaved)
<1>1. Init => TypeOK /\ RunnerInv /\ PauseInv
  BY TypeInit, RunnerInvInit, PauseInvInit
<1>2. TypeOK /\ RunnerInv /\ PauseInv /\ [Next]_vars => TypeOK' /\ RunnerInv' /\ PauseInv'
  BY TypeNext, RunnerNext, PauseNext
<1>3. PauseInv => PausedCanResume /\ NoStaleUnsaved
  BY DEF PauseInv
<1> QED
  BY <1>1, <1>2, <1>3, PTL DEF Spec
-----------------------------------------------------------------------------
(***************************************************************************)
(* A stop is never lost.  What a stop leads to depends on what was read of *)
(* the runner before and is read after it, so the invariant follows the    *)
(* runner's records: a record that ends the work is the last one, comes    *)
(* after the step it ends, and leaves nothing to read.                     *)
(***************************************************************************)
Endings == {"final", "failure", "paused", "reply", "refused"}

\* The records of the job's own work are followed.
Reads == reader \in {"reading", "draining"} /\ job = "work"

EndsLast ==
  \A i \in 1 .. Len(pipe) : pipe[i].kind \in Endings => i = Len(pipe) /\ launches \notin live

\* Where the reader is while the runner is at a later step: there too, or, when
\* the record of that step was the one it failed at, at the submission.
AtLater == node = "later" \/ (reader = "draining" /\ node = "submitted")

\* A step follows a submission, and a result follows a step.
PipeInOrder ==
  \A i \in 1 .. Len(pipe) :
    /\ reader = "reading" /\ job = "work" /\ pipe[i].kind = "step" =>
         IF i = 1 THEN node = "submitted" ELSE pipe[i - 1].kind = "submitted"
    /\ Reads /\ pipe[i].kind \in {"final", "failure"} =>
         IF i = 1 THEN AtLater ELSE pipe[i - 1].kind = "step"

\* The last record tells where the runner is.
RunnerAhead ==
  Reads /\ launches \in live =>
    /\ rnode = "later" => IF pipe = <<>> THEN AtLater ELSE pipe[Len(pipe)].kind = "step"
    /\ rnode = "submitted" /\ reader = "reading" =>
         IF pipe = <<>> THEN node = "submitted" ELSE pipe[Len(pipe)].kind = "submitted"

Watched == worker \in live => reader \in {"reading", "draining"}

ResultLast == Reads /\ result # "none" => pipe = <<>> /\ launches \notin live

PipeInv == EndsLast /\ PipeInOrder /\ RunnerAhead /\ Watched /\ ResultLast

LEMMA PipeInvInit == Init => PipeInv
<1> SUFFICES ASSUME Init PROVE PipeInv
  OBVIOUS
<1>1. Len(pipe) = 0 /\ live = {} /\ worker = 0 /\ reader = "none" /\ result = "none"
  BY DEF Init
<1> QED
  BY <1>1 DEF PipeInv, EndsLast, PipeInOrder, RunnerAhead, Watched, ResultLast, Reads

LEMMA PipeUntouched ==
  ASSUME PipeInv, UNCHANGED <<pipe, live, launches, job, node, reader, rnode, result, worker>>
  PROVE  PipeInv'
  BY DEF PipeInv, EndsLast, PipeInOrder, RunnerAhead, Watched, ResultLast, Reads, AtLater

\* Nobody follows the work any more.
LEMMA PipeUnread ==
  ASSUME TypeOK, PipeInv, pipe' = pipe, live' \subseteq live, launches' = launches,
         ~Reads', worker' \in live' => reader' \in {"reading", "draining"}
  PROVE  PipeInv'
  BY DEF PipeInv, EndsLast, PipeInOrder, RunnerAhead, Watched, ResultLast, Reads

LEMMA PipeEmptied ==
  ASSUME TypeOK, pipe' = <<>>, ~Reads', worker' \in live' => reader' \in {"reading", "draining"}
  PROVE  PipeInv'
  BY DEF PipeInv, EndsLast, PipeInOrder, RunnerAhead, Watched, ResultLast, Reads

LEMMA PipeLaunched ==
  ASSUME TypeOK, NEW at \in {"author", "later"}, LaunchesWork(at)
  PROVE  PipeInv'
<1>1. /\ pipe' = <<>> /\ reader' = "reading" /\ rnode' = at /\ node' = at /\ result' = "none"
  BY DEF LaunchesWork, Spawns
<1> QED
  BY <1>1 DEF PipeInv, EndsLast, PipeInOrder, RunnerAhead, Watched, ResultLast, AtLater, Reads

LEMMA PipeReplyStarted ==
  ASSUME TypeOK, Spawns("reply", "author")
  PROVE  PipeInv'
<1>1. /\ pipe' = <<>> /\ reader' = "reading" /\ job' = "reply"
  BY DEF Spawns
<1> QED
  BY <1>1, PipeEmptied DEF Reads

\* A runner that writes one more record.
LEMMA Appended ==
  ASSUME TypeOK, NEW r \in Records, Writes(r)
  PROVE  /\ Len(pipe) \in Nat /\ Len(pipe') = Len(pipe) + 1 /\ pipe' # <<>>
         /\ \A i \in 1 .. Len(pipe) : pipe'[i] = pipe[i]
         /\ pipe'[Len(pipe) + 1] = r
  BY DEF Writes, TypeOK, RunnerType

\* The first record is taken away.
LEMMA Popped ==
  ASSUME TypeOK, pipe # <<>>, pipe' = Tail(pipe)
  PROVE  /\ Len(pipe) \in Nat \ {0} /\ Len(pipe') = Len(pipe) - 1 /\ Head(pipe) = pipe[1]
         /\ \A i \in 1 .. Len(pipe') : pipe'[i] = pipe[i + 1]
         /\ Len(pipe) = 1 <=> pipe' = <<>>
<1>1. pipe \in Seq(Records)
  BY DEF TypeOK, RunnerType
<1>2. /\ Len(pipe) \in Nat \ {0} /\ Head(pipe) = pipe[1] /\ Tail(pipe) \in Seq(Records)
  BY <1>1
<1>3. /\ Len(pipe') = Len(pipe) - 1
      /\ \A i \in 1 .. Len(pipe') : pipe'[i] = pipe[i + 1]
  BY <1>1, <1>2
<1>4. pipe' = <<>> <=> Len(pipe') = 0
  <2> DEFINE q == pipe'
  <2>1. q \in Seq(Records)
    BY <1>2
  <2> HIDE DEF q
  <2>2. q = <<>> <=> Len(q) = 0
    BY <2>1
  <2> QED
    BY <2>2 DEF q
<1> QED
  BY <1>2, <1>3, <1>4

LEMMA PipePop ==
  ASSUME TypeOK, EndsLast, pipe # <<>>, pipe' = Tail(pipe), UNCHANGED <<live, launches>>
  PROVE  EndsLast' /\ (Head(pipe).kind \in Endings => pipe' = <<>> /\ launches \notin live)
<1>1. /\ Len(pipe) \in Nat \ {0} /\ Len(pipe') = Len(pipe) - 1 /\ Head(pipe) = pipe[1]
      /\ \A i \in 1 .. Len(pipe') : pipe'[i] = pipe[i + 1]
      /\ Len(pipe) = 1 <=> pipe' = <<>>
      /\ Len(pipe') \in Nat /\ live' = live /\ launches' = launches
  BY Popped
<1>2. ASSUME Head(pipe).kind \in Endings PROVE pipe' = <<>> /\ launches \notin live
  <2>1. 1 \in 1 .. Len(pipe) /\ pipe[1].kind \in Endings
    BY <1>1, <1>2
  <2>2. 1 = Len(pipe) /\ launches \notin live
    BY <2>1 DEF EndsLast
  <2> QED
    BY <1>1, <2>2
<1>3. ASSUME NEW i \in 1 .. Len(pipe'), pipe'[i].kind \in Endings
      PROVE  i = Len(pipe') /\ launches' \notin live'
  <2>1. i + 1 \in 1 .. Len(pipe) /\ pipe[i + 1].kind \in Endings
    BY <1>1, <1>3
  <2>2. i + 1 = Len(pipe) /\ launches \notin live
    BY <2>1 DEF EndsLast
  <2> DEFINE n == Len(pipe)
             m == Len(pipe')
  <2>3. m \in Nat /\ n \in Nat /\ m = n - 1 /\ i \in 1 .. m /\ i + 1 = n
    BY <1>1, <2>2
  <2> HIDE DEF n, m
  <2>5. i = m
    BY <2>3
  <2>4. launches' \notin live'
    BY <1>1, <2>2
  <2> QED
    BY <2>4, <2>5 DEF m
<1> QED
  BY <1>2, <1>3 DEF EndsLast

\* The runner writes a record of what it does.
LEMMA PipeWritten ==
  ASSUME TypeOK, PipeInv, launches \in live, worker = launches,
         NEW r \in Records, Writes(r), live' \subseteq live,
         r.kind \in Endings => launches \notin live',
         UNCHANGED <<launches, worker, reader, job, node, result>>,
         job = "work" =>
           /\ r.kind = "step" => rnode = "submitted"
           /\ r.kind \in {"final", "failure"} => rnode = "later"
           /\ launches \in live' =>
                /\ rnode' = "later" => r.kind = "step"
                /\ rnode' = "submitted" => r.kind = "submitted"
  PROVE  PipeInv'
<1> DEFINE n == Len(pipe)
<1>1. /\ n \in Nat /\ Len(pipe') = n + 1 /\ pipe' # <<>>
      /\ \A i \in 1 .. n : pipe'[i] = pipe[i]
      /\ pipe'[n + 1] = r
  BY Appended
<1>2. \A i \in 1 .. n : pipe[i].kind \notin Endings
  BY DEF PipeInv, EndsLast
<1>3. pipe = <<>> <=> n = 0
  BY DEF TypeOK, RunnerType
<1>4. EndsLast'
  <2>1. ASSUME NEW i \in 1 .. Len(pipe'), pipe'[i].kind \in Endings
        PROVE  i = Len(pipe') /\ launches' \notin live'
    <3>1. i = n + 1
      BY <1>1, <1>2, <2>1
    <3> QED
      BY <1>1, <2>1, <3>1
  <2> QED
    BY <2>1 DEF EndsLast
<1>5. PipeInOrder'
  <2>1. ASSUME NEW i \in 1 .. Len(pipe'), reader = "reading", job = "work", pipe'[i].kind = "step"
        PROVE  IF i = 1 THEN node = "submitted" ELSE pipe'[i - 1].kind = "submitted"
    <3>1. CASE i \in 1 .. n
      <4>1. IF i = 1 THEN node = "submitted" ELSE pipe[i - 1].kind = "submitted"
        BY <1>1, <2>1, <3>1 DEF PipeInv, PipeInOrder
      <4>2. i # 1 => i - 1 \in 1 .. n
        BY <1>1, <3>1
      <4> QED
        BY <1>1, <4>1, <4>2
    <3>2. CASE i = n + 1
      <4>1. rnode = "submitted"
        BY <1>1, <2>1, <3>2
      <4>2. IF n = 0 THEN node = "submitted" ELSE pipe[n].kind = "submitted"
        BY <1>3, <2>1, <4>1 DEF PipeInv, RunnerAhead, Reads
      <4>3. n # 0 => n \in 1 .. n
        BY <1>1
      <4> QED
        BY <1>1, <3>2, <4>2, <4>3
    <3> QED
      BY <1>1, <3>1, <3>2
  <2>2. ASSUME NEW i \in 1 .. Len(pipe'), Reads, pipe'[i].kind \in {"final", "failure"}
        PROVE  IF i = 1 THEN AtLater ELSE pipe'[i - 1].kind = "step"
    <3>1. i = n + 1
      BY <1>1, <1>2, <2>2 DEF Endings
    <3>2. rnode = "later"
      BY <1>1, <2>2, <3>1 DEF Reads
    <3>3. IF n = 0 THEN AtLater ELSE pipe[n].kind = "step"
      BY <1>3, <2>2, <3>2 DEF PipeInv, RunnerAhead
    <3>4. n # 0 => n \in 1 .. n
      BY <1>1
    <3> QED
      BY <1>1, <3>1, <3>3, <3>4
  <2>3. Reads' = Reads /\ AtLater' = AtLater
    BY DEF Reads, AtLater
  <2> QED
    BY <2>1, <2>2, <2>3 DEF PipeInOrder
<1>6. RunnerAhead'
  BY <1>1 DEF RunnerAhead, Reads
<1>7. Watched' /\ ResultLast'
  BY DEF PipeInv, Watched, ResultLast, Reads
<1> QED
  BY <1>4, <1>5, <1>6, <1>7 DEF PipeInv

LEMMA PipeRunner ==
  ASSUME TypeOK, PipeInv, Runner
  PROVE  PipeInv'
<1>1. RunnerOnly
  BY DEF Runner, RunnerSteps, RunnerPauses, RunnerFinishes, ReplyRetries, ReplyEnds, RunnerDies
<1>2. UNCHANGED <<launches, worker, reader, job, node, result>>
  BY <1>1 DEF RunnerOnly, tokens, files
<1>3. CASE RunnerSteps
  <2>1. /\ launches \in live /\ worker = launches /\ live' = live
        /\ \E k \in {"submitted", "step", "rejected"} :
             /\ Writes([kind |-> k])
             /\ k = "step" => rnode = "submitted"
             /\ rnode' = "later" => k = "step"
             /\ rnode' = "submitted" => k = "submitted"
    BY <1>3 DEF RunnerSteps, Attached, Runs
  <2>2. PICK k \in {"submitted", "step", "rejected"} :
             /\ Writes([kind |-> k])
             /\ k = "step" => rnode = "submitted"
             /\ rnode' = "later" => k = "step"
             /\ rnode' = "submitted" => k = "submitted"
    BY <2>1
  <2> DEFINE r == [kind |-> k]
  <2>3. r \in Records /\ r.kind = k /\ k \notin Endings \cup {"final", "failure"}
    BY DEF Records, Endings
  <2> HIDE DEF r
  <2>4. Writes(r)
    BY <2>2 DEF r
  <2> QED
    BY <1>2, <2>1, <2>2, <2>3, <2>4, PipeWritten
<1>4. CASE RunnerPauses
  <2>1. /\ launches \in live /\ worker = launches /\ live' = live \ {launches}
        /\ \E at \in {"author", "later"}, why \in Reasons :
             Writes([kind |-> "paused", node |-> at, why |-> why])
    BY <1>4 DEF RunnerPauses, Attached, Runs, Exits
  <2>2. PICK r \in Records : Writes(r) /\ r.kind = "paused"
    BY <2>1 DEF Records
  <2> QED
    BY <1>2, <2>1, <2>2, PipeWritten
<1>5. CASE RunnerFinishes
  <2>1. /\ launches \in live /\ worker = launches /\ live' = live \ {launches} /\ rnode = "later"
        /\ \E k \in {"final", "failure"} : Writes([kind |-> k])
    BY <1>5 DEF RunnerFinishes, Attached, Runs, Exits
  <2>2. PICK r \in Records : Writes(r) /\ r.kind \in {"final", "failure"}
    BY <2>1 DEF Records
  <2> QED
    BY <1>2, <2>1, <2>2, PipeWritten
<1>6. CASE ReplyRetries
  <2>1. /\ launches \in live /\ worker = launches /\ live' = live /\ job = "reply"
        /\ \E k \in {"retry", "attempt"} : Writes([kind |-> k])
    BY <1>6 DEF ReplyRetries, Attached, Runs
  <2>2. PICK r \in Records : Writes(r) /\ r.kind \notin Endings
    BY <2>1 DEF Records, Endings
  <2> QED
    BY <1>2, <2>1, <2>2, PipeWritten
<1>7. CASE ReplyEnds
  <2>1. /\ launches \in live /\ worker = launches /\ live' = live \ {launches} /\ job = "reply"
        /\ \E k \in {"reply", "refused"} : Writes([kind |-> k])
    BY <1>7 DEF ReplyEnds, Attached, Runs, Exits
  <2>2. PICK r \in Records : Writes(r)
    BY <2>1 DEF Records
  <2> QED
    BY <1>2, <2>1, <2>2, PipeWritten
<1>8. CASE RunnerDies
  <2>1. live' = live \ {launches} /\ pipe' = pipe
    BY <1>8 DEF RunnerDies, Exits
  <2> QED
    BY <1>2, <2>1 DEF PipeInv, EndsLast, PipeInOrder, RunnerAhead, Watched, ResultLast, Reads, AtLater
<1> QED
  BY <1>3, <1>4, <1>5, <1>6, <1>7, <1>8 DEF Runner

\* The reader reads the next record of the work.
LEMMA PipeRead ==
  ASSUME TypeOK, PipeInv, Reads, pipe # <<>>, pipe' = Tail(pipe),
         UNCHANGED <<live, job, launches, worker, reader, rnode>>,
         Head(pipe).kind = "submitted" => node' = "submitted",
         Head(pipe).kind = "step" => node' = "later",
         result' # result => Head(pipe).kind \in {"final", "failure"}
  PROVE  PipeInv'
<1> DEFINE n == Len(pipe)
<1>1. /\ n \in Nat \ {0} /\ Len(pipe') = n - 1 /\ Head(pipe) = pipe[1]
      /\ \A i \in 1 .. Len(pipe') : pipe'[i] = pipe[i + 1]
      /\ n = 1 <=> pipe' = <<>>
  BY Popped
<1>2. EndsLast' /\ (Head(pipe).kind \in Endings => pipe' = <<>> /\ launches \notin live)
  BY PipePop DEF PipeInv
<1>3. PipeInOrder'
  <2>1. ASSUME NEW i \in 1 .. Len(pipe'), reader = "reading", job = "work", pipe'[i].kind = "step"
        PROVE  IF i = 1 THEN node' = "submitted" ELSE pipe'[i - 1].kind = "submitted"
    <3>1. i + 1 \in 1 .. n /\ i + 1 # 1 /\ i + 1 - 1 = i /\ pipe[i + 1].kind = "step"
      BY <1>1, <2>1
    <3>2. pipe[i].kind = "submitted"
      BY <2>1, <3>1 DEF PipeInv, PipeInOrder
    <3>3. i # 1 => i - 1 \in 1 .. Len(pipe') /\ i - 1 + 1 = i
      BY <1>1
    <3>4. i # 1 => pipe'[i - 1] = pipe[i]
      BY <1>1, <3>3
    <3> QED
      BY <1>1, <3>2, <3>4
  <2>2. ASSUME NEW i \in 1 .. Len(pipe'), pipe'[i].kind \in {"final", "failure"}
        PROVE  IF i = 1 THEN node' = "later" ELSE pipe'[i - 1].kind = "step"
    <3>1. i + 1 \in 1 .. n /\ i + 1 # 1 /\ i + 1 - 1 = i /\ pipe[i + 1].kind \in {"final", "failure"}
      BY <1>1, <2>2
    <3>2. pipe[i].kind = "step"
      BY <3>1 DEF PipeInv, PipeInOrder
    <3>3. i # 1 => i - 1 \in 1 .. Len(pipe') /\ i - 1 + 1 = i
      BY <1>1
    <3>4. i # 1 => pipe'[i - 1] = pipe[i]
      BY <1>1, <3>3
    <3> QED
      BY <1>1, <3>2, <3>4
  <2> QED
    BY <2>1, <2>2 DEF PipeInOrder, AtLater, Reads
<1>4. RunnerAhead'
  <2>1. n = 1 => pipe[n] = Head(pipe)
    BY <1>1
  <2>2. n # 1 => pipe'[Len(pipe')] = pipe[n]
    <3>1. n # 1 => n - 1 \in 1 .. Len(pipe') /\ n - 1 + 1 = n
      BY <1>1
    <3> QED
      BY <1>1, <3>1
  <2>3. launches \in live =>
          /\ rnode = "later" => pipe[n].kind = "step"
          /\ rnode = "submitted" /\ reader = "reading" => pipe[n].kind = "submitted"
    BY DEF PipeInv, RunnerAhead
  <2> QED
    BY <1>1, <2>1, <2>2, <2>3 DEF RunnerAhead, AtLater, Reads
<1>5. Watched'
  BY DEF PipeInv, Watched
<1>6. ResultLast'
  BY <1>2 DEF PipeInv, ResultLast, Reads, Endings
<1> QED
  BY <1>2, <1>3, <1>4, <1>5, <1>6 DEF PipeInv

\* The reader fails, at the record it would have read next.
LEMMA PipeBreaks ==
  ASSUME TypeOK, PipeInv, ReaderBreaks
  PROVE  PipeInv'
<1> DEFINE n == Len(pipe)
<1>1. /\ reader = "reading" /\ job = "work" /\ reader' = "draining"
      /\ UNCHANGED <<live, job, launches, worker, rnode, node, result>>
      /\ pipe' = IF pipe = <<>> THEN pipe ELSE Tail(pipe)
  BY DEF ReaderBreaks, Reading, files
<1>2. Watched' /\ Reads
  BY <1>1 DEF PipeInv, Watched, Reads
<1>3. CASE pipe = <<>>
  BY <1>1, <1>2, <1>3 DEF PipeInv, EndsLast, PipeInOrder, RunnerAhead, ResultLast, Reads, AtLater
<1>4. CASE pipe # <<>>
  <2>1. /\ n \in Nat \ {0} /\ Len(pipe') = n - 1 /\ Head(pipe) = pipe[1]
        /\ \A i \in 1 .. Len(pipe') : pipe'[i] = pipe[i + 1]
        /\ n = 1 <=> pipe' = <<>>
    BY <1>1, <1>4, Popped
  <2>2. EndsLast'
    BY <1>1, <1>4, PipePop DEF PipeInv
  <2>3. 1 \in 1 .. n /\ (pipe[1].kind = "step" => node = "submitted")
    BY <1>1, <2>1 DEF PipeInv, PipeInOrder
  <2>4. PipeInOrder'
    <3>1. ASSUME NEW i \in 1 .. Len(pipe'), pipe'[i].kind \in {"final", "failure"}
          PROVE  IF i = 1 THEN node = "submitted" ELSE pipe'[i - 1].kind = "step"
      <4>1. i + 1 \in 1 .. n /\ i + 1 # 1 /\ i + 1 - 1 = i /\ pipe[i + 1].kind \in {"final", "failure"}
        BY <2>1, <3>1
      <4>2. pipe[i].kind = "step"
        BY <1>2, <4>1 DEF PipeInv, PipeInOrder
      <4>3. i # 1 => i - 1 \in 1 .. Len(pipe') /\ i - 1 + 1 = i
        BY <2>1
      <4>4. i # 1 => pipe'[i - 1] = pipe[i]
        BY <2>1, <4>3
      <4> QED
        BY <2>3, <4>2, <4>4
    <3> QED
      BY <1>1, <3>1 DEF PipeInOrder, AtLater
  <2>5. RunnerAhead'
    <3>1. n # 1 => n - 1 \in 1 .. Len(pipe') /\ n - 1 + 1 = n
      BY <2>1
    <3>2. n # 1 => pipe'[Len(pipe')] = pipe[n]
      BY <2>1, <3>1
    <3>3. launches \in live /\ rnode = "later" => pipe[n].kind = "step"
      BY <1>2, <1>4 DEF PipeInv, RunnerAhead
    <3> QED
      BY <1>1, <2>1, <2>3, <3>2, <3>3 DEF RunnerAhead, AtLater
  <2>6. ResultLast'
    BY <1>1, <1>2, <1>4 DEF PipeInv, ResultLast
  <2> QED
    BY <1>2, <2>2, <2>4, <2>5, <2>6 DEF PipeInv
<1> QED
  BY <1>3, <1>4

LEMMA PipeReader ==
  ASSUME TypeOK, PipeInv, RunnerInv, Reader
  PROVE  PipeInv'
<1>1. CASE ReadStep
  <2>1. PICK k \in {"submitted", "step", "rejected"} :
          /\ pipe # <<>> /\ Head(pipe).kind = k
          /\ node' = CASE k = "submitted" -> "submitted"
                       [] k = "step" -> "later"
                       [] k = "rejected" -> "author"
    BY <1>1 DEF ReadStep, NextIs
  <2>2. Reads /\ pipe' = Tail(pipe) /\ UNCHANGED <<live, job, launches, worker, reader, rnode, result>>
    BY <1>1 DEF ReadStep, Reading, Reads, Pop, tokens, files
  <2> QED
    BY <2>1, <2>2, PipeRead
<1>2. CASE ReadPaused
  <2>1. /\ Reads /\ pipe # <<>> /\ Head(pipe).kind = "paused" /\ pipe' = Tail(pipe)
        /\ UNCHANGED <<live, job, launches, worker, reader, rnode, result>>
    BY <1>2 DEF ReadPaused, Reading, Reads, NextIs, Pop, tokens
  <2> QED
    BY <2>1, PipeRead
<1>3. CASE ReadResult
  <2>1. /\ Reads /\ pipe # <<>> /\ Head(pipe).kind \in {"final", "failure"} /\ pipe' = Tail(pipe)
        /\ UNCHANGED <<live, job, launches, worker, reader, rnode, node>>
    BY <1>3 DEF ReadResult, Reading, Reads, NextIs, Pop, tokens
  <2> QED
    BY <2>1, PipeRead
<1>4. CASE Drain
  <2>1. /\ reader = "draining" /\ pipe # <<>> /\ pipe' = Tail(pipe)
        /\ UNCHANGED <<live, job, launches, worker, reader, rnode>>
        /\ Head(pipe).kind = "submitted" => node' = "submitted"
        /\ Head(pipe).kind = "step" => node' = "later"
        /\ result' # result => Head(pipe).kind \in {"final", "failure"}
    BY <1>4 DEF Drain, Pop, tokens
  <2>2. CASE job = "work"
    BY <2>1, <2>2, PipeRead DEF Reads
  <2>3. CASE job # "work"
    BY <2>1, <2>3, PipePop DEF PipeInv, PipeInOrder, RunnerAhead, Watched, ResultLast, Reads
  <2> QED
    BY <2>2, <2>3
<1>5. CASE ReadReply
  <2>1. /\ job = "reply" /\ pipe # <<>> /\ pipe' = Tail(pipe)
        /\ UNCHANGED <<live, job, launches, worker, reader>>
    BY <1>5 DEF ReadReply, Reading, Pop
  <2> QED
    BY <2>1, PipePop DEF PipeInv, PipeInOrder, RunnerAhead, Watched, ResultLast, Reads
<1>6. CASE SettlePaused \/ SettleDone \/ SettleReply \/ SettleDrained
  <2>1. worker' = 0 /\ reader' = "none" /\ UNCHANGED <<live, pipe, launches>>
    BY <1>6 DEF SettlePaused, SettleDone, SettleReply, SettleDrained, TokensDropped, runners
  <2>2. 0 \notin live
    BY DEF TypeOK, RunnerType, Launches
  <2> QED
    BY <2>1, <2>2, PipeUnread DEF Reads
<1> QED
  BY <1>1, <1>2, <1>3, <1>4, <1>5, <1>6 DEF Reader

LEMMA PipeMemoryLost ==
  ASSUME TypeOK, PipeInv, MemoryLost, live' \subseteq live
  PROVE  PipeInv'
<1>1. 0 \notin live
  BY DEF TypeOK, RunnerType, Launches
<1> QED
  BY <1>1, PipeEmptied DEF MemoryLost, Reads

LEMMA PipeResumes ==
  ASSUME TypeOK, NEW c \in Checkpoints, Resumes(c)
  PROVE  PipeInv'
<1>1. c.node \in {"author", "later"}
  BY DEF Checkpoints
<1> QED
  BY <1>1, PipeLaunched DEF Resumes

LEMMA PipeNext ==
  ASSUME TypeOK, RunnerInv, PauseInv, PipeInv, [Next]_vars
  PROVE  PipeInv'
<1>1. CASE User
  <2>1. CASE Start
    BY <2>1, PipeLaunched DEF Start
  <2>2. CASE Resume
    BY <2>2, SavedType, PipeResumes DEF Resume
  <2>3. CASE Continue
    BY <2>3, PipeLaunched DEF Continue
  <2>4. CASE Pause \/ KeepPaused \/ Stop \/ ChangeLimit \/ AskAuthor \/ StopReply
    BY <2>4, PipeUntouched
       DEF Pause, KeepPaused, Stop, ChangeLimit, AskAuthor, StopReply, tokens, runners, files
  <2> QED
    BY <1>1, <2>1, <2>2, <2>3, <2>4 DEF User
<1>2. CASE Helpers
  <2>1. /\ worker' \in {worker, 0} /\ worker \notin live
        /\ UNCHANGED <<live, pipe, launches, job, rnode, result>>
    BY <1>2 DEF Helpers, StopSettles, PauseSettles, runners, files
  <2>2. 0 \notin live
    BY DEF TypeOK, RunnerType, Launches
  <2>3. CASE UNCHANGED <<node, reader>>
    BY <2>1, <2>2, <2>3 DEF PipeInv, EndsLast, PipeInOrder, RunnerAhead, Watched, ResultLast, Reads, AtLater
  <2>4. CASE reader' = "none"
    BY <2>1, <2>2, <2>4, PipeUnread DEF Reads
  <2> QED
    BY <1>2, <2>3, <2>4 DEF Helpers, StopSettles, PauseSettles
<1>3. CASE Loop
  <2>1. CASE StartReply
    <3>1. CASE Spawns("reply", "author")
      BY <3>1, PipeReplyStarted
    <3>2. CASE UNCHANGED <<tokens, runners>>
      BY <2>1, <3>2, PipeUntouched DEF StartReply, tokens, runners, files
    <3> QED
      BY <2>1, <3>1, <3>2 DEF StartReply
  <2>2. CASE AutoResume
    BY <2>2, SavedType, ConfiguredType, PipeResumes DEF AutoResume
  <2>3. CASE AutoReconfigure
    <3>1. phase = "paused" /\ UNCHANGED <<worker, reader, live, pipe, launches, job>>
      BY <2>3 DEF AutoReconfigure, RetryDue, tokens, runners
    <3> QED
      BY <3>1, PipeUnread DEF PauseInv, PipeInv, Watched, Reads
  <2>4. CASE RetryTimePasses \/ AutoStopReply \/ AutoResumeFails \/ SettingsChange
    BY <2>4, PipeUntouched
       DEF RetryTimePasses, AutoStopReply, AutoResumeFails, SettingsChange, tokens, runners, files
  <2> QED
    BY <1>3, <2>1, <2>2, <2>3, <2>4 DEF Loop
<1>4. CASE Runner
  BY <1>4, PipeRunner
<1>5. CASE Reader
  BY <1>5, PipeReader
<1>6. CASE Failing
  <2>1. CASE ReaderBreaks
    BY <2>1, PipeBreaks
  <2>2. CASE ReaderVanishes
    <3>1. /\ worker \notin live /\ worker' = worker /\ reader' = "gone"
          /\ UNCHANGED <<live, pipe, launches>>
      BY <2>2 DEF ReaderVanishes, AtEnd, runners
    <3> QED
      BY <3>1, PipeUnread DEF Reads
  <2>3. CASE CrashWhileSettling
    BY <2>3, PipeMemoryLost DEF CrashWhileSettling
  <2> QED
    BY <1>6, <2>1, <2>2, <2>3 DEF Failing
<1>7. CASE Process
  <2>1. CASE Crash \/ Exit
    BY <2>1, PipeMemoryLost DEF Crash, Exit
  <2>2. CASE Close
    BY <2>2, PipeUntouched DEF Close, runners
  <2>3. CASE Restart \/ Adopt
    <3>1. UNCHANGED <<worker, reader, live, pipe, launches>> /\ reader = "none"
      BY <2>3 DEF Restart, Adopt, tokens, runners, RunnerInv, PauseInv
    <3> QED
      BY <3>1, PipeUnread DEF PipeInv, Watched, Reads
  <2> QED
    BY <1>7, <2>1, <2>2, <2>3 DEF Process
<1>8. CASE UNCHANGED vars
  BY <1>8, PipeUntouched DEF vars, tokens, runners, files
<1> QED
  BY <1>1, <1>2, <1>3, <1>4, <1>5, <1>6, <1>7, <1>8 DEF Next

\* What is saved of a stopped job, in whatever state the server is.
StopKept ==
  intent = "stop" =>
    /\ launches # 0 /\ ckpt.status = "none"
    /\ result = "none" => stopFile
    /\ result = "failed" => node \in {"later", "submitted"}

\* A failure is read at a later step, or where the reader missed that step.
FailedLater ==
  result = "failed" =>
    /\ reader = "reading" /\ job = "work" => node = "later"
    /\ phase \in {"running", "pausing", "stopping"} /\ ~elsewhere => node \in {"later", "submitted"}

StopInv ==
  /\ StopKept /\ StopEndsTheJob /\ FailedLater
  /\ job = "reply" /\ reader # "none" => phase = "paused"
  /\ phase = "done" /\ reader = "reading" => result # "none"
  /\ phase \in {"running", "pausing"} /\ ~elsewhere => launches # 0
  /\ phase = "off" => up = "down"

LEMMA StopInvInit == Init => StopInv
  BY DEF Init, StopInv, StopKept, StopEndsTheJob, FailedLater

LEMMA StopUntouched ==
  ASSUME StopInv,
         UNCHANGED <<up, elsewhere, phase, job, result, node, intent, launches, ckpt, stopFile>>,
         \/ reader' \in {"gone", "draining"} /\ reader # "none"
         \/ reader' \in {reader, "none"}
  PROVE  StopInv'
  BY DEF StopInv, StopKept, StopEndsTheJob, FailedLater

LEMMA StopLaunch ==
  ASSUME TypeOK, Here, UNCHANGED server, NEW at, LaunchesWork(at), intent' # "stop"
  PROVE  StopInv'
<1>1. launches \in Nat
  BY DEF TypeOK, RunnerType
<1>2. /\ launches' = launches + 1 /\ phase' = "running" /\ job' = "work" /\ result' = "none"
  BY DEF LaunchesWork, Spawns
<1> QED
  BY <1>1, <1>2 DEF StopInv, StopKept, StopEndsTheJob, FailedLater

\* No pause is made of a job that is not to continue.
LEMMA StopMemoryLost ==
  ASSUME StopInv, MemoryLost,
         \/ intent' # "stop"
         \/ UNCHANGED <<intent, launches, ckpt, result, stopFile, node>>
  PROVE  StopInv'
  BY DEF StopInv, MemoryLost, StopKept, StopEndsTheJob, FailedLater

LEMMA StopPaused ==
  ASSUME TypeOK, StopInv, intent # "stop", NEW c, NEW r, WaitsAt(c, r), phase' = "paused",
         ~(reader' = "reading" /\ job' = "work")
  PROVE  StopInv'
<1>1. intent' # "stop"
  BY DEF WaitsAt
<1> QED
  BY <1>1 DEF StopInv, StopKept, StopEndsTheJob, FailedLater

LEMMA StopRestores ==
  ASSUME TypeOK, StopInv, NEW keeps \in BOOLEAN, Restores(keeps), elsewhere' = FALSE, reader' = "none", up' # "down",
         UNCHANGED <<stopFile, result, launches>>
  PROVE  StopInv'
<1>1. CASE intent = "stop"
  <2>1. Rebuilt = NoCkpt
    BY <1>1 DEF StopInv, StopKept, Rebuilt, StopWins, TypeOK, FileType
  <2>2. phase' = "done" /\ UNCHANGED <<node, ckpt, intent>>
    BY <1>1, <2>1 DEF Restores, StopInv, StopKept, history
  <2> QED
    BY <2>2 DEF StopInv, StopKept, StopEndsTheJob, FailedLater
<1>2. CASE intent # "stop"
  <2>1. CASE Rebuilt = NoCkpt
    <3>1. phase' \in {"ready", "done"} /\ intent' = intent
      BY <2>1 DEF Restores, history
    <3> QED
      BY <1>2, <3>1 DEF StopInv, StopKept, StopEndsTheJob, FailedLater
  <2>2. CASE Rebuilt # NoCkpt
    <3>1. WaitsAt(Configured(Rebuilt), RestoredReply) /\ phase' = "paused"
      BY <2>2 DEF Restores, PausesAt
    <3> QED
      BY <1>2, <3>1, StopPaused
  <2> QED
    BY <2>1, <2>2
<1> QED
  BY <1>1, <1>2

\* A job that is free or paused, and one this server follows, is not stopped unless it is over.
LEMMA StopNotPaused ==
  ASSUME StopInv, PauseInv, phase \in {"ready", "paused", "pausing"} \/ (phase = "running" /\ ~elsewhere)
  PROVE  intent # "stop"
  BY DEF StopInv, StopEndsTheJob, PauseInv

LEMMA NotStoppedAtLeftPause ==
  ASSUME TypeOK, RunnerInv, PauseInv, StopInv, Reading("work"), LeftPause # NoCkpt
  PROVE  intent # "stop"
<1> SUFFICES ASSUME intent = "stop" PROVE FALSE
  OBVIOUS
<1>1. up # "down" /\ reader = "reading" /\ job = "work" /\ ~elsewhere
  BY DEF Reading, RunnerInv, PauseInv
<1>2. phase \in {"stopping", "done"}
  BY <1>1 DEF StopInv, StopEndsTheJob
<1>3. phase = "done" => result # "none" /\ (result = "failed" => node = "later")
  BY <1>1 DEF StopInv, FailedLater
<1>4. result \in {"none", "final", "failed"}
  BY DEF TypeOK, FileType
<1> QED
  BY <1>2, <1>3, <1>4 DEF LeftPause

LEMMA StopUser ==
  ASSUME TypeOK, RunnerInv, PauseInv, StopInv, User
  PROVE  StopInv'
<1>1. CASE Start
  BY <1>1, StopLaunch DEF Start
<1>2. CASE Resume
  BY <1>2, StopLaunch DEF Resume, Resumes, MayResume
<1>3. CASE Continue
  BY <1>3, StopLaunch DEF Continue
<1>4. CASE Pause
  BY <1>4 DEF Pause, PausesAuthor, Here, server, runners, StopInv, StopKept, StopEndsTheJob,
              FailedLater
<1>5. CASE KeepPaused
  BY <1>5 DEF KeepPaused, server, tokens, runners, StopInv, StopKept, StopEndsTheJob, FailedLater
<1>6. CASE Stop
  <2>1. /\ launches # 0
        /\ result = "failed" => node \in {"later", "submitted"}
        /\ ~(job = "reply" /\ reader # "none")
    BY <1>6 DEF Stop, Here, StopInv, FailedLater
  <2>2. /\ phase' = "stopping" /\ stopFile' = TRUE /\ ckpt'.status = "none"
        /\ UNCHANGED <<up, elsewhere, launches, result, node, job, reader>>
    BY <1>6 DEF Stop, NoCkpt, server, runners
  <2> QED
    BY <2>1, <2>2 DEF StopInv, StopKept, StopEndsTheJob, FailedLater
<1>7. CASE ChangeLimit \/ AskAuthor \/ StopReply
  BY <1>7, StopUntouched
     DEF ChangeLimit, AskAuthor, StopReply, server, tokens, files, runners, history
<1> QED
  BY <1>1, <1>2, <1>3, <1>4, <1>5, <1>6, <1>7 DEF User

LEMMA StopHelpers ==
  ASSUME TypeOK, RunnerInv, PauseInv, StopInv, Helpers
  PROVE  StopInv'
<1>1. CASE StopSettles
  <2>1. UNCHANGED <<up, elsewhere, job, result, node, intent, launches, ckpt, stopFile>>
    BY <1>1 DEF StopSettles, server, files, runners, history
  <2>2. CASE UNCHANGED <<phase, active, worker, reader>>
    BY <2>1, <2>2, StopUntouched
  <2>3. CASE phase' = "done" /\ reader' = "none"
    BY <2>1, <2>3 DEF StopInv, StopKept, StopEndsTheJob, FailedLater
  <2> QED
    BY <1>1, <2>2, <2>3 DEF StopSettles
<1>2. CASE PauseSettles
  <2>1. CASE phase = "pausing" /\ reader = "gone"
    BY <1>2, <2>1, StopNotPaused, StopPaused DEF PauseSettles, PausesAt
  <2>2. CASE ~(phase = "pausing" /\ reader = "gone")
    BY <1>2, <2>2, StopUntouched DEF PauseSettles, server, runners, history
  <2> QED
    BY <2>1, <2>2
<1> QED
  BY <1>1, <1>2 DEF Helpers

LEMMA StopLoop ==
  ASSUME TypeOK, RunnerInv, PauseInv, StopInv, Loop
  PROVE  StopInv'
<1>1. CASE StartReply
  <2>1. phase = "paused" /\ intent # "stop" /\ UNCHANGED <<phase, intent, up, elsewhere>>
    BY <1>1, StopNotPaused DEF StartReply, server, history
  <2>2. CASE Spawns("reply", "author")
    BY <2>1, <2>2 DEF Spawns, StopInv, StopKept, StopEndsTheJob, FailedLater
  <2>3. CASE UNCHANGED <<tokens, runners>>
    BY <1>1, <2>3, StopUntouched DEF StartReply, server, tokens, files, runners, history
  <2> QED
    BY <1>1, <2>2, <2>3 DEF StartReply
<1>2. CASE AutoResume
  <2>1. intent' # "stop"
    BY <1>2, StopNotPaused DEF AutoResume, RetryDue
  <2> QED
    BY <1>2, <2>1, StopLaunch DEF AutoResume, Resumes, MayResume
<1>3. CASE AutoReconfigure
  <2>1. /\ phase = "paused" /\ phase' = "paused" /\ intent # "stop"
        /\ reader' = reader /\ job' = job
    BY <1>3, StopNotPaused DEF AutoReconfigure, RetryDue, tokens, runners
  <2>2. ~(reader' = "reading" /\ job' = "work")
    BY <2>1 DEF PauseInv
  <2> QED
    BY <1>3, <2>1, <2>2, StopPaused DEF AutoReconfigure
<1>4. CASE AutoResumeFails \/ SettingsChange
  <2>1. /\ phase = "paused" /\ intent # "stop"
        /\ UNCHANGED <<up, elsewhere, phase, node, result, job, reader, launches, intent>>
    BY <1>4, StopNotPaused DEF AutoResumeFails, SettingsChange, RetryDue, server, tokens, runners, history
  <2> QED
    BY <2>1 DEF StopInv, StopKept, StopEndsTheJob, FailedLater
<1>5. CASE RetryTimePasses \/ AutoStopReply
  BY <1>5, StopUntouched
     DEF RetryTimePasses, AutoStopReply, server, tokens, files, runners, history
<1> QED
  BY <1>1, <1>2, <1>3, <1>4, <1>5 DEF Loop

LEMMA StopRunner ==
  ASSUME StopInv, Runner
  PROVE  StopInv'
<1>1. RunnerOnly
  BY DEF Runner, RunnerSteps, RunnerPauses, RunnerFinishes, ReplyRetries, ReplyEnds, RunnerDies
<1> QED
  BY <1>1, StopUntouched DEF RunnerOnly, server, tokens, files, history

\* The record of a failure is read where the step that failed was read before.
LEMMA FailureAtLater ==
  ASSUME TypeOK, PipeInv, Reads, pipe # <<>>, Head(pipe).kind = "failure"
  PROVE  AtLater
<1>1. 1 \in 1 .. Len(pipe) /\ Head(pipe) = pipe[1]
  BY DEF TypeOK, RunnerType
<1> QED
  BY <1>1 DEF PipeInv, PipeInOrder

LEMMA StopReader ==
  ASSUME TypeOK, RunnerInv, PauseInv, PipeInv, StopInv, Reader
  PROVE  StopInv'
<1>1. CASE ReadStep
  <2>1. result = "none" /\ up # "down" /\ ~elsewhere
    BY <1>1 DEF ReadStep, Reading, NextIs, PipeInv, ResultLast, Reads, PauseInv, RunnerInv
  <2> QED
    BY <1>1, <2>1 DEF ReadStep, Pop, server, tokens, files, history,
                      StopInv, StopKept, StopEndsTheJob, FailedLater
<1>2. CASE ReadPaused
  <2>1. /\ result = "none" /\ up # "down" /\ ~elsewhere /\ launches # 0
        /\ job = "work" /\ reader = "reading"
    BY <1>2 DEF ReadPaused, Reading, NextIs, PipeInv, ResultLast, Reads, PauseInv, RunnerInv
  <2>2. UNCHANGED <<up, elsewhere, job, reader, result, launches, stopFile>>
    BY <1>2 DEF ReadPaused, Pop, server, tokens
  <2>3. CASE phase # "stopping" /\ ~stopped
    <3>1. intent # "stop"
      BY <2>1, <2>3 DEF StopInv, StopEndsTheJob
    <3>2. phase' = "pausing" /\ intent' # "stop"
      BY <1>2, <2>3, <3>1 DEF ReadPaused
    <3> QED
      BY <2>1, <2>2, <3>2 DEF StopInv, StopKept, StopEndsTheJob, FailedLater
  <2>4. CASE ~(phase # "stopping" /\ ~stopped)
    <3>1. UNCHANGED <<ckpt, phase, intent>>
      BY <1>2, <2>4 DEF ReadPaused
    <3> QED
      BY <2>1, <2>2, <3>1 DEF StopInv, StopKept, StopEndsTheJob, FailedLater
  <2> QED
    BY <2>3, <2>4
<1>3. CASE ReadResult
  <2>1. /\ reader = "reading" /\ job = "work" /\ up # "down" /\ ~elsewhere /\ launches # 0
        /\ pipe # <<>> /\ Head(pipe).kind \in {"final", "failure"}
        /\ result' = IF Head(pipe).kind = "final" THEN "final" ELSE "failed"
    BY <1>3 DEF ReadResult, Reading, NextIs, PauseInv, RunnerInv
  <2>2. result' = "failed" => node = "later"
    BY <2>1, FailureAtLater DEF AtLater, Reads
  <2>3. /\ UNCHANGED <<up, elsewhere, node, job, reader, launches, ckpt, intent>>
        /\ phase' \in {phase, "done"}
    BY <1>3 DEF ReadResult, Pop, server, tokens, history
  <2> QED
    BY <2>1, <2>2, <2>3 DEF StopInv, StopKept, StopEndsTheJob, FailedLater
<1>4. CASE SettlePaused
  BY <1>4, NotStoppedAtLeftPause, StopPaused DEF SettlePaused, PausesAt, TokensDropped
<1>5. CASE SettleDone
  <2>1. /\ phase' = "done" /\ reader' = "none"
        /\ result = "none" => stopFile' = stopFile
        /\ UNCHANGED <<up, elsewhere, node, job, launches, ckpt, result, intent>>
    BY <1>5 DEF SettleDone, TokensDropped, server, runners, history
  <2> QED
    BY <2>1 DEF StopInv, StopKept, StopEndsTheJob, FailedLater
<1>6. CASE ReadReply \/ SettleReply
  BY <1>6, StopUntouched
     DEF ReadReply, SettleReply, TokensDropped, Pop, server, files, runners, history
<1>7. CASE Drain
  <2>1. /\ reader = "draining" /\ job = "work" /\ pipe # <<>>
    BY <1>7 DEF Drain, PauseInv
  <2>2. result = "none"
    BY <2>1 DEF PipeInv, ResultLast, Reads
  <2>3. result' = "failed" => Head(pipe).kind = "failure" /\ node' = node
    BY <1>7, <2>2 DEF Drain
  <2>4. result' = "failed" => node' \in {"later", "submitted"}
    BY <2>1, <2>3, FailureAtLater DEF AtLater, Reads
  <2>5. UNCHANGED <<up, elsewhere, phase, job, reader, launches, ckpt, stopFile, intent>>
    BY <1>7 DEF Drain, Pop, server, tokens, history
  <2> QED
    BY <2>1, <2>2, <2>4, <2>5 DEF StopInv, StopKept, StopEndsTheJob, FailedLater
<1>8. CASE SettleDrained
  <2>1. /\ Restores(FALSE) /\ reader' = "none" /\ UNCHANGED <<up, elsewhere, stopFile, result, launches>>
        /\ up # "down" /\ reader = "draining"
    BY <1>8 DEF SettleDrained, TokensDropped, AtEnd, server, runners
  <2>2. elsewhere' = FALSE
    BY <2>1 DEF PauseInv, RunnerInv, TypeOK, ServerType
  <2> QED
    BY <2>1, <2>2, StopRestores
<1> QED
  BY <1>1, <1>2, <1>3, <1>4, <1>5, <1>6, <1>7, <1>8 DEF Reader

LEMMA StopFailing ==
  ASSUME TypeOK, RunnerInv, PauseInv, StopInv, Failing
  PROVE  StopInv'
<1>1. CASE ReaderBreaks \/ ReaderVanishes
  BY <1>1, StopUntouched DEF ReaderBreaks, ReaderVanishes, Reading, server, files, runners, history
<1>2. CASE CrashWhileSettling
  <2>1. intent # "stop"
    BY <1>2, NotStoppedAtLeftPause DEF CrashWhileSettling
  <2>2. intent' # "stop" /\ MemoryLost
    BY <1>2, <2>1 DEF CrashWhileSettling
  <2> QED
    BY <2>2, StopMemoryLost
<1> QED
  BY <1>1, <1>2 DEF Failing

LEMMA StopProcess ==
  ASSUME TypeOK, RunnerInv, PauseInv, StopInv, Process
  PROVE  StopInv'
<1>1. CASE Crash \/ Exit
  BY <1>1, StopMemoryLost DEF Crash, Exit, files, history
<1>2. CASE Close
  <2>1. up' # "down" /\ up # "down" /\ UNCHANGED <<elsewhere, node, reader, stopFile, result, job, launches, intent>>
    BY <1>2 DEF Close, runners, history
  <2>2. CASE PausesAuthor("restart") /\ ~elsewhere
    <3>1. phase = "running" /\ phase' = "pausing" /\ intent # "stop"
      BY <2>2, StopNotPaused DEF PausesAuthor
    <3> QED
      BY <2>1, <2>2, <3>1 DEF StopInv, StopKept, StopEndsTheJob, FailedLater
  <2>3. CASE UNCHANGED <<phase, auto, ckpt, request, finisher>>
    BY <2>1, <2>3 DEF StopInv, StopKept, StopEndsTheJob, FailedLater
  <2> QED
    BY <1>2, <2>2, <2>3 DEF Close
<1>3. CASE Restart
  <2>1. reader = "none" /\ UNCHANGED <<reader, stopFile, result, job, launches>> /\ up' = "up"
    BY <1>3 DEF Restart, tokens, runners, RunnerInv, PauseInv
  <2>2. CASE live # {}
    BY <1>3, <2>1, <2>2 DEF Restart, history, StopInv, StopKept, StopEndsTheJob, FailedLater
  <2>3. CASE live = {}
    <3>1. Restores(TRUE) /\ elsewhere' = FALSE
      BY <1>3, <2>3 DEF Restart, RunnerInv, TypeOK, ServerType
    <3> QED
      BY <2>1, <3>1, StopRestores
  <2> QED
    BY <2>2, <2>3
<1>4. CASE Adopt
  BY <1>4, StopRestores DEF Adopt, tokens, runners, RunnerInv, PauseInv
<1> QED
  BY <1>1, <1>2, <1>3, <1>4 DEF Process

LEMMA StopNext ==
  ASSUME TypeOK, RunnerInv, PauseInv, PipeInv, StopInv, [Next]_vars
  PROVE  StopInv'
<1>1. CASE UNCHANGED vars
  BY <1>1, StopUntouched DEF vars, server, tokens, files, runners, history
<1> QED
  BY <1>1, StopUser, StopHelpers, StopLoop, StopRunner, StopReader, StopFailing, StopProcess DEF Next

\* In every reachable state a job whose stop was asked for is stopping, over, or
\* not this server's, whatever its runner still reported, wherever its reader
\* failed and however often the server died and was started again.
THEOREM StoppedJobEnds == Spec => []StopEndsTheJob
<1>1. Init => TypeOK /\ RunnerInv /\ PauseInv /\ PipeInv /\ StopInv
  BY TypeInit, RunnerInvInit, PauseInvInit, PipeInvInit, StopInvInit
<1>2. TypeOK /\ RunnerInv /\ PauseInv /\ PipeInv /\ StopInv /\ [Next]_vars
        => TypeOK' /\ RunnerInv' /\ PauseInv' /\ PipeInv' /\ StopInv'
  BY TypeNext, RunnerNext, PauseNext, PipeNext, StopNext
<1>3. StopInv => StopEndsTheJob
  BY DEF StopInv
<1> QED
  BY <1>1, <1>2, <1>3, PTL DEF Spec
-----------------------------------------------------------------------------
(***************************************************************************)
(* Nothing continues against the user.  What the user wants, or that only  *)
(* the user may continue, is always told by the checkpoint: by its cause,  *)
(* or by its block.  While the runner may still report a pause, the cause  *)
(* is one that such a report keeps.                                        *)
(***************************************************************************)
Held(c) ==
  c.status \in {"pausing", "paused"} /\ (c.cause \in {"user", "time-limit"} \/ c.block = "safety")

\* The runner of the work may still report how it ended.
Unsaid == reader = "reading" /\ job = "work" /\ (pipe # <<>> \/ launches \in live)

\* Only the author has a limit.
LimitIsAuthors ==
  \A i \in 1 .. Len(pipe) : pipe[i].kind = "paused" /\ pipe[i].why = "limit" => pipe[i].node = "author"

Holding ==
  /\ unsaved = NoCkpt
  /\ phase = "running" /\ ~elsewhere => intent = "run"
  /\ phase = "stopping" => intent = "stop"
  /\ phase = "pausing" => ckpt.status = "pausing"
  /\ phase = "paused" => ckpt.status \in {"pausing", "paused"}
  /\ intent \in {"pause", "attention"} => Held(ckpt)
  /\ Unsaid => intent # "attention"
  /\ Unsaid /\ phase = "pausing" =>
       ckpt.cause \in {"user", "restart"} /\ (intent = "pause" => ckpt.cause = "user")

HoldInv ==
  /\ LimitIsAuthors
  /\ phase = "ready" => launches = 0
  /\ lost = 0 => Holding

LEMMA HoldInvInit == Init => HoldInv
<1> SUFFICES ASSUME Init PROVE HoldInv
  OBVIOUS
<1>1. Len(pipe) = 0
  BY DEF Init
<1>2. LimitIsAuthors
  BY <1>1 DEF LimitIsAuthors
<1>3. phase = "ready" /\ launches = 0 /\ unsaved = NoCkpt /\ intent = "run" /\ reader = "none"
  BY DEF Init
<1> QED
  BY <1>2, <1>3 DEF HoldInv, Holding, Unsaid

\* What is held stays held when the pause is configured or its notice is recorded.
LEMMA HeldConfigured ==
  ASSUME NEW c \in Checkpoints
  PROVE  /\ Held(c) => Held(Configured(c))
         /\ c.status \in {"pausing", "paused"} /\ Configured(c).cause = "time-limit" => Held(Configured(c))
         /\ Held(c) => ~Retries(Configured(c))
         /\ Held(AfterNotice(c)) <=> Held(c)
  BY DEF Configured, AfterNotice, Held, Retries, Checkpoints, Causes

LEMMA HoldUntouched ==
  ASSUME TypeOK, HoldInv, lost' = lost, LimitIsAuthors', UNCHANGED <<phase, elsewhere, intent, ckpt, unsaved, launches>>,
         Unsaid' => Unsaid
  PROVE  HoldInv'
  BY DEF HoldInv, Holding, Held

\* The records that are left are those that were there.
LEMMA LimitPop ==
  ASSUME TypeOK, LimitIsAuthors, pipe # <<>>, pipe' = Tail(pipe)
  PROVE  LimitIsAuthors'
<1>1. /\ Len(pipe) \in Nat \ {0} /\ Len(pipe') = Len(pipe) - 1
      /\ \A i \in 1 .. Len(pipe') : pipe'[i] = pipe[i + 1]
  BY Popped
<1> SUFFICES ASSUME NEW i \in 1 .. Len(pipe'), pipe'[i].kind = "paused" /\ pipe'[i].why = "limit"
             PROVE  pipe'[i].node = "author"
  BY DEF LimitIsAuthors
<1>2. i + 1 \in 1 .. Len(pipe) /\ pipe'[i] = pipe[i + 1]
  BY <1>1
<1> QED
  BY <1>2 DEF LimitIsAuthors

LEMMA LimitSame ==
  ASSUME LimitIsAuthors, pipe' = pipe
  PROVE  LimitIsAuthors'
  BY DEF LimitIsAuthors

LEMMA LimitEmptied ==
  ASSUME pipe' = <<>>
  PROVE  LimitIsAuthors'
<1>1. Len(pipe') = 0
  OBVIOUS
<1> QED
  BY <1>1 DEF LimitIsAuthors

LEMMA LimitWritten ==
  ASSUME TypeOK, LimitIsAuthors, NEW r \in Records, Writes(r),
         r.kind = "paused" /\ r.why = "limit" => r.node = "author"
  PROVE  LimitIsAuthors'
<1>1. /\ Len(pipe) \in Nat /\ Len(pipe') = Len(pipe) + 1
      /\ \A i \in 1 .. Len(pipe) : pipe'[i] = pipe[i]
      /\ pipe'[Len(pipe) + 1] = r
  BY Appended
<1> SUFFICES ASSUME NEW i \in 1 .. Len(pipe'), pipe'[i].kind = "paused" /\ pipe'[i].why = "limit"
             PROVE  pipe'[i].node = "author"
  BY DEF LimitIsAuthors
<1>2. i \in 1 .. Len(pipe) \/ i = Len(pipe) + 1
  BY <1>1
<1> QED
  BY <1>1, <1>2 DEF LimitIsAuthors

LEMMA HoldLaunch ==
  ASSUME TypeOK, HoldInv, NEW at, LaunchesWork(at), intent' = "run", lost' = lost,
         unsaved' \in {unsaved, NoCkpt}
  PROVE  HoldInv'
<1>1. phase' = "running" /\ pipe' = <<>>
  BY DEF LaunchesWork, Spawns
<1> QED
  BY <1>1, LimitEmptied DEF HoldInv, Holding

LEMMA HoldMemoryLost ==
  ASSUME HoldInv, MemoryLost, UNCHANGED <<ckpt, intent, lost>>
  PROVE  HoldInv'
<1>1. pipe' = <<>> /\ phase' = "off" /\ unsaved' = NoCkpt /\ reader' = "none"
  BY DEF MemoryLost
<1> QED
  BY <1>1, LimitEmptied DEF HoldInv, Holding, Held, Unsaid

\* A pause of a job that was not held becomes one that is when only the user may continue it.
LEMMA HoldPaused ==
  ASSUME TypeOK, HoldInv, NEW c \in Checkpoints, NEW r, WaitsAt(Configured(c), r),
         phase' = "paused", pipe' = pipe,
         ~(reader' = "reading" /\ job' = "work"),
         lost' = 0 => /\ lost = 0 /\ ckpt' = AfterNotice(Configured(c)) /\ unsaved' = NoCkpt
                      /\ c.status \in {"pausing", "paused"}
                      /\ intent \in {"pause", "attention"} => Held(c)
  PROVE  HoldInv'
<1> DEFINE d == Configured(c)
<1>1. intent' = IF d.cause = "time-limit" /\ intent = "run" THEN "attention" ELSE intent
  BY DEF WaitsAt
<1>2. LimitIsAuthors'
  BY LimitSame DEF HoldInv
<1>3. ASSUME lost' = 0 PROVE Holding'
  <2>1. d \in Checkpoints /\ d.status = c.status
    BY ConfiguredType
  <2>2. ckpt' \in Checkpoints /\ ckpt'.status = c.status /\ (Held(ckpt') <=> Held(d))
    BY <1>3, <2>1, AfterNoticeType, HeldConfigured
  <2>3. intent' \in {"pause", "attention"} => Held(d)
    BY <1>1, <1>3, <2>1, HeldConfigured DEF TypeOK, JobType
  <2> QED
    BY <1>1, <1>3, <2>2, <2>3 DEF Holding, Unsaid, Held
<1> QED
  BY <1>1, <1>2, <1>3 DEF HoldInv

LEMMA HoldUser ==
  ASSUME TypeOK, RunnerInv, PauseInv, HoldInv, User
  PROVE  HoldInv'
<1>1. CASE Start \/ Resume \/ Continue
  BY <1>1, HoldLaunch DEF Start, Resume, Resumes, Continue, faults
<1>2. CASE Pause
  <2>1. /\ ckpt' = [NoCkpt EXCEPT !.status = "pausing", !.cause = "user"]
        /\ phase' = "pausing" /\ intent' = "pause" /\ UNCHANGED <<unsaved, lost, pipe>>
    BY <1>2 DEF Pause, PausesAuthor, faults, runners
  <2>2. ckpt'.status = "pausing" /\ ckpt'.cause = "user"
    BY <2>1 DEF NoCkpt
  <2> QED
    BY <2>1, <2>2, LimitSame DEF HoldInv, Holding, Held
<1>3. CASE KeepPaused
  <2>1. /\ ckpt' = IF ckpt.status = "none" \/ ckpt.cause = "time-limit" THEN ckpt
                   ELSE [ckpt EXCEPT !.cause = "user"]
        /\ phase \in {"pausing", "paused"} /\ intent' = "pause"
        /\ UNCHANGED <<phase, elsewhere, reader, job, live, launches, unsaved, lost, pipe>>
    BY <1>3 DEF KeepPaused, server, tokens, faults, runners
  <2>2. /\ ckpt'.status = ckpt.status
        /\ ckpt.status # "none" => ckpt'.cause \in {"user", "time-limit"}
        /\ ckpt.status # "none" /\ ckpt.cause # "time-limit" => ckpt'.cause = "user"
    BY <2>1 DEF TypeOK, FileType, Checkpoints
  <2>3. Unsaid' = Unsaid
    BY <2>1 DEF Unsaid
  <2> QED
    BY <2>1, <2>2, <2>3, LimitSame DEF HoldInv, Holding, Held
<1>4. CASE Stop
  <2>1. phase' = "stopping" /\ intent' = "stop" /\ UNCHANGED <<unsaved, lost, pipe>>
    BY <1>4 DEF Stop, faults, runners
  <2> QED
    BY <2>1, LimitSame DEF HoldInv, Holding
<1>5. CASE ChangeLimit \/ AskAuthor \/ StopReply
  <2>1. /\ UNCHANGED <<phase, elsewhere, intent, ckpt, unsaved, launches, lost, pipe, reader, job, live>>
    BY <1>5 DEF ChangeLimit, AskAuthor, StopReply, server, tokens, faults, files, runners, history
  <2> QED
    BY <2>1, HoldUntouched, LimitSame DEF HoldInv, Unsaid
<1> QED
  BY <1>1, <1>2, <1>3, <1>4, <1>5 DEF User

LEMMA HoldHelpers ==
  ASSUME TypeOK, RunnerInv, PauseInv, HoldInv, Helpers
  PROVE  HoldInv'
<1>1. CASE StopSettles
  <2>1. UNCHANGED <<elsewhere, intent, ckpt, unsaved, launches, lost, pipe, job, live>>
    BY <1>1 DEF StopSettles, server, faults, files, runners, history
  <2>2. CASE UNCHANGED <<phase, active, worker, reader>>
    BY <2>1, <2>2, HoldUntouched, LimitSame DEF HoldInv, Unsaid
  <2>3. CASE phase' = "done" /\ reader' = "none"
    BY <2>1, <2>3, LimitSame DEF HoldInv, Holding, Held, Unsaid
  <2> QED
    BY <1>1, <2>2, <2>3 DEF StopSettles
<1>2. CASE PauseSettles
  <2>1. CASE phase = "pausing" /\ reader = "gone"
    <3> DEFINE c == [ckpt EXCEPT !.status = "paused"]
    <3>1. /\ c \in Checkpoints /\ c.status = "paused" /\ (Held(ckpt) => Held(c))
      BY DEF TypeOK, FileType, Checkpoints, Held
    <3>2. /\ PausesAt(Configured(c), reply) /\ ckpt' = AfterNotice(Configured(c)) /\ reader' = "none"
          /\ UNCHANGED <<unsaved, lost, pipe>>
      BY <1>2, <2>1 DEF PauseSettles, faults, runners
    <3> HIDE DEF c
    <3>3. lost = 0 => unsaved = NoCkpt /\ (intent \in {"pause", "attention"} => Held(c))
      BY <3>1 DEF HoldInv, Holding
    <3> QED
      BY <3>1, <3>2, <3>3, HoldPaused DEF PausesAt
  <2>2. CASE ~(phase = "pausing" /\ reader = "gone")
    <3>1. UNCHANGED <<phase, elsewhere, intent, ckpt, unsaved, launches, lost, pipe, reader, job, live>>
      BY <1>2, <2>2 DEF PauseSettles, server, faults, runners, history
    <3> QED
      BY <3>1, HoldUntouched, LimitSame DEF HoldInv, Unsaid
  <2> QED
    BY <2>1, <2>2
<1> QED
  BY <1>1, <1>2 DEF Helpers

\* The retry loop continues only what nobody held.
LEMMA RetriesUnheld ==
  ASSUME TypeOK, PauseInv, StopInv, HoldInv, lost = 0, AutoResume
  PROVE  intent = "run"
<1>1. phase = "paused" /\ Retries(Configured(Saved))
  BY DEF AutoResume, RetryDue
<1>2. intent # "stop"
  BY <1>1, StopNotPaused
<1>3. Saved = ckpt /\ ckpt \in Checkpoints
  BY DEF HoldInv, Holding, Saved, TypeOK, FileType
<1>4. ~Held(ckpt)
  BY <1>1, <1>3, HeldConfigured
<1> QED
  BY <1>2, <1>4 DEF HoldInv, Holding, TypeOK, JobType

LEMMA HoldLoop ==
  ASSUME TypeOK, RunnerInv, PauseInv, StopInv, HoldInv, Loop
  PROVE  HoldInv'
<1>1. CASE StartReply
  <2>1. UNCHANGED <<phase, elsewhere, intent, ckpt, unsaved, lost>> /\ phase = "paused"
    BY <1>1 DEF StartReply, server, faults, files, history
  <2>2. CASE Spawns("reply", "author")
    <3>1. job' = "reply" /\ pipe' = <<>>
      BY <2>2 DEF Spawns
    <3> QED
      BY <2>1, <3>1, LimitEmptied DEF HoldInv, Holding, Held, Unsaid
  <2>3. CASE UNCHANGED <<tokens, runners>>
    <3>1. UNCHANGED <<launches, pipe, reader, job, live>>
      BY <2>3 DEF tokens, runners
    <3> QED
      BY <2>1, <3>1, HoldUntouched, LimitSame DEF HoldInv, Unsaid
  <2> QED
    BY <1>1, <2>2, <2>3 DEF StartReply
<1>2. CASE AutoResume
  <2>1. /\ lost' = lost /\ intent' = intent /\ unsaved' = NoCkpt /\ phase' = "running" /\ pipe' = <<>>
    BY <1>2 DEF AutoResume, Resumes, LaunchesWork, Spawns, faults
  <2>2. lost = 0 => intent' = "run"
    BY <1>2, <2>1, RetriesUnheld
  <2> QED
    BY <2>1, <2>2, LimitEmptied DEF HoldInv, Holding
<1>3. CASE AutoReconfigure
  <2>1. /\ phase = "paused" /\ phase' = "paused" /\ WaitsAt(Configured(Saved), reply)
        /\ ckpt' = AfterNotice(Configured(Saved)) /\ unsaved' = NoCkpt
        /\ UNCHANGED <<reader, job, pipe, lost>>
    BY <1>3 DEF AutoReconfigure, RetryDue, tokens, runners, faults
  <2>2. Saved \in Checkpoints
    BY SavedType
  <2>3. ~(reader' = "reading" /\ job' = "work")
    BY <2>1 DEF PauseInv
  <2>4. lost = 0 => Saved = ckpt /\ Saved.status \in {"pausing", "paused"}
                    /\ (intent \in {"pause", "attention"} => Held(Saved))
    BY <2>1 DEF HoldInv, Holding, Saved
  <2> QED
    BY <2>1, <2>2, <2>3, <2>4, HoldPaused
<1>4. CASE AutoResumeFails
  <2>1. /\ ckpt' = Saved /\ unsaved' = NoCkpt
        /\ UNCHANGED <<phase, elsewhere, intent, launches, lost, pipe, reader, job, live>>
    BY <1>4 DEF AutoResumeFails, server, tokens, faults, runners, history
  <2>2. lost = 0 => ckpt' = ckpt
    BY <2>1 DEF HoldInv, Holding, Saved
  <2> QED
    BY <2>1, <2>2, LimitSame DEF HoldInv, Holding, Held, Unsaid
<1>5. CASE SettingsChange
  <2>1. /\ ckpt' = [ckpt EXCEPT !.block = "none"] /\ ~Held(ckpt) /\ phase = "paused"
        /\ UNCHANGED <<phase, elsewhere, intent, launches, unsaved, lost, pipe, reader, job, live>>
    BY <1>5 DEF SettingsChange, Held, server, tokens, faults, runners, history
  <2>2. ckpt'.status = ckpt.status
    BY <2>1 DEF TypeOK, FileType, Checkpoints
  <2> QED
    BY <2>1, <2>2, LimitSame DEF HoldInv, Holding, Unsaid
<1>6. CASE RetryTimePasses \/ AutoStopReply
  <2>1. UNCHANGED <<phase, elsewhere, intent, ckpt, unsaved, launches, lost, pipe, reader, job, live>>
    BY <1>6 DEF RetryTimePasses, AutoStopReply, server, tokens, faults, files, runners, history
  <2> QED
    BY <2>1, HoldUntouched, LimitSame DEF HoldInv, Unsaid
<1> QED
  BY <1>1, <1>2, <1>3, <1>4, <1>5, <1>6 DEF Loop

LEMMA HoldRunner ==
  ASSUME TypeOK, HoldInv, Runner
  PROVE  HoldInv'
<1>1. UNCHANGED <<phase, elsewhere, intent, ckpt, unsaved, launches, lost, reader, job>>
  BY DEF Runner, RunnerSteps, RunnerPauses, RunnerFinishes, ReplyRetries, ReplyEnds, RunnerDies,
         RunnerOnly, server, tokens, faults, files, history
<1>2. CASE RunnerDies
  BY <1>1, <1>2, HoldUntouched, LimitSame DEF RunnerDies, Exits, HoldInv, Unsaid
<1>3. ASSUME launches \in live, live' \subseteq live,
             \E r \in Records : Writes(r) /\ (r.kind = "paused" /\ r.why = "limit" => r.node = "author")
      PROVE  HoldInv'
  <2>1. PICK r \in Records : Writes(r) /\ (r.kind = "paused" /\ r.why = "limit" => r.node = "author")
    BY <1>3
  <2>2. LimitIsAuthors'
    BY <2>1, LimitWritten DEF HoldInv
  <2> QED
    BY <1>1, <1>3, <2>2, HoldUntouched DEF Unsaid
<1>4. CASE RunnerSteps \/ RunnerFinishes \/ ReplyRetries \/ ReplyEnds
  <2>1. launches \in live /\ live' \subseteq live
    BY <1>4 DEF RunnerSteps, RunnerFinishes, ReplyRetries, ReplyEnds, Attached, Runs, Exits
  <2>2. \E k \in {"submitted", "step", "rejected", "final", "failure", "retry", "attempt", "reply", "refused"} :
          Writes([kind |-> k])
    BY Zenon, <1>4 DEF RunnerSteps, RunnerFinishes, ReplyRetries, ReplyEnds
  <2>3. \E r \in Records : Writes(r) /\ r.kind # "paused"
    BY <2>2 DEF Records
  <2> QED
    BY <1>3, <2>1, <2>3
<1>5. CASE RunnerPauses
  <2>1. /\ launches \in live /\ live' \subseteq live
        /\ \E at \in {"author", "later"}, why \in Reasons :
             /\ why = "limit" => at = "author"
             /\ Writes([kind |-> "paused", node |-> at, why |-> why])
    BY <1>5 DEF RunnerPauses, Attached, Runs, Exits
  <2>2. \E r \in Records : Writes(r) /\ (r.why = "limit" => r.node = "author")
    BY <2>1 DEF Records
  <2> QED
    BY <1>3, <2>1, <2>2
<1> QED
  BY <1>2, <1>4, <1>5 DEF Runner

\* The runner reports a pause: the last thing it does, so its cause is settled.
LEMMA HoldReadPaused ==
  ASSUME TypeOK, RunnerInv, PauseInv, PipeInv, StopInv, HoldInv, ReadPaused
  PROVE  HoldInv'
<1> DEFINE r == Head(pipe)
<1>1. /\ reader = "reading" /\ job = "work" /\ up # "down" /\ ~elsewhere /\ launches # 0
      /\ pipe # <<>> /\ r.kind = "paused" /\ pipe' = Tail(pipe)
      /\ UNCHANGED <<elsewhere, live, launches, job, reader, unsaved, lost>>
  BY DEF ReadPaused, Reading, NextIs, Pop, PauseInv, RunnerInv, server, tokens, faults
<1>2. /\ pipe' = <<>> /\ launches' \notin live' /\ result = "none"
  BY <1>1, PipePop DEF PipeInv, ResultLast, Reads, Endings
<1>3. LimitIsAuthors' /\ ~Unsaid' /\ Unsaid
  BY <1>1, <1>2, LimitEmptied DEF Unsaid
<1>4. CASE phase = "stopping" \/ stopped
  <2>1. UNCHANGED <<ckpt, phase, intent>>
    BY <1>4 DEF ReadPaused
  <2> QED
    BY <1>1, <1>3, <2>1 DEF HoldInv, Holding, Held
<1>5. CASE phase # "stopping" /\ ~stopped
  <2>1. /\ ckpt' = [status |-> "pausing", cause |-> PauseCause(r), node |-> r.node,
                    summary |-> "no", block |-> Block(r.why)]
        /\ phase' = "pausing"
        /\ intent' = IF intent = "run" /\ r.why \in {"limit", "safety"} THEN "attention" ELSE intent
    BY <1>5 DEF ReadPaused
  <2> HIDE DEF r
  <2>2. phase \in {"running", "pausing"} /\ intent # "stop"
    BY <1>1, <1>2, <1>5 DEF PauseInv, StopInv, StopEndsTheJob, HoldInv, TypeOK, JobType
  <2>3. r.why = "limit" => r.node = "author"
    <3>1. 1 \in 1 .. Len(pipe) /\ r = pipe[1]
      BY <1>1 DEF TypeOK, RunnerType, r
    <3> QED
      BY <1>1, <3>1 DEF HoldInv, LimitIsAuthors
  <2>4. ASSUME lost = 0 PROVE intent' \in {"pause", "attention"} => Held(ckpt')
    <3>1. /\ intent # "attention" /\ (phase = "running" => intent = "run")
          /\ phase = "pausing" => /\ ckpt.cause \in {"user", "restart"}
                                  /\ intent = "pause" => ckpt.cause = "user"
      BY <1>1, <1>3, <2>4 DEF HoldInv, Holding
    <3>2. phase = "pausing" /\ ckpt.cause = "user" => PauseCause(r) = "user"
      BY DEF PauseCause
    <3>3. r.why = "limit" => PauseCause(r) \in {"user", "time-limit"}
      BY <2>2, <2>3, <3>1 DEF PauseCause
    <3>4. r.why = "safety" => Block(r.why) = "safety"
      BY DEF Block
    <3>5. ckpt'.status = "pausing" /\ ckpt'.cause = PauseCause(r) /\ ckpt'.block = Block(r.why)
      BY <2>1
    <3>6. intent \in {"run", "pause"}
      BY <2>2, <3>1 DEF TypeOK, JobType
    <3> QED
      BY <2>1, <2>2, <3>1, <3>2, <3>3, <3>4, <3>5, <3>6 DEF Held
  <2>5. ckpt'.status = "pausing"
    BY <2>1
  <2> QED
    BY <1>1, <1>3, <2>1, <2>4, <2>5 DEF HoldInv, Holding
<1> QED
  BY <1>4, <1>5

\* An ended runner leaves the pause the user asked for, or one of a job nobody held.
LEMMA HeldLeftPause ==
  ASSUME TypeOK, RunnerInv, PauseInv, StopInv, HoldInv, lost = 0, Reading("work"), LeftPause # NoCkpt
  PROVE  /\ LeftPause \in Checkpoints /\ LeftPause.status = "paused" /\ unsaved = NoCkpt
         /\ intent \in {"pause", "attention"} => Held(LeftPause)
<1>1. LeftPause \in Checkpoints /\ LeftPause.status = "paused" /\ unsaved = NoCkpt
  BY LeftPauseType DEF HoldInv, Holding
<1>2. ASSUME intent \in {"pause", "attention"} PROVE Held(LeftPause)
  <2>1. /\ up # "down" /\ reader = "reading" /\ job = "work" /\ ~elsewhere /\ launches # 0
    BY DEF Reading, RunnerInv, PauseInv
  <2>2. phase = "pausing"
    <3>1. phase \notin {"ready", "running", "paused", "stopping", "off"}
      BY <1>2, <2>1 DEF HoldInv, Holding, PauseInv, StopInv
    <3>2. phase = "done" => result # "none" /\ (result = "failed" => node = "later")
      BY <2>1 DEF StopInv, FailedLater
    <3>3. phase = "done" => LeftPause = NoCkpt
      BY <3>2 DEF LeftPause, TypeOK, FileType
    <3> QED
      BY <3>1, <3>3 DEF TypeOK, JobType
  <2>3. LeftPause = [ckpt EXCEPT !.status = "paused", !.summary = "no"]
    BY <2>2 DEF LeftPause
  <2>4. LeftPause.cause = ckpt.cause /\ LeftPause.block = ckpt.block
    BY <2>3 DEF TypeOK, FileType, Checkpoints
  <2>5. Held(ckpt)
    BY <1>2 DEF HoldInv, Holding
  <2> QED
    BY <1>1, <2>4, <2>5 DEF Held
<1> QED
  BY <1>1, <1>2

\* A restored job keeps what holds it.
LEMMA HoldRestores ==
  ASSUME TypeOK, PauseInv, HoldInv, NEW keeps \in BOOLEAN, Restores(keeps), UNCHANGED <<pipe, launches>>, reader' = "none",
         phase # "paused"
  PROVE  HoldInv'
<1>0. LimitIsAuthors' /\ unsaved = NoCkpt
  BY LimitSame DEF HoldInv, PauseInv, NoStaleUnsaved
<1>1. CASE Rebuilt = NoCkpt
  <2>1. /\ phase' = (IF launches = 0 THEN "ready" ELSE "done")
        /\ UNCHANGED <<ckpt, unsaved, lost, intent>>
    BY <1>1 DEF Restores, history
  <2> QED
    BY <1>0, <2>1 DEF HoldInv, Holding, Held, Unsaid
<1>2. CASE Rebuilt # NoCkpt
  <2>1. WaitsAt(Configured(Rebuilt), RestoredReply) /\ phase' = "paused"
    BY <1>2 DEF Restores, PausesAt
  <2>2. \/ ckpt' = AfterNotice(Configured(Rebuilt)) /\ UNCHANGED <<unsaved, lost>>
        \/ lost' = lost + 1
    BY <1>2 DEF Restores
  <2>3. Rebuilt \in Checkpoints /\ Rebuilt.status \in {"paused", "pausing"}
    BY <1>2, RebuiltType
  <2>4. lost = 0 /\ intent \in {"pause", "attention"} => Held(Rebuilt)
    <3>1. lost = 0 /\ intent \in {"pause", "attention"} => Held(ckpt) /\ ckpt.status \in {"paused", "pausing"}
      BY DEF HoldInv, Holding, Held
    <3>2. ckpt.status \in {"paused", "pausing"} => Rebuilt = ckpt
      BY <1>2 DEF Rebuilt
    <3> QED
      BY <3>1, <3>2
  <2>5. lost \in Nat
    BY DEF TypeOK
  <2> QED
    BY <1>0, <2>1, <2>2, <2>3, <2>4, <2>5, HoldPaused
<1> QED
  BY <1>1, <1>2

LEMMA HoldReader ==
  ASSUME TypeOK, RunnerInv, PauseInv, PipeInv, StopInv, HoldInv, Reader
  PROVE  HoldInv'
<1>1. CASE ReadStep \/ ReadReply \/ Drain
  <2>1. /\ UNCHANGED <<phase, elsewhere, intent, ckpt, unsaved, launches, lost, reader, job, live>>
        /\ pipe # <<>> /\ pipe' = Tail(pipe)
    BY <1>1 DEF ReadStep, ReadReply, Drain, NextIs, Pop, server, tokens, faults, files, history
  <2> QED
    BY <2>1, HoldUntouched, LimitPop DEF HoldInv, Unsaid
<1>2. CASE ReadPaused
  BY <1>2, HoldReadPaused
<1>3. CASE ReadResult
  <2>1. /\ UNCHANGED <<elsewhere, intent, ckpt, unsaved, launches, lost, reader, job, live>>
        /\ pipe # <<>> /\ pipe' = Tail(pipe) /\ phase' \in {phase, "done"}
    BY <1>3 DEF ReadResult, NextIs, Pop, server, tokens, faults, history
  <2> QED
    BY <2>1, LimitPop DEF HoldInv, Holding, Held, Unsaid
<1>4. CASE SettlePaused
  <2>1. /\ Reading("work") /\ LeftPause # NoCkpt /\ WaitsAt(Configured(LeftPause), reply)
        /\ phase' = "paused"
        /\ ckpt' = AfterNotice(Configured(LeftPause)) /\ reader' = "none"
        /\ UNCHANGED <<unsaved, lost, pipe>>
    BY <1>4 DEF SettlePaused, PausesAt, TokensDropped, runners, faults
  <2>2. LeftPause \in Checkpoints
    BY LeftPauseType
  <2> QED
    BY <2>1, <2>2, HeldLeftPause, HoldPaused
<1>5. CASE SettleDone
  <2>1. /\ phase' = "done" /\ reader' = "none" /\ UNCHANGED <<intent, ckpt, unsaved, lost, pipe>>
    BY <1>5 DEF SettleDone, TokensDropped, runners, faults, history
  <2> QED
    BY <2>1, LimitSame DEF HoldInv, Holding, Held, Unsaid
<1>6. CASE SettleReply
  <2>1. /\ reader' = "none"
        /\ UNCHANGED <<phase, elsewhere, intent, ckpt, unsaved, launches, lost, pipe>>
    BY <1>6 DEF SettleReply, TokensDropped, server, runners, faults, files, history
  <2> QED
    BY <2>1, HoldUntouched, LimitSame DEF HoldInv, Unsaid
<1>7. CASE SettleDrained
  <2>1. Restores(FALSE) /\ reader' = "none" /\ UNCHANGED <<pipe, launches>> /\ reader = "draining"
    BY <1>7 DEF SettleDrained, TokensDropped, runners
  <2>2. phase # "paused"
    BY <2>1 DEF PauseInv
  <2> QED
    BY <2>1, <2>2, HoldRestores
<1> QED
  BY <1>1, <1>2, <1>3, <1>4, <1>5, <1>6, <1>7 DEF Reader

LEMMA HoldFailing ==
  ASSUME TypeOK, RunnerInv, PauseInv, StopInv, HoldInv, Failing
  PROVE  HoldInv'
<1>1. CASE ReaderBreaks
  <2>1. /\ UNCHANGED <<phase, elsewhere, intent, ckpt, unsaved, launches, lost>> /\ reader' = "draining"
        /\ pipe' = IF pipe = <<>> THEN pipe ELSE Tail(pipe)
    BY <1>1 DEF ReaderBreaks, server, files, history
  <2>2. LimitIsAuthors'
    BY <2>1, LimitPop, LimitSame DEF HoldInv
  <2> QED
    BY <2>1, <2>2, HoldUntouched DEF Unsaid
<1>2. CASE ReaderVanishes
  <2>1. UNCHANGED <<phase, elsewhere, intent, ckpt, unsaved, launches, lost, pipe>> /\ reader' = "gone"
    BY <1>2 DEF ReaderVanishes, server, files, runners, history
  <2> QED
    BY <2>1, HoldUntouched, LimitSame DEF HoldInv, Unsaid
<1>3. CASE CrashWhileSettling
  <2> DEFINE c == LeftPause
  <2>1. /\ Reading("work") /\ c # NoCkpt /\ ckpt' = Configured(c) /\ lost' = lost
        /\ intent' = IF Configured(c).cause = "time-limit" /\ intent = "run" THEN "attention" ELSE intent
        /\ phase' = "off" /\ reader' = "none" /\ pipe' = <<>> /\ unsaved' = NoCkpt
    BY <1>3 DEF CrashWhileSettling, MemoryLost, faults
  <2>2. ASSUME lost = 0 PROVE intent' \in {"pause", "attention"} => Held(ckpt')
    <3>1. c \in Checkpoints /\ c.status = "paused" /\ (intent \in {"pause", "attention"} => Held(c))
      BY <2>1, <2>2, HeldLeftPause
    <3> HIDE DEF c
    <3> QED
      BY <2>1, <3>1, HeldConfigured DEF TypeOK, JobType
  <2> HIDE DEF c
  <2> QED
    BY <2>1, <2>2, LimitEmptied DEF HoldInv, Holding, Unsaid
<1> QED
  BY <1>1, <1>2, <1>3 DEF Failing

LEMMA HoldProcess ==
  ASSUME TypeOK, RunnerInv, PauseInv, StopInv, HoldInv, Process
  PROVE  HoldInv'
<1>1. CASE Crash \/ Exit
  BY <1>1, HoldMemoryLost DEF Crash, Exit, files, faults, history
<1>2. CASE Close
  <2>1. UNCHANGED <<elsewhere, reader, job, live, launches, pipe, unsaved, lost, intent>>
    BY <1>2 DEF Close, runners, faults, history
  <2>2. CASE PausesAuthor("restart") /\ ~elsewhere
    <3>1. /\ phase = "running" /\ phase' = "pausing"
          /\ ckpt' = [NoCkpt EXCEPT !.status = "pausing", !.cause = "restart"]
      BY <2>2 DEF PausesAuthor
    <3>2. ckpt'.status = "pausing" /\ ckpt'.cause = "restart"
      BY <3>1 DEF NoCkpt
    <3>3. lost = 0 => intent = "run"
      BY <2>2, <3>1 DEF HoldInv, Holding
    <3> QED
      BY <2>1, <3>1, <3>2, <3>3, LimitSame DEF HoldInv, Holding
  <2>3. CASE UNCHANGED <<phase, auto, ckpt, request, finisher>>
    BY <2>1, <2>3, HoldUntouched, LimitSame DEF HoldInv, Unsaid
  <2> QED
    BY <1>2, <2>2, <2>3 DEF Close
<1>3. CASE Restart
  <2>1. reader = "none" /\ UNCHANGED <<reader, pipe, launches>> /\ phase # "paused"
    BY <1>3 DEF Restart, tokens, runners, RunnerInv, PauseInv
  <2>2. CASE live # {}
    <3>1. phase' = "running" /\ elsewhere' = TRUE /\ UNCHANGED <<ckpt, unsaved, intent, lost>>
      BY <1>3, <2>2 DEF Restart, history
    <3> QED
      BY <2>1, <3>1, LimitSame DEF HoldInv, Holding, Held, Unsaid
  <2>3. CASE live = {}
    BY <1>3, <2>1, <2>3, HoldRestores DEF Restart
  <2> QED
    BY <2>2, <2>3
<1>4. CASE Adopt
  BY <1>4, HoldRestores DEF Adopt, tokens, runners, RunnerInv, PauseInv
<1> QED
  BY <1>1, <1>2, <1>3, <1>4 DEF Process

LEMMA HoldNext ==
  ASSUME TypeOK, RunnerInv, PauseInv, PipeInv, StopInv, HoldInv, [Next]_vars
  PROVE  HoldInv'
<1>1. CASE UNCHANGED vars
  BY <1>1, HoldUntouched, LimitSame
     DEF vars, server, tokens, files, runners, faults, history, HoldInv, Unsaid
<1> QED
  BY <1>1, HoldUser, HoldHelpers, HoldLoop, HoldRunner, HoldReader, HoldFailing, HoldProcess DEF Next

\* The job's own work is launched by the user, or by the retry loop.
LEMMA LaunchIsAsked ==
  ASSUME TypeOK, PauseInv, StopInv, HoldInv, [Next]_vars, lost = 0
  PROVE  ~UnaskedLaunch
<1> SUFFICES ASSUME UnaskedLaunch PROVE FALSE
  OBVIOUS
<1>1. phase' = "running" /\ launches' # launches /\ intent # "run" /\ intent' # "run"
  BY DEF UnaskedLaunch
<1>2. CASE User
  BY <1>1, <1>2 DEF User, Start, Pause, KeepPaused, Stop, Resume, Continue, ChangeLimit, AskAuthor,
                    StopReply, runners
<1>3. CASE Loop
  <2>1. CASE AutoResume
    BY <1>1, <2>1, RetriesUnheld
  <2>2. CASE StartReply
    BY <1>1, <2>2 DEF StartReply
  <2>3. CASE RetryTimePasses \/ AutoStopReply \/ AutoReconfigure \/ AutoResumeFails \/ SettingsChange
    BY <1>1, <2>3 DEF RetryTimePasses, AutoStopReply, AutoReconfigure, AutoResumeFails, SettingsChange, runners
  <2> QED
    BY <1>3, <2>1, <2>2, <2>3 DEF Loop
<1>4. CASE Helpers \/ Runner \/ Reader
  BY <1>1, <1>4 DEF Helpers, StopSettles, PauseSettles, Runner, RunnerSteps, RunnerPauses, RunnerFinishes,
                    ReplyRetries, ReplyEnds, RunnerDies, RunnerOnly, Reader, ReadStep, ReadPaused,
                    ReadResult, SettlePaused, SettleDone, ReadReply, SettleReply, Drain, SettleDrained,
                    Pop, runners
<1>5. CASE Failing \/ Process
  BY <1>1, <1>5 DEF Failing, ReaderBreaks, ReaderVanishes, CrashWhileSettling, Process, Crash, Close,
                    Exit, Restart, Adopt, runners
<1>6. CASE UNCHANGED vars
  BY <1>1, <1>6 DEF vars, runners
<1> QED
  BY <1>2, <1>3, <1>4, <1>5, <1>6 DEF Next

\* While every checkpoint could be saved, no step ever launches the work of a job
\* the user paused or stopped, or that only the user may continue: not the retry
\* loop, not a restart, and not a pause the runner itself reports late.
THEOREM PausesHold == Spec => SavedPausesHold
<1> DEFINE Inv == TypeOK /\ RunnerInv /\ PauseInv /\ PipeInv /\ StopInv /\ HoldInv
<1>1. Init => Inv
  BY TypeInit, RunnerInvInit, PauseInvInit, PipeInvInit, StopInvInit, HoldInvInit
<1>2. Inv /\ [Next]_vars => Inv'
  BY TypeNext, RunnerNext, PauseNext, PipeNext, StopNext, HoldNext
<1>3. Inv /\ [Next]_vars => [lost = 0 => ~UnaskedLaunch]_vars
  BY LaunchIsAsked
<1> HIDE DEF Inv
<1> QED
  BY <1>1, <1>2, <1>3, PTL DEF Spec, SavedPausesHold

=============================================================================
